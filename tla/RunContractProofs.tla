-------------------------- MODULE RunContractProofs --------------------------
(***************************************************************************)
(* The rows implement RunContract: a step is a step of one run of the      *)
(* contract, or changes nothing the contract speaks of.                    *)
(***************************************************************************)
EXTENDS AgentRunsProofs

\* What the contract sees of a row.
StateOf(row) == CASE row.status = "absent" -> "none"
                  [] row.status = "queued" -> "waiting"
                  [] row.status \in Held -> "held"
                  [] OTHER -> row.status
HolderOf(row) == IF row.status \in Held THEN row.claimedBy ELSE NoOne
ExpiredOf(row) == row.status \in Held /\ row.lease \in {"lapsed", "lost"}

\* A row as the contract sees it.
LEMMA Seen ==
  ASSUME NEW r \in Runs
  PROVE  /\ RunState(r) = StateOf(run[r])
         /\ RunHolder(r) = HolderOf(run[r])
         /\ RunExpired(r) = ExpiredOf(run[r])
BY DEF RunState, RunHolder, RunExpired, StateOf, HolderOf, ExpiredOf, IsHeld, Lapsed

LEMMA SeenNext ==
  ASSUME NEW r \in Runs
  PROVE  /\ RunState(r)' = StateOf(run'[r])
         /\ RunHolder(r)' = HolderOf(run'[r])
         /\ RunExpired(r)' = ExpiredOf(run'[r])
BY DEF RunState, RunHolder, RunExpired, StateOf, HolderOf, ExpiredOf, IsHeld, Lapsed

\* The four views of the rows.
States == [s \in Runs |-> RunState(s)]
Holders == [s \in Runs |-> RunHolder(s)]
Expiries == [s \in Runs |-> RunExpired(s)]
Requests == [s \in Runs |-> run[s].cancel]

\* Writing one row changes one run of the contract.
LEMMA WriteSeen ==
  ASSUME TypeOK, NEW r \in Runs, NEW row \in Row, Writes(r, row)
  PROVE  /\ States' = [States EXCEPT ![r] = StateOf(row)]
         /\ Holders' = [Holders EXCEPT ![r] = HolderOf(row)]
         /\ Expiries' = [Expiries EXCEPT ![r] = ExpiredOf(row)]
         /\ Requests' = [Requests EXCEPT ![r] = row.cancel]
<1>1. run'[r] = row /\ \A s \in Runs \ {r} : run'[s] = run[s]
  BY DEF Writes, TypeOK
<1>2. \A s \in Runs : /\ RunState(s)' = IF s = r THEN StateOf(row) ELSE RunState(s)
                      /\ RunHolder(s)' = IF s = r THEN HolderOf(row) ELSE RunHolder(s)
                      /\ RunExpired(s)' = IF s = r THEN ExpiredOf(row) ELSE RunExpired(s)
                      /\ run'[s].cancel = IF s = r THEN row.cancel ELSE run[s].cancel
  BY <1>1, Seen, SeenNext
<1>3. States' = [States EXCEPT ![r] = StateOf(row)]
  BY <1>2 DEF States
<1>4. Holders' = [Holders EXCEPT ![r] = HolderOf(row)]
  BY <1>2 DEF Holders
<1>5. Expiries' = [Expiries EXCEPT ![r] = ExpiredOf(row)]
  BY <1>2 DEF Expiries
<1>6. Requests' = [Requests EXCEPT ![r] = row.cancel]
  BY <1>2 DEF Requests
<1>7. QED
  BY <1>3, <1>4, <1>5, <1>6

\* What a row does not change, its view does not change either.
LEMMA SameView ==
  ASSUME TypeOK, NEW r \in Runs
  PROVE  /\ [States EXCEPT ![r] = StateOf(run[r])] = States
         /\ [Holders EXCEPT ![r] = HolderOf(run[r])] = Holders
         /\ [Expiries EXCEPT ![r] = ExpiredOf(run[r])] = Expiries
         /\ [Requests EXCEPT ![r] = run[r].cancel] = Requests
BY Seen DEF States, Holders, Expiries, Requests

\* A step of one run of the contract.
ContractStep(r) ==
  \/ Contract!Accept(r) \/ Contract!Return(r) \/ Contract!Expire(r) \/ Contract!Ask(r)
  \/ \E e \in Executors : Contract!Grant(e, r)
  \/ \E outcome \in Ended, stop \in BOOLEAN : Contract!End(r, outcome, stop)
Unseen == UNCHANGED <<States, Holders, Expiries, Requests>>

\* The contract's actions over the views.
LEMMA Accepted ==
  ASSUME NEW r \in Runs, States[r] = "none",
         States' = [States EXCEPT ![r] = "waiting"],
         Holders' = Holders, Expiries' = Expiries, Requests' = Requests
  PROVE  Contract!Accept(r)
BY DEF Contract!Accept, States, Holders, Expiries, Requests

LEMMA Granted ==
  ASSUME NEW r \in Runs, NEW e,
         States[r] \in {"none", "waiting"} \/ (States[r] = "held" /\ Expiries[r]),
         ~Requests[r],
         States' = [States EXCEPT ![r] = "held"],
         Holders' = [Holders EXCEPT ![r] = e],
         Expiries' = [Expiries EXCEPT ![r] = FALSE],
         Requests' = Requests
  PROVE  Contract!Grant(e, r)
BY DEF Contract!Grant, States, Holders, Expiries, Requests

LEMMA Returned ==
  ASSUME NEW r \in Runs, States[r] = "held", ~Requests[r],
         States' = [States EXCEPT ![r] = "waiting"],
         Holders' = [Holders EXCEPT ![r] = NoOne],
         Expiries' = [Expiries EXCEPT ![r] = FALSE],
         Requests' = Requests
  PROVE  Contract!Return(r)
BY DEF Contract!Return, States, Holders, Expiries, Requests

LEMMA Expired ==
  ASSUME NEW r \in Runs, States[r] = "held",
         Expiries' = [Expiries EXCEPT ![r] = TRUE],
         States' = States, Holders' = Holders, Requests' = Requests
  PROVE  Contract!Expire(r)
BY DEF Contract!Expire, States, Holders, Expiries, Requests

LEMMA AskedFor ==
  ASSUME NEW r \in Runs, States[r] = "held",
         Requests' = [Requests EXCEPT ![r] = TRUE],
         States' = States, Holders' = Holders, Expiries' = Expiries
  PROVE  Contract!Ask(r)
BY DEF Contract!Ask, States, Holders, Expiries, Requests

LEMMA EndedAs ==
  ASSUME NEW r \in Runs, NEW outcome, NEW stop,
         States[r] = "held" \/ (States[r] = "waiting" /\ outcome \in {"cancelled"}),
         States' = [States EXCEPT ![r] = outcome],
         Holders' = [Holders EXCEPT ![r] = NoOne],
         Expiries' = [Expiries EXCEPT ![r] = FALSE],
         Requests' = [Requests EXCEPT ![r] = (Requests[r] \/ stop)]
  PROVE  Contract!End(r, outcome, stop)
BY DEF Contract!End, States, Holders, Expiries, Requests

-----------------------------------------------------------------------------
\* A birth is an acceptance, or a grant to the Mac that admitted the run.
LEMMA BirthSeen ==
  ASSUME TypeOK, GoodRows, NEW r \in Runs, Born(r)
  PROVE  ContractStep(r)
<1>1. PICK by \in Desktops \cup {NoOne}, hold \in BOOLEAN : Writes(r, NewRow(by, hold))
  BY DEF Born
<1> DEFINE row == NewRow(by, hold)
<1>2. row \in Row /\ row.cancel = FALSE
  BY NewRowFacts
<1>3. /\ StateOf(run[r]) = "none" /\ HolderOf(run[r]) = NoOne
      /\ ExpiredOf(run[r]) = FALSE /\ run[r].cancel = FALSE
  <2>1. run[r].status = "absent"
    BY DEF Born
  <2>2. run[r] = EmptyRow
    BY <2>1 DEF GoodRows, Good
  <2>3. run[r].cancel = FALSE
    BY <2>2 DEF EmptyRow
  <2>4. QED
    BY <2>1, <2>3 DEF StateOf, HolderOf, ExpiredOf, Held
<1>4. States[r] = "none" /\ Requests[r] = FALSE
  BY <1>3, Seen DEF States, Requests
<1>5. CASE by = NoOne
  <2>1. StateOf(row) = "waiting" /\ HolderOf(row) = NoOne /\ ExpiredOf(row) = FALSE
    BY <1>5, NewRowFacts DEF StateOf, HolderOf, ExpiredOf, Held
  <2>2. /\ States' = [States EXCEPT ![r] = "waiting"]
        /\ Holders' = Holders /\ Expiries' = Expiries /\ Requests' = Requests
    <3>1. /\ States' = [States EXCEPT ![r] = "waiting"]
          /\ Holders' = [Holders EXCEPT ![r] = NoOne]
          /\ Expiries' = [Expiries EXCEPT ![r] = FALSE]
          /\ Requests' = [Requests EXCEPT ![r] = FALSE]
      BY <1>1, <1>2, <2>1, WriteSeen
    <3>2. QED
      BY <3>1, <1>3, SameView
  <2>3. Contract!Accept(r)
    BY <1>4, <2>2, Accepted
  <2>4. QED
    BY <2>3 DEF ContractStep
<1>6. CASE by # NoOne
  <2>1. by \in Executors /\ StateOf(row) = "held" /\ HolderOf(row) = by /\ ExpiredOf(row) = FALSE
    BY <1>6, NewRowFacts DEF StateOf, HolderOf, ExpiredOf, Held, Executors
  <2>2. /\ States' = [States EXCEPT ![r] = "held"]
        /\ Holders' = [Holders EXCEPT ![r] = by]
        /\ Expiries' = [Expiries EXCEPT ![r] = FALSE]
        /\ Requests' = [Requests EXCEPT ![r] = FALSE]
    BY <1>1, <1>2, <2>1, WriteSeen
  <2>3. Requests' = Requests
    BY <2>2, <1>3, SameView
  <2>4. Contract!Grant(by, r)
    BY <1>4, <2>2, <2>3, Granted
  <2>5. QED
    BY <2>1, <2>4 DEF ContractStep
<1>7. QED
  BY <1>5, <1>6

\* A queued run a Mac takes, and a queued or lapsed run a runner leases, are
\* granted: neither was asked to stop.
LEMMA GrantSeen ==
  ASSUME TypeOK, NEW r \in Runs, MovesToMac(r) \/ MovesToCloud(r)
  PROVE  ContractStep(r)
<1> run[r] \in Row
  BY DEF TypeOK
<1>1. States[r] = "waiting" \/ (States[r] = "held" /\ Expiries[r])
  BY Seen DEF MovesToMac, MovesToCloud, Eligible, IsHeld, Lapsed, States, Expiries,
     StateOf, ExpiredOf, Held
<1>2. run[r].cancel = FALSE /\ Requests[r] = FALSE
  BY DEF MovesToMac, MovesToCloud, Eligible, Requests, Row
<1>3. PICK e \in Executors, row \in Row :
        /\ Writes(r, row) /\ row.cancel = run[r].cancel
        /\ row.status = "leased" /\ row.claimedBy = e /\ row.lease = "live"
  <2>1. CASE MovesToMac(r)
    BY <2>1, TakenFacts DEF MovesToMac, Executors
  <2>2. CASE MovesToCloud(r)
    BY <2>2, LeasedByFacts DEF MovesToCloud, Executors
  <2>3. QED
    BY <2>1, <2>2
<1>4. StateOf(row) = "held" /\ HolderOf(row) = e /\ ExpiredOf(row) = FALSE
  BY <1>3 DEF StateOf, HolderOf, ExpiredOf, Held
<1>5. /\ States' = [States EXCEPT ![r] = "held"]
      /\ Holders' = [Holders EXCEPT ![r] = e]
      /\ Expiries' = [Expiries EXCEPT ![r] = FALSE]
      /\ Requests' = [Requests EXCEPT ![r] = run[r].cancel]
  BY <1>3, <1>4, WriteSeen
<1>6. Requests' = Requests
  BY <1>5, SameView
<1>7. Contract!Grant(e, r)
  BY <1>1, <1>2, <1>5, <1>6, Granted
<1>8. QED
  BY <1>7 DEF ContractStep

\* A run that is handed back waits again.
LEMMA ReturnSeen ==
  ASSUME TypeOK, NEW r \in Runs, Returns(r)
  PROVE  ContractStep(r)
<1> run[r] \in Row /\ run[r].cancel = FALSE
  BY DEF TypeOK, Returns, Row
<1> DEFINE row == BackInQueue(run[r])
<1>1. row \in Row /\ row.status = "queued" /\ row.cancel = FALSE /\ Writes(r, row)
  BY BackInQueueFacts DEF Returns
<1>2. States[r] = "held" /\ Requests[r] = FALSE
  BY Seen DEF Returns, HoldsRun, IsHeld, Held, States, Requests, StateOf
<1>3. StateOf(row) = "waiting" /\ HolderOf(row) = NoOne /\ ExpiredOf(row) = FALSE
  BY <1>1 DEF StateOf, HolderOf, ExpiredOf, Held
<1>4. /\ States' = [States EXCEPT ![r] = "waiting"]
      /\ Holders' = [Holders EXCEPT ![r] = NoOne]
      /\ Expiries' = [Expiries EXCEPT ![r] = FALSE]
      /\ Requests' = [Requests EXCEPT ![r] = FALSE]
  BY <1>1, <1>3, WriteSeen
<1>5. Requests' = Requests
  BY <1>4, SameView
<1>6. Contract!Return(r)
  BY <1>2, <1>4, <1>5, Returned
<1>7. QED
  BY <1>6 DEF ContractStep

\* The end of a hold, a start and a renewed phase are not seen; a held run is
\* asked to stop or its lease runs out.
LEMMA HeldSeen ==
  ASSUME TypeOK, NEW r \in Runs,
         LosesHold(r) \/ Starts(r) \/ Continues(r) \/ IsAsked(r) \/ Ages(r)
  PROVE  ContractStep(r) \/ Unseen
<1> run[r] \in Row
  BY DEF TypeOK
<1>1. CASE LosesHold(r)
  <2>1. Unheld(run[r]) \in Row /\ Writes(r, Unheld(run[r]))
    BY <1>1, UnheldFacts DEF LosesHold
  <2>2. /\ StateOf(Unheld(run[r])) = StateOf(run[r])
        /\ HolderOf(Unheld(run[r])) = HolderOf(run[r])
        /\ ExpiredOf(Unheld(run[r])) = ExpiredOf(run[r])
        /\ Unheld(run[r]).cancel = run[r].cancel
    BY UnheldFacts DEF StateOf, HolderOf, ExpiredOf
  <2>3. QED
    BY <2>1, <2>2, WriteSeen, SameView DEF Unseen
<1>2. ASSUME NEW status \in Held, IsHeld(r), Writes(r, WithStatus(run[r], status))
      PROVE  Unseen
  <2>1. WithStatus(run[r], status) \in Row
    BY WithStatusFacts
  <2>2. /\ StateOf(WithStatus(run[r], status)) = StateOf(run[r])
        /\ HolderOf(WithStatus(run[r], status)) = HolderOf(run[r])
        /\ ExpiredOf(WithStatus(run[r], status)) = ExpiredOf(run[r])
        /\ WithStatus(run[r], status).cancel = run[r].cancel
    BY <1>2, WithStatusFacts DEF IsHeld, StateOf, HolderOf, ExpiredOf, Held
  <2>3. QED
    BY <1>2, <2>1, <2>2, WriteSeen, SameView DEF Unseen
<1>3. CASE Starts(r) \/ Continues(r)
  BY <1>2, <1>3 DEF Starts, Continues, IsHeld, Held
<1>4. IsHeld(r) => States[r] = "held"
  BY Seen DEF IsHeld, Held, States, StateOf
<1>5. CASE IsAsked(r)
  <2>1. Asked(run[r]) \in Row /\ Writes(r, Asked(run[r])) /\ Asked(run[r]).cancel = TRUE
    BY <1>5, AskedFacts DEF IsAsked
  <2>2. /\ StateOf(Asked(run[r])) = StateOf(run[r])
        /\ HolderOf(Asked(run[r])) = HolderOf(run[r])
        /\ ExpiredOf(Asked(run[r])) = ExpiredOf(run[r])
    BY AskedFacts DEF StateOf, HolderOf, ExpiredOf
  <2>3. /\ States' = [States EXCEPT ![r] = StateOf(run[r])]
        /\ Holders' = [Holders EXCEPT ![r] = HolderOf(run[r])]
        /\ Expiries' = [Expiries EXCEPT ![r] = ExpiredOf(run[r])]
        /\ Requests' = [Requests EXCEPT ![r] = TRUE]
    BY <2>1, <2>2, WriteSeen
  <2>4. States' = States /\ Holders' = Holders /\ Expiries' = Expiries
    BY <2>3, SameView
  <2>5. Contract!Ask(r)
    BY <1>4, <1>5, <2>3, <2>4, AskedFor DEF IsAsked
  <2>6. QED
    BY <2>5 DEF ContractStep
<1>6. CASE Ages(r)
  <2>1. PICK lease \in {"lapsed", "lost"} : Writes(r, WithLease(run[r], lease))
    BY <1>6 DEF Ages
  <2>2. WithLease(run[r], lease) \in Row
    BY WithLeaseFacts
  <2>3. /\ StateOf(WithLease(run[r], lease)) = StateOf(run[r])
        /\ HolderOf(WithLease(run[r], lease)) = HolderOf(run[r])
        /\ ExpiredOf(WithLease(run[r], lease)) = TRUE
        /\ WithLease(run[r], lease).cancel = run[r].cancel
    BY <1>6, WithLeaseFacts DEF Ages, IsHeld, StateOf, HolderOf, ExpiredOf
  <2>4. /\ States' = [States EXCEPT ![r] = StateOf(run[r])]
        /\ Holders' = [Holders EXCEPT ![r] = HolderOf(run[r])]
        /\ Expiries' = [Expiries EXCEPT ![r] = TRUE]
        /\ Requests' = [Requests EXCEPT ![r] = run[r].cancel]
    BY <2>1, <2>2, <2>3, WriteSeen
  <2>5. States' = States /\ Holders' = Holders /\ Requests' = Requests
    BY <2>4, SameView
  <2>6. Contract!Expire(r)
    BY <1>4, <1>6, <2>4, <2>5, Expired DEF Ages
  <2>7. QED
    BY <2>6 DEF ContractStep
<1>7. QED
  BY <1>1, <1>3, <1>5, <1>6

\* A run ends: a held run in any way, a waiting one only cancelled.
LEMMA EndSeen ==
  ASSUME TypeOK, NEW r \in Runs, IsWithdrawn(r) \/ Ends(r)
  PROVE  ContractStep(r)
<1> run[r] \in Row
  BY DEF TypeOK
<1>1. PICK outcome \in Ended, stop \in BOOLEAN, row \in Row :
        /\ Writes(r, row) /\ row.status = outcome
        /\ row.cancel = (run[r].cancel \/ stop)
        /\ IsHeld(r) \/ (IsActive(r) /\ outcome = "cancelled")
  <2>1. CASE IsWithdrawn(r)
    BY <2>1, WithdrawnFacts DEF IsWithdrawn, Ended
  <2>2. CASE Ends(r)
    <3>1. PICK outcome \in Ended, stop \in BOOLEAN :
            Writes(r, WithStatus(run[r], outcome)) \/ Writes(r, Closed(run[r], outcome))
              \/ Writes(r, Interrupted(run[r], outcome, stop))
      BY <2>2 DEF Ends
    <3>2. /\ WithStatus(run[r], outcome) \in Row
          /\ WithStatus(run[r], outcome).status = outcome
          /\ WithStatus(run[r], outcome).cancel = run[r].cancel
      BY WithStatusFacts
    <3>3. /\ Closed(run[r], outcome) \in Row
          /\ Closed(run[r], outcome).status = outcome
          /\ Closed(run[r], outcome).cancel = run[r].cancel
      BY ClosedFacts
    <3>4. /\ Interrupted(run[r], outcome, stop) \in Row
          /\ Interrupted(run[r], outcome, stop).status = outcome
          /\ Interrupted(run[r], outcome, stop).cancel = (run[r].cancel \/ stop)
      BY InterruptedFacts
    <3>5. run[r].cancel \in BOOLEAN /\ IsHeld(r)
      BY <2>2 DEF Row, Ends
    <3>6. CASE Writes(r, WithStatus(run[r], outcome))
      BY <3>2, <3>5, <3>6
    <3>7. CASE Writes(r, Closed(run[r], outcome))
      BY <3>3, <3>5, <3>7
    <3>8. CASE Writes(r, Interrupted(run[r], outcome, stop))
      BY <3>4, <3>5, <3>8
    <3>9. QED
      BY <3>1, <3>6, <3>7, <3>8
  <2>3. QED
    BY <2>1, <2>2
<1>2. States[r] = "held" \/ (States[r] = "waiting" /\ outcome = "cancelled")
  BY <1>1, Seen DEF IsHeld, IsActive, Held, States, StateOf
<1>3. StateOf(row) = outcome /\ HolderOf(row) = NoOne /\ ExpiredOf(row) = FALSE
  BY <1>1 DEF StateOf, HolderOf, ExpiredOf, Held, Ended
<1>4. Requests[r] = run[r].cancel
  BY DEF Requests
<1>5. /\ States' = [States EXCEPT ![r] = outcome]
      /\ Holders' = [Holders EXCEPT ![r] = NoOne]
      /\ Expiries' = [Expiries EXCEPT ![r] = FALSE]
  BY <1>1, <1>3, WriteSeen
<1>6. Requests' = [Requests EXCEPT ![r] = (Requests[r] \/ stop)]
  BY <1>1, <1>4, WriteSeen
<1>7. Contract!End(r, outcome, stop)
  BY <1>2, <1>5, <1>6, EndedAs
<1>8. QED
  BY <1>7 DEF ContractStep

\* Every interleaving of the handlers keeps the contract.
THEOREM RunsImplementContract == Spec => RunsKeepContract
<1>1. Init => Contract!Init
  <2> SUFFICES ASSUME Init PROVE Contract!Init
    OBVIOUS
  <2>1. \A r \in Runs : run[r].status = "absent" /\ run[r].cancel = FALSE
    BY DEF Init, EmptyRow
  <2>2. \A r \in Runs : RunState(r) = "none" /\ RunHolder(r) = NoOne /\ RunExpired(r) = FALSE
    BY <2>1, Seen DEF StateOf, HolderOf, ExpiredOf, Held
  <2>3. QED
    BY <2>1, <2>2 DEF Contract!Init
<1>2. RowsInv /\ [Next]_vars => [Contract!Next]_(Contract!vars)
  <2> SUFFICES ASSUME RowsInv, [Next]_vars PROVE [Contract!Next]_(Contract!vars)
    OBVIOUS
  <2> TypeOK /\ GoodRows /\ RowsChange
    BY EveryStepMoves DEF RowsInv
  <2>1. CASE UNCHANGED run
    BY <2>1 DEF Contract!vars, RunState, RunHolder, RunExpired, IsHeld, Lapsed
  <2>2. ASSUME NEW r \in Runs, Move(r) \/ Born(r)
        PROVE  ContractStep(r) \/ Unseen
    BY <2>2, BirthSeen, GrantSeen, ReturnSeen, HeldSeen, EndSeen DEF Move
  <2>3. ASSUME NEW r \in Runs, ContractStep(r)
        PROVE  Contract!Moves
    BY <2>3 DEF ContractStep, Contract!Moves, Contract!Outcomes, Ended
  <2>4. Unseen => UNCHANGED Contract!vars
    BY DEF Unseen, Contract!vars, States, Holders, Expiries, Requests
  <2>5. QED
    BY <2>1, <2>2, <2>3, <2>4 DEF RowsChange, Contract!Next
<1>3. QED
  BY <1>1, <1>2, RowsInvariance, PTL DEF Spec, RunsKeepContract, Contract!Spec

-----------------------------------------------------------------------------
(* What follows for every run of a system that keeps the contract.         *)

Promise(r) == Contract!OutcomeStays(r) /\ Contract!HolderStays(r) /\ Contract!StopStays(r)

LEMMA MovesPromise ==
  ASSUME Contract!Moves, NEW r \in Runs
  PROVE  Promise(r)
<1> USE DEF Promise, Contract!OutcomeStays, Contract!HolderStays, Contract!StopStays,
            Contract!Outcomes
<1>1. PICK q \in Runs :
        \/ Contract!Accept(q) \/ Contract!Return(q) \/ Contract!Expire(q) \/ Contract!Ask(q)
        \/ \E e \in Executors : Contract!Grant(e, q)
        \/ \E outcome \in Contract!Outcomes, stop \in BOOLEAN : Contract!End(q, outcome, stop)
  BY DEF Contract!Moves
<1>2. CASE Contract!Accept(q)
  BY <1>2 DEF Contract!Accept
<1>3. CASE Contract!Return(q)
  BY <1>3 DEF Contract!Return
<1>4. CASE Contract!Expire(q)
  BY <1>4 DEF Contract!Expire
<1>5. CASE Contract!Ask(q)
  BY <1>5 DEF Contract!Ask
<1>6. ASSUME NEW e \in Executors, Contract!Grant(e, q) PROVE Promise(r)
  BY <1>6 DEF Contract!Grant
<1>7. ASSUME NEW outcome \in Contract!Outcomes, NEW stop \in BOOLEAN,
             Contract!End(q, outcome, stop)
      PROVE  Promise(r)
  BY <1>7 DEF Contract!End
<1> QED
  BY <1>1, <1>2, <1>3, <1>4, <1>5, <1>6, <1>7

\* Whatever keeps the contract ends each run once, takes none from a live
\* lease and gives none to anybody after a stop.
LEMMA ContractPromises == RunsKeepContract => Contract!PromisesKept
<1> DEFINE Kept == \A r \in Runs :
             Contract!OutcomeStays(r) /\ Contract!HolderStays(r) /\ Contract!StopStays(r)
<1>1. Contract!Next => Kept
  BY MovesPromise DEF Promise, Contract!Next
<1>2. Contract!PromisesKept <=> [][Kept]_(Contract!vars)
  BY DEF Contract!PromisesKept
<1>3. RunsKeepContract => [][Contract!Next]_(Contract!vars)
  BY DEF RunsKeepContract, Contract!Spec
<1> HIDE DEF Kept
<1> QED
  BY <1>1, <1>2, <1>3, PTL

\* So do the handlers of the server, which know nothing of the contract.
THEOREM RunsKeepPromises == Spec => Contract!PromisesKept
BY RunsImplementContract, ContractPromises
=============================================================================
