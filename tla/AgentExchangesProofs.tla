------------------------- MODULE AgentExchangesProofs -------------------------
(***************************************************************************)
(* Proofs about the exchanges of a request.  The invariant says, for each  *)
(* exchange, which of its runs may exist and may still be active in each   *)
(* status (ExchangeInv), that only the request's own run ends by itself     *)
(* after it was asked to stop (TurnsInv), and that what reconciliation     *)
(* found of the parent is still so when it commits (LockInv): a run that   *)
(* is over stays so.                                                       *)
(***************************************************************************)
EXTENDS AgentExchanges, TLAPS

Over(r) == runs[r].status \in {"completed", "failed"}

Done(r) == Over(r) /\ ~runs[r].stop

TurnsInv == \A r \in ExchangeRuns \ {Root} : Over(r) => ~runs[r].stop

\* What an exchange's row says of its runs.
ExchangeInv(x) ==
  LET row == exchanges[x] IN
  /\ row.status = "none" => row.answer = "none" /\ runs[Target(x)].status = "none"
  /\ row.status # "none" => row.parent \in ExchangeRuns
  /\ row.status = "pending" => row.answer = "none"
  /\ row.status = "reply_received" => row.answer # "none"
  /\ row.public = (row.answer = "reply")
  /\ row.status \notin {"none", "pending"} => ~IsActiveRun(runs[Target(x)])
  /\ row.status \in ExchangeEnds => ~IsActiveRun(runs[Continuation(x)])
  /\ runs[Continuation(x)].status # "none" =>
       /\ row.status \in {"resuming"} \cup ExchangeEnds
       /\ row.answer # "none"
       /\ Done(row.parent)

LockInv ==
  locked # Nothing /\ locked.op = "reconcile" =>
    /\ exchanges[locked.exchange].status # "none"
    /\ locked.allowed /\ locked.parentOver => Done(exchanges[locked.exchange].parent)

ExchangesInv ==
  /\ ExchangesTypeOK /\ TurnsInv /\ LockInv
  /\ \A x \in Exchanges : ExchangeInv(x)

-----------------------------------------------------------------------------
LEMMA RunNames ==
  /\ Root \in ExchangeRuns
  /\ \A x \in Exchanges :
       /\ Target(x) \in ExchangeRuns /\ Continuation(x) \in ExchangeRuns
       /\ Continuation(x) \in Continuations
       /\ Root # Target(x) /\ Root # Continuation(x)
  /\ \A x, y \in Exchanges :
       /\ Target(x) # Continuation(y)
       /\ x # y => Target(x) # Target(y) /\ Continuation(x) # Continuation(y)
  /\ \A r \in Continuations : r \in ExchangeRuns /\ \E y \in Exchanges : r = Continuation(y)
BY DEF Root, Target, Targets, Continuation, Continuations, ExchangeRuns

LEMMA RowTypes ==
  ASSUME ExchangesTypeOK
  PROVE  /\ \A r \in ExchangeRuns : runs[r] \in RunRows
         /\ \A x \in Exchanges : exchanges[x] \in ExchangeRows
BY DEF ExchangesTypeOK

LEMMA ExchangesInitInv == ExchangesInit => ExchangesInv
<1> SUFFICES ASSUME ExchangesInit PROVE ExchangesInv
  OBVIOUS
<1>1. /\ NoRun \in RunRows /\ Queued \in RunRows /\ NoExchange \in ExchangeRows
      /\ NoRun.status = "none" /\ Queued.status = "queued"
      /\ NoExchange.status = "none" /\ NoExchange.answer = "none" /\ NoExchange.public = FALSE
  BY DEF NoRun, Queued, NoExchange, RunRows, ExchangeRows, RunOver, ExchangeEnds
<1>2. /\ runs[Root] = Queued
      /\ \A x \in Exchanges : /\ runs[Target(x)] = NoRun /\ runs[Continuation(x)] = NoRun
                              /\ exchanges[x] = NoExchange
  BY RunNames DEF ExchangesInit
<1>3. ExchangesTypeOK
  BY <1>1 DEF ExchangesInit, ExchangesTypeOK, Operations
<1>4. TurnsInv /\ LockInv
  <2>1. \A r \in ExchangeRuns : r # Root => runs[r] = NoRun
    BY DEF ExchangesInit
  <2> QED
    BY <1>1, <2>1 DEF ExchangesInit, TurnsInv, LockInv, Over
<1>5. \A x \in Exchanges : ExchangeInv(x)
  BY <1>1, <1>2 DEF ExchangeInv, ExchangeEnds, IsActiveRun
<1> QED
  BY <1>3, <1>4, <1>5 DEF ExchangesInv

-----------------------------------------------------------------------------
(* Steps that change one active run and no exchange.                       *)

LEMMA RunMoves ==
  ASSUME ExchangesInv, NEW r \in ExchangeRuns, NEW row \in RunRows,
         IsActiveRun(runs[r]), SetRun(r, row),
         row.status # "none",
         row.status \in {"completed", "failed"} => r = Root,
         UNCHANGED <<project, exchanges, late, permitted, locked>>
  PROVE  ExchangesInv'
<1>1. /\ ExchangesTypeOK /\ TurnsInv /\ LockInv
      /\ \A x \in Exchanges : ExchangeInv(x)
  BY DEF ExchangesInv
<1>2. /\ runs' = [runs EXCEPT ![r] = row]
      /\ runs \in [ExchangeRuns -> RunRows]
  BY <1>1 DEF SetRun, ExchangesTypeOK
<1>3. /\ runs'[r] = row
      /\ \A q \in ExchangeRuns : q # r => runs'[q] = runs[q]
  BY <1>2
<1>4. /\ \A q \in ExchangeRuns : runs'[q].status = "none" <=> runs[q].status = "none"
      /\ \A q \in ExchangeRuns : Over(q) => runs'[q] = runs[q]
      /\ \A q \in ExchangeRuns : ~IsActiveRun(runs[q]) => runs'[q] = runs[q]
  BY <1>3 DEF Over, IsActiveRun
<1>5. ExchangesTypeOK'
  BY <1>1, <1>2 DEF ExchangesTypeOK, Operations
<1>6. TurnsInv'
  BY <1>1, <1>3, RunNames DEF TurnsInv, Over
<1>7. \A q \in ExchangeRuns : Done(q) => Done(q)'
  BY <1>4 DEF Over, Done
<1>8. LockInv'
  <2> SUFFICES ASSUME locked # Nothing, locked.op = "reconcile"
               PROVE  /\ exchanges[locked.exchange].status # "none"
                      /\ locked.allowed /\ locked.parentOver =>
                           Done(exchanges[locked.exchange].parent)'
    BY DEF LockInv, Over, Done
  <2>1. locked.exchange \in Exchanges
    BY <1>1 DEF ExchangesTypeOK, Operations
  <2>2. exchanges[locked.exchange].status # "none"
    BY <1>1 DEF LockInv
  <2>3. exchanges[locked.exchange].parent \in ExchangeRuns
    BY <1>1, <2>1, <2>2 DEF ExchangeInv
  <2> QED
    BY <1>1, <1>7, <2>2, <2>3 DEF LockInv, Over, Done
<1>9. ASSUME NEW x \in Exchanges PROVE ExchangeInv(x)'
  <2>1. ExchangeInv(x) /\ exchanges'[x] = exchanges[x]
    BY <1>1
  <2>2. /\ Target(x) \in ExchangeRuns /\ Continuation(x) \in ExchangeRuns /\ Root \in ExchangeRuns
    BY RunNames
  <2>3. exchanges[x].status # "none" => exchanges[x].parent \in ExchangeRuns
    BY <2>1 DEF ExchangeInv
  <2>4. runs'[Continuation(x)].status # "none" => Done(exchanges[x].parent)'
    <3>1. runs[Continuation(x)].status # "none" => exchanges[x].status # "none"
      BY <2>1 DEF ExchangeInv, ExchangeEnds
    <3> QED
      BY <1>4, <1>7, <2>1, <2>2, <2>3, <3>1 DEF ExchangeInv, Over, Done
  <2>5. /\ ~IsActiveRun(runs[Target(x)]) => ~IsActiveRun(runs'[Target(x)])
        /\ ~IsActiveRun(runs[Continuation(x)]) => ~IsActiveRun(runs'[Continuation(x)])
    BY <1>4, <2>2
  <2> QED
    BY <1>4, <2>1, <2>2, <2>4, <2>5 DEF ExchangeInv, Over, Done
<1> QED
  BY <1>5, <1>6, <1>8, <1>9 DEF ExchangesInv

\* Steps that change no run and no exchange.
LEMMA OnlyLocks ==
  ASSUME ExchangesInv, UNCHANGED <<project, runs, exchanges>>,
         locked' \in Operations, LockInv',
         late' \subseteq Exchanges, permitted' \subseteq {"asker"} \cup Exchanges
  PROVE  ExchangesInv'
BY DEF ExchangesInv, ExchangesTypeOK, TurnsInv, ExchangeInv, Over, Done, Operations

LEMMA RunSteps ==
  ASSUME ExchangesInv, NEW r \in ExchangeRuns, RunsChange(r) \/ LeaseRunsOut(r)
  PROVE  ExchangesInv'
<1>1. runs[r] \in RunRows
  BY RowTypes DEF ExchangesInv
<1>2. CASE RunnerTakes(r)
  <2> DEFINE row == [runs[r] EXCEPT !.status = "held", !.mac = FALSE]
  <2>1. row \in RunRows /\ row.status = "held"
    BY <1>1 DEF RunRows
  <2> HIDE DEF row
  <2>2. SetRun(r, row) /\ IsActiveRun(runs[r])
    BY <1>2 DEF RunnerTakes, row, IsActiveRun
  <2> QED
    BY <1>2, <2>1, <2>2, RunMoves DEF RunnerTakes
<1>3. CASE MacTakes(r)
  <2> DEFINE row == [runs[r] EXCEPT !.status = "held", !.mac = TRUE]
  <2>1. row \in RunRows /\ row.status = "held"
    BY <1>1 DEF RunRows
  <2> HIDE DEF row
  <2>2. SetRun(r, row) /\ IsActiveRun(runs[r])
    BY <1>3 DEF MacTakes, row, IsActiveRun
  <2> QED
    BY <1>3, <2>1, <2>2, RunMoves DEF MacTakes
<1>4. CASE LeaseRunsOut(r)
  <2> DEFINE row == [runs[r] EXCEPT !.status = "lapsed"]
  <2>1. row \in RunRows /\ row.status = "lapsed"
    BY <1>1 DEF RunRows
  <2> HIDE DEF row
  <2>2. SetRun(r, row) /\ IsActiveRun(runs[r])
    BY <1>4 DEF LeaseRunsOut, row, IsActiveRun
  <2> QED
    BY <1>4, <2>1, <2>2, RunMoves DEF LeaseRunsOut
<1>5. CASE StopRun(r)
  <2> DEFINE row == [runs[r] EXCEPT !.stop = TRUE,
                                    !.status = IF @ = "held" THEN @ ELSE "cancelled"]
  <2>1. row \in RunRows /\ row.status \in {"held", "cancelled"}
    BY <1>1 DEF RunRows, RunOver
  <2> HIDE DEF row
  <2>2. SetRun(r, row) /\ IsActiveRun(runs[r])
    BY <1>5 DEF StopRun, row
  <2> QED
    BY <1>5, <2>1, <2>2, RunMoves DEF StopRun
<1>6. CASE StoppedRunEnds(r)
  <2> DEFINE row == [runs[r] EXCEPT !.status = "cancelled"]
  <2>1. row \in RunRows /\ row.status = "cancelled"
    BY <1>1 DEF RunRows, RunOver
  <2> HIDE DEF row
  <2>2. SetRun(r, row) /\ IsActiveRun(runs[r])
    BY <1>6 DEF StoppedRunEnds, row, IsActiveRun
  <2> QED
    BY <1>6, <2>1, <2>2, RunMoves DEF StoppedRunEnds
<1> QED
  BY <1>2, <1>3, <1>4, <1>5, <1>6 DEF RunsChange

LEMMA RootEndsInv ==
  ASSUME ExchangesInv, RootEnds
  PROVE  ExchangesInv'
<1>1. PICK status \in {"completed", "failed"} :
        SetRun(Root, [runs[Root] EXCEPT !.status = status])
  BY DEF RootEnds
<1> DEFINE row == [runs[Root] EXCEPT !.status = status]
<1>2. runs[Root] \in RunRows /\ Root \in ExchangeRuns
  BY RowTypes, RunNames DEF ExchangesInv
<1>3. IsActiveRun(runs[Root])
  BY DEF RootEnds, IsActiveRun
<1>4. row \in RunRows /\ row.status = status
  BY <1>2 DEF RunRows, RunOver
<1>5. SetRun(Root, row)
  BY <1>1
<1>6. UNCHANGED <<project, exchanges, late, permitted, locked>>
  BY DEF RootEnds
<1> HIDE DEF row
<1> QED
  BY <1>2, <1>3, <1>4, <1>5, <1>6, RunMoves

-----------------------------------------------------------------------------
(* Steps that change one exchange, its target and its continuation.        *)

\* Everything but the exchange and its two runs stays, no run that is over
\* moves, and what the step leaves of the exchange keeps the invariant.
LEMMA ExchangeMoves ==
  ASSUME ExchangesInv, NEW x \in Exchanges,
         NEW row \in ExchangeRows, NEW target \in RunRows, NEW again \in RunRows,
         exchanges' = [exchanges EXCEPT ![x] = row],
         runs' = [runs EXCEPT ![Target(x)] = target, ![Continuation(x)] = again],
         locked' = Nothing, UNCHANGED <<project, late, permitted>>,
         runs[Continuation(x)].status # "none" => again.status # "none",
         Over(Target(x)) => target = runs[Target(x)],
         Over(Continuation(x)) => again = runs[Continuation(x)],
         target.status \in {"completed", "failed"} => ~target.stop,
         again.status \in {"completed", "failed"} => ~again.stop,
         ExchangeInv(x)'
  PROVE  ExchangesInv'
<1>1. /\ ExchangesTypeOK /\ TurnsInv
      /\ \A y \in Exchanges : ExchangeInv(y)
  BY DEF ExchangesInv
<1>2. /\ runs \in [ExchangeRuns -> RunRows] /\ exchanges \in [Exchanges -> ExchangeRows]
  BY <1>1 DEF ExchangesTypeOK
<1>3. /\ \A q \in ExchangeRuns : q # Target(x) /\ q # Continuation(x) => runs'[q] = runs[q]
      /\ runs'[Continuation(x)] = again /\ runs'[Target(x)] = target
      /\ \A y \in Exchanges : y # x => exchanges'[y] = exchanges[y]
  BY <1>2, RunNames
<1>4. \A q \in ExchangeRuns : Over(q) => runs'[q] = runs[q]
  BY <1>3
<1>5. Nothing \in Operations
  BY DEF Operations
<1>6. ExchangesTypeOK'
  BY <1>1, <1>2, <1>5 DEF ExchangesTypeOK, Operations
<1>7. TurnsInv'
  <2> SUFFICES ASSUME NEW q \in ExchangeRuns \ {Root}, Over(q)' PROVE ~runs'[q].stop
    BY DEF TurnsInv, Over
  <2> QED
    BY <1>1, <1>3 DEF TurnsInv, Over
<1>8. LockInv'
  BY DEF LockInv
<1>9. ASSUME NEW y \in Exchanges, y # x PROVE ExchangeInv(y)'
  <2>1. ExchangeInv(y) /\ exchanges'[y] = exchanges[y]
    BY <1>1, <1>3, <1>9
  <2>2. runs'[Target(y)] = runs[Target(y)] /\ runs'[Continuation(y)] = runs[Continuation(y)]
    BY <1>3, <1>9, RunNames
  <2>3. runs[Continuation(y)].status # "none" => Done(exchanges[y].parent)'
    <3> SUFFICES ASSUME runs[Continuation(y)].status # "none"
                 PROVE  Done(exchanges[y].parent)'
      OBVIOUS
    <3>1. exchanges[y].status # "none" /\ Done(exchanges[y].parent)
      BY <2>1 DEF ExchangeInv, ExchangeEnds
    <3>2. exchanges[y].parent \in ExchangeRuns
      BY <2>1, <3>1 DEF ExchangeInv
    <3>3. runs'[exchanges[y].parent] = runs[exchanges[y].parent]
      BY <1>4, <3>1, <3>2 DEF Done
    <3> QED
      BY <2>1, <3>1, <3>3 DEF Over, Done
  <2> QED
    BY <2>1, <2>2, <2>3 DEF ExchangeInv, Over, Done
<1> QED
  BY <1>6, <1>7, <1>8, <1>9 DEF ExchangesInv

\* No run of an exchange ended by itself after it was asked to stop.
LEMMA ExchangeRunsDone ==
  ASSUME ExchangesInv, NEW x \in Exchanges
  PROVE  /\ Over(Target(x)) => ~runs[Target(x)].stop
         /\ Over(Continuation(x)) => ~runs[Continuation(x)].stop
BY RunNames DEF ExchangesInv, TurnsInv

\* What ExchangeMoves needs of the parent, in the next state.
LEMMA ParentStays ==
  ASSUME ExchangesInv, NEW x \in Exchanges,
         NEW target \in RunRows, NEW again \in RunRows,
         runs' = [runs EXCEPT ![Target(x)] = target, ![Continuation(x)] = again],
         Over(Target(x)) => target = runs[Target(x)],
         Over(Continuation(x)) => again = runs[Continuation(x)]
  PROVE  /\ \A q \in ExchangeRuns : Done(q) => Done(q)'
         /\ runs'[Target(x)] = target /\ runs'[Continuation(x)] = again
<1>1. runs \in [ExchangeRuns -> RunRows]
  BY DEF ExchangesInv, ExchangesTypeOK
<1>2. /\ runs'[Target(x)] = target /\ runs'[Continuation(x)] = again
      /\ \A q \in ExchangeRuns : q # Target(x) /\ q # Continuation(x) => runs'[q] = runs[q]
  BY <1>1, RunNames
<1>3. \A q \in ExchangeRuns : Over(q) => runs'[q] = runs[q]
  BY <1>2
<1> QED
  BY <1>2, <1>3 DEF Over, Done

LEMMA SendInv ==
  ASSUME ExchangesInv, NEW x \in Exchanges, NEW r \in ExchangeRuns, Send(x, r)
  PROVE  ExchangesInv'
<1> DEFINE row == [exchanges[x] EXCEPT !.status = "pending", !.parent = r]
           again == runs[Continuation(x)]
<1>1. /\ ExchangesTypeOK /\ ExchangeInv(x)
      /\ runs \in [ExchangeRuns -> RunRows] /\ exchanges \in [Exchanges -> ExchangeRows]
  BY DEF ExchangesInv, ExchangesTypeOK
<1>2. /\ exchanges[x] \in ExchangeRows /\ again \in RunRows
      /\ Queued \in RunRows /\ Queued.status = "queued"
  BY <1>1, RunNames DEF Queued, NoRun, RunRows
<1>3. /\ exchanges[x].status = "none" /\ exchanges[x].answer = "none" /\ again.status = "none"
      /\ runs[Target(x)].status = "none" /\ ~exchanges[x].public
  BY <1>1, <1>2 DEF Send, ExchangeInv, ExchangeRows, ExchangeEnds
<1>4. /\ row \in ExchangeRows /\ row.status = "pending" /\ row.parent = r
      /\ row.answer = "none" /\ row.public = FALSE
  BY <1>2, <1>3 DEF ExchangeRows
<1>5. exchanges' = [exchanges EXCEPT ![x] = row]
  BY <1>1 DEF Send
<1>6. runs' = [runs EXCEPT ![Target(x)] = Queued, ![Continuation(x)] = again]
  BY <1>1, RunNames DEF Send, SetRun
<1>7. locked' = Nothing /\ UNCHANGED <<project, late, permitted>>
  BY DEF Send
<1> HIDE DEF row, again
<1>8. exchanges'[x] = row
  BY <1>1, <1>5
<1>9. runs'[Continuation(x)] = again
  BY <1>1, <1>2, <1>6, RunNames
<1>10. ExchangeInv(x)'
  BY <1>3, <1>4, <1>8, <1>9 DEF ExchangeInv, ExchangeEnds
<1>11. ~Over(Target(x)) /\ again.status \notin {"completed", "failed"}
  BY <1>3 DEF Over
<1> QED
  BY <1>2, <1>3, <1>4, <1>5, <1>6, <1>7, <1>10, <1>11, ExchangeMoves DEF again

LEMMA FinishCommitsInv ==
  ASSUME ExchangesInv, NEW x \in Exchanges, FinishCommits(x)
  PROVE  ExchangesInv'
<1>1. /\ ExchangesTypeOK /\ ExchangeInv(x) /\ LockInv
      /\ runs \in [ExchangeRuns -> RunRows] /\ exchanges \in [Exchanges -> ExchangeRows]
  BY DEF ExchangesInv, ExchangesTypeOK
<1>2. /\ exchanges[x] \in ExchangeRows
      /\ runs[Target(x)] \in RunRows /\ runs[Continuation(x)] \in RunRows
  BY <1>1, RunNames
<1>3. locked' = Nothing /\ UNCHANGED <<project, late, permitted>>
  BY DEF FinishCommits
<1>4. CASE ~Lives(locked.run)
  <2>1. runs' = runs /\ exchanges' = exchanges
    BY <1>4 DEF FinishCommits
  <2>2. LockInv' /\ locked' \in Operations
    BY <1>3 DEF LockInv, Operations
  <2> QED
    BY <1>1, <1>3, <2>1, <2>2, OnlyLocks DEF ExchangesTypeOK
<1>5. ASSUME NEW status \in {"completed", "failed"}, Lives(locked.run), locked.run = Target(x),
             SetRun(locked.run, [runs[locked.run] EXCEPT !.status = status]),
             exchanges' = [exchanges EXCEPT ![x] =
               IF @.status = "pending"
               THEN [@ EXCEPT !.status = "reply_received", !.answer = "reply", !.public = TRUE]
               ELSE [@ EXCEPT !.public = TRUE]]
      PROVE  ExchangesInv'
  <2> DEFINE target == [runs[Target(x)] EXCEPT !.status = status]
             again  == runs[Continuation(x)]
             row == [exchanges[x] EXCEPT !.status = "reply_received", !.answer = "reply",
                                         !.public = TRUE]
  <2>1. IsActiveRun(runs[Target(x)]) /\ ~Over(Target(x)) /\ ~runs[Target(x)].stop
    BY <1>5 DEF Lives, IsActiveRun, Over
  <2>2. exchanges[x].status = "pending" /\ again.status = "none"
    BY <1>1, <2>1 DEF ExchangeInv, IsActiveRun, ExchangeEnds
  <2>3. /\ row \in ExchangeRows /\ row.status = "reply_received" /\ row.answer = "reply"
        /\ row.public = TRUE /\ row.parent = exchanges[x].parent
    BY <1>2 DEF ExchangeRows
  <2>4. target \in RunRows /\ target.status = status /\ ~target.stop
    BY <1>2, <2>1 DEF RunRows, RunOver
  <2>5. exchanges' = [exchanges EXCEPT ![x] = row]
    BY <1>1, <1>5, <2>2
  <2>6. runs' = [runs EXCEPT ![Target(x)] = target, ![Continuation(x)] = again]
    BY <1>1, <1>5, RunNames DEF SetRun
  <2> HIDE DEF row, again, target
  <2>7. exchanges'[x] = row
    BY <1>1, <2>5
  <2>8. again \in RunRows /\ again = runs[Continuation(x)]
    BY <1>2 DEF again
  <2>9. runs'[Target(x)] = target /\ runs'[Continuation(x)] = again
    BY <2>1, <2>4, <2>6, <2>8, ParentStays
  <2>10. exchanges[x].parent \in ExchangeRuns
    BY <1>1, <2>2 DEF ExchangeInv
  <2>11. ExchangeInv(x)'
    BY <2>2, <2>3, <2>4, <2>7, <2>9, <2>10 DEF ExchangeInv, ExchangeEnds, IsActiveRun
  <2> QED
    BY <1>3, <2>1, <2>2, <2>3, <2>4, <2>5, <2>6, <2>8, <2>11, ExchangeMoves
<1>6. ASSUME NEW status \in {"completed", "failed"}, Lives(locked.run),
             locked.run = Continuation(x),
             SetRun(locked.run, [runs[locked.run] EXCEPT !.status = status]),
             exchanges' = [exchanges EXCEPT ![x] =
               IF @.status = "resuming" THEN [@ EXCEPT !.status = status] ELSE @]
      PROVE  ExchangesInv'
  <2> DEFINE target == runs[Target(x)]
             again  == [runs[Continuation(x)] EXCEPT !.status = status]
             row == [exchanges[x] EXCEPT !.status = status]
  <2>1. IsActiveRun(runs[Continuation(x)]) /\ ~Over(Continuation(x))
        /\ runs[Continuation(x)].status # "none" /\ ~runs[Continuation(x)].stop
    BY <1>6 DEF Lives, IsActiveRun, Over
  <2>2. /\ exchanges[x].status = "resuming" /\ exchanges[x].answer # "none"
        /\ Done(exchanges[x].parent) /\ ~IsActiveRun(runs[Target(x)])
        /\ exchanges[x].parent \in ExchangeRuns
        /\ exchanges[x].public = (exchanges[x].answer = "reply")
    BY <1>1, <2>1 DEF ExchangeInv
  <2>3. /\ row \in ExchangeRows /\ row.status = status /\ row.answer = exchanges[x].answer
        /\ row.public = exchanges[x].public /\ row.parent = exchanges[x].parent
    BY <1>2 DEF ExchangeRows, ExchangeEnds
  <2>4. again \in RunRows /\ again.status = status /\ ~again.stop
    BY <1>2, <2>1 DEF RunRows, RunOver
  <2>5. exchanges' = [exchanges EXCEPT ![x] = row]
    BY <1>1, <1>6, <2>2
  <2>6. runs' = [runs EXCEPT ![Target(x)] = target, ![Continuation(x)] = again]
    BY <1>1, <1>6, RunNames DEF SetRun
  <2> HIDE DEF row, again, target
  <2>7. exchanges'[x] = row
    BY <1>1, <2>5
  <2>8. target \in RunRows /\ target = runs[Target(x)]
    BY <1>2 DEF target
  <2>9. /\ \A q \in ExchangeRuns : Done(q) => Done(q)'
        /\ runs'[Target(x)] = target /\ runs'[Continuation(x)] = again
    BY <2>1, <2>4, <2>6, <2>8, ParentStays
  <2>10. Done(exchanges[x].parent)'
    BY <2>2, <2>3, <2>7, <2>9 DEF Over, Done
  <2>11. ExchangeInv(x)'
    BY <2>2, <2>3, <2>4, <2>7, <2>8, <2>9, <2>10 DEF ExchangeInv, ExchangeEnds, IsActiveRun, Over, Done
  <2>12. target.status \in {"completed", "failed"} => ~target.stop
    BY <2>8, ExchangeRunsDone DEF Over
  <2> QED
    BY <1>3, <2>1, <2>3, <2>4, <2>5, <2>6, <2>8, <2>11, <2>12, ExchangeMoves
<1>7. Target(x) # Continuation(x)
  BY RunNames
<1> QED
  BY <1>4, <1>5, <1>6, <1>7 DEF FinishCommits

-----------------------------------------------------------------------------
LEMMA RowsMove ==
  ASSUME NEW row \in RunRows
  PROVE  /\ Cancelled(row) \in RunRows /\ Requeued(row) \in RunRows
         /\ ~IsActiveRun(Cancelled(row)) /\ Requeued(row).stop = row.stop
         /\ ~IsActiveRun(row) => Cancelled(row) = row /\ Requeued(row) = row
         /\ IsActiveRun(row) => Cancelled(row).status = "cancelled" /\ IsActiveRun(Requeued(row))
BY DEF RunRows, RunOver, Cancelled, Requeued, IsActiveRun

\* A run that is over is left as it is, and none is made to end by itself.
LEMMA OverStays ==
  ASSUME NEW row \in RunRows, NEW next \in {row, Cancelled(row), Requeued(row), Cancelled(Requeued(row))}
  PROVE  /\ row.status \in {"completed", "failed"} => next = row
         /\ next.status \in {"completed", "failed"} => next = row
BY DEF RunRows, RunOver, Cancelled, Requeued, IsActiveRun

LEMMA ReconcileCancelsInv ==
  ASSUME ExchangesInv, NEW x \in Exchanges, ReconcileCancels(x)
  PROVE  ExchangesInv'
<1> DEFINE row == [exchanges[x] EXCEPT !.status = "cancelled"]
           target == Cancelled(runs[Target(x)])
           again  == Cancelled(runs[Continuation(x)])
<1>1. /\ ExchangesTypeOK /\ ExchangeInv(x) /\ LockInv
      /\ runs \in [ExchangeRuns -> RunRows] /\ exchanges \in [Exchanges -> ExchangeRows]
  BY DEF ExchangesInv, ExchangesTypeOK
<1>2. /\ exchanges[x] \in ExchangeRows
      /\ runs[Target(x)] \in RunRows /\ runs[Continuation(x)] \in RunRows
  BY <1>1, RunNames
<1>3. /\ locked' = Nothing /\ UNCHANGED <<project, late, permitted>>
      /\ exchanges[x].status # "none"
  BY <1>1 DEF ReconcileCancels, Reconciles, LockInv
<1>4. /\ row \in ExchangeRows /\ row.status = "cancelled" /\ row.answer = exchanges[x].answer
      /\ row.public = exchanges[x].public /\ row.parent = exchanges[x].parent
  BY <1>2 DEF ExchangeRows, ExchangeEnds
<1>5. /\ target \in RunRows /\ again \in RunRows
      /\ ~IsActiveRun(target) /\ ~IsActiveRun(again)
  BY <1>2, RowsMove
<1>6. /\ again.status # "none" <=> runs[Continuation(x)].status # "none"
      /\ Over(Target(x)) => target = runs[Target(x)]
      /\ Over(Continuation(x)) => again = runs[Continuation(x)]
      /\ target.status \in {"completed", "failed"} => ~target.stop
      /\ again.status \in {"completed", "failed"} => ~again.stop
  <2>1. again.status # "none" <=> runs[Continuation(x)].status # "none"
    BY <1>2 DEF Cancelled, IsActiveRun, RunRows
  <2>2. /\ Over(Target(x)) => target = runs[Target(x)]
        /\ target.status \in {"completed", "failed"} => target = runs[Target(x)]
    BY <1>2, OverStays DEF Over
  <2>3. /\ Over(Continuation(x)) => again = runs[Continuation(x)]
        /\ again.status \in {"completed", "failed"} => again = runs[Continuation(x)]
    BY <1>2, OverStays DEF Over
  <2> QED
    BY <2>1, <2>2, <2>3, ExchangeRunsDone DEF Over
<1>7. exchanges' = [exchanges EXCEPT ![x] = row]
  BY <1>1 DEF ReconcileCancels
<1>8. runs' = [runs EXCEPT ![Target(x)] = target, ![Continuation(x)] = again]
  BY <1>1, RunNames DEF ReconcileCancels
<1> HIDE DEF row, again, target
<1>9. exchanges'[x] = row
  BY <1>1, <1>7
<1>10. /\ \A q \in ExchangeRuns : Done(q) => Done(q)'
       /\ runs'[Target(x)] = target /\ runs'[Continuation(x)] = again
  BY <1>5, <1>6, <1>8, ParentStays
<1>11. runs[Continuation(x)].status # "none" =>
         /\ row.status \in {"resuming"} \cup ExchangeEnds /\ row.answer # "none"
         /\ Done(exchanges[x].parent)'
  BY <1>1, <1>3, <1>4, <1>9, <1>10 DEF ExchangeInv, ExchangeEnds, Over, Done
<1>12. ExchangeInv(x)'
  BY <1>1, <1>3, <1>4, <1>5, <1>6, <1>9, <1>10, <1>11 DEF ExchangeInv, ExchangeEnds, Over, Done
<1> QED
  BY <1>3, <1>4, <1>5, <1>6, <1>7, <1>8, <1>12, ExchangeMoves

LEMMA ReconcileResumedInv ==
  ASSUME ExchangesInv, NEW x \in Exchanges, ReconcileResumed(x)
  PROVE  ExchangesInv'
<1> DEFINE again == Requeued(runs[Continuation(x)])
           status == ResumedStatus(exchanges[x].status, again)
           row == [exchanges[x] EXCEPT !.status = status]
           target == runs[Target(x)]
<1>1. /\ ExchangesTypeOK /\ ExchangeInv(x) /\ LockInv
      /\ runs \in [ExchangeRuns -> RunRows] /\ exchanges \in [Exchanges -> ExchangeRows]
  BY DEF ExchangesInv, ExchangesTypeOK
<1>2. /\ exchanges[x] \in ExchangeRows
      /\ target \in RunRows /\ runs[Continuation(x)] \in RunRows
  BY <1>1, RunNames
<1>3. /\ locked' = Nothing /\ UNCHANGED <<project, late, permitted>>
      /\ runs[Continuation(x)].status # "none"
  BY DEF ReconcileResumed
<1>4. /\ exchanges[x].status \in {"resuming"} \cup ExchangeEnds
      /\ exchanges[x].answer # "none" /\ ~IsActiveRun(target)
      /\ Done(exchanges[x].parent) /\ exchanges[x].parent \in ExchangeRuns
      /\ exchanges[x].public = (exchanges[x].answer = "reply")
      /\ exchanges[x].status \in ExchangeEnds => ~IsActiveRun(runs[Continuation(x)])
  BY <1>1, <1>3 DEF ExchangeInv, ExchangeEnds
<1>5. /\ again \in RunRows /\ again.status # "none"
      /\ ~IsActiveRun(runs[Continuation(x)]) => again = runs[Continuation(x)]
      /\ Over(Continuation(x)) => again = runs[Continuation(x)]
      /\ target.status \in {"completed", "failed"} => ~target.stop
      /\ again.status \in {"completed", "failed"} => ~again.stop
  BY <1>2, <1>3, RowsMove, OverStays, ExchangeRunsDone DEF Over, IsActiveRun, Requeued
<1>6. /\ runs' = [runs EXCEPT ![Target(x)] = target, ![Continuation(x)] = again]
      /\ runs'[Continuation(x)] = again
  BY <1>1, RunNames DEF ReconcileResumed
<1>7. exchanges' = [exchanges EXCEPT ![x] = row]
  BY <1>1, <1>6 DEF ReconcileResumed
<1>8. /\ status \in {"resuming"} \cup ExchangeEnds
      /\ status \in ExchangeEnds => ~IsActiveRun(again)
  <2> HIDE DEF again
  <2>1. CASE again.status \in {"failed", "cancelled"}
    BY <2>1 DEF ResumedStatus, ExchangeEnds, IsActiveRun
  <2>2. CASE again.status \notin {"failed", "cancelled"}
    BY <1>4, <1>5, <2>2 DEF ResumedStatus
  <2> QED
    BY <2>1, <2>2
<1> HIDE DEF status
<1>9. /\ row \in ExchangeRows /\ row.status = status /\ row.answer = exchanges[x].answer
      /\ row.public = exchanges[x].public /\ row.parent = exchanges[x].parent
  BY <1>2, <1>8 DEF ExchangeRows
<1>10. target = runs[Target(x)]
  OBVIOUS
<1> HIDE DEF row, again, target
<1>11. exchanges'[x] = row
  BY <1>1, <1>7
<1>12. /\ \A q \in ExchangeRuns : Done(q) => Done(q)'
       /\ runs'[Target(x)] = target
  BY <1>2, <1>5, <1>6, <1>10, ParentStays
<1>13. Done(exchanges[x].parent)'
  BY <1>4, <1>9, <1>11, <1>12 DEF Over, Done
<1>14. ExchangeInv(x)'
  BY <1>4, <1>6, <1>8, <1>9, <1>11, <1>12, <1>13 DEF ExchangeInv, ExchangeEnds, Over, Done
<1> QED
  BY <1>2, <1>3, <1>5, <1>6, <1>7, <1>9, <1>10, <1>14, ExchangeMoves

LEMMA ReconcileAnswersInv ==
  ASSUME ExchangesInv, NEW x \in Exchanges, ReconcileAnswers(x)
  PROVE  ExchangesInv'
<1> DEFINE back == Requeued(runs[Target(x)])
           none == NoAnswerComes(x, back)
           next == IF none
                   THEN [exchanges[x] EXCEPT !.status = "reply_received",
                                             !.answer = "unavailable"]
                   ELSE exchanges[x]
           goes == next.status = "reply_received" /\ locked.parentOver
           row  == IF goes THEN [next EXCEPT !.status = "resuming"] ELSE next
           target == IF none THEN Cancelled(back) ELSE back
           again  == IF goes THEN Queued ELSE runs[Continuation(x)]
<1>1. /\ ExchangesTypeOK /\ ExchangeInv(x) /\ LockInv
      /\ runs \in [ExchangeRuns -> RunRows] /\ exchanges \in [Exchanges -> ExchangeRows]
  BY DEF ExchangesInv, ExchangesTypeOK
<1>2. /\ exchanges[x] \in ExchangeRows
      /\ runs[Target(x)] \in RunRows /\ runs[Continuation(x)] \in RunRows
  BY <1>1, RunNames
<1>3. /\ locked' = Nothing /\ UNCHANGED <<project, late, permitted>>
      /\ runs[Continuation(x)].status = "none"
      /\ exchanges[x].status # "none"
      /\ locked.parentOver => Done(exchanges[x].parent)
  BY <1>1 DEF ReconcileAnswers, Reconciles, LockInv
<1>4. /\ exchanges' = [exchanges EXCEPT ![x] = row]
      /\ runs' = [runs EXCEPT ![Target(x)] = target, ![Continuation(x)] = again]
  <2>1. runs' = [runs EXCEPT ![Target(x)] = target,
                             ![Continuation(x)] = IF goes THEN Queued ELSE @]
    BY DEF ReconcileAnswers
  <2>2. exchanges' = [exchanges EXCEPT ![x] = row]
    BY DEF ReconcileAnswers
  <2> HIDE DEF goes, target, row
  <2>3. runs' = [runs EXCEPT ![Target(x)] = target, ![Continuation(x)] = again]
    BY <1>1, <2>1, RunNames
  <2> QED
    BY <2>2, <2>3
<1>5. /\ target \in RunRows
      /\ none => ~IsActiveRun(target)
      /\ ~IsActiveRun(runs[Target(x)]) => ~IsActiveRun(target)
      /\ Over(Target(x)) => target = runs[Target(x)]
      /\ target.status \in {"completed", "failed"} => ~target.stop
  <2>1. back \in RunRows /\ (~IsActiveRun(runs[Target(x)]) => ~IsActiveRun(back))
    BY <1>2, RowsMove
  <2>2. /\ Over(Target(x)) => target = runs[Target(x)]
        /\ target.status \in {"completed", "failed"} => ~target.stop
    BY <1>2, OverStays, ExchangeRunsDone DEF Over
  <2> HIDE DEF back, none
  <2> QED
    BY <2>1, <2>2, RowsMove
<1>6. none => exchanges[x].status = "pending" /\ exchanges[x].answer = "none"
  BY <1>1 DEF NoAnswerComes, ExchangeInv
<1> HIDE DEF none, back, target
<1>7. /\ next \in ExchangeRows /\ next.parent = exchanges[x].parent
      /\ next.public = exchanges[x].public
      /\ none => next.status = "reply_received" /\ next.answer = "unavailable"
      /\ ~none => next = exchanges[x]
  BY <1>2 DEF ExchangeRows
<1> HIDE DEF next
<1>8. /\ row \in ExchangeRows /\ row.parent = next.parent /\ row.public = next.public
      /\ row.answer = next.answer
      /\ goes => row.status = "resuming" /\ next.status = "reply_received"
      /\ ~goes => row = next
      /\ goes => locked.parentOver
  BY <1>7 DEF ExchangeRows
<1>9. /\ again \in RunRows
      /\ again.status # "none" => goes
      /\ again.status \notin {"completed", "failed"}
  BY <1>2, <1>3 DEF Queued, NoRun, RunRows
<1> HIDE DEF goes, row, again
<1>10. exchanges'[x] = row
  BY <1>1, <1>4
<1>11. ~Over(Continuation(x)) /\ ~IsActiveRun(runs[Continuation(x)])
  BY <1>3 DEF Over, IsActiveRun
<1>12. /\ \A q \in ExchangeRuns : Done(q) => Done(q)'
       /\ runs'[Target(x)] = target /\ runs'[Continuation(x)] = again
  BY <1>4, <1>5, <1>9, <1>11, ParentStays
<1>13. /\ exchanges[x].parent \in ExchangeRuns
       /\ exchanges[x].public = (exchanges[x].answer = "reply")
       /\ exchanges[x].status = "reply_received" => exchanges[x].answer # "none"
       /\ exchanges[x].status = "pending" => exchanges[x].answer = "none"
       /\ exchanges[x].status # "pending" => ~IsActiveRun(runs[Target(x)])
  BY <1>1, <1>3 DEF ExchangeInv
<1>14. goes => Done(exchanges[x].parent)' /\ row.answer # "none"
  <2> SUFFICES ASSUME goes PROVE Done(exchanges[x].parent)' /\ row.answer # "none"
    OBVIOUS
  <2>1. exchanges'[x].parent = exchanges[x].parent /\ Done(exchanges[x].parent)
    BY <1>3, <1>7, <1>8, <1>10
  <2>2. row.answer # "none"
    BY <1>7, <1>8, <1>13
  <2> QED
    BY <1>12, <1>13, <2>1, <2>2 DEF Over, Done
<1>15. row.public = (row.answer = "reply")
  <2>1. CASE none
    BY <1>6, <1>7, <1>8, <1>13, <2>1
  <2>2. CASE ~none
    BY <1>7, <1>8, <1>13, <2>2
  <2> QED
    BY <2>1, <2>2
<1>16. row.status # "pending" => ~IsActiveRun(target)
  BY <1>5, <1>7, <1>8, <1>13
<1>17. row.status \in ExchangeEnds => ~IsActiveRun(again)
  <2>1. row.status \in ExchangeEnds => ~goes
    BY <1>8 DEF ExchangeEnds
  <2>2. ~goes => ~IsActiveRun(again)
    BY <1>9 DEF IsActiveRun
  <2> QED
    BY <2>1, <2>2
<1>18. /\ row.status # "none"
       /\ row.status = "pending" => row.answer = "none"
       /\ row.status = "reply_received" => row.answer # "none"
  BY <1>3, <1>7, <1>8, <1>13
<1>19. again.status # "none" => row.status = "resuming"
  BY <1>8, <1>9
<1>20. ExchangeInv(x)'
  BY <1>7, <1>8, <1>9, <1>10, <1>12, <1>13, <1>14, <1>15, <1>16, <1>17, <1>18, <1>19
     DEF ExchangeInv, Over, Done
<1> QED
  BY <1>3, <1>4, <1>5, <1>8, <1>9, <1>11, <1>20, ExchangeMoves

-----------------------------------------------------------------------------
\* Steps of an exchange that take the conversation's lock or let time pass.
LEMMA LockSteps ==
  ASSUME ExchangesInv, NEW x \in Exchanges,
         \/ ReconcileChecks(x) \/ FinishChecks(Target(x)) \/ FinishChecks(Continuation(x))
         \/ DeadlinePasses(x)
  PROVE  ExchangesInv'
<1>1. ExchangesTypeOK /\ LockInv /\ locked \in Operations
      /\ late \subseteq Exchanges /\ permitted \subseteq {"asker"} \cup Exchanges
  BY DEF ExchangesInv, ExchangesTypeOK
<1>2. CASE ReconcileChecks(x)
  <2> DEFINE op == [ op |-> "reconcile", exchange |-> x,
                     allowed |-> Authorized(exchanges[x].parent) /\ Authorized(Target(x)),
                     parentOver |-> ParentIsOver(x) ]
  <2>1. /\ locked' = op /\ UNCHANGED <<project, runs, exchanges, late, permitted>>
        /\ exchanges[x].status # "none"
    BY <1>2 DEF ReconcileChecks, Unfinished
  <2>2. (Authorized(exchanges[x].parent) /\ Authorized(Target(x))) \in BOOLEAN
        /\ ParentIsOver(x) \in BOOLEAN
    BY DEF ParentIsOver
  <2>3. /\ op \in Operations /\ op.exchange = x
        /\ op.allowed => ~runs[Root].stop
        /\ op.parentOver => Over(exchanges[x].parent)
    BY <2>2 DEF Operations, ParentIsOver, Authorized, Over
  <2> HIDE DEF op
  <2>4. op.allowed /\ op.parentOver => Done(exchanges[x].parent)
    BY <2>1, <2>3 DEF ExchangesInv, ExchangeInv, TurnsInv, Done
  <2>5. LockInv'
    BY <2>1, <2>3, <2>4 DEF LockInv, Over, Done
  <2> QED
    BY <1>1, <2>1, <2>3, <2>5, OnlyLocks
<1>3. ASSUME NEW r \in ExchangeRuns, FinishChecks(r) PROVE ExchangesInv'
  <2>1. /\ locked' = [op |-> "finish", run |-> r]
        /\ UNCHANGED <<project, runs, exchanges, late, permitted>>
    BY <1>3 DEF FinishChecks
  <2>2. locked' \in Operations /\ locked'.op = "finish"
    BY <2>1 DEF Operations
  <2>3. LockInv'
    BY <2>2 DEF LockInv
  <2> QED
    BY <1>1, <2>1, <2>2, <2>3, OnlyLocks
<1>4. CASE DeadlinePasses(x)
  <2>1. UNCHANGED <<project, runs, exchanges, permitted, locked>> /\ late' \subseteq Exchanges
    BY <1>1, <1>4 DEF DeadlinePasses
  <2>2. LockInv'
    BY <1>1, <2>1 DEF LockInv, Over, Done
  <2> QED
    BY <1>1, <2>1, <2>2, OnlyLocks
<1> QED
  BY <1>2, <1>3, <1>4, RunNames

\* Permissions change, and operations fail.
LEMMA OtherSteps ==
  ASSUME ExchangesInv, OperationFails \/ PermissionChanges
  PROVE  ExchangesInv'
<1>1. ExchangesTypeOK /\ LockInv /\ Nothing \in Operations
  BY DEF ExchangesInv, Operations
<1>2. CASE OperationFails
  <2>1. locked' = Nothing /\ UNCHANGED <<project, runs, exchanges, late, permitted>>
    BY <1>2 DEF OperationFails
  <2> QED
    BY <1>1, <2>1, OnlyLocks DEF LockInv, ExchangesTypeOK
<1>3. CASE PermissionChanges
  <2>1. UNCHANGED <<project, runs, exchanges, late, locked>>
    BY <1>3 DEF PermissionChanges
  <2>2. permitted' \subseteq {"asker"} \cup Exchanges
    BY <1>1, <1>3 DEF PermissionChanges, ExchangesTypeOK
  <2>3. LockInv'
    BY <1>1, <2>1 DEF LockInv, Over, Done
  <2> QED
    BY <1>1, <2>1, <2>2, <2>3, OnlyLocks DEF ExchangesTypeOK
<1> QED
  BY <1>2, <1>3

LEMMA ExchangesInductive == ExchangesInv /\ [ExchangesNext]_exchangeVars => ExchangesInv'
<1> SUFFICES ASSUME ExchangesInv, [ExchangesNext]_exchangeVars PROVE ExchangesInv'
  OBVIOUS
<1>1. CASE UNCHANGED exchangeVars
  BY <1>1 DEF exchangeVars, ExchangesInv, ExchangesTypeOK, TurnsInv, LockInv, ExchangeInv, Over,
     Done, Operations
<1>2. CASE OperationFails \/ PermissionChanges
  BY <1>2, OtherSteps
<1>3. ASSUME NEW x \in Exchanges,
             \/ \E r \in ExchangeRuns : Send(x, r)
             \/ DeadlinePasses(x) \/ Finish(x) \/ Reconcile(x)
      PROVE  ExchangesInv'
  BY <1>3, SendInv, LockSteps, FinishCommitsInv, ReconcileCancelsInv, ReconcileResumedInv,
     ReconcileAnswersInv DEF Finish, Reconcile, ReconcileCommits
<1> QED
  BY <1>1, <1>2, <1>3, RunSteps, RootEndsInv DEF ExchangesNext, ExchangeSteps, ExchangeFaults

LEMMA ExchangesInvariant == ExchangesSpec => []ExchangesInv
<1>1. ExchangesInit => ExchangesInv
  BY ExchangesInitInv
<1>2. ExchangesInv /\ [ExchangesNext]_exchangeVars => ExchangesInv'
  BY ExchangesInductive
<1> QED
  BY <1>1, <1>2, PTL DEF ExchangesSpec

\* The rows of the runs and of the exchanges have their types.
THEOREM ExchangesTypes == ExchangesSpec => []ExchangesTypeOK
<1>1. ExchangesInv => ExchangesTypeOK
  BY DEF ExchangesInv
<1> QED
  BY <1>1, ExchangesInvariant, PTL

\* A target that finishes after its deadline finds itself cancelled: the agent
\* that asked is never told something else than the conversation shows.
THEOREM ToldIsShown == ExchangesSpec => []ToldWhatIsShown
<1>1. ExchangesInv => ToldWhatIsShown
  BY DEF ExchangesInv, ExchangeInv, ToldWhatIsShown
<1> QED
  BY <1>1, ExchangesInvariant, PTL

\* A continuation is created only after the run that asked has ended by itself,
\* unstopped; and a run that has ended can be stopped no more.
THEOREM ContinuationsWait == ExchangesSpec => []ContinuesInTurn
<1>1. ExchangesInv => ContinuesInTurn
  BY DEF ExchangesInv, ExchangeInv, ContinuesInTurn, Over, Done
<1> QED
  BY <1>1, ExchangesInvariant, PTL

\* No run is active for an exchange that ended, however it ended.
THEOREM EndedIsQuiet == ExchangesSpec => []EndedExchangeIsQuiet
<1>1. ExchangesInv => EndedExchangeIsQuiet
  BY DEF ExchangesInv, ExchangeInv, EndedExchangeIsQuiet, ExchangeEnds
<1> QED
  BY <1>1, ExchangesInvariant, PTL

-----------------------------------------------------------------------------
(* The runs implement RunContract.  A step moves at most one run that asks *)
(* and one that answers.                                                   *)

\* What may become of a run: it is created, taken, lapses, is asked to stop, is
\* requeued or ends.
RowMove(was, is) ==
  \/ was = NoRun /\ is = Queued
  \/ /\ was.status \in {"queued", "lapsed"} /\ ~was.stop
     /\ is.status = "held" /\ is.stop = was.stop
  \/ was.status = "held" /\ is = [was EXCEPT !.status = "lapsed"]
  \/ was.status = "held" /\ is = [was EXCEPT !.stop = TRUE]
  \/ was.status = "lapsed" /\ ~was.stop /\ is = [was EXCEPT !.status = "queued"]
  \/ /\ IsActiveRun(was) /\ is.status \in RunOver /\ (was.stop => is.stop)
     /\ was.status = "queued" => is.status = "cancelled"

OneMoves(Some) ==
  \/ \A r \in Some : runs'[r] = runs[r]
  \/ \E r \in Some : /\ RowMove(runs[r], runs'[r])
                     /\ \A q \in Some : q # r => runs'[q] = runs[q]

ClassesMove == OneMoves(Callers) /\ OneMoves(Targets)

\* Nothing is known yet of a run that was not created.
UnstartedInv == \A r \in ExchangeRuns : runs[r].status = "none" => runs[r] = NoRun

LEMMA Classes ==
  /\ ExchangeRuns = Callers \cup Targets
  /\ \A r \in Callers, q \in Targets : r # q
  /\ \A x \in Exchanges : Target(x) \in Targets /\ Continuation(x) \in Callers
  /\ Root \in Callers
BY DEF ExchangeRuns, Callers, Targets, Continuations, Root, Target, Continuation

LEMMA SetRunMoves ==
  ASSUME ExchangesTypeOK, NEW r \in ExchangeRuns, NEW row, SetRun(r, row),
         row = runs[r] \/ RowMove(runs[r], row)
  PROVE  ClassesMove
<1>1. runs'[r] = row /\ \A q \in ExchangeRuns : q # r => runs'[q] = runs[q]
  BY DEF SetRun, ExchangesTypeOK
<1>2. CASE r \in Callers
  <2>1. OneMoves(Callers)
    BY <1>1, <1>2, Classes DEF OneMoves
  <2>2. OneMoves(Targets)
    BY <1>1, <1>2, Classes DEF OneMoves
  <2> QED
    BY <2>1, <2>2 DEF ClassesMove
<1>3. CASE r \in Targets
  <2>1. OneMoves(Callers)
    BY <1>1, <1>3, Classes DEF OneMoves
  <2>2. OneMoves(Targets)
    BY <1>1, <1>3, Classes DEF OneMoves
  <2> QED
    BY <2>1, <2>2 DEF ClassesMove
<1> QED
  BY <1>2, <1>3, Classes

LEMMA PairMoves ==
  ASSUME ExchangesTypeOK, NEW x \in Exchanges, NEW a, NEW b,
         runs' = [runs EXCEPT ![Target(x)] = a, ![Continuation(x)] = b],
         a = runs[Target(x)] \/ RowMove(runs[Target(x)], a),
         b = runs[Continuation(x)] \/ RowMove(runs[Continuation(x)], b)
  PROVE  ClassesMove
<1>1. /\ Target(x) \in Targets /\ Continuation(x) \in Callers /\ Target(x) # Continuation(x)
      /\ Target(x) \in ExchangeRuns /\ Continuation(x) \in ExchangeRuns
  BY Classes
<1>2. runs'[Target(x)] = a /\ runs'[Continuation(x)] = b
  BY <1>1 DEF ExchangesTypeOK
<1>3. \A q \in ExchangeRuns : q \notin {Target(x), Continuation(x)} => runs'[q] = runs[q]
  BY DEF ExchangesTypeOK
<1>4. OneMoves(Callers)
  BY <1>1, <1>2, <1>3, Classes DEF OneMoves
<1>5. OneMoves(Targets)
  BY <1>1, <1>2, <1>3, Classes DEF OneMoves
<1> QED
  BY <1>4, <1>5 DEF ClassesMove

\* What reconciliation makes of a row.
LEMMA RowsOfReconcile ==
  ASSUME NEW row \in RunRows
  PROVE  /\ Requeued(row) = row \/ RowMove(row, Requeued(row))
         /\ Cancelled(row) = row \/ RowMove(row, Cancelled(row))
         /\ Cancelled(Requeued(row)) = row \/ RowMove(row, Cancelled(Requeued(row)))
BY DEF Requeued, Cancelled, RowMove, IsActiveRun, RunRows, RunOver

LEMMA StepMoves ==
  ASSUME ExchangesInv, UnstartedInv, [ExchangesNext]_exchangeVars
  PROVE  ClassesMove
<1> ExchangesTypeOK /\ \A x \in Exchanges : ExchangeInv(x)
  BY DEF ExchangesInv
<1> \A r \in ExchangeRuns : runs[r] \in RunRows
  BY RowTypes
<1>1. CASE UNCHANGED runs
  BY <1>1 DEF ClassesMove, OneMoves
<1>2. ASSUME NEW r \in ExchangeRuns, RunnerTakes(r) \/ MacTakes(r) PROVE ClassesMove
  <2>1. PICK mac \in BOOLEAN : SetRun(r, [runs[r] EXCEPT !.status = "held", !.mac = mac])
    BY <1>2 DEF RunnerTakes, MacTakes
  <2>2. RowMove(runs[r], [runs[r] EXCEPT !.status = "held", !.mac = mac])
    BY <1>2 DEF RunnerTakes, MacTakes, RowMove, RunRows
  <2> QED
    BY <2>1, <2>2, SetRunMoves
<1>3. ASSUME NEW r \in ExchangeRuns, LeaseRunsOut(r) PROVE ClassesMove
  <2>1. RowMove(runs[r], [runs[r] EXCEPT !.status = "lapsed"])
    BY <1>3 DEF LeaseRunsOut, RowMove
  <2> QED
    BY <1>3, <2>1, SetRunMoves DEF LeaseRunsOut
<1>4. ASSUME NEW r \in ExchangeRuns, StopRun(r) PROVE ClassesMove
  <2> DEFINE row == [runs[r] EXCEPT !.stop = TRUE, !.status = IF @ = "held" THEN @ ELSE "cancelled"]
  <2>1. CASE runs[r].status = "held"
    <3>1. row = [runs[r] EXCEPT !.stop = TRUE]
      BY <2>1 DEF RunRows
    <3> QED
      BY <1>4, <2>1, <3>1, SetRunMoves DEF StopRun, RowMove
  <2>2. CASE runs[r].status # "held"
    <3>1. RowMove(runs[r], row)
      BY <1>4, <2>2 DEF StopRun, RowMove, RunRows, RunOver
    <3> QED
      BY <1>4, <3>1, SetRunMoves DEF StopRun
  <2> QED
    BY <2>1, <2>2
<1>5. ASSUME NEW r \in ExchangeRuns, StoppedRunEnds(r) PROVE ClassesMove
  <2>1. RowMove(runs[r], [runs[r] EXCEPT !.status = "cancelled"])
    BY <1>5 DEF StoppedRunEnds, RowMove, IsActiveRun, RunRows, RunOver
  <2> QED
    BY <1>5, <2>1, SetRunMoves DEF StoppedRunEnds
<1>6. CASE RootEnds
  <2>1. PICK status \in {"completed", "failed"} : SetRun(Root, [runs[Root] EXCEPT !.status = status])
    BY <1>6 DEF RootEnds
  <2>2. Root \in ExchangeRuns
    BY RunNames
  <2>3. RowMove(runs[Root], [runs[Root] EXCEPT !.status = status])
    BY <1>6, <2>2 DEF RootEnds, RowMove, IsActiveRun, RunRows, RunOver
  <2> QED
    BY <2>1, <2>2, <2>3, SetRunMoves
<1>7. ASSUME NEW x \in Exchanges, NEW r \in ExchangeRuns, Send(x, r)
      PROVE  ClassesMove
  <2>1. Target(x) \in ExchangeRuns /\ SetRun(Target(x), Queued)
    BY <1>7, RunNames DEF Send
  <2>2. runs[Target(x)] = NoRun
    BY <1>7, <2>1 DEF Send, ExchangeInv, UnstartedInv
  <2> QED
    BY <2>1, <2>2, SetRunMoves DEF RowMove
<1>8. ASSUME NEW x \in Exchanges, FinishCommits(x) PROVE ClassesMove
  <2>1. CASE ~Lives(locked.run)
    BY <1>1, <1>8, <2>1 DEF FinishCommits
  <2>2. CASE Lives(locked.run)
    <3>1. PICK status \in {"completed", "failed"} :
            SetRun(locked.run, [runs[locked.run] EXCEPT !.status = status])
      BY <1>8, <2>2 DEF FinishCommits
    <3>2. locked.run \in ExchangeRuns
      BY <1>8, RunNames DEF FinishCommits
    <3>3. RowMove(runs[locked.run], [runs[locked.run] EXCEPT !.status = status])
      BY <2>2, <3>2 DEF Lives, RowMove, IsActiveRun, RunRows, RunOver
    <3> QED
      BY <3>1, <3>2, <3>3, SetRunMoves
  <2> QED
    BY <2>1, <2>2
<1>9. ASSUME NEW x \in Exchanges, ReconcileCancels(x) PROVE ClassesMove
  <2>1. Target(x) \in ExchangeRuns /\ Continuation(x) \in ExchangeRuns
    BY RunNames
  <2>2. Target(x) # Continuation(x)
    BY RunNames
  <2>3. runs' = [runs EXCEPT ![Target(x)] = Cancelled(runs[Target(x)]),
                             ![Continuation(x)] = Cancelled(runs[Continuation(x)])]
    BY <1>9, <2>2 DEF ReconcileCancels
  <2> QED
    BY <2>1, <2>3, PairMoves, RowsOfReconcile
<1>10. ASSUME NEW x \in Exchanges, ReconcileResumed(x) PROVE ClassesMove
  <2>1. Continuation(x) \in ExchangeRuns
    BY RunNames
  <2>2. SetRun(Continuation(x), Requeued(runs[Continuation(x)]))
    BY <1>10 DEF ReconcileResumed, SetRun
  <2> QED
    BY <2>1, <2>2, SetRunMoves, RowsOfReconcile
<1>11. ASSUME NEW x \in Exchanges, ReconcileAnswers(x) PROVE ClassesMove
  <2>1. /\ Target(x) \in ExchangeRuns /\ Continuation(x) \in ExchangeRuns
        /\ Target(x) # Continuation(x)
    BY RunNames
  <2>2. PICK a \in {Requeued(runs[Target(x)]), Cancelled(Requeued(runs[Target(x)]))},
             b \in {Queued, runs[Continuation(x)]} :
          runs' = [runs EXCEPT ![Target(x)] = a, ![Continuation(x)] = b]
    BY <1>11, <2>1 DEF ReconcileAnswers
  <2>3. runs[Continuation(x)] = NoRun
    BY <1>11, <2>1 DEF ReconcileAnswers, UnstartedInv
  <2>4. a = runs[Target(x)] \/ RowMove(runs[Target(x)], a)
    BY <2>1, RowsOfReconcile
  <2>5. b = runs[Continuation(x)] \/ RowMove(runs[Continuation(x)], b)
    BY <2>3 DEF RowMove
  <2> QED
    BY <2>2, <2>4, <2>5, PairMoves
<1> QED
  BY <1>1, <1>2, <1>3, <1>4, <1>5, <1>6, <1>7, <1>8, <1>9, <1>10, <1>11
     DEF ExchangesNext, ExchangeSteps, ExchangeFaults, RunsChange, Finish, Reconcile,
         ReconcileCommits, DeadlinePasses, FinishChecks, ReconcileChecks, OperationFails,
         PermissionChanges, exchangeVars

LEMMA UnstartedStep ==
  ASSUME ExchangesInv, UnstartedInv, [ExchangesNext]_exchangeVars
  PROVE  UnstartedInv'
<1>1. \A r \in ExchangeRuns : runs'[r] = runs[r] \/ RowMove(runs[r], runs'[r])
  BY StepMoves, Classes DEF ClassesMove, OneMoves
<1>2. \A r \in ExchangeRuns : RowMove(runs[r], runs'[r]) => runs'[r].status # "none"
  BY RowTypes DEF ExchangesInv, RowMove, RunRows, RunOver, Queued, NoRun
<1> QED
  BY <1>1, <1>2 DEF UnstartedInv

-----------------------------------------------------------------------------
\* The four views of a class of runs.
StatesOf(Some) == [r \in Some |-> StateSeen(runs[r])]
HoldersOf(Some) == [r \in Some |-> HolderSeen(runs[r])]
ExpiriesOf(Some) == [r \in Some |-> runs[r].status = "lapsed"]
RequestsOf(Some) == [r \in Some |-> runs[r].stop]

\* The contract's actions over the views of a class.
ViewAccepts(Some, r) ==
  /\ StatesOf(Some)[r] = "none"
  /\ StatesOf(Some)' = [StatesOf(Some) EXCEPT ![r] = "waiting"]
  /\ UNCHANGED <<HoldersOf(Some), ExpiriesOf(Some), RequestsOf(Some)>>

ViewGrants(Some, e, r) ==
  /\ StatesOf(Some)[r] \in {"none", "waiting"} \/ (StatesOf(Some)[r] = "held" /\ ExpiriesOf(Some)[r])
  /\ ~RequestsOf(Some)[r]
  /\ StatesOf(Some)' = [StatesOf(Some) EXCEPT ![r] = "held"]
  /\ HoldersOf(Some)' = [HoldersOf(Some) EXCEPT ![r] = e]
  /\ ExpiriesOf(Some)' = [ExpiriesOf(Some) EXCEPT ![r] = FALSE]
  /\ UNCHANGED RequestsOf(Some)

ViewReturns(Some, r) ==
  /\ StatesOf(Some)[r] = "held" /\ ~RequestsOf(Some)[r]
  /\ StatesOf(Some)' = [StatesOf(Some) EXCEPT ![r] = "waiting"]
  /\ HoldersOf(Some)' = [HoldersOf(Some) EXCEPT ![r] = "no one"]
  /\ ExpiriesOf(Some)' = [ExpiriesOf(Some) EXCEPT ![r] = FALSE]
  /\ UNCHANGED RequestsOf(Some)

ViewExpires(Some, r) ==
  /\ StatesOf(Some)[r] = "held"
  /\ ExpiriesOf(Some)' = [ExpiriesOf(Some) EXCEPT ![r] = TRUE]
  /\ UNCHANGED <<StatesOf(Some), HoldersOf(Some), RequestsOf(Some)>>

ViewAsks(Some, r) ==
  /\ StatesOf(Some)[r] = "held"
  /\ RequestsOf(Some)' = [RequestsOf(Some) EXCEPT ![r] = TRUE]
  /\ UNCHANGED <<StatesOf(Some), HoldersOf(Some), ExpiriesOf(Some)>>

ViewEnds(Some, r, outcome, stop) ==
  /\ StatesOf(Some)[r] = "held" \/ (StatesOf(Some)[r] = "waiting" /\ outcome \in {"cancelled"})
  /\ StatesOf(Some)' = [StatesOf(Some) EXCEPT ![r] = outcome]
  /\ HoldersOf(Some)' = [HoldersOf(Some) EXCEPT ![r] = "no one"]
  /\ ExpiriesOf(Some)' = [ExpiriesOf(Some) EXCEPT ![r] = FALSE]
  /\ RequestsOf(Some)' = [RequestsOf(Some) EXCEPT ![r] = @ \/ stop]

ViewMoves(Some) ==
  \E r \in Some :
    \/ ViewAccepts(Some, r) \/ ViewReturns(Some, r) \/ ViewExpires(Some, r) \/ ViewAsks(Some, r)
    \/ \E e \in {"mac", "runner"} : ViewGrants(Some, e, r)
    \/ \E outcome \in RunOver, stop \in BOOLEAN : ViewEnds(Some, r, outcome, stop)

LEMMA RowMoveSeen ==
  ASSUME NEW Some, NEW r \in Some,
         runs[r] \in RunRows, runs'[r] \in RunRows,
         RowMove(runs[r], runs'[r]), \A q \in Some : q # r => runs'[q] = runs[q]
  PROVE  ViewMoves(Some)
<1> DEFINE was == runs[r]
           is == runs'[r]
           S == StatesOf(Some)
           H == HoldersOf(Some)
           X == ExpiriesOf(Some)
           A == RequestsOf(Some)
<1>1. was \in RunRows /\ is \in RunRows
  OBVIOUS
<1>2. /\ S' = [S EXCEPT ![r] = StateSeen(is)] /\ H' = [H EXCEPT ![r] = HolderSeen(is)]
      /\ X' = [X EXCEPT ![r] = (is.status = "lapsed")] /\ A' = [A EXCEPT ![r] = is.stop]
      /\ S[r] = StateSeen(was) /\ X[r] = (was.status = "lapsed") /\ A[r] = was.stop
  <2>1. S' = [S EXCEPT ![r] = StateSeen(is)] /\ S[r] = StateSeen(was)
    BY DEF StatesOf, StateSeen
  <2>2. H' = [H EXCEPT ![r] = HolderSeen(is)]
    BY DEF HoldersOf, HolderSeen
  <2>3. X' = [X EXCEPT ![r] = (is.status = "lapsed")] /\ X[r] = (was.status = "lapsed")
    BY DEF ExpiriesOf
  <2>4. A' = [A EXCEPT ![r] = is.stop] /\ A[r] = was.stop
    BY DEF RequestsOf
  <2> QED
    BY <2>1, <2>2, <2>3, <2>4
<1>3. /\ StateSeen(is) = StateSeen(was) => S' = S
      /\ HolderSeen(is) = HolderSeen(was) => H' = H
      /\ (is.status = "lapsed") = (was.status = "lapsed") => X' = X
      /\ is.stop = was.stop => A' = A
  <2>1. /\ S = [S EXCEPT ![r] = StateSeen(was)] /\ H = [H EXCEPT ![r] = HolderSeen(was)]
        /\ X = [X EXCEPT ![r] = (was.status = "lapsed")] /\ A = [A EXCEPT ![r] = was.stop]
    BY DEF StatesOf, HoldersOf, ExpiriesOf, RequestsOf
  <2> QED
    BY <1>2, <2>1
<1>4. CASE was = NoRun /\ is = Queued
  <2>1. /\ StateSeen(was) = "none" /\ HolderSeen(was) = "no one" /\ (was.status = "lapsed") = FALSE
        /\ StateSeen(is) = "waiting" /\ HolderSeen(is) = "no one" /\ (is.status = "lapsed") = FALSE
        /\ is.stop = was.stop
    BY <1>4 DEF StateSeen, HolderSeen, NoRun, Queued
  <2>2. ViewAccepts(Some, r)
    BY <2>1, <1>2, <1>3 DEF ViewAccepts
  <2> QED
    BY <2>2 DEF ViewMoves
<1>5. CASE was.status \in {"queued", "lapsed"} /\ ~was.stop /\ is.status = "held" /\ is.stop = was.stop
  <2>1. /\ StateSeen(was) = "waiting" \/ (StateSeen(was) = "held" /\ was.status = "lapsed")
        /\ StateSeen(is) = "held" /\ (is.status = "lapsed") = FALSE
        /\ HolderSeen(is) \in {"mac", "runner"}
    BY <1>5 DEF StateSeen, HolderSeen
  <2>2. ViewGrants(Some, HolderSeen(is), r)
    BY <1>5, <2>1, <1>2, <1>3 DEF ViewGrants
  <2> QED
    BY <2>1, <2>2 DEF ViewMoves
<1>6. CASE was.status = "held" /\ is = [was EXCEPT !.status = "lapsed"]
  <2>1. is.status = "lapsed" /\ is.mac = was.mac /\ is.stop = was.stop
    BY <1>1, <1>6 DEF RunRows
  <2>2. /\ StateSeen(was) = "held" /\ StateSeen(is) = "held" /\ HolderSeen(is) = HolderSeen(was)
        /\ (is.status = "lapsed") = TRUE
    BY <1>6, <2>1 DEF StateSeen, HolderSeen
  <2>3. ViewExpires(Some, r)
    BY <2>1, <2>2, <1>2, <1>3 DEF ViewExpires
  <2> QED
    BY <2>3 DEF ViewMoves
<1>7. CASE was.status = "held" /\ is = [was EXCEPT !.stop = TRUE]
  <2>1. is.status = was.status /\ is.mac = was.mac /\ is.stop = TRUE
    BY <1>1, <1>7 DEF RunRows
  <2>2. StateSeen(was) = "held" /\ StateSeen(is) = "held" /\ HolderSeen(is) = HolderSeen(was)
    BY <1>7, <2>1 DEF StateSeen, HolderSeen
  <2>3. ViewAsks(Some, r)
    BY <2>1, <2>2, <1>2, <1>3 DEF ViewAsks
  <2> QED
    BY <2>3 DEF ViewMoves
<1>8. CASE was.status = "lapsed" /\ ~was.stop /\ is = [was EXCEPT !.status = "queued"]
  <2>1. is.status = "queued" /\ is.stop = was.stop
    BY <1>1, <1>8 DEF RunRows
  <2>2. /\ StateSeen(was) = "held" /\ StateSeen(is) = "waiting" /\ HolderSeen(is) = "no one"
        /\ (is.status = "lapsed") = FALSE
    BY <1>8, <2>1 DEF StateSeen, HolderSeen
  <2>3. ViewReturns(Some, r)
    BY <1>8, <2>1, <2>2, <1>2, <1>3 DEF ViewReturns
  <2> QED
    BY <2>3 DEF ViewMoves
<1>9. CASE /\ IsActiveRun(was) /\ is.status \in RunOver /\ (was.stop => is.stop)
           /\ was.status = "queued" => is.status = "cancelled"
  <2>1. was.stop \in BOOLEAN /\ is.stop \in BOOLEAN /\ is.stop = (was.stop \/ is.stop)
    BY <1>1, <1>9 DEF RunRows
  <2>2. /\ StateSeen(was) = "held" \/ (StateSeen(was) = "waiting" /\ is.status \in {"cancelled"})
        /\ StateSeen(is) = is.status /\ HolderSeen(is) = "no one" /\ (is.status = "lapsed") = FALSE
    BY <1>9 DEF StateSeen, HolderSeen, IsActiveRun, RunOver
  <2>3. ViewEnds(Some, r, is.status, is.stop)
    BY <2>1, <2>2, <1>2, <1>3 DEF ViewEnds
  <2> QED
    BY <1>9, <2>1, <2>3 DEF ViewMoves
<1> QED
  BY <1>4, <1>5, <1>6, <1>7, <1>8, <1>9 DEF RowMove

\* Each class takes a step of its contract.
LEMMA CallersSeen ==
  ASSUME ViewMoves(Callers) PROVE CallerContract!Moves
BY DEF ViewMoves, ViewAccepts, ViewReturns, ViewExpires, ViewAsks, ViewGrants, ViewEnds, RunOver,
       StatesOf, HoldersOf, ExpiriesOf, RequestsOf, CallerContract!Moves, CallerContract!Outcomes,
       CallerContract!Accept, CallerContract!Return, CallerContract!Expire, CallerContract!Ask,
       CallerContract!Grant, CallerContract!End

LEMMA TargetsSeen ==
  ASSUME ViewMoves(Targets) PROVE TargetContract!Moves
BY DEF ViewMoves, ViewAccepts, ViewReturns, ViewExpires, ViewAsks, ViewGrants, ViewEnds, RunOver,
       StatesOf, HoldersOf, ExpiriesOf, RequestsOf, TargetContract!Moves, TargetContract!Outcomes,
       TargetContract!Accept, TargetContract!Return, TargetContract!Expire, TargetContract!Ask,
       TargetContract!Grant, TargetContract!End

LEMMA ClassSeen ==
  ASSUME NEW Some, Some \subseteq ExchangeRuns, ExchangesTypeOK, ExchangesTypeOK', OneMoves(Some)
  PROVE  \/ ViewMoves(Some)
         \/ \A r \in Some : runs'[r] = runs[r]
<1>1. \A r \in Some : runs[r] \in RunRows /\ runs'[r] \in RunRows
  BY DEF ExchangesTypeOK
<1> QED
  BY <1>1, RowMoveSeen DEF OneMoves

\* The runs of an exchange keep the contract of every agent run, although the
\* reconciliation requeues and cancels them beside their handlers.
THEOREM ExchangeRunsImplementContract == ExchangesSpec => ExchangeRunsKeepContract
<1>1. ExchangesInit => UnstartedInv /\ CallerContract!Init /\ TargetContract!Init
  <2> SUFFICES ASSUME ExchangesInit PROVE UnstartedInv /\ CallerContract!Init /\ TargetContract!Init
    OBVIOUS
  <2>1. \A r \in ExchangeRuns : runs[r] = NoRun \/ runs[r] = Queued
    BY DEF ExchangesInit
  <2>2. /\ NoRun.status = "none" /\ NoRun.stop = FALSE
        /\ Queued.status = "queued" /\ Queued.stop = FALSE
    BY DEF NoRun, Queued
  <2>3. \A r \in ExchangeRuns :
          /\ StateSeen(runs[r]) \in {"none", "waiting"} /\ HolderSeen(runs[r]) = "no one"
          /\ (runs[r].status = "lapsed") = FALSE /\ runs[r].stop = FALSE
    BY <2>1, <2>2 DEF StateSeen, HolderSeen
  <2>4. CallerContract!Init /\ TargetContract!Init
    BY <2>3, Classes DEF CallerContract!Init, TargetContract!Init
  <2> QED
    BY <2>1, <2>2, <2>4 DEF UnstartedInv
<1>2. ExchangesInv /\ UnstartedInv /\ [ExchangesNext]_exchangeVars => UnstartedInv'
  BY UnstartedStep
<1>3. ExchangesInv /\ ExchangesInv' /\ UnstartedInv /\ [ExchangesNext]_exchangeVars
        => /\ [CallerContract!Next]_(CallerContract!vars)
           /\ [TargetContract!Next]_(TargetContract!vars)
  <2> SUFFICES ASSUME ExchangesInv, ExchangesInv', UnstartedInv, [ExchangesNext]_exchangeVars
               PROVE  /\ [CallerContract!Next]_(CallerContract!vars)
                      /\ [TargetContract!Next]_(TargetContract!vars)
    OBVIOUS
  <2>1. OneMoves(Callers) /\ OneMoves(Targets) /\ ExchangesTypeOK /\ ExchangesTypeOK'
    BY StepMoves DEF ClassesMove, ExchangesInv
  <2>2. CallerContract!Moves \/ \A r \in Callers : runs'[r] = runs[r]
    BY <2>1, ClassSeen, Classes, CallersSeen
  <2>3. TargetContract!Moves \/ \A r \in Targets : runs'[r] = runs[r]
    BY <2>1, ClassSeen, Classes, TargetsSeen
  <2>4. (\A r \in Callers : runs'[r] = runs[r]) => UNCHANGED CallerContract!vars
    BY DEF CallerContract!vars, StateSeen, HolderSeen
  <2>5. (\A r \in Targets : runs'[r] = runs[r]) => UNCHANGED TargetContract!vars
    BY DEF TargetContract!vars, StateSeen, HolderSeen
  <2> QED
    BY <2>2, <2>3, <2>4, <2>5 DEF CallerContract!Next, TargetContract!Next
<1> QED
  BY <1>1, <1>2, <1>3, ExchangesInvariant, PTL
     DEF ExchangesSpec, ExchangeRunsKeepContract, CallerContract!Spec, TargetContract!Spec
-----------------------------------------------------------------------------
(* The exchanges implement ExchangePromise.  A step moves at most one      *)
(* exchange.  That the turn which asked has ended, as the promise means    *)
(* it, is read off its exchange: an answering turn that ends by itself has *)
(* answered, a continuation takes its exchange with it when it ends, and   *)
(* what is reconciled has not ended (SettledInv).                          *)

SettledInv ==
  /\ \A x \in Exchanges :
       /\ Over(Target(x)) => exchanges[x].answer = "reply"
       /\ Over(Continuation(x)) => exchanges[x].status \in {"completed", "failed"}
  /\ locked # Nothing /\ locked.op = "reconcile" => Unfinished(locked.exchange)

\* The turns of the promise, as the rows show them.
TurnEnded(r) ==
  \/ r = Root /\ Over(Root)
  \/ \E y \in Exchanges :
       \/ r = Target(y) /\ exchanges[y].answer = "reply"
       \/ r = Continuation(y) /\ exchanges[y].status \in {"completed", "failed"}

TurnGoesOn(r) ==
  \/ r = Root /\ ~Over(Root)
  \/ \E y \in Exchanges :
       \/ r = Target(y) /\ exchanges[y].status = "pending"
       \/ r = Continuation(y) /\ exchanges[y].status = "resuming"

\* What may become of an exchange.
IsAsked(was, is) ==
  /\ was.status = "none" /\ is.status = "pending" /\ TurnGoesOn(is.parent)
  /\ is.answer = was.answer /\ is.public = was.public

IsAnswered(was, is) ==
  /\ was.status = "pending" /\ is.status = "reply_received" /\ is.parent = was.parent
  /\ is.answer = "reply" /\ is.public

IsGivenUp(was, is) ==
  /\ was.status = "pending" /\ is.status \in {"reply_received", "resuming"}
  /\ is.status = "resuming" => TurnEnded(was.parent)
  /\ is.answer = "unavailable" /\ is.parent = was.parent /\ is.public = was.public

GoesOn(was, is) ==
  /\ was.status = "reply_received" /\ is.status = "resuming" /\ TurnEnded(was.parent)
  /\ is.answer = was.answer /\ is.parent = was.parent /\ is.public = was.public

IsSettled(was, is) ==
  /\ \/ was.status = "resuming" /\ is.status \in ExchangeEnds
     \/ was.status \in {"pending", "reply_received"} /\ is.status = "cancelled"
  /\ is.answer = was.answer /\ is.parent = was.parent /\ is.public = was.public

ExchangeMove(was, is) ==
  \/ IsAsked(was, is) \/ IsAnswered(was, is) \/ IsGivenUp(was, is)
  \/ GoesOn(was, is) \/ IsSettled(was, is)

\* Each name of a phase stands for one status.
LEMMA Phases ==
  /\ Phase("none") = "none" /\ Phase("pending") = "asked"
  /\ Phase("reply_received") = "answered" /\ Phase("resuming") = "continuing"
  /\ \A status \in ExchangeEnds : Phase(status) = status
BY DEF Phase, ExchangeEnds

LEMMA MoveIsPromised ==
  ASSUME NEW x \in Exchanges, NEW row \in ExchangeRows, ExchangesTypeOK, row.parent \in ExchangeRuns,
         exchanges' = [exchanges EXCEPT ![x] = row], ExchangeMove(exchanges[x], row),
         runs'[Root] = runs[Root]
  PROVE  Promise!Moves
<1> DEFINE P == [y \in Exchanges |-> Phase(exchanges[y].status)]
           A == [y \in Exchanges |-> exchanges[y].parent]
           T == [y \in Exchanges |-> exchanges[y].answer]
           S == {y \in Exchanges : exchanges[y].public}
           was == exchanges[x]
<1>1. /\ was \in ExchangeRows /\ exchanges'[x] = row
      /\ \A y \in Exchanges : y # x => exchanges'[y] = exchanges[y]
  BY DEF ExchangesTypeOK
<1>2. /\ P' = [P EXCEPT ![x] = Phase(row.status)] /\ P[x] = Phase(was.status)
      /\ \A y \in Exchanges : P[y] = Phase(exchanges[y].status)
  <2>1. P' = [y \in Exchanges |-> Phase(exchanges'[y].status)]
    BY DEF Phase
  <2>2. \A y \in Exchanges : P[y] = Phase(exchanges[y].status)
    OBVIOUS
  <2>3. \A y \in Exchanges : P'[y] = IF y = x THEN Phase(row.status) ELSE P[y]
    BY <1>1, <2>1, <2>2
  <2> QED
    BY <2>1, <2>2, <2>3
<1>3. /\ row.parent = was.parent => A' = A
      /\ A' = [A EXCEPT ![x] = row.parent] /\ A[x] = was.parent
  <2>1. \A y \in Exchanges : A'[y] = IF y = x THEN row.parent ELSE A[y]
    BY <1>1
  <2>2. A[x] = was.parent
    OBVIOUS
  <2> QED
    BY <2>1, <2>2
<1>4. T' = [T EXCEPT ![x] = row.answer] /\ (row.answer = was.answer => T' = T)
  <2>1. \A y \in Exchanges : T'[y] = IF y = x THEN row.answer ELSE T[y]
    BY <1>1
  <2>2. T[x] = was.answer
    OBVIOUS
  <2> QED
    BY <2>1, <2>2
<1>5. /\ row.public = was.public => S' = S
      /\ row.public => S' = S \cup {x}
  BY <1>1
<1>6. ASSUME NEW r PROVE /\ TurnEnded(r) => Promise!TurnIsOver(r)
                         /\ TurnGoesOn(r) => Promise!UnderWay(r)
  <2>1. \A y \in Exchanges : Promise!Answering(y) = Target(y) /\ Promise!GoingOn(y) = Continuation(y)
    BY DEF Promise!Answering, Promise!GoingOn, Target, Continuation
  <2>2. \A y \in Exchanges :
          /\ exchanges[y].status \in {"completed", "failed"} => P[y] \in {"completed", "failed"}
          /\ exchanges[y].status = "pending" => P[y] = "asked"
          /\ exchanges[y].status = "resuming" => P[y] = "continuing"
    BY <1>2, Phases DEF ExchangeEnds
  <2>3. \A y \in Exchanges : T[y] = exchanges[y].answer
    OBVIOUS
  <2> HIDE DEF P, T
  <2>4. TurnEnded(r) => Promise!TurnIsOver(r)
    BY <2>1, <2>2, <2>3 DEF TurnEnded, Promise!TurnIsOver, Over, P, T
  <2>5. TurnGoesOn(r) => Promise!UnderWay(r)
    BY <2>1, <2>2 DEF TurnGoesOn, Promise!UnderWay, Over, P
  <2> QED
    BY <2>4, <2>5
<1>7. row.parent \in Promise!Turns
  BY DEF ExchangeRuns, Targets, Continuations, Target, Continuation,
         Promise!Turns, Promise!Answering, Promise!GoingOn
<1>8. CASE IsAsked(was, row)
  <2>1. P[x] = "none" /\ P' = [P EXCEPT ![x] = "asked"]
    BY <1>2, <1>8, Phases DEF IsAsked
  <2>2. A' = [A EXCEPT ![x] = row.parent] /\ T' = T /\ S' = S
    BY <1>3, <1>4, <1>5, <1>8 DEF IsAsked
  <2>3. Promise!UnderWay(row.parent)
    BY <1>6, <1>8 DEF IsAsked
  <2>4. Promise!Ask(x, row.parent)
    BY <2>1, <2>2, <2>3 DEF Promise!Ask
  <2> QED
    BY <1>7, <2>4 DEF Promise!Moves
<1>9. CASE IsAnswered(was, row)
  <2>1. P[x] = "asked" /\ P' = [P EXCEPT ![x] = "answered"]
    BY <1>2, <1>9, Phases DEF IsAnswered
  <2>2. A' = A /\ T' = [T EXCEPT ![x] = "reply"] /\ S' = S \cup {x}
    BY <1>3, <1>4, <1>5, <1>9 DEF IsAnswered
  <2>3. Promise!Reply(x)
    BY <2>1, <2>2 DEF Promise!Reply
  <2> QED
    BY <2>3 DEF Promise!Moves
<1>10. CASE IsGivenUp(was, row)
  <2> DEFINE next == Phase(row.status)
  <2>1. /\ P[x] = "asked" /\ P' = [P EXCEPT ![x] = next] /\ next \in {"answered", "continuing"}
        /\ next = "continuing" => TurnEnded(was.parent)
    BY <1>2, <1>10, Phases DEF IsGivenUp
  <2>2. A' = A /\ T' = [T EXCEPT ![x] = "unavailable"] /\ S' = S
    BY <1>3, <1>4, <1>5, <1>10 DEF IsGivenUp
  <2> HIDE DEF next
  <2>3. Promise!GiveUp(x, next)
    BY <1>3, <1>6, <2>1, <2>2 DEF Promise!GiveUp
  <2> QED
    BY <2>1, <2>3 DEF Promise!Moves
<1>11. CASE GoesOn(was, row)
  <2>1. P[x] = "answered" /\ P' = [P EXCEPT ![x] = "continuing"]
    BY <1>2, <1>11, Phases DEF GoesOn
  <2>2. A' = A /\ T' = T /\ S' = S
    BY <1>3, <1>4, <1>5, <1>11 DEF GoesOn
  <2>3. Promise!Continue(x)
    BY <1>3, <1>6, <1>11, <2>1, <2>2 DEF Promise!Continue, GoesOn
  <2> QED
    BY <2>3 DEF Promise!Moves
<1>12. CASE IsSettled(was, row)
  <2>1. /\ row.status \in {"completed", "failed", "cancelled"} /\ Phase(row.status) = row.status
        /\ P[x] = "continuing" \/ (row.status = "cancelled" /\ P[x] \in {"asked", "answered"})
        /\ P' = [P EXCEPT ![x] = row.status]
    BY <1>2, <1>12, Phases DEF IsSettled, ExchangeEnds
  <2>2. A' = A /\ T' = T /\ S' = S
    BY <1>3, <1>4, <1>5, <1>12 DEF IsSettled
  <2>3. Promise!Settle(x, row.status)
    BY <2>1, <2>2 DEF Promise!Settle
  <2> QED
    BY <2>1, <2>3 DEF Promise!Moves, Promise!Ends
<1> QED
  BY <1>8, <1>9, <1>10, <1>11, <1>12 DEF ExchangeMove

LEMMA ParentTurns ==
  ASSUME ExchangesInv, SettledInv, NEW r \in ExchangeRuns
  PROVE  /\ Lives(r) => TurnGoesOn(r)
         /\ Over(r) => TurnEnded(r)
<1>1. CASE r = Root
  BY <1>1 DEF TurnGoesOn, TurnEnded, Lives, Over
<1>2. ASSUME NEW y \in Exchanges, r = Target(y)
      PROVE  /\ Lives(r) => TurnGoesOn(r)
             /\ Over(r) => TurnEnded(r)
  <2>1. ExchangeInv(y)
    BY DEF ExchangesInv
  <2>2. Lives(r) => exchanges[y].status = "pending"
    BY <1>2, <2>1 DEF Lives, ExchangeInv, IsActiveRun
  <2> QED
    BY <1>2, <2>2 DEF SettledInv, TurnGoesOn, TurnEnded
<1>3. ASSUME NEW y \in Exchanges, r = Continuation(y)
      PROVE  /\ Lives(r) => TurnGoesOn(r)
             /\ Over(r) => TurnEnded(r)
  <2>1. ExchangeInv(y)
    BY DEF ExchangesInv
  <2>2. Lives(r) => exchanges[y].status = "resuming"
    BY <1>3, <2>1 DEF Lives, ExchangeInv, IsActiveRun
  <2> QED
    BY <1>3, <2>2 DEF SettledInv, TurnGoesOn, TurnEnded
<1> QED
  BY <1>1, <1>2, <1>3 DEF ExchangeRuns, Targets, Continuations

\* A step makes one move of one exchange, or none.
ExchangesMove ==
  /\ runs'[Root] = runs[Root]
  /\ \E x \in Exchanges, row \in ExchangeRows :
       /\ exchanges' = [exchanges EXCEPT ![x] = row]
       /\ row = exchanges[x]
            \/ (row.parent \in ExchangeRuns /\ ExchangeMove(exchanges[x], row))

LEMMA FinishMoves ==
  ASSUME ExchangesInv, NEW x \in Exchanges, FinishCommits(x)
  PROVE  UNCHANGED exchanges \/ ExchangesMove
<1>1. /\ ExchangesTypeOK /\ ExchangeInv(x) /\ exchanges[x] \in ExchangeRows
      /\ exchanges \in [Exchanges -> ExchangeRows]
  BY RowTypes DEF ExchangesInv, ExchangesTypeOK
<1>2. CASE ~Lives(locked.run)
  BY <1>2 DEF FinishCommits
<1>3. runs'[Root] = runs[Root]
  BY RunNames DEF FinishCommits, SetRun, ExchangesInv, ExchangesTypeOK
<1>4. exchanges[x].status # "none" => exchanges[x].parent \in ExchangeRuns
  BY <1>1 DEF ExchangeInv
<1>5. CASE Lives(locked.run) /\ locked.run = Target(x)
  <2> DEFINE row == [exchanges[x] EXCEPT !.status = "reply_received", !.answer = "reply", !.public = TRUE]
  <2>1. exchanges[x].status = "pending"
    BY <1>1, <1>5 DEF Lives, ExchangeInv, IsActiveRun, ExchangeRows
  <2>2. exchanges' = [exchanges EXCEPT ![x] = row]
    BY <1>1, <1>5, <2>1 DEF FinishCommits
  <2>3. row \in ExchangeRows /\ row.parent = exchanges[x].parent /\ IsAnswered(exchanges[x], row)
    BY <1>1, <2>1 DEF ExchangeRows, IsAnswered
  <2> QED
    BY <1>3, <1>4, <2>1, <2>2, <2>3 DEF ExchangesMove, ExchangeMove
<1>6. CASE Lives(locked.run) /\ locked.run = Continuation(x)
  <2>1. exchanges[x].status = "resuming" /\ Target(x) # Continuation(x)
    BY <1>1, <1>6, RunNames DEF Lives, ExchangeInv, IsActiveRun
  <2>2. PICK status \in {"completed", "failed"} :
          exchanges' = [exchanges EXCEPT ![x] = [@ EXCEPT !.status = status]]
    BY <1>1, <1>6, <2>1 DEF FinishCommits
  <2> DEFINE row == [exchanges[x] EXCEPT !.status = status]
  <2>3. row \in ExchangeRows /\ row.parent = exchanges[x].parent /\ IsSettled(exchanges[x], row)
    BY <1>1, <2>1 DEF ExchangeRows, ExchangeEnds, IsSettled
  <2>4. exchanges' = [exchanges EXCEPT ![x] = row]
    BY <2>2
  <2> QED
    BY <1>3, <1>4, <2>1, <2>3, <2>4 DEF ExchangesMove, ExchangeMove
<1> QED
  BY <1>2, <1>5, <1>6 DEF FinishCommits

LEMMA ReconcileMoves ==
  ASSUME ExchangesInv, SettledInv, NEW x \in Exchanges, ReconcileCommits(x)
  PROVE  ExchangesMove
<1>1. /\ ExchangesTypeOK /\ ExchangeInv(x) /\ exchanges[x] \in ExchangeRows
      /\ exchanges \in [Exchanges -> ExchangeRows]
      /\ runs[Target(x)] \in RunRows /\ runs[Continuation(x)] \in RunRows
  BY RowTypes, RunNames DEF ExchangesInv, ExchangesTypeOK
<1>2. Unfinished(x)
  BY DEF ReconcileCommits, ReconcileCancels, ReconcileResumed, ReconcileAnswers, Reconciles, SettledInv
<1>3. exchanges[x].parent \in ExchangeRuns
  BY <1>1, <1>2 DEF ExchangeInv, Unfinished
<1>4. runs'[Root] = runs[Root]
  <2>1. \A a, b : runs' = [runs EXCEPT ![Target(x)] = a, ![Continuation(x)] = b] => runs'[Root] = runs[Root]
    BY RunNames DEF ExchangesInv, ExchangesTypeOK
  <2>2. ReconcileAnswers(x) =>
          \E a, b : runs' = [runs EXCEPT ![Target(x)] = a, ![Continuation(x)] = b]
    BY DEF ReconcileAnswers
  <2>3. ReconcileCancels(x) \/ ReconcileResumed(x) => runs'[Root] = runs[Root]
    BY RunNames DEF ReconcileCancels, ReconcileResumed, ExchangesInv, ExchangesTypeOK
  <2> QED
    BY <2>1, <2>2, <2>3 DEF ReconcileCommits
<1>5. CASE ReconcileCancels(x)
  <2> DEFINE row == [exchanges[x] EXCEPT !.status = "cancelled"]
  <2>1. /\ row \in ExchangeRows /\ row.parent = exchanges[x].parent
        /\ IsSettled(exchanges[x], row)
    BY <1>1, <1>2 DEF Unfinished, ExchangeRows, ExchangeEnds, IsSettled
  <2> QED
    BY <1>3, <1>4, <1>5, <2>1 DEF ReconcileCancels, ExchangesMove, ExchangeMove
<1>6. CASE ReconcileResumed(x)
  <2> DEFINE status == ResumedStatus(exchanges[x].status, runs'[Continuation(x)])
             row == [exchanges[x] EXCEPT !.status = status]
  <2>1. exchanges' = [exchanges EXCEPT ![x] = row]
    BY <1>1, <1>6 DEF ReconcileResumed
  <2>2. exchanges[x].status = "resuming"
    BY <1>1, <1>2, <1>6 DEF ReconcileResumed, ExchangeInv, Unfinished, ExchangeEnds
  <2>3. status = "resuming" \/ status \in ExchangeEnds
    BY <2>2 DEF ResumedStatus, ExchangeEnds
  <2> HIDE DEF status
  <2>4. /\ row \in ExchangeRows /\ row.parent = exchanges[x].parent
        /\ row = exchanges[x] \/ IsSettled(exchanges[x], row)
    BY <1>1, <2>2, <2>3 DEF ExchangeRows, ExchangeEnds, IsSettled
  <2> QED
    BY <1>3, <1>4, <2>1, <2>4 DEF ExchangesMove, ExchangeMove
<1>7. CASE ReconcileAnswers(x)
  <2> DEFINE none == NoAnswerComes(x, Requeued(runs[Target(x)]))
             next == IF none
                     THEN [exchanges[x] EXCEPT !.status = "reply_received", !.answer = "unavailable"]
                     ELSE exchanges[x]
             goes == next.status = "reply_received" /\ locked.parentOver
             row  == IF goes THEN [next EXCEPT !.status = "resuming"] ELSE next
  <2>1. exchanges' = [exchanges EXCEPT ![x] = row]
    BY <1>7 DEF ReconcileAnswers
  <2>2. locked.parentOver => TurnEnded(exchanges[x].parent)
    <3>1. locked.parentOver => Over(exchanges[x].parent)
      BY <1>7 DEF ReconcileAnswers, Reconciles, ExchangesInv, LockInv, Done
    <3> QED
      BY <1>3, <3>1, ParentTurns
  <2>3. none => exchanges[x].status = "pending"
    BY DEF NoAnswerComes
  <2> HIDE DEF none
  <2>4. /\ row \in ExchangeRows /\ row.parent = exchanges[x].parent
        /\ row = exchanges[x] \/ IsGivenUp(exchanges[x], row) \/ GoesOn(exchanges[x], row)
    <3>1. CASE none
      BY <1>1, <2>2, <2>3, <3>1 DEF ExchangeRows, IsGivenUp
    <3>2. CASE ~none
      BY <1>1, <2>2, <3>2 DEF ExchangeRows, GoesOn
    <3> QED
      BY <3>1, <3>2
  <2> QED
    BY <1>3, <1>4, <2>1, <2>4 DEF ExchangesMove, ExchangeMove
<1> QED
  BY <1>5, <1>6, <1>7 DEF ReconcileCommits

LEMMA SendMoves ==
  ASSUME ExchangesInv, SettledInv, NEW x \in Exchanges, NEW r \in ExchangeRuns, Send(x, r)
  PROVE  ExchangesMove
<1> DEFINE row == [exchanges[x] EXCEPT !.status = "pending", !.parent = r]
<1>1. exchanges[x] \in ExchangeRows /\ exchanges \in [Exchanges -> ExchangeRows] /\ r \in ExchangeRuns
  BY RowTypes, RunNames DEF ExchangesInv, ExchangesTypeOK
<1>2. exchanges' = [exchanges EXCEPT ![x] = row]
  BY <1>1 DEF Send
<1>3. row \in ExchangeRows /\ IsAsked(exchanges[x], row)
  BY <1>1, ParentTurns DEF Send, ExchangeRows, IsAsked
<1>4. runs'[Root] = runs[Root] /\ row.parent = r
  BY <1>1, RunNames DEF Send, SetRun, ExchangesInv, ExchangesTypeOK, ExchangeRows
<1> QED
  BY <1>2, <1>3, <1>4 DEF ExchangesMove, ExchangeMove

LEMMA NextMovesExchange ==
  ASSUME ExchangesInv, SettledInv, [ExchangesNext]_exchangeVars
  PROVE  UNCHANGED exchanges \/ ExchangesMove
<1>1. ASSUME NEW r \in ExchangeRuns, RunsChange(r) \/ LeaseRunsOut(r) PROVE UNCHANGED exchanges
  BY <1>1 DEF RunsChange, RunnerTakes, MacTakes, StopRun, StoppedRunEnds, LeaseRunsOut
<1>2. CASE RootEnds \/ OperationFails \/ PermissionChanges \/ UNCHANGED exchangeVars
  BY <1>2 DEF RootEnds, OperationFails, PermissionChanges, exchangeVars
<1>3. ASSUME NEW x \in Exchanges,
             \/ ReconcileChecks(x) \/ FinishChecks(Target(x)) \/ FinishChecks(Continuation(x))
             \/ DeadlinePasses(x)
      PROVE  UNCHANGED exchanges
  BY <1>3 DEF ReconcileChecks, FinishChecks, DeadlinePasses
<1> QED
  BY <1>1, <1>2, <1>3, FinishMoves, ReconcileMoves, SendMoves
     DEF ExchangesNext, ExchangeSteps, ExchangeFaults, Finish, Reconcile

\* Only finish ends a target or a continuation otherwise than by cancelling it.
LEMMA WhoEndsRuns ==
  ASSUME ExchangesInv, NEW c \in ExchangeRuns, c # Root, [ExchangesNext]_exchangeVars,
         Over(c)', ~Over(c)
  PROVE  \E x \in Exchanges : FinishCommits(x) /\ Lives(locked.run) /\ locked.run = c
<1>1. runs \in [ExchangeRuns -> RunRows]
  BY DEF ExchangesInv, ExchangesTypeOK
<1>2. runs'[c].status \in {"completed", "failed"} /\ runs[c].status \notin {"completed", "failed"}
      /\ runs[c] \in RunRows
  BY <1>1 DEF Over
<1>3. ASSUME NEW r \in ExchangeRuns, NEW row \in RunRows, SetRun(r, row)
      PROVE  r = c /\ row.status \in {"completed", "failed"}
  BY <1>1, <1>2, <1>3 DEF SetRun
<1>4. ASSUME NEW r \in ExchangeRuns, RunsChange(r) \/ LeaseRunsOut(r) PROVE FALSE
  <2>1. runs[r] \in RunRows
    BY <1>1
  <2>2. \A mac \in BOOLEAN : LET row == [runs[r] EXCEPT !.status = "held", !.mac = mac] IN
          row \in RunRows /\ row.status = "held"
    BY <2>1 DEF RunRows
  <2>3. CASE RunnerTakes(r) \/ MacTakes(r)
    BY <1>3, <2>2, <2>3 DEF RunnerTakes, MacTakes
  <2>4. LET row == [runs[r] EXCEPT !.status = "lapsed"] IN row \in RunRows /\ row.status = "lapsed"
    BY <2>1 DEF RunRows
  <2>5. CASE LeaseRunsOut(r)
    BY <1>3, <2>4, <2>5 DEF LeaseRunsOut
  <2>6. LET row == [runs[r] EXCEPT !.status = "cancelled"] IN row \in RunRows /\ row.status = "cancelled"
    BY <2>1 DEF RunRows, RunOver
  <2>7. CASE StoppedRunEnds(r)
    BY <1>3, <2>6, <2>7 DEF StoppedRunEnds
  <2>8. LET row == [runs[r] EXCEPT !.stop = TRUE, !.status = IF @ = "held" THEN @ ELSE "cancelled"] IN
          row \in RunRows /\ row.status \in {"held", "cancelled"}
    BY <2>1 DEF RunRows, RunOver
  <2>9. CASE StopRun(r)
    BY <1>3, <2>8, <2>9 DEF StopRun
  <2> QED
    BY <1>4, <2>3, <2>5, <2>7, <2>9 DEF RunsChange
<1>5. ASSUME RootEnds PROVE FALSE
  BY <1>1, <1>2, <1>5 DEF RootEnds, SetRun
<1>6. ASSUME NEW x \in Exchanges, NEW r \in ExchangeRuns, Send(x, r) PROVE FALSE
  BY <1>1, <1>2, <1>6 DEF Send, SetRun, Queued, NoRun
<1>7. ASSUME NEW x \in Exchanges, ReconcileCommits(x) PROVE FALSE
  <2>1. ASSUME NEW row \in RunRows,
               runs'[c] \in {row, Cancelled(row), Requeued(row), Cancelled(Requeued(row))}
        PROVE  runs'[c] = row
    BY <1>2, <2>1, OverStays
  <2>2. CASE ReconcileCancels(x)
    <3>1. runs'[c] \in {runs[c], Cancelled(runs[c])}
      BY <1>1, <2>2, RunNames DEF ReconcileCancels
    <3> QED
      BY <1>2, <2>1, <3>1
  <2>3. CASE ReconcileResumed(x)
    <3>1. runs'[c] \in {runs[c], Requeued(runs[c])}
      BY <1>1, <2>3 DEF ReconcileResumed
    <3> QED
      BY <1>2, <2>1, <3>1
  <2>4. CASE ReconcileAnswers(x)
    <3>1. PICK a \in {Requeued(runs[Target(x)]), Cancelled(Requeued(runs[Target(x)]))},
               b \in {Queued, runs[Continuation(x)]} :
            runs' = [runs EXCEPT ![Target(x)] = a, ![Continuation(x)] = b]
      BY <1>1, <2>4, RunNames DEF ReconcileAnswers
    <3>2. runs'[c] \in {runs[c], Requeued(runs[c]), Cancelled(Requeued(runs[c])), Queued}
      BY <1>1, <3>1, RunNames
    <3>3. Queued.status = "queued"
      BY DEF Queued, NoRun
    <3> QED
      BY <1>2, <2>1, <3>2, <3>3
  <2> QED
    BY <1>7, <2>2, <2>3, <2>4 DEF ReconcileCommits
<1>8. ASSUME NEW x \in Exchanges, FinishCommits(x)
      PROVE  Lives(locked.run) /\ locked.run = c
  BY <1>1, <1>2, <1>8 DEF FinishCommits, SetRun
<1>9. ASSUME UNCHANGED runs PROVE FALSE
  BY <1>2, <1>9
<1> QED
  BY <1>4, <1>5, <1>6, <1>7, <1>8, <1>9
     DEF ExchangesNext, ExchangeSteps, ExchangeFaults, Finish, Reconcile, DeadlinePasses, FinishChecks,
         ReconcileChecks, OperationFails, PermissionChanges, exchangeVars

LEMMA SettledStep ==
  ASSUME ExchangesInv, SettledInv, [ExchangesNext]_exchangeVars
  PROVE  SettledInv'
<1>1. /\ exchanges \in [Exchanges -> ExchangeRows] /\ locked \in Operations
      /\ \A x \in Exchanges : ExchangeInv(x)
  BY DEF ExchangesInv, ExchangesTypeOK
<1>2. UNCHANGED exchanges \/ ExchangesMove
  BY NextMovesExchange
<1>3. ASSUME NEW y \in Exchanges, exchanges[y].status \in ExchangeEnds
      PROVE  exchanges'[y] = exchanges[y]
  BY <1>1, <1>2, <1>3
     DEF ExchangesMove, ExchangeMove, IsAsked, IsAnswered, IsGivenUp, GoesOn, IsSettled, ExchangeEnds
<1>4. ASSUME NEW y \in Exchanges, Over(Continuation(y))'
      PROVE  exchanges'[y].status \in {"completed", "failed"}
  <2>1. CASE Over(Continuation(y))
    BY <1>3, <2>1 DEF SettledInv, ExchangeEnds
  <2>2. CASE ~Over(Continuation(y))
    <3>1. FinishCommits(y) /\ Lives(locked.run) /\ locked.run = Continuation(y)
      <4>1. PICK x \in Exchanges :
              FinishCommits(x) /\ Lives(locked.run) /\ locked.run = Continuation(y)
        BY <1>4, <2>2, WhoEndsRuns, RunNames
      <4>2. x = y
        BY <4>1, RunNames DEF FinishCommits
      <4> QED
        BY <4>1, <4>2
    <3>2. exchanges[y].status = "resuming" /\ Target(y) # Continuation(y)
      BY <1>1, <3>1, RunNames DEF Lives, ExchangeInv, IsActiveRun
    <3>3. \E status \in {"completed", "failed"} :
            exchanges' = [exchanges EXCEPT ![y] = [@ EXCEPT !.status = status]]
      BY <1>1, <3>1, <3>2 DEF FinishCommits
    <3>4. \A status : [exchanges[y] EXCEPT !.status = status].status = status
      BY <1>1 DEF ExchangeRows
    <3> QED
      BY <1>1, <3>3, <3>4
  <2> QED
    BY <2>1, <2>2
<1>5. ASSUME NEW y \in Exchanges, Over(Target(y))' PROVE exchanges'[y].answer = "reply"
  <2>1. CASE Over(Target(y))
    <3>1. exchanges[y].answer = "reply"
      BY <2>1 DEF SettledInv
    <3> QED
      BY <1>1, <1>2, <3>1
         DEF ExchangesMove, ExchangeMove, IsAsked, IsAnswered, IsGivenUp, GoesOn, IsSettled, ExchangeInv
  <2>2. CASE ~Over(Target(y))
    <3>1. FinishCommits(y) /\ Lives(locked.run) /\ locked.run = Target(y)
      <4>1. PICK x \in Exchanges :
              FinishCommits(x) /\ Lives(locked.run) /\ locked.run = Target(y)
        BY <1>5, <2>2, WhoEndsRuns, RunNames
      <4>2. x = y
        BY <4>1, RunNames DEF FinishCommits
      <4> QED
        BY <4>1, <4>2
    <3>2. exchanges[y].status = "pending"
      BY <1>1, <3>1 DEF Lives, ExchangeInv, IsActiveRun
    <3>3. exchanges' = [exchanges EXCEPT ![y] =
            [@ EXCEPT !.status = "reply_received", !.answer = "reply", !.public = TRUE]]
      BY <3>1, <3>2, <1>1 DEF FinishCommits
    <3> QED
      BY <1>1, <3>3 DEF ExchangeRows
  <2> QED
    BY <2>1, <2>2
<1> DEFINE Open(x) == exchanges'[x].status \in {"pending", "reply_received", "resuming"}
<1>6. ASSUME locked' # Nothing, locked'.op = "reconcile" PROVE Open(locked'.exchange)
  <2>1. CASE locked' = locked
    <3>1. UNCHANGED exchanges
      BY <1>6, <2>1
         DEF ExchangesNext, ExchangeSteps, ExchangeFaults, Finish, Reconcile, DeadlinePasses, FinishChecks,
             ReconcileChecks, OperationFails, PermissionChanges, exchangeVars, RunsChange, RunnerTakes,
             MacTakes, StopRun, StoppedRunEnds, LeaseRunsOut, RootEnds, Send, FinishCommits,
             ReconcileCommits, ReconcileCancels, ReconcileResumed, ReconcileAnswers
    <3> QED
      BY <1>6, <2>1, <3>1 DEF SettledInv, Unfinished
  <2>2. ASSUME NEW x \in Exchanges, ReconcileChecks(x) PROVE Open(locked'.exchange)
    BY <2>2 DEF ReconcileChecks, Unfinished
  <2>3. ASSUME NEW r, FinishChecks(r) PROVE FALSE
    BY <1>6, <2>3 DEF FinishChecks
  <2> QED
    BY <1>6, <2>1, <2>2, <2>3
       DEF ExchangesNext, ExchangeSteps, ExchangeFaults, Finish, Reconcile, DeadlinePasses,
           OperationFails, PermissionChanges, exchangeVars, RunsChange, RunnerTakes,
           MacTakes, StopRun, StoppedRunEnds, LeaseRunsOut, RootEnds, Send, FinishCommits,
           ReconcileCommits, ReconcileCancels, ReconcileResumed, ReconcileAnswers
<1> QED
  BY <1>4, <1>5, <1>6 DEF SettledInv, Over, Unfinished

LEMMA RootStaysOver ==
  ASSUME ExchangesInv, UnstartedInv, [ExchangesNext]_exchangeVars, Over(Root)
  PROVE  Over(Root)'
<1>1. runs'[Root] = runs[Root] \/ RowMove(runs[Root], runs'[Root])
  BY StepMoves, Classes DEF ClassesMove, OneMoves
<1> QED
  BY <1>1 DEF RowMove, Over, NoRun, IsActiveRun

\* Whatever becomes of its runs, an exchange is answered once, as it is shown,
\* and goes on once, when the turn that asked is over.
THEOREM ExchangesImplementPromise == ExchangesSpec => ExchangesKeepPromise
<1>1. ExchangesInit => SettledInv /\ UnstartedInv /\ Promise!Init
  <2> SUFFICES ASSUME ExchangesInit PROVE SettledInv /\ UnstartedInv /\ Promise!Init
    OBVIOUS
  <2>1. /\ \A x \in Exchanges : runs[Continuation(x)] = NoRun /\ runs[Target(x)] = NoRun
        /\ \A x \in Exchanges : exchanges[x] = NoExchange
        /\ runs[Root] = Queued /\ locked = Nothing
    BY RunNames DEF ExchangesInit
  <2>2. /\ NoRun.status = "none" /\ Queued.status = "queued" /\ NoExchange.status = "none" /\ NoExchange.parent = Nothing
        /\ NoExchange.answer = "none" /\ NoExchange.public = FALSE
    BY DEF NoRun, Queued, NoExchange
  <2>3. SettledInv /\ UnstartedInv
    BY <2>1, <2>2 DEF SettledInv, UnstartedInv, Over, ExchangesInit
  <2>4. Promise!Init
    BY <2>1, <2>2, Phases DEF Promise!Init
  <2> QED
    BY <2>3, <2>4
<1>2. ExchangesInv /\ SettledInv /\ UnstartedInv /\ [ExchangesNext]_exchangeVars
        => SettledInv' /\ UnstartedInv'
  BY SettledStep, UnstartedStep
<1>3. ExchangesInv /\ SettledInv /\ UnstartedInv /\ [ExchangesNext]_exchangeVars
        => [Promise!Next]_(Promise!vars)
  <2> SUFFICES ASSUME ExchangesInv, SettledInv, UnstartedInv, [ExchangesNext]_exchangeVars
               PROVE  [Promise!Next]_(Promise!vars)
    OBVIOUS
  <2>1. CASE UNCHANGED exchanges
    <3>1. CASE Over(Root)' = Over(Root)
      BY <2>1, <3>1 DEF Promise!vars, Phase, Over
    <3>2. CASE ~Over(Root) /\ Over(Root)'
      <4>1. Promise!RequestEnds
        BY <2>1, <3>2 DEF Promise!RequestEnds, Phase, Over
      <4>2. Promise!vars' # Promise!vars
        BY <3>2 DEF Promise!vars, Over
      <4> QED
        BY <4>1, <4>2 DEF Promise!Next, Promise!Moves
    <3> QED
      BY <3>1, <3>2, RootStaysOver DEF Over
  <2>2. CASE ExchangesMove
    <3>1. PICK x \in Exchanges, row \in ExchangeRows :
            /\ exchanges' = [exchanges EXCEPT ![x] = row]
            /\ row = exchanges[x]
                 \/ (row.parent \in ExchangeRuns /\ ExchangeMove(exchanges[x], row))
      BY <2>2 DEF ExchangesMove
    <3>2. CASE row = exchanges[x]
      BY <2>1, <3>1, <3>2 DEF ExchangesInv, ExchangesTypeOK
    <3>3. CASE row.parent \in ExchangeRuns /\ ExchangeMove(exchanges[x], row)
      BY <2>2, <3>1, <3>3, MoveIsPromised DEF ExchangesInv, ExchangesMove, Promise!Next
    <3> QED
      BY <3>1, <3>2, <3>3
  <2> QED
    BY <2>1, <2>2, NextMovesExchange
<1> QED
  BY <1>1, <1>2, <1>3, ExchangesInvariant, PTL
     DEF ExchangesSpec, ExchangesKeepPromise, Promise!Spec

-----------------------------------------------------------------------------
(* What ExchangePromise is worth: whatever keeps it agrees with itself.    *)

PromiseKept(x) == Promise!AnswerStays(x) /\ Promise!GoesOnInTurn(x) /\ Promise!EndStays(x)

LEMMA ExchangePromiseStep ==
  ASSUME Promise!ToldAsShown, NEW x \in Exchanges,
         \/ \E t \in Promise!Turns : Promise!Ask(x, t)
         \/ Promise!Reply(x) \/ Promise!Continue(x)
         \/ \E next \in {"answered", "continuing"} : Promise!GiveUp(x, next)
         \/ \E outcome \in Promise!Ends : Promise!Settle(x, outcome)
  PROVE  Promise!ToldAsShown' /\ \A z \in Exchanges : PromiseKept(z)
<1> USE DEF Promise!ToldAsShown, PromiseKept, Promise!AnswerStays, Promise!GoesOnInTurn,
            Promise!EndStays, Promise!Ends
<1> DEFINE Kept == Promise!ToldAsShown' /\ \A z \in Exchanges : PromiseKept(z)
<1>2. ASSUME NEW t \in Promise!Turns, Promise!Ask(x, t) PROVE Kept
  BY <1>2 DEF Promise!Ask
<1> DEFINE phase == [y \in Exchanges |-> Phase(exchanges[y].status)]
           told == [y \in Exchanges |-> exchanges[y].answer]
           shown == {y \in Exchanges : exchanges[y].public}
<1>3. CASE Promise!Reply(x)
  <2>1. /\ phase[x] = "asked" /\ phase' = [phase EXCEPT ![x] = "answered"]
        /\ told' = [told EXCEPT ![x] = "reply"] /\ shown' = shown \cup {x}
    BY <1>3 DEF Promise!Reply
  <2>2. \A z \in Exchanges :
          /\ phase'[z] = IF z = x THEN "answered" ELSE phase[z]
          /\ told'[z] = IF z = x THEN "reply" ELSE told[z]
          /\ z \in shown' <=> z = x \/ z \in shown
    <3> HIDE DEF phase, told, shown
    <3>1. DOMAIN phase = Exchanges /\ DOMAIN told = Exchanges
      BY DEF phase, told
    <3> QED
      BY <2>1, <3>1
  <2>3. told[x] = "none"
    BY <2>1
  <2> QED
    BY <2>1, <2>2, <2>3
<1>4. CASE Promise!Continue(x)
  BY <1>4 DEF Promise!Continue
<1>5. ASSUME NEW next \in {"answered", "continuing"}, Promise!GiveUp(x, next) PROVE Kept
  <2>1. /\ phase[x] = "asked" /\ phase' = [phase EXCEPT ![x] = next]
        /\ next = "continuing" => Promise!TurnIsOver(exchanges[x].parent)
        /\ told' = [told EXCEPT ![x] = "unavailable"] /\ shown' = shown
    BY <1>5 DEF Promise!GiveUp
  <2>2. \A z \in Exchanges :
          /\ phase'[z] = IF z = x THEN next ELSE phase[z]
          /\ told'[z] = IF z = x THEN "unavailable" ELSE told[z]
          /\ z \in shown' <=> z \in shown
    <3> HIDE DEF phase, told, shown
    <3>1. DOMAIN phase = Exchanges /\ DOMAIN told = Exchanges
      BY DEF phase, told
    <3> QED
      BY <2>1, <3>1
  <2>3. told[x] = "none"
    BY <2>1
  <2> QED
    BY <2>1, <2>2, <2>3
<1>6. ASSUME NEW outcome \in {"completed", "failed", "cancelled"}, Promise!Settle(x, outcome) PROVE Kept
  <2>1. /\ phase[x] \in {"asked", "answered", "continuing"} /\ phase' = [phase EXCEPT ![x] = outcome]
        /\ told' = told /\ shown' = shown
    BY <1>6 DEF Promise!Settle
  <2>2. \A z \in Exchanges :
          /\ phase'[z] = IF z = x THEN outcome ELSE phase[z]
          /\ told'[z] = told[z]
          /\ z \in shown' <=> z \in shown
    <3> HIDE DEF phase, told, shown
    <3>1. DOMAIN phase = Exchanges
      BY DEF phase
    <3> QED
      BY <2>1, <3>1
  <2> QED
    BY <2>1, <2>2
<1> QED
  BY <1>2, <1>3, <1>4, <1>5, <1>6

LEMMA PromiseStep ==
  ASSUME Promise!ToldAsShown, Promise!Moves
  PROVE  Promise!ToldAsShown' /\ \A z \in Exchanges : PromiseKept(z)
<1>1. CASE Promise!RequestEnds
  BY <1>1 DEF Promise!RequestEnds, Promise!ToldAsShown, PromiseKept, Promise!AnswerStays,
              Promise!GoesOnInTurn, Promise!EndStays
<1> QED
  BY <1>1, ExchangePromiseStep DEF Promise!Moves

\* Whatever keeps the promise tells the agent what it shows, answers once, and
\* goes on at most once, in turn.
THEOREM PromiseIsWorth == ExchangesKeepPromise => []Promise!ToldAsShown /\ Promise!PromisesKept
<1> DEFINE Kept == \A x \in Exchanges :
             Promise!AnswerStays(x) /\ Promise!GoesOnInTurn(x) /\ Promise!EndStays(x)
<1>1. Promise!Init => Promise!ToldAsShown
  BY DEF Promise!Init, Promise!ToldAsShown
<1>2. Promise!ToldAsShown /\ [Promise!Next]_(Promise!vars) => Promise!ToldAsShown'
  <2>1. CASE UNCHANGED Promise!vars
    BY <2>1 DEF Promise!vars, Promise!ToldAsShown
  <2> QED
    BY <2>1, PromiseStep DEF Promise!Next
<1>3. Promise!ToldAsShown /\ Promise!Next => Kept
  BY PromiseStep DEF PromiseKept, Promise!Next
<1>4. Promise!PromisesKept <=> [][Kept]_(Promise!vars)
  BY DEF Promise!PromisesKept
<1>5. ExchangesKeepPromise => Promise!Init /\ [][Promise!Next]_(Promise!vars)
  BY DEF ExchangesKeepPromise, Promise!Spec
<1> HIDE DEF Kept
<1> QED
  BY <1>1, <1>2, <1>3, <1>4, <1>5, PTL

\* So do the exchanges of the server.
THEOREM ExchangesKeepPromises == ExchangesSpec => []Promise!ToldAsShown /\ Promise!PromisesKept
BY ExchangesImplementPromise, PromiseIsWorth
=============================================================================
