----------------------------- MODULE RunContract -----------------------------
(***************************************************************************)
(* What the server promises about an agent run, whoever executes it.       *)
(*                                                                         *)
(* A run waits or is held by one executor; the holder changes only when    *)
(* the previous one returned the run or let its lease expire; a run that   *)
(* was asked to stop is never granted again; a run ends once, and one that *)
(* nobody holds ends only as WaitingEnds allows.                           *)
(***************************************************************************)
CONSTANTS
  Runs, Executors, NoOne,
  WaitingEnds  \* the outcomes of runs that end while nobody holds them

VARIABLES
  state,    \* "none", "waiting", "held" or the outcome
  holder,   \* who holds it
  expired,  \* the holder's lease has run out
  asked     \* a stop was asked for

vars == <<state, holder, expired, asked>>

Outcomes == {"completed", "failed", "cancelled"}

Init ==
  /\ state \in [Runs -> {"none", "waiting"}]
  /\ holder = [r \in Runs |-> NoOne]
  /\ expired = [r \in Runs |-> FALSE]
  /\ asked = [r \in Runs |-> FALSE]

Accept(r) ==
  /\ state[r] = "none"
  /\ state' = [state EXCEPT ![r] = "waiting"]
  /\ UNCHANGED <<holder, expired, asked>>

Grant(e, r) ==
  /\ state[r] \in {"none", "waiting"} \/ (state[r] = "held" /\ expired[r])
  /\ ~asked[r]
  /\ state' = [state EXCEPT ![r] = "held"]
  /\ holder' = [holder EXCEPT ![r] = e]
  /\ expired' = [expired EXCEPT ![r] = FALSE]
  /\ UNCHANGED asked

Return(r) ==
  /\ state[r] = "held" /\ ~asked[r]
  /\ state' = [state EXCEPT ![r] = "waiting"]
  /\ holder' = [holder EXCEPT ![r] = NoOne]
  /\ expired' = [expired EXCEPT ![r] = FALSE]
  /\ UNCHANGED asked

Expire(r) ==
  /\ state[r] = "held"
  /\ expired' = [expired EXCEPT ![r] = TRUE]
  /\ UNCHANGED <<state, holder, asked>>

Ask(r) ==
  /\ state[r] = "held"
  /\ asked' = [asked EXCEPT ![r] = TRUE]
  /\ UNCHANGED <<state, holder, expired>>

End(r, outcome, stop) ==
  /\ state[r] = "held" \/ (state[r] = "waiting" /\ outcome \in WaitingEnds)
  /\ state' = [state EXCEPT ![r] = outcome]
  /\ holder' = [holder EXCEPT ![r] = NoOne]
  /\ expired' = [expired EXCEPT ![r] = FALSE]
  /\ asked' = [asked EXCEPT ![r] = @ \/ stop]

Moves ==
  \E r \in Runs :
    \/ Accept(r) \/ Return(r) \/ Expire(r) \/ Ask(r)
    \/ \E e \in Executors : Grant(e, r)
    \/ \E outcome \in Outcomes, stop \in BOOLEAN : End(r, outcome, stop)

\* To repeat what is so is no step: TLC rules that out first.
Next == vars' # vars /\ Moves

Spec == Init /\ [][Next]_vars

-----------------------------------------------------------------------------
(* What whoever keeps the contract may count on.                           *)

OutcomeStays(r) == state[r] \in Outcomes => state'[r] = state[r]

HolderStays(r) ==
  state[r] = "held" /\ ~expired[r] /\ state'[r] = "held" => holder'[r] = holder[r]

StopStays(r) ==
  asked[r] => /\ asked'[r]
              /\ state'[r] = "held" => state[r] = "held" /\ holder'[r] = holder[r]

\* A run ends once, an executor whose lease has not run out is not replaced, and
\* nobody is given a run that was asked to stop.
PromisesKept == [][\A r \in Runs : OutcomeStays(r) /\ HolderStays(r) /\ StopStays(r)]_vars

=============================================================================
