--------------------------- MODULE AgentExchanges ---------------------------
(***************************************************************************)
(* How the agent of one request asks other agents of its conversation and  *)
(* goes on when they have answered (runs/exchanges).                       *)
(*                                                                         *)
(* An exchange has a target run, which answers, and a continuation of the  *)
(* run that asked.  finish, send and the reconciliation of an exchange     *)
(* hold the conversation's lock; finish and reconciliation check who is    *)
(* still authorized outside their transaction, so each is two steps.       *)
(* Who holds a run, and that only its holder is heard, is AgentRuns.       *)
(***************************************************************************)
EXTENDS Naturals

CONSTANTS
  Exchanges,   \* the exchanges of one request: eight at most in the code
  OwnAgents,   \* those that ask another agent of the requester's own
  Nothing      \* no parent, no operation under the lock

ASSUME OwnAgentsAssumption == OwnAgents \subseteq Exchanges

VARIABLES
  project,     \* the conversation is a project's: a Mac's run stays on Macs
  runs,        \* cloud_agent_fallback_runs: the request, targets, continuations
  exchanges,   \* cloud_agent_exchanges
  late,        \* those whose deadline has passed
  permitted,   \* what authorize finds of membership, access and the source
  locked       \* the operation that holds the conversation's lock

exchangeVars == <<project, runs, exchanges, late, permitted, locked>>

Root == <<"root", Nothing>>
Target(x) == <<"target", x>>
Continuation(x) == <<"resume", x>>
Continuations == {Continuation(x) : x \in Exchanges}
Targets == {Target(x) : x \in Exchanges}
ExchangeRuns == {Root} \cup Targets \cup Continuations

\* The runs whose owner made the request: only they may ask.
OwnRuns == {Root} \cup Continuations \cup {Target(x) : x \in OwnAgents}

RunOver == {"completed", "failed", "cancelled"}
RunRows == [ status : {"none", "queued", "held", "lapsed"} \cup RunOver,
             mac : BOOLEAN, stop : BOOLEAN ]
NoRun == [status |-> "none", mac |-> FALSE, stop |-> FALSE]
Queued == [NoRun EXCEPT !.status = "queued"]

ExchangeEnds == {"completed", "failed", "cancelled"}
ExchangeRows == [ status : {"none", "pending", "reply_received", "resuming"} \cup ExchangeEnds,
                  parent : ExchangeRuns \cup {Nothing},
                  answer : {"none", "reply", "unavailable"},
                  public : BOOLEAN ]
NoExchange == [status |-> "none", parent |-> Nothing, answer |-> "none", public |-> FALSE]

Operations ==
  {Nothing}
    \cup [ op : {"finish"}, run : ExchangeRuns ]
    \cup [ op : {"reconcile"}, exchange : Exchanges, allowed : BOOLEAN, parentOver : BOOLEAN ]

ExchangesTypeOK ==
  /\ project \in BOOLEAN
  /\ runs \in [ExchangeRuns -> RunRows]
  /\ exchanges \in [Exchanges -> ExchangeRows]
  /\ late \subseteq Exchanges
  /\ permitted \subseteq {"asker"} \cup Exchanges
  /\ locked \in Operations

ExchangesInit ==
  /\ project \in BOOLEAN
  /\ runs = [r \in ExchangeRuns |-> IF r = Root THEN Queued ELSE NoRun]
  /\ exchanges = [x \in Exchanges |-> NoExchange]
  /\ late = {}
  /\ permitted = {"asker"} \cup Exchanges
  /\ locked = Nothing

IsActiveRun(row) == row.status \in {"queued", "held", "lapsed"}
Unfinished(x) == exchanges[x].status \in {"pending", "reply_received", "resuming"}

\* authorize: the request was not stopped, its source and its people are there,
\* and the exchange the run belongs to did not fail.
Authorized(r) ==
  /\ ~runs[Root].stop /\ runs[Root].status # "cancelled"
  /\ "asker" \in permitted
  /\ \A x \in Exchanges :
       r \in {Target(x), Continuation(x)} =>
         x \in permitted /\ exchanges[x].status \notin {"failed", "cancelled"}

Lives(r) == runs[r].status = "held" /\ ~runs[r].stop

-----------------------------------------------------------------------------
(* The runs: what executors, people and sweeps do to them (AgentRuns).     *)

SetRun(r, row) == runs' = [runs EXCEPT ![r] = row]

RunnerTakes(r) ==
  /\ runs[r].status \in {"queued", "lapsed"} /\ ~runs[r].stop
  /\ ~(project /\ runs[r].mac)
  /\ locked = Nothing
  /\ SetRun(r, [runs[r] EXCEPT !.status = "held", !.mac = FALSE])
  /\ UNCHANGED <<project, exchanges, late, permitted, locked>>

\* A Mac discovers the runs of exchanges it is authorized for; its claim takes
\* no lock.
MacTakes(r) ==
  /\ runs[r].status = "queued" /\ ~runs[r].stop
  /\ Authorized(r)
  /\ SetRun(r, [runs[r] EXCEPT !.status = "held", !.mac = TRUE])
  /\ UNCHANGED <<project, exchanges, late, permitted, locked>>

LeaseRunsOut(r) ==
  /\ runs[r].status = "held"
  /\ SetRun(r, [runs[r] EXCEPT !.status = "lapsed"])
  /\ UNCHANGED <<project, exchanges, late, permitted, locked>>

StopRun(r) ==
  /\ IsActiveRun(runs[r]) /\ ~runs[r].stop
  /\ SetRun(r, [runs[r] EXCEPT !.stop = TRUE,
                  !.status = IF @ = "held" THEN @ ELSE "cancelled"])
  /\ UNCHANGED <<project, exchanges, late, permitted, locked>>

\* A stopped run ends with its executor or after it; so does one whose Mac is lost.
StoppedRunEnds(r) ==
  /\ \/ runs[r].status = "held" /\ runs[r].stop
     \/ runs[r].status = "lapsed" /\ (runs[r].stop \/ runs[r].mac)
  /\ SetRun(r, [runs[r] EXCEPT !.status = "cancelled"])
  /\ UNCHANGED <<project, exchanges, late, permitted, locked>>

\* The request's own run ends as every other run does, even after a stop that
\* its executor has not noticed.
RootEnds ==
  /\ runs[Root].status = "held" /\ locked = Nothing
  /\ \E status \in {"completed", "failed"} :
       SetRun(Root, [runs[Root] EXCEPT !.status = status])
  /\ UNCHANGED <<project, exchanges, late, permitted, locked>>

-----------------------------------------------------------------------------
(* The exchanges.                                                          *)

\* send: the request's run, a continuation, or the target of an exchange with
\* an agent of the requester's own.
Send(x, r) ==
  /\ r \in OwnRuns
  /\ exchanges[x].status = "none"
  /\ locked = Nothing
  /\ Lives(r) /\ Authorized(r) /\ x \in permitted
  /\ exchanges' = [exchanges EXCEPT ![x].status = "pending", ![x].parent = r]
  /\ SetRun(Target(x), Queued)
  /\ UNCHANGED <<project, late, permitted, locked>>

DeadlinePasses(x) ==
  /\ Unfinished(x) /\ x \notin late
  /\ late' = late \cup {x}
  /\ UNCHANGED <<project, runs, exchanges, permitted, locked>>

FinishChecks(r) ==
  /\ r # Root
  /\ locked = Nothing
  /\ runs[r].status = "held" /\ Authorized(r)
  /\ locked' = [op |-> "finish", run |-> r]
  /\ UNCHANGED <<project, runs, exchanges, late, permitted>>

\* The answer is published, then the rows are updated; a run that is not held
\* any more takes the whole transaction back.
FinishCommits(x) ==
  /\ locked # Nothing /\ locked.op = "finish"
  /\ locked.run \in {Target(x), Continuation(x)}
  /\ locked' = Nothing
  /\ IF ~Lives(locked.run) THEN UNCHANGED <<runs, exchanges>>
     ELSE \E status \in {"completed", "failed"} :
       /\ SetRun(locked.run, [runs[locked.run] EXCEPT !.status = status])
       /\ exchanges' = [exchanges EXCEPT ![x] =
            IF locked.run = Target(x)
            THEN IF @.status = "pending"
                 THEN [@ EXCEPT !.status = "reply_received", !.answer = "reply", !.public = TRUE]
                 ELSE [@ EXCEPT !.public = TRUE]
            ELSE IF @.status = "resuming" THEN [@ EXCEPT !.status = status] ELSE @]
  /\ UNCHANGED <<project, late, permitted>>

ParentIdle(x) == runs[exchanges[x].parent].status # "held"
ParentIsOver(x) == runs[exchanges[x].parent].status \in {"completed", "failed"}

ReconcileChecks(x) ==
  /\ locked = Nothing /\ Unfinished(x)
  /\ locked' = [ op |-> "reconcile", exchange |-> x,
                 allowed |-> Authorized(exchanges[x].parent) /\ Authorized(Target(x)),
                 parentOver |-> ParentIsOver(x) ]
  /\ UNCHANGED <<project, runs, exchanges, late, permitted>>

CancelledQueued(row) ==
  IF row.status = "queued" THEN [row EXCEPT !.status = "cancelled", !.stop = TRUE] ELSE row

Cancelled(row) ==
  IF IsActiveRun(row) THEN [row EXCEPT !.status = "cancelled", !.stop = TRUE] ELSE row

RequeuedStopped(row) ==
  IF row.status = "lapsed" /\ row.mac THEN [row EXCEPT !.status = "queued"] ELSE row

\* The lapsed claim of a Mac goes back into the queue as the Mac's.
Requeued(row) ==
  IF row.status = "lapsed" /\ row.mac /\ ~row.stop THEN [row EXCEPT !.status = "queued"] ELSE row

Reconciles(x) == locked # Nothing /\ locked.op = "reconcile" /\ locked.exchange = x

ReconcileCancels(x) ==
  /\ Reconciles(x) /\ ~locked.allowed
  /\ exchanges' = [exchanges EXCEPT ![x].status = "cancelled"]
  /\ runs' = [runs EXCEPT ![Target(x)] = Cancelled(@), ![Continuation(x)] = Cancelled(@)]
  /\ locked' = Nothing
  /\ UNCHANGED <<project, late, permitted>>

FailureOnly(status, row) == IF row.status = "failed" THEN "failed" ELSE status
ResumedStatus(status, row) ==
  IF row.status \in {"failed", "cancelled"} THEN row.status ELSE status

\* With a continuation there is only its end to notice.
ReconcileResumed(x) ==
  /\ Reconciles(x) /\ locked.allowed
  /\ runs[Continuation(x)].status # "none"
  /\ runs' = [runs EXCEPT ![Continuation(x)] = Requeued(@)]
  /\ exchanges' = [exchanges EXCEPT ![x].status =
       ResumedStatus(@, runs'[Continuation(x)])]
  /\ locked' = Nothing
  /\ UNCHANGED <<project, late, permitted>>

NoAnswerEver(x, row) == x \in late \/ row.status \in {"failed", "cancelled"}

NoAnswerComes(x, row) ==
  exchanges[x].status = "pending" /\ (x \in late \/ row.status \in {"failed", "cancelled"})

ReconcileAnswers(x) ==
  LET row  == Requeued(runs[Target(x)])
      none == NoAnswerComes(x, row)
      next == IF none
              THEN [exchanges[x] EXCEPT !.status = "reply_received", !.answer = "unavailable"]
              ELSE exchanges[x]
      goes == next.status = "reply_received" /\ locked.parentOver
  IN
  /\ Reconciles(x) /\ locked.allowed
  /\ runs[Continuation(x)].status = "none"
  /\ exchanges' = [exchanges EXCEPT ![x] =
       IF goes THEN [next EXCEPT !.status = "resuming"] ELSE next]
  /\ runs' = [runs EXCEPT ![Target(x)] = IF none THEN Cancelled(row) ELSE row,
                          ![Continuation(x)] = IF goes THEN Queued ELSE @]
  /\ locked' = Nothing
  /\ UNCHANGED <<project, late, permitted>>

\* An error takes back what the transaction did, and so does a restart.
OperationFails ==
  /\ locked # Nothing
  /\ locked' = Nothing
  /\ UNCHANGED <<project, runs, exchanges, late, permitted>>

\* People leave and join, owners change who may use their agents.
PermissionChanges ==
  /\ \E p \in {"asker"} \cup Exchanges :
       permitted' = IF p \in permitted THEN permitted \ {p} ELSE permitted \cup {p}
  /\ UNCHANGED <<project, runs, exchanges, late, locked>>

-----------------------------------------------------------------------------
ReconcileCommits(x) == ReconcileCancels(x) \/ ReconcileResumed(x) \/ ReconcileAnswers(x)

Reconcile(x) == ReconcileChecks(x) \/ ReconcileCommits(x)

Finish(x) == FinishCommits(x) \/ FinishChecks(Target(x)) \/ FinishChecks(Continuation(x))

RunsChange(r) == RunnerTakes(r) \/ MacTakes(r) \/ StopRun(r) \/ StoppedRunEnds(r)

ExchangeFaults == OperationFails \/ \E r \in ExchangeRuns : LeaseRunsOut(r)

ExchangeSteps ==
  \/ \E r \in ExchangeRuns : RunsChange(r)
  \/ RootEnds
  \/ \E x \in Exchanges :
       \/ \E r \in ExchangeRuns : Send(x, r)
       \/ DeadlinePasses(x) \/ Finish(x) \/ Reconcile(x)
  \/ PermissionChanges

ExchangesNext == ExchangeSteps \/ ExchangeFaults

\* What executors do for the request and its continuations, whichever is first.
ExecutorsWork ==
  RootEnds \/ (\E r \in ExchangeRuns : RunnerTakes(r)) \/ (\E x \in Exchanges : FinishChecks(Continuation(x)))

\* Every poll of a runner or a Mac reconciles, and runners poll for ever.
ExchangesFairness ==
  /\ SF_exchangeVars(ExecutorsWork)
  /\ \A r \in ExchangeRuns : WF_exchangeVars(StoppedRunEnds(r))
  /\ \A x \in Exchanges :
       /\ WF_exchangeVars(DeadlinePasses(x))
       /\ WF_exchangeVars(FinishCommits(x))
       /\ SF_exchangeVars(ReconcileChecks(x))
       /\ WF_exchangeVars(ReconcileCommits(x))

ExchangesSpec == ExchangesInit /\ [][ExchangesNext]_exchangeVars /\ ExchangesFairness

-----------------------------------------------------------------------------
(* Properties.                                                             *)

\* What the asking agent is told and what the conversation shows agree: an
\* exchange whose agent was told that no answer comes never has a public
\* reply, however late its target finishes (lifecycle.rs, finish, reconcile).
ToldWhatIsShown ==
  \A x \in Exchanges : exchanges[x].public = (exchanges[x].answer = "reply")

\* A run that asked goes on only after it has ended by itself, with an answer,
\* and never once it was asked to stop; for the request's own run that is
\* "Cancelling the root prevents its continuation"
\* (docs/development/agent-exchanges.md).
ContinuesInTurn ==
  \A x \in Exchanges :
    runs[Continuation(x)].status # "none" =>
      /\ runs[exchanges[x].parent].status \in {"completed", "failed"}
      /\ ~runs[exchanges[x].parent].stop
      /\ exchanges[x].answer # "none"

\* Nothing runs for an exchange that is over.
EndedExchangeIsQuiet ==
  \A x \in Exchanges :
    exchanges[x].status \in ExchangeEnds =>
      ~IsActiveRun(runs[Target(x)]) /\ ~IsActiveRun(runs[Continuation(x)])

\* An answer for a target that was cancelled, by its deadline or a stop, while
\* the request goes on: the sweep passes it over for ever.
Abandoned(x) ==
  /\ exchanges[x].status = "reply_received"
  /\ exchanges[x].parent \in Targets
  /\ runs[exchanges[x].parent].status = "cancelled"

\* Every exchange ends, although Macs vanish, targets never answer and people
\* leave, but for what a cancelled target asked.  Leases run out and operations
\* fail only finitely often (its instance bounds them).  In a project's
\* conversation a continuation waits for a Mac instead, which may stay away.
ExchangesSettle ==
  <>[](~project => \A x \in Exchanges : Unfinished(x) => Abandoned(x))

-----------------------------------------------------------------------------
(* The promise of RunContract for the runs that ask and those that answer: *)
(* a reconciliation moves one of each at once.                             *)

Callers == {Root} \cup Continuations
StateSeen(row) == CASE row.status = "queued" -> "waiting"
                    [] row.status \in {"held", "lapsed"} -> "held"
                    [] OTHER -> row.status

HolderSeen(row) == IF row.status \in {"held", "lapsed"}
                   THEN IF row.mac THEN "mac" ELSE "runner"
                   ELSE "no one"

CallerContract == INSTANCE RunContract WITH
  Runs <- Callers, Executors <- {"mac", "runner"}, NoOne <- "no one",
  WaitingEnds <- {"cancelled"},
  state <- [r \in Callers |-> StateSeen(runs[r])],
  holder <- [r \in Callers |-> HolderSeen(runs[r])],
  expired <- [r \in Callers |-> runs[r].status = "lapsed"],
  asked <- [r \in Callers |-> runs[r].stop]

TargetContract == INSTANCE RunContract WITH
  Runs <- Targets, Executors <- {"mac", "runner"}, NoOne <- "no one",
  WaitingEnds <- {"cancelled"},
  state <- [r \in Targets |-> StateSeen(runs[r])],
  holder <- [r \in Targets |-> HolderSeen(runs[r])],
  expired <- [r \in Targets |-> runs[r].status = "lapsed"],
  asked <- [r \in Targets |-> runs[r].stop]

\* Reconciliation, which requeues and cancels runs of its own, keeps what the
\* runs' handlers promise: it takes no run from a live lease but to cancel it,
\* hands back none that was asked to stop, and revives none that is over.
ExchangeRunsKeepContract == CallerContract!Spec /\ TargetContract!Spec

-----------------------------------------------------------------------------
(* What the exchanges promise, whatever becomes of their runs.             *)

Phase(status) == CASE status = "pending" -> "asked"
                   [] status = "reply_received" -> "answered"
                   [] status = "resuming" -> "continuing"
                   [] OTHER -> status

\* A turn is named as its run is: the request's, an answering one, one that
\* goes on.
Promise == INSTANCE ExchangePromise WITH
  Request <- Root,
  NoTurn <- Nothing,
  requestOver <- runs[Root].status \in {"completed", "failed"},
  phase <- [x \in Exchanges |-> Phase(exchanges[x].status)],
  askedBy <- [x \in Exchanges |-> exchanges[x].parent],
  told <- [x \in Exchanges |-> exchanges[x].answer],
  shown <- {x \in Exchanges : exchanges[x].public}

\* Targets that finish after they were given up, or that ask themselves,
\* deadlines, requeued runs and permissions read before they are used never
\* break the promise: one answer, told as it is shown, and one continuation,
\* when the turn that asked has ended by itself.
ExchangesKeepPromise == Promise!Spec

=============================================================================
