--------------------------- MODULE ScheduledTasks ---------------------------
(***************************************************************************)
(* One daily scheduled task: the sweep that starts its due occurrences     *)
(* (scheduled_tasks/store.rs, worker.rs), the Mac or the cloud runner that *)
(* runs them, and the end of a wait for a Mac (scheduled_tasks/mac.rs).    *)
(*                                                                         *)
(* Nothing here is a transaction of more than one statement: sweeps of     *)
(* several servers, owners and Macs interleave between any two, and a      *)
(* server may stop there.  Occurrence d is due when the clock reaches d.   *)
(***************************************************************************)
EXTENDS Naturals

CONSTANTS
  Sweepers,    \* the servers that sweep
  MaxDue       \* bound: occurrences

ASSUME ScheduledTasksAssumption == MaxDue \in Nat

VARIABLES
  needsMac,    \* target_runtime is local_required
  clock,       \* the last occurrence that is due
  task,        \* status of the task
  nextRun,     \* next_run_at
  occurrences, \* status of each scheduled_tool_task_runs row
  agentRuns,   \* the agent run of each, and who holds its lease
  sweeping,    \* the occurrence each server is starting
  expiring,    \* the occurrence whose wait a server is ending
  marks,       \* statuses a claim or an answer has yet to write to the row
  passedOver   \* occurrences a resume left behind: read by properties only

taskVars == <<task, nextRun, passedOver>>
runVars == <<occurrences, agentRuns, marks>>
sweepVars == <<sweeping, expiring>>
scheduleVars == <<needsMac, clock, taskVars, runVars, sweepVars>>

Dues == 1..MaxDue
RowStatuses == {"none", "waiting_for_desktop", "queued", "running", "completed", "failed"}
AgentStatuses == {"none", "queued", "mac", "lapsed", "cloud", "completed", "failed"}
Over == {"completed", "failed"}

NoSweep == [step |-> "idle", due |-> 0]
Sweeps == [ step : {"idle", "create", "enqueue", "advance"}, due : 0..MaxDue ]
NoExpiry == [step |-> "idle", due |-> 0]

ScheduleTypeOK ==
  /\ needsMac \in BOOLEAN
  /\ clock \in 0..MaxDue
  /\ task \in {"active", "paused", "deleted"}
  /\ nextRun \in 1..MaxDue + 1
  /\ occurrences \in [Dues -> RowStatuses]
  /\ agentRuns \in [Dues -> AgentStatuses]
  /\ sweeping \in [Sweepers -> Sweeps]
  /\ expiring \in [step : {"idle", "fail", "mark"}, due : 0..MaxDue]
  /\ marks \subseteq Dues \X {"running", "completed", "failed"}
  /\ passedOver \subseteq Dues

ScheduleInit ==
  /\ needsMac \in BOOLEAN
  /\ clock = 0
  /\ task = "active" /\ nextRun = 1
  /\ occurrences = [d \in Dues |-> "none"]
  /\ agentRuns = [d \in Dues |-> "none"]
  /\ sweeping = [s \in Sweepers |-> NoSweep]
  /\ expiring = NoExpiry
  /\ marks = {} /\ passedOver = {}

-----------------------------------------------------------------------------
(* The sweep (claim_due_scheduled_task_runs), for one row of its answer.   *)

ClockTicks ==
  /\ clock < MaxDue
  /\ clock' = clock + 1
  /\ UNCHANGED <<needsMac, taskVars, runVars, sweepVars>>

SweepReadsNew(s) ==
  /\ sweeping[s] = NoSweep
  /\ task = "active" /\ nextRun <= clock /\ occurrences[nextRun] = "none"
  /\ sweeping' = [sweeping EXCEPT ![s] =
       [step |-> "create", due |-> nextRun]]
  /\ UNCHANGED <<needsMac, clock, taskVars, runVars, expiring>>

SweepReads(s) ==
  /\ sweeping[s] = NoSweep
  /\ task = "active" /\ nextRun <= clock
  /\ sweeping' = [sweeping EXCEPT ![s] =
       [step |-> "create", due |-> nextRun]]
  /\ UNCHANGED <<needsMac, clock, taskVars, runVars, expiring>>

SweepCreatesNew(s) ==
  LET d == sweeping[s].due IN
  /\ sweeping[s].step = "create"
  /\ occurrences' = [occurrences EXCEPT ![d] =
       IF @ # "none" THEN @ ELSE IF needsMac THEN "waiting_for_desktop" ELSE "queued"]
  /\ sweeping' = [sweeping EXCEPT ![s].step =
       IF occurrences[d] = "none" THEN "enqueue" ELSE "advance"]
  /\ UNCHANGED <<needsMac, clock, taskVars, agentRuns, marks, expiring>>

\* create_run_for_task: one row per occurrence.
SweepCreates(s) ==
  LET d == sweeping[s].due IN
  /\ sweeping[s].step = "create"
  /\ occurrences' = [occurrences EXCEPT ![d] =
       IF @ # "none" THEN @ ELSE IF needsMac THEN "waiting_for_desktop" ELSE "queued"]
  /\ sweeping' = [sweeping EXCEPT ![s].step = "enqueue"]
  /\ UNCHANGED <<needsMac, clock, taskVars, agentRuns, marks, expiring>>

EnqueuedAgain(status) == IF status \in {"none", "failed"} THEN "queued" ELSE status

\* enqueue: the claim of an agent run answers with the one there is.
Enqueued(status) == IF status = "none" THEN "queued" ELSE status

SweepEnqueues(s) ==
  /\ sweeping[s].step = "enqueue"
  /\ agentRuns' = [agentRuns EXCEPT ![sweeping[s].due] = Enqueued(@)]
  /\ sweeping' = [sweeping EXCEPT ![s].step = "advance"]
  /\ UNCHANGED <<needsMac, clock, taskVars, occurrences, marks, expiring>>

SweepAdvances(s) ==
  /\ sweeping[s].step = "advance"
  /\ nextRun' = sweeping[s].due + 1
  /\ sweeping' = [sweeping EXCEPT ![s] = NoSweep]
  /\ UNCHANGED <<needsMac, clock, task, passedOver, runVars, expiring>>

\* An error ends the sweep of every row behind it; so does a restart.
SweepStops(s) ==
  /\ sweeping[s] # NoSweep
  /\ sweeping' = [sweeping EXCEPT ![s] = NoSweep]
  /\ UNCHANGED <<needsMac, clock, taskVars, runVars, expiring>>

-----------------------------------------------------------------------------
(* The owner.                                                              *)

Pause ==
  /\ task # "deleted"
  /\ task' = "paused"
  /\ UNCHANGED <<needsMac, clock, nextRun, passedOver, runVars, sweepVars>>

Resume ==
  /\ task # "deleted"
  /\ task' = "active"
  /\ nextRun' = clock + 1
  /\ passedOver' = passedOver \cup (nextRun..clock)
  /\ UNCHANGED <<needsMac, clock, runVars, sweepVars>>

DeleteTask ==
  /\ task # "deleted"
  /\ task' = "deleted"
  /\ UNCHANGED <<needsMac, clock, nextRun, passedOver, runVars, sweepVars>>

-----------------------------------------------------------------------------
(* The agent runs.  A status is written to the occurrence's row after the  *)
(* run itself changed, by a statement of its own.                          *)

Hold(d, status) == agentRuns' = [agentRuns EXCEPT ![d] = status]

MacClaims(d) ==
  /\ agentRuns[d] = "queued" \/ (needsMac /\ agentRuns[d] = "lapsed")
  /\ Hold(d, "mac")
  /\ marks' = marks \cup {<<d, "running">>}
  /\ UNCHANGED <<needsMac, clock, taskVars, occurrences, sweepVars>>

MacStopsRenewing(d) ==
  /\ agentRuns[d] = "mac"
  /\ Hold(d, "lapsed")
  /\ UNCHANGED <<needsMac, clock, taskVars, occurrences, marks, sweepVars>>

RunnerLeases(d) ==
  /\ ~needsMac
  /\ agentRuns[d] \in {"queued", "lapsed"}
  /\ Hold(d, "cloud")
  /\ UNCHANGED <<needsMac, clock, taskVars, occurrences, marks, sweepVars>>

\* The Mac could not run it: a cloud task goes to the runner.
MacGivesUp(d) ==
  /\ ~needsMac
  /\ agentRuns[d] = "mac"
  /\ Hold(d, "queued")
  /\ UNCHANGED <<needsMac, clock, taskVars, occurrences, marks, sweepVars>>

RunEnds(d) ==
  /\ agentRuns[d] \in {"mac", "cloud"}
  /\ \E outcome \in Over :
       Hold(d, outcome) /\ marks' = marks \cup {<<d, outcome>>}
  /\ UNCHANGED <<needsMac, clock, taskVars, occurrences, sweepVars>>

WriteMark(d, status) ==
  /\ <<d, status>> \in marks
  /\ marks' = marks \ {<<d, status>>}
  /\ occurrences' = [occurrences EXCEPT ![d] =
       IF status \in Over \/ @ \in {"queued", "waiting_for_desktop"} THEN status ELSE @]
  /\ UNCHANGED <<needsMac, clock, task, nextRun, passedOver, agentRuns, sweepVars>>

MarkIsLost ==
  /\ \E m \in marks : marks' = marks \ {m}
  /\ UNCHANGED <<needsMac, clock, taskVars, occurrences, agentRuns, sweepVars>>

-----------------------------------------------------------------------------
(* expire_waiting: an occurrence that waited twelve hours for a Mac.       *)

Waits(d) == needsMac /\ occurrences[d] \in {"waiting_for_desktop", "running"}

ExpiryReadsWaiting(d) ==
  /\ expiring = NoExpiry
  /\ needsMac /\ occurrences[d] = "waiting_for_desktop" /\ agentRuns[d] # "mac"
  /\ expiring' = [step |-> "fail", due |-> d]
  /\ UNCHANGED <<needsMac, clock, taskVars, runVars, sweeping>>

ExpiryReads(d) ==
  /\ expiring = NoExpiry
  /\ Waits(d) /\ agentRuns[d] # "mac"
  /\ expiring' = [step |-> "fail", due |-> d]
  /\ UNCHANGED <<needsMac, clock, taskVars, runVars, sweeping>>

ExpiryFailsAny ==
  /\ expiring.step = "fail"
  /\ agentRuns' = [agentRuns EXCEPT ![expiring.due] = "failed"]
  /\ expiring' = [expiring EXCEPT !.step = "mark"]
  /\ UNCHANGED <<needsMac, clock, taskVars, occurrences, marks, sweeping>>

ExpiryFailsRun ==
  /\ expiring.step = "fail"
  /\ agentRuns' = [agentRuns EXCEPT ![expiring.due] =
       IF @ \in {"queued", "mac", "lapsed"} THEN "failed" ELSE @]
  /\ expiring' = [expiring EXCEPT !.step = "mark"]
  /\ UNCHANGED <<needsMac, clock, taskVars, occurrences, marks, sweeping>>

ExpiryMarks ==
  /\ expiring.step = "mark"
  /\ occurrences' = [occurrences EXCEPT ![expiring.due] = "failed"]
  /\ expiring' = NoExpiry
  /\ UNCHANGED <<needsMac, clock, task, nextRun, passedOver, agentRuns, marks, sweeping>>

ExpiryStops ==
  /\ expiring # NoExpiry
  /\ expiring' = NoExpiry
  /\ UNCHANGED <<needsMac, clock, taskVars, runVars, sweeping>>

-----------------------------------------------------------------------------
OwnerActs == Pause \/ Resume \/ DeleteTask

ServersStop == (\E s \in Sweepers : SweepStops(s)) \/ ExpiryStops

Sweep(s) == SweepReads(s) \/ SweepCreates(s) \/ SweepEnqueues(s) \/ SweepAdvances(s)

TurnIsOver(d) == MacStopsRenewing(d) \/ MacGivesUp(d) \/ RunEnds(d)

ScheduleSteps ==
  \/ ClockTicks \/ OwnerActs
  \/ \E s \in Sweepers : Sweep(s)
  \/ \E d \in Dues :
       \/ MacClaims(d) \/ RunnerLeases(d) \/ TurnIsOver(d) \/ ExpiryReads(d)
       \/ \E status \in {"running"} \cup Over : WriteMark(d, status)
  \/ MarkIsLost \/ ExpiryFailsRun \/ ExpiryMarks

ScheduleNext == ScheduleSteps \/ ServersStop

\* Every server sweeps for ever; a turn ends or its lease does.
ScheduleFairness ==
  /\ \A s \in Sweepers : WF_scheduleVars(Sweep(s))
  /\ \A d \in Dues :
       WF_scheduleVars(TurnIsOver(d)) /\ SF_scheduleVars(ExpiryReads(d))
  /\ WF_scheduleVars(ExpiryFailsRun) /\ WF_scheduleVars(ExpiryMarks)

ScheduleSpec ==
  ScheduleInit /\ [][ScheduleNext]_scheduleVars /\ ScheduleFairness

-----------------------------------------------------------------------------
(* Properties.                                                             *)

\* Every occurrence behind next_run_at has its agent run, unless the task was
\* resumed past it: next_run_at is moved last, so a sweep that stops half-way
\* is done again (claim_due_scheduled_task_runs).
NoOccurrenceSkipped ==
  \A d \in Dues : d < nextRun /\ d \notin passedOver => agentRuns[d] # "none"

\* An occurrence runs once: whatever sweeps repeat it, an agent run that is
\* over stays as it is (create_run_for_task, enqueue).
OccurrenceRunsOnce ==
  [][\A d \in Dues : agentRuns[d] \in Over => agentRuns'[d] = agentRuns[d]]_scheduleVars

\* An occurrence that is said to be completed was answered, and one that runs
\* has a run (mac.rs claim, completion.rs complete_run).
CompletedWasAnswered ==
  \A d \in Dues :
    /\ occurrences[d] = "completed" => agentRuns[d] = "completed"
    /\ occurrences[d] = "running" => agentRuns[d] # "none"

\* "a task is never left waiting without an answer" (mac.rs): no occurrence
\* waits for a Mac for ever, however often Macs take it and vanish, when
\* servers stop half-way only finitely often (its instance bounds that).
WaitForMacEnds == \A d \in Dues : []<>~Waits(d)

\* A task that stays active catches up with the clock, however late its sweeps
\* are and whatever they repeat, under the same condition.
SweepsCatchUp == <>[](task = "active") => <>[](nextRun > clock)

-----------------------------------------------------------------------------
(* The promise of RunContract for the runs of the occurrences.             *)

OccurrenceState(d) ==
  CASE agentRuns[d] = "queued" -> "waiting"
    [] agentRuns[d] \in {"mac", "lapsed", "cloud"} -> "held"
    [] OTHER -> agentRuns[d]

OccurrenceHolder(d) ==
  CASE agentRuns[d] \in {"mac", "lapsed"} -> "mac"
    [] agentRuns[d] = "cloud" -> "cloud"
    [] OTHER -> "no one"

\* A queued run that waited too long for a Mac fails (expire_waiting).
OccurrenceContract == INSTANCE RunContract WITH
  Runs <- Dues, Executors <- {"mac", "cloud"}, NoOne <- "no one",
  WaitingEnds <- {"failed"},
  state <- [d \in Dues |-> OccurrenceState(d)],
  holder <- [d \in Dues |-> OccurrenceHolder(d)],
  expired <- [d \in Dues |-> agentRuns[d] = "lapsed"],
  asked <- [d \in Dues |-> FALSE]

\* An occurrence runs once, and one executor at a time: whatever sweeps repeat
\* it and however its wait ends, nobody takes its run from a live lease and no
\* run that is over runs again (create_run_for_task, enqueue, expire_waiting).
OccurrencesKeepContract == OccurrenceContract!Spec

=============================================================================
