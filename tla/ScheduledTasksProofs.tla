------------------------- MODULE ScheduledTasksProofs -------------------------
(***************************************************************************)
(* Proofs about the sweep of a scheduled task.  What a run once was it     *)
(* does not lose (RunsRemain); a sweep half-way has all occurrences before *)
(* its own behind it (SweepInv), and what is yet to be written to a row is *)
(* true of its run (MarksInv).                                             *)
(***************************************************************************)
EXTENDS ScheduledTasks, TLAPS

Handled(d) == agentRuns[d] # "none" \/ d \in passedOver

SweepInv ==
  \A s \in Sweepers :
    sweeping[s].step # "idle" =>
      /\ sweeping[s].due \in Dues
      /\ \A d \in Dues : d < sweeping[s].due => Handled(d)
      /\ sweeping[s].step = "advance" => Handled(sweeping[s].due)

MarksInv ==
  \A d \in Dues :
    /\ <<d, "completed">> \in marks => agentRuns[d] = "completed"
    /\ <<d, "running">> \in marks => agentRuns[d] # "none"

ScheduleInv ==
  ScheduleTypeOK /\ NoOccurrenceSkipped /\ CompletedWasAnswered /\ SweepInv /\ MarksInv

LEMMA ScheduleInitInv == ScheduleInit => ScheduleInv
<1> SUFFICES ASSUME ScheduleInit PROVE ScheduleInv
  OBVIOUS
<1>1. ScheduleTypeOK
  BY ScheduledTasksAssumption
     DEF ScheduleInit, ScheduleTypeOK, Dues, RowStatuses, AgentStatuses, Sweeps, NoSweep, NoExpiry
<1>2. NoOccurrenceSkipped /\ CompletedWasAnswered
  BY DEF ScheduleInit, NoOccurrenceSkipped, CompletedWasAnswered, Dues
<1>3. SweepInv /\ MarksInv
  BY DEF ScheduleInit, SweepInv, MarksInv, NoSweep
<1> QED
  BY <1>1, <1>2, <1>3 DEF ScheduleInv

-----------------------------------------------------------------------------
LEMMA ScheduleTypeStep ==
  ASSUME ScheduleTypeOK, [ScheduleNext]_scheduleVars
  PROVE  ScheduleTypeOK'
<1> USE ScheduledTasksAssumption DEF ScheduleTypeOK, Dues
<1>1. CASE ClockTicks
  BY <1>1 DEF ClockTicks, taskVars, runVars, sweepVars
<1>2. CASE OwnerActs
  BY <1>2 DEF OwnerActs, Pause, Resume, DeleteTask, runVars, sweepVars
<1>3. ASSUME NEW s \in Sweepers, SweepReads(s) PROVE ScheduleTypeOK'
  BY <1>3 DEF SweepReads, Sweeps, taskVars, runVars
<1>4. ASSUME NEW s \in Sweepers, SweepCreates(s) PROVE ScheduleTypeOK'
  <2>1. sweeping' \in [Sweepers -> Sweeps]
    BY <1>4 DEF SweepCreates, Sweeps
  <2>2. occurrences' \in [Dues -> RowStatuses]
    BY <1>4 DEF SweepCreates, RowStatuses
  <2> QED
    BY <1>4, <2>1, <2>2 DEF SweepCreates, taskVars
<1>5. ASSUME NEW s \in Sweepers, SweepEnqueues(s) PROVE ScheduleTypeOK'
  <2>1. sweeping' \in [Sweepers -> Sweeps]
    BY <1>5 DEF SweepEnqueues, Sweeps
  <2>2. agentRuns' \in [Dues -> AgentStatuses]
    BY <1>5 DEF SweepEnqueues, AgentStatuses, Enqueued
  <2> QED
    BY <1>5, <2>1, <2>2 DEF SweepEnqueues, taskVars
<1>6. ASSUME NEW s \in Sweepers, SweepAdvances(s) PROVE ScheduleTypeOK'
  <2>1. sweeping[s] \in Sweeps /\ sweeping' \in [Sweepers -> Sweeps]
    BY <1>6 DEF SweepAdvances, Sweeps, NoSweep
  <2>2. nextRun' \in 1..MaxDue + 1
    BY <1>6, <2>1 DEF SweepAdvances, Sweeps
  <2> QED
    BY <1>6, <2>1, <2>2 DEF SweepAdvances, runVars
<1>7. ASSUME NEW s \in Sweepers, SweepStops(s) PROVE ScheduleTypeOK'
  BY <1>7 DEF SweepStops, Sweeps, NoSweep, taskVars, runVars
<1>8. ASSUME NEW d \in Dues,
             MacClaims(d) \/ MacStopsRenewing(d) \/ MacGivesUp(d) \/ RunnerLeases(d) \/ RunEnds(d)
      PROVE  ScheduleTypeOK'
  <2>1. \E status \in AgentStatuses : Hold(d, status)
    BY <1>8 DEF MacClaims, MacStopsRenewing, MacGivesUp, RunnerLeases, RunEnds, Over, AgentStatuses
  <2>2. agentRuns' \in [Dues -> AgentStatuses]
    BY <2>1 DEF Hold
  <2>3. marks' \subseteq Dues \X {"running", "completed", "failed"}
    BY <1>8 DEF MacClaims, MacStopsRenewing, MacGivesUp, RunnerLeases, RunEnds, Over
  <2>4. UNCHANGED <<needsMac, clock, taskVars, occurrences, sweepVars>>
    BY <1>8 DEF MacClaims, MacStopsRenewing, MacGivesUp, RunnerLeases, RunEnds
  <2> QED
    BY <2>2, <2>3, <2>4 DEF taskVars, sweepVars
<1>9. ASSUME NEW d \in Dues, NEW status \in {"running"} \cup Over, WriteMark(d, status)
      PROVE  ScheduleTypeOK'
  BY <1>9 DEF WriteMark, Over, RowStatuses, sweepVars
<1>10. CASE MarkIsLost
  BY <1>10 DEF MarkIsLost, taskVars, sweepVars
<1>11. ASSUME NEW d \in Dues, ExpiryReads(d) PROVE ScheduleTypeOK'
  BY <1>11 DEF ExpiryReads, taskVars, runVars
<1>12. CASE ExpiryFailsRun
  <2>1. agentRuns' \in [Dues -> AgentStatuses]
    BY <1>12 DEF ExpiryFailsRun, AgentStatuses
  <2>2. expiring' \in [step : {"idle", "fail", "mark"}, due : 0..MaxDue]
    BY <1>12 DEF ExpiryFailsRun
  <2> QED
    BY <1>12, <2>1, <2>2 DEF ExpiryFailsRun, taskVars
<1>13. CASE ExpiryMarks
  <2>1. occurrences' \in [Dues -> RowStatuses]
    BY <1>13 DEF ExpiryMarks, RowStatuses
  <2>2. expiring' \in [step : {"idle", "fail", "mark"}, due : 0..MaxDue]
    BY <1>13 DEF ExpiryMarks, NoExpiry
  <2> QED
    BY <1>13, <2>1, <2>2 DEF ExpiryMarks
<1>14. CASE ExpiryStops
  BY <1>14 DEF ExpiryStops, NoExpiry, taskVars, runVars
<1>15. CASE UNCHANGED scheduleVars
  BY <1>15 DEF scheduleVars, taskVars, runVars, sweepVars
<1> QED
  BY <1>1, <1>2, <1>3, <1>4, <1>5, <1>6, <1>7, <1>8, <1>9, <1>10, <1>11, <1>12, <1>13, <1>14, <1>15
     DEF ScheduleNext, ScheduleSteps, ServersStop, Sweep, TurnIsOver

\* No run disappears, and one that is over stays as it is; what was passed
\* over stays so.
LEMMA RunsRemain ==
  ASSUME ScheduleTypeOK, [ScheduleNext]_scheduleVars, NEW d \in Dues
  PROVE  /\ agentRuns[d] # "none" => agentRuns'[d] # "none"
         /\ agentRuns[d] \in Over => agentRuns'[d] = agentRuns[d]
         /\ Handled(d) => Handled(d)'
<1>1. /\ agentRuns[d] # "none" => agentRuns'[d] # "none"
      /\ agentRuns[d] \in Over => agentRuns'[d] = agentRuns[d]
  <2>1. CASE UNCHANGED agentRuns
    BY <2>1
  <2>2. ASSUME NEW s \in Sweepers, SweepEnqueues(s) PROVE <1>1!:
    BY <2>2 DEF SweepEnqueues, Enqueued, ScheduleTypeOK, Over
  <2>3. ASSUME NEW e \in Dues,
               MacClaims(e) \/ MacStopsRenewing(e) \/ MacGivesUp(e) \/ RunnerLeases(e) \/ RunEnds(e)
        PROVE  <1>1!:
    BY <2>3 DEF MacClaims, MacStopsRenewing, MacGivesUp, RunnerLeases, RunEnds, Hold, Over,
                ScheduleTypeOK
  <2>4. CASE ExpiryFailsRun
    BY <2>4 DEF ExpiryFailsRun, ScheduleTypeOK, Over
  <2> QED
    BY <2>1, <2>2, <2>3, <2>4
       DEF ScheduleNext, ScheduleSteps, ServersStop, Sweep, TurnIsOver, scheduleVars, runVars,
           ClockTicks, OwnerActs, Pause, Resume, DeleteTask, SweepReads, SweepCreates,
           SweepAdvances, SweepStops, WriteMark, MarkIsLost, ExpiryReads, ExpiryMarks, ExpiryStops
<1>2. passedOver \subseteq passedOver'
  BY DEF ScheduleNext, ScheduleSteps, ServersStop, Sweep, TurnIsOver, scheduleVars, taskVars,
         ClockTicks, OwnerActs, Pause, Resume, DeleteTask, SweepReads, SweepCreates, SweepEnqueues,
         SweepAdvances, SweepStops, MacClaims, MacStopsRenewing, MacGivesUp, RunnerLeases, RunEnds,
         WriteMark, MarkIsLost, ExpiryReads, ExpiryFailsRun, ExpiryMarks, ExpiryStops
<1> QED
  BY <1>1, <1>2 DEF Handled

-----------------------------------------------------------------------------
LEMMA SweepStep ==
  ASSUME ScheduleInv, [ScheduleNext]_scheduleVars
  PROVE  SweepInv' /\ NoOccurrenceSkipped'
<1> USE ScheduledTasksAssumption DEF ScheduleInv, ScheduleTypeOK, Dues
<1>1. \A d \in Dues : Handled(d) => Handled(d)'
  BY RunsRemain
<1>2. \A d \in Dues : d < nextRun => Handled(d)
  BY DEF NoOccurrenceSkipped, Handled
<1>3. SweepInv'
  <2> SUFFICES ASSUME NEW s \in Sweepers, sweeping'[s].step # "idle"
               PROVE  /\ sweeping'[s].due \in Dues
                      /\ \A d \in Dues : d < sweeping'[s].due => Handled(d)'
                      /\ sweeping'[s].step = "advance" => \A d \in Dues : d = sweeping'[s].due => Handled(d)'
    BY DEF SweepInv, Handled
  <2>1. CASE sweeping'[s] = sweeping[s]
    BY <1>1, <2>1 DEF SweepInv
  <2>2. CASE SweepReads(s)
    <3>1. sweeping'[s] = [step |-> "create", due |-> nextRun] /\ nextRun \in Dues
      BY <2>2 DEF SweepReads
    <3> QED
      BY <1>1, <1>2, <3>1
  <2>3. CASE SweepCreates(s)
    <3>1. /\ sweeping[s].step = "create" /\ sweeping[s] \in Sweeps
          /\ sweeping'[s].step = "enqueue" /\ sweeping'[s].due = sweeping[s].due
      BY <2>3 DEF SweepCreates, Sweeps
    <3> QED
      BY <1>1, <3>1 DEF SweepInv
  <2>4. CASE SweepEnqueues(s)
    <3>1. /\ sweeping[s].step = "enqueue" /\ sweeping[s] \in Sweeps
          /\ sweeping'[s].step = "advance" /\ sweeping'[s].due = sweeping[s].due
      BY <2>4 DEF SweepEnqueues, Sweeps
    <3>2. sweeping[s].due \in Dues /\ \A d \in Dues : d < sweeping[s].due => Handled(d)
      BY <3>1 DEF SweepInv
    <3>3. agentRuns'[sweeping[s].due] # "none"
      BY <2>4, <3>2 DEF SweepEnqueues, Enqueued
    <3> QED
      BY <1>1, <3>1, <3>2, <3>3 DEF Handled
  <2>5. CASE sweeping'[s] = NoSweep
    BY <2>5 DEF NoSweep
  <2>6. ASSUME NEW t \in Sweepers, Sweep(t) \/ SweepStops(t)
        PROVE  \/ sweeping'[s] = sweeping[s] \/ sweeping'[s] = NoSweep
               \/ SweepReads(s) \/ SweepCreates(s) \/ SweepEnqueues(s)
    BY <2>6 DEF Sweep, SweepReads, SweepCreates, SweepEnqueues, SweepAdvances, SweepStops
  <2>7. \/ UNCHANGED sweeping
        \/ \E t \in Sweepers : Sweep(t) \/ SweepStops(t)
    BY DEF ScheduleNext, ScheduleSteps, ServersStop, TurnIsOver, scheduleVars, sweepVars,
           ClockTicks, OwnerActs, Pause, Resume, DeleteTask, MacClaims, MacStopsRenewing,
           MacGivesUp, RunnerLeases, RunEnds, WriteMark, MarkIsLost,
           ExpiryReads, ExpiryFailsRun, ExpiryMarks, ExpiryStops
  <2> QED
    BY <2>1, <2>2, <2>3, <2>4, <2>5, <2>6, <2>7
<1>4. NoOccurrenceSkipped'
  <2> SUFFICES ASSUME NEW d \in Dues, d < nextRun' PROVE Handled(d)'
    BY DEF NoOccurrenceSkipped, Handled
  <2>1. CASE nextRun' = nextRun
    BY <1>1, <1>2, <2>1
  <2>2. ASSUME NEW s \in Sweepers, SweepAdvances(s) PROVE Handled(d)'
    <3>1. /\ sweeping[s] \in Sweeps /\ sweeping[s].due \in Dues
          /\ \A e \in Dues : e < sweeping[s].due => Handled(e)
          /\ \A e \in Dues : e = sweeping[s].due => Handled(e)
      BY <2>2 DEF SweepInv, SweepAdvances
    <3>2. d < sweeping[s].due \/ d = sweeping[s].due
      BY <2>2, <3>1 DEF SweepAdvances, Sweeps
    <3> QED
      BY <1>1, <3>1, <3>2
  <2>3. CASE Resume
    <3>1. d < nextRun \/ d \in nextRun..clock
      BY <2>3 DEF Resume
    <3>2. d \in nextRun..clock => Handled(d)'
      BY <2>3 DEF Resume, Handled
    <3> QED
      BY <1>1, <1>2, <3>1, <3>2
  <2>4. \/ nextRun' = nextRun \/ Resume
        \/ \E s \in Sweepers : SweepAdvances(s)
    BY DEF ScheduleNext, ScheduleSteps, ServersStop, Sweep, TurnIsOver, scheduleVars, taskVars,
           ClockTicks, OwnerActs, Pause, DeleteTask, SweepReads, SweepCreates, SweepEnqueues,
           SweepStops, MacClaims, MacStopsRenewing, MacGivesUp, RunnerLeases, RunEnds,
           WriteMark, MarkIsLost, ExpiryReads, ExpiryFailsRun, ExpiryMarks, ExpiryStops
  <2> QED
    BY <2>1, <2>2, <2>3, <2>4
<1> QED
  BY <1>3, <1>4

LEMMA MarksStep ==
  ASSUME ScheduleInv, [ScheduleNext]_scheduleVars
  PROVE  MarksInv' /\ CompletedWasAnswered'
<1> USE DEF ScheduleInv, ScheduleTypeOK
<1>1. \A d \in Dues : /\ agentRuns[d] # "none" => agentRuns'[d] # "none"
                      /\ agentRuns[d] = "completed" => agentRuns'[d] = "completed"
  BY RunsRemain DEF Over
<1>2. MarksInv'
  <2>1. CASE marks' \subseteq marks
    BY <1>1, <2>1 DEF MarksInv
  <2>2. ASSUME NEW d \in Dues, MacClaims(d) PROVE MarksInv'
    BY <1>1, <2>2 DEF MacClaims, MarksInv, Hold
  <2>3. ASSUME NEW d \in Dues, RunEnds(d) PROVE MarksInv'
    BY <1>1, <2>3 DEF RunEnds, MarksInv, Hold, Over
  <2>4. \/ marks' \subseteq marks
        \/ \E d \in Dues : MacClaims(d) \/ RunEnds(d)
    BY DEF ScheduleNext, ScheduleSteps, ServersStop, Sweep, TurnIsOver, scheduleVars, runVars,
           ClockTicks, OwnerActs, Pause, Resume, DeleteTask, SweepReads, SweepCreates,
           SweepEnqueues, SweepAdvances, SweepStops, MacStopsRenewing, MacGivesUp, RunnerLeases,
           WriteMark, MarkIsLost, ExpiryReads, ExpiryFailsRun, ExpiryMarks, ExpiryStops
  <2> QED
    BY <2>1, <2>2, <2>3, <2>4
<1>3. CompletedWasAnswered'
  <2>1. CASE UNCHANGED occurrences
    BY <1>1, <2>1 DEF CompletedWasAnswered
  <2>2. ASSUME NEW s \in Sweepers, SweepCreates(s) PROVE CompletedWasAnswered'
    BY <1>1, <2>2 DEF SweepCreates, CompletedWasAnswered
  <2>3. ASSUME NEW d \in Dues, NEW status \in {"running"} \cup Over, WriteMark(d, status)
        PROVE  CompletedWasAnswered'
    BY <1>1, <2>3 DEF WriteMark, CompletedWasAnswered, MarksInv, Over
  <2>4. CASE ExpiryMarks
    BY <1>1, <2>4 DEF ExpiryMarks, CompletedWasAnswered
  <2>5. \/ UNCHANGED occurrences \/ ExpiryMarks
        \/ \E s \in Sweepers : SweepCreates(s)
        \/ \E d \in Dues, status \in {"running"} \cup Over : WriteMark(d, status)
    BY DEF ScheduleNext, ScheduleSteps, ServersStop, Sweep, TurnIsOver, scheduleVars, runVars,
           ClockTicks, OwnerActs, Pause, Resume, DeleteTask, SweepReads, SweepEnqueues,
           SweepAdvances, SweepStops, MacClaims, MacStopsRenewing, MacGivesUp, RunnerLeases,
           RunEnds, MarkIsLost, ExpiryReads, ExpiryFailsRun, ExpiryStops
  <2> QED
    BY <2>1, <2>2, <2>3, <2>4, <2>5
<1> QED
  BY <1>2, <1>3

-----------------------------------------------------------------------------
LEMMA ScheduleInvariant == ScheduleSpec => []ScheduleInv
<1>1. ScheduleInv /\ [ScheduleNext]_scheduleVars => ScheduleInv'
  BY ScheduleTypeStep, SweepStep, MarksStep DEF ScheduleInv
<1> QED
  BY <1>1, ScheduleInitInv, PTL DEF ScheduleSpec

\* Every variable of the scheduled task keeps its type.
THEOREM ScheduleTypes == ScheduleSpec => []ScheduleTypeOK
<1>1. ScheduleInv => ScheduleTypeOK
  BY DEF ScheduleInv
<1> QED
  BY <1>1, ScheduleInvariant, PTL

\* Whatever sweeps of any number of servers stop half-way or repeat each
\* other, no occurrence behind next_run_at lacks its run.
THEOREM NoneSkipped == ScheduleSpec => []NoOccurrenceSkipped
<1>1. ScheduleInv => NoOccurrenceSkipped
  BY DEF ScheduleInv
<1> QED
  BY <1>1, ScheduleInvariant, PTL

\* An occurrence shown as completed was answered.
THEOREM CompletedIsAnswered == ScheduleSpec => []CompletedWasAnswered
<1>1. ScheduleInv => CompletedWasAnswered
  BY DEF ScheduleInv
<1> QED
  BY <1>1, ScheduleInvariant, PTL

\* An agent run of an occurrence that is over stays as it is.
THEOREM RunsOnce == ScheduleSpec => OccurrenceRunsOnce
<1>1. ScheduleTypeOK /\ [ScheduleNext]_scheduleVars =>
        [\A d \in Dues : agentRuns[d] \in Over => agentRuns'[d] = agentRuns[d]]_scheduleVars
  BY RunsRemain
<1> QED
  BY <1>1, ScheduleTypes, PTL DEF ScheduleSpec, OccurrenceRunsOnce

-----------------------------------------------------------------------------
(* The runs of the occurrences implement RunContract.                      *)

\* What the contract sees of a status.
StateOf(status) == CASE status = "queued" -> "waiting"
                     [] status \in {"mac", "lapsed", "cloud"} -> "held"
                     [] OTHER -> status
HolderOf(status) == CASE status \in {"mac", "lapsed"} -> "mac"
                      [] status = "cloud" -> "cloud"
                      [] OTHER -> "no one"

OccurrenceStates == [d \in Dues |-> StateOf(agentRuns[d])]
OccurrenceHolders == [d \in Dues |-> HolderOf(agentRuns[d])]
OccurrenceExpiries == [d \in Dues |-> agentRuns[d] = "lapsed"]
OccurrenceRequests == [d \in Dues |-> FALSE]

LEMMA OccurrencesSeen ==
  /\ OccurrenceStates = [d \in Dues |-> OccurrenceState(d)]
  /\ OccurrenceHolders = [d \in Dues |-> OccurrenceHolder(d)]
  /\ OccurrenceStates' = [d \in Dues |-> OccurrenceState(d)']
  /\ OccurrenceHolders' = [d \in Dues |-> OccurrenceHolder(d)']
BY DEF OccurrenceStates, OccurrenceHolders, StateOf, HolderOf, OccurrenceState, OccurrenceHolder

\* What may become of one run.
RunMoves(was, is) ==
  \/ was = "none" /\ is = "queued"
  \/ was \in {"queued", "lapsed"} /\ is \in {"mac", "cloud"}
  \/ was = "mac" /\ is \in {"lapsed", "queued"}
  \/ was \in {"mac", "cloud"} /\ is \in Over
  \/ was \in {"queued", "lapsed"} /\ is = "failed"

\* Each step moves one run, or none.
LEMMA OneRunMoves ==
  ASSUME ScheduleTypeOK, SweepInv, [ScheduleNext]_scheduleVars, agentRuns' # agentRuns
  PROVE  \E d \in Dues : \E status \in AgentStatuses :
           RunMoves(agentRuns[d], status) /\ agentRuns' = [agentRuns EXCEPT ![d] = status]
<1> DEFINE Goal == \E d \in Dues : \E status \in AgentStatuses :
           RunMoves(agentRuns[d], status) /\ agentRuns' = [agentRuns EXCEPT ![d] = status]
<1>1. ASSUME NEW s \in Sweepers, SweepEnqueues(s) PROVE Goal
  <2> DEFINE d == sweeping[s].due
  <2>1. d \in Dues /\ agentRuns' = [agentRuns EXCEPT ![d] = Enqueued(agentRuns[d])]
    BY <1>1 DEF SweepEnqueues, SweepInv, ScheduleTypeOK
  <2>2. agentRuns[d] = "none"
    BY <2>1 DEF ScheduleTypeOK, Enqueued
  <2> QED
    BY <2>1, <2>2 DEF Enqueued, RunMoves, AgentStatuses
<1>2. ASSUME NEW d \in Dues,
             MacClaims(d) \/ MacStopsRenewing(d) \/ MacGivesUp(d) \/ RunnerLeases(d) \/ RunEnds(d)
      PROVE  Goal
  BY <1>2 DEF MacClaims, MacStopsRenewing, MacGivesUp, RunnerLeases, RunEnds, Hold, Over,
              RunMoves, AgentStatuses
<1>3. CASE ExpiryFailsRun
  <2> DEFINE d == expiring.due
  <2>1. d \in Dues /\ agentRuns[d] \in {"queued", "mac", "lapsed"}
    BY <1>3 DEF ExpiryFailsRun, ScheduleTypeOK, Dues
  <2>2. agentRuns' = [agentRuns EXCEPT ![d] = "failed"]
    BY <1>3, <2>1 DEF ExpiryFailsRun
  <2> QED
    BY <2>1, <2>2 DEF RunMoves, AgentStatuses, Over
<1> QED
  BY <1>1, <1>2, <1>3
     DEF ScheduleNext, ScheduleSteps, ServersStop, Sweep, TurnIsOver, scheduleVars, runVars,
         ClockTicks, OwnerActs, Pause, Resume, DeleteTask, SweepReads, SweepCreates,
         SweepAdvances, SweepStops, WriteMark, MarkIsLost, ExpiryReads, ExpiryMarks, ExpiryStops

\* A move of one run is a step of that run of the contract.
LEMMA MoveSeen ==
  ASSUME ScheduleTypeOK, NEW d \in Dues, NEW status \in AgentStatuses,
         RunMoves(agentRuns[d], status), agentRuns' = [agentRuns EXCEPT ![d] = status]
  PROVE  OccurrenceContract!Moves
<1> DEFINE was == agentRuns[d]
<1>1. /\ OccurrenceStates' = [OccurrenceStates EXCEPT ![d] = StateOf(status)]
      /\ OccurrenceHolders' = [OccurrenceHolders EXCEPT ![d] = HolderOf(status)]
      /\ OccurrenceExpiries' = [OccurrenceExpiries EXCEPT ![d] = (status = "lapsed")]
      /\ OccurrenceRequests' = OccurrenceRequests
      /\ OccurrenceRequests = [OccurrenceRequests EXCEPT ![d] = (@ \/ FALSE)]
      /\ ~OccurrenceRequests[d]
  BY DEF ScheduleTypeOK, OccurrenceStates, OccurrenceHolders, OccurrenceExpiries, OccurrenceRequests
<1>2. /\ OccurrenceStates[d] = StateOf(was)
      /\ OccurrenceHolders[d] = HolderOf(was)
      /\ OccurrenceExpiries[d] = (was = "lapsed")
      /\ OccurrenceStates = [OccurrenceStates EXCEPT ![d] = StateOf(was)]
      /\ OccurrenceHolders = [OccurrenceHolders EXCEPT ![d] = HolderOf(was)]
      /\ OccurrenceExpiries = [OccurrenceExpiries EXCEPT ![d] = (was = "lapsed")]
  BY DEF OccurrenceStates, OccurrenceHolders, OccurrenceExpiries
<1>3. /\ OccurrenceExpiries = [e \in Dues |-> agentRuns[e] = "lapsed"]
      /\ OccurrenceExpiries' = [e \in Dues |-> agentRuns'[e] = "lapsed"]
      /\ OccurrenceRequests = [e \in Dues |-> FALSE]
  BY DEF OccurrenceExpiries, OccurrenceRequests
<1> HIDE DEF was
<1>4. CASE was = "none" /\ status = "queued"
  <2>1. /\ StateOf(was) = "none" /\ HolderOf(was) = "no one" /\ (was = "lapsed") = FALSE
        /\ StateOf(status) = "waiting" /\ HolderOf(status) = "no one" /\ (status = "lapsed") = FALSE
    BY <1>4 DEF StateOf, HolderOf
  <2>2. OccurrenceHolders' = OccurrenceHolders /\ OccurrenceExpiries' = OccurrenceExpiries
    BY <1>1, <1>2, <2>1
  <2>3. OccurrenceContract!Accept(d)
    BY <1>1, <1>2, <1>3, <2>1, <2>2, OccurrencesSeen DEF OccurrenceContract!Accept
  <2> QED
    BY <2>3 DEF OccurrenceContract!Moves
<1>5. CASE was \in {"queued", "lapsed"} /\ status \in {"mac", "cloud"}
  <2>1. /\ StateOf(was) = "waiting" \/ (StateOf(was) = "held" /\ was = "lapsed")
        /\ StateOf(status) = "held" /\ HolderOf(status) = status /\ (status = "lapsed") = FALSE
    BY <1>5 DEF StateOf, HolderOf
  <2>2. OccurrenceContract!Grant(status, d)
    BY <1>1, <1>2, <1>3, <2>1, OccurrencesSeen DEF OccurrenceContract!Grant
  <2> QED
    BY <1>5, <2>2 DEF OccurrenceContract!Moves
<1>6. CASE was = "mac" /\ status = "lapsed"
  <2>1. /\ StateOf(was) = "held" /\ HolderOf(was) = "mac"
        /\ StateOf(status) = "held" /\ HolderOf(status) = "mac" /\ (status = "lapsed") = TRUE
    BY <1>6 DEF StateOf, HolderOf
  <2>2. OccurrenceStates' = OccurrenceStates /\ OccurrenceHolders' = OccurrenceHolders
    BY <1>1, <1>2, <2>1
  <2>3. OccurrenceContract!Expire(d)
    BY <1>1, <1>2, <1>3, <2>1, <2>2, OccurrencesSeen DEF OccurrenceContract!Expire
  <2> QED
    BY <2>3 DEF OccurrenceContract!Moves
<1>7. CASE was = "mac" /\ status = "queued"
  <2>1. /\ StateOf(was) = "held"
        /\ StateOf(status) = "waiting" /\ HolderOf(status) = "no one" /\ (status = "lapsed") = FALSE
    BY <1>7 DEF StateOf, HolderOf
  <2>2. OccurrenceContract!Return(d)
    BY <1>1, <1>2, <1>3, <2>1, OccurrencesSeen DEF OccurrenceContract!Return
  <2> QED
    BY <2>2 DEF OccurrenceContract!Moves
<1>8. CASE \/ was \in {"mac", "cloud"} /\ status \in Over
           \/ was \in {"queued", "lapsed"} /\ status = "failed"
  <2>1. /\ StateOf(was) = "held" \/ (StateOf(was) = "waiting" /\ status \in {"failed"})
        /\ StateOf(status) = status /\ HolderOf(status) = "no one" /\ (status = "lapsed") = FALSE
    BY <1>8 DEF StateOf, HolderOf, Over
  <2>2. OccurrenceContract!End(d, status, FALSE)
    BY <1>1, <1>2, <1>3, <2>1, OccurrencesSeen DEF OccurrenceContract!End
  <2>3. status \in OccurrenceContract!Outcomes
    BY <1>8 DEF OccurrenceContract!Outcomes, Over
  <2> QED
    BY <2>2, <2>3 DEF OccurrenceContract!Moves
<1> QED
  BY <1>4, <1>5, <1>6, <1>7, <1>8 DEF RunMoves, was

\* Whatever sweeps, claims, marks and expiries interleave, the runs of the
\* occurrences keep the contract that the agent's runs keep.
THEOREM OccurrencesImplementContract == ScheduleSpec => OccurrencesKeepContract
<1>1. ScheduleInit => OccurrenceContract!Init
  <2> SUFFICES ASSUME ScheduleInit PROVE OccurrenceContract!Init
    OBVIOUS
  <2>1. \A d \in Dues : OccurrenceState(d) = "none" /\ OccurrenceHolder(d) = "no one"
                       /\ (agentRuns[d] = "lapsed") = FALSE
    BY DEF ScheduleInit, OccurrenceState, OccurrenceHolder
  <2> QED
    BY <2>1 DEF OccurrenceContract!Init
<1>2. ScheduleInv /\ [ScheduleNext]_scheduleVars
        => [OccurrenceContract!Next]_(OccurrenceContract!vars)
  <2> SUFFICES ASSUME ScheduleInv, [ScheduleNext]_scheduleVars
               PROVE  [OccurrenceContract!Next]_(OccurrenceContract!vars)
    OBVIOUS
  <2>1. CASE UNCHANGED agentRuns
    BY <2>1 DEF OccurrenceContract!vars, OccurrenceState, OccurrenceHolder
  <2>2. CASE agentRuns' # agentRuns
    BY <2>2, OneRunMoves, MoveSeen DEF ScheduleInv, OccurrenceContract!Next
  <2> QED
    BY <2>1, <2>2
<1> QED
  BY <1>1, <1>2, ScheduleInvariant, PTL
     DEF ScheduleSpec, OccurrencesKeepContract, OccurrenceContract!Spec
=============================================================================
