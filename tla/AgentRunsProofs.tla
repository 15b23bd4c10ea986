--------------------------- MODULE AgentRunsProofs ---------------------------
(***************************************************************************)
(* The invariants of AgentRuns for any number of requests, conversations,  *)
(* runners and Macs.                                                       *)
(*                                                                         *)
(* Every step changes at most one row, in one of the ways Move lists; the  *)
(* facts about rows follow from the list, those about the conversation's   *)
(* order and about the runners' steps from the list and one look at each   *)
(* action.                                                                 *)
(***************************************************************************)
EXTENDS AgentRuns, TLAPS

-----------------------------------------------------------------------------
(* What each update leaves in a row.                                       *)

\* A new row is queued for the cloud or leased by the Mac that admitted it.
LEMMA NewRowFacts ==
  ASSUME NEW by \in Desktops \cup {NoOne}, NEW hold \in BOOLEAN
  PROVE  /\ NewRow(by, hold) \in Row
         /\ NewRow(by, hold).cancel = FALSE
         /\ NewRow(by, hold).handedBack = FALSE
         /\ by = NoOne =>
              /\ NewRow(by, hold).status = "queued"
              /\ NewRow(by, hold).backend = "cloud"
              /\ NewRow(by, hold).claimedBy = NoOne
              /\ NewRow(by, hold).lease = "none"
         /\ by # NoOne =>
              /\ NewRow(by, hold).status = "leased"
              /\ NewRow(by, hold).backend = "desktop"
              /\ NewRow(by, hold).claimedBy = by
              /\ NewRow(by, hold).lease = "live"
BY DEF NewRow, EmptyRow, Row, Executors, Held, Ended

\* A taken row is leased by the Mac.
LEMMA TakenFacts ==
  ASSUME NEW row \in Row, NEW d \in Desktops
  PROVE  /\ Taken(row, d) \in Row
         /\ Taken(row, d).status = "leased"
         /\ Taken(row, d).backend = "desktop"
         /\ Taken(row, d).claimedBy = d
         /\ Taken(row, d).lease = "live"
         /\ Taken(row, d).cancel = row.cancel
         /\ Taken(row, d).handedBack = row.handedBack
BY DEF Taken, Row, Executors, Held

\* A runner's lease.
LEMMA LeasedByFacts ==
  ASSUME NEW row \in Row, NEW w \in Runners
  PROVE  /\ LeasedBy(row, w) \in Row
         /\ LeasedBy(row, w).status = "leased"
         /\ LeasedBy(row, w).backend = "cloud"
         /\ LeasedBy(row, w).claimedBy = w
         /\ LeasedBy(row, w).lease = "live"
         /\ LeasedBy(row, w).cancel = row.cancel
         /\ LeasedBy(row, w).handedBack = row.handedBack
BY DEF LeasedBy, Row, Executors, Held

\* A handed-back row waits for the cloud.
LEMMA BackInQueueFacts ==
  ASSUME NEW row \in Row
  PROVE  /\ BackInQueue(row) \in Row
         /\ BackInQueue(row).status = "queued"
         /\ BackInQueue(row).backend = "cloud"
         /\ BackInQueue(row).claimedBy = NoOne
         /\ BackInQueue(row).lease = "none"
         /\ BackInQueue(row).cancel = row.cancel
BY DEF BackInQueue, Row, Executors

\* The status alone.
LEMMA WithStatusFacts ==
  ASSUME NEW row \in Row, NEW status \in Held \cup Ended
  PROVE  /\ WithStatus(row, status) \in Row
         /\ WithStatus(row, status).status = status
         /\ WithStatus(row, status).backend = row.backend
         /\ WithStatus(row, status).claimedBy = row.claimedBy
         /\ WithStatus(row, status).lease = row.lease
         /\ WithStatus(row, status).cancel = row.cancel
         /\ WithStatus(row, status).handedBack = row.handedBack
BY DEF WithStatus, Row

\* The lease alone.
LEMMA WithLeaseFacts ==
  ASSUME NEW row \in Row, NEW lease \in {"lapsed", "lost"}
  PROVE  /\ WithLease(row, lease) \in Row
         /\ WithLease(row, lease).status = row.status
         /\ WithLease(row, lease).backend = row.backend
         /\ WithLease(row, lease).claimedBy = row.claimedBy
         /\ WithLease(row, lease).lease = lease
         /\ WithLease(row, lease).cancel = row.cancel
         /\ WithLease(row, lease).handedBack = row.handedBack
BY DEF WithLease, Row

\* The hold alone.
LEMMA UnheldFacts ==
  ASSUME NEW row \in Row
  PROVE  /\ Unheld(row) \in Row
         /\ Unheld(row).status = row.status
         /\ Unheld(row).backend = row.backend
         /\ Unheld(row).claimedBy = row.claimedBy
         /\ Unheld(row).lease = row.lease
         /\ Unheld(row).cancel = row.cancel
         /\ Unheld(row).handedBack = row.handedBack
BY DEF Unheld, Row

\* The stop request alone.
LEMMA AskedFacts ==
  ASSUME NEW row \in Row
  PROVE  /\ Asked(row) \in Row
         /\ Asked(row).status = row.status
         /\ Asked(row).backend = row.backend
         /\ Asked(row).claimedBy = row.claimedBy
         /\ Asked(row).lease = row.lease
         /\ Asked(row).cancel = TRUE
         /\ Asked(row).handedBack = row.handedBack
BY DEF Asked, Row

\* A withdrawn permission or a stop of a run nobody executes.
LEMMA WithdrawnFacts ==
  ASSUME NEW row \in Row
  PROVE  /\ Withdrawn(row) \in Row
         /\ Withdrawn(row).status = "cancelled"
         /\ Withdrawn(row).cancel = TRUE
BY DEF Withdrawn, Row, Ended

\* An end that also settles the error code.
LEMMA ClosedFacts ==
  ASSUME NEW row \in Row, NEW status \in Ended
  PROVE  /\ Closed(row, status) \in Row
         /\ Closed(row, status).status = status
         /\ Closed(row, status).cancel = row.cancel
BY DEF Closed, Row, Ended

\* An end reported by a Mac that lost its turn.
LEMMA InterruptedFacts ==
  ASSUME NEW row \in Row, NEW status \in Ended, NEW stopped \in BOOLEAN
  PROVE  /\ Interrupted(row, status, stopped) \in Row
         /\ Interrupted(row, status, stopped).status = status
         /\ Interrupted(row, status, stopped).cancel = (row.cancel \/ stopped)
BY DEF Interrupted, Row, Ended

-----------------------------------------------------------------------------
(* The ways a step changes a row.                                          *)

Writes(r, row) == run' = [run EXCEPT ![r] = row]

Born(r) ==
  /\ run[r].status = "absent" /\ r \notin barred
  /\ \E by \in Desktops \cup {NoOne}, hold \in BOOLEAN : Writes(r, NewRow(by, hold))
MovesToMac(r) ==
  /\ run[r].status = "queued" /\ ~run[r].cancel /\ ~run[r].handedBack
  /\ \E d \in Desktops : Writes(r, Taken(run[r], d))
LosesHold(r) == run[r].status = "queued" /\ Writes(r, Unheld(run[r]))
MovesToCloud(r) ==
  /\ Eligible(r) /\ ~SessionLocked(r)
  /\ \E w \in Runners : Writes(r, LeasedBy(run[r], w))
Starts(r) ==
  /\ IsHeld(r) /\ (run[r].backend = "cloud" \/ MayStart(r))
  /\ Writes(r, WithStatus(run[r], "running"))
Continues(r) == IsHeld(r) /\ Writes(r, WithStatus(run[r], run[r].status))
Returns(r) ==
  /\ \E d \in Desktops : HoldsRun(d, r)
  /\ ~run[r].cancel
  /\ Writes(r, BackInQueue(run[r]))
IsAsked(r) == IsHeld(r) /\ Writes(r, Asked(run[r]))
Ages(r) ==
  /\ IsHeld(r)
  /\ \E lease \in {"lapsed", "lost"} : Writes(r, WithLease(run[r], lease))
IsWithdrawn(r) == IsActive(r) /\ Writes(r, Withdrawn(run[r]))
Ends(r) ==
  /\ IsHeld(r)
  /\ \E status \in Ended, stopped \in BOOLEAN :
       Writes(r, WithStatus(run[r], status)) \/ Writes(r, Closed(run[r], status))
         \/ Writes(r, Interrupted(run[r], status, stopped))

Move(r) ==
  \/ MovesToMac(r) \/ LosesHold(r) \/ MovesToCloud(r) \/ Starts(r)
  \/ Continues(r) \/ Returns(r) \/ IsAsked(r) \/ Ages(r) \/ IsWithdrawn(r) \/ Ends(r)

\* A new row gets a place among the rows of its conversation, after all of them
\* when admissions do not overlap.
Placed(r) ==
  \E S \in SUBSET Present(r) :
    /\ SerialAdmission => S = Present(r)
    /\ older' = [s \in Runs |-> IF s = r THEN S
                               ELSE IF s \in Present(r) \ S THEN older[s] \cup {r}
                               ELSE older[s]]

RowsChange ==
  \/ UNCHANGED <<run, older>>
  \/ \E r \in Runs : Move(r) /\ UNCHANGED older
  \/ \E r \in Runs : Born(r) /\ Placed(r)

\* A runner at a step of its work works on a run.
LEMMA WorkHasRun ==
  ASSUME TypeOK, NEW w \in Runners, work[w].at # "idle"
  PROVE  work[w].run \in Runs /\ work[w].at \in Steps
BY DEF TypeOK, Work, Idle

\* Every step is one of them, or leaves the rows alone.
LEMMA EveryStepMoves == TypeOK /\ [Next]_vars => RowsChange
<1> SUFFICES ASSUME TypeOK, [Next]_vars PROVE RowsChange
  OBVIOUS
<1>1. ASSUME NEW r \in Runs, NEW by \in Desktops \cup {NoOne}, BeginAdmission(r, by)
     PROVE  RowsChange
  BY <1>1 DEF BeginAdmission, RowsChange
<1>2. ASSUME NEW a \in admitting, NEW hold \in BOOLEAN, NEW S \in SUBSET Runs, Insert(a, hold, S)
     PROVE  RowsChange
  <2>1. a.run \in Runs /\ a.by \in Desktops \cup {NoOne}
    BY DEF TypeOK, Admission
  <2>2. Born(a.run)
    BY <1>2, <2>1 DEF Insert, Born, Permitted, Writes
  <2>3. /\ S \in SUBSET Present(a.run)
        /\ SerialAdmission => S = Present(a.run)
    BY <1>2 DEF Insert, Positions
  <2>4. Placed(a.run)
    BY <1>2, <2>3 DEF Insert, Placed
  <2>5. QED
    BY <2>1, <2>2, <2>4 DEF RowsChange
<1>3. ASSUME NEW a \in admitting, AdmissionLost(a)
     PROVE  RowsChange
  BY <1>3 DEF AdmissionLost, RowsChange, Move, Writes, MovesToMac, TypeOK, Admission, Permitted, Takeable, RowsOnly
<1>4. ASSUME NEW a \in admitting, AdmissionDropped(a)
     PROVE  RowsChange
  BY <1>4 DEF AdmissionDropped, RowsChange, RowsOnly
<1>5. ASSUME NEW d \in Desktops, NEW r \in Runs, TakeExisting(d, r)
     PROVE  RowsChange
  BY <1>5 DEF TakeExisting, RowsChange, Move, Writes, MovesToMac, Takeable, RowsOnly
<1>6. ASSUME NEW r \in Runs, ReleaseToCloud(r)
     PROVE  RowsChange
  BY <1>6 DEF ReleaseToCloud, RowsChange, Move, Writes, LosesHold, RowsOnly
<1>7. ASSUME NEW w \in Runners, NEW r \in Runs, RunnerLease(w, r)
     PROVE  RowsChange
  BY <1>7 DEF RunnerLease, RowsChange, Move, Writes, MovesToCloud, RowsOnly
<1>8. ASSUME NEW w \in Runners, RunnerAnswer(w)
     PROVE  RowsChange
  <2>1. work[w].run \in Runs
    BY <1>8, WorkHasRun DEF RunnerAnswer
  <2>2. QED
    BY <1>8, <2>1 DEF RunnerAnswer, RowsChange, Move, Writes, IsWithdrawn, IsActive
<1>9. ASSUME NEW w \in Runners, AcknowledgeStop(w)
     PROVE  RowsChange
  <2>1. work[w].run \in Runs
    BY <1>9, WorkHasRun DEF AcknowledgeStop
  <2>2. /\ IsHeld(work[w].run) /\ UNCHANGED older
        /\ Writes(work[w].run, WithStatus(run[work[w].run], "cancelled"))
    BY <1>9 DEF AcknowledgeStop, StopsMine, HoldsRun, Writes
  <2>3. QED
    BY <2>1, <2>2 DEF RowsChange, Move, Ends, Ended
<1>10. ASSUME NEW w \in Runners, NoStopYet(w)
     PROVE  RowsChange
  BY <1>10 DEF NoStopYet, RowsChange, RowsOnly
<1>11. ASSUME NEW w \in Runners, MarkRunning(w)
     PROVE  RowsChange
  <2>1. work[w].run \in Runs
    BY <1>11, WorkHasRun DEF MarkRunning
  <2>2. QED
    BY <1>11, <2>1 DEF MarkRunning, RowsChange, Move, Writes, Starts, HoldsRun
<1>12. ASSUME NEW w \in Runners, NEW at \in {"completing", "failing"}, BeginEnding(w, at)
     PROVE  RowsChange
  BY <1>12 DEF BeginEnding, RowsChange, RowsOnly
<1>13. ASSUME NEW w \in Runners, CommitEnding(w)
     PROVE  RowsChange
  <2>1. work[w].run \in Runs
    BY <1>13, WorkHasRun DEF CommitEnding
  <2>2. CASE HoldsRun(w, work[w].run)
    <3>1. /\ Writes(work[w].run, Closed(run[work[w].run], EndStatus(work[w].at)))
          /\ UNCHANGED older
      BY <1>13, <2>2 DEF CommitEnding, Writes
    <3>2. EndStatus(work[w].at) \in Ended
      BY DEF EndStatus, Ended
    <3>3. QED
      BY <2>1, <2>2, <3>1, <3>2 DEF RowsChange, Move, Ends, HoldsRun
  <2>3. CASE ~HoldsRun(w, work[w].run)
    BY <1>13, <2>3 DEF CommitEnding, RowsChange
  <2>4. QED
    BY <2>2, <2>3
<1>14. ASSUME NEW w \in Runners, RunnerGone(w)
     PROVE  RowsChange
  BY <1>14 DEF RunnerGone, RowsChange, RowsOnly
<1>15. ASSUME NEW d \in Desktops, NEW r \in Runs, Admit(d, r)
     PROVE  RowsChange
  BY <1>15 DEF Admit, RowsChange, Move, Writes, Starts, HoldsLive, HoldsRun, RowsOnly
<1>16. ASSUME NEW d \in Desktops, NEW r \in Runs, NEW phase \in Held \cup Ended, PublishProgress(d, r, phase)
     PROVE  RowsChange
  BY <1>16 DEF PublishProgress, RowsChange, Move, Writes, Continues, Ends, HoldsLive, HoldsRun, IsHeld, Ended, RowsOnly
<1>17. ASSUME NEW d \in Desktops, NEW r \in Runs, DesktopCancel(d, r)
     PROVE  RowsChange
  BY <1>17 DEF DesktopCancel, RowsChange, Move, Writes, Ends, HoldsLive, HoldsRun, Ended, RowsOnly
<1>18. ASSUME NEW d \in Desktops, NEW r \in Runs, HandBack(d, r)
     PROVE  RowsChange
  BY <1>18 DEF HandBack, RowsChange, Move, Writes, Returns, RowsOnly
<1>19. ASSUME NEW dev \in Devices, NEW r \in Runs, ReportInterrupted(dev, r)
     PROVE  RowsChange
  BY <1>19 DEF ReportInterrupted, RowsChange, RowsOnly
<1>20. ASSUME NEW dev \in Devices, NEW r \in Runs, NEW status \in Ended, NEW stopped \in BOOLEAN, EndInterrupted(dev, r, status, stopped)
     PROVE  RowsChange
  BY <1>20 DEF EndInterrupted, RowsChange, Move, Writes, Ends, RowsOnly
<1>21. ASSUME NEW r \in Runs, StopEnds(r)
     PROVE  RowsChange
  BY <1>21 DEF StopEnds, RowsChange, Move, Writes, IsWithdrawn, IsActive, RowsOnly
<1>22. ASSUME NEW r \in Runs, StopMisses(r)
     PROVE  RowsChange
  BY <1>22 DEF StopMisses, RowsChange, RowsOnly
<1>23. ASSUME NEW r \in Runs, StopAnswers(r)
     PROVE  RowsChange
  BY <1>23 DEF StopAnswers, RowsChange, Move, Writes, IsAsked, RowsOnly
<1>24. ASSUME NEW r \in Runs, Restrict(r)
     PROVE  RowsChange
  BY <1>24 DEF Restrict, RowsChange, Move, Writes, IsWithdrawn, RowsOnly
<1>25. ASSUME NEW r \in Runs, Permit(r)
     PROVE  RowsChange
  BY <1>25 DEF Permit, RowsChange, RowsOnly
<1>34. ASSUME NEW r \in Runs, SavePrivate(r)
     PROVE  RowsChange
  BY <1>34 DEF SavePrivate, RowsChange
<1>35. ASSUME NEW r \in Runs, EndOthers(r)
     PROVE  RowsChange
  BY <1>35 DEF EndOthers, RowsChange, Move, Writes, IsWithdrawn
<1>26. ASSUME NEW r \in Runs, ReleaseStopped(r)
     PROVE  RowsChange
  BY <1>26 DEF ReleaseStopped, RowsChange, Move, Writes, Ends, Ended, RowsOnly
<1>27. ASSUME NEW r \in Runs, NEW status \in Ended, ReleaseAnswered(r, status)
     PROVE  RowsChange
  BY <1>27 DEF ReleaseAnswered, RowsChange, Move, Writes, Ends, RowsOnly
<1>28. ASSUME NEW r \in Runs, ReleaseLost(r)
     PROVE  RowsChange
  BY <1>28 DEF ReleaseLost, RowsChange, Move, Writes, Ends, Ended, IsLost, RowsOnly
<1>29. ASSUME NEW r \in Runs, LeaseLapses(r)
     PROVE  RowsChange
  BY <1>29 DEF LeaseLapses, RowsChange, Move, Writes, Ages, RowsOnly
<1>30. ASSUME NEW r \in Runs, LeaseLost(r)
     PROVE  RowsChange
  BY <1>30 DEF LeaseLost, RowsChange, Move, Writes, Ages, RowsOnly
<1>31. ASSUME NEW r \in Runs, HoldEnds(r)
     PROVE  RowsChange
  BY <1>31 DEF HoldEnds, RowsChange, Move, Writes, LosesHold, RowsOnly
<1>32. CASE UNCHANGED vars
  BY <1>32 DEF vars, RowsChange
<1>33. QED
  BY <1>1, <1>2, <1>3, <1>4, <1>5, <1>6, <1>7, <1>8, <1>9, <1>10, <1>11, <1>12, <1>13, <1>14, <1>15, <1>16, <1>17, <1>18, <1>19, <1>20, <1>21, <1>22, <1>23, <1>24, <1>25, <1>26, <1>27, <1>28, <1>29, <1>30, <1>31, <1>32, <1>34, <1>35
  DEF Next, AdmissionNext, RunnerNext, DesktopNext, ServerNext, TimeNext

-----------------------------------------------------------------------------
(* What is true of every row.                                              *)

ActiveStatus == {"queued"} \cup Held

\* A request without a row has the empty one; a queued row has no executor; a
\* held row has a lease and an executor of its backend; a handed-back row that
\* is not over is the cloud's.
Good(row) ==
  /\ row.status = "absent" => row = EmptyRow
  /\ row.status = "queued" =>
       row.backend = "cloud" /\ row.claimedBy = NoOne /\ row.lease = "none"
  /\ row.status \in Held =>
       /\ row.lease # "none"
       /\ row.claimedBy \in (IF row.backend = "cloud" THEN Runners ELSE Desktops)
  /\ row.handedBack /\ row.status \in ActiveStatus => row.backend = "cloud"

GoodRows == \A r \in Runs : Good(run[r])

\* An ending move writes an ended row.
LEMMA EndsWritesEnded ==
  ASSUME TypeOK, NEW r \in Runs, Ends(r)
  PROVE  \E row \in Row : Writes(r, row) /\ row.status \in Ended
<1> run[r] \in Row
  BY DEF TypeOK
<1>1. PICK status \in Ended, stopped \in BOOLEAN :
        Writes(r, WithStatus(run[r], status)) \/ Writes(r, Closed(run[r], status))
          \/ Writes(r, Interrupted(run[r], status, stopped))
  BY DEF Ends
<1>2. WithStatus(run[r], status) \in Row /\ WithStatus(run[r], status).status \in Ended
  BY WithStatusFacts
<1>3. Closed(run[r], status) \in Row /\ Closed(run[r], status).status \in Ended
  BY ClosedFacts
<1>4. /\ Interrupted(run[r], status, stopped) \in Row
      /\ Interrupted(run[r], status, stopped).status \in Ended
  BY InterruptedFacts
<1>5. QED
  BY <1>1, <1>2, <1>3, <1>4

\* A move writes a good row, into an active one or as a birth: it brings back
\* no row that has ended.
LEMMA MoveWritesGoodRow ==
  ASSUME TypeOK, GoodRows, NEW r \in Runs, Move(r) \/ Born(r)
  PROVE  /\ IsActive(r) \/ Born(r)
         /\ \E row \in Row : Writes(r, row) /\ Good(row) /\ row.status # "absent"
<1> DEFINE Goal(row) == Good(row) /\ row.status # "absent" /\ (IsActive(r) \/ Born(r))
<1> run[r] \in Row /\ Good(run[r])
  BY DEF TypeOK, GoodRows
<1>1. CASE Born(r)
  <2>1. PICK by \in Desktops \cup {NoOne}, hold \in BOOLEAN : Writes(r, NewRow(by, hold))
    BY <1>1 DEF Born
  <2>2. NewRow(by, hold) \in Row /\ Goal(NewRow(by, hold))
    BY <1>1, NewRowFacts DEF Born, Good, ActiveStatus, Held, IsActive, IsHeld
  <2>3. QED
    BY <2>1, <2>2
<1>2. CASE MovesToMac(r)
  <2>1. PICK d \in Desktops : Writes(r, Taken(run[r], d))
    BY <1>2 DEF MovesToMac
  <2>2. Taken(run[r], d) \in Row /\ Goal(Taken(run[r], d))
    BY <1>2, TakenFacts DEF MovesToMac, Good, ActiveStatus, Held, IsActive, IsHeld
  <2>3. QED
    BY <2>1, <2>2
<1>3. CASE LosesHold(r)
  <2>1. Writes(r, Unheld(run[r]))
    BY <1>3 DEF LosesHold
  <2>2. Unheld(run[r]) \in Row /\ Goal(Unheld(run[r]))
    BY <1>3, UnheldFacts DEF LosesHold, Good, ActiveStatus, Held, Ended, IsActive, IsHeld
  <2>3. QED
    BY <2>1, <2>2
<1>4. CASE MovesToCloud(r)
  <2>1. PICK w \in Runners : Writes(r, LeasedBy(run[r], w))
    BY <1>4 DEF MovesToCloud
  <2>2. LeasedBy(run[r], w) \in Row /\ Goal(LeasedBy(run[r], w))
    BY <1>4, LeasedByFacts DEF MovesToCloud, Good, ActiveStatus, Held, IsActive, IsHeld, Eligible
  <2>3. QED
    BY <2>1, <2>2
<1>5. CASE Starts(r)
  <2>1. Writes(r, WithStatus(run[r], "running"))
    BY <1>5 DEF Starts
  <2>2. WithStatus(run[r], "running") \in Row /\ Goal(WithStatus(run[r], "running"))
    BY <1>5, WithStatusFacts DEF Starts, Good, ActiveStatus, Held, Ended, IsActive, IsHeld
  <2>3. QED
    BY <2>1, <2>2
<1>6. CASE Continues(r)
  <2>1. Writes(r, WithStatus(run[r], run[r].status))
    BY <1>6 DEF Continues
  <2>2. WithStatus(run[r], run[r].status) \in Row /\ Goal(WithStatus(run[r], run[r].status))
    BY <1>6, WithStatusFacts DEF Continues, Good, ActiveStatus, Held, Ended, IsActive, IsHeld
  <2>3. QED
    BY <2>1, <2>2
<1>7. CASE Returns(r)
  <2>1. Writes(r, BackInQueue(run[r]))
    BY <1>7 DEF Returns
  <2>2. BackInQueue(run[r]) \in Row /\ Goal(BackInQueue(run[r]))
    BY <1>7, BackInQueueFacts DEF Returns, Good, ActiveStatus, Held, Ended, IsActive, IsHeld, HoldsRun
  <2>3. QED
    BY <2>1, <2>2
<1>8. CASE IsAsked(r)
  <2>1. Writes(r, Asked(run[r]))
    BY <1>8 DEF IsAsked
  <2>2. Asked(run[r]) \in Row /\ Goal(Asked(run[r]))
    BY <1>8, AskedFacts DEF IsAsked, Good, ActiveStatus, Held, Ended, IsActive, IsHeld
  <2>3. QED
    BY <2>1, <2>2
<1>9. CASE Ages(r)
  <2>1. PICK lease \in {"lapsed", "lost"} : Writes(r, WithLease(run[r], lease))
    BY <1>9 DEF Ages
  <2>2. WithLease(run[r], lease) \in Row /\ Goal(WithLease(run[r], lease))
    BY <1>9, WithLeaseFacts DEF Ages, Good, ActiveStatus, Held, IsActive, IsHeld
  <2>3. QED
    BY <2>1, <2>2
<1>10. CASE IsWithdrawn(r)
  <2>1. Writes(r, Withdrawn(run[r]))
    BY <1>10 DEF IsWithdrawn
  <2>2. Withdrawn(run[r]) \in Row /\ Goal(Withdrawn(run[r]))
    BY <1>10, WithdrawnFacts DEF IsWithdrawn, Good, ActiveStatus, Held, Ended, IsActive, IsHeld
  <2>3. QED
    BY <2>1, <2>2
<1>11. CASE Ends(r)
  <2>1. PICK row \in Row : Writes(r, row) /\ row.status \in Ended
    BY <1>11, EndsWritesEnded
  <2>2. Goal(row)
    BY <1>11, <2>1 DEF Ends, Good, ActiveStatus, Held, Ended, IsActive
  <2>3. QED
    BY <2>1, <2>2
<1>12. QED
  BY <1>1, <1>2, <1>3, <1>4, <1>5, <1>6, <1>7, <1>8, <1>9, <1>10, <1>11 DEF Move

\* So a step keeps the rows good and well typed, and changes only active rows
\* and those it bears.
LEMMA RowsStayGood ==
  ASSUME TypeOK, GoodRows, RowsChange
  PROVE  /\ run' \in [Runs -> Row]
         /\ GoodRows'
         /\ \A s \in Runs :
              \/ run'[s] = run[s]
              \/ run'[s].status # "absent" /\ (IsActive(s) \/ Born(s))
<1>1. CASE UNCHANGED run
  BY <1>1 DEF TypeOK, GoodRows
<1>2. ASSUME NEW r \in Runs, Move(r) \/ Born(r)
      PROVE  /\ run' \in [Runs -> Row]
             /\ GoodRows'
             /\ \A s \in Runs :
                  \/ run'[s] = run[s]
                  \/ run'[s].status # "absent" /\ (IsActive(s) \/ Born(s))
  <2>1. PICK row \in Row : Writes(r, row) /\ Good(row) /\ row.status # "absent"
    BY <1>2, MoveWritesGoodRow
  <2>2. IsActive(r) \/ Born(r)
    BY <1>2, MoveWritesGoodRow
  <2>3. /\ run' \in [Runs -> Row]
        /\ run'[r] = row
        /\ \A s \in Runs \ {r} : run'[s] = run[s]
    BY <2>1 DEF Writes, TypeOK
  <2>4. QED
    BY <2>1, <2>2, <2>3 DEF GoodRows
<1>3. QED
  BY <1>1, <1>2 DEF RowsChange

-----------------------------------------------------------------------------
(* Types.                                                                  *)

\* The variables beside the rows keep their types; who is barred from now on is
\* barred by Restrict, or by the save of a Factory agent whose runs are unended
\* until EndOthers.
OtherTypes ==
  /\ older' \in [Runs -> SUBSET Runs]
  /\ admitting' \subseteq Admission
  /\ work' \in [Runners -> Work]
  /\ stopping' \subseteq Runs
  /\ reporting' \subseteq Devices \X Runs
  /\ barred' \subseteq Guests /\ unended' \subseteq Guests
  /\ \/ barred' \ unended' \subseteq barred \ unended
     \/ \E r \in Runs : Restrict(r) \/ EndOthers(r)

\* In every step.
LEMMA OthersKeepTypes == TypeOK /\ [Next]_vars => OtherTypes
<1> SUFFICES ASSUME TypeOK, [Next]_vars PROVE OtherTypes
  OBVIOUS
<1> USE DEF TypeOK, OtherTypes, RowsOnly
<1>1. ASSUME NEW r \in Runs, NEW by \in Desktops \cup {NoOne}, BeginAdmission(r, by)
     PROVE  OtherTypes
  BY <1>1 DEF BeginAdmission, Admission, Present
<1>2. ASSUME NEW a \in admitting, NEW hold \in BOOLEAN, NEW S \in SUBSET Runs, Insert(a, hold, S)
     PROVE  OtherTypes
  BY <1>2 DEF Insert, Admission, Present
<1>3. ASSUME NEW a \in admitting, AdmissionLost(a)
     PROVE  OtherTypes
  BY <1>3 DEF AdmissionLost
<1>4. ASSUME NEW a \in admitting, AdmissionDropped(a)
     PROVE  OtherTypes
  BY <1>4 DEF AdmissionDropped
<1>5. ASSUME NEW d \in Desktops, NEW r \in Runs, TakeExisting(d, r)
     PROVE  OtherTypes
  BY <1>5 DEF TakeExisting
<1>6. ASSUME NEW r \in Runs, ReleaseToCloud(r)
     PROVE  OtherTypes
  BY <1>6 DEF ReleaseToCloud
<1>7. ASSUME NEW w \in Runners, NEW r \in Runs, RunnerLease(w, r)
     PROVE  OtherTypes
  BY <1>7 DEF RunnerLease, Work, Steps
<1>8. ASSUME NEW w \in Runners, RunnerAnswer(w)
     PROVE  OtherTypes
  <2>1. work[w].run \in Runs /\ work[w].at \in Steps
    BY <1>8, WorkHasRun DEF RunnerAnswer
  <2>2. work' \in [Runners -> Work]
    BY <1>8, <2>1 DEF RunnerAnswer, Work, Steps, Idle
  <2>3. QED
    BY <1>8, <2>2 DEF RunnerAnswer
<1>9. ASSUME NEW w \in Runners, AcknowledgeStop(w)
     PROVE  OtherTypes
  <2>1. work[w].run \in Runs /\ work[w].at \in Steps
    BY <1>9, WorkHasRun DEF AcknowledgeStop
  <2>2. work' \in [Runners -> Work]
    BY <1>9, <2>1 DEF AcknowledgeStop, Work, Steps, Idle
  <2>3. QED
    BY <1>9, <2>2 DEF AcknowledgeStop
<1>10. ASSUME NEW w \in Runners, NoStopYet(w)
     PROVE  OtherTypes
  <2>1. work[w].run \in Runs /\ work[w].at \in Steps
    BY <1>10, WorkHasRun DEF NoStopYet
  <2>2. work' \in [Runners -> Work]
    BY <1>10, <2>1 DEF NoStopYet, Work, Steps, Idle
  <2>3. QED
    BY <1>10, <2>2 DEF NoStopYet
<1>11. ASSUME NEW w \in Runners, MarkRunning(w)
     PROVE  OtherTypes
  <2>1. work[w].run \in Runs /\ work[w].at \in Steps
    BY <1>11, WorkHasRun DEF MarkRunning
  <2>2. work' \in [Runners -> Work]
    BY <1>11, <2>1 DEF MarkRunning, Work, Steps, Idle
  <2>3. QED
    BY <1>11, <2>2 DEF MarkRunning
<1>12. ASSUME NEW w \in Runners, NEW at \in {"completing", "failing"}, BeginEnding(w, at)
     PROVE  OtherTypes
  <2>1. work[w].run \in Runs /\ work[w].at \in Steps
    BY <1>12, WorkHasRun DEF BeginEnding
  <2>2. work' \in [Runners -> Work]
    BY <1>12, <2>1 DEF BeginEnding, Work, Steps, Idle
  <2>3. QED
    BY <1>12, <2>2 DEF BeginEnding
<1>13. ASSUME NEW w \in Runners, CommitEnding(w)
     PROVE  OtherTypes
  BY <1>13 DEF CommitEnding, Work, Idle
<1>14. ASSUME NEW w \in Runners, RunnerGone(w)
     PROVE  OtherTypes
  BY <1>14 DEF RunnerGone, Work, Idle
<1>15. ASSUME NEW d \in Desktops, NEW r \in Runs, Admit(d, r)
     PROVE  OtherTypes
  BY <1>15 DEF Admit
<1>16. ASSUME NEW d \in Desktops, NEW r \in Runs, NEW phase \in Held \cup Ended, PublishProgress(d, r, phase)
     PROVE  OtherTypes
  BY <1>16 DEF PublishProgress
<1>17. ASSUME NEW d \in Desktops, NEW r \in Runs, DesktopCancel(d, r)
     PROVE  OtherTypes
  BY <1>17 DEF DesktopCancel
<1>18. ASSUME NEW d \in Desktops, NEW r \in Runs, HandBack(d, r)
     PROVE  OtherTypes
  BY <1>18 DEF HandBack
<1>19. ASSUME NEW dev \in Devices, NEW r \in Runs, ReportInterrupted(dev, r)
     PROVE  OtherTypes
  BY <1>19 DEF ReportInterrupted
<1>20. ASSUME NEW dev \in Devices, NEW r \in Runs, NEW status \in Ended, NEW stopped \in BOOLEAN, EndInterrupted(dev, r, status, stopped)
     PROVE  OtherTypes
  BY <1>20 DEF EndInterrupted
<1>21. ASSUME NEW r \in Runs, StopEnds(r)
     PROVE  OtherTypes
  BY <1>21 DEF StopEnds
<1>22. ASSUME NEW r \in Runs, StopMisses(r)
     PROVE  OtherTypes
  BY <1>22 DEF StopMisses
<1>23. ASSUME NEW r \in Runs, StopAnswers(r)
     PROVE  OtherTypes
  BY <1>23 DEF StopAnswers
<1>24. ASSUME NEW r \in Runs, Restrict(r)
     PROVE  OtherTypes
  BY <1>24 DEF Restrict
<1>25. ASSUME NEW r \in Runs, Permit(r)
     PROVE  OtherTypes
  BY <1>25 DEF Permit
<1>34. ASSUME NEW r \in Runs, SavePrivate(r)
     PROVE  OtherTypes
  BY <1>34 DEF SavePrivate
<1>35. ASSUME NEW r \in Runs, EndOthers(r)
     PROVE  OtherTypes
  BY <1>35 DEF EndOthers
<1>26. ASSUME NEW r \in Runs, ReleaseStopped(r)
     PROVE  OtherTypes
  BY <1>26 DEF ReleaseStopped
<1>27. ASSUME NEW r \in Runs, NEW status \in Ended, ReleaseAnswered(r, status)
     PROVE  OtherTypes
  BY <1>27 DEF ReleaseAnswered
<1>28. ASSUME NEW r \in Runs, ReleaseLost(r)
     PROVE  OtherTypes
  BY <1>28 DEF ReleaseLost
<1>29. ASSUME NEW r \in Runs, LeaseLapses(r)
     PROVE  OtherTypes
  BY <1>29 DEF LeaseLapses
<1>30. ASSUME NEW r \in Runs, LeaseLost(r)
     PROVE  OtherTypes
  BY <1>30 DEF LeaseLost
<1>31. ASSUME NEW r \in Runs, HoldEnds(r)
     PROVE  OtherTypes
  BY <1>31 DEF HoldEnds
<1>32. CASE UNCHANGED vars
  BY <1>32 DEF vars
<1>33. QED
  BY <1>1, <1>2, <1>3, <1>4, <1>5, <1>6, <1>7, <1>8, <1>9, <1>10, <1>11, <1>12, <1>13, <1>14,
     <1>15, <1>16, <1>17, <1>18, <1>19, <1>20, <1>21, <1>22, <1>23, <1>24, <1>25, <1>26,
     <1>27, <1>28, <1>29, <1>30, <1>31, <1>32, <1>34, <1>35
  DEF Next, AdmissionNext, RunnerNext, DesktopNext, ServerNext, TimeNext

-----------------------------------------------------------------------------
(* The rows' invariant.                                                   *)

RowsInv == TypeOK /\ GoodRows /\ BarredHasNoRun

\* No row exists in the beginning.
LEMMA RowsInit == Init => RowsInv
<1> SUFFICES ASSUME Init PROVE RowsInv
  OBVIOUS
<1>1. EmptyRow \in Row
  BY DEF EmptyRow, Row
<1>2. TypeOK
  BY <1>1 DEF Init, TypeOK, Work
<1>3. GoodRows /\ BarredHasNoRun
  BY DEF Init, GoodRows, Good, BarredHasNoRun, EmptyRow, Held, ActiveStatus
<1>4. QED
  BY <1>2, <1>3 DEF RowsInv

\* A step that bars a requester for good, or ends the runs of one barred
\* before, leaves none of their runs active.
LEMMA RestrictEnds ==
  ASSUME TypeOK, NEW r \in Runs, Restrict(r) \/ EndOthers(r)
  PROVE  /\ barred' \ unended' \subseteq (barred \ unended) \cup {r}
         /\ run'[r].status \notin ActiveStatus
<1>1. Withdrawn(run[r]).status = "cancelled"
  BY WithdrawnFacts DEF TypeOK
<1>2. QED
  BY <1>1 DEF Restrict, EndOthers, TypeOK, ActiveStatus, IsActive, IsHeld, Held

\* Every step keeps the rows' invariant.
LEMMA RowsStep == RowsInv /\ [Next]_vars => RowsInv'
<1> SUFFICES ASSUME RowsInv, [Next]_vars PROVE RowsInv'
  OBVIOUS
<1>1. /\ run' \in [Runs -> Row]
      /\ GoodRows'
      /\ \A s \in Runs : run'[s].status \in ActiveStatus => IsActive(s) \/ Born(s)
  BY EveryStepMoves, RowsStayGood DEF RowsInv, ActiveStatus, IsActive, IsHeld
<1>2. OtherTypes
  BY OthersKeepTypes DEF RowsInv
<1>3. TypeOK'
  BY <1>1, <1>2 DEF RowsInv, TypeOK, OtherTypes
<1>4. BarredHasNoRun'
  <2> SUFFICES ASSUME NEW s \in barred' \ unended', run'[s].status \in ActiveStatus PROVE FALSE
    BY DEF BarredHasNoRun, IsActive, IsHeld, ActiveStatus
  <2>1. s \in Runs
    BY <1>3, ScopeAssumption DEF TypeOK
  <2>2. s \notin barred \ unended
    BY <1>1, <2>1 DEF RowsInv, BarredHasNoRun, Born
  <2>3. QED
    BY <1>2, <2>1, <2>2, RestrictEnds DEF OtherTypes, RowsInv
<1>5. QED
  BY <1>1, <1>3, <1>4 DEF RowsInv

\* It holds in every reachable state.
THEOREM RowsInvariance == Spec => []RowsInv
BY RowsInit, RowsStep, PTL DEF Spec

\* The types are right.
THEOREM TypeCorrect == Spec => []TypeOK
<1>1. RowsInv => TypeOK
  BY DEF RowsInv
<1>2. QED
  BY <1>1, RowsInvariance, PTL

\* The columns of a row agree about who executes it.
THEOREM RowsAgree == Spec => []HolderMatchesRow
<1>1. RowsInv => HolderMatchesRow
  BY DEF RowsInv, GoodRows, Good, HolderMatchesRow, IsHeld
<1>2. QED
  BY <1>1, RowsInvariance, PTL

\* A run a Mac handed back stays in the cloud.
THEOREM HandBackIsFinal == Spec => []HandedBackStaysInCloud
<1>1. RowsInv => HandedBackStaysInCloud
  BY DEF RowsInv, GoodRows, Good, HandedBackStaysInCloud, IsActive, IsHeld, ActiveStatus
<1>2. QED
  BY <1>1, RowsInvariance, PTL

\* A requester without access has no active run, however admissions and
\* restrictions interleave, but for the run of a Factory agent whose save has
\* not ended it yet.
THEOREM RestrictionHolds == Spec => []BarredHasNoRun
<1>1. RowsInv => BarredHasNoRun
  BY DEF RowsInv
<1>2. QED
  BY <1>1, RowsInvariance, PTL

-----------------------------------------------------------------------------
(* The order of a conversation.                                             *)

\* older relates each pair of rows of a conversation, one way at least, and
\* nothing else.
Ordered ==
  \A r \in Runs :
    /\ r \notin older[r]
    /\ older[r] \subseteq Present(r)
    /\ run[r].status = "absent" => older[r] = {}
    /\ \A s \in Runs \ {r} :
         /\ QueueOf[s] = QueueOf[r]
         /\ run[r].status # "absent" /\ run[s].status # "absent"
         => s \in older[r] \/ r \in older[s]

\* The order stays one, wherever a row is inserted.
LEMMA OrderStep ==
  ASSUME TypeOK, GoodRows, Ordered, RowsChange
  PROVE  Ordered'
<1>1. \A s \in Runs :
        \/ run'[s] = run[s]
        \/ run'[s].status # "absent" /\ (IsActive(s) \/ Born(s))
  BY RowsStayGood
<1>2. CASE UNCHANGED <<run, older>>
  BY <1>2 DEF Ordered, Present
<1>3. ASSUME NEW r \in Runs, Move(r), UNCHANGED older
      PROVE  Ordered'
  <2>1. \A s \in Runs : (run'[s].status = "absent") <=> (run[s].status = "absent")
    <3>1. PICK row \in Row : Writes(r, row) /\ row.status # "absent"
      BY <1>3, MoveWritesGoodRow
    <3>2. run[r].status # "absent"
      BY <1>3 DEF Move, MovesToMac, LosesHold, MovesToCloud, Eligible, Starts, Continues,
         Returns, HoldsRun, IsAsked, Ages, IsWithdrawn, Ends, IsActive, IsHeld, Held
    <3>3. QED
      BY <3>1, <3>2 DEF Writes, TypeOK
  <2>2. \A s \in Runs : Present(s)' = Present(s)
    BY <2>1 DEF Present
  <2>3. QED
    BY <1>3, <2>1, <2>2 DEF Ordered
<1>4. ASSUME NEW r \in Runs, Born(r), Placed(r)
      PROVE  Ordered'
  <2>1. PICK row \in Row : Writes(r, row) /\ row.status # "absent"
    BY <1>4, MoveWritesGoodRow
  <2>2. /\ run'[r].status # "absent" /\ run[r].status = "absent"
        /\ \A s \in Runs \ {r} : run'[s] = run[s]
    BY <1>4, <2>1 DEF Writes, TypeOK, Born
  <2>3. PICK S \in SUBSET Present(r) :
          /\ older'[r] = S
          /\ \A s \in Runs \ {r} :
               older'[s] = IF s \in Present(r) \ S THEN older[s] \cup {r} ELSE older[s]
    BY <1>4 DEF Placed
  <2>4. \A s \in Runs : Present(s) \subseteq Present(s)'
    BY <2>2 DEF Present
  <2>5. \A s \in Runs : r \notin Present(s)
    BY <2>2 DEF Present
  <2>6. ASSUME NEW q \in Runs
        PROVE  /\ q \notin older'[q]
               /\ older'[q] \subseteq Present(q)'
               /\ run'[q].status = "absent" => older'[q] = {}
    <3>1. CASE q = r
      BY <2>2, <2>3, <2>4, <2>5, <3>1
    <3>2. CASE q # r /\ older'[q] = older[q]
      BY <2>2, <2>4, <3>2 DEF Ordered
    <3>3. CASE q \in Present(r) \ S /\ older'[q] = older[q] \cup {r}
      <4>1. r \in Present(q)' /\ q # r /\ run'[q].status # "absent"
        BY <2>2, <2>5, <3>3 DEF Present
      <4>2. QED
        BY <2>4, <3>3, <4>1 DEF Ordered
    <3>4. QED
      BY <2>3, <3>1, <3>2, <3>3
  <2>7. ASSUME NEW q \in Runs, NEW s \in Runs \ {q}, QueueOf[s] = QueueOf[q],
               run'[q].status # "absent", run'[s].status # "absent"
        PROVE  s \in older'[q] \/ q \in older'[s]
    <3>1. CASE q = r
      <4>1. s \in Present(r)
        BY <2>2, <2>7, <3>1 DEF Present
      <4>2. QED
        BY <2>3, <3>1, <4>1
    <3>2. CASE s = r
      <4>1. q \in Present(r)
        BY <2>2, <2>7, <3>2 DEF Present
      <4>2. QED
        BY <2>3, <3>2, <4>1
    <3>3. CASE q # r /\ s # r
      <4>1. s \in older[q] \/ q \in older[s]
        BY <2>2, <2>7, <3>3 DEF Ordered
      <4>2. older[q] \subseteq older'[q] /\ older[s] \subseteq older'[s]
        BY <2>3, <3>3
      <4>3. QED
        BY <4>1, <4>2
    <3>4. QED
      BY <3>1, <3>2, <3>3
  <2>8. QED
    BY <2>6, <2>7 DEF Ordered
<1>5. QED
  BY <1>2, <1>3, <1>4 DEF RowsChange

\* A run that has started had started already, or nothing older is active.
LEMMA StartsInOrder ==
  ASSUME TypeOK, GoodRows, RowsChange, NEW r \in Runs, Started(r)'
  PROVE  \/ Started(r)
         \/ \A s \in Runs \ {r} : QueueOf[s] = QueueOf[r] /\ IsActive(s) => s \notin older[r]
<1> DEFINE Goal == \/ Started(r)
                   \/ \A s \in Runs \ {r} :
                        QueueOf[s] = QueueOf[r] /\ IsActive(s) => s \notin older[r]
<1> run[r] \in Row
  BY DEF TypeOK
<1>1. CASE run'[r] = run[r]
  BY <1>1 DEF Started
<1>2. ASSUME run'[r] # run[r], Born(r)
      PROVE  Goal
  <2>1. PICK by \in Desktops \cup {NoOne}, hold \in BOOLEAN : Writes(r, NewRow(by, hold))
    BY <1>2 DEF Born
  <2>2. run'[r] = NewRow(by, hold)
    BY <2>1 DEF Writes, TypeOK
  <2>3. QED
    BY <2>2, NewRowFacts DEF Started
<1>3. ASSUME run'[r] # run[r], Move(r)
      PROVE  Goal
  <2>1. CASE MovesToMac(r)
    <3>1. PICK d \in Desktops : Writes(r, Taken(run[r], d))
      BY <2>1 DEF MovesToMac
    <3>2. run'[r] = Taken(run[r], d)
      BY <3>1 DEF Writes, TypeOK
    <3>3. QED
      BY <3>2, TakenFacts DEF Started
  <2>2. CASE LosesHold(r)
    <3>1. run'[r] = Unheld(run[r])
      BY <2>2 DEF LosesHold, Writes, TypeOK
    <3>2. QED
      BY <2>2, <3>1, UnheldFacts DEF LosesHold, Started, IsHeld, Held
  <2>3. CASE MovesToCloud(r)
    BY <2>3 DEF MovesToCloud, Eligible, InTurn
  <2>4. CASE Starts(r)
    <3>1. CASE run[r].backend = "cloud"
      BY <2>4, <3>1 DEF Starts, Started, IsHeld, Held
    <3>2. CASE MayStart(r)
      BY <3>2 DEF MayStart
    <3>3. QED
      BY <2>4, <3>1, <3>2 DEF Starts
  <2>5. CASE Continues(r)
    <3>1. run'[r] = WithStatus(run[r], run[r].status)
      BY <2>5 DEF Continues, Writes, TypeOK
    <3>2. QED
      BY <2>5, <3>1, WithStatusFacts DEF Continues, Started, IsHeld, Held
  <2>6. CASE Returns(r)
    <3>1. run'[r] = BackInQueue(run[r])
      BY <2>6 DEF Returns, Writes, TypeOK
    <3>2. QED
      BY <2>6, <3>1, BackInQueueFacts DEF Returns, Started, IsHeld, Held
  <2>7. CASE IsAsked(r)
    <3>1. run'[r] = Asked(run[r])
      BY <2>7 DEF IsAsked, Writes, TypeOK
    <3>2. QED
      BY <2>7, <3>1, AskedFacts DEF IsAsked, Started, IsHeld, Held
  <2>8. CASE Ages(r)
    <3>1. PICK lease \in {"lapsed", "lost"} : Writes(r, WithLease(run[r], lease))
      BY <2>8 DEF Ages
    <3>2. run'[r] = WithLease(run[r], lease)
      BY <3>1 DEF Writes, TypeOK
    <3>3. QED
      BY <3>2, WithLeaseFacts DEF Started
  <2>9. CASE IsWithdrawn(r)
    <3>1. run'[r] = Withdrawn(run[r])
      BY <2>9 DEF IsWithdrawn, Writes, TypeOK
    <3>2. QED
      BY <2>9, <3>1, WithdrawnFacts DEF IsWithdrawn, Started, IsHeld, Held
  <2>10. CASE Ends(r)
    <3>1. PICK row \in Row : Writes(r, row) /\ row.status \in Ended
      BY <2>10, EndsWritesEnded
    <3>2. QED
      BY <3>1 DEF Writes, TypeOK, Started, Ended
  <2>11. QED
    BY <1>3, <2>1, <2>2, <2>3, <2>4, <2>5, <2>6, <2>7, <2>8, <2>9, <2>10 DEF Move
<1>4. ASSUME NEW q \in Runs \ {r}, Move(q) \/ Born(q)
      PROVE  Goal
  <2>1. PICK row \in Row : Writes(q, row)
    BY <1>4, MoveWritesGoodRow
  <2>2. run'[r] = run[r]
    BY <2>1 DEF Writes, TypeOK
  <2>3. QED
    BY <1>1, <2>2
<1>5. QED
  BY <1>1, <1>2, <1>3, <1>4 DEF RowsChange

\* A row is inserted before one that has started.
LateRow == \E r \in Runs : Started(r) /\ older'[r] # older[r]

\* Nothing else lets a turn start before an older request is over.
LEMMA OldestFirstStep ==
  ASSUME TypeOK, GoodRows, Ordered, OldestFirst, RowsChange, ~LateRow
  PROVE  OldestFirst'
<1> SUFFICES ASSUME NEW r \in Runs, Started(r)', NEW s \in older'[r], IsActive(s)'
             PROVE  FALSE
  BY DEF OldestFirst
<1>1. ~Born(r)
  <2> SUFFICES ASSUME Born(r) PROVE FALSE
    OBVIOUS
  <2>1. PICK by \in Desktops \cup {NoOne}, hold \in BOOLEAN : Writes(r, NewRow(by, hold))
    BY DEF Born
  <2>2. run'[r] = NewRow(by, hold)
    BY <2>1 DEF Writes, TypeOK
  <2>3. QED
    BY <2>2, NewRowFacts DEF Started
<1>2. older'[r] = older[r]
  <2>1. CASE UNCHANGED older
    BY <2>1
  <2>2. ASSUME NEW q \in Runs, Born(q)
        PROVE  older'[r] = older[r]
    <3>1. PICK row \in Row : Writes(q, row)
      BY <2>2, MoveWritesGoodRow
    <3>2. run'[r] = run[r]
      BY <1>1, <2>2, <3>1 DEF Writes, TypeOK
    <3>3. Started(r)
      BY <3>2 DEF Started
    <3>4. QED
      BY <3>3 DEF LateRow
  <2>3. QED
    BY <2>1, <2>2 DEF RowsChange
<1>3. s \in Runs \ {r} /\ QueueOf[s] = QueueOf[r] /\ run[s].status # "absent"
  BY <1>2 DEF Ordered, Present
<1>4. IsActive(s)
  <2>1. ~Born(s)
    BY <1>3 DEF Born
  <2>2. QED
    BY <1>3, <2>1, RowsStayGood DEF IsActive, IsHeld
<1>5. QED
  BY <1>2, <1>3, <1>4, StartsInOrder DEF OldestFirst

QueueInv == RowsInv /\ Ordered

\* The rows of a conversation are ordered in every reachable state, however
\* their admissions overlap.
THEOREM QueueInvariance == Spec => []QueueInv
<1>1. Init => QueueInv
  <2>1. Init => Ordered
    BY DEF Init, Ordered, EmptyRow
  <2>2. QED
    BY <2>1, RowsInit DEF QueueInv
<1>2. QueueInv /\ [Next]_vars => QueueInv'
  BY RowsStep, EveryStepMoves, OrderStep DEF QueueInv, RowsInv
<1>3. QED
  BY <1>1, <1>2, PTL DEF Spec

\* A turn starts before an older request of its conversation is over in one way
\* only: the older row is inserted after the turn has started.  No lease, no
\* admission of a Mac, no lapse, hand-back or takeover does it.
THEOREM TurnsInOrder == Spec => [][OldestFirst => OldestFirst' \/ LateRow]_vars
<1>1. QueueInv /\ [Next]_vars => [OldestFirst => OldestFirst' \/ LateRow]_vars
  BY EveryStepMoves, OldestFirstStep DEF QueueInv, RowsInv
<1>2. QED
  BY <1>1, QueueInvariance, PTL DEF Spec

\* Of two turns of a conversation that have started one is the older, and it is
\* active.
LEMMA OrderGivesOneTurn == QueueInv /\ OldestFirst => OneTurn
<1> SUFFICES ASSUME QueueInv, OldestFirst, NEW r \in Runs, NEW s \in Runs,
                    QueueOf[r] = QueueOf[s], Started(r), Started(s), r # s
             PROVE  FALSE
  BY DEF OneTurn
<1>1. IsActive(r) /\ IsActive(s)
  BY DEF Started, IsActive, IsHeld, Held
<1>2. run[r].status # "absent" /\ run[s].status # "absent"
  BY DEF Started
<1>3. s \in older[r] \/ r \in older[s]
  BY <1>2 DEF QueueInv, Ordered
<1>4. QED
  BY <1>1, <1>3 DEF OldestFirst

\* So a conversation runs one turn at a time, or a row was inserted before one
\* that had started: there is no other way to two turns.
THEOREM OneTurnAtATime == Spec => []OneTurn \/ <><<LateRow>>_vars
<1>1. Init => OldestFirst
  BY DEF Init, OldestFirst
<1>2. OldestFirst /\ [OldestFirst => OldestFirst' \/ LateRow]_vars /\ [~LateRow]_vars
        => OldestFirst'
  BY DEF vars, OldestFirst, Started, IsActive, IsHeld
<1>3. QED
  BY <1>1, <1>2, TurnsInOrder, QueueInvariance, OrderGivesOneTurn, PTL DEF Spec

\* Admissions that do not overlap insert no such row.
LEMMA SerialRowsAreLast ==
  ASSUME SerialAdmission, TypeOK, GoodRows, RowsChange
  PROVE  ~LateRow
<1> SUFFICES ASSUME NEW r \in Runs, Started(r), older'[r] # older[r] PROVE FALSE
  BY DEF LateRow
<1>1. PICK q \in Runs : Born(q) /\ Placed(q)
  BY DEF RowsChange
<1>2. q # r
  BY <1>1 DEF Born, Started
<1>3. QED
  BY <1>1, <1>2 DEF Placed

\* When the admissions of a conversation do not overlap, its turns start in the
\* order of the requests, one at a time.
THEOREM SerialTurns ==
  ASSUME SerialAdmission
  PROVE  Spec => [](OldestFirst /\ OneTurn)
<1>1. Init => OldestFirst
  BY DEF Init, OldestFirst
<1>2. QueueInv /\ OldestFirst /\ [Next]_vars => OldestFirst'
  BY EveryStepMoves, OldestFirstStep, SerialRowsAreLast DEF QueueInv, RowsInv
<1>3. QED
  BY <1>1, <1>2, QueueInvariance, OrderGivesOneTurn, PTL DEF Spec

-----------------------------------------------------------------------------
(* The fence around a publication.                                         *)

Ending == {"completing", "failing"}

\* A working runner's run exists, and a publishing runner holds it or it ended.
Fenced ==
  /\ \A w \in Runners : work[w].at # "idle" => run[work[w].run].status # "absent"
  /\ PublishingIsFenced

\* A runner leases a run, goes on with it, starts to publish while it holds it,
\* or is idle; the rows stay as they are when it starts to publish.
WorkChange ==
  \A w \in Runners :
    \/ work'[w] = work[w]
    \/ work'[w].at = "idle"
    \/ /\ work'[w].at \notin Ending
       /\ run'[work'[w].run].status # "absent"
    \/ /\ work[w].at # "idle" /\ work'[w].run = work[w].run
       /\ HoldsRun(w, work[w].run) /\ UNCHANGED run

\* In every step.
LEMMA EveryStepWorks == RowsInv /\ Fenced /\ [Next]_vars => WorkChange
<1> SUFFICES ASSUME RowsInv, Fenced, [Next]_vars PROVE WorkChange
  OBVIOUS
<1> TypeOK /\ GoodRows /\ RowsChange
  BY EveryStepMoves DEF RowsInv
<1>1. \A s \in Runs : run[s].status # "absent" => run'[s].status # "absent"
  BY RowsStayGood
<1>2. CASE UNCHANGED work
  BY <1>2 DEF WorkChange
<1>3. ASSUME NEW w \in Runners, NEW r \in Runs, RunnerLease(w, r)
      PROVE  WorkChange
  <2>1. run[r].status # "absent"
    BY <1>3 DEF RunnerLease, Eligible, IsHeld, Held
  <2>2. /\ work'[w] = [at |-> "leasing", run |-> r]
        /\ \A v \in Runners \ {w} : work'[v] = work[v]
    BY <1>3 DEF RunnerLease, TypeOK
  <2>3. QED
    BY <1>1, <2>1, <2>2 DEF WorkChange, Ending
<1>4. ASSUME NEW w \in Runners, RunnerAnswer(w)
      PROVE  WorkChange
  <2>1. work[w].run \in Runs /\ work[w].at # "idle"
    BY <1>4, WorkHasRun DEF RunnerAnswer
  <2>2. /\ \/ work'[w].at = "idle"
           \/ work'[w].at \notin Ending /\ work'[w].run = work[w].run
        /\ \A v \in Runners \ {w} : work'[v] = work[v]
    BY <1>4, <2>1 DEF RunnerAnswer, TypeOK, Ending, Work, Steps, Idle
  <2>3. QED
    BY <1>1, <2>1, <2>2 DEF WorkChange, Fenced
<1>5. ASSUME NEW w \in Runners, AcknowledgeStop(w)
      PROVE  WorkChange
  <2>1. work[w].run \in Runs /\ work[w].at # "idle"
    BY <1>5, WorkHasRun DEF AcknowledgeStop
  <2>2. /\ \/ work'[w].at = "idle"
           \/ work'[w].at \notin Ending /\ work'[w].run = work[w].run
        /\ \A v \in Runners \ {w} : work'[v] = work[v]
    BY <1>5, <2>1 DEF AcknowledgeStop, TypeOK, Ending, Work, Steps, Idle
  <2>3. QED
    BY <1>1, <2>1, <2>2 DEF WorkChange, Fenced
<1>6. ASSUME NEW w \in Runners, NoStopYet(w)
      PROVE  WorkChange
  <2>1. work[w].run \in Runs /\ work[w].at # "idle"
    BY <1>6, WorkHasRun DEF NoStopYet
  <2>2. /\ \/ work'[w].at = "idle"
           \/ work'[w].at \notin Ending /\ work'[w].run = work[w].run
        /\ \A v \in Runners \ {w} : work'[v] = work[v]
    BY <1>6, <2>1 DEF NoStopYet, TypeOK, Ending, Work, Steps
  <2>3. QED
    BY <1>1, <2>1, <2>2 DEF WorkChange, Fenced
<1>7. ASSUME NEW w \in Runners, MarkRunning(w)
      PROVE  WorkChange
  <2>1. work[w].run \in Runs /\ work[w].at # "idle"
    BY <1>7, WorkHasRun DEF MarkRunning
  <2>2. /\ \/ work'[w].at = "idle"
           \/ work'[w].at \notin Ending /\ work'[w].run = work[w].run
        /\ \A v \in Runners \ {w} : work'[v] = work[v]
    BY <1>7, <2>1 DEF MarkRunning, TypeOK, Ending, Work, Steps, Idle
  <2>3. QED
    BY <1>1, <2>1, <2>2 DEF WorkChange, Fenced
<1>8. ASSUME NEW w \in Runners, NEW at \in Ending, BeginEnding(w, at)
      PROVE  WorkChange
  <2>1. /\ work[w].at # "idle" /\ work'[w].run = work[w].run
        /\ \A v \in Runners \ {w} : work'[v] = work[v]
    BY <1>8 DEF BeginEnding, TypeOK, Work, Idle
  <2>2. QED
    BY <1>8, <2>1 DEF WorkChange, BeginEnding
<1>9. ASSUME NEW w \in Runners, CommitEnding(w) \/ RunnerGone(w)
      PROVE  WorkChange
  <2>1. /\ work'[w].at = "idle"
        /\ \A v \in Runners \ {w} : work'[v] = work[v]
    BY <1>9 DEF CommitEnding, RunnerGone, TypeOK, Idle
  <2>2. QED
    BY <2>1 DEF WorkChange
<1>10. CASE AdmissionNext
  BY <1>2, <1>10 DEF AdmissionNext, BeginAdmission, Insert, AdmissionLost, AdmissionDropped,
     TakeExisting, ReleaseToCloud, RowsOnly
<1>11. CASE DesktopNext
  BY <1>2, <1>11 DEF DesktopNext, Admit, PublishProgress, DesktopCancel, HandBack,
     ReportInterrupted, EndInterrupted, RowsOnly
<1>12. CASE ServerNext
  BY <1>2, <1>12 DEF ServerNext, StopEnds, StopMisses, StopAnswers, Restrict, SavePrivate, EndOthers, Permit,
     ReleaseStopped, ReleaseAnswered, ReleaseLost, RowsOnly
<1>13. CASE TimeNext
  BY <1>2, <1>13 DEF TimeNext, LeaseLapses, LeaseLost, HoldEnds, RowsOnly
<1>14. CASE RunnerNext
  BY <1>3, <1>4, <1>5, <1>6, <1>7, <1>8, <1>9, <1>14 DEF RunnerNext, Ending
<1>15. QED
  BY <1>2, <1>10, <1>11, <1>12, <1>13, <1>14 DEF Next, vars

\* A move takes a run from the runner that holds it only by ending it or by a
\* takeover of its lapsed lease.
LEMMA MoveKeepsHolder ==
  ASSUME TypeOK, NEW w \in Runners, NEW r \in Runs, HoldsRun(w, r), Move(r),
         ~MovesToCloud(r), IsActive(r)'
  PROVE  HoldsRun(w, r)'
<1> run[r] \in Row /\ IsHeld(r) /\ run[r].claimedBy = w
  BY DEF TypeOK, HoldsRun
<1>1. ~MovesToMac(r) /\ ~LosesHold(r)
  BY DEF MovesToMac, LosesHold, IsHeld, Held
<1>2. ~Returns(r)
  BY IdentityAssumption DEF Returns, HoldsRun
<1>3. CASE Starts(r)
  <2>1. run'[r] = WithStatus(run[r], "running")
    BY <1>3 DEF Starts, Writes, TypeOK
  <2>2. QED
    BY <2>1, WithStatusFacts DEF HoldsRun, IsHeld, IsActive, Held, Ended
<1>4. CASE Continues(r)
  <2>1. run'[r] = WithStatus(run[r], run[r].status)
    BY <1>4 DEF Continues, Writes, TypeOK
  <2>2. QED
    BY <2>1, WithStatusFacts DEF HoldsRun, IsHeld, IsActive, Held, Ended
<1>5. CASE IsAsked(r)
  <2>1. run'[r] = Asked(run[r])
    BY <1>5 DEF IsAsked, Writes, TypeOK
  <2>2. QED
    BY <2>1, AskedFacts DEF HoldsRun, IsHeld, IsActive, Held, Ended
<1>6. CASE Ages(r)
  <2>1. PICK lease \in {"lapsed", "lost"} : Writes(r, WithLease(run[r], lease))
    BY <1>6 DEF Ages
  <2>2. run'[r] = WithLease(run[r], lease)
    BY <2>1 DEF Writes, TypeOK
  <2>3. QED
    BY <2>2, WithLeaseFacts DEF HoldsRun, IsHeld
<1>7. CASE IsWithdrawn(r)
  <2>1. run'[r] = Withdrawn(run[r])
    BY <1>7 DEF IsWithdrawn, Writes, TypeOK
  <2>2. QED
    BY <2>1, WithdrawnFacts DEF HoldsRun, IsHeld, IsActive, Held, Ended
<1>8. CASE Ends(r)
  <2>1. PICK row \in Row : Writes(r, row) /\ row.status \in Ended
    BY <1>8, EndsWritesEnded
  <2>2. QED
    BY <2>1 DEF Writes, TypeOK, IsActive, IsHeld, Held, Ended
<1>9. QED
  BY <1>1, <1>2, <1>3, <1>4, <1>5, <1>6, <1>7, <1>8 DEF Move

\* Every step keeps the fence.
LEMMA FenceStep == RowsInv /\ Fenced /\ [Next]_vars => Fenced'
<1> SUFFICES ASSUME RowsInv, Fenced, [Next]_vars PROVE Fenced'
  OBVIOUS
<1> TypeOK /\ GoodRows /\ RowsChange /\ WorkChange
  BY EveryStepMoves, EveryStepWorks DEF RowsInv
<1>1. \A s \in Runs :
        \/ run'[s] = run[s]
        \/ run'[s].status # "absent" /\ (IsActive(s) \/ Born(s))
  BY RowsStayGood
<1>2. ASSUME NEW w \in Runners, work'[w].at # "idle"
      PROVE  run'[work'[w].run].status # "absent"
  <2>1. CASE work'[w] = work[w]
    BY <1>1, <1>2, <2>1, WorkHasRun DEF Fenced
  <2>2. CASE work[w].at # "idle" /\ work'[w].run = work[w].run
    BY <1>1, <2>2, WorkHasRun DEF Fenced
  <2>3. QED
    BY <1>2, <2>1, <2>2 DEF WorkChange
<1>3. ASSUME NEW w \in Runners, work'[w].at \in Ending,
             NEW r \in Runs, r = work'[w].run, IsActive(r)'
      PROVE  HoldsRun(w, r)'
  <2>1. CASE HoldsRun(w, work[w].run) /\ work'[w].run = work[w].run /\ UNCHANGED run
    BY <1>3, <2>1 DEF HoldsRun, IsHeld
  <2>2. CASE work'[w] = work[w]
    <3>1. r = work[w].run /\ work[w].at \in Ending /\ run[r].status # "absent"
      BY <1>3, <2>2 DEF Fenced, Ending
    <3>2. IsActive(r)
      BY <1>1, <1>3, <3>1 DEF Born, IsActive, IsHeld
    <3>3. HoldsRun(w, r)
      BY <3>1, <3>2 DEF Fenced, PublishingIsFenced, Ending
    <3>4. ~MovesToCloud(r)
      BY <3>1 DEF MovesToCloud, SessionLocked, Ending
    <3>5. CASE run'[r] = run[r]
      BY <3>3, <3>5 DEF HoldsRun, IsHeld
    <3>6. ASSUME NEW q \in Runs, Move(q) \/ Born(q), run'[r] # run[r]
          PROVE  HoldsRun(w, r)'
      <4>1. q = r
        <5>1. PICK row \in Row : Writes(q, row)
          BY <3>6, MoveWritesGoodRow
        <5>2. QED
          BY <3>6, <5>1 DEF Writes, TypeOK
      <4>2. ~Born(r)
        BY <3>1 DEF Born
      <4>3. QED
        BY <1>3, <3>3, <3>4, <3>6, <4>1, <4>2, MoveKeepsHolder
    <3>7. QED
      BY <3>5, <3>6 DEF RowsChange
  <2>3. QED
    BY <1>3, <2>1, <2>2 DEF WorkChange, Ending
<1>4. TypeOK'
  BY RowsStep DEF RowsInv
<1>5. \A w \in Runners : work'[w].at \in Ending => work'[w].run \in Runs
  BY <1>4 DEF TypeOK, Work, Idle, Ending
<1>6. QED
  BY <1>2, <1>3, <1>5 DEF Fenced, PublishingIsFenced, Ending

\* While a runner publishes its reply nobody else holds the run.
THEOREM PublicationIsFenced == Spec => []PublishingIsFenced
<1>1. Init => RowsInv /\ Fenced
  <2>1. Init => Fenced
    BY DEF Init, Fenced, PublishingIsFenced, Idle
  <2>2. QED
    BY <2>1, RowsInit
<1>2. RowsInv /\ Fenced /\ [Next]_vars => (RowsInv /\ Fenced)'
  BY RowsStep, FenceStep
<1>3. RowsInv /\ Fenced => PublishingIsFenced
  BY DEF Fenced
<1>4. QED
  BY <1>1, <1>2, <1>3, PTL DEF Spec

=============================================================================
