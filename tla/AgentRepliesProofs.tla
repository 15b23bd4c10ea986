-------------------------- MODULE AgentRepliesProofs --------------------------
(***************************************************************************)
(* Proofs about the replies published beside the runs.  Every step of      *)
(* AgentReplies is a step of AgentRuns or leaves its rows alone, so what   *)
(* was proved there of the rows and of the fence around a publication      *)
(* holds here; WritingInv and AnsweredInv say what a publication under way *)
(* and a runner that has published know of the run.                        *)
(***************************************************************************)
EXTENDS AgentReplies, RunContractProofs

\* A publication under way was asked for by a run that had ended.
WritingInv ==
  \A p \in writing :
    run[p.run].status \in Ended /\ p.state = DeliveryState(run[p.run].status)

\* A runner that has published its reply and holds its run finds it unchanged.
AnsweredInv ==
  \A w \in answered :
    /\ work[w].at \in Ending
    /\ HoldsRun(w, work[w].run) =>
         reply[work[w].run] = DeliveryState(EndStatus(work[w].at))

RepliesInv ==
  /\ RowsInv /\ Fenced
  /\ RepliesTypeOK /\ WritingInv /\ AnsweredInv /\ CancelledReplyIsFinal

-----------------------------------------------------------------------------
LEMMA Deliveries ==
  /\ \A status \in Ended : DeliveryState(status) \in Terminal
  /\ \A state \in Terminal : StatusForReply(state) \in Ended
  /\ \A status \in Ended : DeliveryState(status) = "cancelled" => status = "cancelled"
  /\ \A at \in Ending : EndStatus(at) \in Ended /\ EndStatus(at) # "cancelled"
  /\ "processing" \notin Terminal /\ "none" \notin Terminal
BY DEF DeliveryState, StatusForReply, EndStatus, Ended, Ending, Terminal

LEMMA EndingHasRun ==
  ASSUME TypeOK, NEW w \in Runners, work[w].at # "idle"
  PROVE  work[w].run \in Runs
BY WorkHasRun

\* The steps that leave the reply, the publications and the completions alone.
Apart == UNCHANGED <<reply, answered>> /\ writing' \subseteq writing

\* A reply is written by a publication, by a runner that completes or fails,
\* and by the Mac that holds the run.
ReplySteps ==
  \/ Apart
  \/ \E x \in due : CheckReply(x)
  \/ \E p \in writing : WriteReply(p)
  \/ \E w \in Runners, at \in Ending : PublishEnding(w, at)
  \/ \E w \in Runners : CommitAnswer(w) \/ RunnerDropsOut(w)
  \/ \E d \in Desktops, r \in Runs, phase \in Held \cup Ended : PublishIntoReply(d, r, phase)

\* Every step is a step of AgentRuns or leaves its rows, and leaves the work of
\* a runner that publishes to that runner.
RunSteps ==
  /\ [Next]_vars
  /\ \A w \in Runners :
       work[w].at \in Ending => \/ work'[w] = work[w]
                                \/ CommitAnswer(w) \/ RunnerDropsOut(w)

AskTypes == due' \subseteq due \cup [run : Runs, reported : BOOLEAN] /\ past' = past

LEMMA Asks ==
  ASSUME NEW r \in Runs, NEW reported \in BOOLEAN, Ask(r, reported)
  PROVE  Apart /\ AskTypes /\ UNCHANGED postVars
BY DEF Ask, Apart, AskTypes, postVars

LEMMA AsksNothing ==
  ASSUME UNCHANGED replyVars
  PROVE  Apart /\ AskTypes /\ UNCHANGED postVars
BY DEF replyVars, Apart, AskTypes

LEMMA KeepsWork ==
  ASSUME Next, \A w \in Runners : work[w].at \in Ending => work'[w] = work[w]
  PROVE  RunSteps
BY DEF RunSteps

LEMMA EndsAndAsksSteps ==
  ASSUME TypeOK, EndsAndAsks
  PROVE  RunSteps /\ Apart /\ AskTypes /\ UNCHANGED postVars
<1>1. ASSUME NEW r \in Runs, StopEnds(r) \/ ReleaseStopped(r), Ask(r, FALSE)
      PROVE  RunSteps /\ Apart /\ AskTypes /\ UNCHANGED postVars
  <2>1. Next
    BY <1>1 DEF Next, ServerNext
  <2>2. UNCHANGED work
    BY <1>1 DEF StopEnds, ReleaseStopped, RowsOnly
  <2> QED
    BY <1>1, <2>1, <2>2, KeepsWork, Asks, AsksNothing
<1>2. ASSUME NEW r \in Runs, Restrict(r) \/ EndOthers(r),
             IF IsActive(r) THEN Ask(r, TRUE) ELSE UNCHANGED replyVars
      PROVE  RunSteps /\ Apart /\ AskTypes /\ UNCHANGED postVars
  <2>1. Next
    BY <1>2 DEF Next, ServerNext
  <2>2. UNCHANGED work
    BY <1>2 DEF Restrict, EndOthers
  <2> QED
    BY <1>2, <2>1, <2>2, KeepsWork, Asks, AsksNothing
<1>3. ASSUME NEW d \in Desktops, NEW r \in Runs, DesktopCancel(d, r), Ask(r, FALSE)
      PROVE  RunSteps /\ Apart /\ AskTypes /\ UNCHANGED postVars
  <2>1. Next
    BY <1>3 DEF Next, DesktopNext
  <2>2. UNCHANGED work
    BY <1>3 DEF DesktopCancel, RowsOnly
  <2> QED
    BY <1>3, <2>1, <2>2, KeepsWork, Asks, AsksNothing
<1>4. ASSUME NEW w \in Runners, AcknowledgeStop(w), Ask(work[w].run, FALSE)
      PROVE  RunSteps /\ Apart /\ AskTypes /\ UNCHANGED postVars
  <2>1. Next
    BY <1>4 DEF Next, RunnerNext
  <2>2. work[w].at \in {"leased", "running"} /\ work[w].run \in Runs
    BY <1>4, EndingHasRun DEF AcknowledgeStop
  <2>3. \A v \in Runners : work[v].at \in Ending => work'[v] = work[v]
    <3>1. \A v \in Runners : v # w => work'[v] = work[v]
      BY <1>4 DEF AcknowledgeStop, TypeOK
    <3> QED
      BY <2>2, <3>1 DEF Ending
  <2> QED
    BY <1>4, <2>1, <2>2, <2>3, KeepsWork, Asks, AsksNothing
<1>5. ASSUME NEW w \in Runners, RunnerAnswer(w),
             IF work[w].run \in barred /\ IsHeld(work[w].run)
               THEN Ask(work[w].run, TRUE) ELSE UNCHANGED replyVars
      PROVE  RunSteps /\ Apart /\ AskTypes /\ UNCHANGED postVars
  <2>1. Next
    BY <1>5 DEF Next, RunnerNext
  <2>2. work[w].at \in {"leasing", "started", "beaten"} /\ work[w].run \in Runs
    BY <1>5, EndingHasRun DEF RunnerAnswer
  <2>3. \A v \in Runners : work[v].at \in Ending => work'[v] = work[v]
    <3>1. \A v \in Runners : v # w => work'[v] = work[v]
      BY <1>5 DEF RunnerAnswer, TypeOK
    <3> QED
      BY <2>2, <3>1 DEF Ending
  <2> QED
    BY <1>5, <2>1, <2>2, <2>3, KeepsWork, Asks, AsksNothing
<1>6. ASSUME NEW dev \in Devices, NEW r \in Runs, NEW status \in Ended,
             NEW stopped \in BOOLEAN, NEW reported \in BOOLEAN,
             EndInterrupted(dev, r, status, stopped), Ask(r, reported)
      PROVE  RunSteps /\ Apart /\ AskTypes /\ UNCHANGED postVars
  <2>1. Next
    BY <1>6 DEF Next, DesktopNext
  <2>2. UNCHANGED work
    BY <1>6 DEF EndInterrupted
  <2> QED
    BY <1>6, <2>1, <2>2, KeepsWork, Asks, AsksNothing
<1> QED
  BY <1>1, <1>2, <1>3, <1>4, <1>5, <1>6 DEF EndsAndAsks

LEMMA QuietSteps ==
  ASSUME TypeOK, QuietNext
  PROVE  RunSteps
<1>1. Next
  BY DEF QuietNext, Next, RunnerNext, DesktopNext, ServerNext
<1>2. CASE UNCHANGED work
  BY <1>1, <1>2 DEF RunSteps
<1>3. ASSUME NEW w \in Runners, work[w].at \notin Ending,
             \A v \in Runners : v # w => work'[v] = work[v]
      PROVE  RunSteps
  BY <1>1, <1>3 DEF RunSteps
<1>4. ASSUME NEW w \in Runners, NEW r \in Runs, RunnerLease(w, r) PROVE RunSteps
  <2>1. work[w].at \notin Ending
    BY <1>4 DEF RunnerLease, Idle, Ending
  <2>2. \A v \in Runners : v # w => work'[v] = work[v]
    BY <1>4 DEF RunnerLease, TypeOK
  <2> QED
    BY <1>3, <2>1, <2>2
<1>5. ASSUME NEW w \in Runners, NoStopYet(w) \/ MarkRunning(w) PROVE RunSteps
  <2>1. work[w].at \notin Ending
    BY <1>5 DEF NoStopYet, MarkRunning, Ending
  <2>2. \A v \in Runners : v # w => work'[v] = work[v]
    BY <1>5 DEF NoStopYet, MarkRunning, TypeOK
  <2> QED
    BY <1>3, <2>1, <2>2
<1>6. ASSUME NEW w \in Runners, NEW at \in {"completing", "failing"}, BeginEnding(w, at)
      PROVE  RunSteps
  <2>1. work[w].at \notin Ending
    BY <1>6 DEF BeginEnding, Ending
  <2>2. \A v \in Runners : v # w => work'[v] = work[v]
    BY <1>6 DEF BeginEnding, TypeOK
  <2> QED
    BY <1>3, <2>1, <2>2
<1>7. CASE AdmissionNext
  <2>1. UNCHANGED work
    BY <1>7 DEF AdmissionNext, BeginAdmission, Insert, AdmissionLost, AdmissionDropped,
       TakeExisting, ReleaseToCloud, RowsOnly
  <2> QED
    BY <1>2, <2>1
<1>8. CASE TimeNext
  <2>1. UNCHANGED work
    BY <1>8 DEF TimeNext, LeaseLapses, LeaseLost, HoldEnds, RowsOnly
  <2> QED
    BY <1>2, <2>1
<1>9. ASSUME NEW d \in Desktops, NEW r \in Runs, Admit(d, r) \/ HandBack(d, r) PROVE RunSteps
  BY <1>2, <1>9 DEF Admit, HandBack, RowsOnly
<1>10. ASSUME NEW dev \in Devices, NEW r \in Runs, ReportInterrupted(dev, r) PROVE RunSteps
  BY <1>2, <1>10 DEF ReportInterrupted
<1>11. ASSUME NEW r \in Runs, StopMisses(r) \/ SavePrivate(r) \/ Permit(r) \/ ReleaseLost(r)
       PROVE  RunSteps
  BY <1>2, <1>11 DEF StopMisses, SavePrivate, Permit, ReleaseLost, RowsOnly
<1> QED
  BY <1>4, <1>5, <1>6, <1>7, <1>8, <1>9, <1>10, <1>11 DEF QuietNext

LEMMA PostsSteps ==
  ASSUME TypeOK, PostsNext
  PROVE  RunSteps /\ Apart /\ due' = due
<1>1. PICK r \in Runs : \/ StopFindsEnded(r) \/ StopAnswersCaller(r) \/ StopEndsReply(r)
                        \/ EndAbandoned(r) \/ PostOwnAnswer(r)
  BY DEF PostsNext
<1>2. [Next]_vars
  BY <1>1 DEF StopFindsEnded, StopAnswersCaller, StopEndsReply, EndAbandoned, PostOwnAnswer,
     Next, ServerNext
<1>3. UNCHANGED work
  BY <1>1 DEF StopFindsEnded, StopAnswersCaller, StopAnswers, StopEndsReply, EndAbandoned,
     PostOwnAnswer, vars
<1>4. UNCHANGED <<reply, answered, writing, due>>
  BY <1>1 DEF StopFindsEnded, StopAnswersCaller, StopEndsReply, EndAbandoned, PostOwnAnswer
<1> QED
  BY <1>2, <1>3, <1>4 DEF RunSteps, Apart

\* The reply that is written is one of a run that ended, or progress.
LEMMA EveryStepPublishes ==
  ASSUME TypeOK, [RepliesNext]_allVars
  PROVE  RunSteps /\ ReplySteps
<1>1. CASE UNCHANGED allVars
  BY <1>1 DEF allVars, replyVars, vars, RunSteps, ReplySteps, Apart
<1>2. CASE QuietNext /\ UNCHANGED replyVars
  BY <1>2, QuietSteps DEF ReplySteps, Apart, replyVars
<1>3. CASE EndsAndAsks
  BY <1>3, EndsAndAsksSteps DEF ReplySteps
<1>4. ASSUME NEW x \in due, CheckReply(x) PROVE RunSteps /\ ReplySteps
  BY <1>4 DEF CheckReply, vars, RunSteps, ReplySteps
<1>5. ASSUME NEW p \in writing, WriteReply(p) PROVE RunSteps /\ ReplySteps
  BY <1>5 DEF WriteReply, vars, RunSteps, ReplySteps
<1>6. CASE PublicationLost
  BY <1>6 DEF PublicationLost, vars, RunSteps, ReplySteps, Apart
<1>7. CASE PostsNext
  BY <1>7, PostsSteps DEF ReplySteps
<1>8. ASSUME NEW r \in Runs, Backfill(r) PROVE RunSteps /\ ReplySteps
  BY <1>8, Asks DEF Backfill, vars, RunSteps, ReplySteps
<1>13. ASSUME NEW r \in Runs, WindowCloses(r) PROVE RunSteps /\ ReplySteps
  BY <1>13 DEF WindowCloses, vars, RunSteps, ReplySteps, Apart
<1>9. ASSUME NEW r \in Runs, ReleaseWithReply(r) PROVE RunSteps /\ ReplySteps
  <2>1. PICK state \in ReplyStates(r) : ReleaseAnswered(r, StatusForReply(state))
    BY <1>9 DEF ReleaseWithReply
  <2>2. state \in Terminal
    BY <2>1 DEF ReplyStates, Terminal
  <2>3. Next
    BY <2>1, <2>2, Deliveries DEF Next, ServerNext
  <2>4. UNCHANGED work
    BY <2>1 DEF ReleaseAnswered, RowsOnly
  <2> QED
    BY <1>9, <2>3, <2>4, KeepsWork, AsksNothing DEF ReleaseWithReply, ReplySteps
<1>10. ASSUME NEW w \in Runners, PublishAnswer(w) \/ PublishFailure(w)
       PROVE  RunSteps /\ ReplySteps
  <2>1. \E at \in Ending : PublishEnding(w, at)
    BY <1>10 DEF PublishAnswer, PublishFailure, Ending
  <2>2. UNCHANGED vars
    BY <2>1 DEF PublishEnding
  <2> QED
    BY <2>1, <2>2 DEF vars, RunSteps, ReplySteps
<1>11. ASSUME NEW w \in Runners, CommitAnswer(w) \/ RunnerDropsOut(w)
       PROVE  RunSteps /\ ReplySteps
  <2>1. Next
    BY <1>11 DEF CommitAnswer, RunnerDropsOut, Next, RunnerNext
  <2>2. \A v \in Runners : v # w => work'[v] = work[v]
    BY <1>11 DEF CommitAnswer, RunnerDropsOut, CommitEnding, RunnerGone, TypeOK
  <2>3. RunSteps
    BY <1>11, <2>1, <2>2 DEF RunSteps
  <2> QED
    BY <1>11, <2>3 DEF ReplySteps
<1>12. ASSUME NEW d \in Desktops, NEW r \in Runs, NEW phase \in Held \cup Ended,
              PublishIntoReply(d, r, phase)
       PROVE  RunSteps /\ ReplySteps
  <2>1. Next
    BY <1>12 DEF PublishIntoReply, Next, DesktopNext
  <2>2. UNCHANGED work
    BY <1>12 DEF PublishIntoReply, PublishProgress, RowsOnly
  <2> QED
    BY <1>12, <2>1, <2>2, KeepsWork DEF ReplySteps
<1> QED
  BY <1>1, <1>2, <1>3, <1>4, <1>5, <1>6, <1>7, <1>8, <1>9, <1>10, <1>11, <1>12,
     <1>13 DEF RepliesNext

-----------------------------------------------------------------------------
(* Types.                                                                  *)

\* The publications asked for and the devices' own posts keep their types.
LEMMA PostsKeepTypes ==
  ASSUME TypeOK, RepliesTypeOK, [RepliesNext]_allVars
  PROVE  /\ notice' \in [Runs -> {"none", "failed", "cancelled"}]
         /\ ownAnswer' \subseteq Runs /\ told' \subseteq Runs /\ past' \subseteq Runs
         /\ due' \subseteq [run : Runs, reported : BOOLEAN]
<1> DEFINE Goal == /\ notice' \in [Runs -> {"none", "failed", "cancelled"}]
                   /\ ownAnswer' \subseteq Runs /\ told' \subseteq Runs
                   /\ past' \subseteq Runs
                   /\ due' \subseteq [run : Runs, reported : BOOLEAN]
<1>1. CASE UNCHANGED postVars /\ AskTypes
  BY <1>1 DEF postVars, AskTypes, RepliesTypeOK
<1>2. CASE PostsNext
  <2>1. PICK r \in Runs : \/ StopFindsEnded(r) \/ StopAnswersCaller(r) \/ StopEndsReply(r)
                          \/ EndAbandoned(r) \/ PostOwnAnswer(r)
    BY <1>2 DEF PostsNext
  <2>2. /\ UNCHANGED <<due, past>>
        /\ told' \subseteq told \cup {r} /\ ownAnswer' \subseteq ownAnswer \cup {r}
    BY <2>1 DEF StopFindsEnded, StopAnswersCaller, StopEndsReply, EndAbandoned, PostOwnAnswer
  <2>3. CASE UNCHANGED notice
    BY <2>2, <2>3 DEF RepliesTypeOK
  <2>4. CASE StopEndsReply(r) \/ EndAbandoned(r)
    <3>1. notice' \in [Runs -> {"none", "failed", "cancelled"}]
      BY <2>4 DEF StopEndsReply, EndAbandoned, RepliesTypeOK
    <3> QED
      BY <2>2, <3>1 DEF RepliesTypeOK
  <2> QED
    BY <2>1, <2>3, <2>4 DEF StopFindsEnded, StopAnswersCaller, PostOwnAnswer
<1>3. CASE EndsAndAsks
  BY <1>1, <1>3, EndsAndAsksSteps
<1>4. CASE UNCHANGED replyVars
  BY <1>1, <1>4, AsksNothing
<1>5. ASSUME NEW r \in Runs, Backfill(r) PROVE Goal
  BY <1>1, <1>5, Asks DEF Backfill
<1>6. CASE UNCHANGED <<postVars, past>> /\ due' \subseteq due
  BY <1>1, <1>6 DEF AskTypes
<1>7. CASE PublicationLost \/ \E x \in due : CheckReply(x)
  BY <1>6, <1>7 DEF PublicationLost, CheckReply
<1>8. CASE \E p \in writing : WriteReply(p)
  BY <1>6, <1>8 DEF WriteReply
<1>9. ASSUME NEW w \in Runners, PublishAnswer(w) \/ PublishFailure(w) \/ CommitAnswer(w)
                                  \/ RunnerDropsOut(w)
      PROVE  Goal
  BY <1>6, <1>9 DEF PublishAnswer, PublishFailure, PublishEnding, CommitAnswer, RunnerDropsOut
<1>10. ASSUME NEW d \in Desktops, NEW r \in Runs, NEW phase \in Held \cup Ended,
              PublishIntoReply(d, r, phase)
       PROVE  Goal
  BY <1>6, <1>10 DEF PublishIntoReply
<1>11. CASE UNCHANGED allVars
  BY <1>4, <1>11 DEF allVars
<1>12. ASSUME NEW r \in Runs, ReleaseWithReply(r) PROVE Goal
  BY <1>4, <1>12 DEF ReleaseWithReply
<1>13. ASSUME NEW r \in Runs, WindowCloses(r) PROVE Goal
  BY <1>13 DEF WindowCloses, RepliesTypeOK, postVars
<1> QED
  BY <1>2, <1>3, <1>4, <1>5, <1>7, <1>8, <1>9, <1>10, <1>11, <1>12, <1>13 DEF RepliesNext

LEMMA ReplyTypes ==
  ASSUME TypeOK, RepliesTypeOK, ReplySteps
  PROVE  /\ reply' \in [Runs -> {"none", "processing"} \cup Terminal]
         /\ writing' \subseteq [run : Runs, state : Terminal]
         /\ answered' \subseteq Runners
<1> USE DEF RepliesTypeOK
<1>1. CASE Apart
  BY <1>1 DEF Apart
<1>2. ASSUME NEW x \in due, CheckReply(x)
      PROVE  /\ UNCHANGED <<reply, answered>>
             /\ writing' \subseteq [run : Runs, state : Terminal]
  <2>1. x.run \in Runs
    OBVIOUS
  <2>2. NeedsReply(x) => DeliveryState(run[x.run].status) \in Terminal
    <3>1. NeedsReply(x) => run[x.run].status \in Ended
      BY DEF NeedsReply, Ended
    <3> QED
      BY <3>1, Deliveries
  <2> QED
    BY <1>2, <2>1, <2>2 DEF CheckReply
<1>3. ASSUME NEW p \in writing, WriteReply(p)
      PROVE  /\ reply' \in [Runs -> {"none", "processing"} \cup Terminal]
             /\ writing' \subseteq writing /\ answered' = answered
  BY <1>3 DEF WriteReply
<1>4. ASSUME NEW w \in Runners, NEW at \in Ending, PublishEnding(w, at)
      PROVE  /\ reply' \in [Runs -> {"none", "processing"} \cup Terminal]
             /\ writing' = writing /\ answered' \subseteq Runners
  <2>1. DeliveryState(EndStatus(at)) \in Terminal
    BY Deliveries
  <2> QED
    BY <1>4, <2>1 DEF PublishEnding
<1>5. ASSUME NEW w \in Runners, CommitAnswer(w) \/ RunnerDropsOut(w)
      PROVE  UNCHANGED <<reply, writing>> /\ answered' \subseteq answered
  BY <1>5 DEF CommitAnswer, RunnerDropsOut
<1>6. ASSUME NEW d \in Desktops, NEW r \in Runs, NEW phase \in Held \cup Ended,
             PublishIntoReply(d, r, phase)
      PROVE  /\ reply' \in [Runs -> {"none", "processing"} \cup Terminal]
             /\ UNCHANGED <<writing, answered>>
  <2>1. phase \in Held \/ DeliveryState(phase) \in Terminal
    BY Deliveries
  <2> QED
    BY <1>6, <2>1 DEF PublishIntoReply
<1> QED
  BY <1>1, <1>2, <1>3, <1>4, <1>5, <1>6 DEF ReplySteps

-----------------------------------------------------------------------------
(* What the reply says.                                                    *)

\* A run that has ended stays as it is.
LEMMA EndedStays ==
  ASSUME RowsInv, [Next]_vars, NEW r \in Runs, run[r].status \in Ended
  PROVE  run'[r] = run[r]
<1>1. run'[r] = run[r] \/ IsActive(r) \/ Born(r)
  BY EveryStepMoves, RowsStayGood DEF RowsInv
<1> QED
  BY <1>1 DEF IsActive, IsHeld, Held, Ended, Born

\* A run that is active after a step was active before it, unless it is born.
LEMMA ActiveBefore ==
  ASSUME RowsInv, [Next]_vars, NEW r \in Runs, run[r].status # "absent", IsActive(r)'
  PROVE  IsActive(r)
<1>1. run'[r] = run[r] \/ IsActive(r) \/ Born(r)
  BY EveryStepMoves, RowsStayGood DEF RowsInv
<1> QED
  BY <1>1 DEF IsActive, IsHeld, Born

LEMMA WritingStep ==
  ASSUME RepliesInv, RunSteps, ReplySteps
  PROVE  WritingInv'
<1>1. \A p \in writing : p.run \in Runs /\ run'[p.run] = run[p.run]
  BY EndedStays DEF RepliesInv, RepliesTypeOK, WritingInv, RunSteps
<1>2. ASSUME writing' \subseteq writing PROVE WritingInv'
  BY <1>1, <1>2 DEF RepliesInv, WritingInv
<1>3. ASSUME NEW x \in due, CheckReply(x) PROVE WritingInv'
  <2>1. NeedsReply(x) => run[x.run].status \in Ended
    BY DEF NeedsReply, Ended
  <2>2. run' = run
    BY <1>3 DEF CheckReply, vars
  <2>3. \A p \in writing' :
          \/ p \in writing
          \/ /\ p = [run |-> x.run, state |-> DeliveryState(run[x.run].status)]
             /\ NeedsReply(x)
    BY <1>3 DEF CheckReply
  <2> QED
    BY <2>1, <2>2, <2>3 DEF RepliesInv, WritingInv
<1> QED
  BY <1>2, <1>3 DEF ReplySteps, Apart, WriteReply, PublishEnding, CommitAnswer, RunnerDropsOut,
     PublishIntoReply

LEMMA CancelledStep ==
  ASSUME RepliesInv, RunSteps, ReplySteps
  PROVE  CancelledReplyIsFinal'
<1> SUFFICES ASSUME NEW r \in Runs, reply'[r] = "cancelled"
             PROVE  run'[r].status = "cancelled"
  BY DEF CancelledReplyIsFinal
<1>1. reply \in [Runs -> {"none", "processing"} \cup Terminal] /\ run \in [Runs -> Row]
  BY DEF RepliesInv, RepliesTypeOK, RowsInv, TypeOK
<1>2. ASSUME reply'[r] = reply[r] PROVE run'[r].status = "cancelled"
  <2>1. run[r].status = "cancelled"
    BY <1>2 DEF RepliesInv, CancelledReplyIsFinal
  <2> QED
    BY <2>1, EndedStays DEF RepliesInv, RunSteps, Ended
<1>3. ASSUME NEW p \in writing, WriteReply(p) PROVE run'[r].status = "cancelled"
  <2>1. run' = run /\ reply' = [reply EXCEPT ![p.run] = p.state]
    BY <1>3 DEF WriteReply, vars
  <2>2. CASE r = p.run
    <3>1. p.state = "cancelled"
      BY <1>1, <2>1, <2>2
    <3>2. run[r].status \in Ended /\ DeliveryState(run[r].status) = "cancelled"
      BY <2>2, <3>1 DEF RepliesInv, WritingInv
    <3> QED
      BY <2>1, <3>2, Deliveries
  <2>3. CASE r # p.run
    BY <1>1, <1>2, <2>1, <2>3
  <2> QED
    BY <2>2, <2>3
<1>4. ASSUME NEW w \in Runners, NEW at \in Ending, PublishEnding(w, at)
      PROVE  run'[r].status = "cancelled"
  <2>1. DeliveryState(EndStatus(at)) # "cancelled"
    BY Deliveries
  <2>2. reply'[r] = reply[r]
    BY <1>1, <1>4, <2>1 DEF PublishEnding
  <2> QED
    BY <1>2, <2>2
<1>5. ASSUME NEW d \in Desktops, NEW q \in Runs, NEW phase \in Held \cup Ended,
             PublishIntoReply(d, q, phase)
      PROVE  run'[r].status = "cancelled"
  <2>1. CASE reply'[r] = reply[r]
    BY <1>2, <2>1
  <2>2. CASE reply'[r] # reply[r]
    <3>1. q = r /\ (phase \in Held \/ DeliveryState(phase) = "cancelled")
      BY <1>1, <1>5, <2>2 DEF PublishIntoReply
    <3>2. phase \notin Held
      BY <1>1, <1>5, <2>2, <3>1 DEF PublishIntoReply
    <3>3. phase = "cancelled"
      BY <3>1, <3>2, Deliveries
    <3>4. run'[r] = WithStatus(run[r], "cancelled")
      BY <1>1, <1>5, <3>1, <3>3 DEF PublishIntoReply, PublishProgress
    <3> QED
      BY <1>1, <3>4, WithStatusFacts DEF Ended
  <2> QED
    BY <2>1, <2>2
<1> QED
  BY <1>2, <1>3, <1>4, <1>5 DEF ReplySteps, Apart, CheckReply, CommitAnswer, RunnerDropsOut

\* Who holds a run after a step.
HoldsAfter(w, r) == run'[r].status \in Held /\ run'[r].claimedBy = w

\* A runner that publishes and holds its run after a step held it before.
LEMMA HeldBefore ==
  ASSUME RowsInv, Fenced, [Next]_vars,
         NEW w \in Runners, work[w].at \in Ending, HoldsAfter(w, work[w].run)
  PROVE  HoldsRun(w, work[w].run)
<1> DEFINE r == work[w].run
<1>1. r \in Runs /\ run[r].status # "absent"
  BY EndingHasRun DEF RowsInv, Fenced, Ending
<1>2. run'[r] = run[r] \/ IsActive(r) \/ Born(r)
  BY <1>1, EveryStepMoves, RowsStayGood DEF RowsInv
<1>3. IsActive(r)
  BY <1>1, <1>2 DEF HoldsAfter, Born, IsActive, IsHeld
<1> QED
  BY <1>3 DEF Fenced, PublishingIsFenced, Ending

\* Nobody else writes the reply of a run whose runner has published.
LEMMA AnswerStays ==
  ASSUME RepliesInv, ReplySteps,
         NEW w \in answered, HoldsRun(w, work[w].run)
  PROVE  w \in answered' => reply'[work[w].run] = reply[work[w].run]
<1> DEFINE r == work[w].run
<1>1. /\ TypeOK /\ Fenced /\ w \in Runners /\ work[w].at \in Ending /\ r \in Runs
      /\ reply \in [Runs -> {"none", "processing"} \cup Terminal]
  <2>1. TypeOK /\ w \in Runners /\ work[w].at \in Ending
    BY DEF RepliesInv, RepliesTypeOK, RowsInv, AnsweredInv
  <2> QED
    BY <2>1, EndingHasRun DEF RepliesInv, RepliesTypeOK, Ending
<1>2. run[r].status \in Held /\ run[r].claimedBy = w
  BY DEF HoldsRun, IsHeld
<1> HIDE DEF r
<1>3. ASSUME NEW p \in writing, WriteReply(p) PROVE reply'[r] = reply[r]
  <2>1. run[p.run].status \in Ended
    BY DEF RepliesInv, WritingInv
  <2>2. p.run # r
    BY <1>2, <2>1 DEF Held, Ended
  <2> QED
    BY <1>1, <1>3, <2>2 DEF WriteReply
<1>4. ASSUME NEW v \in Runners, NEW at \in Ending, PublishEnding(v, at)
      PROVE  reply'[r] = reply[r]
  <2>1. v # w /\ work[v].at \in Ending
    BY <1>4 DEF PublishEnding
  <2>2. work[v].run # r
    <3>1. ASSUME work[v].run = r PROVE HoldsRun(v, r)
      BY <1>1, <1>2, <2>1, <3>1 DEF Fenced, PublishingIsFenced, Ending, IsActive, IsHeld
    <3> QED
      BY <1>2, <2>1, <3>1 DEF HoldsRun
  <2> QED
    BY <1>1, <1>4, <2>2 DEF PublishEnding
<1>5. ASSUME NEW d \in Desktops, NEW q \in Runs, NEW phase \in Held \cup Ended,
             PublishIntoReply(d, q, phase)
      PROVE  reply'[r] = reply[r]
  <2>1. run[q].claimedBy = d
    BY <1>5 DEF PublishIntoReply, PublishProgress, HoldsLive, HoldsRun
  <2>2. q # r
    BY <1>1, <1>2, <2>1, IdentityAssumption
  <2> QED
    BY <1>1, <1>5, <2>2 DEF PublishIntoReply
<1>6. CASE reply' = reply
  BY <1>6 DEF r
<1> QED
  BY <1>3, <1>4, <1>5, <1>6 DEF r, ReplySteps, Apart, CheckReply, CommitAnswer, RunnerDropsOut

LEMMA AnsweredStep ==
  ASSUME RepliesInv, RunSteps, ReplySteps
  PROVE  AnsweredInv'
<1>1. /\ RowsInv /\ TypeOK /\ Fenced /\ AnsweredInv /\ [Next]_vars
      /\ reply \in [Runs -> {"none", "processing"} \cup Terminal] /\ answered \subseteq Runners
  BY DEF RepliesInv, RepliesTypeOK, RowsInv, RunSteps
<1> SUFFICES ASSUME NEW w \in answered'
             PROVE  /\ work'[w].at \in Ending
                    /\ HoldsAfter(w, work'[w].run) =>
                         reply'[work'[w].run] = DeliveryState(EndStatus(work'[w].at))
  BY DEF AnsweredInv, HoldsRun, IsHeld, HoldsAfter
<1>2. CASE w \in answered
  <2>1. w \in Runners /\ work[w].at \in Ending
    BY <1>1, <1>2 DEF AnsweredInv
  <2>2. work'[w] = work[w]
    BY <2>1 DEF RunSteps, CommitAnswer, RunnerDropsOut
  <2>3. CASE HoldsAfter(w, work[w].run)
    <3>1. HoldsRun(w, work[w].run)
      BY <1>1, <2>1, <2>3, HeldBefore
    <3>2. reply'[work[w].run] = reply[work[w].run]
      BY <1>2, <3>1, AnswerStays
    <3> QED
      BY <1>1, <1>2, <2>1, <2>2, <3>1, <3>2 DEF AnsweredInv
  <2>4. CASE ~HoldsAfter(w, work[w].run)
    BY <2>1, <2>2, <2>4
  <2> QED
    BY <2>3, <2>4
<1>3. CASE w \notin answered
  <2>1. PICK v \in Runners, at \in Ending : PublishEnding(v, at)
    BY <1>3 DEF ReplySteps, Apart, CheckReply, WriteReply, CommitAnswer, RunnerDropsOut,
       PublishIntoReply
  <2>2. v = w /\ work' = work /\ work[w].at = at
    BY <1>3, <2>1 DEF PublishEnding, vars
  <2>3. work[w].run \in Runs
    BY <1>1, <2>2, EndingHasRun DEF Ending
  <2>4. reply'[work[w].run] = DeliveryState(EndStatus(at))
    BY <1>1, <2>1, <2>2, <2>3 DEF PublishEnding
  <2> QED
    BY <2>2, <2>4
<1> QED
  BY <1>2, <1>3

-----------------------------------------------------------------------------
LEMMA RepliesInitInv == RepliesInit => RepliesInv
<1> SUFFICES ASSUME RepliesInit PROVE RepliesInv
  OBVIOUS
<1>1. RowsInv
  BY RowsInit DEF RepliesInit
<1>2. Fenced
  BY DEF RepliesInit, Init, Fenced, PublishingIsFenced, Idle
<1>3. RepliesTypeOK /\ WritingInv /\ AnsweredInv /\ CancelledReplyIsFinal
  BY DEF RepliesInit, RepliesTypeOK, WritingInv, AnsweredInv, CancelledReplyIsFinal
<1> QED
  BY <1>1, <1>2, <1>3 DEF RepliesInv

LEMMA RepliesStep == RepliesInv /\ [RepliesNext]_allVars => RepliesInv'
<1> SUFFICES ASSUME RepliesInv, [RepliesNext]_allVars PROVE RepliesInv'
  OBVIOUS
<1>1. TypeOK /\ RowsInv /\ Fenced /\ RepliesTypeOK
  BY DEF RepliesInv, RowsInv
<1>2. RunSteps /\ ReplySteps
  BY <1>1, EveryStepPublishes
<1>3. RowsInv' /\ Fenced'
  <2>1. [Next]_vars
    BY <1>2 DEF RunSteps
  <2> QED
    BY <1>1, <2>1, RowsStep, FenceStep
<1>4. RepliesTypeOK'
  BY <1>1, <1>2, PostsKeepTypes, ReplyTypes DEF RepliesTypeOK
<1>5. WritingInv' /\ AnsweredInv' /\ CancelledReplyIsFinal'
  BY <1>2, WritingStep, AnsweredStep, CancelledStep
<1> QED
  BY <1>3, <1>4, <1>5 DEF RepliesInv

LEMMA RepliesInvariance == RepliesSpec => []RepliesInv
<1>1. RepliesInit => RepliesInv
  BY RepliesInitInv
<1>2. RepliesInv /\ [RepliesNext]_allVars => RepliesInv'
  BY RepliesStep
<1> QED
  BY <1>1, <1>2, PTL DEF RepliesSpec

-----------------------------------------------------------------------------
\* With its publications the system still is the one AgentRuns describes: what
\* was proved of the rows there holds beside every reply.
THEOREM RepliesImplementRuns == RepliesSpec => Spec
<1>1. RepliesInit => Init
  BY DEF RepliesInit
<1>2. RepliesInv /\ [RepliesNext]_allVars => [Next]_vars
  BY EveryStepPublishes DEF RepliesInv, RowsInv, RunSteps
<1> QED
  BY <1>1, <1>2, RepliesInvariance, PTL DEF RepliesSpec, Spec

\* So publishing disturbs no handover.
THEOREM RepliesKeepContract == RepliesSpec => RunsKeepContract
BY RepliesImplementRuns, RunsImplementContract

\* The replies, the posts and the publications under way have their types.
THEOREM RepliesTypes == RepliesSpec => []RepliesTypeOK
<1>1. RepliesInv => RepliesTypeOK
  BY DEF RepliesInv
<1> QED
  BY <1>1, RepliesInvariance, PTL

\* The chat shows a request as stopped only when its run was cancelled, which
\* no executor can undo: the publication asked the row, and an ended row stays.
THEOREM CancelledIsFinal == RepliesSpec => []CancelledReplyIsFinal
<1>1. RepliesInv => CancelledReplyIsFinal
  BY DEF RepliesInv
<1> QED
  BY <1>1, RepliesInvariance, PTL

\* Progress is written by the Mac alone, and never over a terminal reply.
THEOREM NeverAgain == RepliesSpec => NeverProcessingAgain
<1>1. RepliesInv /\ [RepliesNext]_allVars =>
        [\A r \in Runs : reply[r] \in Terminal => reply'[r] # "processing"]_allVars
  <2> SUFFICES ASSUME RepliesInv, [RepliesNext]_allVars, NEW r \in Runs, reply[r] \in Terminal
               PROVE  reply'[r] # "processing"
    OBVIOUS
  <2>1. /\ TypeOK /\ RepliesTypeOK
        /\ reply \in [Runs -> {"none", "processing"} \cup Terminal]
    BY DEF RepliesInv, RowsInv, RepliesTypeOK
  <2>2. ReplySteps
    BY <2>1, EveryStepPublishes
  <2>3. CASE reply'[r] = reply[r]
    BY <2>3, Deliveries
  <2>4. ASSUME NEW p \in writing, WriteReply(p) PROVE reply'[r] # "processing"
    <3>1. p.state \in Terminal
      BY <2>1 DEF RepliesTypeOK
    <3> QED
      BY <2>1, <2>4, <3>1, Deliveries DEF WriteReply
  <2>5. ASSUME NEW w \in Runners, NEW at \in Ending, PublishEnding(w, at)
        PROVE  reply'[r] # "processing"
    <3>1. DeliveryState(EndStatus(at)) \in Terminal
      BY Deliveries
    <3> QED
      BY <2>1, <2>5, <3>1, Deliveries DEF PublishEnding
  <2>6. ASSUME NEW d \in Desktops, NEW q \in Runs, NEW phase \in Held \cup Ended,
               PublishIntoReply(d, q, phase)
        PROVE  reply'[r] = reply[r]
    BY <2>1, <2>6 DEF PublishIntoReply
  <2> QED
    BY <2>2, <2>3, <2>4, <2>5, <2>6 DEF ReplySteps, Apart, CheckReply, CommitAnswer,
       RunnerDropsOut
<1> QED
  BY <1>1, RepliesInvariance, PTL DEF RepliesSpec, NeverProcessingAgain

\* A runner's turn ends the run with the status its published reply shows: the
\* reply is written before, and nobody else can write it while the runner holds
\* the run (completion.rs).
THEOREM AnswersFirst == RepliesSpec => EndsWithItsReply
<1> DEFINE Step == \A w \in Runners :
       work[w].at \in {"completing", "failing"} /\ work'[w] = Idle =>
         LET r == work[w].run
         IN run'[r].status # run[r].status =>
              reply[r] = DeliveryState(run'[r].status)
<1>1. RepliesInv /\ [RepliesNext]_allVars => [Step]_allVars
  <2> SUFFICES ASSUME RepliesInv, [RepliesNext]_allVars, NEW w \in Runners,
                      work[w].at \in Ending, work'[w] = Idle,
                      run'[work[w].run].status # run[work[w].run].status
               PROVE  reply[work[w].run] = DeliveryState(run'[work[w].run].status)
    BY DEF Ending
  <2> DEFINE r == work[w].run
  <2>1. TypeOK /\ RunSteps /\ r \in Runs /\ run \in [Runs -> Row]
    <3>1. TypeOK
      BY DEF RepliesInv, RowsInv
    <3> QED
      BY <3>1, EveryStepPublishes, EndingHasRun DEF Ending, TypeOK
  <2>2. CommitAnswer(w)
    <3>1. work'[w] # work[w]
      BY DEF Idle, Ending
    <3>2. ~RunnerDropsOut(w)
      BY DEF RunnerDropsOut, RunnerGone
    <3> QED
      BY <2>1, <3>1, <3>2 DEF RunSteps
  <2>3. w \in answered /\ HoldsRun(w, r) /\ run'[r] = Closed(run[r], EndStatus(work[w].at))
    BY <2>1, <2>2 DEF CommitAnswer, CommitEnding
  <2>4. run'[r].status = EndStatus(work[w].at)
    BY <2>1, <2>3, ClosedFacts, Deliveries
  <2> QED
    BY <2>3, <2>4 DEF RepliesInv, AnsweredInv
<1> QED
  BY <1>1, RepliesInvariance, PTL DEF RepliesSpec, EndsWithItsReply
=============================================================================
