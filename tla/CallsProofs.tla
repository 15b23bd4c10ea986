----------------------------- MODULE CallsProofs -----------------------------
(***************************************************************************)
(* Proofs about the server's calls and the app that shows them.  Every     *)
(* operation of the server leaves the calls alone, adds one with its       *)
(* caller in it, or changes one that is open (Shape); its properties       *)
(* follow from these three cases, and those of the app from the revisions, *)
(* which only grow.                                                        *)
(***************************************************************************)
EXTENDS CallsApp, SequenceTheorems, TLAPS

Adds(row) == calls' = Append(calls, row) /\ Publish(Len(calls) + 1, row)

\* A row a handler may write: over, or with somebody in it.
Occupied(row) == row.state = "ended" \/ Joined(row) # {}

CallsStep ==
  \/ NoChange
  \/ \E row \in CallRows : Occupied(row) /\ Adds(row)
  \/ \E i \in OpenCalls, row \in CallRows : Occupied(row) /\ Change(i, row)

LEMMA RowTypes ==
  ASSUME CallsTypeOK, NEW i \in DOMAIN calls
  PROVE  /\ calls[i] \in CallRows
         /\ calls[i].part \in [Accounts -> ParticipantStates]
         /\ i \in 1..Len(calls)
<1>1. calls \in Seq(CallRows)
  BY DEF CallsTypeOK
<1>2. i \in 1..Len(calls) /\ calls[i] \in CallRows
  BY <1>1, ElementOfSeq, LenProperties
<1> QED
  BY <1>2 DEF CallRows

\* With one more account in, or everybody out, a row is still one.
LEMMA ChangedRows ==
  ASSUME NEW row \in CallRows, NEW a \in Accounts, NEW s \in ParticipantStates
  PROVE  /\ [row EXCEPT !.part[a] = s] \in CallRows
         /\ [row EXCEPT !.part[a] = s].part = [row.part EXCEPT ![a] = s]
         /\ [row EXCEPT !.part[a] = s].state = row.state
         /\ EveryoneLeaves(row) \in CallRows /\ EveryoneLeaves(row).state = "ended"
BY DEF CallRows, CallStates, ParticipantStates, EveryoneLeaves

LEMMA NewCalls ==
  ASSUME CallsTypeOK, NEW a \in Accounts
  PROVE  NewCall(a) \in CallRows /\ Occupied(NewCall(a))
<1>1. NewCall(a) \in CallRows
  BY DEF CallsTypeOK, NewCall, CallRows, CallStates, ParticipantStates
<1>2. NewCall(a).part[a] = "joined"
  BY DEF NewCall
<1> QED
  BY <1>1, <1>2 DEF Occupied, Joined

\* Every step has one of the three forms.
LEMMA Shape ==
  ASSUME CallsTypeOK, OpenCallHasSomeone, [CallsNext]_callVars
  PROVE  CallsStep
<1>1. ASSUME NEW a \in Accounts, StartInserts(a) PROVE CallsStep
  BY <1>1, NewCalls DEF StartInserts, CallsStep, Adds
<1>2. ASSUME NEW a \in Accounts, StartFindsOpen(a) PROVE CallsStep
  <2> PICK i \in OpenCalls :
        IF group /\ calls[i].part[a] # "joined"
        THEN Change(i, IF calls[i].part[a] = "none" THEN calls[i]
                       ELSE [calls[i] EXCEPT !.part[a] = "joined"])
        ELSE NoChange
    BY <1>2 DEF StartFindsOpen
  <2> DEFINE in == [calls[i] EXCEPT !.part[a] = "joined"]
  <2>1. calls[i] \in CallRows /\ calls[i].part \in [Accounts -> ParticipantStates]
    BY RowTypes DEF OpenCalls
  <2>2. Occupied(calls[i])
    BY DEF OpenCallHasSomeone, Occupied
  <2>3. in \in CallRows /\ in.part = [calls[i].part EXCEPT ![a] = "joined"]
    BY <2>1, ChangedRows DEF ParticipantStates
  <2>4. Occupied(in)
    BY <2>1, <2>3 DEF Occupied, Joined
  <2> QED
    BY <2>1, <2>2, <2>3, <2>4 DEF CallsStep
<1>3. ASSUME NEW a \in Accounts, NEW i \in DOMAIN calls, Join(a, i) PROVE CallsStep
  <2> DEFINE in == [calls[i] EXCEPT !.part[a] = "joined", !.state = "active"]
  <2>1. calls[i] \in CallRows /\ calls[i].part \in [Accounts -> ParticipantStates]
    BY RowTypes
  <2>2. in \in CallRows /\ in.part = [calls[i].part EXCEPT ![a] = "joined"]
    BY <2>1 DEF CallRows, CallStates, ParticipantStates
  <2>3. Occupied(in)
    BY <2>1, <2>2 DEF Occupied, Joined
  <2> QED
    BY <1>3, <2>2, <2>3 DEF CallsStep, Join
<1>4. ASSUME NEW a \in Accounts, NEW i \in DOMAIN calls, Invite(a, i) PROVE CallsStep
  <2> DEFINE absent == {b \in Accounts : /\ calls[i].part[b] \notin {"none", "joined"}
                                         /\ ~Apart(a, b)}
             asked == [calls[i] EXCEPT !.part =
                         [b \in Accounts |-> IF b \in absent THEN "invited" ELSE @[b]]]
  <2>1. calls[i] \in CallRows /\ calls[i].part \in [Accounts -> ParticipantStates]
    BY RowTypes
  <2>2. asked \in CallRows
    BY <2>1 DEF CallRows, ParticipantStates
  <2>3. asked.part[a] = "joined"
    BY <1>4, <2>1 DEF Invite, CallRows
  <2>4. Occupied(asked)
    BY <2>3 DEF Occupied, Joined
  <2>5. NoChange \/ Change(i, asked)
    BY <1>4 DEF Invite
  <2> QED
    BY <1>4, <2>2, <2>4, <2>5 DEF CallsStep, Invite
<1>5. ASSUME NEW a \in Accounts, NEW i \in DOMAIN calls, Decline(a, i) PROVE CallsStep
  <2> DEFINE declined == [calls[i] EXCEPT !.part[a] = "declined"]
             over == [declined EXCEPT !.state = "ended", !.note = "ended"]
  <2>1. calls[i] \in CallRows /\ calls[i].part \in [Accounts -> ParticipantStates]
    BY RowTypes
  <2>2. declined \in CallRows /\ declined.part = [calls[i].part EXCEPT ![a] = "declined"]
    BY <2>1, ChangedRows DEF ParticipantStates
  <2>3. PICK b \in Accounts : calls[i].part[b] = "joined"
    BY <1>5 DEF OpenCallHasSomeone, Joined, Decline
  <2>4. declined.part[b] = "joined"
    BY <1>5, <2>1, <2>2, <2>3 DEF Decline
  <2>5. Occupied(declined)
    BY <2>4 DEF Occupied, Joined
  <2>6. over \in CallRows /\ Occupied(over)
    BY <2>2 DEF CallRows, CallStates, Occupied
  <2> QED
    BY <1>5, <2>2, <2>5, <2>6 DEF CallsStep, Decline
<1>6. ASSUME NEW a \in Accounts, NEW i \in DOMAIN calls, Leave(a, i) PROVE CallsStep
  <2> DEFINE gone == [calls[i] EXCEPT !.part[a] = "left"]
             over == [gone EXCEPT !.state = "ended", !.note = "ended"]
  <2>1. calls[i] \in CallRows
    BY RowTypes
  <2>2. gone \in CallRows
    BY <2>1, ChangedRows DEF ParticipantStates
  <2>3. over \in CallRows /\ Occupied(over)
    BY <2>2 DEF CallRows, CallStates, Occupied
  <2>4. NoChange \/ (i \in OpenCalls /\ Change(i, IF ~group \/ NobodyLeft(gone) THEN over ELSE gone))
    BY <1>6 DEF Leave, OpenCalls
  <2> QED
    BY <2>2, <2>3, <2>4 DEF CallsStep, Occupied, NobodyLeft
<1>7. ASSUME NEW a \in Accounts, NEW i \in DOMAIN calls, EndCall(a, i) PROVE CallsStep
  BY <1>7, RowTypes, ChangedRows DEF EndCall, CallsStep, OpenCalls, Occupied, ParticipantStates
<1>8. ASSUME BlockEndsCall PROVE CallsStep
  <2>1. calls[ending] \in CallRows
    BY <1>8, RowTypes DEF BlockEndsCall
  <2>2. EveryoneLeaves(calls[ending]) \in CallRows /\ Occupied(EveryoneLeaves(calls[ending]))
    BY <2>1, ChangedRows, CallsAssumption DEF Occupied, ParticipantStates
  <2> QED
    BY <1>8, <2>2 DEF BlockEndsCall, CallsStep, OpenCalls
<1>9. CASE UNCHANGED callVars
  BY <1>9 DEF callVars, CallsStep, NoChange
<1> QED
  BY <1>1, <1>2, <1>3, <1>4, <1>5, <1>6, <1>7, <1>8, <1>9
     DEF CallsNext, CallsStep, NoChange, StartChecks, StartFails, Block, Unblock,
         BlockFindsCall, BlockStopsShort

\* What a change writes.
LEMMA Changes ==
  ASSUME CallsTypeOK, NEW i \in OpenCalls, NEW row \in CallRows, Change(i, row)
  PROVE  /\ calls' \in Seq(CallRows) /\ Len(calls') = Len(calls)
         /\ calls' = [calls EXCEPT ![i] = [row EXCEPT !.rev = calls[i].rev + 1]]
         /\ i \in 1..Len(calls) /\ DOMAIN calls = 1..Len(calls)
         /\ callEvents' \in Seq(Snapshots)
<1> DEFINE next == [row EXCEPT !.rev = calls[i].rev + 1]
<1>1. i \in 1..Len(calls) /\ DOMAIN calls = 1..Len(calls) /\ calls[i] \in CallRows
  BY DEF OpenCalls, CallsTypeOK
<1>2. next \in CallRows /\ SnapshotOf(i, next) \in Snapshots
  BY <1>1 DEF CallRows, SnapshotOf, Snapshots
<1>3. calls' = [calls EXCEPT ![i] = next]
  BY DEF Change
<1>4. calls' \in Seq(CallRows) /\ Len(calls') = Len(calls)
  BY <1>1, <1>2, <1>3, ExceptSeq DEF CallsTypeOK
<1>5. callEvents' \in Seq(Snapshots)
  BY <1>2, AppendProperties DEF Change, Publish, CallsTypeOK
<1> QED
  BY <1>1, <1>3, <1>4, <1>5

LEMMA Additions ==
  ASSUME CallsTypeOK, NEW row \in CallRows, Adds(row)
  PROVE  /\ calls' \in Seq(CallRows) /\ Len(calls') = Len(calls) + 1
         /\ \A i \in 1..Len(calls) : calls'[i] = calls[i]
         /\ calls'[Len(calls) + 1] = row
         /\ callEvents' \in Seq(Snapshots)
<1>1. SnapshotOf(Len(calls) + 1, row) \in Snapshots
  BY DEF CallsTypeOK, CallRows, SnapshotOf, Snapshots
<1> QED
  BY <1>1, AppendProperties DEF Adds, Publish, CallsTypeOK

LEMMA InitType == CallsInit => CallsTypeOK /\ OpenCallHasSomeone
BY DEF CallsInit, CallsTypeOK, OpenCallHasSomeone, OpenCalls

LEMMA CallsStepType ==
  CallsTypeOK /\ OpenCallHasSomeone /\ [CallsNext]_callVars => CallsTypeOK' /\ OpenCallHasSomeone'
<1> SUFFICES ASSUME CallsTypeOK, OpenCallHasSomeone, [CallsNext]_callVars
             PROVE  CallsTypeOK' /\ OpenCallHasSomeone'
  OBVIOUS
<1>1. CallsStep
  BY Shape
<1>2. /\ calls' \in Seq(CallRows) /\ callEvents' \in Seq(Snapshots)
      /\ Len(calls) <= Len(calls')
  BY <1>1, Changes, Additions, LenProperties DEF CallsStep, NoChange, CallsTypeOK
<1>3. group' \in BOOLEAN /\ blocks' \subseteq Accounts \X Accounts
  <2>1. ASSUME NEW a \in Accounts, NEW b \in Accounts, Block(a, b) \/ Unblock(a, b)
        PROVE  group' = group /\ blocks' \subseteq blocks \cup (Accounts \X Accounts)
    BY <2>1 DEF Block, Unblock
  <2>2. \/ UNCHANGED <<group, blocks>>
        \/ \E a, b \in Accounts : Block(a, b) \/ Unblock(a, b)
    BY DEF CallsNext, callVars, callFrame, StartChecks, StartInserts, StartFindsOpen,
           StartFails, Join, Invite, Decline, Leave, EndCall, BlockFindsCall,
           BlockEndsCall, BlockStopsShort
  <2> QED
    BY <2>1, <2>2 DEF CallsTypeOK
<1>4. starting' \in Accounts \cup {NoCall}
  BY DEF CallsTypeOK, CallsNext, callVars, callFrame, StartChecks, StartInserts, StartFindsOpen,
         StartFails, Join, Invite, Decline, Leave, EndCall, Block, Unblock, BlockFindsCall,
         BlockEndsCall, BlockStopsShort
<1>5. ending' \in 0..Len(calls') \cup {NoCall}
  <2>1. Len(calls) \in Nat /\ Len(calls') \in Nat /\ DOMAIN calls = 1..Len(calls)
    BY <1>2, LenProperties DEF CallsTypeOK
  <2>2. CASE BlockFindsCall
    BY <1>2, <2>1, <2>2 DEF BlockFindsCall, OpenCalls
  <2>3. ending' \in {ending, 0, NoCall} \/ BlockFindsCall
    BY DEF CallsNext, callVars, callFrame, StartChecks, StartInserts, StartFindsOpen,
           StartFails, Join, Invite, Decline, Leave, EndCall, Block, Unblock,
           BlockEndsCall, BlockStopsShort
  <2> QED
    BY <1>2, <2>1, <2>2, <2>3 DEF CallsTypeOK
<1>6. OpenCallHasSomeone'
  <2>1. CASE NoChange
    BY <2>1 DEF NoChange, OpenCallHasSomeone, OpenCalls, IsOpen, Joined
  <2>2. ASSUME NEW row \in CallRows, Occupied(row), Adds(row) PROVE OpenCallHasSomeone'
    <3>1. /\ Len(calls') = Len(calls) + 1 /\ calls'[Len(calls) + 1] = row
          /\ \A i \in 1..Len(calls) : calls'[i] = calls[i]
      BY <2>2, Additions
    <3>2. /\ Len(calls) \in Nat
          /\ DOMAIN calls = 1..Len(calls) /\ DOMAIN calls' = 1..Len(calls')
      BY <1>2, LenProperties DEF CallsTypeOK
    <3>3. SUFFICES ASSUME NEW i \in DOMAIN calls', calls'[i].state # "ended"
                   PROVE  \E a \in Accounts : calls'[i].part[a] = "joined"
      BY DEF OpenCallHasSomeone, OpenCalls, IsOpen, Joined
    <3>4. CASE i = Len(calls) + 1
      BY <2>2, <3>1, <3>3, <3>4 DEF Occupied, Joined
    <3>5. CASE i \in 1..Len(calls)
      BY <3>1, <3>2, <3>3, <3>5 DEF OpenCallHasSomeone, OpenCalls, IsOpen, Joined
    <3> QED
      BY <3>1, <3>2, <3>3, <3>4, <3>5
  <2>3. ASSUME NEW i \in OpenCalls, NEW row \in CallRows, Occupied(row), Change(i, row)
        PROVE  OpenCallHasSomeone'
    <3>1. calls' = [calls EXCEPT ![i] = [row EXCEPT !.rev = calls[i].rev + 1]]
      BY <2>3, Changes
    <3>2. DOMAIN calls' = DOMAIN calls /\ i \in DOMAIN calls
      BY <3>1 DEF OpenCalls
    <3>3. \A j \in DOMAIN calls : j # i => calls'[j] = calls[j]
      BY <3>1
    <3>4. calls'[i].state = row.state /\ calls'[i].part = row.part
      BY <3>1, <3>2 DEF CallRows
    <3> QED
      BY <2>3, <3>2, <3>3, <3>4 DEF OpenCallHasSomeone, OpenCalls, IsOpen, Joined, Occupied
  <2> QED
    BY <1>1, <2>1, <2>2, <2>3 DEF CallsStep
<1> QED
  BY <1>2, <1>3, <1>4, <1>5, <1>6 DEF CallsTypeOK

\* A call that is over keeps its row.
LEMMA EndedStays ==
  CallsTypeOK /\ OpenCallHasSomeone /\ [CallsNext]_callVars =>
    \A i \in DOMAIN calls : ~IsOpen(i) => calls'[i] = calls[i]
<1> SUFFICES ASSUME CallsTypeOK, OpenCallHasSomeone, [CallsNext]_callVars,
                    NEW j \in DOMAIN calls, ~IsOpen(j)
             PROVE  calls'[j] = calls[j]
  OBVIOUS
<1>1. CallsStep
  BY Shape
<1>2. ASSUME NEW row \in CallRows, Adds(row) PROVE calls'[j] = calls[j]
  BY <1>2, Additions, RowTypes
<1>3. ASSUME NEW i \in OpenCalls, NEW row \in CallRows, Change(i, row)
      PROVE  calls'[j] = calls[j]
  BY <1>3, Changes DEF OpenCalls
<1> QED
  BY <1>1, <1>2, <1>3 DEF CallsStep, NoChange

-----------------------------------------------------------------------------
(* The event stream never knows more of a call than the call does.         *)

EventsAreOfCalls ==
  \A n \in DOMAIN callEvents :
    /\ callEvents[n].id \in DOMAIN calls
    /\ callEvents[n].rev <= calls[callEvents[n].id].rev
    /\ callEvents[n].ended => ~IsOpen(callEvents[n].id)

EventsInv == EventsAreOfCalls /\ EventsTellTheCall

LEMMA EventsInit == CallsInit => EventsInv
BY DEF CallsInit, EventsInv, EventsAreOfCalls, EventsTellTheCall

\* One more event, newer than those of its call.
LEMMA OneMoreEvent ==
  ASSUME CallsTypeOK, CallsTypeOK', EventsInv,
         NEW i \in DOMAIN calls',
         DOMAIN calls \subseteq DOMAIN calls',
         \A j \in DOMAIN calls : j # i => calls'[j] = calls[j],
         DOMAIN calls' \subseteq DOMAIN calls \cup {i},
         i \in DOMAIN calls => IsOpen(i) /\ calls[i].rev < calls'[i].rev,
         Publish(i, calls'[i])
  PROVE  EventsInv'
<1> DEFINE new == SnapshotOf(i, calls'[i])
           old == Len(callEvents)
<1>1. /\ callEvents \in Seq(Snapshots) /\ old \in Nat /\ DOMAIN callEvents = 1..old
      /\ \A n \in 1..old : callEvents[n] \in Snapshots
  BY LenProperties, ElementOfSeq DEF CallsTypeOK
<1>2. /\ \A j \in DOMAIN calls : calls[j] \in CallRows
      /\ \A j \in DOMAIN calls' : calls'[j] \in CallRows
  BY ElementOfSeq, LenProperties DEF CallsTypeOK
<1>3. \A j \in DOMAIN calls : calls[j].rev \in Nat /\ calls'[j].rev \in Nat /\ calls[j].rev <= calls'[j].rev
  BY <1>2 DEF CallRows
<1>4. ASSUME NEW n \in 1..old
      PROVE  /\ callEvents[n].id \in DOMAIN calls'
             /\ callEvents[n].rev <= calls'[callEvents[n].id].rev
             /\ callEvents[n].ended => calls'[callEvents[n].id].state = "ended"
             /\ callEvents[n].id = i => callEvents[n].rev < calls'[i].rev /\ ~callEvents[n].ended
  <2>1. /\ callEvents[n].id \in DOMAIN calls
        /\ callEvents[n].rev <= calls[callEvents[n].id].rev
        /\ callEvents[n].ended => calls[callEvents[n].id].state = "ended"
    BY <1>1 DEF EventsInv, EventsAreOfCalls, IsOpen
  <2>2. callEvents[n].rev \in Nat
    BY <1>1 DEF Snapshots
  <2> QED
    BY <1>3, <2>1, <2>2 DEF IsOpen
<1>5. CASE callEvents' = callEvents
  <2>1. EventsAreOfCalls'
    BY <1>1, <1>4, <1>5 DEF EventsAreOfCalls, IsOpen
  <2>2. \A j \in DOMAIN calls' :
          calls'[j].part[Me] # "none" =>
            \E n \in DOMAIN callEvents' : callEvents'[n] = SnapshotOf(j, calls'[j])
    <3> SUFFICES ASSUME NEW j \in DOMAIN calls', calls'[j].part[Me] # "none"
                 PROVE  \E n \in DOMAIN callEvents : callEvents[n] = SnapshotOf(j, calls'[j])
      BY <1>5
    <3>1. CASE j = i
      <4>1. callEvents' = Append(callEvents, new)
        BY <3>1 DEF Publish
      <4>2. Len(callEvents') = old + 1
        BY <4>1, <1>2, AppendProperties, <1>1 DEF SnapshotOf, Snapshots, CallRows
      <4> QED
        BY <1>1, <1>5, <4>2
    <3>2. CASE j # i
      BY <3>2 DEF EventsInv, EventsTellTheCall, Snapshot
    <3> QED
      BY <3>1, <3>2
  <2> QED
    BY <1>5, <2>1, <2>2 DEF EventsInv, EventsTellTheCall, Snapshot
<1>6. CASE callEvents' = Append(callEvents, new)
  <2>1. new \in Snapshots /\ new.id = i /\ new.rev = calls'[i].rev
        /\ new.ended = (calls'[i].state = "ended")
    <3>1. i \in Nat
      BY LenProperties DEF CallsTypeOK
    <3> QED
      BY <1>2, <3>1 DEF SnapshotOf, Snapshots, CallRows
  <2>2. /\ DOMAIN callEvents' = 1..old + 1 /\ callEvents'[old + 1] = new
        /\ \A n \in 1..old : callEvents'[n] = callEvents[n]
    BY <1>1, <1>6, <2>1, AppendProperties, LenProperties
  <2>3. EventsAreOfCalls'
    <3> SUFFICES ASSUME NEW n \in 1..old + 1
                 PROVE  /\ callEvents'[n].id \in DOMAIN calls'
                        /\ callEvents'[n].rev <= calls'[callEvents'[n].id].rev
                        /\ callEvents'[n].ended => calls'[callEvents'[n].id].state = "ended"
      BY <2>2 DEF EventsAreOfCalls, IsOpen
    <3>1. CASE n \in 1..old
      <4>1. callEvents'[n] = callEvents[n]
        BY <2>2, <3>1
      <4> QED
        BY <1>4, <3>1, <4>1
    <3>2. CASE n = old + 1
      <4>1. callEvents'[n] = new
        BY <2>2, <3>2
      <4>2. calls'[i].rev \in Nat
        BY <1>2 DEF CallRows
      <4> HIDE DEF new
      <4>3. new.rev <= calls'[new.id].rev
        BY <2>1, <4>2
      <4>4. new.ended => calls'[new.id].state = "ended"
        BY <2>1
      <4> QED
        BY <2>1, <4>1, <4>3, <4>4
    <3> QED
      BY <1>1, <3>1, <3>2
  <2>4. ASSUME NEW m \in 1..old + 1, NEW n \in 1..old + 1, m < n,
               callEvents'[m].id = callEvents'[n].id
        PROVE  callEvents'[m].rev < callEvents'[n].rev /\ ~callEvents'[m].ended
    <3>1. m \in 1..old
      BY <1>1, <2>4
    <3>2. CASE n \in 1..old
      BY <1>1, <2>2, <2>4, <3>1, <3>2 DEF EventsInv, EventsTellTheCall
    <3>3. CASE n = old + 1
      BY <1>4, <2>1, <2>2, <2>4, <3>1, <3>3
    <3> QED
      BY <1>1, <3>2, <3>3
  <2>5. ASSUME NEW j \in DOMAIN calls', calls'[j].part[Me] # "none"
        PROVE  \E n \in 1..old + 1 : callEvents'[n] = SnapshotOf(j, calls'[j])
    <3>1. CASE j = i
      BY <1>1, <2>2, <3>1
    <3>2. CASE j # i
      <4>1. PICK n \in 1..old : callEvents[n] = SnapshotOf(j, calls[j])
        BY <1>1, <2>5, <3>2 DEF EventsInv, EventsTellTheCall, Snapshot
      <4> QED
        BY <1>1, <2>2, <3>2, <4>1
    <3> QED
      BY <3>1, <3>2
  <2> QED
    BY <2>2, <2>3, <2>4, <2>5 DEF EventsInv, EventsTellTheCall, Snapshot
<1> QED
  BY <1>5, <1>6 DEF Publish

LEMMA EventsStep ==
  CallsTypeOK /\ OpenCallHasSomeone /\ EventsInv /\ [CallsNext]_callVars => EventsInv'
<1> SUFFICES ASSUME CallsTypeOK, OpenCallHasSomeone, EventsInv, [CallsNext]_callVars
             PROVE  EventsInv'
  OBVIOUS
<1>1. CallsStep /\ CallsTypeOK'
  BY Shape, CallsStepType
<1>2. CASE NoChange
  BY <1>2 DEF NoChange, EventsInv, EventsAreOfCalls, EventsTellTheCall, IsOpen, Snapshot, SnapshotOf
<1>3. ASSUME NEW row \in CallRows, Adds(row) PROVE EventsInv'
  <2> DEFINE i == Len(calls) + 1
  <2>1. /\ DOMAIN calls = 1..Len(calls) /\ DOMAIN calls' = 1..Len(calls') /\ Len(calls) \in Nat
    BY <1>1, LenProperties DEF CallsTypeOK
  <2>2. /\ Len(calls') = i /\ calls'[i] = row
        /\ \A j \in 1..Len(calls) : calls'[j] = calls[j]
    BY <1>3, Additions
  <2>3. /\ i \in DOMAIN calls' /\ i \notin DOMAIN calls
        /\ DOMAIN calls \subseteq DOMAIN calls'
        /\ DOMAIN calls' \subseteq DOMAIN calls \cup {i}
    BY <2>1, <2>2
  <2>4. Publish(i, calls'[i])
    BY <1>3, <2>2 DEF Adds
  <2> HIDE DEF i
  <2> QED
    BY <1>1, <2>1, <2>2, <2>3, <2>4, OneMoreEvent
<1>4. ASSUME NEW i \in OpenCalls, NEW row \in CallRows, Change(i, row) PROVE EventsInv'
  <2>1. /\ calls' = [calls EXCEPT ![i] = [row EXCEPT !.rev = calls[i].rev + 1]]
        /\ i \in DOMAIN calls /\ IsOpen(i)
    BY <1>4, Changes DEF OpenCalls
  <2>2. DOMAIN calls' = DOMAIN calls /\ \A j \in DOMAIN calls : j # i => calls'[j] = calls[j]
    BY <2>1
  <2>3. calls'[i] = [row EXCEPT !.rev = calls[i].rev + 1]
    BY <2>1
  <2>4. calls[i].rev < calls'[i].rev
    <3>1. calls[i].rev \in Nat
      BY <2>1, RowTypes DEF CallRows
    <3> QED
      BY <2>3, <3>1 DEF CallRows
  <2>5. Publish(i, calls'[i])
    BY <1>4, <2>3 DEF Change
  <2> QED
    BY <1>1, <2>1, <2>2, <2>4, <2>5, OneMoreEvent
<1> QED
  BY <1>1, <1>2, <1>3, <1>4 DEF CallsStep

-----------------------------------------------------------------------------
LEMMA CallsInvariant == CallsSpec => [](CallsTypeOK /\ OpenCallHasSomeone /\ EventsInv)
<1>1. CallsTypeOK /\ OpenCallHasSomeone /\ EventsInv /\ [CallsNext]_callVars
        => (CallsTypeOK /\ OpenCallHasSomeone /\ EventsInv)'
  BY CallsStepType, EventsStep
<1> QED
  BY <1>1, InitType, EventsInit, PTL DEF CallsSpec

\* Every variable of the calls keeps its type, for any members and bounds.
THEOREM CallsTypes == CallsSpec => []CallsTypeOK
BY CallsInvariant, PTL

\* An open call always has somebody in it (leave, decline, end, block).
THEOREM OpenCallsAreOccupied == CallsSpec => []OpenCallHasSomeone
BY CallsInvariant, PTL

\* A participant's stream tells each call's changes in order, the end last,
\* and ends with the call as it is (publish_snapshot).
THEOREM EventsAreTold == CallsSpec => []EventsTellTheCall
<1>1. EventsInv => EventsTellTheCall
  BY DEF EventsInv
<1> QED
  BY <1>1, CallsInvariant, PTL

\* No operation changes a call that is over.
THEOREM EndIsFinal == CallsSpec => EndedCallsAreFinal
<1>1. CallsTypeOK /\ OpenCallHasSomeone /\ [CallsNext]_callVars =>
        [\A i \in DOMAIN calls : ~IsOpen(i) => calls'[i] = calls[i]]_callVars
  BY EndedStays
<1> QED
  BY <1>1, CallsInvariant, PTL DEF CallsSpec, EndedCallsAreFinal

-----------------------------------------------------------------------------
(* The app never hears of a call what is newer than the call, and a poll   *)
(* that is not out of date is at least as new as what the app shows.       *)

Known(call) ==
  call \in Snapshots /\ call.id \in DOMAIN calls /\ call.rev <= calls[call.id].rev

KnownAfter(call) ==
  call \in Snapshots /\ call.id \in DOMAIN calls' /\ call.rev <= calls'[call.id].rev

HearsWhatIs ==
  /\ answer # NoCall => Known(answer.call)
  /\ shown # NoCall => Known(shown)
  /\ listing # NoCall /\ listing.call # NoCall =>
       Known(listing.call) /\ ~listing.call.ended

PollNotBehind ==
  listing # NoCall /\ listing.call # NoCall /\ ~listing.stale /\ shown # NoCall
    /\ shown.id = listing.call.id
    => shown.rev <= listing.call.rev

ViewInv == CallsAppTypeOK /\ SeenEndedStaysGone /\ HearsWhatIs /\ PollNotBehind

AppInv == OpenCallHasSomeone /\ EventsInv /\ ViewInv

NotOlder == shown # NoCall /\ shown' # NoCall /\ shown.id = shown'.id => shown.rev <= shown'.rev

\* Calls, their revisions and the stream only grow.
LEMMA CallsGrow ==
  ASSUME CallsTypeOK, OpenCallHasSomeone, [CallsNext]_callVars
  PROVE  /\ \A i \in DOMAIN calls : i \in DOMAIN calls' /\ calls[i].rev <= calls'[i].rev
         /\ Len(callEvents) \in Nat /\ Len(callEvents') \in Nat
         /\ Len(callEvents) <= Len(callEvents')
<1>1. CallsStep /\ CallsTypeOK'
  BY Shape, CallsStepType
<1>2. /\ DOMAIN calls = 1..Len(calls) /\ DOMAIN calls' = 1..Len(calls')
      /\ Len(calls) \in Nat /\ Len(calls') \in Nat
      /\ Len(callEvents) \in Nat /\ Len(callEvents') \in Nat
  BY <1>1, LenProperties DEF CallsTypeOK
<1>3. \A i \in DOMAIN calls : calls[i].rev \in Nat
  BY RowTypes DEF CallRows
<1>4. CASE NoChange
  BY <1>2, <1>3, <1>4 DEF NoChange
<1>5. ASSUME NEW j \in Nat, NEW row, SnapshotOf(j, row) \in Snapshots, Publish(j, row)
      PROVE  Len(callEvents) <= Len(callEvents')
  BY <1>2, <1>5, AppendProperties DEF Publish, CallsTypeOK
<1>6. ASSUME NEW row \in CallRows, Adds(row)
      PROVE  /\ \A i \in DOMAIN calls : i \in DOMAIN calls' /\ calls[i].rev <= calls'[i].rev
             /\ Len(callEvents) <= Len(callEvents')
  <2>1. SnapshotOf(Len(calls) + 1, row) \in Snapshots
    BY <1>2 DEF SnapshotOf, Snapshots, CallRows
  <2>2. Len(callEvents) <= Len(callEvents')
    BY <1>2, <1>5, <1>6, <2>1 DEF Adds
  <2>3. Len(calls') = Len(calls) + 1 /\ \A i \in 1..Len(calls) : calls'[i] = calls[i]
    BY <1>6, Additions
  <2>4. ASSUME NEW i \in DOMAIN calls
        PROVE  i \in DOMAIN calls' /\ calls[i].rev <= calls'[i].rev
    <3>1. calls'[i].rev = calls[i].rev /\ calls[i].rev \in Nat
      BY <1>2, <1>3, <2>3
    <3> QED
      BY <1>2, <2>3, <3>1
  <2> QED
    BY <2>2, <2>4
<1>7. ASSUME NEW i \in OpenCalls, NEW row \in CallRows, Change(i, row)
      PROVE  /\ \A j \in DOMAIN calls : j \in DOMAIN calls' /\ calls[j].rev <= calls'[j].rev
             /\ Len(callEvents) <= Len(callEvents')
  <2> DEFINE next == [row EXCEPT !.rev = calls[i].rev + 1]
  <2>1. i \in DOMAIN calls /\ i \in Nat
    BY <1>2 DEF OpenCalls
  <2>2. next \in CallRows /\ next.rev = calls[i].rev + 1
    BY <1>3, <2>1 DEF CallRows
  <2>3. SnapshotOf(i, next) \in Snapshots
    BY <2>1, <2>2 DEF SnapshotOf, Snapshots, CallRows
  <2>4. calls' = [calls EXCEPT ![i] = next] /\ Publish(i, next)
    BY <1>7 DEF Change
  <2>5. Len(callEvents) <= Len(callEvents')
    BY <1>5, <2>1, <2>3, <2>4
  <2> HIDE DEF next
  <2> QED
    BY <1>3, <2>1, <2>2, <2>4, <2>5
<1> QED
  BY <1>1, <1>2, <1>4, <1>6, <1>7 DEF CallsStep

\* What the app makes of a snapshot (updateCall).
LEMMA Updates ==
  ASSUME ViewInv, NEW call, Known(call), NEW inCall \in Snapshots \cup {NoCall},
         UpdateCall(call, inCall)
  PROVE  /\ \/ listing = NoCall /\ listing' = NoCall
            \/ /\ listing # NoCall /\ listing' \in Listings
               /\ listing'.stale /\ listing'.call = listing.call
         /\ endedSeen' \subseteq Nat
         /\ shown' \in {shown, call, NoCall}
         /\ current' \in Snapshots \cup {NoCall}
         /\ SeenEndedStaysGone' /\ NotOlder
<1>1. /\ call \in Snapshots /\ call.id \in Nat /\ call.rev \in Nat
      /\ shown # NoCall => shown \in Snapshots /\ shown.rev \in Nat
      /\ listing # NoCall => listing \in Listings
      /\ endedSeen \subseteq Nat
  BY DEF Known, ViewInv, CallsAppTypeOK, Snapshots
<1>2. \/ listing = NoCall /\ listing' = NoCall
      \/ /\ listing # NoCall /\ listing' \in Listings
         /\ listing'.stale /\ listing'.call = listing.call
  BY <1>1 DEF UpdateCall, Listings
<1>3. endedSeen' \subseteq Nat
  BY <1>1 DEF UpdateCall
<1>4. shown' \in {shown, call, NoCall}
  BY DEF UpdateCall, Without, Newest
<1>5. current' \in Snapshots \cup {NoCall}
  BY <1>1 DEF UpdateCall, Without, Newest
<1>6. SeenEndedStaysGone'
  BY DEF UpdateCall, Without, Newest, Holds, SeenToEnd, ViewInv, SeenEndedStaysGone
<1>7. NotOlder
  BY <1>1 DEF UpdateCall, Without, Newest, Holds, NotOlder, ViewInv, SeenEndedStaysGone
<1> QED
  BY <1>2, <1>3, <1>4, <1>5, <1>6, <1>7

\* A step that updates the app with what it heard, the calls unchanged.
LEMMA UpdateKeeps ==
  ASSUME ViewInv, NEW call, Known(call), NEW inCall \in Snapshots \cup {NoCall},
         UpdateCall(call, inCall), UNCHANGED callVars, answer' \in {answer, NoCall},
         diffAt' \in 0..Len(callEvents), pushAt' \in 0..Len(callEvents)
  PROVE  ViewInv' /\ NotOlder
<1>1. /\ \/ listing = NoCall /\ listing' = NoCall
         \/ /\ listing # NoCall /\ listing' \in Listings
            /\ listing'.stale /\ listing'.call = listing.call
      /\ endedSeen' \subseteq Nat
      /\ shown' \in {shown, call, NoCall}
      /\ current' \in Snapshots \cup {NoCall}
      /\ SeenEndedStaysGone' /\ NotOlder
  BY Updates
<1>2. CallsTypeOK'
  BY DEF ViewInv, CallsAppTypeOK, CallsTypeOK, callVars
<1>3. CallsAppTypeOK'
  BY <1>1, <1>2 DEF ViewInv, CallsAppTypeOK, callVars, Known
<1>4. HearsWhatIs'
  <2>1. calls' = calls
    BY DEF callVars
  <2>2. /\ answer' # NoCall => KnownAfter(answer'.call)
        /\ shown' # NoCall => KnownAfter(shown')
    BY <1>1, <2>1 DEF ViewInv, HearsWhatIs, Known, KnownAfter
  <2>3. listing' # NoCall /\ listing'.call # NoCall =>
          KnownAfter(listing'.call) /\ ~listing'.call.ended
    <3>1. listing' # NoCall => listing # NoCall /\ listing'.call = listing.call
      <4>1. CASE listing = NoCall
        BY <1>1, <4>1
      <4>2. CASE listing # NoCall
        BY <1>1, <4>2
      <4> QED
        BY <4>1, <4>2
    <3> QED
      BY <2>1, <3>1 DEF ViewInv, HearsWhatIs, Known, KnownAfter
  <2> QED
    BY <2>2, <2>3 DEF HearsWhatIs, Known, KnownAfter
<1>5. PollNotBehind'
  BY <1>1 DEF PollNotBehind
<1> QED
  BY <1>1, <1>3, <1>4, <1>5 DEF ViewInv

\* The server's steps leave the app alone but for the answer they send.
LEMMA ServerKeeps ==
  ASSUME OpenCallHasSomeone, ViewInv, [CallsNext]_callVars,
         UNCHANGED <<diffAt, pushAt, listing, callView>>,
         \/ answer' = answer
         \/ \E to \in {"start", "join", "invite", "decline", "leave"}, i \in DOMAIN calls' :
              answer' = [to |-> to, call |-> SnapshotOf(i, calls'[i])]
  PROVE  ViewInv' /\ NotOlder
<1>1. CallsTypeOK /\ CallsTypeOK'
  BY CallsStepType DEF ViewInv, CallsAppTypeOK
<1>2. /\ \A i \in DOMAIN calls : i \in DOMAIN calls' /\ calls[i].rev <= calls'[i].rev
      /\ Len(callEvents) \in Nat /\ Len(callEvents') \in Nat
      /\ Len(callEvents) <= Len(callEvents')
  BY <1>1, CallsGrow
<1>3. \A i \in DOMAIN calls' : calls'[i] \in CallRows /\ calls'[i].rev \in Nat /\ i \in Nat
  <2> SUFFICES ASSUME NEW i \in DOMAIN calls'
               PROVE  calls'[i] \in CallRows /\ calls'[i].rev \in Nat /\ i \in Nat
    OBVIOUS
  <2>1. calls' \in Seq(CallRows)
    BY <1>1 DEF CallsTypeOK
  <2>2. calls'[i] \in CallRows /\ i \in Nat
    BY <2>1, LenProperties, ElementOfSeq
  <2> QED
    BY <2>2 DEF CallRows
<1>4. \A i \in DOMAIN calls : calls[i].rev \in Nat
  BY <1>1, RowTypes DEF CallRows
<1>5. ASSUME NEW call, Known(call) PROVE KnownAfter(call)
  BY <1>2, <1>3, <1>4, <1>5 DEF Known, KnownAfter, Snapshots
<1>6. ASSUME NEW i \in DOMAIN calls'
      PROVE  /\ SnapshotOf(i, calls'[i]) \in Snapshots
             /\ SnapshotOf(i, calls'[i]).id = i
             /\ SnapshotOf(i, calls'[i]).rev <= calls'[i].rev
  BY <1>3, <1>6 DEF SnapshotOf, Snapshots
<1>7. answer' # NoCall => answer' \in Answers
  BY <1>6 DEF ViewInv, CallsAppTypeOK, Answers
<1>8. CallsAppTypeOK'
  BY <1>1, <1>2, <1>7 DEF ViewInv, CallsAppTypeOK, callView
<1>9. answer' # NoCall => KnownAfter(answer'.call)
  <2>1. CASE answer' = answer
    BY <1>5, <2>1 DEF ViewInv, HearsWhatIs
  <2>2. ASSUME NEW to, NEW i \in DOMAIN calls',
               answer' = [to |-> to, call |-> SnapshotOf(i, calls'[i])]
        PROVE  KnownAfter(answer'.call)
    BY <1>6, <2>2 DEF KnownAfter
  <2> QED
    BY <2>1, <2>2
<1>10. HearsWhatIs'
  BY <1>5, <1>9 DEF ViewInv, HearsWhatIs, Known, KnownAfter, callView
<1>11. SeenEndedStaysGone' /\ PollNotBehind'
  BY DEF ViewInv, SeenEndedStaysGone, PollNotBehind, callView
<1>12. NotOlder
  <2>1. shown # NoCall => shown.rev \in Nat
    BY DEF ViewInv, CallsAppTypeOK, Snapshots
  <2> QED
    BY <2>1 DEF NotOlder, callView
<1> QED
  BY <1>8, <1>10, <1>11, <1>12 DEF ViewInv

\* Every step of the server is one of Calls.
LEMMA ServerSteps ==
  ASSUME CallsTypeOK, OpenCallHasSomeone, ServerAnswers \/ ServerAlone
  PROVE  /\ CallsNext
         /\ UNCHANGED <<diffAt, pushAt, listing, callView>>
         /\ \/ answer' = answer
            \/ \E to \in {"start", "join", "invite", "decline", "leave"}, i \in DOMAIN calls' :
                 answer' = [to |-> to, call |-> SnapshotOf(i, calls'[i])]
<1>1. ASSUME NEW to \in {"start", "join", "invite", "decline", "leave"}, NEW a,
             NEW i \in DOMAIN calls', Request(a, to, i)
      PROVE  /\ UNCHANGED <<diffAt, pushAt, listing, callView>>
             /\ \/ answer' = answer
                \/ \E t \in {"start", "join", "invite", "decline", "leave"}, j \in DOMAIN calls' :
                     answer' = [to |-> t, call |-> SnapshotOf(j, calls'[j])]
  BY <1>1 DEF Request
<1>2. CASE ServerAlone
  BY <1>2 DEF ServerAlone, CallsNext, callAppVars
<1>3. ASSUME CallsNext PROVE \A i \in DOMAIN calls : i \in DOMAIN calls'
  BY <1>3, CallsGrow
<1>4. CASE ServerAnswers
  <2>1. CASE \E a \in Accounts : StartChecks(a) /\ UNCHANGED callAppVars
    BY <2>1 DEF CallsNext, callAppVars
  <2>2. ASSUME NEW a \in Accounts, StartInserts(a), Request(a, "start", Len(calls'))
        PROVE  CallsNext /\ Len(calls') \in DOMAIN calls'
    <3>1. Len(calls') = Len(calls) + 1 /\ Len(calls) \in Nat /\ DOMAIN calls' = 1..Len(calls')
      BY <2>2, NewCalls, AppendProperties, LenProperties DEF StartInserts, CallsTypeOK
    <3> QED
      BY <2>2, <3>1 DEF CallsNext
  <2>3. ASSUME NEW a \in Accounts, StartFindsOpen(a)
        PROVE  CallsNext /\ OpenCalls \subseteq DOMAIN calls'
    <3>1. CallsNext
      BY <2>3 DEF CallsNext
    <3> QED
      BY <1>3, <3>1 DEF OpenCalls
  <2>4. ASSUME NEW a \in Accounts, NEW i \in DOMAIN calls,
               Join(a, i) \/ Invite(a, i) \/ Decline(a, i) \/ Leave(a, i) \/ EndCall(a, i)
        PROVE  CallsNext /\ i \in DOMAIN calls'
    <3>1. CallsNext
      BY <2>4 DEF CallsNext
    <3> QED
      BY <1>3, <3>1
  <2> QED
    BY <1>1, <1>4, <2>1, <2>2, <2>3, <2>4 DEF ServerAnswers
<1> QED
  BY <1>2, <1>4

\* An event of the stream tells what is, or was.
LEMMA EventsKnown ==
  ASSUME CallsTypeOK, EventsInv, NEW n \in 1..Len(callEvents)
  PROVE  Known(callEvents[n])
<1>1. callEvents[n] \in Snapshots /\ n \in DOMAIN callEvents
  BY ElementOfSeq, LenProperties DEF CallsTypeOK
<1> QED
  BY <1>1 DEF EventsInv, EventsAreOfCalls, Known

LEMMA ViewInit == CallsAppInit => ViewInv
<1> SUFFICES ASSUME CallsAppInit PROVE ViewInv
  OBVIOUS
<1>1. CallsTypeOK /\ Len(callEvents) = 0
  BY InitType DEF CallsAppInit, CallsInit
<1> QED
  BY <1>1 DEF CallsAppInit, ViewInv, CallsAppTypeOK, SeenEndedStaysGone, HearsWhatIs,
              PollNotBehind

LEMMA ViewStep ==
  AppInv /\ [CallsAppNext]_callsAndApp => ViewInv' /\ NotOlder /\ [CallsNext]_callVars
<1> SUFFICES ASSUME AppInv, [CallsAppNext]_callsAndApp
             PROVE  ViewInv' /\ NotOlder /\ [CallsNext]_callVars
  OBVIOUS
<1> USE DEF AppInv
<1>1. /\ CallsTypeOK /\ Len(callEvents) \in Nat
      /\ diffAt \in 0..Len(callEvents) /\ pushAt \in 0..Len(callEvents)
      /\ current \in Snapshots \cup {NoCall}
      /\ shown # NoCall => shown \in Snapshots /\ shown.rev \in Nat
      /\ listing # NoCall => listing \in Listings
  BY LenProperties DEF ViewInv, CallsAppTypeOK, CallsTypeOK, Snapshots
<1>2. CASE ServerAnswers \/ ServerAlone
  BY <1>1, <1>2, ServerSteps, ServerKeeps
<1>3. CASE AppGetsAnswer
  <2>1. Known(answer.call) /\ answer.call \in Snapshots
    BY <1>3 DEF AppGetsAnswer, ViewInv, HearsWhatIs, Known
  <2>2. PICK inCall \in {answer.call, NoCall, current} : UpdateCall(answer.call, inCall)
    BY <1>3 DEF AppGetsAnswer
  <2> QED
    BY <1>1, <1>3, <2>1, <2>2, UpdateKeeps DEF AppGetsAnswer, callVars
<1>4. CASE DiffDelivers
  <2>1. diffAt' \in 1..Len(callEvents)
    BY <1>1, <1>4 DEF DiffDelivers
  <2>2. Known(callEvents[diffAt'])
    BY <1>1, <2>1, EventsKnown
  <2> QED
    BY <1>1, <1>4, <2>1, <2>2, UpdateKeeps DEF DiffDelivers, AppGetsEvent, Reset, callVars
<1>5. CASE PushDelivers
  <2>1. pushAt' \in 1..Len(callEvents)
    BY <1>1, <1>5 DEF PushDelivers
  <2>2. Known(callEvents[pushAt'])
    BY <1>1, <2>1, EventsKnown
  <2> QED
    BY <1>1, <1>5, <2>1, <2>2, UpdateKeeps DEF PushDelivers, AppGetsEvent, Reset, callVars
<1>6. ASSUME UNCHANGED callVars
      PROVE  /\ CallsTypeOK' /\ [CallsNext]_callVars
             /\ \A call : Known(call) => KnownAfter(call)
             /\ UNCHANGED <<diffAt, pushAt>> =>
                  diffAt' \in 0..Len(callEvents') /\ pushAt' \in 0..Len(callEvents')
  BY <1>1, <1>6 DEF callVars, CallsTypeOK, Known, KnownAfter
<1>7. ASSUME UNCHANGED <<callVars, diffAt, pushAt, answer, callView>>,
             \/ listing' = listing
             \/ /\ listing' \in Listings
                /\ listing'.call # NoCall => \E i \in OpenCalls : listing'.call = Snapshot(i)
      PROVE  ViewInv' /\ NotOlder /\ [CallsNext]_callVars
  <2>1. CallsAppTypeOK'
    BY <1>6, <1>7 DEF ViewInv, CallsAppTypeOK, callView
  <2>2. SeenEndedStaysGone' /\ NotOlder
    BY <1>1, <1>7 DEF ViewInv, SeenEndedStaysGone, NotOlder, callView
  <2>3. ASSUME NEW i \in OpenCalls
        PROVE  Known(Snapshot(i)) /\ ~Snapshot(i).ended
               /\ Snapshot(i).id = i /\ Snapshot(i).rev = calls[i].rev
    <3>1. i \in DOMAIN calls /\ calls[i].state # "ended" /\ i \in Nat
      BY <1>1, RowTypes, LenProperties DEF OpenCalls, IsOpen
    <3>2. calls[i] \in CallRows
      BY <1>1, <3>1, RowTypes
    <3>3. calls[i].rev \in Nat
      BY <3>2 DEF CallRows
    <3>4. /\ Snapshot(i) \in Snapshots /\ ~Snapshot(i).ended
          /\ Snapshot(i).id = i /\ Snapshot(i).rev = calls[i].rev
      BY <3>1, <3>3 DEF Snapshot, SnapshotOf, Snapshots
    <3> QED
      BY <3>1, <3>3, <3>4 DEF Known
  <2>4. HearsWhatIs'
    <3>1. /\ answer' # NoCall => KnownAfter(answer'.call)
          /\ shown' # NoCall => KnownAfter(shown')
      BY <1>6, <1>7 DEF ViewInv, HearsWhatIs, callView
    <3>2. answer' # NoCall => KnownAfter(answer'.call)
      BY <1>6, <1>7 DEF ViewInv, HearsWhatIs
    <3>3. listing' # NoCall /\ listing'.call # NoCall =>
            Known(listing'.call) /\ ~listing'.call.ended
      BY <1>7, <2>3 DEF ViewInv, HearsWhatIs
    <3> QED
      BY <1>6, <1>7, <3>1, <3>2, <3>3 DEF HearsWhatIs, Known, KnownAfter, callVars
  <2>5. PollNotBehind'
    <3>1. CASE listing' = listing
      BY <1>7, <3>1 DEF ViewInv, PollNotBehind, callView
    <3>2. ASSUME NEW i \in OpenCalls, listing'.call = Snapshot(i) PROVE PollNotBehind'
      BY <1>7, <2>3, <3>2 DEF ViewInv, HearsWhatIs, Known, PollNotBehind, callView
    <3> QED
      BY <1>7, <3>1, <3>2 DEF PollNotBehind
  <2> QED
    BY <1>6, <1>7, <2>1, <2>2, <2>4, <2>5 DEF ViewInv
<1>8. CASE AskForCalls
  <2>1. [read |-> FALSE, stale |-> FALSE, call |-> NoCall] \in Listings
    BY DEF Listings
  <2> QED
    BY <1>7, <1>8, <2>1 DEF AskForCalls
<1>9. CASE ListCalls
  <2> DEFINE found == IF Listed = {} THEN NoCall ELSE Snapshot(CHOOSE i \in Listed : TRUE)
  <2>1. found = NoCall \/ \E i \in OpenCalls : found = Snapshot(i)
    BY DEF Listed
  <2>2. found \in Snapshots \cup {NoCall}
    <3>1. ASSUME NEW i \in OpenCalls PROVE Snapshot(i) \in Snapshots
      <4>1. i \in DOMAIN calls /\ i \in Nat /\ calls[i] \in CallRows
        BY <1>1, RowTypes, LenProperties DEF OpenCalls
      <4> QED
        BY <4>1 DEF Snapshot, SnapshotOf, Snapshots, CallRows
    <3> QED
      BY <2>1, <3>1
  <2>3. listing \in Listings /\ listing' = [listing EXCEPT !.read = TRUE, !.call = found]
    BY <1>1, <1>9 DEF ListCalls
  <2> HIDE DEF found
  <2>4. listing' \in Listings /\ listing'.call = found
    BY <2>2, <2>3 DEF Listings
  <2> QED
    BY <1>7, <1>9, <2>1, <2>4 DEF ListCalls
<1>10. ASSUME UNCHANGED <<callVars, diffAt, pushAt>>,
              answer' \in {answer, NoCall}, listing' \in {listing, NoCall},
              current' \in Snapshots \cup {NoCall}, endedSeen' \subseteq Nat,
              \/ shown' = NoCall
              \/ shown' = shown /\ endedSeen' = endedSeen
              \/ /\ listing # NoCall /\ listing' = NoCall /\ ~listing.stale
                 /\ listing.call # NoCall /\ shown' = listing.call
                 /\ shown'.id \notin endedSeen /\ endedSeen' = endedSeen
       PROVE  ViewInv' /\ NotOlder /\ [CallsNext]_callVars
  <2>1. HearsWhatIs'
    BY <1>6, <1>10 DEF ViewInv, HearsWhatIs, Known, KnownAfter
  <2>2. CallsAppTypeOK'
    BY <1>6, <1>10, <2>1 DEF ViewInv, CallsAppTypeOK, HearsWhatIs, Known
  <2>3. SeenEndedStaysGone'
    BY <1>10 DEF ViewInv, SeenEndedStaysGone, HearsWhatIs
  <2>4. PollNotBehind'
    BY <1>10 DEF ViewInv, PollNotBehind
  <2>5. NotOlder
    BY <1>1, <1>10 DEF ViewInv, PollNotBehind, NotOlder
  <2> QED
    BY <1>6, <1>10, <2>1, <2>2, <2>3, <2>4, <2>5 DEF ViewInv
<1>11. endedSeen \subseteq Nat /\ (listing # NoCall /\ listing.call # NoCall => listing.call \in Snapshots)
  BY DEF ViewInv, CallsAppTypeOK, HearsWhatIs, Known
<1>12. CASE AppGetsCalls
  <2>1. answer' \in {answer, NoCall} /\ listing' = NoCall
    BY <1>12 DEF AppGetsCalls, Reset
  <2>2. current' \in {current, NoCall, listing.call}
    BY <1>12 DEF AppGetsCalls
  <2>3. current' \in Snapshots \cup {NoCall}
    BY <1>1, <1>11, <1>12, <2>2 DEF AppGetsCalls
  <2>4. \/ shown' = NoCall
        \/ shown' = shown
        \/ /\ ~listing.stale /\ listing.call # NoCall /\ shown' = listing.call
           /\ listing.call.id \notin endedSeen
    BY <1>12 DEF AppGetsCalls
  <2> QED
    BY <1>10, <1>11, <1>12, <2>1, <2>3, <2>4 DEF AppGetsCalls
<1>13. CASE MoveToWindow
  BY <1>1, <1>10, <1>11, <1>13 DEF MoveToWindow, Reset
<1>14. CASE AppRestarts
  BY <1>10, <1>14 DEF AppRestarts
<1>15. CASE UNCHANGED callsAndApp
  BY <1>7, <1>15 DEF callsAndApp, callAppVars, callView
<1>16. ASSUME UNCHANGED callVars PROVE [CallsNext]_callVars
  BY <1>16
<1> QED
  BY <1>1, <1>2, <1>3, <1>4, <1>5, <1>8, <1>9, <1>12, <1>13, <1>14, <1>15, <1>16, ServerSteps
     DEF CallsAppNext, AppGetsAnswer, DiffDelivers, PushDelivers

LEMMA AppInvariant == CallsAppSpec => []AppInv
<1>1. CallsAppInit => AppInv
  BY InitType, EventsInit, ViewInit DEF CallsAppInit, AppInv
<1>2. AppInv /\ [CallsAppNext]_callsAndApp => AppInv'
  BY ViewStep, CallsStepType, EventsStep DEF AppInv, ViewInv, CallsAppTypeOK
<1> QED
  BY <1>1, <1>2, PTL DEF CallsAppSpec

\* Beside the app the server's calls behave as Calls describes them: nothing the
\* app does or misses changes what was proved of them.
THEOREM AppImplementsCalls == CallsAppSpec => CallsSpec
<1>1. CallsAppInit => CallsInit
  BY DEF CallsAppInit
<1>2. AppInv /\ [CallsAppNext]_callsAndApp => [CallsNext]_callVars
  BY ViewStep
<1> QED
  BY <1>1, <1>2, AppInvariant, PTL DEF CallsAppSpec, CallsSpec

\* Every variable of the app keeps its type.
THEOREM CallsAppTypes == CallsAppSpec => []CallsAppTypeOK
<1>1. AppInv => CallsAppTypeOK
  BY DEF AppInv, ViewInv
<1> QED
  BY <1>1, AppInvariant, PTL

\* What the app shows of a call never goes back to an older revision
\* (updateCall, shouldApplyActiveCallSnapshot).
THEOREM AppNeverGoesBack == CallsAppSpec => ShownNeverOlder
<1>1. AppInv /\ [CallsAppNext]_callsAndApp =>
        [shown # NoCall /\ shown' # NoCall /\ shown.id = shown'.id
           => shown.rev <= shown'.rev]_callsAndApp
  BY ViewStep DEF NotOlder
<1> QED
  BY <1>1, AppInvariant, PTL DEF CallsAppSpec, ShownNeverOlder

\* A call the app saw end is not shown again (locallyEndedCallIds).
THEOREM AppForgetsNoEnd == CallsAppSpec => []SeenEndedStaysGone
<1>1. AppInv => SeenEndedStaysGone
  BY DEF AppInv, ViewInv
<1> QED
  BY <1>1, AppInvariant, PTL
=============================================================================
