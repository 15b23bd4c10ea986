------------------------------- MODULE CallsApp -------------------------------
(***************************************************************************)
(* What the app of one account, Me, shows of the calls of a conversation   *)
(* (useCloudCalls.ts, cloudCallState.ts).                                  *)
(*                                                                         *)
(* The app hears of a call in four ways that overtake each other: the      *)
(* answers to its own requests, the events the socket pushes, the events   *)
(* of the diff sync, and the list of active calls it polls.                *)
(***************************************************************************)
EXTENDS Calls

VARIABLES
  diffAt,      \* how many call events the diff sync applied
  pushAt,      \* the last of them the socket pushed
  answer,      \* the answer to a request of this app on its way
  listing,     \* the poll of active calls under way
  shown,       \* callsBySessionId of the conversation
  current,     \* the call the app is in
  endedSeen    \* locallyEndedCallIds

callView == <<shown, current, endedSeen>>
callAppVars == <<diffAt, pushAt, answer, listing, callView>>
callsAndApp == <<callVars, callAppVars>>

Answers == [ to : {"start", "join", "invite", "decline", "leave"}, call : Snapshots ]
Listings == [ read : BOOLEAN, stale : BOOLEAN, call : Snapshots \cup {NoCall} ]

CallsAppTypeOK ==
  /\ CallsTypeOK
  /\ diffAt \in 0..Len(callEvents)
  /\ pushAt \in 0..Len(callEvents)
  /\ answer \in Answers \cup {NoCall}
  /\ listing \in Listings \cup {NoCall}
  /\ shown \in Snapshots \cup {NoCall}
  /\ current \in Snapshots \cup {NoCall}
  /\ endedSeen \subseteq Nat

CallsAppInit ==
  /\ CallsInit
  /\ diffAt = 0 /\ pushAt = 0
  /\ answer = NoCall /\ listing = NoCall
  /\ shown = NoCall /\ current = NoCall /\ endedSeen = {}

-----------------------------------------------------------------------------
(* The app's requests.                                                     *)

Holds(held, i) == held # NoCall /\ held.id = i

\* The app leaves, ends or invites to the call it is in, and joins or declines
\* the one it shows.
Offers(to, i) ==
  CASE to \in {"leave", "invite"} -> Holds(current, i)
    [] to \in {"join", "decline"} -> Holds(shown, i)
    [] to = "start" -> TRUE

\* Any account's request changes the call; one of Me's may come from this app,
\* which then gets the answer, from another device, or lose its answer.
Request(a, to, i) ==
  /\ \/ UNCHANGED answer
     \/ /\ a = Me /\ answer = NoCall /\ Offers(to, i)
        /\ answer' = [to |-> to, call |-> SnapshotOf(i, calls'[i])]
  /\ UNCHANGED <<diffAt, pushAt, listing, callView>>

ServerAnswers ==
  \/ \E a \in Accounts :
       \/ StartChecks(a) /\ UNCHANGED callAppVars
       \/ StartInserts(a) /\ Request(a, "start", Len(calls'))
       \/ StartFindsOpen(a) /\ \E i \in OpenCalls : Request(a, "start", i)
  \/ \E a \in Accounts, i \in DOMAIN calls :
       \/ Join(a, i) /\ Request(a, "join", i)
       \/ Invite(a, i) /\ Request(a, "invite", i)
       \/ Decline(a, i) /\ Request(a, "decline", i)
       \/ Leave(a, i) /\ Request(a, "leave", i)
       \/ EndCall(a, i) /\ Request(a, "leave", i)

ServerAlone ==
  /\ \/ StartFails
     \/ \E a, b \in Accounts : Block(a, b) \/ Unblock(a, b)
     \/ BlockFindsCall \/ BlockEndsCall \/ BlockStopsShort
  /\ UNCHANGED callAppVars

-----------------------------------------------------------------------------
(* What the app does with what it hears.                                   *)

LastArrived(held, call) == call

\* newestCloudCallSnapshot.
Newest(held, call) ==
  IF Holds(held, call.id) /\ (held.ended \/ held.rev > call.rev) THEN held ELSE call

Without(held, i) == IF Holds(held, i) THEN NoCall ELSE held

EndForgotten(i) == FALSE
SeenToEnd(i) == i \in endedSeen

\* updateCall, when the app is in the call inCall; every update makes a poll
\* under way out of date.
UpdateCall(call, inCall) ==
  /\ listing' = IF listing = NoCall THEN NoCall ELSE [listing EXCEPT !.stale = TRUE]
  /\ endedSeen' = IF call.ended THEN endedSeen \cup {call.id} ELSE endedSeen
  /\ IF call.ended
     THEN /\ shown' = Without(shown, call.id)
          /\ current' = Without(inCall, call.id)
     ELSE IF SeenToEnd(call.id)
     THEN shown' = shown /\ current' = inCall
     ELSE /\ shown' = Newest(shown, call)
          /\ current' = IF Holds(inCall, call.id) THEN Newest(inCall, call) ELSE inCall

\* resetCurrent starts a new operation: a start or a join under way is ignored
\* when it is answered.
Reset == answer' = IF answer # NoCall /\ answer.to \in {"start", "join"}
                   THEN NoCall ELSE answer

AppGetsAnswer ==
  /\ answer # NoCall
  /\ UpdateCall(answer.call, CASE answer.to \in {"start", "join"} -> answer.call
                               [] answer.to = "leave" -> NoCall
                               [] OTHER -> current)
  /\ answer' = NoCall
  /\ UNCHANGED <<callVars, diffAt, pushAt>>

AppGetsEvent(call) ==
  /\ UpdateCall(call, current)
  /\ IF call.ended /\ Holds(current, call.id) THEN Reset ELSE UNCHANGED answer

DiffDelivers ==
  /\ diffAt < Len(callEvents)
  /\ diffAt' = diffAt + 1
  /\ AppGetsEvent(callEvents[diffAt'])
  /\ UNCHANGED <<callVars, pushAt>>

\* The socket delivers in order, and not everything.
PushDelivers ==
  /\ pushAt' \in (pushAt + 1)..Len(callEvents)
  /\ AppGetsEvent(callEvents[pushAt'])
  /\ UNCHANGED <<callVars, diffAt>>

\* A new poll overtakes the one under way.
AskForCalls ==
  /\ listing' = [read |-> FALSE, stale |-> FALSE, call |-> NoCall]
  /\ UNCHANGED <<callVars, diffAt, pushAt, answer, callView>>

Listed == {i \in OpenCalls : calls[i].part[Me] \in {"invited", "joined"}}

ListRinging ==
  LET ringing == {i \in Listed : calls[i].state = "ringing"} IN
  /\ listing # NoCall /\ ~listing.read
  /\ listing' = [listing EXCEPT !.read = TRUE,
                   !.call = IF ringing = {} THEN NoCall
                            ELSE Snapshot(CHOOSE i \in ringing : TRUE)]
  /\ UNCHANGED <<callVars, diffAt, pushAt, answer, callView>>

ListCalls ==
  /\ listing # NoCall /\ ~listing.read
  /\ listing' = [listing EXCEPT !.read = TRUE,
                   !.call = IF Listed = {} THEN NoCall
                            ELSE Snapshot(CHOOSE i \in Listed : TRUE)]
  /\ UNCHANGED <<callVars, diffAt, pushAt, answer, callView>>

AppGetsCalls ==
  /\ listing # NoCall /\ listing.read
  /\ listing' = NoCall
  /\ IF listing.stale THEN UNCHANGED <<shown, current, answer>>
     ELSE /\ shown' = IF listing.call # NoCall /\ listing.call.id \notin endedSeen
                      THEN listing.call ELSE NoCall
          /\ IF current = NoCall THEN UNCHANGED <<current, answer>>
             ELSE IF current.id \in endedSeen \/ ~Holds(listing.call, current.id)
             THEN current' = NoCall /\ Reset
             ELSE current' = listing.call /\ UNCHANGED answer
  /\ UNCHANGED <<callVars, diffAt, pushAt, endedSeen>>

\* The call goes on in a window of its own.
MoveToWindow ==
  /\ current # NoCall
  /\ current' = NoCall
  /\ Reset
  /\ UNCHANGED <<callVars, diffAt, pushAt, listing, shown, endedSeen>>

\* The app restarts, or another account signs in and out again.
AppRestarts ==
  /\ shown' = NoCall /\ current' = NoCall /\ endedSeen' = {}
  /\ answer' = NoCall /\ listing' = NoCall
  /\ UNCHANGED <<callVars, diffAt, pushAt>>

-----------------------------------------------------------------------------
CallsAppNext ==
  \/ ServerAnswers \/ ServerAlone
  \/ AppGetsAnswer \/ DiffDelivers \/ PushDelivers
  \/ AskForCalls \/ ListCalls \/ AppGetsCalls
  \/ MoveToWindow \/ AppRestarts

\* The sync keeps up, answers arrive, and the app polls for ever.
CallsAppFairness ==
  /\ WF_callsAndApp(DiffDelivers) /\ WF_callsAndApp(AppGetsAnswer)
  /\ WF_callsAndApp(AskForCalls) /\ WF_callsAndApp(ListCalls)
  /\ SF_callsAndApp(AppGetsCalls)

CallsAppSpec ==
  CallsAppInit /\ [][CallsAppNext]_callsAndApp /\ CallsAppFairness

-----------------------------------------------------------------------------
(* Properties.                                                             *)

\* What the app shows of a call never goes back to an older revision, however
\* answers, pushes, sync events and polls overtake each other (updateCall,
\* shouldApplyActiveCallSnapshot).
ShownNeverOlder ==
  [][shown # NoCall /\ shown' # NoCall /\ shown.id = shown'.id
       => shown.rev <= shown'.rev]_callsAndApp

\* A call the app saw end is not shown again (locallyEndedCallIds).
SeenEndedStaysGone == shown # NoCall => ~shown.ended /\ shown.id \notin endedSeen

Settled ==
  diffAt = Len(callEvents) =>
  /\ \A i \in Listed : shown = Snapshot(i)
  /\ OpenCalls = {} => shown = NoCall /\ current = NoCall
  /\ current # NoCall => current.id \in OpenCalls

\* Once calls stop changing and the app restarts no more, it shows the open
\* call as it is, and nothing of a call that is over; calls change finitely
\* often in an instance, and its module bounds the restarts.
ShowsTheCall == <>[]Settled

=============================================================================
