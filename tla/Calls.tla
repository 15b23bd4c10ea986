-------------------------------- MODULE Calls --------------------------------
(***************************************************************************)
(* The server's voice and video calls of one conversation (calls/store.rs, *)
(* calls/store/start.rs) and the end of a call after a block               *)
(* (safety/block_routes.rs).                                               *)
(*                                                                         *)
(* Every operation is one transaction on the locked call row, so each is   *)
(* one action; start alone reads the blocks before it holds a row that a   *)
(* block would wait for, and is two.                                       *)
(***************************************************************************)
EXTENDS Naturals, Sequences

CONSTANTS
  Accounts,    \* the active members of the conversation
  Me,          \* the account whose sync stream is modelled
  MaxCalls,    \* bound: calls started in the conversation
  MaxRevision, \* bound: the revision of a call that still changes
  NoCall       \* no call, no request

ASSUME CallsAssumption ==
  /\ Me \in Accounts /\ NoCall \notin Accounts
  /\ MaxCalls \in Nat /\ MaxRevision \in Nat

VARIABLES
  group,       \* the conversation is a group: its calls are meetings
  blocks,      \* <<blocker, blocked>> rows
  calls,       \* the calls, in the order they were started
  starting,    \* the start request past its check for blocks
  ending,      \* the block whose calls are being ended
  callEvents   \* the call events in Me's sync stream

callVars == <<group, blocks, calls, starting, ending, callEvents>>

CallStates == {"ringing", "active", "ended"}
ParticipantStates == {"none", "invited", "joined", "declined", "left"}
CallRows == [ state : CallStates, by : Accounts, rev : Nat,
              part : [Accounts -> ParticipantStates],
              note : {"started", "ended"} ]

\* What a CallSnapshot tells of a call, here.
Snapshots == [ id : Nat, rev : Nat, ended : BOOLEAN ]
SnapshotOf(i, row) == [id |-> i, rev |-> row.rev, ended |-> row.state = "ended"]
Snapshot(i) == SnapshotOf(i, calls[i])

CallsTypeOK ==
  /\ group \in BOOLEAN
  /\ blocks \subseteq Accounts \X Accounts
  /\ calls \in Seq(CallRows)
  /\ starting \in Accounts \cup {NoCall}
  /\ ending \in 0..Len(calls) \cup {NoCall}
  /\ callEvents \in Seq(Snapshots)

CallsInit ==
  /\ group \in BOOLEAN
  /\ blocks = {}
  /\ calls = <<>> /\ callEvents = <<>>
  /\ starting = NoCall /\ ending = NoCall

IsOpen(i) == calls[i].state # "ended"
OpenCalls == {i \in DOMAIN calls : IsOpen(i)}
Joined(row) == {a \in Accounts : row.part[a] = "joined"}
Apart(a, b) == <<a, b>> \in blocks \/ <<b, a>> \in blocks

-----------------------------------------------------------------------------
(* The server: a change of a call raises its revision and is published to  *)
(* its participants in the same transaction.                               *)

PublishToPresent(i, row) ==
  callEvents' = IF row.part[Me] \in {"none", "declined", "left"} THEN callEvents
                ELSE Append(callEvents, SnapshotOf(i, row))

Publish(i, row) ==
  callEvents' = IF row.part[Me] = "none" THEN callEvents
                ELSE Append(callEvents, SnapshotOf(i, row))

Change(i, row) ==
  LET next == [row EXCEPT !.rev = calls[i].rev + 1] IN
  /\ calls[i].rev < MaxRevision
  /\ calls' = [calls EXCEPT ![i] = next]
  /\ Publish(i, next)

NoChange == UNCHANGED <<calls, callEvents>>

callFrame == <<group, blocks, starting, ending>>

EveryoneLeaves(row) ==
  [row EXCEPT !.state = "ended", !.note = "ended",
     !.part = [a \in Accounts |->
                 IF row.part[a] \in {"none", "declined"} THEN row.part[a] ELSE "left"]]

\* start: an advisory lock lets one start of the conversation in at a time.
StartChecks(a) ==
  /\ starting = NoCall
  /\ group \/ \A b \in Accounts : ~Apart(a, b)
  /\ starting' = a
  /\ UNCHANGED <<group, blocks, calls, ending, callEvents>>

NewCall(a) ==
  [ state |-> IF group THEN "active" ELSE "ringing", by |-> a, rev |-> 1,
    part |-> [b \in Accounts |-> IF b = a THEN "joined"
                                 ELSE IF Apart(a, b) THEN "none" ELSE "invited"],
    note |-> "started" ]

StartInserts(a) ==
  /\ starting = a /\ OpenCalls = {}
  /\ Len(calls) < MaxCalls
  /\ calls' = Append(calls, NewCall(a))
  /\ Publish(Len(calls) + 1, NewCall(a))
  /\ starting' = NoCall
  /\ UNCHANGED <<group, blocks, ending>>

\* In a meeting the caller joins it, in vain without a participant row.
StartFindsOpen(a) ==
  /\ starting = a
  /\ \E i \in OpenCalls :
       /\ group \/ calls[i].by = a
       /\ IF group /\ calls[i].part[a] # "joined"
          THEN Change(i, IF calls[i].part[a] = "none" THEN calls[i]
                         ELSE [calls[i] EXCEPT !.part[a] = "joined"])
          ELSE NoChange
  /\ starting' = NoCall
  /\ UNCHANGED <<group, blocks, ending>>

\* Refused (someone else's call is open), or the request failed.
StartFails ==
  /\ starting # NoCall
  /\ starting' = NoCall
  /\ UNCHANGED <<group, blocks, calls, ending, callEvents>>

Join(a, i) ==
  /\ i \in OpenCalls
  /\ calls[i].part[a] \in IF group THEN ParticipantStates \ {"none"}
                          ELSE {"invited", "joined"}
  /\ IF calls[i].part[a] # "joined"
     THEN Change(i, [calls[i] EXCEPT !.part[a] = "joined", !.state = "active"])
     ELSE NoChange
  /\ UNCHANGED callFrame

Invite(a, i) ==
  LET absent == {b \in Accounts : /\ calls[i].part[b] \notin {"none", "joined"}
                                  /\ ~Apart(a, b)}
  IN
  /\ group /\ i \in OpenCalls
  /\ calls[i].part[a] = "joined"
  /\ IF absent = {} THEN NoChange
     ELSE Change(i, [calls[i] EXCEPT !.part =
                  [b \in Accounts |-> IF b \in absent THEN "invited" ELSE @[b]]])
  /\ UNCHANGED callFrame

Decline(a, i) ==
  LET declined == [calls[i] EXCEPT !.part[a] = "declined"] IN
  /\ i \in OpenCalls
  /\ a # calls[i].by
  /\ calls[i].part[a] = "invited"
  /\ Change(i, IF group THEN declined
               ELSE [declined EXCEPT !.state = "ended", !.note = "ended"])
  /\ UNCHANGED callFrame

NobodyExpected(row) == \A a \in Accounts : row.part[a] \notin {"joined", "invited"}
NobodyLeft(row) == Joined(row) = {}

\* Leaving what is over, or was left, answers with the call as it is.
Leave(a, i) ==
  LET gone == [calls[i] EXCEPT !.part[a] = "left"] IN
  /\ i \in DOMAIN calls
  /\ calls[i].part[a] # "none"
  /\ IF ~IsOpen(i) \/ calls[i].part[a] \in {"left", "declined"}
     THEN NoChange
     ELSE Change(i, IF ~group \/ NobodyLeft(gone)
                    THEN [gone EXCEPT !.state = "ended", !.note = "ended"]
                    ELSE gone)
  /\ UNCHANGED callFrame

EndCall(a, i) ==
  /\ i \in DOMAIN calls
  /\ calls[i].part[a] # "none"
  /\ group => calls[i].by = a
  /\ IF IsOpen(i) THEN Change(i, EveryoneLeaves(calls[i])) ELSE NoChange
  /\ UNCHANGED callFrame

-----------------------------------------------------------------------------
(* Blocks.  The calls of the pair are looked up after the block committed  *)
(* and ended one by one; a failure or a restart leaves them.               *)

Block(a, b) ==
  /\ a # b /\ <<a, b>> \notin blocks
  /\ ending = NoCall
  /\ blocks' = blocks \cup {<<a, b>>}
  /\ \/ ending' = NoCall
     \/ ~group /\ ending' = 0
  /\ UNCHANGED <<group, starting, calls, callEvents>>

Unblock(a, b) ==
  /\ <<a, b>> \in blocks
  /\ blocks' = blocks \ {<<a, b>>}
  /\ UNCHANGED <<group, starting, calls, ending, callEvents>>

BlockFindsCall ==
  /\ ending = 0
  /\ ending' = IF OpenCalls = {} THEN NoCall
               ELSE CHOOSE i \in OpenCalls : TRUE
  /\ UNCHANGED <<group, starting, blocks, calls, callEvents>>

BlockEndsAgain ==
  /\ ending \in DOMAIN calls
  /\ Change(ending, EveryoneLeaves(calls[ending]))
  /\ ending' = NoCall
  /\ UNCHANGED <<group, starting, blocks>>

BlockEndsCall ==
  /\ ending \in DOMAIN calls
  /\ IF IsOpen(ending) THEN Change(ending, EveryoneLeaves(calls[ending])) ELSE NoChange
  /\ ending' = NoCall
  /\ UNCHANGED <<group, starting, blocks>>

BlockStopsShort ==
  /\ ending # NoCall
  /\ ending' = NoCall
  /\ UNCHANGED <<group, starting, blocks, calls, callEvents>>

-----------------------------------------------------------------------------
CallsNext ==
  \/ \E a \in Accounts : StartChecks(a) \/ StartInserts(a) \/ StartFindsOpen(a)
  \/ StartFails
  \/ \E a \in Accounts, i \in DOMAIN calls :
       \/ Join(a, i) \/ Invite(a, i) \/ Decline(a, i) \/ Leave(a, i) \/ EndCall(a, i)
  \/ \E a, b \in Accounts : Block(a, b) \/ Unblock(a, b)
  \/ BlockFindsCall \/ BlockEndsCall \/ BlockStopsShort

CallsSpec == CallsInit /\ [][CallsNext]_callVars

-----------------------------------------------------------------------------
(* Properties.                                                             *)

\* An open call has somebody in it: whoever leaves last ends the call
\* (leave counts who is left, calls/store.rs), and no operation takes anyone
\* but its caller out of an open call.
OpenCallHasSomeone == \A i \in OpenCalls : Joined(calls[i]) # {}

\* The revision tells an app which of two snapshots is the newer one: the
\* stream of a participant holds a call's changes with growing revisions, an
\* ended snapshot last, and ends with the call as it is.
EventsTellTheCall ==
  /\ \A m, n \in DOMAIN callEvents :
       m < n /\ callEvents[m].id = callEvents[n].id
         => callEvents[m].rev < callEvents[n].rev /\ ~callEvents[m].ended
  /\ \A i \in DOMAIN calls :
       calls[i].part[Me] # "none" => \E n \in DOMAIN callEvents : callEvents[n] = Snapshot(i)

\* An ended call does not change any more, whoever still joins, declines,
\* leaves, ends it or was about to (calls/store.rs).
EndedCallsAreFinal ==
  [][\A i \in DOMAIN calls : ~IsOpen(i) => calls'[i] = calls[i]]_callVars

=============================================================================
