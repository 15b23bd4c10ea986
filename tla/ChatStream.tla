----------------------------- MODULE ChatStream -----------------------------
(***************************************************************************)
(* The chat stream of one account and a device that follows it: the server *)
(* side (chat_sync/store: sync_events.rs, cursors.rs, dissolve.rs,         *)
(* retention.rs), the desktop's sync (useCloudMessageSync.ts,              *)
(* chatSyncSyncClient.ts) and its local database (chat_sync/apply.rs,      *)
(* projection.rs, deletions.rs).                                           *)
(*                                                                         *)
(* A message is named by the number of the event that created it.          *)
(***************************************************************************)
EXTENDS Naturals, Sequences, FiniteSets

CONSTANTS
  Chats,       \* the conversations the account starts in
  MaxEvents,   \* bound: events of the stream
  PageSize,    \* events in one answer to the sync
  NoPage       \* no page of history under way

ASSUME ChatStreamAssumption == MaxEvents \in Nat /\ PageSize \in Nat \ {0}

VARIABLES
  stream,      \* the events, in stream_seq order
  kept,        \* the numbers of those whose rows are still there
  minSeq,      \* cloud_chat_user_sync_heads.min_seq
  posted,      \* the messages the server has
  inChats,     \* where the account is an active member
  dissolved,   \* conversations that were dissolved
  cursor,      \* last_stream_seq of the device's database
  held,        \* chat_sync_messages
  heldChats,   \* chat_sync_conversations
  deletions,   \* chat_sync_message_deletions
  sync,        \* the sync under way
  page,        \* the page of history under way
  bootedAt     \* number of the last bootstrap: read by properties only

streamVars == <<stream, kept, minSeq, posted, inChats, dissolved>>
deviceVars == <<cursor, held, heldChats, deletions, bootedAt>>
chatVars == <<streamVars, deviceVars, sync, page>>

Numbers == 1..Len(stream)
ChatOf(m) == stream[m].chat
Events == [ kind : {"message", "deleted", "removed"}, chat : Chats, msg : Nat ]

NoSync == [at |-> "idle"]
Syncs ==
  {NoSync}
    \cup [ at : {"asked", "checked"}, from : Nat, retried : BOOLEAN ]
    \cup [ at : {"changes"}, rows : SUBSET Numbers, last : Nat, more : BOOLEAN, retried : BOOLEAN ]
    \cup [ at : {"bootstrap"}, retried : BOOLEAN ]
    \cup [ at : {"snapshot"}, last : Nat, msgs : SUBSET Numbers, chats : SUBSET Chats,
           retried : BOOLEAN ]

ChatTypeOK ==
  /\ stream \in Seq(Events)
  /\ kept \subseteq Numbers
  /\ minSeq \in 0..Len(stream)
  /\ posted \subseteq Numbers
  /\ inChats \subseteq Chats /\ dissolved \subseteq Chats
  /\ cursor \in 0..Len(stream) /\ bootedAt \in 0..cursor
  /\ held \subseteq Numbers /\ deletions \subseteq Numbers
  /\ heldChats \subseteq Chats
  /\ sync \in Syncs
  /\ page = NoPage \/ page \subseteq Numbers

ChatInit ==
  /\ stream = <<>> /\ kept = {} /\ minSeq = 0
  /\ posted = {} /\ inChats = Chats /\ dissolved = {}
  /\ cursor = 0 /\ bootedAt = 0
  /\ held = {} /\ heldChats = Chats /\ deletions = {}
  /\ sync = NoSync /\ page = NoPage

-----------------------------------------------------------------------------
(* The server: every change appends its event in the same transaction.     *)

MessagesOf(c) == {m \in posted : ChatOf(m) = c}
Latest(ns) == CHOOSE n \in ns : \A k \in ns : k <= n

Tell(kind, c, m, rows) ==
  /\ Len(stream) < MaxEvents
  /\ stream' = Append(stream, [kind |-> kind, chat |-> c, msg |-> m])
  /\ kept' = rows \cup {Len(stream) + 1}

PostMessage(c) ==
  /\ c \in inChats
  /\ Tell("message", c, Len(stream) + 1, kept)
  /\ posted' = posted \cup {Len(stream) + 1}
  /\ UNCHANGED <<minSeq, inChats, dissolved, deviceVars, sync, page>>

DeleteMessage(m) ==
  /\ m \in posted /\ ChatOf(m) \in inChats
  /\ Tell("deleted", ChatOf(m), m, kept)
  /\ posted' = posted \ {m}
  /\ UNCHANGED <<minSeq, inChats, dissolved, deviceVars, sync, page>>

\* The account leaves, or an admin takes it out.
LeaveChat(c) ==
  /\ c \in inChats
  /\ Tell("removed", c, 0, kept)
  /\ inChats' = inChats \ {c}
  /\ UNCHANGED <<minSeq, posted, dissolved, deviceVars, sync, page>>

\* Deletes the conversation's rows in every stream, and tells its members.
DissolveChat(c) ==
  LET others == {s \in kept : ChatOf(s) # c} IN
  /\ c \notin dissolved
  /\ IF c \in inChats THEN Tell("removed", c, 0, others)
     ELSE kept' = others /\ UNCHANGED stream
  /\ posted' = posted \ MessagesOf(c)
  /\ inChats' = inChats \ {c}
  /\ dissolved' = dissolved \cup {c}
  /\ UNCHANGED <<minSeq, deviceVars, sync, page>>

SweepShort ==
  /\ \E n \in kept : minSeq' = n - 1 /\ kept' = {s \in kept : s > n}
  /\ UNCHANGED <<stream, posted, inChats, dissolved, deviceVars, sync, page>>

\* The retention sweep: one statement.
SweepExpired ==
  /\ \E n \in kept : minSeq' = n /\ kept' = {s \in kept : s > n}
  /\ UNCHANGED <<stream, posted, inChats, dissolved, deviceVars, sync, page>>

-----------------------------------------------------------------------------
(* The device's sync: one at a time (cloudSyncCoordinator.ts).             *)

Bootstrap(retried) == [at |-> "bootstrap", retried |-> retried]
Ask(from, retried) == [at |-> "asked", from |-> from, retried |-> retried]

GiveUp(failed) == NoSync

\* A failed sync is tried once more as a bootstrap.
Fallback(failed) == IF failed.retried THEN NoSync ELSE Bootstrap(TRUE)

BeginSync ==
  /\ sync = NoSync
  /\ sync' = Ask(cursor, FALSE)
  /\ UNCHANGED <<streamVars, deviceVars, page>>

\* A full refresh.
BeginRefresh ==
  /\ sync = NoSync
  /\ sync' = Bootstrap(TRUE)
  /\ UNCHANGED <<streamVars, deviceVars, page>>

\* sync_batch reads the head, then the rows, in no transaction.
ReadHead ==
  /\ sync.at = "asked"
  /\ sync' = IF sync.from < minSeq THEN Bootstrap(sync.retried)
             ELSE [sync EXCEPT !.at = "checked"]
  /\ UNCHANGED <<streamVars, deviceVars, page>>

GapWithin(from, taken) == \E n \in Numbers \ taken, s, t \in taken : s < n /\ n < t
HasGap(from, taken) == taken # from + 1 .. from + Cardinality(taken)

ReadRows ==
  LET rows  == {s \in kept : s > sync.from}
      taken == {s \in rows : Cardinality({r \in rows : r <= s}) <= PageSize}
      last  == IF taken = {} THEN sync.from ELSE Latest(taken)
  IN
  /\ sync.at = "checked"
  /\ sync' = IF HasGap(sync.from, taken) THEN Fallback(sync)
             ELSE [ at |-> "changes", rows |-> taken, last |-> last, more |-> rows # taken,
                    retried |-> sync.retried ]
  /\ UNCHANGED <<streamVars, deviceVars, page>>

\* bootstrap: one repeatable-read snapshot, with each chat's last message.
ReadSnapshot ==
  /\ sync.at = "bootstrap"
  /\ sync' = [ at |-> "snapshot", last |-> Len(stream), chats |-> inChats,
               msgs |-> {Latest(MessagesOf(c)) : c \in {d \in inChats : MessagesOf(d) # {}}},
               retried |-> sync.retried ]
  /\ UNCHANGED <<streamVars, deviceVars, page>>

\* The request fails, or its answer is lost.
SyncFails ==
  /\ sync # NoSync
  /\ sync' = Fallback(sync)
  /\ UNCHANGED <<streamVars, deviceVars, page>>

-----------------------------------------------------------------------------
(* The device's database: one transaction with the cursor.                 *)

Batch(kind) == {s \in sync.rows : stream[s].kind = kind}
Removed == {ChatOf(s) : s \in Batch("removed")}
Mentioned == {ChatOf(s) : s \in Batch("message") \cup Batch("deleted")}

RemovedFirst == (heldChats \ Removed) \cup Mentioned
ChatsAfterwards == (heldChats \cup Mentioned) \ Removed

ApplyChanges ==
  /\ sync.at = "changes"
  /\ deletions' = deletions \cup {stream[s].msg : s \in Batch("deleted")}
  /\ held' = {m \in held \cup (Batch("message") \ deletions') : ChatOf(m) \notin Removed}
               \ deletions'
  /\ heldChats' = ChatsAfterwards
  /\ cursor' = sync.last
  /\ sync' = IF sync.more THEN Ask(sync.last, sync.retried) ELSE NoSync
  /\ UNCHANGED <<streamVars, bootedAt, page>>

ApplySnapshot ==
  /\ sync.at = "snapshot"
  /\ held' = sync.msgs \ deletions
  /\ heldChats' = sync.chats
  /\ cursor' = sync.last /\ bootedAt' = sync.last
  /\ sync' = NoSync
  /\ UNCHANGED <<streamVars, deletions, page>>

\* hydrateMissingChatHistory runs beside the syncs and reads the chats of which
\* the device lacks a message.
ReadPage(c) ==
  /\ page = NoPage
  /\ c \in heldChats \cap inChats
  /\ \E m \in 1..cursor : ChatOf(m) = c /\ stream[m].kind = "message" /\ m \notin held
  /\ page' = MessagesOf(c)
  /\ UNCHANGED <<streamVars, deviceVars, sync>>

ApplyPageAsRead ==
  /\ page # NoPage
  /\ held' = held \cup page
  /\ page' = NoPage
  /\ UNCHANGED <<streamVars, cursor, heldChats, deletions, bootedAt, sync>>

ApplyPage ==
  /\ page # NoPage
  /\ held' = held \cup (page \ deletions)
  /\ page' = NoPage
  /\ UNCHANGED <<streamVars, cursor, heldChats, deletions, bootedAt, sync>>

\* The app quits and starts again: what was under way is gone.
AppQuits ==
  /\ sync' = NoSync /\ page' = NoPage
  /\ UNCHANGED <<streamVars, deviceVars>>

-----------------------------------------------------------------------------
ChatServer ==
  \/ \E c \in Chats : PostMessage(c) \/ LeaveChat(c) \/ DissolveChat(c)
  \/ \E m \in posted : DeleteMessage(m)
  \/ SweepExpired

ChatDevice ==
  \/ BeginSync \/ ReadHead \/ ReadRows \/ ReadSnapshot
  \/ ApplyChanges \/ ApplySnapshot
  \/ \E c \in Chats : ReadPage(c)
  \/ ApplyPage

ChatFaults == SyncFails \/ AppQuits \/ BeginRefresh

ChatNext == ChatServer \/ ChatDevice \/ ChatFaults

\* Polling begins syncs for ever; a step of the device that can go on does.
ChatFairness ==
  /\ WF_chatVars(BeginSync)
  /\ WF_chatVars(ReadHead) /\ WF_chatVars(ReadRows)
  /\ WF_chatVars(ReadSnapshot)
  /\ WF_chatVars(ApplyChanges) /\ WF_chatVars(ApplySnapshot)
  /\ \A c \in Chats : WF_chatVars(ReadPage(c))
  /\ WF_chatVars(ApplyPage)

ChatSpec == ChatInit /\ [][ChatNext]_chatVars /\ ChatFairness

-----------------------------------------------------------------------------
(* Properties.                                                             *)

\* The device never skips an event: it has every message the server has for it
\* that was posted after its last bootstrap and by its cursor, however syncs,
\* sweeps, dissolved chats, pages of history and restarts interleave.
NothingSkipped ==
  \A m \in posted :
    bootedAt < m /\ m <= cursor /\ ChatOf(m) \in inChats => m \in held /\ ChatOf(m) \in heldChats

\* A removal the device has recorded is terminal: no bootstrap and no page of
\* history read before it brings the message back (deletions.rs).
DeletedStaysDeleted == held \cap deletions = {}

\* A chat whose removal the device has read stays gone.
RemovalsApplied ==
  \A s \in 1..cursor : stream[s].kind = "removed" => ChatOf(s) \notin heldChats

\* Still to come: beyond the cursor, and the next sync reads it or is told to
\* start over (ReadHead).
Ahead(s) == cursor < s /\ (s \in kept \/ s <= minSeq)

\* Whatever the device misses is still to come: retention, a dissolved chat or
\* a lost answer never leaves it with a cursor from which no sync brings the
\* message, or the end of a chat it still lists.
MissingIsAhead ==
  /\ \A m \in posted : ChatOf(m) \in inChats /\ bootedAt < m /\ m \notin held => Ahead(m)
  /\ \A c \in heldChats \ (inChats \cup dissolved) :
       \E s \in Numbers : stream[s].kind = "removed" /\ ChatOf(s) = c /\ Ahead(s)

ChatCaughtUp ==
  /\ \A m \in posted : ChatOf(m) \in inChats => m \in held /\ ChatOf(m) \in heldChats
  /\ heldChats \subseteq inChats \cup dissolved

\* When requests fail, apps quit and full refreshes begin only finitely often
\* (its instance bounds them), the device in the end has all the messages of
\* its chats, and none of the chats it left that still exist.
DeviceCatchesUp == <>[]ChatCaughtUp

\* "Removed accounts receive a durable tombstone": a device that nothing in
\* the stream follows shows no chat the account is not in.
RemovedChatsAreDropped ==
  cursor >= minSeq /\ (\A s \in kept : s <= cursor) => heldChats \subseteq inChats

=============================================================================
