--------------------------- MODULE ChatStreamProofs ---------------------------
(***************************************************************************)
(* Proofs about the chat stream and the device that follows it.  The       *)
(* stream agrees with the state it tells of (StreamInv); a sync under way  *)
(* goes on from the cursor of the database, without a gap (SyncInv).       *)
(***************************************************************************)
EXTENDS ChatStream, FiniteSetTheorems, SequenceTheorems, WellFoundedInduction, TLAPS

Kind(s) == stream[s].kind

StreamInv ==
  /\ \A m \in posted : Kind(m) = "message"
  /\ \A s \in Numbers : Kind(s) = "deleted" => stream[s].msg \in Numbers \ posted
  /\ \A s \in Numbers : Kind(s) = "removed" => ChatOf(s) \notin inChats
  /\ \A s, t \in Numbers : Kind(s) = "removed" /\ s < t => ChatOf(t) # ChatOf(s)
  /\ \A d \in deletions : d \notin posted

SyncInv ==
  /\ sync.at \in {"asked", "checked"} => sync.from = cursor
  /\ sync.at = "changes" =>
       /\ sync.last \in cursor..Len(stream)
       /\ sync.rows = cursor + 1 .. sync.last
  /\ sync.at = "snapshot" =>
       /\ sync.last \in cursor..Len(stream)
       /\ \A s \in 1..sync.last : Kind(s) = "removed" => ChatOf(s) \notin sync.chats

ChatInv ==
  /\ ChatTypeOK /\ StreamInv /\ SyncInv
  /\ NothingSkipped /\ DeletedStaysDeleted /\ RemovalsApplied

-----------------------------------------------------------------------------
(* The last of a set of numbers.                                           *)

LEMMA LatestIsOne ==
  ASSUME NEW top \in Nat, NEW ns \in SUBSET (1..top), ns # {}
  PROVE  Latest(ns) \in ns /\ \A k \in ns : k <= Latest(ns)
<1> DEFINE below == {top - n : n \in ns}
<1>1. below \subseteq Nat /\ below # {}
  <2>1. \A n \in ns : n \in 1..top /\ top - n \in Nat
    OBVIOUS
  <2> QED
    BY <2>1
<1>2. PICK b \in below : \A c \in below : ~(<<c, b>> \in OpToRel(<, Nat))
  BY <1>1, NatLessThanWellFounded, WFMin
<1>3. \A c \in below : ~(c < b)
  BY <1>1, <1>2 DEF OpToRel
<1>4. \E n \in ns : \A k \in ns : k <= n
  <2>1. PICK n \in ns : b = top - n
    BY <1>2
  <2>2. \A k \in ns : ~(top - k < b)
    BY <1>3
  <2> QED
    BY <2>1, <2>2
<1> QED
  BY <1>4 DEF Latest

LEMMA LatestOfInterval ==
  ASSUME NEW a \in Nat, NEW b \in Nat, a + 1 <= b
  PROVE  Latest(a + 1 .. b) = b
<1>1. a + 1 .. b \in SUBSET (1..b) /\ b \in a + 1 .. b
  OBVIOUS
<1>2. Latest(a + 1 .. b) \in a + 1 .. b /\ \A k \in a + 1 .. b : k <= Latest(a + 1 .. b)
  BY <1>1, LatestIsOne
<1> QED
  BY <1>1, <1>2

-----------------------------------------------------------------------------
LEMMA StreamType ==
  ASSUME ChatTypeOK
  PROVE  /\ Len(stream) \in Nat
         /\ \A s \in Numbers : stream[s] \in Events
         /\ cursor \in 0..Len(stream)
BY LenProperties, ElementOfSeq DEF ChatTypeOK, Numbers

\* The fields of a sync under way.
LEMMA SyncType ==
  ASSUME ChatTypeOK
  PROVE  /\ sync.at \in {"asked", "checked"} =>
              /\ sync \in [ at : {"asked", "checked"}, from : Nat, retried : BOOLEAN ]
         /\ sync.at = "changes" =>
              /\ sync \in [ at : {"changes"}, rows : SUBSET Numbers, last : Nat,
                            more : BOOLEAN, retried : BOOLEAN ]
         /\ sync.at = "snapshot" =>
              /\ sync \in [ at : {"snapshot"}, last : Nat, msgs : SUBSET Numbers,
                            chats : SUBSET Chats, retried : BOOLEAN ]
         /\ sync.at = "bootstrap" => sync.retried \in BOOLEAN
BY DEF ChatTypeOK, Syncs, NoSync

\* A change of the server adds one event at most.
LEMMA Told ==
  ASSUME ChatTypeOK, NEW kind \in {"message", "deleted", "removed"}, NEW c \in Chats,
         NEW m \in Nat, NEW rows \in SUBSET Numbers, Tell(kind, c, m, rows)
  PROVE  /\ stream' \in Seq(Events) /\ Len(stream') = Len(stream) + 1
         /\ \A s \in Numbers : stream'[s] = stream[s]
         /\ stream'[Len(stream) + 1] = [kind |-> kind, chat |-> c, msg |-> m]
         /\ kept' \subseteq Numbers'
         /\ Numbers' = Numbers \cup {Len(stream) + 1}
<1> DEFINE e == [kind |-> kind, chat |-> c, msg |-> m]
<1>1. e \in Events
  BY DEF Events
<1>2. stream \in Seq(Events) /\ Len(stream) \in Nat
  BY StreamType DEF ChatTypeOK
<1>3. /\ stream' \in Seq(Events) /\ Len(stream') = Len(stream) + 1
      /\ \A s \in 1..Len(stream) : stream'[s] = stream[s]
      /\ stream'[Len(stream) + 1] = e
  <2>1. stream' = Append(stream, e)
    BY DEF Tell
  <2> HIDE DEF e
  <2> QED
    BY <1>1, <1>2, <2>1, AppendProperties
<1>4. Numbers' = Numbers \cup {Len(stream) + 1}
  BY <1>2, <1>3 DEF Numbers
<1>5. kept' \subseteq Numbers'
  BY <1>4 DEF Tell
<1>6. \A s \in Numbers : stream'[s] = stream[s]
  BY <1>3 DEF Numbers
<1> QED
  BY <1>3, <1>4, <1>5, <1>6

LEMMA ChatInitInv == ChatInit => ChatInv
<1> SUFFICES ASSUME ChatInit PROVE ChatInv
  OBVIOUS
<1>1. Len(stream) = 0 /\ stream \in Seq(Events) /\ Numbers = {}
  BY DEF ChatInit, Numbers
<1>2. ChatTypeOK
  BY <1>1 DEF ChatInit, ChatTypeOK, NoSync, Syncs
<1>3. StreamInv /\ SyncInv
  BY <1>1 DEF ChatInit, StreamInv, SyncInv, NoSync
<1>4. NothingSkipped /\ DeletedStaysDeleted /\ RemovalsApplied
  BY DEF ChatInit, NothingSkipped, DeletedStaysDeleted, RemovalsApplied
<1> QED
  BY <1>2, <1>3, <1>4 DEF ChatInv

-----------------------------------------------------------------------------
(* The server: a change adds an event of a chat the account is in, and     *)
(* nothing comes back into posted or inChats.                              *)

\* What a server step does to the state, with the event it adds, if any.
ServerStep ==
  /\ UNCHANGED <<deviceVars, sync, page>>
  /\ inChats' \subseteq inChats
  /\ \/ /\ stream' = stream /\ posted' \subseteq posted
     \/ \E e \in Events :
          /\ e.chat \in inChats
          /\ stream' = Append(stream, e)
          /\ posted' \subseteq posted \cup (IF e.kind = "message" THEN {Len(stream) + 1} ELSE {})
          /\ e.kind = "deleted" => e.msg \in Numbers \ posted'
          /\ e.kind = "removed" => e.chat \notin inChats'

ServerFacts ==
  /\ ServerStep
  /\ kept' \subseteq Numbers' /\ minSeq' \in 0..Len(stream')
  /\ dissolved' \subseteq Chats

LEMMA ServerShape ==
  ASSUME ChatTypeOK, StreamInv, ChatServer
  PROVE  ServerFacts
<1> USE DEF ChatTypeOK
<1>0. Len(stream) \in Nat /\ Numbers = 1..Len(stream) /\ minSeq \in Nat
  BY StreamType DEF Numbers
<1>1. ASSUME NEW c \in Chats, PostMessage(c) PROVE ServerFacts
  <2> DEFINE e == [kind |-> "message", chat |-> c, msg |-> Len(stream) + 1]
  <2>1. Tell("message", c, Len(stream) + 1, kept) /\ kept \in SUBSET Numbers
    BY <1>1 DEF PostMessage
  <2>2. Len(stream') = Len(stream) + 1 /\ kept' \subseteq Numbers'
    <3>1. Len(stream) + 1 \in Nat
      BY <1>0
    <3> QED
      BY <2>1, <3>1, Told
  <2>3. e \in Events /\ stream' = Append(stream, e)
    BY <1>0, <2>1 DEF Events, Tell
  <2>4. e.kind = "message" /\ e.chat = c
    OBVIOUS
  <2> HIDE DEF e
  <2>5. ServerStep
    BY <1>1, <2>3, <2>4 DEF PostMessage, ServerStep
  <2> QED
    BY <1>0, <1>1, <2>2, <2>5 DEF PostMessage, ServerFacts
<1>2. ASSUME NEW m \in posted, DeleteMessage(m) PROVE ServerFacts
  <2> DEFINE e == [kind |-> "deleted", chat |-> ChatOf(m), msg |-> m]
  <2>0. m \in Numbers /\ m \in Nat /\ ChatOf(m) \in Chats
    BY <1>0, <1>2 DEF DeleteMessage
  <2>1. Tell("deleted", ChatOf(m), m, kept) /\ kept \in SUBSET Numbers
    BY <1>2 DEF DeleteMessage
  <2>2. Len(stream') = Len(stream) + 1 /\ kept' \subseteq Numbers'
    BY <2>0, <2>1, Told
  <2>3. e \in Events /\ stream' = Append(stream, e)
    BY <2>0, <2>1 DEF Events, Tell
  <2>4. e.kind = "deleted" /\ e.chat = ChatOf(m) /\ e.msg = m
    OBVIOUS
  <2> HIDE DEF e
  <2>5. ServerStep
    BY <1>2, <2>0, <2>3, <2>4 DEF DeleteMessage, ServerStep
  <2> QED
    BY <1>0, <1>2, <2>2, <2>5 DEF DeleteMessage, ServerFacts
<1>3. ASSUME NEW c \in Chats, NEW rows \in SUBSET Numbers, c \in inChats,
             Tell("removed", c, 0, rows), inChats' = inChats \ {c}, posted' \subseteq posted,
             minSeq' = minSeq, dissolved' \subseteq Chats,
             UNCHANGED <<deviceVars, sync, page>>
      PROVE  ServerFacts
  <2> DEFINE e == [kind |-> "removed", chat |-> c, msg |-> 0]
  <2>1. Len(stream') = Len(stream) + 1 /\ kept' \subseteq Numbers'
    BY <1>3, Told
  <2>2. e \in Events /\ stream' = Append(stream, e)
    BY <1>3 DEF Events, Tell
  <2>3. e.kind = "removed" /\ e.chat = c
    OBVIOUS
  <2> HIDE DEF e
  <2>4. ServerStep
    BY <1>3, <2>2, <2>3 DEF ServerStep
  <2> QED
    BY <1>0, <1>3, <2>1, <2>4 DEF ServerFacts
<1>4. ASSUME NEW c \in Chats, LeaveChat(c) PROVE ServerFacts
  BY <1>3, <1>4 DEF LeaveChat
<1>5. ASSUME NEW c \in Chats, DissolveChat(c) PROVE ServerFacts
  <2> DEFINE others == {s \in kept : ChatOf(s) # c}
  <2>1. others \in SUBSET Numbers /\ dissolved' \subseteq Chats /\ posted' \subseteq posted
    BY <1>5 DEF DissolveChat
  <2>2. CASE c \in inChats
    BY <1>3, <1>5, <2>1, <2>2 DEF DissolveChat
  <2>3. CASE c \notin inChats
    <3>1. stream' = stream /\ kept' = others /\ inChats' \subseteq inChats
      BY <1>5, <2>3 DEF DissolveChat
    <3>2. ServerStep
      BY <1>5, <2>1, <3>1 DEF DissolveChat, ServerStep
    <3> QED
      BY <1>0, <1>5, <2>1, <3>1, <3>2 DEF DissolveChat, ServerFacts, Numbers
  <2> QED
    BY <2>2, <2>3
<1>6. CASE SweepExpired
  <2>1. PICK n \in kept : minSeq' = n /\ kept' = {s \in kept : s > n}
    BY <1>6 DEF SweepExpired
  <2>2. stream' = stream /\ ServerStep
    BY <1>6 DEF SweepExpired, ServerStep
  <2>3. n \in 0..Len(stream) /\ kept' \subseteq Numbers /\ Numbers' = Numbers
    <3>1. kept \subseteq Numbers
      OBVIOUS
    <3>2. n \in Numbers
      BY <3>1
    <3>3. kept' \subseteq Numbers
      BY <2>1, <3>1
    <3>4. Numbers' = Numbers
      BY <2>2 DEF Numbers
    <3> QED
      BY <1>0, <3>2, <3>3, <3>4
  <2>4. dissolved' \subseteq Chats
    BY <1>6 DEF SweepExpired
  <2> QED
    BY <2>1, <2>2, <2>3, <2>4 DEF ServerFacts
<1> QED
  BY <1>1, <1>2, <1>4, <1>5, <1>6 DEF ChatServer

LEMMA ServerPreserves ==
  ASSUME ChatInv, ChatServer
  PROVE  ChatInv'
<1> USE DEF ChatInv
<1>1. /\ ServerStep /\ ServerFacts
      /\ UNCHANGED <<cursor, held, heldChats, deletions, bootedAt, sync, page>>
  BY ServerShape DEF ServerFacts, ServerStep, deviceVars
<1>2. /\ Len(stream) \in Nat /\ Len(stream') \in Nat /\ Len(stream) <= Len(stream')
      /\ Numbers = 1..Len(stream) /\ Numbers' = 1..Len(stream')
      /\ stream' \in Seq(Events)
      /\ \A s \in Numbers : stream'[s] = stream[s]
  <2>1. Len(stream) \in Nat /\ stream \in Seq(Events)
    BY StreamType DEF ChatTypeOK
  <2>2. CASE stream' = stream
    BY <2>1, <2>2 DEF Numbers
  <2>3. ASSUME NEW e \in Events, stream' = Append(stream, e)
        PROVE  /\ stream' \in Seq(Events) /\ Len(stream') = Len(stream) + 1
               /\ \A s \in 1..Len(stream) : stream'[s] = stream[s]
    BY <2>1, <2>3, AppendProperties
  <2> QED
    BY <1>1, <2>1, <2>2, <2>3 DEF ServerStep, Numbers
<1>3. ChatTypeOK'
  <2>1. posted' \subseteq Numbers'
    <3>1. posted \subseteq Numbers
      BY DEF ChatTypeOK
    <3>2. CASE stream' = stream /\ posted' \subseteq posted
      BY <1>2, <3>1, <3>2
    <3>3. ASSUME NEW e \in Events, stream' = Append(stream, e),
                 posted' \subseteq posted \cup (IF e.kind = "message" THEN {Len(stream) + 1} ELSE {})
          PROVE  posted' \subseteq Numbers'
      <4>1. Len(stream') = Len(stream) + 1
        BY <3>3, AppendProperties DEF ChatTypeOK
      <4> QED
        BY <1>2, <3>1, <3>3, <4>1
    <3> QED
      BY <1>1, <3>2, <3>3 DEF ServerStep
  <2>2. sync' \in Syncs'
    BY <1>1, <1>2 DEF ChatTypeOK, Syncs
  <2>3. cursor' \in 0..Len(stream') /\ bootedAt' \in 0..cursor'
    BY <1>1, <1>2 DEF ChatTypeOK
  <2>4. page' = NoPage \/ page' \subseteq Numbers'
    BY <1>1, <1>2 DEF ChatTypeOK
  <2> QED
    BY <1>1, <1>2, <2>1, <2>2, <2>3, <2>4 DEF ChatTypeOK, ServerFacts, ServerStep
<1>4. \A s \in Numbers : /\ stream'[s].kind = Kind(s) /\ stream'[s].chat = ChatOf(s)
                         /\ stream'[s].msg = stream[s].msg
  BY <1>2 DEF Kind, ChatOf
<1>5. StreamInv'
  <2>1. CASE stream' = stream /\ posted' \subseteq posted
    BY <1>1, <2>1 DEF StreamInv, ServerStep, Kind, ChatOf, Numbers
  <2>2. ASSUME NEW e \in Events,
               e.chat \in inChats,
               stream' = Append(stream, e),
               posted' \subseteq posted \cup (IF e.kind = "message" THEN {Len(stream) + 1} ELSE {}),
               e.kind = "deleted" => e.msg \in Numbers \ posted',
               e.kind = "removed" => e.chat \notin inChats'
        PROVE  StreamInv'
    <3> DEFINE n == Len(stream) + 1
    <3>1. Len(stream') = n /\ stream'[n] = e /\ Numbers' = Numbers \cup {n} /\ n \notin Numbers
      BY <1>2, <2>2, AppendProperties DEF ChatTypeOK
    <3>2. stream'[n].kind = e.kind /\ stream'[n].chat = e.chat /\ stream'[n].msg = e.msg
      BY <3>1
    <3>3. /\ \A m \in posted' : m \in posted \/ (m = n /\ e.kind = "message")
          /\ posted \subseteq Numbers /\ deletions \subseteq Numbers
      BY <2>2 DEF ChatTypeOK
    <3> HIDE DEF n
    <3>4. \A m \in posted' : stream'[m].kind = "message"
      BY <1>4, <3>2, <3>3 DEF StreamInv
    <3>5. \A s \in Numbers' : stream'[s].kind = "deleted" => stream'[s].msg \in Numbers' \ posted'
      <4> SUFFICES ASSUME NEW s \in Numbers', stream'[s].kind = "deleted"
                   PROVE  stream'[s].msg \in Numbers' \ posted'
        OBVIOUS
      <4>1. CASE s = n
        BY <2>2, <3>1, <3>2, <4>1
      <4>2. CASE s \in Numbers
        <5>1. stream'[s].msg = stream[s].msg /\ stream[s].msg \in Numbers \ posted
          BY <1>4, <4>2 DEF StreamInv
        <5> QED
          BY <3>1, <3>3, <5>1
      <4> QED
        BY <3>1, <4>1, <4>2
    <3>6. \A s \in Numbers' : stream'[s].kind = "removed" => stream'[s].chat \notin inChats'
      <4> SUFFICES ASSUME NEW s \in Numbers', stream'[s].kind = "removed"
                   PROVE  stream'[s].chat \notin inChats'
        OBVIOUS
      <4>1. CASE s = n
        BY <2>2, <3>2, <4>1
      <4>2. CASE s \in Numbers
        <5>1. stream'[s].chat = ChatOf(s) /\ ChatOf(s) \notin inChats /\ inChats' \subseteq inChats
          BY <1>1, <1>4, <4>2 DEF StreamInv, ServerStep
        <5> QED
          BY <5>1
      <4> QED
        BY <3>1, <4>1, <4>2
    <3>7. ASSUME NEW s \in Numbers', NEW t \in Numbers', stream'[s].kind = "removed", s < t
          PROVE  stream'[t].chat # stream'[s].chat
      <4>1. s \in Numbers /\ Kind(s) = "removed" /\ stream'[s].chat = ChatOf(s)
        <5>1. s # n
          BY <1>2, <3>1, <3>7 DEF n
        <5> QED
          BY <1>4, <3>1, <3>7, <5>1
      <4>2. CASE t = n
        BY <2>2, <3>2, <4>1, <4>2 DEF StreamInv
      <4>3. CASE t \in Numbers
        BY <1>4, <3>7, <4>1, <4>3 DEF StreamInv
      <4> QED
        BY <3>1, <4>2, <4>3
    <3>8. \A d \in deletions' : d \notin posted'
      BY <1>1, <3>1, <3>3 DEF StreamInv
    <3> QED
      BY <3>4, <3>5, <3>6, <3>7, <3>8 DEF StreamInv, Kind, ChatOf
  <2> QED
    BY <1>1, <2>1, <2>2 DEF ServerStep
<1>6. SyncInv'
  <2>1. cursor \in Nat
    BY StreamType
  <2>2. sync.at = "snapshot" /\ sync.last \in cursor..Len(stream) => 1..sync.last \subseteq Numbers
    BY <1>2, <2>1
  <2> QED
    BY <1>1, <1>2, <1>4, <2>1, <2>2 DEF SyncInv, Kind, ChatOf
<1>7. NothingSkipped'
  <2> SUFFICES ASSUME NEW m \in posted', bootedAt < m, m <= cursor, stream'[m].chat \in inChats'
               PROVE  m \in held /\ stream'[m].chat \in heldChats
    BY <1>1 DEF NothingSkipped, ChatOf
  <2>1. m \in posted
    <3>1. m # Len(stream) + 1
      BY <1>2, StreamType
    <3> QED
      BY <1>1, <3>1 DEF ServerStep
  <2>2. m \in Numbers /\ stream'[m].chat = ChatOf(m) /\ inChats' \subseteq inChats
    BY <1>1, <1>4, <2>1 DEF ChatTypeOK, ServerStep
  <2> QED
    BY <2>1, <2>2 DEF NothingSkipped
<1>8. DeletedStaysDeleted'
  BY <1>1 DEF DeletedStaysDeleted
<1>9. RemovalsApplied'
  <2>1. \A s \in 1..cursor : s \in Numbers
    BY <1>2, StreamType
  <2> QED
    BY <1>1, <1>4, <2>1 DEF RemovalsApplied, Kind, ChatOf
<1> QED
  BY <1>3, <1>5, <1>6, <1>7, <1>8, <1>9

-----------------------------------------------------------------------------
(* The device: what it reads, and what it does with it.                    *)

\* Steps that leave the server and the database as they are.
LEMMA OnlySync ==
  ASSUME ChatInv, UNCHANGED <<streamVars, deviceVars>>, sync' \in Syncs, SyncInv',
         page' = NoPage \/ page' \subseteq Numbers
  PROVE  ChatInv'
<1>1. /\ UNCHANGED <<stream, kept, minSeq, posted, inChats, dissolved>>
      /\ UNCHANGED <<cursor, held, heldChats, deletions, bootedAt>>
  BY DEF streamVars, deviceVars
<1>2. Numbers' = Numbers /\ Syncs' = Syncs
  BY <1>1 DEF Numbers, Syncs, NoSync
<1>3. ChatTypeOK'
  BY <1>1, <1>2 DEF ChatInv, ChatTypeOK
<1>4. StreamInv'
  BY <1>1, <1>2 DEF ChatInv, StreamInv, Kind, ChatOf
<1>5. NothingSkipped' /\ DeletedStaysDeleted' /\ RemovalsApplied'
  BY <1>1 DEF ChatInv, NothingSkipped, DeletedStaysDeleted, RemovalsApplied, ChatOf
<1> QED
  BY <1>3, <1>4, <1>5 DEF ChatInv

\* No sync, a bootstrap and the first request of a sync from the cursor.
LEMMA FreshSync ==
  ASSUME ChatInv,
         \/ sync' = NoSync
         \/ \E retried \in BOOLEAN : sync' = Bootstrap(retried)
         \/ \E retried \in BOOLEAN : sync' = Ask(cursor', retried) /\ cursor' \in Nat
  PROVE  SyncInv' /\ sync' \in Syncs
<1>1. CASE sync' = NoSync
  BY <1>1 DEF NoSync, SyncInv, Syncs
<1>2. ASSUME NEW retried \in BOOLEAN, sync' = Bootstrap(retried)
      PROVE  SyncInv' /\ sync' \in Syncs
  BY <1>2 DEF Bootstrap, SyncInv, Syncs
<1>3. ASSUME NEW retried \in BOOLEAN, sync' = Ask(cursor', retried), cursor' \in Nat
      PROVE  SyncInv' /\ sync' \in Syncs
  BY <1>3 DEF Ask, SyncInv, Syncs
<1> QED
  BY <1>1, <1>2, <1>3

LEMMA FallbackIsFresh ==
  Fallback(sync) = NoSync \/ Fallback(sync) = Bootstrap(TRUE)
BY DEF Fallback

\* The rows of an answer without a gap go on from the cursor.
LEMMA ReadRowsInv ==
  ASSUME ChatInv, ReadRows
  PROVE  SyncInv' /\ sync' \in Syncs
<1> DEFINE rows  == {s \in kept : s > sync.from}
           taken == {s \in rows : Cardinality({r \in rows : r <= s}) <= PageSize}
           last  == IF taken = {} THEN sync.from ELSE Latest(taken)
           answer == [ at |-> "changes", rows |-> taken, last |-> last, more |-> rows # taken,
                       retried |-> sync.retried ]
<1>1. /\ sync.at = "checked" /\ UNCHANGED <<streamVars, deviceVars, page>>
      /\ sync' = IF HasGap(sync.from, taken) THEN Fallback(sync) ELSE answer
  BY DEF ReadRows
<1>2. /\ cursor \in 0..Len(stream) /\ Len(stream) \in Nat /\ kept \subseteq Numbers
      /\ sync.from = cursor /\ cursor \in Nat /\ sync.retried \in BOOLEAN
  <2>1. ChatTypeOK /\ SyncInv
    BY DEF ChatInv
  <2>2. sync.retried \in BOOLEAN
    BY <1>1, <2>1, SyncType
  <2> QED
    BY <1>1, <2>1, <2>2, StreamType DEF ChatTypeOK, SyncInv
<1>3. taken \subseteq Numbers
  BY <1>2
<1>4. (rows # taken) \in BOOLEAN
  OBVIOUS
<1> HIDE DEF rows, taken
<1>5. CASE HasGap(sync.from, taken)
  <2>1. sync' = NoSync \/ sync' = Bootstrap(TRUE)
    BY <1>1, <1>5, FallbackIsFresh
  <2> QED
    BY <2>1, FreshSync
<1>6. CASE ~HasGap(sync.from, taken)
  <2> DEFINE k == Cardinality(taken)
  <2>1. taken = cursor + 1 .. cursor + k
    BY <1>2, <1>6 DEF HasGap
  <2>2. k \in Nat
    <3>1. IsFiniteSet(Numbers)
      BY <1>2, FS_Interval DEF Numbers
    <3> QED
      BY <1>3, <3>1, FS_Subset, FS_CardinalityType
  <2> HIDE DEF k
  <2>3. last \in cursor..Len(stream) /\ taken = cursor + 1 .. last
    <3>1. CASE taken = {}
      BY <1>2, <3>1
    <3>2. CASE taken # {}
      <4>1. cursor + 1 <= cursor + k
        BY <1>2, <2>1, <2>2, <3>2
      <4>2. Latest(taken) = cursor + k
        BY <1>2, <2>1, <2>2, <4>1, LatestOfInterval
      <4>3. cursor + k \in taken
        BY <1>2, <2>1, <2>2, <4>1
      <4>4. cursor + k \in 1..Len(stream)
        BY <1>3, <4>3 DEF Numbers
      <4> QED
        BY <1>2, <2>1, <2>2, <3>2, <4>2, <4>4
    <3> QED
      BY <3>1, <3>2
  <2>4. sync' = answer
    BY <1>1, <1>6
  <2> HIDE DEF last
  <2>5. /\ sync'.at = "changes" /\ sync'.rows = taken /\ sync'.last = last
        /\ sync' \in [ at : {"changes"}, rows : SUBSET Numbers, last : Nat, more : BOOLEAN,
                       retried : BOOLEAN ]
    <3>1. last \in Nat
      BY <1>2, <2>3
    <3> QED
      BY <1>2, <1>3, <1>4, <2>4, <3>1
  <2>6. cursor' = cursor /\ stream' = stream
    BY <1>1 DEF streamVars, deviceVars
  <2>7. sync' \in Syncs
    BY <2>5 DEF Syncs
  <2>8. SyncInv'
    BY <2>3, <2>5, <2>6 DEF SyncInv
  <2> QED
    BY <2>7, <2>8
<1> QED
  BY <1>5, <1>6

LEMMA ReadSnapshotInv ==
  ASSUME ChatInv, ReadSnapshot
  PROVE  SyncInv' /\ sync' \in Syncs
<1> DEFINE chosen == {Latest(MessagesOf(c)) : c \in {d \in inChats : MessagesOf(d) # {}}}
<1>1. /\ sync.at = "bootstrap" /\ UNCHANGED <<streamVars, deviceVars, page>>
      /\ sync' = [ at |-> "snapshot", last |-> Len(stream), chats |-> inChats,
                   msgs |-> chosen, retried |-> sync.retried ]
  BY DEF ReadSnapshot
<1>2. ChatTypeOK /\ StreamInv
  BY DEF ChatInv
<1>3. /\ Len(stream) \in Nat /\ cursor \in 0..Len(stream) /\ sync.retried \in BOOLEAN
      /\ inChats \in SUBSET Chats /\ posted \subseteq Numbers /\ Numbers = 1..Len(stream)
  BY <1>1, <1>2, StreamType, SyncType DEF ChatTypeOK, Numbers
<1>4. chosen \in SUBSET Numbers
  <2>1. ASSUME NEW c \in inChats, MessagesOf(c) # {} PROVE Latest(MessagesOf(c)) \in Numbers
    <3>1. MessagesOf(c) \in SUBSET (1..Len(stream))
      BY <1>3 DEF MessagesOf
    <3> QED
      BY <1>3, <2>1, <3>1, LatestIsOne
  <2> QED
    BY <2>1
<1> HIDE DEF chosen
<1>5. sync' \in Syncs
  BY <1>1, <1>3, <1>4 DEF Syncs
<1>6. cursor' = cursor /\ stream' = stream
  BY <1>1 DEF streamVars, deviceVars
<1>7. \A s \in 1..Len(stream) : Kind(s) = "removed" => ChatOf(s) \notin inChats
  BY <1>2 DEF StreamInv, Numbers
<1>8. /\ sync'.at = "snapshot" /\ sync'.last = Len(stream) /\ sync'.chats = inChats
  BY <1>1
<1>9. SyncInv'
  BY <1>3, <1>6, <1>7, <1>8 DEF SyncInv, Kind, ChatOf
<1> QED
  BY <1>5, <1>9

LEMMA ApplyChangesInv ==
  ASSUME ChatInv, ApplyChanges
  PROVE  ChatInv'
<1>1. /\ sync.at = "changes"
      /\ deletions' = deletions \cup {stream[s].msg : s \in Batch("deleted")}
      /\ held' = {m \in held \cup (Batch("message") \ deletions') : ChatOf(m) \notin Removed}
                   \ deletions'
      /\ heldChats' = (heldChats \cup Mentioned) \ Removed
      /\ cursor' = sync.last
      /\ sync' = IF sync.more THEN Ask(sync.last, sync.retried) ELSE NoSync
      /\ UNCHANGED <<stream, kept, minSeq, posted, inChats, dissolved, bootedAt, page>>
  BY DEF ApplyChanges, ChatsAfterwards, streamVars
<1>2. /\ ChatTypeOK /\ StreamInv /\ SyncInv
      /\ NothingSkipped /\ DeletedStaysDeleted /\ RemovalsApplied
  BY DEF ChatInv
<1>3. /\ Len(stream) \in Nat /\ cursor \in 0..Len(stream) /\ Numbers = 1..Len(stream)
      /\ \A s \in Numbers : stream[s] \in Events
      /\ Numbers' = Numbers /\ stream' = stream
  BY <1>1, <1>2, StreamType DEF Numbers
<1>4. /\ sync.last \in cursor..Len(stream) /\ sync.rows = cursor + 1 .. sync.last
      /\ sync.last \in Nat /\ sync.more \in BOOLEAN /\ sync.retried \in BOOLEAN
  BY <1>1, <1>2, <1>3, SyncType DEF SyncInv
<1>5. /\ sync.rows \subseteq Numbers
      /\ \A s \in Numbers : s <= sync.last => s <= cursor \/ s \in sync.rows
      /\ \A s, t \in Numbers : s <= cursor /\ t \in sync.rows => s < t
  BY <1>3, <1>4
<1>6. \A kind : Batch(kind) \subseteq Numbers
  BY <1>5 DEF Batch
<1>7. \A s \in Numbers : ChatOf(s) \in Chats
  BY <1>3 DEF ChatOf, Events
<1>8. \A s \in Batch("deleted") : stream[s].msg \in Numbers \ posted
  BY <1>2, <1>6 DEF StreamInv, Batch, Kind
<1>9. SyncInv' /\ sync' \in Syncs
  <2>1. cursor' \in Nat
    BY <1>1, <1>4
  <2>2. sync' = NoSync \/ sync' = Ask(cursor', sync.retried)
    BY <1>1
  <2> QED
    BY <1>4, <2>1, <2>2, FreshSync
<1>10. ChatTypeOK'
  <2>1. deletions' \subseteq Numbers
    BY <1>1, <1>2, <1>8 DEF ChatTypeOK
  <2>2. held' \subseteq Numbers
    BY <1>1, <1>2, <1>6 DEF ChatTypeOK
  <2>3. heldChats' \subseteq Chats
    BY <1>1, <1>2, <1>6, <1>7 DEF ChatTypeOK, Mentioned
  <2>4. cursor' \in 0..Len(stream) /\ bootedAt' \in 0..cursor'
    <3>1. bootedAt \in 0..cursor
      BY <1>2 DEF ChatTypeOK
    <3> QED
      BY <1>1, <1>3, <1>4, <3>1
  <2>5. sync' \in Syncs'
    BY <1>3, <1>9 DEF Syncs, NoSync
  <2> QED
    BY <1>1, <1>2, <1>3, <2>1, <2>2, <2>3, <2>4, <2>5 DEF ChatTypeOK
<1>11. StreamInv'
  BY <1>1, <1>2, <1>3, <1>8 DEF StreamInv, Kind, ChatOf
<1>12. NothingSkipped'
  <2> SUFFICES ASSUME NEW m \in posted, bootedAt < m, m <= sync.last, ChatOf(m) \in inChats
               PROVE  m \in held' /\ ChatOf(m) \in heldChats'
    BY <1>1 DEF NothingSkipped, ChatOf
  <2>1. m \in Numbers /\ Kind(m) = "message"
    BY <1>2 DEF ChatTypeOK, StreamInv
  <2>2. ChatOf(m) \notin Removed
    BY <1>2, <1>6 DEF Removed, Batch, StreamInv, Kind
  <2>3. m \notin deletions'
    BY <1>1, <1>2, <1>8 DEF StreamInv
  <2>4. CASE m <= cursor
    BY <1>1, <1>2, <2>2, <2>3, <2>4 DEF NothingSkipped
  <2>5. CASE m \in sync.rows
    <3>1. m \in Batch("message") /\ ChatOf(m) \in Mentioned
      BY <2>1, <2>5 DEF Batch, Kind, Mentioned
    <3> QED
      BY <1>1, <2>2, <2>3, <3>1
  <2> QED
    BY <1>5, <2>1, <2>4, <2>5
<1>13. DeletedStaysDeleted'
  BY <1>1 DEF DeletedStaysDeleted
<1>14. RemovalsApplied'
  <2> SUFFICES ASSUME NEW s \in 1..sync.last, Kind(s) = "removed"
               PROVE  ChatOf(s) \notin heldChats'
    BY <1>1 DEF RemovalsApplied, Kind, ChatOf
  <2>1. s \in Numbers /\ s \in 1..sync.last /\ s <= sync.last
    BY <1>3, <1>4
  <2>2. CASE s \in sync.rows
    <3>1. ChatOf(s) \in Removed
      BY <2>2 DEF Removed, Batch, Kind
    <3> QED
      BY <1>1, <3>1
  <2>3. CASE s <= cursor
    <3>1. s \in 1..cursor
      BY <1>3, <2>1, <2>3
    <3>2. ChatOf(s) \notin heldChats
      BY <1>2, <3>1 DEF RemovalsApplied, Kind
    <3>3. \A t \in sync.rows : ChatOf(t) # ChatOf(s)
      BY <1>2, <1>5, <2>1, <2>3 DEF StreamInv
    <3>4. ChatOf(s) \notin Mentioned
      BY <3>3 DEF Mentioned, Batch
    <3> QED
      BY <1>1, <3>2, <3>4
  <2> QED
    BY <1>5, <2>1, <2>2, <2>3
<1> QED
  BY <1>9, <1>10, <1>11, <1>12, <1>13, <1>14 DEF ChatInv

LEMMA ApplySnapshotInv ==
  ASSUME ChatInv, ApplySnapshot
  PROVE  ChatInv'
<1>1. /\ sync.at = "snapshot" /\ held' = sync.msgs \ deletions /\ heldChats' = sync.chats
      /\ cursor' = sync.last /\ bootedAt' = sync.last /\ sync' = NoSync
      /\ UNCHANGED <<stream, kept, minSeq, posted, inChats, dissolved, deletions, page>>
  BY DEF ApplySnapshot, streamVars
<1>2. ChatTypeOK /\ StreamInv /\ SyncInv
  BY DEF ChatInv
<1>3. /\ Numbers' = Numbers /\ sync.last \in cursor..Len(stream) /\ sync.last \in Nat
      /\ cursor \in 0..Len(stream) /\ Len(stream) \in Nat
      /\ sync.msgs \subseteq Numbers /\ sync.chats \subseteq Chats
      /\ \A s \in 1..sync.last : Kind(s) = "removed" => ChatOf(s) \notin sync.chats
  BY <1>1, <1>2, StreamType, SyncType DEF Numbers, SyncInv
<1>4. SyncInv' /\ sync' \in Syncs
  BY <1>1, FreshSync
<1>5. ChatTypeOK'
  <2>1. cursor' \in 0..Len(stream') /\ bootedAt' \in 0..cursor'
    BY <1>1, <1>3
  <2>2. held' \subseteq Numbers' /\ heldChats' \subseteq Chats
    BY <1>1, <1>3
  <2>3. sync' \in Syncs'
    BY <1>3, <1>4 DEF Syncs, NoSync
  <2> QED
    BY <1>1, <1>2, <1>3, <2>1, <2>2, <2>3 DEF ChatTypeOK
<1>6. StreamInv'
  BY <1>1, <1>2, <1>3 DEF StreamInv, Kind, ChatOf
<1>7. NothingSkipped'
  <2>1. \A m \in posted : m \in Nat
    BY <1>2 DEF ChatTypeOK, Numbers
  <2>2. \A m \in posted : ~(sync.last < m /\ m <= sync.last)
    BY <1>3, <2>1
  <2> QED
    BY <1>1, <2>2 DEF NothingSkipped
<1>8. DeletedStaysDeleted'
  BY <1>1 DEF DeletedStaysDeleted
<1>9. RemovalsApplied'
  BY <1>1, <1>3 DEF RemovalsApplied, Kind, ChatOf
<1> QED
  BY <1>4, <1>5, <1>6, <1>7, <1>8, <1>9 DEF ChatInv

LEMMA ApplyPageInv ==
  ASSUME ChatInv, ApplyPage
  PROVE  ChatInv'
<1>1. /\ page # NoPage /\ held' = held \cup (page \ deletions) /\ page' = NoPage
      /\ UNCHANGED <<stream, kept, minSeq, posted, inChats, dissolved>>
      /\ UNCHANGED <<cursor, heldChats, deletions, bootedAt, sync>>
  BY DEF ApplyPage, streamVars
<1>2. /\ ChatTypeOK /\ StreamInv /\ SyncInv
      /\ NothingSkipped /\ DeletedStaysDeleted /\ RemovalsApplied
  BY DEF ChatInv
<1>3. Numbers' = Numbers /\ Syncs' = Syncs
  BY <1>1 DEF Numbers, Syncs, NoSync
<1>4. ChatTypeOK'
  BY <1>1, <1>2, <1>3 DEF ChatTypeOK
<1>5. StreamInv' /\ SyncInv'
  BY <1>1, <1>2, <1>3 DEF StreamInv, SyncInv, Kind, ChatOf
<1>6. NothingSkipped' /\ DeletedStaysDeleted' /\ RemovalsApplied'
  BY <1>1, <1>2 DEF NothingSkipped, DeletedStaysDeleted, RemovalsApplied, ChatOf
<1> QED
  BY <1>4, <1>5, <1>6 DEF ChatInv

LEMMA DevicePreserves ==
  ASSUME ChatInv, ChatDevice \/ ChatFaults
  PROVE  ChatInv'
<1>0. ChatTypeOK /\ SyncInv /\ cursor \in Nat
  BY StreamType DEF ChatInv
<1>1. page = NoPage \/ page \subseteq Numbers
  BY <1>0 DEF ChatTypeOK
<1>2. CASE BeginSync
  <2>1. UNCHANGED <<streamVars, deviceVars, page>> /\ sync' = Ask(cursor, FALSE) /\ cursor' = cursor
    BY <1>2 DEF BeginSync, deviceVars
  <2>2. SyncInv' /\ sync' \in Syncs
    BY <1>0, <2>1, FreshSync
  <2> QED
    BY <1>1, <2>1, <2>2, OnlySync
<1>3. CASE BeginRefresh
  <2>1. UNCHANGED <<streamVars, deviceVars, page>> /\ sync' = Bootstrap(TRUE)
    BY <1>3 DEF BeginRefresh
  <2> QED
    BY <1>1, <2>1, OnlySync, FreshSync
<1>4. CASE ReadHead
  <2>1. /\ sync.at = "asked" /\ UNCHANGED <<streamVars, deviceVars, page>>
        /\ sync' = IF sync.from < minSeq THEN Bootstrap(sync.retried)
                   ELSE [sync EXCEPT !.at = "checked"]
    BY <1>4 DEF ReadHead
  <2>2. /\ sync \in [ at : {"asked", "checked"}, from : Nat, retried : BOOLEAN ]
        /\ sync.from = cursor /\ cursor' = cursor
    BY <1>0, <2>1, SyncType DEF SyncInv, deviceVars
  <2>3. CASE sync' = Bootstrap(sync.retried)
    BY <1>1, <2>1, <2>2, <2>3, OnlySync, FreshSync
  <2>4. CASE sync' = [sync EXCEPT !.at = "checked"]
    <3>1. /\ sync'.at = "checked" /\ sync'.from = cursor'
          /\ sync' \in [ at : {"asked", "checked"}, from : Nat, retried : BOOLEAN ]
      BY <2>2, <2>4
    <3>2. SyncInv' /\ sync' \in Syncs
      BY <3>1 DEF SyncInv, Syncs
    <3> QED
      BY <1>1, <2>1, <3>2, OnlySync
  <2> QED
    BY <2>1, <2>3, <2>4
<1>5. CASE ReadRows
  <2>1. UNCHANGED <<streamVars, deviceVars, page>>
    BY <1>5 DEF ReadRows
  <2> QED
    BY <1>1, <1>5, <2>1, OnlySync, ReadRowsInv
<1>6. CASE ReadSnapshot
  <2>1. UNCHANGED <<streamVars, deviceVars, page>>
    BY <1>6 DEF ReadSnapshot
  <2> QED
    BY <1>1, <1>6, <2>1, OnlySync, ReadSnapshotInv
<1>7. CASE SyncFails
  <2>1. UNCHANGED <<streamVars, deviceVars, page>> /\ sync' = Fallback(sync)
    BY <1>7 DEF SyncFails
  <2>2. SyncInv' /\ sync' \in Syncs
    BY <2>1, FallbackIsFresh, FreshSync
  <2> QED
    BY <1>1, <2>1, <2>2, OnlySync
<1>8. CASE AppQuits
  <2>1. UNCHANGED <<streamVars, deviceVars>> /\ sync' = NoSync /\ page' = NoPage
    BY <1>8 DEF AppQuits
  <2> QED
    BY <2>1, OnlySync, FreshSync
<1>9. ASSUME NEW c \in Chats, ReadPage(c) PROVE ChatInv'
  <2>1. UNCHANGED <<streamVars, deviceVars>> /\ sync' = sync /\ page' = MessagesOf(c)
    BY <1>9 DEF ReadPage
  <2>2. page' \subseteq Numbers
    BY <1>0, <2>1 DEF ChatTypeOK, MessagesOf
  <2>3. SyncInv' /\ sync' \in Syncs
    BY <1>0, <2>1 DEF ChatTypeOK, SyncInv, Kind, ChatOf, streamVars, deviceVars
  <2> QED
    BY <2>1, <2>2, <2>3, OnlySync
<1> QED
  BY <1>2, <1>3, <1>4, <1>5, <1>6, <1>7, <1>8, <1>9, ApplyChangesInv, ApplySnapshotInv,
     ApplyPageInv DEF ChatDevice, ChatFaults

-----------------------------------------------------------------------------
LEMMA ChatInductive == ChatInv /\ [ChatNext]_chatVars => ChatInv'
<1> SUFFICES ASSUME ChatInv, [ChatNext]_chatVars PROVE ChatInv'
  OBVIOUS
<1>1. CASE UNCHANGED chatVars
  <2>1. UNCHANGED <<streamVars, deviceVars>> /\ sync' = sync /\ page' = page
    BY <1>1 DEF chatVars
  <2>2. SyncInv' /\ sync' \in Syncs
    BY <2>1 DEF ChatInv, ChatTypeOK, SyncInv, Kind, ChatOf, streamVars, deviceVars
  <2>3. page' = NoPage \/ page' \subseteq Numbers
    BY <2>1 DEF ChatInv, ChatTypeOK
  <2> QED
    BY <2>1, <2>2, <2>3, OnlySync
<1> QED
  BY <1>1, ServerPreserves, DevicePreserves DEF ChatNext

LEMMA ChatInvariant == ChatSpec => []ChatInv
<1>1. ChatInit => ChatInv
  BY ChatInitInv
<1>2. ChatInv /\ [ChatNext]_chatVars => ChatInv'
  BY ChatInductive
<1> QED
  BY <1>1, <1>2, PTL DEF ChatSpec

\* The state of the stream, the device and the sync has its type.
THEOREM ChatTypes == ChatSpec => []ChatTypeOK
<1>1. ChatInv => ChatTypeOK
  BY DEF ChatInv
<1> QED
  BY <1>1, ChatInvariant, PTL

\* Between its last bootstrap and its cursor, the device has every message the
\* server has for it: a batch without a gap goes on from the cursor, and only
\* a bootstrap moves the cursor over events (cursors.rs, apply.rs).
THEOREM DeviceSkipsNothing == ChatSpec => []NothingSkipped
<1>1. ChatInv => NothingSkipped
  BY DEF ChatInv
<1> QED
  BY <1>1, ChatInvariant, PTL

\* Neither a bootstrap nor a page of history brings back a message whose
\* deletion the device has recorded (deletions.rs).
THEOREM DeletionsAreKept == ChatSpec => []DeletedStaysDeleted
<1>1. ChatInv => DeletedStaysDeleted
  BY DEF ChatInv
<1> QED
  BY <1>1, ChatInvariant, PTL

\* No event after a removal names the chat, and no snapshot that holds the
\* removal lists it: a chat whose removal was read stays gone.
THEOREM RemovalsAreKept == ChatSpec => []RemovalsApplied
<1>1. ChatInv => RemovalsApplied
  BY DEF ChatInv
<1> QED
  BY <1>1, ChatInvariant, PTL

-----------------------------------------------------------------------------
(* The rows that are gone are at or below min_seq, or of a dissolved chat. *)

Reachable(s) == s \in kept \/ s <= minSeq

RowsInv ==
  /\ \A s \in kept : minSeq < s
  /\ \A m \in posted : ChatOf(m) \in inChats => Reachable(m)
  /\ \A c \in Chats \ (inChats \cup dissolved) :
       \E s \in Numbers : Kind(s) = "removed" /\ ChatOf(s) = c /\ Reachable(s)

\* A row stays within reach, but for the rows of a chat that is dissolved.
\* (e: the event the step adds, n: its number.)
LEMMA RowsAdded ==
  ASSUME ChatTypeOK, RowsInv,
         NEW kind \in {"message", "deleted", "removed"}, NEW c \in Chats, NEW m \in Nat,
         NEW rows \in SUBSET kept, Tell(kind, c, m, rows), minSeq' = minSeq,
         \A s \in kept \ rows : ChatOf(s) = c /\ c \in dissolved' /\ c \notin inChats',
         inChats' \subseteq inChats, dissolved \subseteq dissolved',
         posted' \subseteq posted \cup (IF kind = "message" THEN {Len(stream) + 1} ELSE {}),
         \A d \in inChats \ inChats' : d = c /\ kind = "removed"
  PROVE  RowsInv'
<1>0. rows \subseteq Numbers /\ Len(stream) \in Nat /\ minSeq \in 0..Len(stream)
  BY StreamType DEF ChatTypeOK
<1>n. PICK n \in Nat : n = Len(stream) + 1
  BY <1>0
<1>1. /\ \A s \in Numbers : stream'[s] = stream[s]
      /\ stream'[n] = [kind |-> kind, chat |-> c, msg |-> m]
      /\ Numbers' = Numbers \cup {n}
      /\ kept' = rows \cup {n}
  <2>1. rows \in SUBSET Numbers
    BY <1>0
  <2>2. /\ \A s \in Numbers : stream'[s] = stream[s]
        /\ stream'[Len(stream) + 1] = [kind |-> kind, chat |-> c, msg |-> m]
        /\ Numbers' = Numbers \cup {Len(stream) + 1}
    BY <2>1, Told
  <2>3. kept' = rows \cup {Len(stream) + 1}
    BY DEF Tell
  <2> QED
    BY <1>n, <2>2, <2>3
<1>2. minSeq' < n /\ n \in Nat /\ kept \subseteq Numbers /\ posted \subseteq Numbers
  BY <1>0, <1>n DEF ChatTypeOK
<1>3. stream'[n].kind = kind /\ stream'[n].chat = c
  BY <1>1
<1>4. ASSUME NEW s \in Numbers, Reachable(s), ChatOf(s) \notin dissolved' \/ ChatOf(s) \in inChats'
      PROVE  Reachable(s)'
  BY <1>1, <1>4 DEF Reachable
<1>5. \A s \in kept' : minSeq' < s
  BY <1>1, <1>2 DEF RowsInv
<1>6. ASSUME NEW k \in posted', ChatOf(k)' \in inChats' PROVE Reachable(k)'
  <2>1. CASE k \in posted
    <3>1. k \in Numbers /\ ChatOf(k)' = ChatOf(k)
      BY <1>1, <1>2, <2>1 DEF ChatOf
    <3> QED
      BY <1>4, <1>6, <2>1, <3>1 DEF RowsInv
  <2>2. CASE k = n
    BY <1>1, <2>2 DEF Reachable
  <2> QED
    BY <1>6, <1>n, <2>1, <2>2
<1>7. ASSUME NEW d \in Chats \ (inChats' \cup dissolved')
      PROVE  \E s \in Numbers' : Kind(s)' = "removed" /\ ChatOf(s)' = d /\ Reachable(s)'
  <2>1. CASE d \in inChats
    <3>1. d = c /\ kind = "removed"
      BY <1>7, <2>1
    <3>2. n \in Numbers' /\ Kind(n)' = "removed" /\ ChatOf(n)' = d /\ Reachable(n)'
      BY <1>1, <1>3, <3>1 DEF Kind, ChatOf, Reachable
    <3> QED
      BY <3>2
  <2>2. CASE d \notin inChats
    <3>1. PICK s \in Numbers : Kind(s) = "removed" /\ ChatOf(s) = d /\ Reachable(s)
      BY <1>7, <2>2 DEF RowsInv
    <3>2. s \in Numbers' /\ Kind(s)' = Kind(s) /\ ChatOf(s)' = ChatOf(s)
      BY <1>1, <3>1 DEF Kind, ChatOf
    <3>3. Reachable(s)'
      BY <1>4, <1>7, <3>1
    <3> QED
      BY <3>1, <3>2, <3>3
  <2> QED
    BY <2>1, <2>2
<1> QED
  BY <1>5, <1>6, <1>7 DEF RowsInv

LEMMA RowsInductive == ChatInv /\ RowsInv /\ [ChatNext]_chatVars => RowsInv'
<1> SUFFICES ASSUME ChatInv, RowsInv, [ChatNext]_chatVars PROVE RowsInv'
  OBVIOUS
<1>0. ChatTypeOK /\ kept \subseteq Numbers /\ posted \subseteq Numbers /\ Len(stream) \in Nat
  BY StreamType DEF ChatInv, ChatTypeOK
<1>1. ASSUME NEW c \in Chats, PostMessage(c) PROVE RowsInv'
  <2>1. /\ Tell("message", c, Len(stream) + 1, kept) /\ minSeq' = minSeq /\ inChats' = inChats
        /\ dissolved' = dissolved /\ posted' = posted \cup {Len(stream) + 1}
        /\ Len(stream) + 1 \in Nat
    BY <1>0, <1>1 DEF PostMessage
  <2> QED
    BY <1>0, <2>1, RowsAdded
<1>2. ASSUME NEW m \in posted, DeleteMessage(m) PROVE RowsInv'
  <2>1. m \in Nat /\ ChatOf(m) \in Chats
    BY <1>0, <1>2 DEF DeleteMessage, Numbers, ChatTypeOK
  <2>2. /\ Tell("deleted", ChatOf(m), m, kept) /\ minSeq' = minSeq /\ inChats' = inChats
        /\ dissolved' = dissolved /\ posted' \subseteq posted
    BY <1>2 DEF DeleteMessage
  <2> QED
    BY <1>0, <2>1, <2>2, RowsAdded
<1>3. ASSUME NEW c \in Chats, LeaveChat(c) PROVE RowsInv'
  <2>1. /\ Tell("removed", c, 0, kept) /\ minSeq' = minSeq /\ inChats' = inChats \ {c}
        /\ dissolved' = dissolved /\ posted' = posted
    BY <1>3 DEF LeaveChat
  <2> QED
    BY <1>0, <2>1, RowsAdded
<1>4. ASSUME NEW c \in Chats, DissolveChat(c) PROVE RowsInv'
  <2> DEFINE others == {s \in kept : ChatOf(s) # c}
  <2>1. /\ minSeq' = minSeq /\ inChats' = inChats \ {c} /\ dissolved' = dissolved \cup {c}
        /\ posted' \subseteq posted /\ others \in SUBSET kept
        /\ \A s \in kept \ others : ChatOf(s) = c
    BY <1>4 DEF DissolveChat
  <2>2. CASE c \in inChats
    <3>1. Tell("removed", c, 0, others)
      BY <1>4, <2>2 DEF DissolveChat
    <3> HIDE DEF others
    <3> QED
      BY <1>0, <2>1, <3>1, RowsAdded
  <2>3. CASE c \notin inChats
    <3>1. kept' = others /\ stream' = stream
      BY <1>4, <2>3 DEF DissolveChat
    <3>2. \A s : ChatOf(s) # c /\ Reachable(s) => Reachable(s)'
      BY <2>1, <3>1 DEF Reachable
    <3>3. \A s : ChatOf(s)' = ChatOf(s) /\ Kind(s)' = Kind(s)
      BY <3>1 DEF ChatOf, Kind
    <3>4. inChats' = inChats /\ Numbers' = Numbers
      BY <2>1, <2>3, <3>1 DEF Numbers
    <3>5. \A s \in kept' : minSeq' < s
      BY <2>1, <3>1 DEF RowsInv
    <3>6. \A m \in posted' : ChatOf(m)' \in inChats' => Reachable(m)'
      BY <2>1, <2>3, <3>2, <3>3, <3>4 DEF RowsInv
    <3>7. ASSUME NEW d \in Chats \ (inChats' \cup dissolved')
          PROVE  \E s \in Numbers' : Kind(s)' = "removed" /\ ChatOf(s)' = d /\ Reachable(s)'
      <4>1. PICK s \in Numbers : Kind(s) = "removed" /\ ChatOf(s) = d /\ Reachable(s)
        BY <2>1, <3>4, <3>7 DEF RowsInv
      <4>2. Reachable(s)'
        BY <2>1, <3>2, <3>7, <4>1
      <4> QED
        BY <3>3, <3>4, <4>1, <4>2
    <3> QED
      BY <3>5, <3>6, <3>7 DEF RowsInv
  <2> QED
    BY <2>2, <2>3
<1>5. CASE SweepExpired
  <2>1. PICK n \in kept : minSeq' = n /\ kept' = {s \in kept : s > n}
    BY <1>5 DEF SweepExpired
  <2>2. UNCHANGED <<stream, posted, inChats, dissolved>> /\ Numbers' = Numbers
    BY <1>5 DEF SweepExpired, Numbers
  <2>3. n \in Nat /\ minSeq \in Nat /\ minSeq < n /\ Numbers \subseteq Nat
    BY <1>0 DEF RowsInv, ChatTypeOK, Numbers
  <2>4. \A s \in Numbers : Reachable(s) => Reachable(s)'
    BY <2>1, <2>3 DEF Reachable
  <2>5. \A s \in kept' : minSeq' < s
    BY <1>0, <2>1, <2>3
  <2>6. \A s : ChatOf(s)' = ChatOf(s) /\ Kind(s)' = Kind(s)
    BY <2>2 DEF ChatOf, Kind
  <2> QED
    BY <1>0, <2>2, <2>4, <2>5, <2>6 DEF RowsInv
<1>6. CASE UNCHANGED streamVars
  BY <1>6 DEF streamVars, RowsInv, Reachable, Kind, ChatOf, Numbers
<1>7. ChatDevice \/ ChatFaults \/ UNCHANGED chatVars => UNCHANGED streamVars
  BY DEF ChatDevice, ChatFaults, BeginSync, BeginRefresh, ReadHead, ReadRows, ReadSnapshot,
         SyncFails, ApplyChanges, ApplySnapshot, ReadPage, ApplyPage, AppQuits, chatVars
<1> QED
  BY <1>1, <1>2, <1>3, <1>4, <1>5, <1>6, <1>7 DEF ChatNext, ChatServer

\* Whatever the device misses is still to come: its row is beyond the cursor,
\* and either there or below min_seq, where the head sends the device to a
\* bootstrap (retention.rs, sync_events.rs).
THEOREM MissingIsReachable == ChatSpec => []MissingIsAhead
<1>1. ChatInit => RowsInv
  BY DEF ChatInit, RowsInv
<1>2. ChatInv /\ RowsInv => MissingIsAhead
  <2> SUFFICES ASSUME ChatInv, RowsInv PROVE MissingIsAhead
    OBVIOUS
  <2>0. ChatTypeOK /\ NothingSkipped /\ RemovalsApplied /\ Numbers \subseteq Nat /\ cursor \in Nat
    BY StreamType DEF ChatInv, Numbers
  <2>1. ASSUME NEW m \in posted, ChatOf(m) \in inChats, bootedAt < m, m \notin held
        PROVE  Ahead(m)
    <3>1. m \in Nat /\ ~(m <= cursor)
      BY <2>0, <2>1 DEF NothingSkipped, ChatTypeOK
    <3> QED
      BY <2>0, <2>1, <3>1 DEF RowsInv, Reachable, Ahead
  <2>2. ASSUME NEW c \in heldChats \ (inChats \cup dissolved)
        PROVE  \E s \in Numbers : stream[s].kind = "removed" /\ ChatOf(s) = c /\ Ahead(s)
    <3>1. PICK s \in Numbers : Kind(s) = "removed" /\ ChatOf(s) = c /\ Reachable(s)
      BY <2>0, <2>2 DEF RowsInv, ChatTypeOK
    <3>2. s \notin 1..cursor
      BY <2>2, <3>1 DEF ChatInv, RemovalsApplied, Kind
    <3>3. s \in Nat /\ 1 <= s /\ ~(s <= cursor)
      BY <2>0, <3>1, <3>2 DEF Numbers
    <3> QED
      BY <2>0, <3>1, <3>3 DEF Reachable, Ahead, Kind
  <2> QED
    BY <2>1, <2>2 DEF MissingIsAhead
<1> QED
  BY <1>1, <1>2, RowsInductive, ChatInvariant, PTL DEF ChatSpec
=============================================================================
