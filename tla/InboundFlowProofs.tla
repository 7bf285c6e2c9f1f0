--------------------------- MODULE InboundFlowProofs ---------------------------
(***************************************************************************)
(* Type correctness and the bound on held QoS 2 messages of InboundFlow,   *)
(* for every Receive Maximum, every finite set of packet identifiers and   *)
(* every client, rogue or not.                                             *)
(*                                                                         *)
(* TypeOK says that receive_in_quota never leaves 0..receive_max, and that *)
(* needs the bound: a credit is returned only for an entry that was        *)
(* removed, and with an entry in the map there is room for one more.  The  *)
(* bound in turn needs the types, so both are proved together.  The third  *)
(* conjunct is about the client: what it sends again after a reconnect is  *)
(* a message.                                                              *)
(***************************************************************************)
EXTENDS InboundFlow, FiniteSetTheorems, TLAPS

SenderHasMessage ==
  \A p \in PacketIds : sender[p].state # "free" => sender[p].msg \in Messages

IInv == TypeOK /\ HeldWithinReceiveMax /\ SenderHasMessage

-----------------------------------------------------------------------------
(* The map and the credits.                                                *)

\* Held is a finite set, so that its cardinality is a number.
LEMMA HeldFinite == IsFiniteSet(Held) /\ Cardinality(Held) \in Nat
  BY InboundAssumption, FS_Subset, FS_CardinalityType DEF InboundAssumption, Held

\* Overwriting the entry of an identifier that is in use (handle_publish on a
\* second PUBLISH) holds no more messages than before.
LEMMA HeldSame ==
  ASSUME TypeOK, NEW p \in PacketIds, NEW n \in Messages, uncompleted[p] # None,
         uncompleted' = [uncompleted EXCEPT ![p] = n]
  PROVE  Held' = Held
  BY InboundAssumption DEF InboundAssumption, TypeOK, Held, Messages

\* A new identifier holds one message more.
LEMMA HeldMore ==
  ASSUME TypeOK, NEW p \in PacketIds, NEW n \in Messages, uncompleted[p] = None,
         uncompleted' = [uncompleted EXCEPT ![p] = n]
  PROVE  Cardinality(Held') = Cardinality(Held) + 1
<1>1. Held' = Held \union {p} /\ p \notin Held
  BY InboundAssumption DEF InboundAssumption, TypeOK, Held, Messages
<1> QED
  BY <1>1, HeldFinite, FS_AddElement

\* Removing an entry (handle_pub_rel) holds one message less.
LEMMA HeldLess ==
  ASSUME TypeOK, NEW p \in PacketIds, uncompleted[p] # None, uncompleted' = Released(p)
  PROVE  Cardinality(Held') = Cardinality(Held) - 1
<1>1. Held' = Held \ {p} /\ p \in Held
  BY DEF TypeOK, Held, Released
<1> QED
  BY <1>1, HeldFinite, FS_RemoveElement

-----------------------------------------------------------------------------
(* The packets on their way.                                               *)

\* Whatever the task reads is a packet, and so is everything behind it.
LEMMA HeadTyped ==
  ASSUME TypeOK, NEW t, Reading(t)
  PROVE  /\ Head(toServer) \in ClientPacket
         /\ Head(toServer).pid \in PacketIds
         /\ t = "PUBLISH" => Head(toServer).msg \in Messages
         /\ Tail(toServer) \in Seq(ClientPacket)
<1>1. toServer \in Seq(ClientPacket) /\ toServer # <<>> /\ Head(toServer).type = t
  BY DEF TypeOK, Reading
<1>2. Head(toServer) \in ClientPacket /\ Tail(toServer) \in Seq(ClientPacket)
  BY <1>1
<1>3. Head(toServer).pid \in PacketIds
  BY <1>2 DEF ClientPacket
<1>4. ASSUME t = "PUBLISH" PROVE Head(toServer).msg \in Messages
  BY <1>1, <1>2, <1>4 DEF ClientPacket
<1> QED
  BY <1>2, <1>3, <1>4

\* An answer keeps both directions typed; only a lost connection empties them.
LEMMA ReplyTyped ==
  ASSUME TypeOK, NEW t, Reading(t), NEW a \in Seq(ServerPacket), Reply(a)
  PROVE  /\ link' \in {"up", "down"}
         /\ toServer' \in Seq(ClientPacket)
         /\ toClient' \in Seq(ServerPacket)
         /\ rejected' \in BOOLEAN
<1>1. Tail(toServer) \in Seq(ClientPacket)
  BY HeadTyped
<1>2. toClient \o a \in Seq(ServerPacket)
  BY DEF TypeOK
<1>3. link \in {"up", "down"} /\ rejected \in BOOLEAN
  BY DEF TypeOK
<1>4. <<>> \in Seq(ClientPacket) /\ <<>> \in Seq(ServerPacket)
  OBVIOUS
<1>5. rejected' \in BOOLEAN
  BY <1>3 DEF Reply
<1>6. CASE toServer' = Tail(toServer) /\ toClient' = toClient \o a /\ UNCHANGED link
  BY <1>1, <1>2, <1>3, <1>5, <1>6
<1>7. CASE link' = "down" /\ toServer' = <<>> /\ toClient' = <<>>
  BY <1>4, <1>5, <1>7
<1> QED
  BY <1>6, <1>7 DEF Reply

\* An answer of a handler is a packet the client knows.
LEMMA AnswerTyped ==
  ASSUME NEW p \in PacketIds, NEW t \in {"PUBACK", "PUBREC", "PUBREC_ERROR", "PUBCOMP"}
  PROVE  <<Answer(t, p)>> \in Seq(ServerPacket) /\ <<>> \in Seq(ServerPacket)
<1>1. Answer(t, p) \in ServerPacket
  BY DEF Answer, ServerPacket
<1> QED
  BY <1>1

\* Delivery is counted.
LEMMA DeliverTyped ==
  ASSUME TypeOK, NEW n \in Messages, Deliver(n)
  PROVE  delivered' \in [Messages -> Nat]
  BY DEF TypeOK, Deliver

-----------------------------------------------------------------------------
\* A new connection holds no message and has all its credits (handle_connect).
THEOREM InitIInv == Init => IInv
<1> SUFFICES ASSUME Init PROVE IInv
  OBVIOUS
<1>1. TypeOK
  <2>1. sender \in [PacketIds -> [state : SenderStates, msg : Messages \union {None}]]
    <3>1. Free \in [state : SenderStates, msg : Messages \union {None}]
      BY DEF Free, SenderStates
    <3> QED
      BY <3>1 DEF Init
  <2>2. link \in {"up", "down"} /\ quota \in 0..ReceiveMax
    BY InboundAssumption DEF Init, InboundAssumption
  <2>3. /\ uncompleted \in [PacketIds -> Messages \union {None}]
        /\ qosOf \in [Messages -> 0..2]
        /\ delivered \in [Messages -> Nat]
    BY DEF Init, NoMessages
  <2>4. toServer \in Seq(ClientPacket) /\ toClient \in Seq(ServerPacket)
    BY DEF Init
  <2>5. /\ published \in 0..MaxMessages /\ reconnects \in 0..MaxReconnects
        /\ rogue \in 0..MaxRogue
    BY InboundAssumption DEF Init, InboundAssumption
  <2>6. rejected \in BOOLEAN
    BY DEF Init
  <2> QED
    BY <2>1, <2>2, <2>3, <2>4, <2>5, <2>6 DEF TypeOK
<1>2. Held = {}
  BY DEF Init, Held, NoMessages
<1>3. HeldWithinReceiveMax
  BY <1>2, FS_EmptySet, InboundAssumption DEF Init, HeldWithinReceiveMax, InboundAssumption
<1>4. SenderHasMessage
  BY DEF Init, SenderHasMessage, Free
<1> QED
  BY <1>1, <1>3, <1>4 DEF IInv

\* A step of the task leaves the client, and what the model counts, alone.
LEMMA ReadingKeeps ==
  ASSUME IInv, NEW t, Reading(t)
  PROVE  /\ SenderHasMessage'
         /\ sender' \in [PacketIds -> [state : SenderStates, msg : Messages \union {None}]]
         /\ published' \in 0..MaxMessages
         /\ qosOf' \in [Messages -> 0..2]
         /\ reconnects' \in 0..MaxReconnects
         /\ rogue' \in 0..MaxRogue
  BY DEF IInv, TypeOK, SenderHasMessage, Reading

\* A handler that rejects the client.
LEMMA RejectKeeps ==
  ASSUME IInv, NEW t, Reading(t), Reject
  PROVE  IInv'
<1>1. TypeOK'
  BY ReadingKeeps DEF IInv, TypeOK, Reject
<1>2. Held' = Held
  BY DEF Held, Reject
<1>3. HeldWithinReceiveMax'
  BY <1>2 DEF IInv, HeldWithinReceiveMax, Reject
<1> QED
  BY <1>1, <1>3, ReadingKeeps DEF IInv

\* A handler that leaves the map and the credits alone.
LEMMA UnheldKeeps ==
  ASSUME IInv, NEW t, Reading(t), NEW a \in Seq(ServerPacket), Reply(a),
         UNCHANGED <<quota, uncompleted>>, delivered' \in [Messages -> Nat]
  PROVE  IInv'
<1>1. TypeOK'
  BY ReadingKeeps, ReplyTyped DEF IInv, TypeOK
<1>2. Held' = Held
  BY DEF Held
<1>3. HeldWithinReceiveMax'
  BY <1>2 DEF IInv, HeldWithinReceiveMax
<1> QED
  BY <1>1, <1>3, ReadingKeeps DEF IInv

\* handle_publish at QoS 0 touches neither map nor credits.
LEMMA Publish0Keeps == ASSUME IInv, HandlePublish0 PROVE IInv'
<1> DEFINE n == Head(toServer).msg
<1>1. Reading("PUBLISH") /\ Deliver(n) /\ Reply(<<>>) /\ UNCHANGED <<quota, uncompleted>>
  BY DEF HandlePublish0
<1>2. n \in Messages
  BY <1>1, HeadTyped DEF IInv
<1>3. delivered' \in [Messages -> Nat]
  BY <1>1, <1>2, DeliverTyped DEF IInv
<1> QED
  BY <1>1, <1>3, UnheldKeeps, <<>> \in Seq(ServerPacket)

\* handle_publish at QoS 1 touches neither map nor credits.
LEMMA Publish1Keeps == ASSUME IInv, HandlePublish1 PROVE IInv'
<1> DEFINE n == Head(toServer).msg
           a == <<Answer("PUBACK", Head(toServer).pid)>>
<1>1. Reading("PUBLISH") /\ Deliver(n) /\ Reply(a) /\ UNCHANGED <<quota, uncompleted>>
  BY DEF HandlePublish1
<1>2. n \in Messages /\ a \in Seq(ServerPacket)
  BY <1>1, HeadTyped, AnswerTyped DEF IInv
<1>3. delivered' \in [Messages -> Nat]
  BY <1>1, <1>2, DeliverTyped DEF IInv
<1> QED
  BY <1>1, <1>2, <1>3, UnheldKeeps

\* handle_publish at QoS 2 takes a credit for the entry it adds, and adds
\* none without a credit.
LEMMA Publish2Keeps == ASSUME IInv, HandlePublish2 PROVE IInv'
<1> DEFINE p == Head(toServer).pid
           n == Head(toServer).msg
<1>1. Reading("PUBLISH")
  BY DEF HandlePublish2
<1>2. p \in PacketIds /\ n \in Messages
  BY <1>1, HeadTyped DEF IInv
<1>3. CASE Reject
  BY <1>1, <1>3, RejectKeeps
<1>4. ASSUME ~Reject
      PROVE  /\ quota # 0
             /\ uncompleted' = [uncompleted EXCEPT ![p] = n]
             /\ UNCHANGED delivered
             /\ \/ /\ uncompleted[p] # None
                   /\ Reply(<<Answer("PUBREC_ERROR", p)>>)
                   /\ UNCHANGED quota
                \/ /\ uncompleted[p] = None
                   /\ quota' = quota - 1
                   /\ Reply(<<Answer("PUBREC", p)>>)
  BY <1>4 DEF HandlePublish2, HoldBack, CreditTaken
<1>5. ASSUME ~Reject PROVE IInv'
  <2>1. PICK a \in Seq(ServerPacket) : Reply(a)
    BY <1>2, <1>4, <1>5, AnswerTyped
  <2>2. uncompleted' \in [PacketIds -> Messages \union {None}] /\ delivered' \in [Messages -> Nat]
    BY <1>2, <1>4, <1>5 DEF IInv, TypeOK
  <2>3. CASE uncompleted[p] # None
    <3>1. Held' = Held /\ quota' = quota
      BY <1>2, <1>4, <1>5, <2>3, HeldSame DEF IInv
    <3>2. HeldWithinReceiveMax' /\ quota' \in 0..ReceiveMax
      BY <3>1 DEF IInv, HeldWithinReceiveMax, TypeOK
    <3> QED
      BY <1>1, <2>1, <2>2, <3>2, ReplyTyped, ReadingKeeps DEF IInv, TypeOK
  <2>4. CASE uncompleted[p] = None
    <3>1. Cardinality(Held') = Cardinality(Held) + 1
      BY <1>2, <1>4, <1>5, <2>4, HeldMore DEF IInv
    <3>2. quota' = quota - 1 /\ quota \in 1..ReceiveMax
      BY <1>4, <1>5, <2>4, InboundAssumption DEF IInv, TypeOK, InboundAssumption
    <3>3. HeldWithinReceiveMax' /\ quota' \in 0..ReceiveMax
      BY <3>1, <3>2, HeldFinite, InboundAssumption
      DEF IInv, HeldWithinReceiveMax, InboundAssumption
    <3> QED
      BY <1>1, <2>1, <2>2, <3>3, ReplyTyped, ReadingKeeps DEF IInv, TypeOK
  <2> QED
    BY <2>3, <2>4
<1> QED
  BY <1>3, <1>5

\* A PUBREL that finds its message: the entry goes, and with it at most one
\* credit comes back.
LEMMA ReleaseKeeps ==
  ASSUME IInv, NEW t, Reading(t), uncompleted[Head(toServer).pid] # None,
         uncompleted' = Released(Head(toServer).pid),
         NEW a \in Seq(ServerPacket), Reply(a), delivered' \in [Messages -> Nat],
         quota' \in {quota, quota + 1}
  PROVE  IInv'
<1> DEFINE p == Head(toServer).pid
<1>1. p \in PacketIds
  BY HeadTyped DEF IInv
<1>2. Cardinality(Held') = Cardinality(Held) - 1
  BY <1>1, HeldLess DEF IInv
<1>3. p \in Held
  BY <1>1 DEF Held
<1>4. Cardinality(Held) > 0 /\ Cardinality(Held) \in Nat
  BY <1>3, HeldFinite, FS_EmptySet
<1>5. HeldWithinReceiveMax' /\ quota' \in 0..ReceiveMax
  BY <1>2, <1>4, InboundAssumption
  DEF IInv, TypeOK, HeldWithinReceiveMax, InboundAssumption
<1>6. uncompleted' \in [PacketIds -> Messages \union {None}]
  BY <1>1 DEF IInv, TypeOK, Released
<1> QED
  BY <1>5, <1>6, ReplyTyped, ReadingKeeps DEF IInv, TypeOK

\* handle_pub_rel gives a credit back for an entry that it removed, and for
\* no other.
LEMMA PubRelKeeps == ASSUME IInv, HandlePubRel PROVE IInv'
<1> DEFINE p == Head(toServer).pid
           a == <<Answer("PUBCOMP", p)>>
<1>1. Reading("PUBREL")
  BY DEF HandlePubRel
<1>2. p \in PacketIds /\ a \in Seq(ServerPacket)
  BY <1>1, HeadTyped, AnswerTyped DEF IInv
<1>3. CASE uncompleted[p] # None
  <2>1. /\ uncompleted' = Released(p) /\ Deliver(uncompleted[p]) /\ Reply(a)
        /\ quota' \in {quota, quota + 1}
    BY <1>3 DEF HandlePubRel, CreditReturned
  <2>2. uncompleted[p] \in Messages
    BY <1>2, <1>3 DEF IInv, TypeOK
  <2>3. delivered' \in [Messages -> Nat]
    BY <2>1, <2>2, DeliverTyped DEF IInv
  <2> QED
    BY <1>1, <1>2, <1>3, <2>1, <2>3, ReleaseKeeps
<1>4. CASE uncompleted[p] = None /\ Level = "V5"
  <2>1. Reply(a) /\ UNCHANGED <<quota, uncompleted, delivered>>
    BY <1>4 DEF HandlePubRel
  <2> QED
    BY <1>1, <1>2, <2>1, UnheldKeeps DEF IInv, TypeOK
<1>5. CASE uncompleted[p] = None /\ Level # "V5"
  BY <1>1, <1>5, RejectKeeps DEF HandlePubRel
<1> QED
  BY <1>3, <1>4, <1>5

\* A PUBREL with an error code removes an entry and gives no credit back.
LEMMA PubRelErrorKeeps == ASSUME IInv, HandlePubRelError PROVE IInv'
<1> DEFINE p == Head(toServer).pid
           a == <<Answer("PUBCOMP", p)>>
<1>1. Reading("PUBREL_ERROR")
  BY DEF HandlePubRelError
<1>2. p \in PacketIds /\ a \in Seq(ServerPacket) /\ <<>> \in Seq(ServerPacket)
  BY <1>1, HeadTyped, AnswerTyped DEF IInv
<1>3. CASE uncompleted[p] # None
  <2>1. uncompleted' = Released(p) /\ Reply(<<>>) /\ UNCHANGED <<quota, delivered>>
    BY <1>3 DEF HandlePubRelError
  <2> QED
    BY <1>1, <1>2, <1>3, <2>1, ReleaseKeeps DEF IInv, TypeOK
<1>4. CASE uncompleted[p] = None /\ Level = "V5"
  <2>1. Reply(a) /\ UNCHANGED <<quota, uncompleted, delivered>>
    BY <1>4 DEF HandlePubRelError
  <2> QED
    BY <1>1, <1>2, <2>1, UnheldKeeps DEF IInv, TypeOK
<1>5. CASE uncompleted[p] = None /\ Level # "V5"
  BY <1>1, <1>5, RejectKeeps DEF HandlePubRelError
<1> QED
  BY <1>3, <1>4, <1>5

-----------------------------------------------------------------------------
(* The connection and the client.                                          *)

\* A step that leaves the connection's fields alone keeps the bound.
LEMMA HeldUntouched ==
  ASSUME IInv, UNCHANGED connVars
  PROVE  HeldWithinReceiveMax'
<1>1. Held' = Held
  BY DEF Held, connVars
<1> QED
  BY <1>1 DEF IInv, HeldWithinReceiveMax, connVars

\* The end of a connection drops the map and all that was on its way.
LEMMA DropKeeps == ASSUME IInv, Drop PROVE IInv'
<1>1. TypeOK'
  BY DEF IInv, TypeOK, Drop, modelVars
<1>2. Held' = Held
  BY DEF Held, Drop
<1>3. HeldWithinReceiveMax' /\ SenderHasMessage'
  BY <1>2 DEF IInv, HeldWithinReceiveMax, SenderHasMessage, Drop
<1> QED
  BY <1>1, <1>3 DEF IInv

\* Everything the client sends again is a packet with a message of its own.
LEMMA UnfinishedTyped ==
  ASSUME IInv, NEW busy \in SUBSET PacketIds, \A p \in busy : sender[p].state # "free",
         NEW seq \in [1..Cardinality(busy) -> busy]
  PROVE  Unfinished(seq) \in Seq(ClientPacket)
<1> DEFINE packet(i) ==
      IF sender[seq[i]].state = "published"
        THEN PublishPacket(qosOf[sender[seq[i]].msg], seq[i], sender[seq[i]].msg)
        ELSE PubRel(seq[i])
<1>1. Cardinality(busy) \in Nat
  BY InboundAssumption, FS_Subset, FS_CardinalityType DEF InboundAssumption
<1>2. ASSUME NEW i \in 1..Cardinality(busy) PROVE packet(i) \in ClientPacket
  <2>1. seq[i] \in PacketIds /\ sender[seq[i]].msg \in Messages
    BY <1>2 DEF IInv, SenderHasMessage
  <2>2. qosOf[sender[seq[i]].msg] \in 0..2
    BY <2>1 DEF IInv, TypeOK
  <2> QED
    BY <2>1, <2>2 DEF ClientPacket, PublishPacket, PubRel
<1>3. Unfinished(seq) = [i \in 1..Cardinality(busy) |-> packet(i)]
  BY DEF Unfinished
<1> HIDE DEF packet
<1> QED
  BY <1>1, <1>2, <1>3

\* A new connection has an empty map, all credits, and a client that sends
\* what it has again.
LEMMA ReconnectKeeps == ASSUME IInv, Reconnect PROVE IInv'
<1> DEFINE busy == {p \in PacketIds : sender[p].state # "free"}
<1>1. toServer' \in Seq(ClientPacket)
  <2>1. PICK seq \in [1..Cardinality(busy) -> busy] : toServer' = Unfinished(seq)
    BY DEF Reconnect
  <2> QED
    BY <2>1, UnfinishedTyped
<1>2. quota' \in 0..ReceiveMax /\ reconnects' \in 0..MaxReconnects
  BY InboundAssumption DEF IInv, TypeOK, Reconnect, InboundAssumption
<1>3. uncompleted' \in [PacketIds -> Messages \union {None}] /\ link' \in {"up", "down"}
  BY DEF Reconnect, NoMessages
<1>4. TypeOK'
  BY <1>1, <1>2, <1>3 DEF IInv, TypeOK, Reconnect
<1>5. Held' = {}
  BY DEF Held, Reconnect, NoMessages
<1>6. HeldWithinReceiveMax'
  BY <1>5, FS_EmptySet, InboundAssumption DEF HeldWithinReceiveMax, Reconnect, InboundAssumption
<1>7. SenderHasMessage'
  BY DEF IInv, SenderHasMessage, Reconnect
<1> QED
  BY <1>4, <1>6, <1>7 DEF IInv

\* The next message of the client, of QoS q.
LEMMA NextMessage ==
  ASSUME TypeOK, published < MaxMessages, NEW q \in 0..2, NEW p \in PacketIds,
         qosOf' = [qosOf EXCEPT ![published + 1] = q],
         toServer' = Append(toServer, PublishPacket(q, p, published + 1))
  PROVE  /\ published + 1 \in Messages
         /\ published + 1 \in 0..MaxMessages
         /\ qosOf' \in [Messages -> 0..2]
         /\ toServer' \in Seq(ClientPacket)
<1>1. published + 1 \in Messages /\ published + 1 \in 0..MaxMessages
  BY InboundAssumption DEF TypeOK, Messages, InboundAssumption
<1>2. PublishPacket(q, p, published + 1) \in ClientPacket
  BY <1>1 DEF PublishPacket, ClientPacket
<1>3. toServer' \in Seq(ClientPacket)
  BY <1>2 DEF TypeOK
<1> QED
  BY <1>1, <1>3 DEF TypeOK

\* A PUBLISH of the client is a packet the handlers know.
LEMMA ClientPublishesKeeps ==
  ASSUME IInv, NEW q \in QosLevels, NEW p \in PacketIds, ClientPublishes(q, p)
  PROVE  IInv'
<1> DEFINE n == published + 1
<1>1. q \in 0..2
  BY InboundAssumption DEF InboundAssumption
<1>2. /\ n \in Messages /\ n \in 0..MaxMessages
      /\ qosOf' \in [Messages -> 0..2] /\ toServer' \in Seq(ClientPacket)
  BY <1>1, NextMessage DEF ClientPublishes, IInv
<1>3. /\ published' = n
      /\ sender' \in {sender, [sender EXCEPT ![p] = [state |-> "published", msg |-> n]]}
      /\ UNCHANGED <<link, quota, uncompleted, toClient, delivered, rejected, reconnects, rogue>>
  BY DEF ClientPublishes, connVars
<1>4. sender' \in [PacketIds -> [state : SenderStates, msg : Messages \union {None}]]
  <2>1. [state |-> "published", msg |-> n] \in [state : SenderStates, msg : Messages \union {None}]
    BY <1>2 DEF SenderStates
  <2> QED
    BY <1>3, <2>1 DEF IInv, TypeOK
<1>5. TypeOK'
  BY <1>2, <1>3, <1>4 DEF IInv, TypeOK
<1>6. SenderHasMessage'
  BY <1>2, <1>3 DEF IInv, TypeOK, SenderHasMessage
<1> QED
  BY <1>3, <1>5, <1>6, HeldUntouched DEF IInv, connVars

\* So is what the client sends for an answer.
LEMMA ClientReadsKeeps == ASSUME IInv, ClientReads PROVE IInv'
<1> DEFINE a == Head(toClient)
           go == a.type = "PUBREC" /\ sender[a.pid].state # "free"
<1>1. a \in ServerPacket /\ Tail(toClient) \in Seq(ServerPacket)
  BY DEF IInv, TypeOK, ClientReads
<1>2. a.pid \in PacketIds
  BY <1>1 DEF ServerPacket
<1>3. /\ toClient' = Tail(toClient)
      /\ sender' = [sender EXCEPT ![a.pid] =
                      IF go THEN [@ EXCEPT !.state = "released"] ELSE Free]
      /\ toServer' = IF go THEN Append(toServer, PubRel(a.pid)) ELSE toServer
      /\ UNCHANGED <<connVars, modelVars, delivered>>
  BY DEF ClientReads
<1>4. toServer' \in Seq(ClientPacket)
  <2>1. PubRel(a.pid) \in ClientPacket
    BY <1>2 DEF PubRel, ClientPacket
  <2> QED
    BY <1>3, <2>1 DEF IInv, TypeOK
<1>5. PICK new \in [state : SenderStates, msg : Messages \union {None}] :
           /\ sender' = [sender EXCEPT ![a.pid] = new]
           /\ new.state # "free" => new.msg \in Messages
  <2>1. CASE go
    <3> DEFINE new == [sender[a.pid] EXCEPT !.state = "released"]
    <3>1. sender[a.pid] \in [state : SenderStates, msg : Messages \union {None}]
      BY <1>2 DEF IInv, TypeOK
    <3>2. new \in [state : SenderStates, msg : Messages \union {None}]
      BY <3>1 DEF SenderStates
    <3>3. new.msg \in Messages
      BY <1>2, <2>1, <3>1 DEF IInv, SenderHasMessage
    <3>4. sender' = [sender EXCEPT ![a.pid] = new]
      BY <1>3, <2>1
    <3> QED
      BY <3>2, <3>3, <3>4
  <2>2. CASE ~go
    <3>1. Free \in [state : SenderStates, msg : Messages \union {None}] /\ Free.state = "free"
      BY DEF Free, SenderStates
    <3> QED
      BY <1>3, <2>2, <3>1
  <2> QED
    BY <2>1, <2>2
<1>6. sender' \in [PacketIds -> [state : SenderStates, msg : Messages \union {None}]]
  BY <1>5 DEF IInv, TypeOK
<1>7. SenderHasMessage'
  BY <1>2, <1>5 DEF IInv, TypeOK, SenderHasMessage
<1>8. TypeOK'
  BY <1>1, <1>3, <1>4, <1>6 DEF IInv, TypeOK, connVars, modelVars
<1> QED
  BY <1>3, <1>7, <1>8, HeldUntouched DEF IInv

\* And whatever a rogue client sends.
LEMMA RogueSendsKeeps == ASSUME IInv, RogueSends PROVE IInv'
<1>0. rogue' \in 0..MaxRogue
  BY InboundAssumption DEF IInv, TypeOK, RogueSends, InboundAssumption
<1>1. UNCHANGED <<connVars, toClient, sender, rejected, reconnects, delivered>>
  BY DEF RogueSends
<1>2. /\ toServer' \in Seq(ClientPacket)
      /\ published' \in 0..MaxMessages
      /\ qosOf' \in [Messages -> 0..2]
  <2>1. PICK p \in PacketIds :
          \/ /\ published < MaxMessages
             /\ published' = published + 1
             /\ \E q \in QosLevels :
                  /\ qosOf' = [qosOf EXCEPT ![published + 1] = q]
                  /\ toServer' = Append(toServer, PublishPacket(q, p, published + 1))
          \/ /\ \/ toServer' = Append(toServer, PubRel(p))
                \/ toServer' = Append(toServer, PubRelError(p))
             /\ UNCHANGED <<published, qosOf>>
    BY DEF RogueSends
  <2>2. CASE UNCHANGED <<published, qosOf>>
             /\ (toServer' = Append(toServer, PubRel(p)) \/ toServer' = Append(toServer, PubRelError(p)))
    <3>1. PubRel(p) \in ClientPacket /\ PubRelError(p) \in ClientPacket
      BY DEF PubRel, PubRelError, ClientPacket
    <3>2. toServer \in Seq(ClientPacket)
      BY DEF IInv, TypeOK
    <3>3. Append(toServer, PubRel(p)) \in Seq(ClientPacket)
          /\ Append(toServer, PubRelError(p)) \in Seq(ClientPacket)
      BY <3>1, <3>2
    <3> QED
      BY <2>2, <3>3 DEF IInv, TypeOK
  <2>3. ASSUME published < MaxMessages, published' = published + 1,
               NEW q \in QosLevels, qosOf' = [qosOf EXCEPT ![published + 1] = q],
               toServer' = Append(toServer, PublishPacket(q, p, published + 1))
        PROVE  <1>2!1 /\ <1>2!2 /\ <1>2!3
    <3>1. q \in 0..2
      BY InboundAssumption DEF InboundAssumption
    <3> QED
      BY <2>3, <3>1, NextMessage DEF IInv
  <2> QED
    BY <2>1, <2>2, <2>3
<1>3. TypeOK' /\ SenderHasMessage'
  BY <1>0, <1>1, <1>2 DEF IInv, TypeOK, SenderHasMessage, connVars
<1> QED
  BY <1>1, <1>3, HeldUntouched DEF IInv

-----------------------------------------------------------------------------
\* Every step of the task, the network and the client keeps the invariant.
THEOREM NextIInv == IInv /\ [Next]_vars => IInv'
<1> SUFFICES ASSUME IInv, [Next]_vars PROVE IInv'
  OBVIOUS
<1>1. ASSUME NEW q \in QosLevels, NEW p \in PacketIds, ClientPublishes(q, p) PROVE IInv'
  BY <1>1, ClientPublishesKeeps
<1>2. CASE ClientReads
  BY <1>2, ClientReadsKeeps
<1>3. CASE RogueSends
  BY <1>3, RogueSendsKeeps
<1>4. CASE Server
  BY <1>4, Publish0Keeps, Publish1Keeps, Publish2Keeps, PubRelKeeps, PubRelErrorKeeps DEF Server
<1>5. CASE Drop
  BY <1>5, DropKeeps
<1>6. CASE Reconnect
  BY <1>6, ReconnectKeeps
<1>7. CASE UNCHANGED vars
  <2>1. TypeOK' /\ SenderHasMessage'
    BY <1>7 DEF IInv, TypeOK, SenderHasMessage, vars, connVars, modelVars
  <2> QED
    BY <1>7, <2>1, HeldUntouched DEF IInv, vars
<1> QED
  BY <1>1, <1>2, <1>3, <1>4, <1>5, <1>6, <1>7 DEF Next

\* Whatever a client sends, the QoS 2 messages the broker holds for it and its
\* remaining credits never exceed receive_max (handle_publish, handle_pub_rel).
THEOREM HeldBounded == Spec => []HeldWithinReceiveMax
<1>1. IInv => HeldWithinReceiveMax
  BY DEF IInv
<1> QED
  BY <1>1, InitIInv, NextIInv, PTL DEF Spec

\* receive_in_quota stays within 0..receive_max, and every packet on its way is
\* one the handlers know.
THEOREM TypeCorrect == Spec => []TypeOK
<1>1. IInv => TypeOK
  BY DEF IInv
<1> QED
  BY <1>1, InitIInv, NextIInv, PTL DEF Spec

-----------------------------------------------------------------------------
(***************************************************************************)
(* What a conforming client may rely on, for every Receive Maximum, any    *)
(* number of reconnects and any loss: at most once at QoS 2, a message     *)
(* acknowledged stays until its release, on the first connection what is   *)
(* finished was delivered, and with MQTT 5 it is never thrown out.         *)
(*                                                                         *)
(* The argument follows an identifier through its exchange.  At any time   *)
(* at most one packet with it is on its way, in either direction           *)
(* (OneAtATime), and what that packet is fixes what the client and the map *)
(* say about it (ToServerInStep, ToClientInStep).  So a PUBLISH finds no   *)
(* entry in the map, and the PUBREL that delivers a message finds the      *)
(* client past the point where it would send the message again.            *)
(***************************************************************************)
-----------------------------------------------------------------------------
(* The invariant.                                                          *)

\* A packet that belongs to the exchange of its identifier.
Exchanged(m) == m.type # "PUBLISH" \/ m.qos > 0

\* Messages are named after they were published.
Numbered ==
  /\ \A i \in DOMAIN toServer : toServer[i].type = "PUBLISH" =>
       /\ toServer[i].msg <= published
       /\ qosOf[toServer[i].msg] = toServer[i].qos
  /\ \A p \in PacketIds : uncompleted[p] # None =>
       uncompleted[p] <= published /\ qosOf[uncompleted[p]] = 2
  /\ \A p \in PacketIds : sender[p].state # "free" => sender[p].msg <= published
  /\ \A n \in Messages : n > published => delivered[n] = 0

OneSender ==
  \A p, q \in PacketIds :
    sender[p].state # "free" /\ sender[q].state # "free" /\ sender[p].msg = sender[q].msg => p = q

OneAtATime ==
  /\ \A i, j \in DOMAIN toServer :
       i # j /\ Exchanged(toServer[i]) /\ Exchanged(toServer[j]) => toServer[i].pid # toServer[j].pid
  /\ \A i, j \in DOMAIN toClient : i # j => toClient[i].pid # toClient[j].pid
  /\ \A i \in DOMAIN toServer, j \in DOMAIN toClient :
       Exchanged(toServer[i]) => toServer[i].pid # toClient[j].pid

\* What a packet to the broker says of the client and of the map.
SentInStep(m) ==
  /\ m.type # "PUBREL_ERROR"
  /\ m.type = "PUBLISH" /\ m.qos > 0 =>
       sender[m.pid] = [state |-> "published", msg |-> m.msg] /\ uncompleted[m.pid] = None
  /\ m.type = "PUBREL" =>
       /\ sender[m.pid].state = "released"
       /\ reconnects = 0 => uncompleted[m.pid] = sender[m.pid].msg
ToServerInStep == \A i \in DOMAIN toServer : SentInStep(toServer[i])

\* What an answer says of them.
AnsweredInStep(a) ==
  /\ a.type # "PUBREC_ERROR"
  /\ sender[a.pid].state # "free"
  /\ a.type = "PUBREC" =>
       sender[a.pid].state = "published" /\ uncompleted[a.pid] = sender[a.pid].msg
  /\ a.type # "PUBREC" =>
       /\ uncompleted[a.pid] = None
       /\ reconnects = 0 => delivered[sender[a.pid].msg] >= 1
ToClientInStep == \A i \in DOMAIN toClient : AnsweredInStep(toClient[i])

\* What is in the map or will be sent again has not been delivered.
NotYet ==
  /\ \A p \in PacketIds : uncompleted[p] # None =>
       /\ sender[p].state # "free" /\ sender[p].msg = uncompleted[p]
       /\ delivered[uncompleted[p]] = 0
  /\ \A p \in PacketIds :
       sender[p].state = "published" /\ qosOf[sender[p].msg] = 2 => delivered[sender[p].msg] = 0

FreeIsEmpty == \A p \in PacketIds : sender[p].state = "free" => sender[p].msg = None

Lost == link = "down" => toServer = <<>> /\ toClient = <<>>

Once == \A n \in 1..published : qosOf[n] = 2 => delivered[n] <= 1
Finished == reconnects = 0 => FinishedMeansDelivered

Conforms == /\ Numbered /\ OneSender /\ OneAtATime
            /\ ToServerInStep /\ ToClientInStep
            /\ FreeIsEmpty /\ NotYet /\ Lost /\ Once /\ Finished
CInv == rogue = 0 => Conforms

-----------------------------------------------------------------------------
(* Packets on their way.                                                   *)

\* What taking the first packet leaves.
LEMMA TailOf ==
  ASSUME NEW S, NEW s \in Seq(S), s # <<>>
  PROVE  /\ 1 \in DOMAIN s /\ s[1] = Head(s)
         /\ \A i \in DOMAIN Tail(s) : /\ i + 1 \in DOMAIN s /\ Tail(s)[i] = s[i + 1]
                                      /\ i \in Nat /\ i + 1 # 1
  OBVIOUS

\* What a packet sent adds to the packets on their way.
LEMMA AppendOf ==
  ASSUME NEW S, NEW s \in Seq(S), NEW a \in S
  PROVE  /\ s \o <<a>> = Append(s, a)
         /\ \A i \in DOMAIN Append(s, a) :
              \/ i \in DOMAIN s /\ Append(s, a)[i] = s[i]
              \/ i = Len(s) + 1 /\ i \notin DOMAIN s /\ Append(s, a)[i] = a
  OBVIOUS

\* A packet is taken from the connection and answered: the answer takes its
\* place as the one packet of the identifier.
LEMMA Answered ==
  ASSUME IInv, OneAtATime, NEW t, Reading(t), Exchanged(Head(toServer)),
         NEW a \in ServerPacket, a.pid = Head(toServer).pid, Reply(<<a>>)
  PROVE  /\ OneAtATime' /\ Lost'
         /\ \A i \in DOMAIN toServer' : \E j \in DOMAIN toServer :
              /\ toServer'[i] = toServer[j]
              /\ Exchanged(toServer[j]) => toServer[j].pid # a.pid
         /\ \A i \in DOMAIN toClient' :
              \/ toClient'[i] = a
              \/ \E j \in DOMAIN toClient :
                   toClient'[i] = toClient[j] /\ toClient[j].pid # a.pid
<1>1. /\ toServer \in Seq(ClientPacket) /\ toClient \in Seq(ServerPacket)
      /\ toServer # <<>> /\ link = "up"
  BY DEF IInv, TypeOK, Reading
<1>2. CASE link' = "down" /\ toServer' = <<>> /\ toClient' = <<>>
  BY <1>2 DEF OneAtATime, Lost
<1>3. CASE toServer' = Tail(toServer) /\ toClient' = toClient \o <<a>> /\ UNCHANGED link
  <2>1. toClient' = Append(toClient, a)
    BY <1>1, <1>3, AppendOf
  <2>2. /\ 1 \in DOMAIN toServer /\ toServer[1] = Head(toServer)
        /\ \A i \in DOMAIN toServer' :
             i + 1 \in DOMAIN toServer /\ toServer'[i] = toServer[i + 1] /\ i \in Nat /\ i + 1 # 1
    BY <1>1, <1>3, TailOf
  <2>3. \A i \in DOMAIN toClient' :
          \/ i \in DOMAIN toClient /\ toClient'[i] = toClient[i]
          \/ i = Len(toClient) + 1 /\ i \notin DOMAIN toClient /\ toClient'[i] = a
    BY <1>1, <2>1, AppendOf
  <2>4. \A i \in DOMAIN toServer' : Exchanged(toServer[i + 1]) => toServer[i + 1].pid # a.pid
    BY <2>2 DEF OneAtATime
  <2>5. \A j \in DOMAIN toClient : toClient[j].pid # a.pid
    BY <2>2 DEF OneAtATime
  <2>6. ASSUME NEW i \in DOMAIN toServer', NEW j \in DOMAIN toServer', i # j,
               Exchanged(toServer'[i]), Exchanged(toServer'[j])
        PROVE  toServer'[i].pid # toServer'[j].pid
    <3>1. i + 1 # j + 1
      BY <2>2, <2>6
    <3> QED
      BY <2>2, <2>6, <3>1 DEF OneAtATime
  <2>7. ASSUME NEW i \in DOMAIN toClient', NEW j \in DOMAIN toClient', i # j
        PROVE  toClient'[i].pid # toClient'[j].pid
    BY <2>3, <2>5, <2>7 DEF OneAtATime
  <2>8. ASSUME NEW i \in DOMAIN toServer', NEW j \in DOMAIN toClient', Exchanged(toServer'[i])
        PROVE  toServer'[i].pid # toClient'[j].pid
    BY <2>2, <2>3, <2>4, <2>8 DEF OneAtATime
  <2>9. OneAtATime'
    BY <2>6, <2>7, <2>8 DEF OneAtATime, Exchanged
  <2>10. Lost'
    BY <1>1, <1>3 DEF Lost
  <2> QED
    BY <2>2, <2>3, <2>4, <2>5, <2>9, <2>10
<1> QED
  BY <1>2, <1>3 DEF Reply

\* A packet that is not answered is gone.
LEMMA Unanswered ==
  ASSUME IInv, OneAtATime, NEW t, Reading(t), Reply(<<>>)
  PROVE  /\ OneAtATime' /\ Lost'
         /\ \A i \in DOMAIN toServer' : \E j \in DOMAIN toServer : toServer'[i] = toServer[j]
         /\ toClient' = toClient
<1>1. /\ toServer \in Seq(ClientPacket) /\ toClient \in Seq(ServerPacket)
      /\ toServer # <<>> /\ link = "up"
  BY DEF IInv, TypeOK, Reading
<1>2. toServer' = Tail(toServer) /\ toClient' = toClient /\ link' = "up"
  BY <1>1 DEF Reply
<1>3. \A i \in DOMAIN toServer' :
        i + 1 \in DOMAIN toServer /\ toServer'[i] = toServer[i + 1] /\ i \in Nat
  BY <1>1, <1>2, TailOf
<1>4. ASSUME NEW i \in DOMAIN toServer', NEW j \in DOMAIN toServer', i # j,
             Exchanged(toServer'[i]), Exchanged(toServer'[j])
      PROVE  toServer'[i].pid # toServer'[j].pid
  <2>1. i + 1 # j + 1
    BY <1>3, <1>4
  <2> QED
    BY <1>3, <1>4, <2>1 DEF OneAtATime
<1>5. OneAtATime'
  BY <1>2, <1>3, <1>4 DEF OneAtATime, Exchanged
<1> QED
  BY <1>2, <1>3, <1>5 DEF Lost

-----------------------------------------------------------------------------
(* The connection task.                                                    *)

\* The packet the task reads, seen as what it is.
LEMMA HeadInStep ==
  ASSUME IInv, Conforms, NEW t, Reading(t)
  PROVE  /\ Head(toServer) \in ClientPacket /\ Head(toServer).pid \in PacketIds
         /\ t = "PUBLISH" =>
              /\ Head(toServer).msg \in Messages /\ Head(toServer).msg \in 1..published
              /\ qosOf[Head(toServer).msg] = Head(toServer).qos
         /\ SentInStep(Head(toServer))
         /\ Head(toServer).type = t /\ link = "up"
<1>1. toServer \in Seq(ClientPacket) /\ toServer # <<>> /\ Head(toServer).type = t /\ link = "up"
  BY DEF IInv, TypeOK, Reading
<1>2. 1 \in DOMAIN toServer /\ toServer[1] = Head(toServer)
  BY <1>1, TailOf
<1>3. SentInStep(Head(toServer))
  BY <1>2 DEF Conforms, ToServerInStep
<1>4. ASSUME t = "PUBLISH"
      PROVE  /\ Head(toServer).msg \in Messages /\ Head(toServer).msg \in 1..published
             /\ qosOf[Head(toServer).msg] = Head(toServer).qos
  <2>1. Head(toServer).msg \in Messages
    BY <1>4, HeadTyped DEF IInv
  <2>2. Head(toServer).msg <= published /\ qosOf[Head(toServer).msg] = Head(toServer).qos
    BY <1>1, <1>2, <1>4 DEF Conforms, Numbered
  <2>3. published \in Nat
    BY DEF IInv, TypeOK
  <2> QED
    BY <2>1, <2>2, <2>3 DEF Messages
<1> QED
  BY <1>1, <1>3, <1>4, HeadTyped DEF IInv

\* A handler that throws the client out: nothing is on its way any more.
LEMMA RejectConforms == ASSUME IInv, Conforms, NEW t, Reading(t), Reject PROVE Conforms'
<1>1. /\ toServer' = <<>> /\ toClient' = <<>>
      /\ UNCHANGED <<uncompleted, delivered, sender, published, qosOf, reconnects>>
  BY DEF Reject, Reading
<1>2. Numbered' /\ OneSender' /\ FreeIsEmpty'
  BY <1>1 DEF Conforms, Numbered, OneSender, FreeIsEmpty
<1>3. OneAtATime' /\ ToServerInStep' /\ ToClientInStep' /\ Lost'
  BY <1>1 DEF OneAtATime, ToServerInStep, ToClientInStep, Lost
<1>4. NotYet' /\ Once'
  BY <1>1 DEF Conforms, NotYet, Once
<1>5. Finished'
  BY <1>1 DEF Conforms, Finished, FinishedMeansDelivered
<1> QED
  BY <1>2, <1>3, <1>4, <1>5 DEF Conforms

\* What delivery changes.
LEMMA DeliverAdds ==
  ASSUME IInv, NEW n \in Messages, Deliver(n)
  PROVE  /\ delivered[n] \in Nat /\ delivered'[n] = delivered[n] + 1
         /\ \A k \in Messages : k # n => delivered'[k] = delivered[k]
         /\ \A k \in Messages : delivered[k] \in Nat /\ delivered'[k] >= delivered[k]
  BY DEF IInv, TypeOK, Deliver

\* Nothing that the client has finished with is taken back.
LEMMA FinishedKept ==
  ASSUME IInv, Conforms, \A k \in Messages : delivered'[k] \in Nat /\ delivered'[k] >= delivered[k],
         UNCHANGED <<sender, published, qosOf, reconnects>>
  PROVE  Finished'
<1>1. \A k \in 1..published : k \in Messages /\ delivered[k] \in Nat
  BY InboundAssumption DEF IInv, TypeOK, Messages, InboundAssumption
<1> QED
  BY <1>1 DEF Conforms, Finished, FinishedMeansDelivered

\* A message below QoS 2 is delivered at once: there is nothing to wait for.
LEMMA DeliverAtOnce ==
  ASSUME IInv, Conforms, NEW n \in 1..published, n \in Messages, qosOf[n] # 2, Deliver(n),
         UNCHANGED <<uncompleted, sender, published, qosOf, reconnects>>
  PROVE  /\ OneSender' /\ FreeIsEmpty' /\ NotYet' /\ Once' /\ Finished'
         /\ \A k \in Messages : k > published => delivered'[k] = 0
         /\ \A k \in Messages : delivered[k] \in Nat /\ delivered'[k] >= delivered[k]
<1>1. /\ \A k \in Messages : k # n => delivered'[k] = delivered[k]
      /\ \A k \in Messages : delivered[k] \in Nat /\ delivered'[k] >= delivered[k]
      /\ \A k \in Messages : delivered'[k] \in Nat
  BY DeliverAdds, DeliverTyped DEF IInv
<1>2. OneSender' /\ FreeIsEmpty'
  BY DEF Conforms, OneSender, FreeIsEmpty
<1>3. NotYet'
  <2>1. \A p \in PacketIds : uncompleted[p] # None => uncompleted[p] \in Messages /\ uncompleted[p] # n
    BY DEF Conforms, Numbered, IInv, TypeOK
  <2>2. \A p \in PacketIds : sender[p].state = "published" /\ qosOf[sender[p].msg] = 2
          => sender[p].msg \in Messages /\ sender[p].msg # n
    BY DEF IInv, SenderHasMessage
  <2> QED
    BY <1>1, <2>1, <2>2 DEF Conforms, NotYet
<1>4. Once'
  <2>1. \A k \in 1..published : k \in Messages
    BY InboundAssumption DEF IInv, TypeOK, Messages, InboundAssumption
  <2> QED
    BY <1>1, <2>1 DEF Conforms, Once
<1>5. Finished'
  BY <1>1, FinishedKept
<1>6. \A k \in Messages : k > published => delivered'[k] = 0
  <2>1. \A k \in Messages : k > published => k # n
    BY InboundAssumption DEF IInv, TypeOK, Messages, InboundAssumption
  <2> QED
    BY <1>1, <2>1 DEF Conforms, Numbered
<1> QED
  BY <1>1, <1>2, <1>3, <1>4, <1>5, <1>6

\* Every answer of the broker names an identifier of PacketIds.
LEMMA AnswerHasPid ==
  ASSUME IInv, NEW i \in DOMAIN toClient
  PROVE  toClient[i] \in ServerPacket /\ toClient[i].pid \in PacketIds
<1>1. toClient[i] \in ServerPacket
  BY DEF IInv, TypeOK
<1> QED
  BY <1>1 DEF ServerPacket

\* An answer on its way stays right when more has been delivered.
LEMMA AnswerKept ==
  ASSUME IInv, Conforms, NEW i \in DOMAIN toClient,
         \A k \in Messages : delivered[k] \in Nat /\ delivered'[k] >= delivered[k],
         delivered' \in [Messages -> Nat],
         UNCHANGED <<sender, reconnects>>, uncompleted'[toClient[i].pid] = uncompleted[toClient[i].pid]
  PROVE  /\ toClient[i].pid \in PacketIds
         /\ toClient[i].type # "PUBREC_ERROR"
         /\ sender'[toClient[i].pid].state # "free"
         /\ toClient[i].type = "PUBREC" =>
              /\ sender'[toClient[i].pid].state = "published"
              /\ uncompleted'[toClient[i].pid] = sender'[toClient[i].pid].msg
         /\ toClient[i].type # "PUBREC" =>
              /\ uncompleted'[toClient[i].pid] = None
              /\ reconnects' = 0 => delivered'[sender'[toClient[i].pid].msg] >= 1
<1> DEFINE a == toClient[i]
<1>1. AnsweredInStep(a)
  BY DEF Conforms, ToClientInStep
<1>3. a.pid \in PacketIds
  BY AnswerHasPid
<1>4. sender[a.pid].msg \in Messages
  BY <1>1, <1>3 DEF IInv, SenderHasMessage, AnsweredInStep
<1>5. delivered[sender[a.pid].msg] >= 1 => delivered'[sender[a.pid].msg] >= 1
  BY <1>4
<1> QED
  BY <1>1, <1>3, <1>5 DEF AnsweredInStep

\* QoS 0: the message has no exchange.
LEMMA Publish0Conforms == ASSUME IInv, Conforms, HandlePublish0 PROVE Conforms'
<1> DEFINE n == Head(toServer).msg
<1>1. /\ Reading("PUBLISH") /\ Head(toServer).qos = 0 /\ Deliver(n) /\ Reply(<<>>)
      /\ UNCHANGED <<uncompleted, sender, published, qosOf, reconnects>>
  BY DEF HandlePublish0, Reading
<1>2. n \in Messages /\ n \in 1..published /\ qosOf[n] # 2
  BY <1>1, HeadInStep
<1>3. /\ OneAtATime' /\ Lost' /\ toClient' = toClient
      /\ \A i \in DOMAIN toServer' : \E j \in DOMAIN toServer : toServer'[i] = toServer[j]
  BY <1>1, Unanswered DEF Conforms
<1>4. /\ OneSender' /\ FreeIsEmpty' /\ NotYet' /\ Once' /\ Finished'
      /\ \A k \in Messages : k > published => delivered'[k] = 0
      /\ \A k \in Messages : delivered[k] \in Nat /\ delivered'[k] >= delivered[k]
  BY <1>1, <1>2, DeliverAtOnce
<1>5. Numbered'
  BY <1>1, <1>3, <1>4 DEF Conforms, Numbered
<1>6. ToServerInStep'
  BY <1>1, <1>3 DEF Conforms, ToServerInStep, SentInStep
<1>7. ToClientInStep'
  <2>1. delivered' \in [Messages -> Nat]
    BY <1>1, <1>2, DeliverTyped DEF IInv
  <2>2. ASSUME NEW i \in DOMAIN toClient' PROVE AnsweredInStep(toClient[i])'
    <3>1. i \in DOMAIN toClient /\ toClient'[i] = toClient[i]
      BY <1>3
    <3> QED
      BY <1>1, <1>4, <2>1, <3>1, AnswerKept DEF AnsweredInStep
  <2> QED
    BY <2>2 DEF ToClientInStep
<1> QED
  BY <1>3, <1>4, <1>5, <1>6, <1>7 DEF Conforms

\* QoS 1: delivered, and the answer says so.
LEMMA Publish1Conforms == ASSUME IInv, Conforms, HandlePublish1 PROVE Conforms'
<1> DEFINE p == Head(toServer).pid
           n == Head(toServer).msg
           a == Answer("PUBACK", p)
<1>1. /\ Reading("PUBLISH") /\ Head(toServer).qos = 1 /\ Deliver(n) /\ Reply(<<a>>)
      /\ UNCHANGED <<uncompleted, sender, published, qosOf, reconnects>>
  BY DEF HandlePublish1, Reading
<1>2. /\ n \in Messages /\ n \in 1..published /\ qosOf[n] # 2 /\ p \in PacketIds
      /\ sender[p] = [state |-> "published", msg |-> n] /\ uncompleted[p] = None
  BY <1>1, HeadInStep DEF SentInStep
<1>3. a \in ServerPacket /\ a.pid = p /\ a.type = "PUBACK"
  BY <1>2 DEF Answer, ServerPacket
<1>4. /\ OneAtATime' /\ Lost'
      /\ \A i \in DOMAIN toServer' : \E j \in DOMAIN toServer : toServer'[i] = toServer[j]
      /\ \A i \in DOMAIN toClient' :
           toClient'[i] = a \/ \E j \in DOMAIN toClient : toClient'[i] = toClient[j]
  BY <1>1, <1>3, Answered DEF Conforms, Exchanged
<1>5. /\ OneSender' /\ FreeIsEmpty' /\ NotYet' /\ Once' /\ Finished'
      /\ \A k \in Messages : k > published => delivered'[k] = 0
      /\ \A k \in Messages : delivered[k] \in Nat /\ delivered'[k] >= delivered[k]
  BY <1>1, <1>2, DeliverAtOnce
<1>6. Numbered'
  BY <1>1, <1>4, <1>5 DEF Conforms, Numbered
<1>7. ToServerInStep'
  BY <1>1, <1>4 DEF Conforms, ToServerInStep, SentInStep
<1>8. delivered' \in [Messages -> Nat] /\ delivered'[n] >= 1
  BY <1>1, <1>2, DeliverTyped, DeliverAdds DEF IInv
<1>9. ASSUME NEW i \in DOMAIN toClient' PROVE AnsweredInStep(toClient[i])'
  <2>1. CASE toClient'[i] = a
    BY <1>1, <1>2, <1>3, <1>8, <2>1 DEF AnsweredInStep
  <2>2. CASE \E j \in DOMAIN toClient : toClient'[i] = toClient[j]
    <3>1. PICK j \in DOMAIN toClient : toClient'[i] = toClient[j]
      BY <2>2
    <3> QED
      BY <1>1, <1>5, <1>8, <3>1, AnswerKept DEF AnsweredInStep
  <2> QED
    BY <1>4, <2>1, <2>2
<1>10. ToClientInStep'
  BY <1>9 DEF ToClientInStep
<1> QED
  BY <1>4, <1>5, <1>6, <1>7, <1>10 DEF Conforms

\* QoS 2: no entry was there, the message is held and PUBREC says so.
LEMMA Publish2Conforms == ASSUME IInv, Conforms, HandlePublish2 PROVE Conforms'
<1> DEFINE p == Head(toServer).pid
           n == Head(toServer).msg
           a == Answer("PUBREC", p)
<1>1. /\ Reading("PUBLISH") /\ Head(toServer).qos = 2
      /\ UNCHANGED <<sender, published, qosOf, reconnects>>
  BY DEF HandlePublish2, Reading
<1>2. /\ n \in Messages /\ n \in 1..published /\ qosOf[n] = 2 /\ p \in PacketIds
      /\ sender[p] = [state |-> "published", msg |-> n] /\ uncompleted[p] = None
  BY <1>1, HeadInStep DEF SentInStep
<1>3. CASE Reject
  BY <1>1, <1>3, RejectConforms
<1>4. CASE /\ uncompleted' = [uncompleted EXCEPT ![p] = n] /\ Reply(<<a>>) /\ UNCHANGED delivered
  <2>1. a \in ServerPacket /\ a.pid = p /\ a.type = "PUBREC"
    BY <1>2 DEF Answer, ServerPacket
  <2>2. /\ OneAtATime' /\ Lost'
        /\ \A i \in DOMAIN toServer' : \E j \in DOMAIN toServer :
             toServer'[i] = toServer[j] /\ (Exchanged(toServer[j]) => toServer[j].pid # p)
        /\ \A i \in DOMAIN toClient' :
             \/ toClient'[i] = a
             \/ \E j \in DOMAIN toClient : toClient'[i] = toClient[j] /\ toClient[j].pid # p
    BY <1>1, <1>4, <2>1, Answered DEF Conforms, Exchanged
  <2>3. /\ uncompleted'[p] = n
        /\ \A r \in PacketIds : r # p => uncompleted'[r] = uncompleted[r]
    BY <1>2, <1>4 DEF IInv, TypeOK
  <2>4. /\ \A k \in Messages : delivered[k] \in Nat /\ delivered'[k] >= delivered[k]
        /\ \A k \in Messages : delivered'[k] \in Nat
        /\ delivered' \in [Messages -> Nat]
    BY <1>4 DEF IInv, TypeOK
  <2>5. Numbered'
    <3>1. published \in Nat
      BY DEF IInv, TypeOK
    <3> QED
      BY <1>1, <1>2, <1>4, <2>2, <2>3, <3>1 DEF Conforms, Numbered
  <2>6. OneSender' /\ FreeIsEmpty' /\ Once'
    BY <1>1, <1>4 DEF Conforms, OneSender, FreeIsEmpty, Once
  <2>7. Finished'
    BY <1>1, <2>4, FinishedKept
  <2>8. ASSUME NEW i \in DOMAIN toServer' PROVE SentInStep(toServer[i])'
    <3>1. PICK j \in DOMAIN toServer :
            toServer'[i] = toServer[j] /\ (Exchanged(toServer[j]) => toServer[j].pid # p)
      BY <2>2
    <3>2. SentInStep(toServer[j]) /\ toServer[j] \in ClientPacket
      BY DEF Conforms, ToServerInStep, IInv, TypeOK
    <3>3. toServer[j].pid \in PacketIds
      BY <3>2 DEF ClientPacket
    <3>4. Exchanged(toServer[j]) => uncompleted'[toServer[j].pid] = uncompleted[toServer[j].pid]
      BY <2>3, <3>1, <3>3
    <3> QED
      BY <1>1, <3>1, <3>2, <3>4 DEF SentInStep, Exchanged
  <2>9. ASSUME NEW i \in DOMAIN toClient' PROVE AnsweredInStep(toClient[i])'
    <3>1. CASE toClient'[i] = a
      BY <1>1, <1>2, <2>1, <2>3, <3>1 DEF AnsweredInStep
    <3>2. CASE \E j \in DOMAIN toClient : toClient'[i] = toClient[j] /\ toClient[j].pid # p
      <4>1. PICK j \in DOMAIN toClient : toClient'[i] = toClient[j] /\ toClient[j].pid # p
        BY <3>2
      <4>2. toClient[j].pid \in PacketIds
        BY AnswerHasPid
      <4>3. uncompleted'[toClient[j].pid] = uncompleted[toClient[j].pid]
        BY <2>3, <4>1, <4>2
      <4> QED
        BY <1>1, <2>4, <4>1, <4>3, AnswerKept DEF AnsweredInStep
    <3> QED
      BY <2>2, <3>1, <3>2
  <2>10. NotYet'
    <3>1. delivered[n] = 0
      BY <1>2 DEF Conforms, NotYet
    <3> QED
      BY <1>1, <1>2, <1>4, <2>3, <3>1 DEF Conforms, NotYet
  <2> QED
    BY <2>2, <2>5, <2>6, <2>7, <2>8, <2>9, <2>10 DEF Conforms, ToServerInStep, ToClientInStep
<1>5. Reject \/ (uncompleted' = [uncompleted EXCEPT ![p] = n] /\ Reply(<<a>>) /\ UNCHANGED delivered)
  BY <1>2 DEF HandlePublish2, HoldBack
<1> QED
  BY <1>3, <1>4, <1>5

\* PUBREL: what is in the map is delivered, and nobody has it any more.
LEMMA PubRelConforms == ASSUME IInv, Conforms, HandlePubRel PROVE Conforms'
<1> DEFINE p == Head(toServer).pid
           n == uncompleted[p]
           a == Answer("PUBCOMP", p)
<1>1. Reading("PUBREL") /\ UNCHANGED <<sender, published, qosOf, reconnects>>
  BY DEF HandlePubRel, Reading
<1>2. /\ p \in PacketIds /\ sender[p].state = "released"
      /\ reconnects = 0 => n = sender[p].msg
      /\ sender[p].msg \in Messages
  <2>1. /\ p \in PacketIds /\ sender[p].state = "released"
        /\ reconnects = 0 => n = sender[p].msg
    BY <1>1, HeadInStep DEF SentInStep
  <2> QED
    BY <2>1 DEF IInv, SenderHasMessage
<1>3. a \in ServerPacket /\ a.pid = p /\ a.type = "PUBCOMP"
  BY <1>2 DEF Answer, ServerPacket
<1>4. CASE Reject
  BY <1>1, <1>4, RejectConforms
<1>5. CASE Reply(<<a>>) /\ uncompleted' = Released(p)
           /\ ((n # None /\ Deliver(n)) \/ (n = None /\ UNCHANGED delivered))
  <2>1. /\ OneAtATime' /\ Lost'
        /\ \A i \in DOMAIN toServer' : \E j \in DOMAIN toServer :
             toServer'[i] = toServer[j] /\ (Exchanged(toServer[j]) => toServer[j].pid # p)
        /\ \A i \in DOMAIN toClient' :
             \/ toClient'[i] = a
             \/ \E j \in DOMAIN toClient : toClient'[i] = toClient[j] /\ toClient[j].pid # p
    <3>1. Exchanged(Head(toServer))
      BY <1>1 DEF Reading, Exchanged
    <3> QED
      BY <1>1, <1>3, <1>5, <3>1, Answered DEF Conforms
  <2>2. /\ uncompleted'[p] = None
        /\ \A r \in PacketIds : r # p => uncompleted'[r] = uncompleted[r]
    BY <1>2, <1>5 DEF IInv, TypeOK, Released
  <2>3. n # None => /\ n \in Messages /\ n <= published /\ n = sender[p].msg /\ delivered[n] = 0
    BY <1>2 DEF Conforms, Numbered, NotYet, IInv, TypeOK
  <2>4. /\ \A k \in Messages : k # n => delivered'[k] = delivered[k]
        /\ \A k \in Messages : delivered[k] \in Nat /\ delivered'[k] >= delivered[k]
        /\ delivered' \in [Messages -> Nat]
        /\ n # None => delivered'[n] = 1
    <3>1. CASE n # None /\ Deliver(n)
      BY <2>3, <3>1, DeliverAdds, DeliverTyped DEF IInv
    <3>2. CASE n = None /\ UNCHANGED delivered
      BY <3>2 DEF IInv, TypeOK
    <3> QED
      BY <1>5, <3>1, <3>2
  <2>5. Numbered'
    <3>1. \A k \in Messages : k > published => k # n
      <4>1. published \in Nat /\ \A k \in Messages : k \in Nat
        BY InboundAssumption DEF IInv, TypeOK, Messages, InboundAssumption
      <4>2. ASSUME NEW k \in Messages, k > published, k = n PROVE FALSE
        <5>1. n # None
          BY <4>1, <4>2, InboundAssumption DEF InboundAssumption
        <5> QED
          BY <2>3, <4>1, <4>2, <5>1
      <4> QED
        BY <4>2
    <3> QED
      BY <1>1, <2>1, <2>2, <2>4, <3>1 DEF Conforms, Numbered
  <2>6. OneSender' /\ FreeIsEmpty'
    BY <1>1 DEF Conforms, OneSender, FreeIsEmpty
  <2>7. Finished'
    BY <1>1, <2>4, FinishedKept DEF IInv, TypeOK
  <2>8. ASSUME NEW i \in DOMAIN toServer' PROVE SentInStep(toServer[i])'
    <3>1. PICK j \in DOMAIN toServer :
            toServer'[i] = toServer[j] /\ (Exchanged(toServer[j]) => toServer[j].pid # p)
      BY <2>1
    <3>2. SentInStep(toServer[j]) /\ toServer[j] \in ClientPacket
      BY DEF Conforms, ToServerInStep, IInv, TypeOK
    <3>3. toServer[j].pid \in PacketIds
      BY <3>2 DEF ClientPacket
    <3>4. Exchanged(toServer[j]) => uncompleted'[toServer[j].pid] = uncompleted[toServer[j].pid]
      BY <2>2, <3>1, <3>3
    <3> QED
      BY <1>1, <3>1, <3>2, <3>4 DEF SentInStep, Exchanged
  <2>9. ASSUME NEW i \in DOMAIN toClient' PROVE AnsweredInStep(toClient[i])'
    <3>1. CASE toClient'[i] = a
      <4>1. reconnects = 0 => delivered'[sender[p].msg] >= 1
        <5>1. sender[p].msg # None
          BY <1>2, InboundAssumption DEF Messages, InboundAssumption
        <5> QED
          BY <1>2, <2>4, <5>1
      <4> QED
        BY <1>1, <1>2, <1>3, <2>2, <3>1, <4>1 DEF AnsweredInStep
    <3>2. CASE \E j \in DOMAIN toClient : toClient'[i] = toClient[j] /\ toClient[j].pid # p
      <4>1. PICK j \in DOMAIN toClient : toClient'[i] = toClient[j] /\ toClient[j].pid # p
        BY <3>2
      <4>2. toClient[j].pid \in PacketIds
        BY AnswerHasPid
      <4>3. uncompleted'[toClient[j].pid] = uncompleted[toClient[j].pid]
        BY <2>2, <4>1, <4>2
      <4> QED
        BY <1>1, <2>4, <4>1, <4>3, AnswerKept DEF AnsweredInStep
    <3> QED
      BY <2>1, <3>1, <3>2
  <2>10. NotYet'
    <3>1. ASSUME NEW r \in PacketIds, uncompleted'[r] # None
          PROVE  /\ sender[r].state # "free" /\ sender[r].msg = uncompleted'[r]
                 /\ delivered'[uncompleted'[r]] = 0
      <4>1. /\ r # p /\ uncompleted'[r] = uncompleted[r] /\ uncompleted[r] \in Messages
            /\ sender[r].state # "free" /\ sender[r].msg = uncompleted[r]
            /\ delivered[uncompleted[r]] = 0
        BY <2>2, <3>1 DEF Conforms, NotYet, IInv, TypeOK
      <4>2. uncompleted[r] # n
        BY <1>2, <2>3, <3>1, <4>1 DEF Conforms, OneSender
      <4> QED
        BY <2>4, <4>1, <4>2
    <3>2. ASSUME NEW r \in PacketIds, sender[r].state = "published", qosOf[sender[r].msg] = 2
          PROVE  delivered'[sender[r].msg] = 0
      <4>1. r # p /\ sender[r].msg \in Messages /\ delivered[sender[r].msg] = 0
        BY <1>2, <3>2 DEF Conforms, NotYet, IInv, SenderHasMessage
      <4>2. sender[r].msg # n
        <5>1. CASE n = None
          BY <4>1, <5>1, InboundAssumption DEF Messages, InboundAssumption
        <5>2. CASE n # None
          BY <1>2, <2>3, <3>2, <4>1, <5>2 DEF Conforms, OneSender
        <5> QED
          BY <5>1, <5>2
      <4> QED
        BY <2>4, <4>1, <4>2
    <3> QED
      BY <1>1, <3>1, <3>2 DEF NotYet
  <2>11. Once'
    <3>1. ASSUME NEW k \in 1..published, qosOf[k] = 2 PROVE delivered'[k] <= 1
      <4>1. k \in Messages /\ delivered[k] <= 1
        BY <3>1, InboundAssumption DEF Conforms, Once, IInv, TypeOK, Messages, InboundAssumption
      <4>2. CASE k # n
        BY <2>4, <4>1, <4>2
      <4>3. CASE k = n
        BY <2>4, <4>1, <4>3, InboundAssumption DEF Messages, InboundAssumption
      <4> QED
        BY <4>2, <4>3
    <3> QED
      BY <1>1, <3>1 DEF Once
  <2> QED
    BY <2>1, <2>5, <2>6, <2>7, <2>8, <2>9, <2>10, <2>11 DEF Conforms, ToServerInStep, ToClientInStep
<1>6. CASE n # None
  <2>1. uncompleted' = Released(p) /\ Deliver(n) /\ Reply(<<a>>)
    BY <1>6 DEF HandlePubRel
  <2> QED
    BY <1>5, <1>6, <2>1
<1>7. CASE n = None
  <2>1. uncompleted = Released(p)
    BY <1>7 DEF Released, IInv, TypeOK
  <2> QED
    BY <1>4, <1>5, <1>7, <2>1 DEF HandlePubRel
<1> QED
  BY <1>6, <1>7

\* A conforming client does not send PUBREL with an error.
LEMMA PubRelErrorConforms == ASSUME IInv, Conforms, HandlePubRelError PROVE Conforms'
<1>1. Reading("PUBREL_ERROR")
  BY DEF HandlePubRelError
<1> QED
  BY <1>1, HeadInStep DEF SentInStep

-----------------------------------------------------------------------------
(* Losing the connection and coming back.                                  *)

\* With the connection everything on its way is gone, and nothing the client
\* knows.
LEMMA DropConforms == ASSUME IInv, Conforms, Drop PROVE Conforms'
<1>1. /\ toServer' = <<>> /\ toClient' = <<>>
      /\ UNCHANGED <<uncompleted, delivered, sender, published, qosOf, reconnects>>
  BY DEF Drop, modelVars
<1>2. Numbered' /\ OneSender' /\ FreeIsEmpty'
  BY <1>1 DEF Conforms, Numbered, OneSender, FreeIsEmpty
<1>3. OneAtATime' /\ ToServerInStep' /\ ToClientInStep' /\ Lost'
  BY <1>1 DEF OneAtATime, ToServerInStep, ToClientInStep, Lost
<1>4. NotYet' /\ Once'
  BY <1>1 DEF Conforms, NotYet, Once
<1>5. Finished'
  BY <1>1 DEF Conforms, Finished, FinishedMeansDelivered
<1> QED
  BY <1>2, <1>3, <1>4, <1>5 DEF Conforms

\* The client sends one packet for each identifier it has not finished with,
\* to a connection that knows none of them.
LEMMA ReconnectConforms == ASSUME IInv, Conforms, Reconnect PROVE Conforms'
<1> DEFINE busy == {p \in PacketIds : sender[p].state # "free"}
<1>1. PICK seq \in [1..Cardinality(busy) -> busy] :
        /\ {seq[i] : i \in DOMAIN seq} = busy
        /\ toServer' = Unfinished(seq)
  BY DEF Reconnect
<1>2. /\ link = "down" /\ uncompleted' = NoMessages /\ reconnects' = reconnects + 1
      /\ link' = "up" /\ toClient' = <<>>
      /\ UNCHANGED <<sender, published, qosOf, delivered>>
  BY DEF Reconnect, Conforms, Lost
<1>3. reconnects' # 0
  BY <1>2 DEF IInv, TypeOK
<1>4. \A i, j \in DOMAIN seq : seq[i] = seq[j] => i = j
  <2>1. IsFiniteSet(busy) /\ Cardinality(busy) \in Nat
    BY InboundAssumption, FS_Subset, FS_CardinalityType DEF InboundAssumption
  <2>2. IsFiniteSet(1..Cardinality(busy)) /\ Cardinality(1..Cardinality(busy)) = Cardinality(busy)
    BY <2>1, FS_Interval
  <2>3. seq \in Surjection(1..Cardinality(busy), busy)
    BY <1>1 DEF Surjection
  <2>4. seq \in Injection(1..Cardinality(busy), busy)
    BY <2>2, <2>3, FS_SurjSameCardinalityImpliesInj
  <2> QED
    BY <2>4 DEF Injection, IsInjective
<1>5. /\ DOMAIN toServer' = DOMAIN seq
      /\ \A i \in DOMAIN seq :
           /\ seq[i] \in PacketIds /\ sender[seq[i]].state # "free"
           /\ sender[seq[i]].msg \in Messages
           /\ toServer'[i] = IF sender[seq[i]].state = "published"
                             THEN PublishPacket(qosOf[sender[seq[i]].msg], seq[i], sender[seq[i]].msg)
                             ELSE PubRel(seq[i])
  BY <1>1 DEF Unfinished, IInv, SenderHasMessage
<1>6. \A i \in DOMAIN toServer' : toServer'[i].pid = seq[i]
  BY <1>5 DEF PublishPacket, PubRel
<1>7. OneAtATime'
  BY <1>2, <1>4, <1>5, <1>6 DEF OneAtATime
<1>8. \A p \in PacketIds : uncompleted'[p] = None
  BY <1>2 DEF NoMessages
<1>9. Numbered'
  <2>1. ASSUME NEW i \in DOMAIN toServer', toServer'[i].type = "PUBLISH"
        PROVE  toServer'[i].msg <= published /\ qosOf[toServer'[i].msg] = toServer'[i].qos
    <3>1. toServer'[i] = PublishPacket(qosOf[sender[seq[i]].msg], seq[i], sender[seq[i]].msg)
      BY <1>5, <2>1 DEF PubRel
    <3>2. sender[seq[i]].msg <= published
      BY <1>5 DEF Conforms, Numbered
    <3> QED
      BY <3>1, <3>2 DEF PublishPacket
  <2> QED
    BY <1>2, <1>8, <2>1 DEF Conforms, Numbered
<1>10. ASSUME NEW i \in DOMAIN toServer' PROVE SentInStep(toServer[i])'
  <2>1. CASE sender[seq[i]].state = "published"
    <3>1. toServer'[i] = PublishPacket(qosOf[sender[seq[i]].msg], seq[i], sender[seq[i]].msg)
      BY <1>5, <2>1
    <3>2. sender[seq[i]] = [state |-> "published", msg |-> sender[seq[i]].msg]
      BY <1>5, <2>1 DEF IInv, TypeOK
    <3> QED
      BY <1>2, <1>5, <1>8, <3>1, <3>2 DEF SentInStep, PublishPacket
  <2>2. CASE sender[seq[i]].state # "published"
    <3>1. toServer'[i] = PubRel(seq[i])
      BY <1>5, <2>2
    <3>2. sender[seq[i]].state = "released"
      BY <1>5, <2>2 DEF IInv, TypeOK, SenderStates
    <3> QED
      BY <1>2, <1>3, <3>1, <3>2 DEF SentInStep, PubRel
  <2> QED
    BY <2>1, <2>2
<1>11. OneSender' /\ FreeIsEmpty' /\ Once' /\ Lost'
  BY <1>2 DEF Conforms, OneSender, FreeIsEmpty, Once, Lost
<1>12. NotYet'
  BY <1>2, <1>8 DEF Conforms, NotYet
<1>13. ToClientInStep' /\ Finished'
  BY <1>2, <1>3 DEF ToClientInStep, Finished
<1> QED
  BY <1>7, <1>9, <1>10, <1>11, <1>12, <1>13 DEF Conforms, ToServerInStep

-----------------------------------------------------------------------------
(* The client.                                                             *)

\* A new message, with an identifier that is free: nothing is on its way with
\* it, and nothing of an earlier message with it is left in the map.
LEMMA ClientPublishesConforms ==
  ASSUME IInv, Conforms, NEW q \in QosLevels, NEW p \in PacketIds, ClientPublishes(q, p)
  PROVE  Conforms'
<1> DEFINE n == published + 1
           m == PublishPacket(q, p, n)
<1>1. /\ published' = n /\ sender[p].state = "free" /\ link = "up"
      /\ qosOf' = [qosOf EXCEPT ![n] = q] /\ toServer' = Append(toServer, m)
      /\ sender' = IF q = 0 THEN sender ELSE [sender EXCEPT ![p] = [state |-> "published", msg |-> n]]
      /\ UNCHANGED <<link, uncompleted, toClient, delivered, reconnects>>
  BY DEF ClientPublishes, CanSend, connVars
<1>2. q \in 0..2 /\ published \in Nat /\ n \in Messages /\ n \in Nat /\ \A k \in Messages : k \in Nat
  BY InboundAssumption DEF ClientPublishes, IInv, TypeOK, Messages, InboundAssumption
<1>3. m \in ClientPacket /\ m.type = "PUBLISH" /\ m.qos = q /\ m.pid = p /\ m.msg = n
  BY <1>2 DEF PublishPacket, ClientPacket
<1>4. \A i \in DOMAIN toServer' :
        \/ i \in DOMAIN toServer /\ toServer'[i] = toServer[i]
        \/ i = Len(toServer) + 1 /\ i \notin DOMAIN toServer /\ toServer'[i] = m
  BY <1>1, <1>3, AppendOf DEF IInv, TypeOK
<1>5. /\ qosOf'[n] = q
      /\ \A k \in Messages : k # n => qosOf'[k] = qosOf[k]
      /\ \A k \in Messages : k <= published => k # n
  BY <1>1, <1>2 DEF IInv, TypeOK
<1>6. /\ \A r \in PacketIds : r # p => sender'[r] = sender[r]
      /\ q = 0 => sender' = sender
      /\ q # 0 => sender'[p] = [state |-> "published", msg |-> n]
  BY <1>1, <1>2 DEF IInv, TypeOK
<1>7. ASSUME NEW i \in DOMAIN toServer, Exchanged(toServer[i])
      PROVE  toServer[i].pid \in PacketIds /\ toServer[i].pid # p
  <2>1. toServer[i] \in ClientPacket /\ SentInStep(toServer[i])
    BY DEF IInv, TypeOK, Conforms, ToServerInStep
  <2>2. toServer[i].pid \in PacketIds /\ toServer[i].type \in {"PUBLISH", "PUBREL", "PUBREL_ERROR"}
    BY <2>1 DEF ClientPacket
  <2> QED
    BY <1>1, <1>7, <2>1, <2>2 DEF SentInStep, Exchanged
<1>8. ASSUME NEW i \in DOMAIN toClient
      PROVE  /\ toClient[i].pid \in PacketIds /\ toClient[i].pid # p
             /\ sender[toClient[i].pid].state # "free"
  <2>1. toClient[i].pid \in PacketIds /\ AnsweredInStep(toClient[i])
    BY AnswerHasPid DEF Conforms, ToClientInStep
  <2> QED
    BY <1>1, <2>1 DEF AnsweredInStep
<1>9. uncompleted[p] = None
  BY <1>1 DEF Conforms, NotYet
<1>10. /\ \A r \in PacketIds : uncompleted[r] # None => uncompleted[r] \in Messages /\ uncompleted[r] <= published
       /\ \A r \in PacketIds : sender[r].state # "free" => sender[r].msg \in Messages /\ sender[r].msg <= published
  BY DEF Conforms, Numbered, IInv, TypeOK, SenderHasMessage
<1>11. Numbered'
  <2>1. ASSUME NEW i \in DOMAIN toServer', toServer'[i].type = "PUBLISH"
        PROVE  toServer'[i].msg <= n /\ qosOf'[toServer'[i].msg] = toServer'[i].qos
    <3>1. CASE toServer'[i] = m
      BY <1>2, <1>3, <1>5, <3>1
    <3>2. CASE i \in DOMAIN toServer /\ toServer'[i] = toServer[i]
      <4>1. toServer[i].msg <= published /\ qosOf[toServer[i].msg] = toServer[i].qos
        BY <2>1, <3>2 DEF Conforms, Numbered
      <4>2. toServer[i] \in ClientPacket
        BY <3>2 DEF IInv, TypeOK
      <4>3. toServer[i].msg \in Messages
        BY <2>1, <3>2, <4>2 DEF ClientPacket
      <4> QED
        BY <1>2, <1>5, <3>2, <4>1, <4>3
    <3> QED
      BY <1>4, <3>1, <3>2
  <2>2. \A r \in PacketIds : uncompleted[r] # None => uncompleted[r] <= n /\ qosOf'[uncompleted[r]] = 2
    BY <1>2, <1>5, <1>10 DEF Conforms, Numbered
  <2>3. \A r \in PacketIds : sender'[r].state # "free" => sender'[r].msg <= n
    BY <1>1, <1>2, <1>6, <1>10
  <2>4. \A k \in Messages : k > n => delivered[k] = 0
    BY <1>2 DEF Conforms, Numbered
  <2> QED
    BY <1>1, <2>1, <2>2, <2>3, <2>4 DEF Numbered
<1>12. OneSender'
  BY <1>1, <1>2, <1>5, <1>6, <1>10 DEF Conforms, OneSender
<1>13. OneAtATime'
  BY <1>1, <1>3, <1>4, <1>7, <1>8 DEF Conforms, OneAtATime, Exchanged
<1>14. ASSUME NEW i \in DOMAIN toServer' PROVE SentInStep(toServer[i])'
  <2>1. CASE toServer'[i] = m
    BY <1>1, <1>2, <1>3, <1>6, <1>9, <2>1 DEF SentInStep
  <2>2. CASE i \in DOMAIN toServer /\ toServer'[i] = toServer[i]
    <3>1. SentInStep(toServer[i])
      BY <2>2 DEF Conforms, ToServerInStep
    <3>2. Exchanged(toServer[i]) => sender'[toServer[i].pid] = sender[toServer[i].pid]
      BY <1>6, <1>7, <2>2
    <3> QED
      BY <1>1, <2>2, <3>1, <3>2 DEF SentInStep, Exchanged
  <2> QED
    BY <1>4, <2>1, <2>2
<1>15. ASSUME NEW i \in DOMAIN toClient' PROVE AnsweredInStep(toClient[i])'
  <2>1. AnsweredInStep(toClient[i])
    BY <1>1 DEF Conforms, ToClientInStep
  <2>2. sender'[toClient[i].pid] = sender[toClient[i].pid]
    BY <1>1, <1>6, <1>8
  <2> QED
    BY <1>1, <2>1, <2>2 DEF AnsweredInStep
<1>16. delivered[n] = 0
  BY <1>2 DEF Conforms, Numbered
<1>17. NotYet'
  <2>1. ASSUME NEW r \in PacketIds, uncompleted[r] # None
        PROVE  /\ sender'[r].state # "free" /\ sender'[r].msg = uncompleted[r]
               /\ delivered[uncompleted[r]] = 0
    BY <1>6, <1>9, <2>1 DEF Conforms, NotYet
  <2>2. ASSUME NEW r \in PacketIds, sender'[r].state = "published", qosOf'[sender'[r].msg] = 2
        PROVE  delivered[sender'[r].msg] = 0
    <3>1. CASE r = p /\ q # 0
      BY <1>6, <1>16, <3>1
    <3>2. CASE sender'[r] = sender[r]
      <4>1. sender[r].msg \in Messages /\ sender[r].msg # n
        BY <1>2, <1>5, <1>10, <2>2, <3>2
      <4> QED
        BY <1>5, <2>2, <3>2, <4>1 DEF Conforms, NotYet
    <3> QED
      BY <1>6, <3>1, <3>2
  <2> QED
    BY <1>1, <2>1, <2>2 DEF NotYet
<1>18. \A k \in 1..n : k # n => k \in 1..published /\ k \in Messages
  BY <1>2, InboundAssumption DEF Messages, IInv, TypeOK, InboundAssumption
<1>19. Once'
  BY <1>1, <1>5, <1>16, <1>18 DEF Conforms, Once
<1>20. Finished'
  <2>1. ASSUME reconnects = 0, NEW k \in 1..n, qosOf'[k] > 0, \A r \in PacketIds : sender'[r].msg # k
        PROVE  delivered[k] >= 1
    <3>1. k # n
      BY <1>5, <1>6, <2>1
    <3>2. \A r \in PacketIds : sender[r].msg # k
      <4>1. sender[p].msg # k
        <5>1. CASE q = 0
          BY <1>6, <2>1, <5>1
        <5>2. CASE q # 0
          <6>1. sender[p].msg = None
            BY <1>1 DEF Conforms, FreeIsEmpty
          <6> QED
            BY <1>18, <2>1, <3>1, <6>1, InboundAssumption DEF Messages, InboundAssumption
        <5> QED
          BY <5>1, <5>2
      <4> QED
        BY <1>6, <2>1, <4>1
    <3> QED
      BY <1>5, <1>18, <2>1, <3>1, <3>2 DEF Conforms, Finished, FinishedMeansDelivered
  <2> QED
    BY <1>1, <2>1 DEF Finished, FinishedMeansDelivered
<1>21. Lost' /\ FreeIsEmpty'
  BY <1>1, <1>6 DEF Conforms, Lost, FreeIsEmpty
<1> QED
  BY <1>11, <1>12, <1>13, <1>14, <1>15, <1>17, <1>19, <1>20, <1>21
     DEF Conforms, ToServerInStep, ToClientInStep

\* The client reads an answer, the only packet with its identifier: PUBREC
\* makes way for a PUBREL, anything else ends the exchange.
LEMMA ClientReadsConforms == ASSUME IInv, Conforms, ClientReads PROVE Conforms'
<1> DEFINE a == Head(toClient)
           p == a.pid
           go == a.type = "PUBREC" /\ sender[p].state # "free"
<1>1. /\ link = "up" /\ toClient # <<>> /\ toClient' = Tail(toClient)
      /\ sender' = [sender EXCEPT ![p] = IF go THEN [@ EXCEPT !.state = "released"] ELSE Free]
      /\ toServer' = IF go THEN Append(toServer, PubRel(p)) ELSE toServer
      /\ UNCHANGED <<link, uncompleted, published, qosOf, delivered, reconnects>>
  BY DEF ClientReads, connVars, modelVars
<1>2. /\ 1 \in DOMAIN toClient /\ toClient[1] = a
      /\ \A i \in DOMAIN toClient' :
           i + 1 \in DOMAIN toClient /\ toClient'[i] = toClient[i + 1] /\ i \in Nat /\ i + 1 # 1
  BY <1>1, TailOf DEF IInv, TypeOK
<1>3. p \in PacketIds /\ AnsweredInStep(a)
  BY <1>2, AnswerHasPid DEF Conforms, ToClientInStep
<1>4. /\ sender[p].state # "free" /\ sender[p].msg \in Messages /\ sender[p].msg <= published
      /\ sender[p] \in [state : SenderStates, msg : Messages \union {None}]
  BY <1>3 DEF AnsweredInStep, IInv, TypeOK, SenderHasMessage, Conforms, Numbered
<1>5. go <=> a.type = "PUBREC"
  BY <1>4
<1>6. /\ \A r \in PacketIds : r # p => sender'[r] = sender[r]
      /\ go => sender'[p].state = "released" /\ sender'[p].msg = sender[p].msg
      /\ ~go => sender'[p].state = "free" /\ sender'[p].msg = None
  <2>1. \A r \in PacketIds : r # p => sender'[r] = sender[r]
    BY <1>1, <1>3 DEF IInv, TypeOK
  <2>2. CASE go
    <3>1. sender'[p] = [sender[p] EXCEPT !.state = "released"]
      BY <1>1, <1>3, <2>2 DEF IInv, TypeOK
    <3> QED
      BY <1>4, <2>1, <2>2, <3>1
  <2>3. CASE ~go
    <3>1. sender'[p] = Free
      BY <1>1, <1>3, <2>3 DEF IInv, TypeOK
    <3> QED
      BY <2>1, <2>3, <3>1 DEF Free
  <2> QED
    BY <2>2, <2>3
<1>7. PubRel(p) \in ClientPacket /\ PubRel(p).type = "PUBREL" /\ PubRel(p).pid = p
  BY <1>3 DEF PubRel, ClientPacket
<1>8. \A i \in DOMAIN toServer' :
        \/ i \in DOMAIN toServer /\ toServer'[i] = toServer[i]
        \/ go /\ i = Len(toServer) + 1 /\ i \notin DOMAIN toServer /\ toServer'[i] = PubRel(p)
  <2>1. CASE go
    BY <1>1, <1>7, <2>1, AppendOf DEF IInv, TypeOK
  <2>2. CASE ~go
    BY <1>1, <2>2
  <2> QED
    BY <2>1, <2>2
<1>9. ASSUME NEW i \in DOMAIN toServer, Exchanged(toServer[i])
      PROVE  toServer[i].pid \in PacketIds /\ toServer[i].pid # p
  <2>1. toServer[i] \in ClientPacket
    BY DEF IInv, TypeOK
  <2>2. toServer[i].pid \in PacketIds
    BY <2>1 DEF ClientPacket
  <2> QED
    BY <1>2, <1>9, <2>2 DEF Conforms, OneAtATime
<1>10. ASSUME NEW i \in DOMAIN toClient'
       PROVE  /\ toClient[i + 1].pid \in PacketIds /\ toClient[i + 1].pid # p
              /\ AnsweredInStep(toClient[i + 1])
  <2>1. i + 1 \in DOMAIN toClient /\ i + 1 # 1
    BY <1>2
  <2> QED
    BY <1>2, <2>1, AnswerHasPid DEF Conforms, OneAtATime, ToClientInStep
<1>11. Numbered'
  <2>1. \A r \in PacketIds : sender'[r].state # "free" => sender'[r].msg <= published
    BY <1>4, <1>6 DEF Conforms, Numbered
  <2>2. \A i \in DOMAIN toServer' : toServer'[i].type = "PUBLISH" => toServer'[i] = toServer[i] /\ i \in DOMAIN toServer
    BY <1>7, <1>8
  <2> QED
    BY <1>1, <2>1, <2>2 DEF Conforms, Numbered
<1>12. OneSender'
  BY <1>3, <1>4, <1>6 DEF Conforms, OneSender
<1>13. OneAtATime'
  <2>1. ASSUME NEW i \in DOMAIN toServer', NEW j \in DOMAIN toServer', i # j,
               Exchanged(toServer'[i]), Exchanged(toServer'[j])
        PROVE  toServer'[i].pid # toServer'[j].pid
    BY <1>7, <1>8, <1>9, <2>1 DEF Conforms, OneAtATime
  <2>2. ASSUME NEW i \in DOMAIN toClient', NEW j \in DOMAIN toClient', i # j
        PROVE  toClient'[i].pid # toClient'[j].pid
    <3>1. i + 1 # j + 1
      BY <1>2, <2>2
    <3> QED
      BY <1>2, <3>1 DEF Conforms, OneAtATime
  <2>3. ASSUME NEW i \in DOMAIN toServer', NEW j \in DOMAIN toClient', Exchanged(toServer'[i])
        PROVE  toServer'[i].pid # toClient'[j].pid
    <3>1. toClient'[j] = toClient[j + 1] /\ j + 1 \in DOMAIN toClient /\ toClient[j + 1].pid # p
      BY <1>2, <1>10
    <3> QED
      BY <1>7, <1>8, <2>3, <3>1 DEF Conforms, OneAtATime
  <2> QED
    BY <2>1, <2>2, <2>3 DEF OneAtATime, Exchanged
<1>14. ASSUME NEW i \in DOMAIN toServer' PROVE SentInStep(toServer[i])'
  <2>1. CASE go /\ toServer'[i] = PubRel(p)
    BY <1>1, <1>3, <1>6, <1>7, <2>1 DEF SentInStep, AnsweredInStep
  <2>2. CASE i \in DOMAIN toServer /\ toServer'[i] = toServer[i]
    <3>1. SentInStep(toServer[i])
      BY <2>2 DEF Conforms, ToServerInStep
    <3>2. Exchanged(toServer[i]) => sender'[toServer[i].pid] = sender[toServer[i].pid]
      BY <1>6, <1>9, <2>2
    <3> QED
      BY <1>1, <2>2, <3>1, <3>2 DEF SentInStep, Exchanged
  <2> QED
    BY <1>8, <2>1, <2>2
<1>15. ASSUME NEW i \in DOMAIN toClient' PROVE AnsweredInStep(toClient[i])'
  <2>1. sender'[toClient[i + 1].pid] = sender[toClient[i + 1].pid]
    BY <1>6, <1>10
  <2> QED
    BY <1>1, <1>2, <1>10, <2>1 DEF AnsweredInStep
<1>16. NotYet'
  <2>1. ASSUME NEW r \in PacketIds, uncompleted[r] # None
        PROVE  /\ sender'[r].state # "free" /\ sender'[r].msg = uncompleted[r]
               /\ delivered[uncompleted[r]] = 0
    <3>1. r = p => go
      BY <1>3, <1>5, <2>1 DEF AnsweredInStep
    <3> QED
      BY <1>6, <2>1, <3>1 DEF Conforms, NotYet
  <2>2. ASSUME NEW r \in PacketIds, sender'[r].state = "published", qosOf[sender'[r].msg] = 2
        PROVE  delivered[sender'[r].msg] = 0
    BY <1>6, <2>2 DEF Conforms, NotYet
  <2> QED
    BY <1>1, <2>1, <2>2 DEF NotYet
<1>17. Once' /\ Lost' /\ FreeIsEmpty'
  BY <1>1, <1>6 DEF Conforms, Once, Lost, FreeIsEmpty
<1>18. Finished'
  <2>1. ASSUME reconnects = 0, NEW k \in 1..published, qosOf[k] > 0,
               \A r \in PacketIds : sender'[r].msg # k
        PROVE  delivered[k] >= 1
    <3>1. CASE sender[p].msg = k
      <4>1. ~go
        BY <1>3, <1>6, <2>1, <3>1
      <4> QED
        BY <1>3, <1>5, <2>1, <3>1, <4>1 DEF AnsweredInStep
    <3>2. CASE sender[p].msg # k
      <4>1. \A r \in PacketIds : sender[r].msg # k
        BY <1>6, <2>1, <3>2
      <4> QED
        BY <2>1, <4>1 DEF Conforms, Finished, FinishedMeansDelivered
    <3> QED
      BY <3>1, <3>2
  <2> QED
    BY <1>1, <2>1 DEF Finished, FinishedMeansDelivered
<1> QED
  BY <1>11, <1>12, <1>13, <1>14, <1>15, <1>16, <1>17, <1>18
     DEF Conforms, ToServerInStep, ToClientInStep

-----------------------------------------------------------------------------
(* The theorems.                                                           *)

\* The first connection begins with nothing on its way.
THEOREM InitCInv == Init => CInv
<1> SUFFICES ASSUME Init PROVE Conforms
  BY DEF CInv
<1>1. \A p \in PacketIds : uncompleted[p] = None /\ sender[p].state = "free" /\ sender[p].msg = None
  BY DEF Init, NoMessages, Free
<1>2. /\ toServer = <<>> /\ toClient = <<>> /\ published = 0 /\ link = "up"
      /\ \A n \in Messages : delivered[n] = 0
  BY DEF Init
<1>3. Numbered /\ OneSender /\ FreeIsEmpty /\ NotYet
  BY <1>1, <1>2 DEF Numbered, OneSender, FreeIsEmpty, NotYet
<1>4. OneAtATime /\ ToServerInStep /\ ToClientInStep /\ Lost
  BY <1>2 DEF OneAtATime, ToServerInStep, ToClientInStep, Lost
<1>5. Once /\ Finished
  BY <1>2 DEF Once, Finished, FinishedMeansDelivered
<1> QED
  BY <1>3, <1>4, <1>5 DEF Conforms

\* Every step of a connection, its loss and its client keeps a conforming
\* exchange in step.
THEOREM NextCInv == IInv /\ CInv /\ [Next]_vars => CInv'
<1> SUFFICES ASSUME IInv, CInv, [Next]_vars, rogue' = 0 PROVE Conforms'
  BY DEF CInv
<1>1. CASE RogueSends
  BY <1>1 DEF RogueSends, IInv, TypeOK
<1>2. ASSUME rogue = 0 PROVE Conforms'
  <2>0. Conforms
    BY <1>2 DEF CInv
  <2>1. CASE \E q \in QosLevels, p \in PacketIds : ClientPublishes(q, p)
    BY <2>0, <2>1, ClientPublishesConforms
  <2>2. CASE ClientReads
    BY <2>0, <2>2, ClientReadsConforms
  <2>3. CASE Server
    BY <2>0, <2>3, Publish0Conforms, Publish1Conforms, Publish2Conforms, PubRelConforms,
       PubRelErrorConforms DEF Server
  <2>4. CASE Drop
    BY <2>0, <2>4, DropConforms
  <2>5. CASE Reconnect
    BY <2>0, <2>5, ReconnectConforms
  <2>6. CASE UNCHANGED vars
    <3>1. UNCHANGED <<link, uncompleted, toServer, toClient, sender, published, qosOf, delivered, reconnects>>
      BY <2>6 DEF vars, connVars, modelVars
    <3>2. Numbered' /\ OneSender' /\ FreeIsEmpty' /\ NotYet' /\ Lost' /\ OneAtATime' /\ Once' /\ Finished'
      BY <2>0, <3>1 DEF Conforms, Numbered, OneSender, FreeIsEmpty, NotYet, Lost, OneAtATime, Once,
         Finished, FinishedMeansDelivered
    <3>3. ToServerInStep' /\ ToClientInStep'
      BY <2>0, <3>1 DEF Conforms, ToServerInStep, ToClientInStep, SentInStep, AnsweredInStep
    <3> QED
      BY <3>2, <3>3 DEF Conforms
  <2> QED
    BY <1>1, <2>1, <2>2, <2>3, <2>4, <2>5, <2>6 DEF Next
<1>3. CASE ~RogueSends
  <2>1. UNCHANGED rogue
    BY <1>3 DEF Next, Server, ClientPublishes, ClientReads, Drop, Reconnect, vars, modelVars,
       HandlePublish0, HandlePublish1, HandlePublish2, HandlePubRel, HandlePubRelError, Reading
  <2> QED
    BY <1>2, <2>1
<1> QED
  BY <1>1, <1>3

\* As long as no step breaks the protocol, the exchange of every identifier in
\* client_loop.rs stays in step with the client's.
THEOREM Conforming == Spec => [](IInv /\ CInv)
<1>1. IInv /\ CInv /\ [Next]_vars => (IInv /\ CInv)'
  BY NextIInv, NextCInv
<1> QED
  BY InitIInv, InitCInv, <1>1, PTL DEF Spec

\* No QoS 2 message of a conforming client is delivered twice, for any number
\* of lost answers, losses and reconnects.
THEOREM DeliveredOnce == Spec => []AtMostOnce
<1>1. CInv => AtMostOnce
  BY DEF CInv, Conforms, Once, AtMostOnce
<1> QED
  BY Conforming, <1>1, PTL

\* On the first connection, whatever a conforming client has finished with
\* was delivered.
THEOREM FinishedDelivered == Spec => []DeliveredWithoutReconnect
<1>1. CInv => DeliveredWithoutReconnect
  BY DEF CInv, Conforms, Finished, DeliveredWithoutReconnect
<1> QED
  BY Conforming, <1>1, PTL

\* How what is held for p leaves, if it does.
Leaves(p) ==
  uncompleted[p] # None /\ uncompleted'[p] # uncompleted[p] =>
    \/ ReleasedWith(p)
    \/ reconnects' # reconnects
    \/ rogue > 0 /\ toServer # <<>> /\ Head(toServer).pid = p

\* Every step takes what is held by its PUBREL, with the connection, or because
\* of a packet about it that breaks the protocol.
LEMMA StepKeepsHeld ==
  ASSUME IInv, CInv, [Next]_vars, NEW p \in PacketIds
  PROVE  Leaves(p)
<1> SUFFICES ASSUME uncompleted[p] # None, uncompleted'[p] # uncompleted[p]
             PROVE  \/ ReleasedWith(p)
                    \/ reconnects' # reconnects
                    \/ rogue > 0 /\ toServer # <<>> /\ Head(toServer).pid = p
  BY DEF Leaves
<1> DEFINE h == Head(toServer)
<1>0. /\ uncompleted \in [PacketIds -> Messages \union {None}] /\ rogue \in Nat
      /\ toServer \in Seq(ClientPacket) /\ reconnects \in Nat
  BY InboundAssumption DEF IInv, TypeOK
<1>1. CASE HandlePublish2
  <2>1. Reading("PUBLISH") /\ h.qos = 2 /\ toServer # <<>>
    BY <1>1 DEF HandlePublish2, Reading
  <2>2. UNCHANGED uncompleted \/ uncompleted' = [uncompleted EXCEPT ![h.pid] = h.msg]
    BY <1>1 DEF HandlePublish2, Reject
  <2>3. h.pid = p
    BY <1>0, <2>2
  <2>4. rogue # 0
    <3>1. ASSUME rogue = 0 PROVE FALSE
      <4>1. Conforms
        BY <3>1 DEF CInv
      <4>2. SentInStep(h) /\ h.type = "PUBLISH"
        BY <2>1, <4>1, HeadInStep
      <4> QED
        BY <2>1, <2>3, <4>2 DEF SentInStep
    <3> QED
      BY <3>1
  <2> QED
    BY <1>0, <2>1, <2>3, <2>4
<1>2. CASE HandlePubRel
  <2>1. h.type = "PUBREL" /\ toServer # <<>> /\ h \in ClientPacket
    BY <1>0, <1>2 DEF HandlePubRel, Reading
  <2>2. \/ UNCHANGED uncompleted
        \/ uncompleted' = Released(h.pid) /\ Deliver(uncompleted[h.pid])
    BY <1>2 DEF HandlePubRel, Reject
  <2>3. h.pid = p /\ uncompleted' = Released(p) /\ Deliver(uncompleted[p])
    BY <1>0, <2>2 DEF Released
  <2>4. h = PubRel(p)
    BY <2>1, <2>3 DEF ClientPacket, PubRel
  <2>5. uncompleted'[p] = None /\ delivered' = [delivered EXCEPT ![uncompleted[p]] = @ + 1]
    BY <1>0, <2>3 DEF Released, Deliver
  <2> QED
    BY <2>1, <2>4, <2>5 DEF ReleasedWith
<1>3. CASE HandlePubRelError
  <2>1. Reading("PUBREL_ERROR") /\ toServer # <<>>
    BY <1>3 DEF HandlePubRelError, Reading
  <2>2. UNCHANGED uncompleted \/ uncompleted' = Released(h.pid)
    BY <1>3 DEF HandlePubRelError, Reject
  <2>3. h.pid = p
    BY <1>0, <2>2 DEF Released
  <2>4. rogue # 0
    <3>1. ASSUME rogue = 0 PROVE FALSE
      <4>1. Conforms
        BY <3>1 DEF CInv
      <4>2. SentInStep(h) /\ h.type = "PUBREL_ERROR"
        BY <2>1, <4>1, HeadInStep
      <4> QED
        BY <4>2 DEF SentInStep
    <3> QED
      BY <3>1
  <2> QED
    BY <1>0, <2>1, <2>3, <2>4
<1>4. CASE Reconnect
  BY <1>0, <1>4 DEF Reconnect
<1>5. CASE ~(HandlePublish2 \/ Reconnect \/ HandlePubRel \/ HandlePubRelError)
  <2>1. UNCHANGED uncompleted
    BY <1>5 DEF Next, Server, ClientPublishes, ClientReads, RogueSends, Drop, vars, connVars,
       HandlePublish0, HandlePublish1
  <2> QED
    BY <2>1
<1> QED
  BY <1>1, <1>2, <1>3, <1>4, <1>5

\* What an identifier was acknowledged for stays until its PUBREL delivers it or
\* the connection ends, whatever else a step reads, sends or fails to send
\* (uncompleted_messages in handle_publish and handle_pub_rel).
THEOREM KeptUntilReleased == Spec => HeldUntilReleased
<1> DEFINE Kept == \A p \in PacketIds : Leaves(p)
<1>1. IInv /\ CInv /\ [Next]_vars => [Kept]_vars
  BY StepKeepsHeld
<1> HIDE DEF Kept
<1>2. Spec => [][Kept]_vars
  BY Conforming, <1>1, PTL DEF Spec
<1> QED
  BY <1>2 DEF HeldUntilReleased, Kept, Leaves

-----------------------------------------------------------------------------
(* The credits of a conforming client.                                     *)

\* The client's window, and that the broker has given back every credit but
\* those of the messages it holds.
Window  == Cardinality(Unreleased) <= ReceiveMax
Credits == link = "up" => Cardinality(Held) + quota >= ReceiveMax

KInv == rogue = 0 => ~rejected /\ Window /\ Credits

\* The client's count is a number.
LEMMA UnreleasedFinite == IsFiniteSet(Unreleased) /\ Cardinality(Unreleased) \in Nat
  BY InboundAssumption, FS_Subset, FS_CardinalityType DEF InboundAssumption, Unreleased

\* What the broker holds is part of what the client counts.
LEMMA HeldUnreleased ==
  ASSUME IInv, Conforms
  PROVE  Held \subseteq Unreleased
<1> SUFFICES ASSUME NEW p \in PacketIds, uncompleted[p] # None PROVE p \in Unreleased
  BY DEF Held
<1>1. sender[p].state # "free" /\ sender[p].msg = uncompleted[p] /\ qosOf[uncompleted[p]] = 2
  BY DEF Conforms, NotYet, Numbered
<1> QED
  BY <1>1 DEF Unreleased

\* So a QoS 2 PUBLISH of a conforming client finds a credit (handle_publish).
LEMMA CreditLeft ==
  ASSUME IInv, Conforms, Window, Credits, Reading("PUBLISH"), Head(toServer).qos = 2
  PROVE  quota # 0 /\ uncompleted[Head(toServer).pid] = None
<1> DEFINE m == Head(toServer)
<1>1. m.pid \in PacketIds /\ SentInStep(m) /\ qosOf[m.msg] = 2 /\ m.type = "PUBLISH"
  BY HeadInStep
<1>2. sender[m.pid] = [state |-> "published", msg |-> m.msg] /\ uncompleted[m.pid] = None
  BY <1>1 DEF SentInStep
<1>3. m.pid \in Unreleased /\ m.pid \notin Held
  BY <1>1, <1>2 DEF Unreleased, Held
<1> HIDE DEF m
<1>4. Held \subseteq Unreleased
  BY HeldUnreleased
<1>5. Held \union {m.pid} \subseteq Unreleased
  BY <1>3, <1>4
<1>6. Cardinality(Held \union {m.pid}) <= Cardinality(Unreleased)
  BY <1>5, UnreleasedFinite, FS_Subset
<1>7. Cardinality(Held \union {m.pid}) = Cardinality(Held) + 1
  BY <1>3, HeldFinite, FS_AddElement
<1>8. link = "up" /\ quota \in Nat /\ ReceiveMax \in Nat
  BY InboundAssumption DEF Reading, IInv, TypeOK, InboundAssumption
<1> QED
  BY <1>2, <1>6, <1>7, <1>8, HeldFinite, UnreleasedFinite DEF Window, Credits, m

\* A step after which the client counts no more than before.
LEMMA WindowKeeps ==
  ASSUME Window, Unreleased' \subseteq Unreleased
  PROVE  Window'
<1>1. Cardinality(Unreleased') <= Cardinality(Unreleased) /\ Cardinality(Unreleased') \in Nat
  BY UnreleasedFinite, FS_Subset, FS_CardinalityType
<1> QED
  BY <1>1, UnreleasedFinite, InboundAssumption DEF Window, InboundAssumption

\* Every step of a conforming exchange keeps it, with the reason codes and
\* lenience of MQTT 5.
LEMMA StepKeepsCredits ==
  ASSUME Level = "V5", IInv, Conforms, ~rejected, Window, Credits, [Next]_vars, ~RogueSends
  PROVE  ~rejected' /\ Window' /\ Credits'
<1>0. /\ TypeOK /\ ReceiveMax \in Nat /\ quota \in 0..ReceiveMax
      /\ sender \in [PacketIds -> [state : SenderStates, msg : Messages \union {None}]]
      /\ qosOf \in [Messages -> 0..2] /\ published \in 0..MaxMessages /\ MaxMessages \in Nat
  BY InboundAssumption DEF IInv, TypeOK, InboundAssumption
<1>1. ASSUME UNCHANGED <<sender, qosOf>> PROVE Window'
  BY <1>1 DEF Window, Unreleased
<1>2. ASSUME UNCHANGED <<link, quota, uncompleted>> PROVE Credits'
  BY <1>2 DEF Credits, Held
<1>3. ASSUME link' = "down" PROVE Credits'
  BY <1>3 DEF Credits
<1>4. CASE HandlePublish0 \/ HandlePublish1
  <2>1. UNCHANGED <<sender, qosOf, rejected, quota, uncompleted>> /\ (link' = link \/ link' = "down")
    BY <1>4 DEF HandlePublish0, HandlePublish1, Reading, Reply
  <2> QED
    BY <1>1, <1>2, <1>3, <2>1
<1>5. CASE HandlePublish2
  <2> DEFINE p == Head(toServer).pid
             n == Head(toServer).msg
  <2>1. Reading("PUBLISH") /\ Head(toServer).qos = 2
    BY <1>5 DEF HandlePublish2
  <2>2. quota # 0 /\ uncompleted[p] = None /\ p \in PacketIds /\ n \in Messages
    BY <1>0, <2>1, CreditLeft, HeadTyped
  <2>3. /\ uncompleted' = [uncompleted EXCEPT ![p] = n]
        /\ quota' = quota - 1 /\ UNCHANGED <<sender, qosOf, rejected>>
        /\ link' = link \/ link' = "down"
    BY <1>5, <2>1, <2>2 DEF HandlePublish2, CreditTaken, Reply, Reading
  <2> HIDE DEF p, n
  <2>4. Cardinality(Held') = Cardinality(Held) + 1
    BY <1>0, <2>2, <2>3, HeldMore
  <2>5. Credits'
    BY <1>0, <2>3, <2>4, HeldFinite DEF Credits
  <2> QED
    BY <1>1, <2>3, <2>5
<1>6. CASE HandlePubRel
  <2> DEFINE p == Head(toServer).pid
  <2>1. p \in PacketIds
    BY <1>0, <1>6, HeadTyped DEF HandlePubRel
  <2>2. CASE uncompleted[p] # None
    <3>1. /\ uncompleted' = Released(p) /\ UNCHANGED <<sender, qosOf, rejected>>
          /\ link' = link \/ link' = "down"
          /\ quota' = IF link' = "up" THEN quota + 1 ELSE quota
      BY <1>6, <2>2 DEF HandlePubRel, CreditReturned, Reply, Reading
    <3> HIDE DEF p
    <3>2. Cardinality(Held') = Cardinality(Held) - 1
      BY <1>0, <2>1, <2>2, <3>1, HeldLess
    <3>3. Credits'
      BY <1>0, <3>1, <3>2, HeldFinite DEF Credits
    <3> QED
      BY <1>1, <3>1, <3>3
  <2>3. CASE uncompleted[p] = None
    <3>1. UNCHANGED <<sender, qosOf, rejected, quota, uncompleted>> /\ (link' = link \/ link' = "down")
      BY <1>6, <2>3 DEF HandlePubRel, Reading, Reply
    <3> QED
      BY <1>1, <1>2, <1>3, <3>1
  <2> QED
    BY <2>2, <2>3
<1>7. CASE HandlePubRelError
  <2>1. Reading("PUBREL_ERROR")
    BY <1>7 DEF HandlePubRelError
  <2>2. SentInStep(Head(toServer)) /\ Head(toServer).type = "PUBREL_ERROR"
    BY <2>1, HeadInStep DEF Reading
  <2> QED
    BY <2>2 DEF SentInStep
<1>8. CASE Drop
  <2>1. UNCHANGED <<sender, qosOf, rejected>> /\ link' = "down"
    BY <1>8 DEF Drop, modelVars
  <2> QED
    BY <1>1, <1>3, <2>1
<1>9. CASE Reconnect
  <2>1. UNCHANGED <<sender, qosOf, rejected>> /\ quota' = ReceiveMax
    BY <1>9 DEF Reconnect
  <2>2. Held' = {}
    BY <1>9 DEF Reconnect, Held, NoMessages
  <2>3. Credits'
    BY <1>0, <2>1, <2>2, FS_EmptySet DEF Credits
  <2> QED
    BY <1>1, <2>1, <2>3
<1>10. CASE ClientReads
  <2>1. UNCHANGED <<link, quota, uncompleted, qosOf, rejected>>
    BY <1>10 DEF ClientReads, connVars, modelVars
  <2> DEFINE a == Head(toClient)
             new == IF a.type = "PUBREC" /\ sender[a.pid].state # "free"
                      THEN [sender[a.pid] EXCEPT !.state = "released"] ELSE Free
  <2>2. sender' = [sender EXCEPT ![a.pid] = new]
    BY <1>10 DEF ClientReads
  <2>3. a.pid \in PacketIds
    <3>1. toClient \in Seq(ServerPacket) /\ toClient # <<>>
      BY <1>0, <1>10 DEF TypeOK, ClientReads
    <3>2. a \in ServerPacket
      BY <3>1
    <3> QED
      BY <3>2 DEF ServerPacket
  <2>4. new.state # "free" => sender[a.pid].state # "free" /\ new.msg = sender[a.pid].msg
    BY <1>0, <2>3 DEF Free
  <2> HIDE DEF a, new
  <2>5. Unreleased' \subseteq Unreleased
    BY <1>0, <2>1, <2>2, <2>3, <2>4 DEF Unreleased
  <2> QED
    BY <1>2, <2>1, <2>5, WindowKeeps
<1>11. ASSUME NEW q \in QosLevels, NEW p \in PacketIds, ClientPublishes(q, p)
       PROVE  ~rejected' /\ Window' /\ Credits'
  <2>1. /\ UNCHANGED <<link, quota, uncompleted, rejected>>
        /\ qosOf' = [qosOf EXCEPT ![published + 1] = q]
        /\ sender' = IF q = 0 THEN sender
                     ELSE [sender EXCEPT ![p] = [state |-> "published", msg |-> published + 1]]
        /\ q = 2 => Cardinality(Unreleased) < ReceiveMax
        /\ published + 1 \in Messages
    BY <1>0, <1>11 DEF ClientPublishes, connVars, Messages
  <2>2. \A r \in PacketIds : sender[r].state # "free" => qosOf'[sender[r].msg] = qosOf[sender[r].msg]
    <3> TAKE r \in PacketIds
    <3>1. sender[r].state # "free" => sender[r].msg \in Messages /\ sender[r].msg <= published
      BY DEF Conforms, Numbered, IInv, SenderHasMessage
    <3> QED
      BY <1>0, <2>1, <3>1 DEF Messages
  <2>3. \A r \in PacketIds : r # p => sender'[r] = sender[r]
    BY <1>0, <2>1
  <2>4. Unreleased' \subseteq Unreleased \union {p}
    BY <2>2, <2>3 DEF Unreleased
  <2>5. CASE q = 2
    <3>1. /\ Cardinality(Unreleased \union {p}) <= Cardinality(Unreleased) + 1
          /\ IsFiniteSet(Unreleased \union {p}) /\ Cardinality(Unreleased \union {p}) \in Nat
      <4>1. /\ IsFiniteSet(Unreleased \union {p})
            /\ Cardinality(Unreleased \union {p}) =
                 IF p \in Unreleased THEN Cardinality(Unreleased) ELSE Cardinality(Unreleased) + 1
        BY UnreleasedFinite, FS_AddElement
      <4>2. Cardinality(Unreleased \union {p}) \in Nat
        BY <4>1, FS_CardinalityType
      <4> QED
        BY <4>1, <4>2, UnreleasedFinite
    <3>2. Cardinality(Unreleased') <= Cardinality(Unreleased \union {p}) /\ Cardinality(Unreleased') \in Nat
      BY <2>4, <3>1, FS_Subset, FS_CardinalityType
    <3>3. Window'
      BY <1>0, <2>1, <2>5, <3>1, <3>2, UnreleasedFinite DEF Window
    <3> QED
      BY <1>2, <2>1, <3>3
  <2>6. CASE q # 2
    <3>1. p \notin Unreleased' \/ p \in Unreleased
      <4>1. CASE q = 0
        BY <2>1, <2>2, <4>1 DEF Unreleased
      <4>2. CASE q # 0
        <5>1. sender'[p].msg = published + 1 /\ qosOf'[published + 1] = q
          BY <1>0, <2>1, <4>2
        <5> QED
          BY <2>6, <5>1 DEF Unreleased
      <4> QED
        BY <4>1, <4>2
    <3>2. Unreleased' \subseteq Unreleased
      BY <2>4, <3>1
    <3> QED
      BY <1>2, <2>1, <3>2, WindowKeeps
  <2> QED
    BY <2>5, <2>6
<1>12. CASE UNCHANGED vars
  BY <1>1, <1>2, <1>12 DEF vars, connVars, modelVars
<1> QED
  BY <1>4, <1>5, <1>6, <1>7, <1>8, <1>9, <1>10, <1>11, <1>12 DEF Next, Server

\* A client that keeps to MQTT 5 and to its Receive Maximum is never thrown
\* out, for any Receive Maximum: the credits handle_publish takes and
\* handle_pub_rel gives back follow the client's own count.
THEOREM NotThrownOut == ASSUME Level = "V5" PROVE Spec => []ConformingClientKept
<1>1. Init => KInv
  <2> SUFFICES ASSUME Init PROVE KInv
    OBVIOUS
  <2>1. Unreleased = {} /\ Held = {}
    BY DEF Init, Unreleased, Held, NoMessages, Free
  <2>2. ~rejected /\ quota = ReceiveMax /\ ReceiveMax \in Nat
    BY InboundAssumption DEF Init, InboundAssumption
  <2> QED
    BY <2>1, <2>2, FS_EmptySet DEF KInv, Window, Credits
<1>2. IInv /\ CInv /\ KInv /\ [Next]_vars => KInv'
  <2> SUFFICES ASSUME IInv, CInv, KInv, [Next]_vars, rogue' = 0
               PROVE  ~rejected' /\ Window' /\ Credits'
    BY DEF KInv
  <2>1. CASE RogueSends
    BY <2>1 DEF RogueSends, IInv, TypeOK
  <2>2. CASE ~RogueSends
    <3>1. rogue = 0
      BY <2>2 DEF Next, Server, ClientPublishes, ClientReads, Drop, Reconnect, vars, modelVars,
         HandlePublish0, HandlePublish1, HandlePublish2, HandlePubRel, HandlePubRelError, Reading
    <3> QED
      BY <2>2, <3>1, StepKeepsCredits DEF KInv, CInv
  <2> QED
    BY <2>1, <2>2
<1>3. KInv => ConformingClientKept
  BY DEF KInv, ConformingClientKept
<1> QED
  BY Conforming, <1>1, <1>2, <1>3, PTL DEF Spec
===============================================================================
