--------------------------- MODULE OutboundFlowProofs ---------------------------
(***************************************************************************)
(* Type correctness and the bound on send credits of OutboundFlow, for     *)
(* every Receive Maximum, every range of packet identifiers and every      *)
(* schedule of acknowledgements, refusals, send failures and reconnects;   *)
(* what a session's first connection delivers, and what all its            *)
(* connections deliver when no message has QoS 2.                          *)
(*                                                                         *)
(* The bound is not inductive as it stands: delive spends a credit without *)
(* looking at the quota, so the batch that handle_notified took must never *)
(* be larger than the credits left (BatchPaid); and a connection starts    *)
(* without a batch (DownIsEmpty).  What is on the network is typed too,    *)
(* because the client hands it to the application.                         *)
(*                                                                         *)
(* On the first connection the packets in flight carry the identifiers     *)
(* handed out last (Contiguous), so the credits keep the allocator from    *)
(* catching up with them.  Then every packet under way belongs to one of   *)
(* them (Entries, OnePacket, HeldOpen), what has been received, is on the  *)
(* network, in the batch and in the queue forms one line in the order of   *)
(* arrival (Line), and no message drops out of it (NothingLost).           *)
(*                                                                         *)
(* After a reconnect identifiers may repeat.  Without QoS 2 this does no   *)
(* harm: the client acknowledges the packets in flight from the front, in  *)
(* their order (Acks), the others are all on their way to it (Sent), and   *)
(* what is sent again has been overtaken by nothing (SafeRow).             *)
(***************************************************************************)
EXTENDS OutboundFlow, TLAPS

ToClientPacket ==
  [type : {"PUBLISH"}, pid : PacketIds, msg : Messages]
    \union [type : {"PUBREL", "PUBREL_NOT_FOUND"}, pid : PacketIds]
ToServerPacket ==
  [type : {"PUBACK", "PUBREC", "PUBREC_ERROR", "PUBCOMP"}, pid : PacketIds]

NetOK == toClient \in Seq(ToClientPacket) /\ toServer \in Seq(ToServerPacket)

BatchPaid   == Len(batch) <= quota
DownIsEmpty == link = "down" => batch = <<>>

IInv == TypeOK /\ NetOK /\ BatchPaid /\ DownIsEmpty /\ WithinReceiveMax

-----------------------------------------------------------------------------
(* Arithmetic on credits (usize).                                          *)

\* A usize is a usize.
LEMMA ModInRange ==
  ASSUME NEW x \in Int
  PROVE  x % UsizeSize \in 0..(UsizeSize - 1)
  BY OutboundAssumption DEF OutboundAssumption

\* A value of usize is not changed by the wrap-around.
LEMMA ModSmall ==
  ASSUME NEW x \in 0..(UsizeSize - 1)
  PROVE  x % UsizeSize = x
  BY OutboundAssumption DEF OutboundAssumption

\* The identifier after p is an identifier again (PacketIdAllocator::take).
LEMMA PidAfterTyped ==
  ASSUME NEW p \in PacketIds
  PROVE  PidAfter(p) \in PacketIds
  BY OutboundAssumption DEF PidAfter, PacketIds, OutboundAssumption

\* next_messages takes no more than it is allowed to.
LEMMA TakeBatchTyped ==
  ASSUME queue \in Seq(Messages), NEW q \in Nat, TakeBatch(q)
  PROVE  /\ batch' \in Seq(Messages)
         /\ queue' \in Seq(Messages)
         /\ Len(batch') <= q
<1> DEFINE n == Lesser(q, Len(queue))
<1>1. n \in 0..Len(queue) /\ n <= q
  BY DEF Lesser
<1>2. batch' = SubSeq(queue, 1, n) /\ queue' = SubSeq(queue, n + 1, Len(queue))
  BY DEF TakeBatch
<1> HIDE DEF n
<1>3. batch' \in Seq(Messages) /\ Len(batch') = n
  BY <1>1, <1>2
<1>4. queue' \in Seq(Messages)
  BY <1>1, <1>2
<1> QED
  BY <1>1, <1>3, <1>4

\* The front of the in-flight queue is taken off (get_inflight_pub_packets
\* with remove).
LEMMA FrontTyped ==
  ASSUME inflight \in Seq(InFlight), NEW p, FrontIs(p)
  PROVE  Tail(inflight) \in Seq(InFlight) /\ Len(Tail(inflight)) = Len(inflight) - 1
  BY DEF FrontIs

-----------------------------------------------------------------------------
\* A new session on its first connection satisfies the invariant: the quota is
\* the client's Receive Maximum (handle_connect).
THEOREM InitIInv == Init => IInv
<1> SUFFICES ASSUME Init PROVE IInv
  OBVIOUS
<1>1. receiveMax \in ReceiveMaxes /\ receiveMax \in 1..(UsizeSize - 1) /\ quota = receiveMax
  BY OutboundAssumption DEF Init, OutboundAssumption
<1>2. nextPid \in PacketIds
  BY OutboundAssumption DEF Init, PacketIds, OutboundAssumption
<1>3. qos2 \in [PacketIds -> Qos2States]
  BY DEF Init, NoQos2State, Qos2States
<1>4. /\ queue \in Seq(Messages) /\ inflight \in Seq(InFlight) /\ batch \in Seq(Messages)
      /\ received \in Seq(Messages) /\ NetOK
  BY DEF Init, NetOK
<1>5. permit \in BOOLEAN /\ rejected \in BOOLEAN
  BY DEF Init
<1>6. arrived \in 0..MaxMessages /\ reconnects \in 0..MaxReconnects /\ resent \in Nat
  BY OutboundAssumption DEF Init, OutboundAssumption
<1>7. quota \in 0..(UsizeSize - 1)
  BY <1>1, OutboundAssumption DEF OutboundAssumption
<1>8. TypeOK
  BY <1>1, <1>2, <1>3, <1>4, <1>5, <1>6, <1>7 DEF Init, TypeOK
<1>9. BatchPaid /\ DownIsEmpty /\ WithinReceiveMax
  BY <1>1 DEF Init, BatchPaid, DownIsEmpty, WithinReceiveMax
<1> QED
  BY <1>4, <1>8, <1>9 DEF IInv

-----------------------------------------------------------------------------
(* The session and its task.                                               *)

\* add_message queues, and no more.
LEMMA AddMessageKeeps == ASSUME IInv, NEW q \in QosLevels, AddMessage(q) PROVE IInv'
<1>1. arrived + 1 \in Messages /\ arrived' \in 0..MaxMessages /\ q \in 0..2
  BY OutboundAssumption DEF IInv, TypeOK, AddMessage, Messages, OutboundAssumption
<1>2. queue' \in Seq(Messages) /\ qosOf' \in [Messages -> 0..2] /\ permit' \in BOOLEAN
  BY <1>1 DEF IInv, TypeOK, AddMessage
<1>3. UNCHANGED <<inflight, connVars, netVars, clientVars, resent, rejected, reconnects>>
  BY DEF AddMessage
<1>4. TypeOK' /\ NetOK' /\ BatchPaid' /\ DownIsEmpty' /\ WithinReceiveMax'
  BY <1>1, <1>2, <1>3
  DEF IInv, TypeOK, NetOK, BatchPaid, DownIsEmpty, WithinReceiveMax, connVars, netVars, clientVars
<1> QED
  BY <1>4 DEF IInv

\* handle_notified takes no more than there are credits for: the batch is
\* paid.
LEMMA HandleNotifiedKeeps == ASSUME IInv, HandleNotified PROVE IInv'
<1>1. /\ link = "up" /\ permit' = FALSE /\ TakeBatch(quota)
      /\ UNCHANGED <<inflight, link, receiveMax, quota, nextPid, qos2, netVars, clientVars,
                     modelVars>>
  BY DEF HandleNotified, Idle
<1>2. quota \in Nat
  BY OutboundAssumption DEF IInv, TypeOK, OutboundAssumption
<1>3. batch' \in Seq(Messages) /\ queue' \in Seq(Messages) /\ Len(batch') <= quota
  BY <1>1, <1>2, TakeBatchTyped DEF IInv, TypeOK
<1>4. TypeOK' /\ NetOK'
  BY <1>1, <1>3 DEF IInv, TypeOK, NetOK, netVars, clientVars, modelVars
<1>5. BatchPaid' /\ DownIsEmpty' /\ WithinReceiveMax'
  BY <1>1, <1>3 DEF IInv, BatchPaid, DownIsEmpty, WithinReceiveMax, modelVars
<1> QED
  BY <1>4, <1>5 DEF IInv

\* delive spends one credit for a packet it puts in flight, and there is one.
LEMMA DeliveSpends ==
  ASSUME IInv, Delive
  PROVE  /\ nextPid' \in PacketIds /\ quota' \in 0..(UsizeSize - 1)
         /\ inflight' \in Seq(InFlight) /\ qos2' \in [PacketIds -> Qos2States]
         /\ Len(inflight') + quota' = Len(inflight) + quota
         /\ Head(batch) \in Messages /\ Tail(batch) \in Seq(Messages)
         /\ Len(Tail(batch)) <= quota'
         /\ UNCHANGED <<queue, permit, receiveMax, clientVars, arrived, qosOf, resent,
                        rejected, reconnects>>
<1> DEFINE m == Head(batch)
<1>1. /\ batch \in Seq(Messages) /\ batch # <<>>
      /\ m \in Messages /\ Tail(batch) \in Seq(Messages)
      /\ Len(Tail(batch)) = Len(batch) - 1
  BY DEF Delive, IInv, TypeOK
<1>2. /\ quota \in 1..(UsizeSize - 1) /\ UsizeSize \in Nat
      /\ Len(batch) \in Nat /\ Len(batch) <= quota
  BY <1>1, OutboundAssumption DEF IInv, TypeOK, BatchPaid, OutboundAssumption
<1>3. CASE qosOf[m] = 0
  BY <1>1, <1>2, <1>3 DEF Delive, IInv, TypeOK
<1>4. CASE qosOf[m] # 0
  <2>1. nextPid' \in PacketIds
    BY <1>4, PidAfterTyped DEF Delive, IInv, TypeOK
  <2>2. quota' = quota - 1
    <3>1. quota' = (quota - 1) % UsizeSize
      BY <1>4 DEF Delive
    <3>2. quota - 1 \in 0..(UsizeSize - 1)
      BY <1>2
    <3> QED
      BY <3>1, <3>2, ModSmall
  <2>3. [pid |-> nextPid, msg |-> m] \in InFlight
    BY <1>1 DEF InFlight, IInv, TypeOK
  <2>4. inflight \in Seq(InFlight) /\ inflight' = Append(inflight, [pid |-> nextPid, msg |-> m])
    BY <1>4 DEF Delive, IInv, TypeOK
  <2>5. inflight' \in Seq(InFlight) /\ Len(inflight') = Len(inflight) + 1 /\ Len(inflight) \in Nat
    BY <2>3, <2>4
  <2>6. qos2' \in [PacketIds -> Qos2States]
    BY <1>4 DEF Delive, IInv, TypeOK, Qos2States
  <2>7. quota' \in 0..(UsizeSize - 1) /\ Len(Tail(batch)) <= quota'
        /\ Len(inflight') + quota' = Len(inflight) + quota
    BY <1>1, <1>2, <2>2, <2>5
  <2> QED
    BY <1>1, <2>1, <2>5, <2>6, <2>7 DEF Delive
<1> QED
  BY <1>3, <1>4

\* delive spends a credit on a message of a paid batch, and puts it in
\* flight.
LEMMA DeliveSendsKeeps == ASSUME IInv, DeliveSends PROVE IInv'
<1>1. /\ Delive /\ batch' = Tail(batch)
      /\ toClient' = Append(toClient, Publish(nextPid, Head(batch)))
      /\ UNCHANGED <<link, toServer>>
  BY DEF DeliveSends
<1>2. Publish(nextPid, Head(batch)) \in ToClientPacket
  BY <1>1, DeliveSpends DEF IInv, TypeOK, Publish, ToClientPacket
<1>3. toClient' \in Seq(ToClientPacket)
  BY <1>1, <1>2 DEF IInv, NetOK
<1>4. TypeOK' /\ NetOK'
  BY <1>1, <1>3, DeliveSpends DEF IInv, TypeOK, NetOK, clientVars
<1>5. link = "up"
  BY <1>1 DEF IInv, TypeOK, DownIsEmpty, Delive
<1>6. BatchPaid' /\ DownIsEmpty' /\ WithinReceiveMax'
  BY <1>1, <1>5, DeliveSpends DEF IInv, BatchPaid, DownIsEmpty, WithinReceiveMax
<1> QED
  BY <1>4, <1>6 DEF IInv

\* A send that fails drops the rest of the batch; what it put in flight was
\* paid.
LEMMA DeliveFailsKeeps == ASSUME IInv, DeliveFails PROVE IInv'
<1>1. Delive /\ batch' = <<>> /\ link' = "down" /\ toClient' = <<>> /\ toServer' = <<>>
  BY DEF DeliveFails
<1>2. batch' \in Seq(Messages) /\ Len(batch') = 0 /\ NetOK'
  BY <1>1 DEF NetOK
<1>3. TypeOK'
  BY <1>1, <1>2, DeliveSpends DEF IInv, TypeOK, clientVars
<1>4. BatchPaid' /\ DownIsEmpty' /\ WithinReceiveMax'
  BY <1>1, <1>2, DeliveSpends DEF IInv, BatchPaid, DownIsEmpty, WithinReceiveMax
<1> QED
  BY <1>2, <1>3, <1>4 DEF IInv

-----------------------------------------------------------------------------
(* Acknowledgements.                                                       *)

\* Every handler of an acknowledgement runs in the idle loop and reads a packet
\* with a packet identifier.
LEMMA ReadingFacts ==
  ASSUME IInv, NEW t, Reading(t)
  PROVE  /\ link = "up" /\ batch = <<>>
         /\ Head(toServer).pid \in PacketIds
         /\ Tail(toServer) \in Seq(ToServerPacket)
         /\ UNCHANGED <<clientVars, arrived, qosOf, resent, reconnects>>
<1>1. toServer \in Seq(ToServerPacket) /\ toServer # <<>>
  BY DEF IInv, NetOK, Reading
<1>2. Head(toServer) \in ToServerPacket /\ Tail(toServer) \in Seq(ToServerPacket)
  BY <1>1
<1>3. Head(toServer).pid \in PacketIds
  BY <1>2 DEF ToServerPacket
<1> QED
  BY <1>2, <1>3 DEF Reading, Idle

\* A ProtocolError ends the connection.
LEMMA RejectKeeps == ASSUME IInv, NEW t, Reading(t), Reject PROVE IInv'
<1>1. NetOK'
  BY DEF NetOK, Reject
<1>2. TypeOK'
  BY ReadingFacts DEF IInv, TypeOK, Reject, sessionVars, clientVars
<1>3. BatchPaid' /\ DownIsEmpty' /\ WithinReceiveMax'
  BY ReadingFacts DEF IInv, BatchPaid, DownIsEmpty, WithinReceiveMax, Reject, sessionVars
<1> QED
  BY <1>1, <1>2, <1>3 DEF IInv

\* A packet leaves the front of the queue and gives its credit back: there was
\* room for it, and the sum stays what it was.
LEMMA CreditBack ==
  ASSUME IInv, NEW p, FrontIs(p), inflight' = Tail(inflight),
         quota' = (quota + 1) % UsizeSize, UNCHANGED <<receiveMax, resent>>
  PROVE  /\ inflight' \in Seq(InFlight) /\ quota' \in 0..(UsizeSize - 1)
         /\ WithinReceiveMax'
<1>1. /\ Tail(inflight) \in Seq(InFlight) /\ Len(Tail(inflight)) = Len(inflight) - 1
      /\ Len(Tail(inflight)) \in Nat
  BY FrontTyped DEF IInv, TypeOK
<1>2. quota \in 0..(UsizeSize - 1) /\ UsizeSize \in Nat /\ receiveMax \in 1..(UsizeSize - 1)
  BY OutboundAssumption DEF IInv, TypeOK, OutboundAssumption
<1>3. quota' \in 0..(UsizeSize - 1)
  BY <1>2, ModInRange
<1>4. ASSUME resent <= receiveMax PROVE Len(inflight') + quota' <= receiveMax
  <2>1. quota + 1 \in 0..(UsizeSize - 1) /\ Len(inflight) + quota <= receiveMax
    BY <1>1, <1>2, <1>4 DEF IInv, WithinReceiveMax
  <2>2. quota' = quota + 1
    BY <2>1, ModSmall
  <2> QED
    BY <1>1, <1>2, <2>1, <2>2
<1> QED
  BY <1>1, <1>3, <1>4 DEF WithinReceiveMax

\* handle_pub_ack gives a credit back for a message that it took out of
\* flight.
LEMMA PubAckKeeps == ASSUME IInv, HandlePubAck PROVE IInv'
<1> DEFINE p == Head(toServer).pid
<1>1. Reading("PUBACK")
  BY DEF HandlePubAck
<1>2. CASE ~FrontIs(p)
  BY <1>1, <1>2, RejectKeeps DEF HandlePubAck
<1>3. CASE FrontIs(p)
  <2>1. /\ Accept /\ inflight' = Tail(inflight) /\ quota' = (quota + 1) % UsizeSize
        /\ UNCHANGED <<queue, permit, receiveMax, nextPid, qos2, batch, toClient>>
    BY <1>3 DEF HandlePubAck
  <2>2. /\ inflight' \in Seq(InFlight) /\ quota' \in 0..(UsizeSize - 1)
        /\ WithinReceiveMax'
    BY <1>1, <1>3, <2>1, CreditBack, ReadingFacts
  <2>3. TypeOK' /\ NetOK'
    BY <1>1, <2>1, <2>2, ReadingFacts DEF IInv, TypeOK, NetOK, Accept, clientVars
  <2>4. BatchPaid' /\ DownIsEmpty'
    BY <1>1, <2>1, <2>2, ReadingFacts DEF BatchPaid, DownIsEmpty
  <2> QED
    BY <2>2, <2>3, <2>4 DEF IInv
<1> QED
  BY <1>2, <1>3

\* PUBREC is recorded for an identifier.
LEMMA RecordedTyped ==
  ASSUME TypeOK, NEW p, qos2' = Recorded(p)
  PROVE  qos2' \in [PacketIds -> Qos2States]
  BY DEF TypeOK, Recorded, Qos2States

\* handle_pub_rec records, and leaves message and credit where they are.
LEMMA PubRecKeeps == ASSUME IInv, HandlePubRec PROVE IInv'
<1> DEFINE p == Head(toServer).pid
           code == IF FrontIs(p) THEN "PUBREL" ELSE "PUBREL_NOT_FOUND"
           good == qos2[p] = "Published" /\ (FrontIs(p) \/ Level = "V5")
<1>1. Reading("PUBREC")
  BY DEF HandlePubRec
<1>2. CASE ~good
  BY <1>1, <1>2, RejectKeeps DEF HandlePubRec
<1>3. CASE good
  <2>1. /\ Accept /\ qos2' = Recorded(p) /\ toClient' = Append(toClient, Reply(code, p))
        /\ UNCHANGED <<sessionVars, receiveMax, quota, nextPid, batch>>
    BY <1>3 DEF HandlePubRec
  <2>2. Reply(code, p) \in ToClientPacket
    BY <1>1, ReadingFacts DEF Reply, ToClientPacket
  <2>3. toClient' \in Seq(ToClientPacket)
    BY <2>1, <2>2 DEF IInv, NetOK
  <2>4. qos2' \in [PacketIds -> Qos2States]
    BY <2>1, RecordedTyped DEF IInv
  <2>5. TypeOK' /\ NetOK'
    BY <1>1, <2>1, <2>3, <2>4, ReadingFacts
    DEF IInv, TypeOK, NetOK, Accept, sessionVars, clientVars
  <2>6. BatchPaid' /\ DownIsEmpty' /\ WithinReceiveMax'
    BY <1>1, <2>1, ReadingFacts
    DEF IInv, BatchPaid, DownIsEmpty, WithinReceiveMax, sessionVars
  <2> QED
    BY <2>5, <2>6 DEF IInv
<1> QED
  BY <1>2, <1>3

\* A PUBREC with an error code takes the message out of flight.
LEMMA PubRecErrorKeeps == ASSUME IInv, HandlePubRecError PROVE IInv'
<1> DEFINE p == Head(toServer).pid
           good == qos2[p] = "Published" /\ FrontIs(p)
<1>1. Reading("PUBREC_ERROR")
  BY DEF HandlePubRecError
<1>2. CASE ~good
  BY <1>1, <1>2, RejectKeeps DEF HandlePubRecError
<1>3. CASE good
  <2>1. /\ Accept /\ qos2' = Recorded(p) /\ inflight' = Tail(inflight)
        /\ UNCHANGED <<queue, permit, receiveMax, quota, nextPid, batch, toClient>>
    BY <1>3 DEF HandlePubRecError
  <2>2. inflight' \in Seq(InFlight) /\ Len(inflight') = Len(inflight) - 1
    BY <1>3, <2>1, FrontTyped DEF IInv, TypeOK
  <2>3. qos2' \in [PacketIds -> Qos2States]
    BY <2>1, RecordedTyped DEF IInv
  <2>4. TypeOK' /\ NetOK'
    BY <1>1, <2>1, <2>2, <2>3, ReadingFacts DEF IInv, TypeOK, NetOK, Accept, clientVars
  <2>5. WithinReceiveMax'
    <3>1. /\ Len(inflight) \in Nat /\ quota \in Int /\ receiveMax \in Int
      BY OutboundAssumption DEF IInv, TypeOK, OutboundAssumption
    <3> QED
      BY <1>1, <2>1, <2>2, <3>1, ReadingFacts DEF IInv, WithinReceiveMax
  <2>6. BatchPaid' /\ DownIsEmpty'
    BY <1>1, <2>1, ReadingFacts DEF IInv, BatchPaid, DownIsEmpty
  <2> QED
    BY <2>4, <2>5, <2>6 DEF IInv
<1> QED
  BY <1>2, <1>3

\* handle_pub_comp gives a credit back for a message that it took out of
\* flight.
LEMMA PubCompKeeps == ASSUME IInv, HandlePubComp PROVE IInv'
<1> DEFINE p == Head(toServer).pid
<1>1. Reading("PUBCOMP")
  BY DEF HandlePubComp
<1>2. CASE qos2[p] # "Recorded"
  BY <1>1, <1>2, RejectKeeps DEF HandlePubComp
<1>3. CASE qos2[p] = "Recorded"
  <2>1. /\ Accept /\ qos2' = [qos2 EXCEPT ![p] = "None"]
        /\ UNCHANGED <<permit, receiveMax, nextPid, toClient>>
    BY <1>3 DEF HandlePubComp
  <2>2. qos2' \in [PacketIds -> Qos2States]
    BY <2>1 DEF IInv, TypeOK, Qos2States
  <2>3. /\ inflight' \in Seq(InFlight) /\ quota' \in 0..(UsizeSize - 1)
        /\ queue' \in Seq(Messages) /\ batch' \in Seq(Messages)
        /\ BatchPaid' /\ WithinReceiveMax'
    <3>1. CASE FrontIs(p)
      <4>1. inflight' = Tail(inflight) /\ quota' = (quota + 1) % UsizeSize /\ TakeBatch(quota')
        BY <1>3, <3>1 DEF HandlePubComp, Refill
      <4>2. /\ inflight' \in Seq(InFlight) /\ quota' \in 0..(UsizeSize - 1)
            /\ WithinReceiveMax'
        BY <1>1, <2>1, <3>1, <4>1, CreditBack, ReadingFacts
      <4>3. quota' \in Nat
        BY <4>2, OutboundAssumption DEF OutboundAssumption
      <4>4. /\ queue' \in Seq(Messages) /\ batch' \in Seq(Messages) /\ Len(batch') <= quota'
        BY <4>1, <4>3, TakeBatchTyped DEF IInv, TypeOK
      <4> QED
        BY <4>2, <4>4 DEF BatchPaid
    <3>2. CASE ~FrontIs(p)
      <4>1. UNCHANGED <<inflight, quota, queue, batch>>
        BY <1>3, <3>2 DEF HandlePubComp
      <4> QED
        BY <1>1, <2>1, <4>1, ReadingFacts DEF IInv, TypeOK, BatchPaid, WithinReceiveMax
    <3> QED
      BY <3>1, <3>2
  <2>4. TypeOK' /\ NetOK'
    BY <1>1, <2>1, <2>2, <2>3, ReadingFacts DEF IInv, TypeOK, NetOK, Accept, clientVars
  <2>5. DownIsEmpty'
    BY <1>1, <2>1, ReadingFacts DEF DownIsEmpty, Accept
  <2> QED
    BY <2>3, <2>4, <2>5 DEF IInv
<1> QED
  BY <1>2, <1>3

-----------------------------------------------------------------------------
(* Losing the connection and coming back; the client.                      *)

\* The end of a connection leaves the session: queue and messages in flight
\* stay.
LEMMA DropKeeps == ASSUME IInv, Drop PROVE IInv'
<1>1. NetOK'
  BY DEF NetOK, Drop
<1>2. TypeOK'
  BY DEF IInv, TypeOK, Drop, sessionVars, clientVars, modelVars
<1>3. BatchPaid' /\ DownIsEmpty' /\ WithinReceiveMax'
  BY DEF IInv, BatchPaid, DownIsEmpty, WithinReceiveMax, Drop, Idle, sessionVars, modelVars
<1> QED
  BY <1>1, <1>2, <1>3 DEF IInv

\* A new connection sends again what is in flight, out of new credits.
LEMMA ReconnectKeeps == ASSUME IInv, NEW max \in ReceiveMaxes, Reconnect(max) PROVE IInv'
<1>1. /\ link = "down" /\ link' = "up" /\ receiveMax' = max /\ nextPid' = 1
      /\ quota' = (max - Len(inflight)) % UsizeSize
      /\ qos2' = NoQos2State /\ resent' = Len(inflight)
      /\ reconnects < MaxReconnects /\ reconnects' = reconnects + 1
      /\ toClient' = [i \in DOMAIN inflight |-> Publish(inflight[i].pid, inflight[i].msg)]
      /\ UNCHANGED <<sessionVars, batch, toServer, clientVars, arrived, qosOf, rejected>>
  BY DEF Reconnect, CreditsAfterResend
<1>2. /\ inflight \in Seq(InFlight) /\ Len(inflight) \in Nat
      /\ UsizeSize \in Nat /\ max \in 1..(UsizeSize - 1)
  BY OutboundAssumption DEF IInv, TypeOK, OutboundAssumption
<1>3. quota' \in 0..(UsizeSize - 1)
  <2>1. max - Len(inflight) \in Int
    BY <1>2
  <2> QED
    BY <1>1, <2>1, ModInRange
<1>4. /\ nextPid' \in PacketIds /\ qos2' \in [PacketIds -> Qos2States]
      /\ reconnects' \in 0..MaxReconnects
  BY <1>1, OutboundAssumption
  DEF IInv, TypeOK, PacketIds, NoQos2State, Qos2States, OutboundAssumption
<1>5. toClient' \in Seq(ToClientPacket)
  <2> DEFINE packet(i) == Publish(inflight[i].pid, inflight[i].msg)
  <2>1. ASSUME NEW i \in 1..Len(inflight) PROVE packet(i) \in ToClientPacket
    <3>1. inflight[i] \in InFlight
      BY <1>2
    <3> QED
      BY <3>1 DEF InFlight, Publish, ToClientPacket
  <2>2. toClient' = [i \in 1..Len(inflight) |-> packet(i)]
    BY <1>1, <1>2
  <2> HIDE DEF packet
  <2> QED
    BY <1>2, <2>1, <2>2
<1>6. TypeOK' /\ NetOK'
  BY <1>1, <1>2, <1>3, <1>4, <1>5 DEF IInv, TypeOK, NetOK, sessionVars, clientVars
<1>7. BatchPaid' /\ DownIsEmpty'
  BY <1>1, <1>3 DEF IInv, BatchPaid, DownIsEmpty
<1>8. ASSUME Len(inflight) <= max PROVE Len(inflight) + quota' <= max
  <2>1. max - Len(inflight) \in 0..(UsizeSize - 1)
    BY <1>2, <1>8
  <2>2. quota' = max - Len(inflight)
    BY <1>1, <2>1, ModSmall
  <2> QED
    BY <1>2, <2>2
<1>9. WithinReceiveMax'
  BY <1>1, <1>8 DEF WithinReceiveMax, sessionVars
<1> QED
  BY <1>6, <1>7, <1>9 DEF IInv

\* What the client takes from the connection is typed.
LEMMA ClientTakesFacts ==
  ASSUME IInv, NEW t, ClientTakes(t)
  PROVE  /\ toClient' \in Seq(ToClientPacket)
         /\ Head(toClient).pid \in PacketIds
         /\ t = "PUBLISH" => Head(toClient).msg \in Messages
         /\ UNCHANGED <<sessionVars, connVars, modelVars>>
<1>1. toClient \in Seq(ToClientPacket) /\ toClient # <<>> /\ Head(toClient).type = t
  BY DEF IInv, NetOK, ClientTakes
<1>2. Head(toClient) \in ToClientPacket /\ Tail(toClient) \in Seq(ToClientPacket)
  BY <1>1
<1>3. Head(toClient).pid \in PacketIds /\ (t = "PUBLISH" => Head(toClient).msg \in Messages)
  BY <1>1, <1>2 DEF ToClientPacket
<1> QED
  BY <1>2, <1>3 DEF ClientTakes

\* A step that only moves packets and the client's own state.
LEMMA ClientKeeps ==
  ASSUME IInv, UNCHANGED <<sessionVars, connVars, modelVars>>, NetOK',
         held' \subseteq PacketIds, received' \in Seq(Messages)
  PROVE  IInv'
<1>1. TypeOK'
  BY DEF IInv, TypeOK, sessionVars, connVars, modelVars
<1>2. BatchPaid' /\ DownIsEmpty' /\ WithinReceiveMax'
  BY DEF IInv, BatchPaid, DownIsEmpty, WithinReceiveMax, sessionVars, connVars, modelVars
<1> QED
  BY <1>1, <1>2 DEF IInv

\* What the client answers is a packet the handlers know.
LEMMA ReplyTyped ==
  ASSUME IInv, NEW p \in PacketIds, NEW t \in {"PUBACK", "PUBREC", "PUBREC_ERROR", "PUBCOMP"}
  PROVE  Append(toServer, Reply(t, p)) \in Seq(ToServerPacket)
<1>1. Reply(t, p) \in ToServerPacket
  BY DEF Reply, ToServerPacket
<1> QED
  BY <1>1 DEF IInv, NetOK

\* The client takes a PUBLISH and answers it.
LEMMA ClientReceivesKeeps == ASSUME IInv, ClientReceives PROVE IInv'
<1> DEFINE p == Head(toClient).pid
           m == Head(toClient).msg
<1>1. ClientTakes("PUBLISH")
  BY DEF ClientReceives
<1>2. /\ p \in PacketIds /\ m \in Messages /\ toClient' \in Seq(ToClientPacket)
      /\ UNCHANGED <<sessionVars, connVars, modelVars>>
  BY <1>1, ClientTakesFacts
<1>3. /\ held' \in {held, held \union {p}}
      /\ received' \in {received, Append(received, m)}
      /\ \/ toServer' = toServer
         \/ \E t \in {"PUBACK", "PUBREC", "PUBREC_ERROR", "PUBCOMP"} :
              toServer' = Append(toServer, Reply(t, p))
  BY DEF ClientReceives
<1>4. held' \subseteq PacketIds
  BY <1>2, <1>3 DEF IInv, TypeOK
<1>5. received' \in Seq(Messages)
  <2>1. received \in Seq(Messages)
    BY DEF IInv, TypeOK
  <2>2. Append(received, m) \in Seq(Messages)
    BY <1>2, <2>1
  <2> QED
    BY <1>3, <2>1, <2>2
<1>6. NetOK'
  BY <1>2, <1>3, ReplyTyped DEF IInv, NetOK
<1> QED
  BY <1>2, <1>4, <1>5, <1>6, ClientKeeps

\* The client takes a PUBREL and answers it.
LEMMA ClientReleasesKeeps == ASSUME IInv, ClientReleases PROVE IInv'
<1> DEFINE p == Head(toClient).pid
<1>1. PICK t : ClientTakes(t)
  BY DEF ClientReleases
<1>2. /\ p \in PacketIds /\ toClient' \in Seq(ToClientPacket)
      /\ UNCHANGED <<sessionVars, connVars, modelVars>>
  BY <1>1, ClientTakesFacts
<1>3. /\ held' = held \ {p} /\ received' = received
      /\ toServer' = Append(toServer, Reply("PUBCOMP", p))
  BY DEF ClientReleases
<1>4. NetOK'
  BY <1>2, <1>3, ReplyTyped DEF NetOK
<1>5. held' \subseteq PacketIds /\ received' \in Seq(Messages)
  BY <1>3 DEF IInv, TypeOK
<1> QED
  BY <1>2, <1>4, <1>5, ClientKeeps

-----------------------------------------------------------------------------
\* Every step of the storage, the task, the network and the client keeps the
\* invariant.
THEOREM NextIInv == IInv /\ [Next]_vars => IInv'
<1> SUFFICES ASSUME IInv, [Next]_vars PROVE IInv'
  OBVIOUS
<1>1. ASSUME NEW q \in QosLevels, AddMessage(q) PROVE IInv'
  BY <1>1, AddMessageKeeps
<1>2. CASE Server
  BY <1>2, HandleNotifiedKeeps, DeliveSendsKeeps, PubAckKeeps, PubRecKeeps, PubRecErrorKeeps,
     PubCompKeeps DEF Server
<1>3. CASE DeliveFails
  BY <1>3, DeliveFailsKeeps
<1>4. CASE Client
  BY <1>4, ClientReceivesKeeps, ClientReleasesKeeps DEF Client
<1>5. CASE Drop
  BY <1>5, DropKeeps
<1>6. ASSUME NEW max \in ReceiveMaxes, Reconnect(max) PROVE IInv'
  BY <1>6, ReconnectKeeps
<1>7. CASE UNCHANGED vars
  <2>1. UNCHANGED <<sessionVars, connVars, modelVars, clientVars, toClient, toServer>>
    BY <1>7 DEF vars, netVars
  <2> QED
    BY <2>1, ClientKeeps DEF IInv, TypeOK, NetOK, clientVars
<1> QED
  BY <1>1, <1>2, <1>3, <1>4, <1>5, <1>6, <1>7 DEF Next

\* The credits left and the packets in flight stay within the client's Receive
\* Maximum as long as no more than that was in flight when it connected
\* (delive, handle_pub_ack, handle_pub_comp, the resend of handle_connect).
THEOREM CreditsBounded == Spec => []WithinReceiveMax
<1>1. IInv => WithinReceiveMax
  BY DEF IInv
<1> QED
  BY <1>1, InitIInv, NextIInv, PTL DEF Spec

\* delive never spends a credit it does not have: the batch handle_notified
\* holds (assert!(msgs.len() <= self.receive_out_quota)) is paid for while it
\* goes out.
THEOREM BatchesPaid == Spec => []BatchPaid
<1>1. IInv => BatchPaid
  BY DEF IInv
<1> QED
  BY <1>1, InitIInv, NextIInv, PTL DEF Spec

\* Every variable of the session, the connection and the client keeps its type.
THEOREM TypeCorrect == Spec => []TypeOK
<1>1. IInv => TypeOK
  BY DEF IInv
<1> QED
  BY <1>1, InitIInv, NextIInv, PTL DEF Spec

-----------------------------------------------------------------------------
(* The first connection of a session: packet identifiers.                  *)

\* The identifier handed out d packets before p, for d in 1..MaxPacketId.
Behind(p, d) == IF d < p THEN p - d ELSE p - d + MaxPacketId

\* The last packets in flight, up to a round of the allocator, carry the
\* identifiers handed out last, in order.
Contiguous ==
  reconnects = 0 =>
    /\ resent = 0
    /\ \A i \in 1..Len(inflight) :
         Len(inflight) + 1 - i <= MaxPacketId =>
           inflight[i].pid = Behind(nextPid, Len(inflight) + 1 - i)

\* Identifiers handed out less than a round apart are different.
LEMMA BehindDistinct ==
  ASSUME NEW p \in PacketIds, NEW c \in 1..MaxPacketId, NEW d \in 1..MaxPacketId,
         Behind(p, c) = Behind(p, d)
  PROVE  c = d
  BY OutboundAssumption DEF Behind, PacketIds, OutboundAssumption

\* PacketIdAllocator::take puts every identifier one further behind.
LEMMA BehindNext ==
  ASSUME NEW p \in PacketIds, NEW d \in 1..MaxPacketId
  PROVE  /\ Behind(PidAfter(p), 1) = p
         /\ d < MaxPacketId => Behind(PidAfter(p), d + 1) = Behind(p, d)
  BY OutboundAssumption DEF Behind, PidAfter, PacketIds, OutboundAssumption

\* What a step does to the packets in flight: nothing, the front is taken off,
\* delive appends one, or the client comes back.
LEMMA FlightSteps ==
  ASSUME [Next]_vars
  PROVE  \/ \E max \in ReceiveMaxes : Reconnect(max)
         \/ /\ UNCHANGED <<reconnects, resent, receiveMax>>
            /\ \/ Delive
               \/ UNCHANGED <<inflight, nextPid>>
               \/ inflight # <<>> /\ inflight' = Tail(inflight) /\ nextPid' = nextPid
<1> DEFINE Same == UNCHANGED <<reconnects, resent, receiveMax, inflight, nextPid>>
<1>1. ASSUME \/ \E q \in QosLevels : AddMessage(q)
             \/ HandleNotified \/ HandlePubRec \/ Client \/ Drop \/ UNCHANGED vars
      PROVE  Same
  <2>1. CASE \E q \in QosLevels : AddMessage(q)
    BY <2>1 DEF AddMessage, connVars
  <2>2. CASE HandleNotified \/ Drop
    BY <2>2 DEF HandleNotified, Drop, modelVars, sessionVars
  <2>3. CASE HandlePubRec
    BY <2>3 DEF HandlePubRec, Reading, Reject, sessionVars
  <2>4. CASE Client
    BY <2>4 DEF Client, ClientReceives, ClientReleases, ClientTakes, sessionVars, connVars, modelVars
  <2>5. CASE UNCHANGED vars
    BY <2>5 DEF vars, sessionVars, connVars, modelVars
  <2> QED
    BY <1>1, <2>1, <2>2, <2>3, <2>4, <2>5
<1>2. ASSUME HandlePubAck \/ HandlePubRecError \/ HandlePubComp
      PROVE  /\ UNCHANGED <<reconnects, resent, receiveMax, nextPid>>
             /\ \/ inflight' = inflight
                \/ inflight # <<>> /\ inflight' = Tail(inflight)
  BY <1>2 DEF HandlePubAck, HandlePubRecError, HandlePubComp, Reading, Reject, FrontIs, sessionVars
<1>3. ASSUME DeliveSends \/ DeliveFails PROVE Delive /\ UNCHANGED <<reconnects, resent, receiveMax>>
  BY <1>3 DEF DeliveSends, DeliveFails, Delive
<1> QED
  BY <1>1, <1>2, <1>3 DEF Next, Server

\* Every step keeps the identifiers in flight those given out last.
LEMMA NextContiguous ==
  ASSUME IInv, Contiguous, [Next]_vars
  PROVE  Contiguous'
<1> DEFINE L == Len(inflight)
<1>1. CASE \E max \in ReceiveMaxes : Reconnect(max)
  BY <1>1 DEF Reconnect, Contiguous, IInv, TypeOK
<1>2. ASSUME reconnects' = reconnects, resent' = resent, reconnects = 0,
             \/ Delive
             \/ UNCHANGED <<inflight, nextPid>>
             \/ inflight # <<>> /\ inflight' = Tail(inflight) /\ nextPid' = nextPid
      PROVE  Contiguous'
  <2>1. /\ inflight \in Seq(InFlight) /\ L \in Nat /\ nextPid \in PacketIds
        /\ resent' = 0 /\ MaxPacketId \in Nat \ {0}
        /\ \A i \in 1..L : L + 1 - i <= MaxPacketId => inflight[i].pid = Behind(nextPid, L + 1 - i)
    BY <1>2, OutboundAssumption DEF IInv, TypeOK, Contiguous, OutboundAssumption
  <2>2. CASE UNCHANGED <<inflight, nextPid>>
    BY <2>1, <2>2 DEF Contiguous
  <2>3. CASE inflight # <<>> /\ inflight' = Tail(inflight) /\ nextPid' = nextPid
    <3>1. /\ Len(inflight') = L - 1
          /\ \A i \in 1..(L - 1) : inflight'[i] = inflight[i + 1]
      BY <2>1, <2>3
    <3> QED
      BY <2>1, <2>3, <3>1 DEF Contiguous
  <2>4. CASE Delive
    <3> DEFINE m == Head(batch)
    <3>1. CASE qosOf[m] = 0
      BY <2>1, <3>1, <2>4 DEF Delive, Contiguous
    <3>2. CASE qosOf[m] # 0
      <4>1. /\ inflight' = Append(inflight, [pid |-> nextPid, msg |-> m])
            /\ nextPid' = PidAfter(nextPid)
        BY <2>4, <3>2 DEF Delive
      <4>3. /\ Len(inflight') = L + 1
            /\ inflight'[L + 1].pid = nextPid
            /\ \A i \in 1..L : inflight'[i] = inflight[i]
        BY <2>1, <4>1
      <4>4. ASSUME NEW i \in 1..L, (L + 1) + 1 - i <= MaxPacketId
            PROVE  inflight'[i].pid = Behind(PidAfter(nextPid), (L + 1) + 1 - i)
        <5>2. L + 1 - i \in 1..MaxPacketId /\ L + 1 - i < MaxPacketId
          BY <2>1, <4>4
        <5>3. Behind(PidAfter(nextPid), (L + 1 - i) + 1) = Behind(nextPid, L + 1 - i)
          BY <2>1, <5>2, BehindNext
        <5>4. (L + 1 - i) + 1 = (L + 1) + 1 - i
          BY <2>1
        <5> QED
          BY <2>1, <4>3, <5>2, <5>3, <5>4
      <4>5. Behind(PidAfter(nextPid), 1) = nextPid
        <5>1. 1 \in 1..MaxPacketId
          BY OutboundAssumption DEF OutboundAssumption
        <5> QED
          BY <2>1, <5>1, BehindNext
      <4>6. ASSUME NEW i \in 1..(L + 1), (L + 1) + 1 - i <= MaxPacketId
            PROVE  inflight'[i].pid = Behind(nextPid', Len(inflight') + 1 - i)
        <5>1. CASE i = L + 1
          <6>1. (L + 1) + 1 - i = 1
            BY <2>1, <5>1
          <6> QED
            BY <4>1, <4>3, <4>5, <5>1, <6>1
        <5>2. CASE i \in 1..L
          BY <4>1, <4>3, <4>4, <4>6, <5>2
        <5> QED
          BY <2>1, <5>1, <5>2
      <4> QED
        BY <2>1, <4>3, <4>6 DEF Contiguous
    <3> QED
      BY <3>1, <3>2
  <2> QED
    BY <1>2, <2>2, <2>3, <2>4
<1> QED
  BY <1>1, <1>2, FlightSteps DEF Contiguous

\* The send quota keeps the packets in flight from outnumbering the identifiers
\* of a client whose Receive Maximum does not.
LEMMA QuotaWithinIds ==
  ASSUME IInv, Contiguous, reconnects = 0, IdsSuffice
  PROVE  Len(inflight) <= MaxPacketId
<1>1. /\ Len(inflight) \in Nat /\ receiveMax \in 1..(UsizeSize - 1) /\ quota \in Nat
      /\ resent = 0 /\ MaxPacketId \in Nat /\ UsizeSize \in Nat
  BY OutboundAssumption DEF IInv, TypeOK, Contiguous, OutboundAssumption
<1>2. Len(inflight) + quota <= receiveMax
  BY <1>1 DEF IInv, WithinReceiveMax
<1> QED
  BY <1>1, <1>2 DEF IdsSuffice

\* Contiguous identifiers are different when there are enough of them.
LEMMA ContiguousDistinct ==
  ASSUME IInv, Contiguous, reconnects = 0
  PROVE  PacketIdsDistinct
<1> SUFFICES ASSUME Len(inflight) <= MaxPacketId
             PROVE  \A i, j \in DOMAIN inflight : inflight[i].pid = inflight[j].pid => i = j
  BY DEF PacketIdsDistinct
<1>1. /\ inflight \in Seq(InFlight) /\ Len(inflight) \in Nat /\ nextPid \in PacketIds
      /\ DOMAIN inflight = 1..Len(inflight)
  BY DEF IInv, TypeOK
<1>2. ASSUME NEW i \in 1..Len(inflight), NEW j \in 1..Len(inflight),
             inflight[i].pid = inflight[j].pid
      PROVE  i = j
  <2>1. Len(inflight) + 1 - i \in 1..MaxPacketId /\ Len(inflight) + 1 - j \in 1..MaxPacketId
    BY <1>1, OutboundAssumption DEF OutboundAssumption
  <2>2. Behind(nextPid, Len(inflight) + 1 - i) = Behind(nextPid, Len(inflight) + 1 - j)
    BY <1>2, <2>1 DEF Contiguous
  <2>3. Len(inflight) + 1 - i = Len(inflight) + 1 - j
    BY <1>1, <2>2, <2>1, BehindDistinct
  <2> QED
    BY <1>1, <2>3
<1> QED
  BY <1>1, <1>2

\* On the first connection of a session no two packets in flight carry the same
\* identifier while there is one for each, however often the allocator wraps
\* around and whatever the client's Receive Maximum, none included; and there is
\* one for each if that Receive Maximum is a u16 (PacketIdAllocator::take does
\* not look at what is in flight; the send quota keeps it from catching up).
THEOREM FirstPacketIdsDistinct ==
  Spec => [](reconnects = 0 => /\ PacketIdsDistinct
                               /\ (IdsSuffice => Len(inflight) <= MaxPacketId))
<1>1. Init => Contiguous
  BY DEF Init, Contiguous
<1>2. IInv /\ Contiguous /\ [Next]_vars => (IInv /\ Contiguous)'
  BY NextIInv, NextContiguous
<1>3. IInv /\ Contiguous => (reconnects = 0 => /\ PacketIdsDistinct
                                              /\ (IdsSuffice => Len(inflight) <= MaxPacketId))
  BY ContiguousDistinct, QuotaWithinIds
<1> QED
  BY <1>1, <1>2, <1>3, InitIInv, PTL DEF Spec

-----------------------------------------------------------------------------
(* The first connection of a session: nothing is lost and nothing doubled. *)

Answer(p)  == p.type # "PUBLISH"
Counted(p) == Answer(p) \/ qosOf[p.msg] > 0
AtClient(p) == \E i \in 1..Len(toClient) : toClient[i] = p
AtServer(p) == \E i \in 1..Len(toServer) : toServer[i] = p
Got(m)      == \E i \in 1..Len(received) : received[i] = m

\* A packet of an exchange belongs to the packet in flight with its identifier:
\* a PUBLISH carries its message, the others say that the client has it.
HasEntry(p) ==
  \E r \in 1..Len(inflight) :
    /\ inflight[r].pid = p.pid
    /\ IF Answer(p) THEN Got(inflight[r].msg) ELSE p.msg = inflight[r].msg
Entries ==
  /\ \A p \in ToServerPacket : AtServer(p) => HasEntry(p)
  /\ \A p \in ToClientPacket : AtClient(p) /\ Counted(p) => HasEntry(p)

\* One packet at a time is under way for an identifier.
OnePacket ==
  /\ \A i, j \in 1..Len(toServer) : toServer[i].pid = toServer[j].pid => i = j
  /\ \A i, j \in 1..Len(toClient) :
       Counted(toClient[i]) /\ Counted(toClient[j]) /\ toClient[i].pid = toClient[j].pid => i = j
  /\ \A i \in 1..Len(toClient), j \in 1..Len(toServer) :
       Counted(toClient[i]) => toClient[i].pid # toServer[j].pid

\* The client keeps an identifier while its PUBREC or the PUBREL is under way.
HeldOpen ==
  link = "up" => \A p \in held : \/ AtServer(Reply("PUBREC", p))
                                 \/ AtClient(Reply("PUBREL", p))
                                 \/ AtClient(Reply("PUBREL_NOT_FOUND", p))

Increasing(s) == \A i, j \in 1..Len(s) : i < j => s[i] < s[j]
Below(s, t)   == \A i \in 1..Len(s), j \in 1..Len(t) : s[i] < t[j]
UpTo(s)       == \A i \in 1..Len(s) : s[i] <= arrived

\* Received, on the network, in the batch, in the queue: one line of messages
\* in the order they arrived.
SentInLine ==
  \A i \in 1..Len(toClient) : ~Answer(toClient[i]) =>
    /\ toClient[i].msg <= arrived
    /\ \A j \in 1..Len(toClient) : i < j /\ ~Answer(toClient[j]) => toClient[i].msg < toClient[j].msg
    /\ \A j \in 1..Len(received) : received[j] < toClient[i].msg
    /\ \A j \in 1..Len(batch) : toClient[i].msg < batch[j]
    /\ \A j \in 1..Len(queue) : toClient[i].msg < queue[j]
WaitRow ==
  /\ Increasing(batch) /\ Increasing(queue) /\ Below(batch, queue)
  /\ Below(received, batch) /\ Below(received, queue)
  /\ UpTo(received) /\ UpTo(batch) /\ UpTo(queue)
Line == Increasing(received) /\ WaitRow /\ SentInLine

DownQuiet == link = "down" => toClient = <<>> /\ toServer = <<>>

\* AtLeastOnce, by index.
InLine(n) == \/ \E i \in 1..Len(queue) : queue[i] = n
             \/ \E i \in 1..Len(batch) : batch[i] = n
             \/ \E r \in 1..Len(inflight) : inflight[r].msg = n
             \/ Got(n)
NothingLost == \A n \in Messages : n <= arrived /\ qosOf[n] > 0 => InLine(n)

-----------------------------------------------------------------------------
(* Sequences.                                                              *)

\* Tail and Head by index.
LEMMA TailIndex ==
  ASSUME NEW S, NEW s \in Seq(S), s # <<>>
  PROVE  /\ Len(s) \in Nat \ {0} /\ Head(s) = s[1] /\ Len(Tail(s)) = Len(s) - 1
         /\ \A i \in 1..(Len(s) - 1) : Tail(s)[i] = s[i + 1]
         /\ \A i \in 1..Len(s) : s[i] \in S
  OBVIOUS

\* Append by index.
LEMMA AppendIndex ==
  ASSUME NEW S, NEW s \in Seq(S), NEW x
  PROVE  /\ Len(s) \in Nat /\ Len(Append(s, x)) = Len(s) + 1
         /\ \A i \in 1..Len(s) : Append(s, x)[i] = s[i]
         /\ Append(s, x)[Len(s) + 1] = x
         /\ \A i \in 1..Len(s) : s[i] \in S
  OBVIOUS

\* next_messages cuts the queue in two.
LEMMA TakeBatchIndex ==
  ASSUME queue \in Seq(Messages), NEW q \in Nat, TakeBatch(q)
  PROVE  \E n \in 0..Len(queue) :
           /\ Len(batch') = n /\ Len(queue') = Len(queue) - n
           /\ \A i \in 1..n : batch'[i] = queue[i]
           /\ \A i \in 1..(Len(queue) - n) : queue'[i] = queue[n + i]
<1> DEFINE n == Lesser(q, Len(queue))
<1>1. n \in 0..Len(queue)
  BY DEF Lesser
<1>2. batch' = SubSeq(queue, 1, n) /\ queue' = SubSeq(queue, n + 1, Len(queue))
  BY DEF TakeBatch
<1> HIDE DEF n
<1> WITNESS n \in 0..Len(queue)
<1> QED
  BY <1>1, <1>2

-----------------------------------------------------------------------------
(* The line.                                                               *)

LineTypes ==
  /\ queue \in Seq(Messages) /\ batch \in Seq(Messages) /\ received \in Seq(Messages)
  /\ inflight \in Seq(InFlight)
  /\ toClient \in Seq(ToClientPacket) /\ toServer \in Seq(ToServerPacket)
  /\ arrived \in 0..MaxMessages

\* The types say what is needed of queues and packets here.
LEMMA IInvLineTypes == IInv => LineTypes
  BY DEF IInv, TypeOK, NetOK, LineTypes

\* Messages in the line are numbers.
LEMMA LineNumbers ==
  ASSUME LineTypes
  PROVE  /\ Len(queue) \in Nat /\ \A i \in 1..Len(queue) : queue[i] \in Int
         /\ Len(batch) \in Nat /\ \A i \in 1..Len(batch) : batch[i] \in Int
         /\ Len(received) \in Nat /\ \A i \in 1..Len(received) : received[i] \in Int
         /\ Len(toClient) \in Nat
         /\ \A i \in 1..Len(toClient) : ~Answer(toClient[i]) => toClient[i].msg \in Int
         /\ arrived \in Int
<1>1. Messages \subseteq Int /\ MaxMessages \in Int
  BY OutboundAssumption DEF Messages, OutboundAssumption
<1>2. arrived \in Int
  BY <1>1 DEF LineTypes
<1>3. ASSUME NEW s \in Seq(Messages) PROVE Len(s) \in Nat /\ \A i \in 1..Len(s) : s[i] \in Int
  <2>1. Len(s) \in Nat /\ \A i \in 1..Len(s) : s[i] \in Messages
    OBVIOUS
  <2>2. ASSUME NEW i \in 1..Len(s) PROVE s[i] \in Int
    <3>1. s[i] \in Messages
      BY <2>1
    <3> QED
      BY <1>1, <3>1
  <2> QED
    BY <2>1, <2>2
<1>4. ASSUME NEW i \in 1..Len(toClient), ~Answer(toClient[i]) PROVE toClient[i].msg \in Int
  <2>1. toClient[i] \in ToClientPacket
    BY DEF LineTypes
  <2>2. toClient[i].msg \in Messages
    BY <1>4, <2>1 DEF ToClientPacket, Answer
  <2> QED
    BY <1>1, <2>2
<1>5. Len(toClient) \in Nat
  BY DEF LineTypes
<1> QED
  BY <1>2, <1>3, <1>4, <1>5 DEF LineTypes

\* A new message is later than all others.
LEMMA ArrivalWait ==
  ASSUME LineTypes, WaitRow, arrived' = arrived + 1, queue' = Append(queue, arrived + 1),
         UNCHANGED <<batch, received>>
  PROVE  WaitRow'
<1>1. /\ Len(queue) \in Nat /\ Len(queue') = Len(queue) + 1
      /\ \A i \in 1..Len(queue) : queue'[i] = queue[i] /\ queue[i] \in Messages
      /\ queue'[Len(queue) + 1] = arrived + 1
  BY AppendIndex DEF LineTypes
<1>2. /\ \A i \in 1..Len(batch) : batch[i] \in Int
      /\ \A i \in 1..Len(received) : received[i] \in Int
      /\ arrived \in Int /\ \A i \in 1..Len(queue) : queue[i] \in Int
  BY LineNumbers
<1>3. UpTo(received)' /\ UpTo(batch)' /\ UpTo(queue)'
  BY <1>1, <1>2 DEF WaitRow, UpTo
<1>4. Increasing(queue)'
  BY <1>1, <1>2 DEF WaitRow, UpTo, Increasing
<1>5. Below(received, queue)' /\ Below(batch, queue)'
  BY <1>1, <1>2 DEF WaitRow, UpTo, Below
<1> QED
  BY <1>3, <1>4, <1>5 DEF WaitRow, Increasing, Below

\* A message that arrives goes to the end of the line.
LEMMA ArrivalLine ==
  ASSUME LineTypes, Line, arrived' = arrived + 1, queue' = Append(queue, arrived + 1),
         UNCHANGED <<batch, received, toClient>>
  PROVE  Line'
<1>1. /\ Len(queue) \in Nat /\ Len(queue') = Len(queue) + 1
      /\ \A i \in 1..Len(queue) : queue'[i] = queue[i]
      /\ queue'[Len(queue) + 1] = arrived + 1
  BY AppendIndex DEF LineTypes
<1>2. /\ arrived \in Int
      /\ \A i \in 1..Len(toClient) : ~Answer(toClient[i]) => toClient[i].msg \in Int
  BY LineNumbers
<1>3. SentInLine'
  BY <1>1, <1>2 DEF Line, SentInLine
<1>4. WaitRow'
  BY ArrivalWait DEF Line
<1> QED
  BY <1>3, <1>4 DEF Line, Increasing

\* The front of the queue becomes the batch.
LEMMA TakeWait ==
  ASSUME LineTypes, WaitRow, batch = <<>>, NEW q \in Nat, TakeBatch(q),
         UNCHANGED <<received, arrived>>
  PROVE  WaitRow'
<1>1. PICK n \in 0..Len(queue) :
        /\ Len(batch') = n /\ Len(queue') = Len(queue) - n
        /\ \A i \in 1..n : batch'[i] = queue[i]
        /\ \A i \in 1..(Len(queue) - n) : queue'[i] = queue[n + i]
  BY TakeBatchIndex DEF LineTypes
<1>2. Len(queue) \in Nat
  BY DEF LineTypes
<1>3. \A i \in 1..(Len(queue) - n) : n + i \in 1..Len(queue)
  BY <1>2
<1>4. Increasing(queue) /\ Below(received, queue)
  BY DEF WaitRow
<1>5. Increasing(batch)'
  BY <1>1, <1>2, <1>4 DEF Increasing
<1>6. Increasing(queue)'
  <2> SUFFICES ASSUME NEW i \in 1..Len(queue'), NEW j \in 1..Len(queue'), i < j
               PROVE  queue'[i] < queue'[j]
    BY DEF Increasing
  <2>1. n + i < n + j /\ n + i \in 1..Len(queue) /\ n + j \in 1..Len(queue)
    BY <1>1, <1>2, <1>3
  <2> QED
    BY <1>1, <1>4, <2>1 DEF Increasing
<1>7. Below(batch, queue)'
  <2> SUFFICES ASSUME NEW i \in 1..Len(batch'), NEW j \in 1..Len(queue')
               PROVE  batch'[i] < queue'[j]
    BY DEF Below
  <2>1. i < n + j /\ i \in 1..Len(queue) /\ n + j \in 1..Len(queue)
    BY <1>1, <1>2, <1>3
  <2> QED
    BY <1>1, <1>4, <2>1 DEF Increasing
<1>8. Below(received, batch)'
  <2> SUFFICES ASSUME NEW i \in 1..Len(received'), NEW j \in 1..Len(batch')
               PROVE  received'[i] < batch'[j]
    BY DEF Below
  <2>1. j \in 1..Len(queue) /\ batch'[j] = queue[j] /\ received' = received
    BY <1>1, <1>2
  <2> QED
    BY <1>4, <2>1 DEF Below
<1>9. Below(received, queue)'
  <2> SUFFICES ASSUME NEW i \in 1..Len(received'), NEW j \in 1..Len(queue')
               PROVE  received'[i] < queue'[j]
    BY DEF Below
  <2>1. n + j \in 1..Len(queue) /\ queue'[j] = queue[n + j] /\ received' = received
    BY <1>1, <1>2, <1>3
  <2> QED
    BY <1>4, <2>1 DEF Below
<1>10. UpTo(batch)' /\ UpTo(queue)'
  BY <1>1, <1>2 DEF WaitRow, UpTo
<1> QED
  BY <1>5, <1>6, <1>7, <1>8, <1>9, <1>10 DEF WaitRow, UpTo

\* A message older than the queue is older than the batch taken from it.
LEMMA TakeAbove ==
  ASSUME LineTypes, batch = <<>>, NEW q \in Nat, TakeBatch(q), NEW x,
         \A j \in 1..Len(queue) : x < queue[j]
  PROVE  /\ \A j \in 1..Len(batch') : x < batch'[j]
         /\ \A j \in 1..Len(queue') : x < queue'[j]
<1>1. PICK n \in 0..Len(queue) :
        /\ Len(batch') = n /\ Len(queue') = Len(queue) - n
        /\ \A i \in 1..n : batch'[i] = queue[i]
        /\ \A i \in 1..(Len(queue) - n) : queue'[i] = queue[n + i]
  BY TakeBatchIndex DEF LineTypes
<1>2. Len(queue) \in Nat
  BY DEF LineTypes
<1>3. \A i \in 1..(Len(queue) - n) : n + i \in 1..Len(queue)
  BY <1>2
<1>4. ASSUME NEW j \in 1..Len(batch') PROVE x < batch'[j]
  <2>1. j \in 1..Len(queue) /\ batch'[j] = queue[j]
    BY <1>1, <1>2
  <2> QED
    BY <2>1
<1>5. ASSUME NEW j \in 1..Len(queue') PROVE x < queue'[j]
  <2>1. n + j \in 1..Len(queue) /\ queue'[j] = queue[n + j]
    BY <1>1, <1>3
  <2> QED
    BY <2>1
<1> QED
  BY <1>4, <1>5

\* A batch taken off the queue leaves the line as it is.
LEMMA TakeLine ==
  ASSUME LineTypes, Line, batch = <<>>, NEW q \in Nat, TakeBatch(q),
         UNCHANGED <<received, toClient, arrived>>
  PROVE  Line'
<1>1. SentInLine'
  <2> SUFFICES ASSUME NEW i \in 1..Len(toClient), ~Answer(toClient[i])
               PROVE  /\ toClient[i].msg <= arrived
                      /\ \A j \in 1..Len(toClient) :
                           i < j /\ ~Answer(toClient[j]) => toClient[i].msg < toClient[j].msg
                      /\ \A j \in 1..Len(received) : received[j] < toClient[i].msg
                      /\ \A j \in 1..Len(batch') : toClient[i].msg < batch'[j]
                      /\ \A j \in 1..Len(queue') : toClient[i].msg < queue'[j]
    BY DEF SentInLine
  <2>1. PICK x : x = toClient[i].msg
    OBVIOUS
  <2>2. \A j \in 1..Len(queue) : x < queue[j]
    BY <2>1 DEF Line, SentInLine
  <2>3. /\ \A j \in 1..Len(batch') : x < batch'[j]
        /\ \A j \in 1..Len(queue') : x < queue'[j]
    BY <2>2, TakeAbove
  <2> QED
    BY <2>1, <2>3 DEF Line, SentInLine
<1>2. WaitRow'
  BY TakeWait DEF Line
<1> QED
  BY <1>1, <1>2 DEF Line, Increasing

\* A message goes out.
LEMMA SendWait ==
  ASSUME LineTypes, WaitRow, batch # <<>>, batch' = Tail(batch),
         UNCHANGED <<queue, received, arrived>>
  PROVE  WaitRow'
<1>1. /\ Len(batch) \in Nat \ {0} /\ Len(batch') = Len(batch) - 1
      /\ \A i \in 1..(Len(batch) - 1) : batch'[i] = batch[i + 1]
  BY TailIndex DEF LineTypes
<1>2. Increasing(batch)' /\ Below(batch, queue)' /\ Below(received, batch)' /\ UpTo(batch)'
  BY <1>1 DEF WaitRow, Increasing, Below, UpTo
<1> QED
  BY <1>2 DEF WaitRow, Increasing, Below, UpTo

\* A message sent goes from the batch to the wire, and keeps its place.
LEMMA SendLine ==
  ASSUME LineTypes, Line, batch # <<>>, batch' = Tail(batch), NEW p,
         toClient' = Append(toClient, Publish(p, Head(batch))),
         UNCHANGED <<queue, received, arrived>>
  PROVE  Line'
<1>1. /\ Len(batch) \in Nat \ {0} /\ Len(batch') = Len(batch) - 1
      /\ \A i \in 1..(Len(batch) - 1) : batch'[i] = batch[i + 1]
      /\ Head(batch) = batch[1]
  BY TailIndex DEF LineTypes
<1>2. /\ Len(toClient) \in Nat /\ Len(toClient') = Len(toClient) + 1
      /\ \A i \in 1..Len(toClient) : toClient'[i] = toClient[i]
      /\ toClient'[Len(toClient) + 1] = Publish(p, batch[1])
  BY <1>1, AppendIndex DEF LineTypes
<1>3. Publish(p, batch[1]).msg = batch[1]
  BY DEF Publish
<1>4. SentInLine'
  BY <1>1, <1>2, <1>3 DEF Line, WaitRow, SentInLine, Increasing, Below, UpTo
<1>5. WaitRow'
  BY SendWait DEF Line
<1> QED
  BY <1>4, <1>5 DEF Line, Increasing

\* A message reaches the application.
LEMMA ReceiveWait ==
  ASSUME LineTypes, WaitRow, NEW m, received' = Append(received, m), m <= arrived,
         \A j \in 1..Len(batch) : m < batch[j],
         \A j \in 1..Len(queue) : m < queue[j],
         UNCHANGED <<queue, batch, arrived>>
  PROVE  WaitRow'
<1>1. /\ Len(received) \in Nat /\ Len(received') = Len(received) + 1
      /\ \A i \in 1..Len(received) : received'[i] = received[i]
      /\ received'[Len(received) + 1] = m
  BY AppendIndex DEF LineTypes
<1>2. UpTo(received)'
  BY <1>1 DEF WaitRow, UpTo
<1>3. Below(received, batch)' /\ Below(received, queue)'
  BY <1>1 DEF WaitRow, Below
<1> QED
  BY <1>2, <1>3 DEF WaitRow, Increasing, Below, UpTo

\* A message received was the first on the wire.
LEMMA ReceiveLine ==
  ASSUME LineTypes, Line, toClient # <<>>, toClient' = Tail(toClient),
         Head(toClient).type = "PUBLISH", received' = Append(received, Head(toClient).msg),
         UNCHANGED <<queue, batch, arrived>>
  PROVE  Line'
<1>1. /\ Len(toClient) \in Nat \ {0} /\ Len(toClient') = Len(toClient) - 1
      /\ \A i \in 1..(Len(toClient) - 1) : toClient'[i] = toClient[i + 1]
      /\ Head(toClient) = toClient[1] /\ ~Answer(toClient[1])
  BY TailIndex DEF LineTypes, Answer
<1>2. /\ Len(received) \in Nat /\ Len(received') = Len(received) + 1
      /\ \A i \in 1..Len(received) : received'[i] = received[i]
      /\ received'[Len(received) + 1] = toClient[1].msg
  BY <1>1, AppendIndex DEF LineTypes
<1>3. PICK m : m = toClient[1].msg
  OBVIOUS
<1>4. /\ \A j \in 1..Len(received) : received[j] < m
      /\ \A j \in 1..Len(batch) : m < batch[j]
      /\ \A j \in 1..Len(queue) : m < queue[j]
      /\ m <= arrived /\ Increasing(received)
  BY <1>1, <1>3 DEF Line, SentInLine
<1>5. Increasing(received)'
  <2> SUFFICES ASSUME NEW i \in 1..Len(received'), NEW j \in 1..Len(received'), i < j
               PROVE  received'[i] < received'[j]
    BY DEF Increasing
  <2>1. i \in 1..Len(received)
    BY <1>2
  <2>2. CASE j \in 1..Len(received)
    BY <1>2, <1>4, <2>1, <2>2 DEF Increasing
  <2>3. CASE j = Len(received) + 1
    BY <1>2, <1>3, <1>4, <2>1, <2>3
  <2> QED
    BY <1>2, <2>2, <2>3
<1>6. WaitRow'
  <2>1. received' = Append(received, m)
    BY <1>1, <1>3
  <2> QED
    BY <1>4, <2>1, ReceiveWait DEF Line
<1>7. SentInLine'
  BY <1>1, <1>2 DEF Line, SentInLine
<1> QED
  BY <1>5, <1>6, <1>7 DEF Line

\* Packets other than PUBLISH come and go, or all packets go.
LEMMA AnswerLine ==
  ASSUME LineTypes, Line, UNCHANGED <<queue, batch, received, arrived>>,
         \/ toClient' = toClient
         \/ toClient' = <<>>
         \/ toClient # <<>> /\ toClient' = Tail(toClient)
         \/ \E t, p : t # "PUBLISH" /\ toClient' = Append(toClient, Reply(t, p))
  PROVE  Line'
<1>1. SentInLine'
  <2>1. CASE toClient' = toClient
    BY <2>1 DEF Line, SentInLine
  <2>2. CASE toClient' = <<>>
    BY <2>2 DEF SentInLine
  <2>3. CASE toClient # <<>> /\ toClient' = Tail(toClient)
    <3>1. /\ Len(toClient) \in Nat \ {0} /\ Len(toClient') = Len(toClient) - 1
          /\ \A i \in 1..(Len(toClient) - 1) : toClient'[i] = toClient[i + 1]
      BY <2>3, TailIndex DEF LineTypes
    <3>2. \A i \in 1..Len(toClient') : i + 1 \in 1..Len(toClient)
      BY <3>1
    <3> SUFFICES ASSUME NEW i \in 1..Len(toClient'), ~Answer(toClient'[i])
                 PROVE  /\ toClient'[i].msg <= arrived
                        /\ \A j \in 1..Len(toClient') :
                             i < j /\ ~Answer(toClient'[j]) => toClient'[i].msg < toClient'[j].msg
                        /\ \A j \in 1..Len(received) : received[j] < toClient'[i].msg
                        /\ \A j \in 1..Len(batch) : toClient'[i].msg < batch[j]
                        /\ \A j \in 1..Len(queue) : toClient'[i].msg < queue[j]
      BY DEF SentInLine
    <3>3. toClient'[i] = toClient[i + 1] /\ i + 1 \in 1..Len(toClient)
      BY <3>1, <3>2
    <3>4. ASSUME NEW j \in 1..Len(toClient'), i < j, ~Answer(toClient'[j])
          PROVE  toClient'[i].msg < toClient'[j].msg
      <4>1. toClient'[j] = toClient[j + 1] /\ j + 1 \in 1..Len(toClient) /\ i + 1 < j + 1
        BY <3>1, <3>2, <3>4
      <4> QED
        BY <3>3, <3>4, <4>1 DEF Line, SentInLine
    <3> QED
      BY <3>3, <3>4 DEF Line, SentInLine
  <2>4. ASSUME NEW t, NEW p, t # "PUBLISH", toClient' = Append(toClient, Reply(t, p))
        PROVE  SentInLine'
    <3>1. /\ Len(toClient) \in Nat /\ Len(toClient') = Len(toClient) + 1
          /\ \A i \in 1..Len(toClient) : toClient'[i] = toClient[i]
          /\ toClient'[Len(toClient) + 1] = Reply(t, p)
      BY <2>4, AppendIndex DEF LineTypes
    <3>2. Answer(toClient'[Len(toClient) + 1])
      BY <2>4, <3>1 DEF Answer, Reply
    <3>3. \A i \in 1..Len(toClient') : ~Answer(toClient'[i]) => i \in 1..Len(toClient)
      BY <3>1, <3>2
    <3> QED
      BY <3>1, <3>3 DEF Line, SentInLine
  <2> QED
    BY <2>1, <2>2, <2>3, <2>4
<1> QED
  BY <1>1 DEF Line, WaitRow, Increasing, Below, UpTo

-----------------------------------------------------------------------------
(* Packets on the network.                                                 *)

\* What is on its way to the client, after one packet more or less.
LEMMA ClientWire ==
  ASSUME LineTypes
  PROVE  /\ \A x : toClient' = Append(toClient, x) =>
              \A p : AtClient(p)' <=> AtClient(p) \/ p = x
         /\ toClient # <<>> /\ toClient' = Tail(toClient) =>
              /\ AtClient(toClient[1])
              /\ \A p : AtClient(p)' => AtClient(p)
              /\ \A p : AtClient(p) => p = toClient[1] \/ AtClient(p)'
<1>1. ASSUME NEW x, toClient' = Append(toClient, x), NEW p
      PROVE  AtClient(p)' <=> AtClient(p) \/ p = x
  <2>1. /\ Len(toClient) \in Nat /\ Len(toClient') = Len(toClient) + 1
        /\ \A i \in 1..Len(toClient) : toClient'[i] = toClient[i]
        /\ toClient'[Len(toClient) + 1] = x
    BY <1>1, AppendIndex DEF LineTypes
  <2> QED
    BY <2>1 DEF AtClient
<1>2. ASSUME toClient # <<>>, toClient' = Tail(toClient), NEW p
      PROVE  /\ AtClient(toClient[1])
             /\ AtClient(p)' => AtClient(p)
             /\ AtClient(p) => p = toClient[1] \/ AtClient(p)'
  <2>1. /\ Len(toClient) \in Nat \ {0} /\ Len(toClient') = Len(toClient) - 1
        /\ \A i \in 1..(Len(toClient) - 1) : toClient'[i] = toClient[i + 1]
    BY <1>2, TailIndex DEF LineTypes
  <2>2. \A i \in 1..Len(toClient) : i = 1 \/ (i - 1 \in 1..Len(toClient') /\ toClient'[i - 1] = toClient[i])
    BY <2>1
  <2>3. \A i \in 1..Len(toClient') : i + 1 \in 1..Len(toClient)
    BY <2>1
  <2> QED
    BY <2>1, <2>2, <2>3 DEF AtClient
<1> QED
  BY <1>1, <1>2

\* The same for what is on its way to the broker.
LEMMA ServerWire ==
  ASSUME LineTypes
  PROVE  /\ \A x : toServer' = Append(toServer, x) =>
              \A p : AtServer(p)' <=> AtServer(p) \/ p = x
         /\ toServer # <<>> /\ toServer' = Tail(toServer) =>
              /\ AtServer(toServer[1])
              /\ \A p : AtServer(p)' => AtServer(p)
              /\ \A p : AtServer(p) => p = toServer[1] \/ AtServer(p)'
<1>1. ASSUME NEW x, toServer' = Append(toServer, x), NEW p
      PROVE  AtServer(p)' <=> AtServer(p) \/ p = x
  <2>1. /\ Len(toServer) \in Nat /\ Len(toServer') = Len(toServer) + 1
        /\ \A i \in 1..Len(toServer) : toServer'[i] = toServer[i]
        /\ toServer'[Len(toServer) + 1] = x
    BY <1>1, AppendIndex DEF LineTypes
  <2> QED
    BY <2>1 DEF AtServer
<1>2. ASSUME toServer # <<>>, toServer' = Tail(toServer), NEW p
      PROVE  /\ AtServer(toServer[1])
             /\ AtServer(p)' => AtServer(p)
             /\ AtServer(p) => p = toServer[1] \/ AtServer(p)'
  <2>1. /\ Len(toServer) \in Nat \ {0} /\ Len(toServer') = Len(toServer) - 1
        /\ \A i \in 1..(Len(toServer) - 1) : toServer'[i] = toServer[i + 1]
    BY <1>2, TailIndex DEF LineTypes
  <2>2. \A i \in 1..Len(toServer) : i = 1 \/ (i - 1 \in 1..Len(toServer') /\ toServer'[i - 1] = toServer[i])
    BY <2>1
  <2>3. \A i \in 1..Len(toServer') : i + 1 \in 1..Len(toServer)
    BY <2>1
  <2> QED
    BY <2>1, <2>2, <2>3 DEF AtServer
<1> QED
  BY <1>1, <1>2

\* Packets on their way are packets.
LEMMA WireTyped ==
  ASSUME LineTypes
  PROVE  /\ \A i \in 1..Len(toClient) : toClient[i] \in ToClientPacket /\ AtClient(toClient[i])
         /\ \A i \in 1..Len(toServer) : /\ toServer[i] \in ToServerPacket /\ AtServer(toServer[i])
                                        /\ Answer(toServer[i])
         /\ Len(toClient) \in Nat /\ Len(toServer) \in Nat /\ Len(inflight) \in Nat
<1>1. ASSUME NEW i \in 1..Len(toServer)
      PROVE  toServer[i] \in ToServerPacket /\ Answer(toServer[i])
  <2>1. toServer[i] \in ToServerPacket
    BY DEF LineTypes
  <2> QED
    BY <2>1 DEF ToServerPacket, Answer
<1>2. \A i \in 1..Len(toClient) : toClient[i] \in ToClientPacket
  BY DEF LineTypes
<1> QED
  BY <1>1, <1>2 DEF LineTypes, AtClient, AtServer

-----------------------------------------------------------------------------
(* The exchanges, step by step.                                            *)

Exchange == Entries /\ OnePacket /\ HeldOpen /\ NothingLost
FirstInv == DownQuiet /\ (reconnects = 0 /\ IdsSuffice => Exchange /\ Line)

Distinct ==
  \A i, j \in 1..Len(inflight) : inflight[i].pid = inflight[j].pid => i = j

\* The packets in flight to a client that names a Receive Maximum.
LEMMA FirstDistinct ==
  ASSUME IInv, Contiguous, reconnects = 0, IdsSuffice
  PROVE  Distinct
<1>1. PacketIdsDistinct /\ Len(inflight) <= MaxPacketId
  BY ContiguousDistinct, QuotaWithinIds
<1>2. DOMAIN inflight = 1..Len(inflight)
  BY DEF IInv, TypeOK
<1> QED
  BY <1>1, <1>2 DEF PacketIdsDistinct, Distinct

\* A message that arrives goes to the back of the queue.
LEMMA ArrivalKept ==
  ASSUME LineTypes, NothingLost, NEW q,
         arrived' = arrived + 1, qosOf' = [qosOf EXCEPT ![arrived + 1] = q],
         qosOf \in [Messages -> 0..2],
         queue' = Append(queue, arrived + 1), UNCHANGED <<inflight, batch, received>>
  PROVE  NothingLost'
<1>1. \A n \in Messages : n <= arrived => qosOf'[n] = qosOf[n]
  BY LineNumbers, OutboundAssumption DEF Messages, OutboundAssumption
<1> SUFFICES ASSUME NEW n \in Messages, n <= arrived + 1, qosOf'[n] > 0 PROVE InLine(n)'
  BY DEF NothingLost
<1>2. /\ Len(queue) \in Nat /\ Len(queue') = Len(queue) + 1
      /\ \A i \in 1..Len(queue) : queue'[i] = queue[i]
      /\ queue'[Len(queue) + 1] = arrived + 1
  BY AppendIndex DEF LineTypes
<1>3. InLine(n) => InLine(n)'
  BY <1>2 DEF InLine, Got
<1>4. CASE n = arrived + 1
  BY <1>2, <1>4 DEF InLine
<1>5. CASE n <= arrived
  BY <1>1, <1>3, <1>5 DEF NothingLost
<1>6. n \in Int /\ arrived \in Int
  BY LineNumbers, OutboundAssumption DEF Messages, OutboundAssumption
<1> QED
  BY <1>4, <1>5, <1>6

\* Nothing that is under way has the QoS of a message yet to come.
LEMMA ArrivalExchange ==
  ASSUME LineTypes, Line, Exchange, NEW q,
         arrived' = arrived + 1, qosOf' = [qosOf EXCEPT ![arrived + 1] = q],
         qosOf \in [Messages -> 0..2],
         queue' = Append(queue, arrived + 1),
         UNCHANGED <<inflight, link, batch, toClient, toServer, held, received>>
  PROVE  Exchange'
<1>1. \A n \in Messages : n <= arrived => qosOf'[n] = qosOf[n]
  BY LineNumbers, OutboundAssumption DEF Messages, OutboundAssumption
<1>2. ASSUME NEW p \in ToClientPacket, AtClient(p) PROVE Counted(p)' <=> Counted(p)
  <2>1. CASE Answer(p)
    BY <2>1 DEF Counted
  <2>2. CASE ~Answer(p)
    <3>1. p.msg \in Messages /\ p.msg <= arrived
      BY <1>2, <2>2 DEF ToClientPacket, Answer, AtClient, Line, SentInLine
    <3> QED
      BY <1>1, <3>1 DEF Counted
  <2> QED
    BY <2>1, <2>2
<1>3. \A p : HasEntry(p)' <=> HasEntry(p)
  BY DEF HasEntry, Got
<1>4. Entries'
  BY <1>2, <1>3 DEF Exchange, Entries, AtClient, AtServer
<1>5. ASSUME NEW i \in 1..Len(toClient)
      PROVE  (Answer(toClient[i]) \/ qosOf'[toClient[i].msg] > 0) <=> Counted(toClient[i])
  BY <1>2, WireTyped DEF Counted
<1>6. OnePacket'
  BY <1>5 DEF Exchange, OnePacket, Counted
<1>7. HeldOpen'
  BY DEF Exchange, HeldOpen, AtClient, AtServer
<1>8. NothingLost'
  BY ArrivalKept DEF Exchange
<1> QED
  BY <1>4, <1>6, <1>7, <1>8 DEF Exchange

\* A message in the queue stays there or moves to the batch.
LEMMA TakeInLine ==
  ASSUME LineTypes, batch = <<>>, NEW q \in Nat, TakeBatch(q), NEW n,
         \E i \in 1..Len(queue) : queue[i] = n
  PROVE  InLine(n)'
<1>1. PICK k \in 0..Len(queue) :
        /\ Len(batch') = k /\ Len(queue') = Len(queue) - k
        /\ \A i \in 1..k : batch'[i] = queue[i]
        /\ \A i \in 1..(Len(queue) - k) : queue'[i] = queue[k + i]
  BY TakeBatchIndex DEF LineTypes
<1>2. PICK i \in 1..Len(queue) : queue[i] = n
  OBVIOUS
<1>3. Len(queue) \in Nat
  BY DEF LineTypes
<1>4. CASE i <= k
  BY <1>1, <1>2, <1>3, <1>4 DEF InLine
<1>5. CASE i > k
  <2>1. i - k \in 1..(Len(queue) - k) /\ k + (i - k) = i
    BY <1>3, <1>5
  <2> QED
    BY <1>1, <1>2, <2>1 DEF InLine
<1> QED
  BY <1>3, <1>4, <1>5

\* Taking a batch loses no message.
LEMMA TakeKept ==
  ASSUME LineTypes, NothingLost, batch = <<>>, NEW q \in Nat, TakeBatch(q),
         UNCHANGED <<inflight, received, arrived, qosOf>>
  PROVE  NothingLost'
<1>1. ASSUME NEW n, InLine(n) PROVE InLine(n)'
  <2>1. CASE \E i \in 1..Len(queue) : queue[i] = n
    BY <2>1, TakeInLine
  <2>2. CASE \/ \E r \in 1..Len(inflight) : inflight[r].msg = n
             \/ Got(n)
    BY <2>2 DEF InLine, Got
  <2>3. CASE \E i \in 1..Len(batch) : batch[i] = n
    BY <2>3
  <2> QED
    BY <1>1, <2>1, <2>2, <2>3 DEF InLine
<1> QED
  BY <1>1 DEF NothingLost

\* Taking a batch touches no exchange.
LEMMA TakeExchange ==
  ASSUME LineTypes, Exchange, batch = <<>>, NEW q \in Nat, TakeBatch(q),
         UNCHANGED <<inflight, link, toClient, toServer, held, received, arrived, qosOf>>
  PROVE  Exchange'
<1>1. Entries'
  BY DEF Exchange, Entries, AtClient, AtServer, HasEntry, Got, Counted
<1>2. OnePacket' /\ HeldOpen'
  BY DEF Exchange, OnePacket, HeldOpen, AtClient, AtServer, Counted
<1>3. NothingLost'
  BY TakeKept DEF Exchange
<1> QED
  BY <1>1, <1>2, <1>3 DEF Exchange

\* The connection ends: nothing is under way.
LEMMA ClearExchange ==
  ASSUME Exchange, toClient' = <<>>, toServer' = <<>>, link' = "down",
         UNCHANGED <<queue, batch, inflight, received, arrived, qosOf>>
  PROVE  Exchange'
<1>1. Entries' /\ OnePacket' /\ HeldOpen'
  BY DEF Entries, OnePacket, HeldOpen, AtClient, AtServer
<1>2. NothingLost'
  BY DEF Exchange, NothingLost, InLine, Got
<1> QED
  BY <1>1, <1>2 DEF Exchange

\* One packet at a time, when no QoS changes.
LEMMA OnePacketStep ==
  ASSUME qosOf' = qosOf,
         \A i, j \in 1..Len(toServer') : toServer'[i].pid = toServer'[j].pid => i = j,
         \A i, j \in 1..Len(toClient') :
           /\ Counted(toClient'[i]) /\ Counted(toClient'[j]) /\ toClient'[i].pid = toClient'[j].pid
           => i = j,
         \A i \in 1..Len(toClient'), j \in 1..Len(toServer') :
           Counted(toClient'[i]) => toClient'[i].pid # toServer'[j].pid
  PROVE  OnePacket'
<1>1. \A i \in 1..Len(toClient') :
        (Answer(toClient'[i]) \/ qosOf'[toClient'[i].msg] > 0) => Counted(toClient'[i])
  BY DEF Counted
<1>2. ASSUME NEW i \in 1..Len(toClient'), NEW j \in 1..Len(toClient'),
             Answer(toClient'[i]) \/ qosOf'[toClient'[i].msg] > 0,
             Answer(toClient'[j]) \/ qosOf'[toClient'[j].msg] > 0,
             toClient'[i].pid = toClient'[j].pid
      PROVE  i = j
  BY <1>1, <1>2
<1>3. ASSUME NEW i \in 1..Len(toClient'), NEW j \in 1..Len(toServer'),
             Answer(toClient'[i]) \/ qosOf'[toClient'[i].msg] > 0
      PROVE  toClient'[i].pid # toServer'[j].pid
  BY <1>1, <1>3
<1> QED
  BY <1>2, <1>3 DEF OnePacket, Counted

\* A QoS 1 or QoS 2 message that leaves the batch is in flight.
LEMMA SendKept ==
  ASSUME LineTypes, NothingLost, batch # <<>>, batch' = Tail(batch), NEW m, m = Head(batch),
         \A i \in 1..Len(inflight) : i \in 1..Len(inflight') /\ inflight'[i] = inflight[i],
         qosOf[m] # 0 => \E r \in 1..Len(inflight') : inflight'[r].msg = m,
         UNCHANGED <<queue, received, arrived, qosOf>>
  PROVE  NothingLost'
<1>1. /\ Len(batch) \in Nat \ {0} /\ Len(batch') = Len(batch) - 1
      /\ \A i \in 1..(Len(batch) - 1) : batch'[i] = batch[i + 1]
      /\ m = batch[1]
  BY TailIndex DEF LineTypes
<1>2. ASSUME NEW n, \E i \in 1..Len(batch) : batch[i] = n, n # m
      PROVE  \E i \in 1..Len(batch') : batch'[i] = n
  <2>1. PICK i \in 1..Len(batch) : batch[i] = n
    BY <1>2
  <2>2. i - 1 \in 1..Len(batch') /\ batch'[i - 1] = n
    BY <1>1, <1>2, <2>1
  <2> QED
    BY <2>2
<1>3. ASSUME NEW n, InLine(n), n # m PROVE InLine(n)'
  BY <1>2, <1>3 DEF InLine, Got
<1>4. qosOf[m] # 0 => InLine(m)'
  BY DEF InLine
<1>5. \A n \in Messages : qosOf[n] > 0 => qosOf[n] # 0
  OBVIOUS
<1> QED
  BY <1>3, <1>4, <1>5 DEF NothingLost

\* delive: a packet with an identifier that nothing in flight carries, or a
\* QoS 0 message, for which no answer is expected.
LEMMA SendExchange ==
  ASSUME LineTypes, Exchange, Distinct', batch # <<>>, batch' = Tail(batch),
         NEW p, NEW m, m = Head(batch), NEW x, x = Publish(p, m),
         toClient' = Append(toClient, x),
         \/ qosOf[m] = 0 /\ inflight' = inflight
         \/ inflight' = Append(inflight, [pid |-> p, msg |-> m]),
         qosOf \in [Messages -> 0..2],
         UNCHANGED <<queue, link, toServer, held, received, arrived, qosOf>>
  PROVE  Exchange'
<1> DEFINE T == Len(toClient)
           L == Len(inflight)
<1>1. /\ T \in Nat /\ Len(toClient') = T + 1
      /\ \A i \in 1..T : toClient'[i] = toClient[i]
      /\ toClient'[T + 1] = x
      /\ L \in Nat
  BY AppendIndex DEF LineTypes
<1>2. ~Answer(x) /\ x.pid = p /\ x.msg = m /\ m \in Messages
  BY DEF Answer, Publish, LineTypes
<1>3. \A i \in 1..L : i \in 1..Len(inflight') /\ inflight'[i] = inflight[i]
  <2>1. CASE inflight' = inflight
    BY <2>1
  <2>2. CASE inflight' = Append(inflight, [pid |-> p, msg |-> m])
    <3>1. Len(inflight') = L + 1 /\ \A i \in 1..L : inflight'[i] = inflight[i]
      BY <2>2, AppendIndex DEF LineTypes
    <3> QED
      BY <1>1, <3>1
  <2> QED
    BY <2>1, <2>2
<1>4. ASSUME qosOf[m] # 0
      PROVE  /\ L + 1 \in 1..Len(inflight') /\ inflight'[L + 1] = [pid |-> p, msg |-> m]
             /\ \A i \in 1..L : inflight[i].pid # p
  <2>1. inflight' = Append(inflight, [pid |-> p, msg |-> m])
    BY <1>4
  <2>2. Len(inflight') = L + 1 /\ inflight'[L + 1] = [pid |-> p, msg |-> m]
    BY <2>1, AppendIndex DEF LineTypes
  <2> QED
    BY <1>1, <1>3, <2>2 DEF Distinct
<1>5. \A y : HasEntry(y) => HasEntry(y)'
  BY <1>3 DEF HasEntry, Got
<1>6. \A y : Counted(y)' <=> Counted(y)
  BY DEF Counted
<1>7. Counted(x) => qosOf[m] # 0
  BY <1>2 DEF Counted
<1>8. Counted(x) => HasEntry(x)'
  BY <1>2, <1>4, <1>7 DEF HasEntry
<1>9. Entries'
  <2>1. \A y : AtClient(y)' <=> AtClient(y) \/ y = x
    BY ClientWire
  <2>2. \A y : AtServer(y)' <=> AtServer(y)
    BY DEF AtServer
  <2> QED
    BY <1>5, <1>6, <1>8, <2>1, <2>2 DEF Exchange, Entries
<1>10. ASSUME NEW y, HasEntry(y), Counted(x) PROVE y.pid # p
  BY <1>4, <1>7, <1>10 DEF HasEntry
<1>11. OnePacket'
  <2>1. \A i \in 1..T : Counted(toClient[i]) => HasEntry(toClient[i])
    BY WireTyped DEF Exchange, Entries
  <2>2. \A i \in 1..Len(toServer) : HasEntry(toServer[i])
    BY WireTyped DEF Exchange, Entries
  <2>3. ASSUME NEW i \in 1..Len(toClient'), Counted(toClient'[i]) PROVE i \in 1..T \/ (i = T + 1 /\ Counted(x))
    BY <1>1, <2>3
  <2>4. ASSUME NEW i \in 1..Len(toClient'), NEW j \in 1..Len(toClient'),
               Counted(toClient'[i]), Counted(toClient'[j]), toClient'[i].pid = toClient'[j].pid
        PROVE  i = j
    <3>1. CASE i \in 1..T /\ j \in 1..T
      BY <1>1, <2>4, <3>1 DEF Exchange, OnePacket
    <3>2. CASE i \in 1..T /\ j = T + 1
      BY <1>1, <1>2, <1>10, <2>1, <2>4, <3>2
    <3>3. CASE i = T + 1 /\ j \in 1..T
      BY <1>1, <1>2, <1>10, <2>1, <2>4, <3>3
    <3> QED
      BY <2>3, <2>4, <3>1, <3>2, <3>3
  <2>5. ASSUME NEW i \in 1..Len(toClient'), NEW j \in 1..Len(toServer'), Counted(toClient'[i])
        PROVE  toClient'[i].pid # toServer'[j].pid
    <3>1. CASE i \in 1..T
      BY <1>1, <2>5, <3>1 DEF Exchange, OnePacket
    <3>2. CASE i = T + 1
      BY <1>1, <1>2, <1>10, <2>2, <2>5, <3>2
    <3> QED
      BY <2>3, <2>5, <3>1, <3>2
  <2>6. \A i, j \in 1..Len(toServer') : toServer'[i].pid = toServer'[j].pid => i = j
    BY DEF Exchange, OnePacket
  <2>7. \A i, j \in 1..Len(toClient') :
          /\ Counted(toClient'[i]) /\ Counted(toClient'[j]) /\ toClient'[i].pid = toClient'[j].pid
          => i = j
    BY <2>4
  <2>8. \A i \in 1..Len(toClient'), j \in 1..Len(toServer') :
          Counted(toClient'[i]) => toClient'[i].pid # toServer'[j].pid
    BY <2>5
  <2>9. qosOf' = qosOf
    OBVIOUS
  <2> QED
    BY <2>6, <2>7, <2>8, <2>9, OnePacketStep
<1>12. HeldOpen'
  <2>1. \A y : AtClient(y) => AtClient(y)'
    BY ClientWire
  <2> QED
    BY <2>1 DEF Exchange, HeldOpen, AtServer
<1>13. NothingLost'
  BY <1>3, <1>4, SendKept DEF Exchange
<1> QED
  BY <1>9, <1>11, <1>12, <1>13 DEF Exchange

\* Packet c leaves toServer: no other packet under way has its identifier.
LEMMA ServerApart ==
  ASSUME LineTypes, OnePacket, toServer # <<>>, toServer' = Tail(toServer),
         NEW c, c = toServer[1]
  PROVE  /\ \A i \in 1..Len(toServer') :
              /\ i + 1 \in 1..Len(toServer) /\ toServer'[i] = toServer[i + 1]
              /\ toServer'[i].pid # c.pid
         /\ \A y : AtServer(y)' => y.pid # c.pid
         /\ \A i \in 1..Len(toClient) : Counted(toClient[i]) => toClient[i].pid # c.pid
         /\ \A y : AtClient(y) /\ Counted(y) => y.pid # c.pid
<1>1. /\ Len(toServer) \in Nat \ {0} /\ Len(toServer') = Len(toServer) - 1
      /\ \A i \in 1..(Len(toServer) - 1) : toServer'[i] = toServer[i + 1]
  BY TailIndex DEF LineTypes
<1>2. ASSUME NEW i \in 1..Len(toServer')
      PROVE  /\ i + 1 \in 1..Len(toServer) /\ toServer'[i] = toServer[i + 1]
             /\ toServer'[i].pid # c.pid
  <2>1. i + 1 \in 1..Len(toServer) /\ toServer'[i] = toServer[i + 1] /\ i + 1 # 1 /\ 1 \in 1..Len(toServer)
    BY <1>1
  <2> QED
    BY <2>1 DEF OnePacket
<1>3. \A i \in 1..Len(toClient) : Counted(toClient[i]) => toClient[i].pid # c.pid
  BY <1>1 DEF OnePacket
<1> QED
  BY <1>2, <1>3 DEF AtServer, AtClient

\* The server reads an acknowledgement that asks for no answer: it takes the
\* packet off the front of those in flight, or it leaves them alone.
LEMMA AcknowledgeExchange ==
  ASSUME LineTypes, Exchange, Distinct, toServer # <<>>, toServer' = Tail(toServer),
         NEW c, c = toServer[1], c.type # "PUBREC",
         \/ inflight' = inflight
         \/ inflight # <<>> /\ inflight[1].pid = c.pid /\ inflight' = Tail(inflight),
         \/ UNCHANGED <<queue, batch>>
         \/ batch = <<>> /\ \E q \in Nat : TakeBatch(q),
         UNCHANGED <<link, toClient, held, received, arrived, qosOf>>
  PROVE  Exchange'
<1> DEFINE L == Len(inflight)
<1>1. /\ \A i \in 1..Len(toServer') :
           /\ i + 1 \in 1..Len(toServer) /\ toServer'[i] = toServer[i + 1]
           /\ toServer'[i].pid # c.pid
      /\ \A y : AtServer(y)' => y.pid # c.pid
      /\ \A i \in 1..Len(toClient) : Counted(toClient[i]) => toClient[i].pid # c.pid
      /\ \A y : AtClient(y) /\ Counted(y) => y.pid # c.pid
  BY ServerApart DEF Exchange
<1>2. /\ AtServer(c)
      /\ \A p : AtServer(p)' => AtServer(p)
      /\ \A p : AtServer(p) => p = c \/ AtServer(p)'
  BY ServerWire
<1>3. L \in Nat
  BY DEF LineTypes
<1>4. ASSUME NEW r \in 1..L
      PROVE  \/ \E k \in 1..Len(inflight') : inflight'[k] = inflight[r]
             \/ inflight[r].pid = c.pid /\ r = 1 /\ inflight[1].pid = c.pid
  <2>1. CASE inflight' = inflight
    BY <2>1
  <2>2. CASE inflight # <<>> /\ inflight[1].pid = c.pid /\ inflight' = Tail(inflight)
    <3>1. Len(inflight') = L - 1 /\ \A i \in 1..(L - 1) : inflight'[i] = inflight[i + 1]
      BY <2>2, TailIndex DEF LineTypes
    <3>2. CASE r = 1
      BY <2>2, <3>2
    <3>3. CASE r # 1
      <4>1. r - 1 \in 1..Len(inflight') /\ inflight'[r - 1] = inflight[r]
        BY <1>3, <3>1, <3>3
      <4> QED
        BY <4>1
    <3> QED
      BY <3>2, <3>3
  <2> QED
    BY <2>1, <2>2
<1>5. ASSUME NEW y, HasEntry(y), y.pid # c.pid PROVE HasEntry(y)'
  <2>1. PICK r \in 1..L : /\ inflight[r].pid = y.pid
                          /\ IF Answer(y) THEN Got(inflight[r].msg) ELSE y.msg = inflight[r].msg
    BY <1>5 DEF HasEntry
  <2>2. PICK k \in 1..Len(inflight') : inflight'[k] = inflight[r]
    BY <1>4, <1>5, <2>1
  <2>3. /\ inflight'[k].pid = y.pid
        /\ IF Answer(y) THEN Got(inflight'[k].msg) ELSE y.msg = inflight'[k].msg
    BY <2>1, <2>2
  <2> QED
    BY <2>3 DEF HasEntry, Got
<1>6. \A y : Counted(y)' <=> Counted(y)
  BY DEF Counted
<1>7. \A y : AtClient(y)' <=> AtClient(y)
  BY DEF AtClient
<1>8. Entries'
  BY <1>1, <1>2, <1>5, <1>6, <1>7 DEF Exchange, Entries
<1>9. OnePacket'
  <2>1. \A i, j \in 1..Len(toServer') : toServer'[i].pid = toServer'[j].pid => i = j
    <3> SUFFICES ASSUME NEW i \in 1..Len(toServer'), NEW j \in 1..Len(toServer'),
                        toServer'[i].pid = toServer'[j].pid
                 PROVE  i = j
      OBVIOUS
    <3>1. i + 1 = j + 1
      BY <1>1 DEF Exchange, OnePacket
    <3> QED
      BY <3>1
  <2>2. \A i, j \in 1..Len(toClient') :
           Counted(toClient'[i]) /\ Counted(toClient'[j]) /\ toClient'[i].pid = toClient'[j].pid
           => i = j
    BY DEF Exchange, OnePacket
  <2>3. \A i \in 1..Len(toClient'), j \in 1..Len(toServer') :
           Counted(toClient'[i]) => toClient'[i].pid # toServer'[j].pid
    BY <1>1 DEF Exchange, OnePacket
  <2> QED
    BY <2>1, <2>2, <2>3, OnePacketStep
<1>10. HeldOpen'
  <2>1. ASSUME NEW p, AtServer(Reply("PUBREC", p)) PROVE AtServer(Reply("PUBREC", p))'
    <3>1. Reply("PUBREC", p) # c
      BY DEF Reply
    <3> QED
      BY <1>2, <2>1, <3>1
  <2> QED
    BY <1>7, <2>1 DEF Exchange, HeldOpen
<1>11. ASSUME NEW n, InLine(n) PROVE InLine(n)'
  <2>1. CASE \E i \in 1..Len(queue) : queue[i] = n
    <3>1. CASE UNCHANGED <<queue, batch>>
      BY <2>1, <3>1 DEF InLine
    <3>2. CASE batch = <<>> /\ \E q \in Nat : TakeBatch(q)
      BY <2>1, <3>2, TakeInLine
    <3> QED
      BY <3>1, <3>2
  <2>2. CASE \E i \in 1..Len(batch) : batch[i] = n
    BY <2>2 DEF InLine
  <2>3. CASE Got(n)
    BY <2>3 DEF InLine, Got
  <2>4. CASE \E r \in 1..L : inflight[r].msg = n
    <3>1. PICK r \in 1..L : inflight[r].msg = n
      BY <2>4
    <3>2. CASE \E k \in 1..Len(inflight') : inflight'[k] = inflight[r]
      BY <3>1, <3>2 DEF InLine
    <3>3. CASE inflight[r].pid = c.pid
      <4>1. c \in ToServerPacket /\ Answer(c)
        <5>1. 1 \in 1..Len(toServer)
          BY TailIndex DEF LineTypes
        <5> QED
          BY <5>1, WireTyped
      <4>2. PICK k \in 1..L : inflight[k].pid = c.pid /\ Got(inflight[k].msg)
        BY <1>2, <4>1 DEF Exchange, Entries, HasEntry
      <4>3. k = r
        BY <3>3, <4>2 DEF Distinct
      <4> QED
        BY <3>1, <4>2, <4>3 DEF InLine, Got
    <3> QED
      BY <1>4, <3>2, <3>3
  <2> QED
    BY <1>11, <2>1, <2>2, <2>3, <2>4 DEF InLine
<1>12. NothingLost'
  BY <1>11 DEF Exchange, NothingLost
<1> QED
  BY <1>8, <1>9, <1>10, <1>12 DEF Exchange

\* The server answers a PUBREC: x takes the place of c.
LEMMA RecordExchange ==
  ASSUME LineTypes, Exchange, toServer # <<>>, toServer' = Tail(toServer),
         NEW c, c = toServer[1], c.type = "PUBREC",
         NEW t \in {"PUBREL", "PUBREL_NOT_FOUND"}, NEW x, x = Reply(t, c.pid),
         toClient' = Append(toClient, x),
         UNCHANGED <<queue, batch, inflight, link, held, received, arrived, qosOf>>
  PROVE  Exchange'
<1> DEFINE T == Len(toClient)
<1>1. /\ \A i \in 1..Len(toServer') :
           /\ i + 1 \in 1..Len(toServer) /\ toServer'[i] = toServer[i + 1]
           /\ toServer'[i].pid # c.pid
      /\ \A y : AtServer(y)' => y.pid # c.pid
      /\ \A i \in 1..Len(toClient) : Counted(toClient[i]) => toClient[i].pid # c.pid
      /\ \A y : AtClient(y) /\ Counted(y) => y.pid # c.pid
  BY ServerApart DEF Exchange
<1>2. /\ AtServer(c)
      /\ \A p : AtServer(p)' => AtServer(p)
      /\ \A p : AtServer(p) => p = c \/ AtServer(p)'
  BY ServerWire
<1>3. \A p : AtClient(p)' <=> AtClient(p) \/ p = x
  BY ClientWire
<1>4. /\ T \in Nat /\ Len(toClient') = T + 1
      /\ \A i \in 1..T : toClient'[i] = toClient[i]
      /\ toClient'[T + 1] = x
  BY AppendIndex DEF LineTypes
<1>5. Answer(x) /\ x.pid = c.pid
  BY DEF Answer, Reply
<1>6. c \in ToServerPacket /\ Answer(c)
  <2>1. 1 \in 1..Len(toServer)
    BY TailIndex DEF LineTypes
  <2> QED
    BY <2>1, WireTyped
<1>7. \A y : HasEntry(y)' <=> HasEntry(y)
  BY DEF HasEntry, Got
<1>8. HasEntry(x)
  BY <1>2, <1>5, <1>6 DEF Exchange, Entries, HasEntry
<1>9. \A y : Counted(y)' <=> Counted(y)
  BY DEF Counted
<1>10. Entries'
  BY <1>2, <1>3, <1>7, <1>8, <1>9 DEF Exchange, Entries
<1>11. OnePacket'
  <2>1. \A i, j \in 1..Len(toServer') : toServer'[i].pid = toServer'[j].pid => i = j
    <3> SUFFICES ASSUME NEW i \in 1..Len(toServer'), NEW j \in 1..Len(toServer'),
                        toServer'[i].pid = toServer'[j].pid
                 PROVE  i = j
      OBVIOUS
    <3>1. i + 1 = j + 1
      BY <1>1 DEF Exchange, OnePacket
    <3> QED
      BY <3>1
  <2>2. ASSUME NEW i \in 1..Len(toClient'), NEW j \in 1..Len(toClient'),
               Counted(toClient'[i]), Counted(toClient'[j]), toClient'[i].pid = toClient'[j].pid
        PROVE  i = j
    <3>1. CASE i \in 1..T /\ j \in 1..T
      BY <1>4, <2>2, <3>1 DEF Exchange, OnePacket
    <3>2. CASE i \in 1..T /\ j = T + 1
      BY <1>1, <1>4, <1>5, <2>2, <3>2
    <3>3. CASE i = T + 1 /\ j \in 1..T
      BY <1>1, <1>4, <1>5, <2>2, <3>3
    <3> QED
      BY <1>4, <3>1, <3>2, <3>3
  <2>3. ASSUME NEW i \in 1..Len(toClient'), NEW j \in 1..Len(toServer'), Counted(toClient'[i])
        PROVE  toClient'[i].pid # toServer'[j].pid
    <3>1. CASE i \in 1..T
      BY <1>1, <1>4, <2>3, <3>1 DEF Exchange, OnePacket
    <3>2. CASE i = T + 1
      <4>1. toClient'[i].pid = c.pid
        BY <1>4, <1>5, <3>2
      <4>2. toServer'[j].pid # c.pid
        BY <1>1
      <4> QED
        BY <4>1, <4>2
    <3> QED
      BY <1>4, <3>1, <3>2
  <2> QED
    BY <2>1, <2>2, <2>3, OnePacketStep
<1>12. HeldOpen'
  <2>1. ASSUME NEW p, AtServer(Reply("PUBREC", p))
        PROVE  AtServer(Reply("PUBREC", p))' \/ AtClient(Reply(t, p))'
    <3>1. CASE Reply("PUBREC", p) = c
      <4>1. Reply(t, p) = x
        BY <3>1 DEF Reply
      <4> QED
        BY <1>3, <4>1
    <3>2. CASE Reply("PUBREC", p) # c
      BY <1>2, <2>1, <3>2
    <3> QED
      BY <3>1, <3>2
  <2> QED
    BY <1>3, <2>1 DEF Exchange, HeldOpen
<1>13. NothingLost'
  BY DEF Exchange, NothingLost, InLine, Got
<1> QED
  BY <1>10, <1>11, <1>12, <1>13 DEF Exchange

\* Packet c leaves toClient.
LEMMA ClientApart ==
  ASSUME LineTypes, OnePacket, toClient # <<>>, toClient' = Tail(toClient),
         NEW c, c = toClient[1]
  PROVE  /\ \A i \in 1..Len(toClient') :
              /\ i + 1 \in 1..Len(toClient) /\ toClient'[i] = toClient[i + 1]
              /\ Counted(toClient'[i]) /\ Counted(c) => toClient'[i].pid # c.pid
         /\ \A y : AtClient(y)' /\ Counted(y) /\ Counted(c) => y.pid # c.pid
         /\ \A i \in 1..Len(toServer) : Counted(c) => toServer[i].pid # c.pid
         /\ \A y : AtServer(y) /\ Counted(c) => y.pid # c.pid
<1>1. /\ Len(toClient) \in Nat \ {0} /\ Len(toClient') = Len(toClient) - 1
      /\ \A i \in 1..(Len(toClient) - 1) : toClient'[i] = toClient[i + 1]
  BY TailIndex DEF LineTypes
<1>2. ASSUME NEW i \in 1..Len(toClient')
      PROVE  /\ i + 1 \in 1..Len(toClient) /\ toClient'[i] = toClient[i + 1]
             /\ Counted(toClient'[i]) /\ Counted(c) => toClient'[i].pid # c.pid
  <2>1. i + 1 \in 1..Len(toClient) /\ toClient'[i] = toClient[i + 1] /\ i + 1 # 1 /\ 1 \in 1..Len(toClient)
    BY <1>1
  <2> QED
    BY <2>1 DEF OnePacket
<1>3. \A i \in 1..Len(toServer) : Counted(c) => toServer[i].pid # c.pid
  BY <1>1 DEF OnePacket
<1>4. ASSUME NEW y, AtClient(y)', Counted(y), Counted(c) PROVE y.pid # c.pid
  <2>1. PICK i \in 1..Len(toClient') : toClient'[i] = y
    BY <1>4 DEF AtClient
  <2> QED
    BY <1>2, <1>4, <2>1
<1> QED
  BY <1>2, <1>3, <1>4 DEF AtServer

\* The client does not hold the identifier of a PUBLISH that comes in.
LEMMA NewAtClient ==
  ASSUME LineTypes, Exchange, DownQuiet, link \in {"up", "down"}, toClient # <<>>,
         NEW c, c = toClient[1], c.type = "PUBLISH", qosOf[c.msg] > 0
  PROVE  c.pid \notin held
<1>1. link = "up"
  BY DEF DownQuiet
<1>2. AtClient(c) /\ Counted(c) /\ 1 \in 1..Len(toClient)
  <2>1. 1 \in 1..Len(toClient)
    BY TailIndex DEF LineTypes
  <2> QED
    BY <2>1 DEF AtClient, Counted
<1>3. ~AtServer(Reply("PUBREC", c.pid))
  <2>1. Reply("PUBREC", c.pid).pid = c.pid
    BY DEF Reply
  <2> QED
    BY <1>2, <2>1 DEF Exchange, OnePacket, AtServer
<1>4. ASSUME NEW t \in {"PUBREL", "PUBREL_NOT_FOUND"} PROVE ~AtClient(Reply(t, c.pid))
  <2> SUFFICES ASSUME NEW i \in 1..Len(toClient), toClient[i] = Reply(t, c.pid) PROVE FALSE
    BY DEF AtClient
  <2>1. toClient[i].pid = c.pid /\ toClient[i].type # "PUBLISH"
    BY DEF Reply
  <2>2. Counted(toClient[i])
    BY <2>1 DEF Counted, Answer
  <2>3. i = 1
    BY <1>2, <2>1, <2>2 DEF Exchange, OnePacket
  <2> QED
    BY <2>1, <2>3
<1> QED
  BY <1>1, <1>3, <1>4 DEF Exchange, HeldOpen

\* The client takes a QoS 0 message.
LEMMA ReadExchange ==
  ASSUME LineTypes, Exchange, toClient # <<>>, toClient' = Tail(toClient),
         NEW c, c = toClient[1], ~Counted(c), received' = Append(received, c.msg),
         UNCHANGED <<queue, batch, inflight, link, toServer, held, arrived, qosOf>>
  PROVE  Exchange'
<1>1. /\ AtClient(c)
      /\ \A p : AtClient(p)' => AtClient(p)
      /\ \A p : AtClient(p) => p = c \/ AtClient(p)'
  BY ClientWire
<1>2. \A n : Got(n) => Got(n)'
  <2>1. /\ Len(received) \in Nat /\ Len(received') = Len(received) + 1
        /\ \A i \in 1..Len(received) : received'[i] = received[i]
    BY AppendIndex, WireTyped DEF LineTypes
  <2> QED
    BY <2>1 DEF Got
<1>3. \A y : HasEntry(y) => HasEntry(y)'
  BY <1>2 DEF HasEntry
<1>4. \A y : Counted(y)' <=> Counted(y)
  BY DEF Counted
<1>5. \A y : AtServer(y)' <=> AtServer(y)
  BY DEF AtServer
<1>6. Entries'
  BY <1>1, <1>3, <1>4, <1>5 DEF Exchange, Entries
<1>7. \A i \in 1..Len(toClient') : i + 1 \in 1..Len(toClient) /\ toClient'[i] = toClient[i + 1]
  BY ClientApart DEF Exchange
<1>8. OnePacket'
  <2>1. ASSUME NEW i \in 1..Len(toClient'), NEW j \in 1..Len(toClient'),
               Counted(toClient'[i]), Counted(toClient'[j]), toClient'[i].pid = toClient'[j].pid
        PROVE  i = j
    <3>1. i + 1 = j + 1
      BY <1>7, <2>1 DEF Exchange, OnePacket
    <3> QED
      BY <3>1
  <2>2. \A i \in 1..Len(toClient'), j \in 1..Len(toServer') :
          Counted(toClient'[i]) => toClient'[i].pid # toServer'[j].pid
    BY <1>7 DEF Exchange, OnePacket
  <2>3. \A i, j \in 1..Len(toServer') : toServer'[i].pid = toServer'[j].pid => i = j
    BY DEF Exchange, OnePacket
  <2> QED
    BY <2>1, <2>2, <2>3, OnePacketStep
<1>9. HeldOpen'
  <2>1. ASSUME NEW p, NEW t \in {"PUBREL", "PUBREL_NOT_FOUND"}, AtClient(Reply(t, p))
        PROVE  AtClient(Reply(t, p))'
    <3>1. Reply(t, p) # c
      BY DEF Counted, Answer, Reply
    <3> QED
      BY <1>1, <2>1, <3>1
  <2> QED
    BY <1>5, <2>1 DEF Exchange, HeldOpen
<1>10. NothingLost'
  BY <1>2 DEF Exchange, NothingLost, InLine
<1> QED
  BY <1>6, <1>8, <1>9, <1>10 DEF Exchange

\* The client answers packet c with y: a PUBLISH when it has handed the message
\* on, a PUBREL at once.
LEMMA AnswerExchange ==
  ASSUME LineTypes, Exchange, toClient # <<>>, toClient' = Tail(toClient),
         NEW c, c = toClient[1], Counted(c),
         NEW t, NEW y, y = Reply(t, c.pid), t # "PUBLISH", toServer' = Append(toServer, y),
         IF Answer(c) THEN received' = received ELSE received' = Append(received, c.msg),
         held' \subseteq held \union {c.pid},
         c.pid \in held' => t = "PUBREC",
         UNCHANGED <<queue, batch, inflight, link, arrived, qosOf>>
  PROVE  Exchange'
<1> DEFINE S == Len(toServer)
<1>1. /\ \A i \in 1..Len(toClient') :
           /\ i + 1 \in 1..Len(toClient) /\ toClient'[i] = toClient[i + 1]
           /\ Counted(toClient'[i]) => toClient'[i].pid # c.pid
      /\ \A p : AtClient(p)' /\ Counted(p) => p.pid # c.pid
      /\ \A i \in 1..S : toServer[i].pid # c.pid
      /\ \A p : AtServer(p) => p.pid # c.pid
  BY ClientApart DEF Exchange
<1>2. /\ AtClient(c)
      /\ \A p : AtClient(p)' => AtClient(p)
      /\ \A p : AtClient(p) => p = c \/ AtClient(p)'
  BY ClientWire
<1>3. \A p : AtServer(p)' <=> AtServer(p) \/ p = y
  BY ServerWire
<1>4. /\ S \in Nat /\ Len(toServer') = S + 1
      /\ \A i \in 1..S : toServer'[i] = toServer[i]
      /\ toServer'[S + 1] = y
  BY AppendIndex DEF LineTypes
<1>5. Answer(y) /\ y.pid = c.pid
  BY DEF Answer, Reply
<1>6. c \in ToClientPacket
  <2>1. 1 \in 1..Len(toClient)
    BY TailIndex DEF LineTypes
  <2> QED
    BY <2>1, WireTyped
<1>7. (\A n : Got(n) => Got(n)') /\ (~Answer(c) => Got(c.msg)')
  <2>1. CASE Answer(c)
    BY <2>1 DEF Got
  <2>2. CASE ~Answer(c)
    <3>1. /\ Len(received) \in Nat /\ Len(received') = Len(received) + 1
          /\ \A i \in 1..Len(received) : received'[i] = received[i]
          /\ received'[Len(received) + 1] = c.msg
      <4>1. received' = Append(received, c.msg) /\ received \in Seq(Messages)
        BY <2>2 DEF LineTypes
      <4> QED
        BY <4>1, AppendIndex
    <3> QED
      BY <3>1 DEF Got
  <2> QED
    BY <2>1, <2>2
<1>8. \A p : HasEntry(p) => HasEntry(p)'
  BY <1>7 DEF HasEntry
<1>9. HasEntry(y)'
  <2>1. PICK r \in 1..Len(inflight) :
          /\ inflight[r].pid = c.pid
          /\ IF Answer(c) THEN Got(inflight[r].msg) ELSE c.msg = inflight[r].msg
    BY <1>2, <1>6 DEF Exchange, Entries, HasEntry
  <2>2. Got(inflight[r].msg)'
    BY <1>7, <2>1
  <2> QED
    BY <1>5, <2>1, <2>2 DEF HasEntry
<1>10. \A p : Counted(p)' <=> Counted(p)
  BY DEF Counted
<1>11. Entries'
  BY <1>2, <1>3, <1>8, <1>9, <1>10 DEF Exchange, Entries
<1>12. OnePacket'
  <2>1. ASSUME NEW i \in 1..Len(toServer'), NEW j \in 1..Len(toServer'), toServer'[i].pid = toServer'[j].pid
        PROVE  i = j
    <3>1. CASE i \in 1..S /\ j \in 1..S
      BY <1>4, <2>1, <3>1 DEF Exchange, OnePacket
    <3>2. CASE i \in 1..S /\ j = S + 1
      BY <1>1, <1>4, <1>5, <2>1, <3>2
    <3>3. CASE i = S + 1 /\ j \in 1..S
      BY <1>1, <1>4, <1>5, <2>1, <3>3
    <3> QED
      BY <1>4, <3>1, <3>2, <3>3
  <2>2. ASSUME NEW i \in 1..Len(toClient'), NEW j \in 1..Len(toClient'),
               Counted(toClient'[i]), Counted(toClient'[j]), toClient'[i].pid = toClient'[j].pid
        PROVE  i = j
    <3>1. i + 1 = j + 1
      BY <1>1, <2>2 DEF Exchange, OnePacket
    <3> QED
      BY <3>1
  <2>3. ASSUME NEW i \in 1..Len(toClient'), NEW j \in 1..Len(toServer'), Counted(toClient'[i])
        PROVE  toClient'[i].pid # toServer'[j].pid
    <3>1. CASE j \in 1..S
      BY <1>1, <1>4, <2>3, <3>1 DEF Exchange, OnePacket
    <3>2. CASE j = S + 1
      BY <1>1, <1>4, <1>5, <2>3, <3>2
    <3> QED
      BY <1>4, <3>1, <3>2
  <2> QED
    BY <2>1, <2>2, <2>3, OnePacketStep
<1>13. HeldOpen'
  <2> SUFFICES ASSUME link = "up", NEW p \in held'
               PROVE  \/ AtServer(Reply("PUBREC", p))'
                      \/ AtClient(Reply("PUBREL", p))'
                      \/ AtClient(Reply("PUBREL_NOT_FOUND", p))'
    BY DEF HeldOpen
  <2>1. CASE p = c.pid
    BY <1>3, <2>1
  <2>2. CASE p # c.pid
    <3>1. p \in held
      BY <2>2
    <3>2. \A u : Reply(u, p) # c
      BY <2>2 DEF Reply
    <3> QED
      BY <1>2, <1>3, <3>1, <3>2 DEF Exchange, HeldOpen
  <2> QED
    BY <2>1, <2>2
<1>14. NothingLost'
  BY <1>7 DEF Exchange, NothingLost, InLine
<1> QED
  BY <1>11, <1>12, <1>13, <1>14 DEF Exchange

-----------------------------------------------------------------------------
(* The first connection, step by step.                                     *)

\* Nothing is under way on a connection that is lost.
LEMMA NextQuiet ==
  ASSUME IInv, DownQuiet, [Next]_vars
  PROVE  DownQuiet'
<1> USE DEF DownQuiet
<1>1. CASE \E q \in QosLevels : AddMessage(q)
  BY <1>1 DEF AddMessage, connVars, netVars
<1>2. CASE HandleNotified
  BY <1>2 DEF HandleNotified, netVars, Idle
<1>3. CASE DeliveSends
  BY <1>3 DEF DeliveSends, Delive, IInv, DownIsEmpty
<1>4. CASE DeliveFails
  BY <1>4 DEF DeliveFails
<1>5. CASE HandlePubAck \/ HandlePubRec \/ HandlePubRecError \/ HandlePubComp
  <2>1. link = "up"
    BY <1>5 DEF HandlePubAck, HandlePubRec, HandlePubRecError, HandlePubComp, Reading, Idle
  <2>2. link' = link \/ (toClient' = <<>> /\ toServer' = <<>>)
    BY <1>5 DEF HandlePubAck, HandlePubRec, HandlePubRecError, HandlePubComp, Accept, Reject
  <2> QED
    BY <2>1, <2>2
<1>6. CASE Client
  BY <1>6 DEF Client, ClientReceives, ClientReleases, ClientTakes, connVars
<1>7. CASE Drop
  BY <1>7 DEF Drop
<1>8. CASE \E max \in ReceiveMaxes : Reconnect(max)
  BY <1>8 DEF Reconnect
<1>9. CASE UNCHANGED vars
  BY <1>9 DEF vars, connVars, netVars
<1> QED
  BY <1>1, <1>2, <1>3, <1>4, <1>5, <1>6, <1>7, <1>8, <1>9 DEF Next, Server

\* The connection ends.
LEMMA EndFirst ==
  ASSUME LineTypes, Exchange, Line, toClient' = <<>>, toServer' = <<>>, link' = "down",
         UNCHANGED <<queue, batch, inflight, received, arrived, qosOf>>
  PROVE  (Exchange /\ Line)'
  BY ClearExchange, AnswerLine

\* delive begins an exchange for an identifier that has none.
LEMMA DeliverFirst ==
  ASSUME IInv, Exchange, Line, Distinct', DeliveSends
  PROVE  (Exchange /\ Line)'
<1>1. /\ batch # <<>> /\ batch' = Tail(batch)
      /\ toClient' = Append(toClient, Publish(nextPid, Head(batch)))
      /\ \/ qosOf[Head(batch)] = 0 /\ inflight' = inflight
         \/ inflight' = Append(inflight, [pid |-> nextPid, msg |-> Head(batch)])
      /\ UNCHANGED <<queue, link, toServer, held, received, arrived, qosOf>>
  BY DEF DeliveSends, Delive, clientVars
<1>2. LineTypes /\ qosOf \in [Messages -> 0..2]
  BY IInvLineTypes DEF IInv, TypeOK
<1>3. PICK p, m, x : p = nextPid /\ m = Head(batch) /\ x = Publish(p, m)
  OBVIOUS
<1>4. Exchange'
  BY <1>1, <1>2, <1>3, SendExchange
<1>5. Line'
  BY <1>1, <1>2, <1>3, SendLine
<1> QED
  BY <1>4, <1>5

\* The last packet of an exchange ends it.
LEMMA AcknowledgeFirst ==
  ASSUME IInv, Exchange, Line, Distinct,
         HandlePubAck \/ HandlePubRecError \/ HandlePubComp
  PROVE  (Exchange /\ Line)'
<1>1. LineTypes
  BY IInvLineTypes
<1>2. PICK c : c = toServer[1]
  OBVIOUS
<1>3. /\ link = "up" /\ batch = <<>> /\ toServer # <<>> /\ c.type # "PUBREC"
      /\ UNCHANGED <<held, received, arrived, qosOf>>
  BY <1>2 DEF HandlePubAck, HandlePubRecError, HandlePubComp, Reading, Idle, clientVars
<1>4. CASE Reject
  BY <1>1, <1>3, <1>4, EndFirst DEF Reject, sessionVars
<1>5. ASSUME ~Reject
      PROVE  /\ toServer' = Tail(toServer) /\ UNCHANGED <<link, toClient>>
             /\ \/ inflight' = inflight
                \/ inflight # <<>> /\ inflight[1].pid = c.pid /\ inflight' = Tail(inflight)
             /\ \/ UNCHANGED <<queue, batch>>
                \/ TakeBatch(quota') /\ quota' \in Nat
  <2>1. CASE HandlePubAck \/ HandlePubRecError
    BY <1>2, <1>5, <2>1 DEF HandlePubAck, HandlePubRecError, Accept, FrontIs
  <2>2. CASE HandlePubComp
    <3>1. (quota + 1) % UsizeSize \in Nat
      <4>1. quota + 1 \in Int /\ UsizeSize \in Nat
        BY OutboundAssumption DEF IInv, TypeOK, OutboundAssumption
      <4> QED
        BY <4>1, ModInRange
    <3> QED
      BY <1>2, <1>5, <2>2, <3>1 DEF HandlePubComp, Accept, FrontIs, Refill
  <2> QED
    BY <2>1, <2>2
<1>6. ASSUME ~Reject PROVE Exchange'
  <2>1. UNCHANGED <<queue, batch>> \/ (batch = <<>> /\ \E q \in Nat : TakeBatch(q))
    BY <1>3, <1>5, <1>6
  <2> QED
    BY <1>1, <1>2, <1>3, <1>5, <1>6, <2>1, AcknowledgeExchange
<1>7. ASSUME ~Reject PROVE Line'
  <2>1. CASE UNCHANGED <<queue, batch>>
    BY <1>1, <1>3, <1>5, <1>7, <2>1, AnswerLine
  <2>2. CASE \E q \in Nat : TakeBatch(q)
    <3>1. PICK q \in Nat : TakeBatch(q)
      BY <2>2
    <3> QED
      BY <1>1, <1>3, <1>5, <1>7, <3>1, TakeLine
  <2> QED
    BY <1>5, <1>7, <2>1, <2>2
<1> QED
  BY <1>4, <1>6, <1>7

\* handle_pub_rec takes an exchange to its second half.
LEMMA RecordFirst ==
  ASSUME IInv, Exchange, Line, HandlePubRec
  PROVE  (Exchange /\ Line)'
<1>1. LineTypes
  BY IInvLineTypes
<1>2. PICK c : c = toServer[1]
  OBVIOUS
<1>3. /\ toServer # <<>> /\ c.type = "PUBREC"
      /\ UNCHANGED <<held, received, arrived, qosOf>>
  BY <1>2 DEF HandlePubRec, Reading, clientVars
<1>4. CASE Reject
  BY <1>1, <1>3, <1>4, EndFirst DEF Reject, sessionVars
<1>5. ASSUME ~Reject
      PROVE  /\ toServer' = Tail(toServer)
             /\ \E t \in {"PUBREL", "PUBREL_NOT_FOUND"} :
                  toClient' = Append(toClient, Reply(t, c.pid))
             /\ UNCHANGED <<queue, batch, inflight, link>>
  BY <1>2, <1>5 DEF HandlePubRec, Accept, sessionVars
<1>6. ASSUME ~Reject PROVE Exchange' /\ Line'
  <2>1. PICK t \in {"PUBREL", "PUBREL_NOT_FOUND"} : toClient' = Append(toClient, Reply(t, c.pid))
    BY <1>5, <1>6
  <2>2. PICK x : x = Reply(t, c.pid)
    OBVIOUS
  <2>3. Exchange'
    BY <1>1, <1>2, <1>3, <1>5, <1>6, <2>1, <2>2, RecordExchange
  <2>4. \E u, p : u # "PUBLISH" /\ toClient' = Append(toClient, Reply(u, p))
    BY <2>1
  <2> QED
    BY <1>1, <1>3, <1>5, <1>6, <2>3, <2>4, AnswerLine
<1> QED
  BY <1>4, <1>6

\* The client moves an exchange on.
LEMMA ClientFirst ==
  ASSUME IInv, DownQuiet, Exchange, Line, Client
  PROVE  (Exchange /\ Line)'
<1>1. LineTypes /\ link \in {"up", "down"}
  BY IInvLineTypes DEF IInv, TypeOK
<1>2. PICK c : c = toClient[1]
  OBVIOUS
<1>3. /\ toClient # <<>> /\ toClient' = Tail(toClient) /\ Head(toClient) = c
      /\ UNCHANGED <<queue, batch, inflight, link, arrived, qosOf>>
  BY <1>2 DEF Client, ClientReceives, ClientReleases, ClientTakes, sessionVars, connVars, modelVars
<1>4. CASE ClientReceives
  <2>1. c.type = "PUBLISH" /\ ~Answer(c)
    BY <1>3, <1>4 DEF ClientReceives, ClientTakes, Answer
  <2>2. CASE qosOf[c.msg] = 0 /\ received' = Append(received, c.msg) /\ UNCHANGED <<held, toServer>>
    <3>1. ~Counted(c)
      BY <2>1, <2>2 DEF Counted
    <3>2. Exchange'
      BY <1>1, <1>2, <1>3, <2>2, <3>1, ReadExchange
    <3>3. Line'
      BY <1>1, <1>3, <2>1, <2>2, ReceiveLine
    <3> QED
      BY <3>2, <3>3
  <2>3. ASSUME qosOf[c.msg] > 0
        PROVE  Exchange' /\ Line'
    <3>1. c.pid \notin held
      BY <1>1, <1>2, <1>3, <2>1, <2>3, NewAtClient
    <3>2. Counted(c)
      BY <2>3 DEF Counted
    <3>3. PICK t \in {"PUBACK", "PUBREC", "PUBREC_ERROR"} :
            /\ toServer' = Append(toServer, Reply(t, c.pid))
            /\ held' = IF t = "PUBREC" THEN held \union {c.pid} ELSE held
            /\ received' = Append(received, c.msg)
      BY <1>3, <1>4, <2>3, <3>1 DEF ClientReceives
    <3>4. PICK y : y = Reply(t, c.pid)
      OBVIOUS
    <3>5. held' \subseteq held \union {c.pid} /\ (c.pid \in held' => t = "PUBREC") /\ t # "PUBLISH"
      BY <3>1, <3>3
    <3>6. Exchange'
      BY <1>1, <1>2, <1>3, <2>1, <3>2, <3>3, <3>4, <3>5, AnswerExchange
    <3>7. Line'
      BY <1>1, <1>3, <2>1, <3>3, ReceiveLine
    <3> QED
      BY <3>6, <3>7
  <2>4. qosOf[c.msg] > 0 \/
          (qosOf[c.msg] = 0 /\ received' = Append(received, c.msg) /\ UNCHANGED <<held, toServer>>)
    BY <1>3, <1>4 DEF ClientReceives
  <2> QED
    BY <2>2, <2>3, <2>4
<1>5. CASE ClientReleases
  <2>1. Answer(c) /\ Counted(c)
    BY <1>3, <1>5 DEF ClientReleases, ClientTakes, Answer, Counted
  <2>2. PICK t, y : t = "PUBCOMP" /\ y = Reply(t, c.pid)
    OBVIOUS
  <2>3. /\ toServer' = Append(toServer, y) /\ t # "PUBLISH"
        /\ held' \subseteq held \union {c.pid} /\ c.pid \notin held'
        /\ received' = received
    BY <1>3, <1>5, <2>2 DEF ClientReleases
  <2>4. Exchange'
    BY <1>1, <1>2, <1>3, <2>1, <2>2, <2>3, AnswerExchange
  <2>5. Line'
    BY <1>1, <1>3, <2>3, AnswerLine
  <2> QED
    BY <2>4, <2>5
<1> QED
  BY <1>4, <1>5 DEF Client

\* Every step keeps the invariant of the first connection.
LEMMA NextFirst ==
  ASSUME ~MaySendFail, IInv, Contiguous, FirstInv, [Next]_vars
  PROVE  FirstInv'
<1>1. DownQuiet'
  BY NextQuiet DEF FirstInv
<1>2. ASSUME reconnects' = 0, IdsSuffice' PROVE (Exchange /\ Line)'
  <2>1. CASE \E max \in ReceiveMaxes : Reconnect(max)
    BY <1>2, <2>1 DEF Reconnect, IInv, TypeOK
  <2>2. ASSUME reconnects' = reconnects, receiveMax' = receiveMax PROVE (Exchange /\ Line)'
    <3>1. reconnects = 0 /\ IdsSuffice /\ DownQuiet /\ Exchange /\ Line /\ LineTypes
          /\ qosOf \in [Messages -> 0..2]
      BY <1>2, <2>2, IInvLineTypes DEF FirstInv, IInv, TypeOK, IdsSuffice
    <3>2. IInv' /\ Contiguous'
      BY NextIInv, NextContiguous
    <3>4. Distinct
      BY <3>1, FirstDistinct
    <3>5. Distinct'
      <4>1. (IInv /\ Contiguous /\ reconnects = 0 /\ IdsSuffice => Distinct)'
        BY FirstDistinct, PTL
      <4> QED
        BY <1>2, <3>2, <4>1
    <3>6. CASE \E q \in QosLevels : AddMessage(q)
      <4>1. PICK q \in QosLevels : AddMessage(q)
        BY <3>6
      <4>2. /\ arrived' = arrived + 1 /\ qosOf' = [qosOf EXCEPT ![arrived + 1] = q]
            /\ queue' = Append(queue, arrived + 1)
            /\ UNCHANGED <<inflight, link, batch, toClient, toServer, held, received>>
        BY <4>1 DEF AddMessage, connVars, netVars, clientVars
      <4> QED
        BY <3>1, <4>2, ArrivalExchange, ArrivalLine
    <3>7. CASE HandleNotified
      <4>1. /\ batch = <<>> /\ TakeBatch(quota)
            /\ UNCHANGED <<inflight, link, toClient, toServer, held, received, arrived, qosOf>>
        BY <3>7 DEF HandleNotified, Idle, netVars, clientVars, modelVars
      <4>2. quota \in Nat
        BY OutboundAssumption DEF IInv, TypeOK, OutboundAssumption
      <4> QED
        BY <3>1, <4>1, <4>2, TakeExchange, TakeLine
    <3>8. CASE DeliveSends
      BY <3>1, <3>5, <3>8, DeliverFirst
    <3>9. CASE HandlePubAck \/ HandlePubRecError \/ HandlePubComp
      BY <3>1, <3>4, <3>9, AcknowledgeFirst
    <3>10. CASE HandlePubRec
      BY <3>1, <3>10, RecordFirst
    <3>11. CASE DeliveFails
      BY <3>11 DEF DeliveFails
    <3>12. CASE Client
      BY <3>1, <3>12, ClientFirst
    <3>13. CASE Drop
      BY <3>1, <3>13, EndFirst DEF Drop, sessionVars, clientVars, modelVars
    <3>14. CASE UNCHANGED vars
      BY <3>1, <3>14
      DEF vars, sessionVars, connVars, netVars, clientVars, modelVars, Exchange, Entries,
          OnePacket, HeldOpen, NothingLost, Line, WaitRow, SentInLine, Increasing, Below, UpTo, HasEntry,
          AtClient, AtServer, Got, InLine, Counted
    <3> QED
      BY <2>1, <3>6, <3>7, <3>8, <3>9, <3>10, <3>11, <3>12, <3>13, <3>14, <1>2 DEF Next, Server
  <2>3. UNCHANGED <<reconnects, receiveMax>> \/ \E max \in ReceiveMaxes : Reconnect(max)
    BY FlightSteps
  <2> QED
    BY <2>1, <2>2, <2>3
<1> QED
  BY <1>1, <1>2 DEF FirstInv

\* The queue, the batch, the packets in flight and what has been received hold
\* every QoS 1 and QoS 2 message that arrived.
LEMMA KeptAtLeastOnce ==
  ASSUME IInv, NothingLost
  PROVE  AtLeastOnce
<1>1. LineTypes
  BY IInvLineTypes
<1>2. ASSUME NEW n \in 1..arrived, qosOf[n] > 0 PROVE n \in Pending \union ToSet(received)
  <2>1. n \in Messages /\ n <= arrived
    BY <1>1, OutboundAssumption DEF LineTypes, Messages, OutboundAssumption
  <2>2. InLine(n)
    BY <1>2, <2>1 DEF NothingLost
  <2>3. /\ DOMAIN queue = 1..Len(queue) /\ DOMAIN batch = 1..Len(batch)
        /\ DOMAIN inflight = 1..Len(inflight) /\ DOMAIN received = 1..Len(received)
    BY <1>1 DEF LineTypes
  <2> QED
    BY <2>2, <2>3 DEF InLine, Got, Pending, ToSet
<1> QED
  BY <1>2 DEF AtLeastOnce

\* It says what the properties say, until there is a second connection.
LEMMA FirstKept ==
  ASSUME IInv, FirstInv, reconnects = 0, IdsSuffice
  PROVE  ExactlyOnce /\ AtLeastOnce /\ InOrder
<1>1. LineTypes /\ Exchange /\ Line
  BY IInvLineTypes DEF FirstInv
<1>2. AtLeastOnce
  BY <1>1, KeptAtLeastOnce DEF Exchange
<1>3. \A n \in 1..arrived : qosOf[n] = 2 => qosOf[n] > 0
  OBVIOUS
<1>4. \A n \in 1..arrived : qosOf[n] = 2 => n \in Pending \union ToSet(received)
  BY <1>2, <1>3 DEF AtLeastOnce
<1>5. DOMAIN received = 1..Len(received) /\ Increasing(received)
  BY <1>1 DEF LineTypes, Line
<1>6. \A i, j \in DOMAIN received : i < j => received[i] < received[j]
  BY <1>5 DEF Increasing
<1>7. DOMAIN received \subseteq Int /\ \A i \in DOMAIN received : received[i] \in Int
  BY <1>1, <1>5, LineNumbers
<1>8. InOrder
  <2> SUFFICES ASSUME NEW i \in DOMAIN received, NEW j \in DOMAIN received,
                      i < j, received[j] < received[i]
               PROVE  FALSE
    BY DEF InOrder
  <2> QED
    BY <1>6, <1>7
<1>9. \A i, j \in DOMAIN received : received[i] = received[j] => i = j
  BY <1>6, <1>7
<1> QED
  BY <1>2, <1>4, <1>8, <1>9 DEF ExactlyOnce

\* On the first connection of a session whose client names a Receive Maximum, and
\* after it until the client is back, every QoS 1 and QoS 2 message that arrived is kept by the broker or has been
\* received; none is received twice, and none overtakes another: through delive,
\* handle_pub_ack, handle_pub_rec and handle_pub_comp, refusals and protocol
\* errors included.
THEOREM FirstExactlyOnce ==
  ASSUME ~MaySendFail
  PROVE  Spec => [](reconnects = 0 /\ IdsSuffice => ExactlyOnce /\ AtLeastOnce /\ InOrder)
<1>1. Init => Contiguous /\ FirstInv
  <2> SUFFICES ASSUME Init PROVE Contiguous /\ FirstInv
    OBVIOUS
  <2>1. Contiguous
    BY DEF Init, Contiguous
  <2>2. DownQuiet /\ Entries /\ OnePacket /\ HeldOpen
    BY DEF Init, DownQuiet, Entries, OnePacket, HeldOpen, AtClient, AtServer
  <2>3. NothingLost
    BY DEF Init, NothingLost, Messages
  <2>4. Line
    BY DEF Init, Line, WaitRow, Increasing, Below, UpTo, SentInLine
  <2> QED
    BY <2>1, <2>2, <2>3, <2>4 DEF FirstInv, Exchange
<1>2. IInv /\ Contiguous /\ FirstInv /\ [Next]_vars => (IInv /\ Contiguous /\ FirstInv)'
  BY NextIInv, NextContiguous, NextFirst
<1>3. IInv /\ FirstInv => (reconnects = 0 /\ IdsSuffice => ExactlyOnce /\ AtLeastOnce /\ InOrder)
  BY FirstKept
<1> QED
  BY <1>1, <1>2, <1>3, InitIInv, PTL DEF Spec

-----------------------------------------------------------------------------
(* QoS 0 and QoS 1 over all connections of a session.                      *)

LowQos == \A n \in Messages : qosOf[n] <= 1

\* The packet in flight at place r is packet p.
Carries(p, r) == p.pid = inflight[r].pid /\ p.msg = inflight[r].msg

\* What is on its way to the server acknowledges the front of the packets in
\* flight, in their order, and the client has received those.
Acks ==
  /\ Len(toServer) <= Len(inflight)
  /\ \A i \in 1..Len(toServer) :
       toServer[i] = Reply("PUBACK", inflight[i].pid) /\ Got(inflight[i].msg)
  /\ \A r \in 1..Len(inflight) : qosOf[inflight[r].msg] > 0

\* The others in flight are on their way to the client.
Waiting(r) == r \in 1..Len(inflight) /\ r > Len(toServer)
Sent ==
  /\ \A k \in 1..Len(toClient) : ~Answer(toClient[k])
  /\ \A k \in 1..Len(toClient) :
       qosOf[toClient[k].msg] > 0 => \E r \in 1..Len(inflight) : Waiting(r) /\ Carries(toClient[k], r)
  /\ link = "up" =>
       \A r \in 1..Len(inflight) : Waiting(r) => \E k \in 1..Len(toClient) : Carries(toClient[k], r)

\* A packet in flight, or on its way to the client, is older than the batch and
\* the queue, and younger than those before it.
FlightRow ==
  \A i \in 1..Len(inflight) :
    /\ inflight[i].msg <= arrived
    /\ \A j \in 1..Len(inflight) : i < j => inflight[i].msg < inflight[j].msg
    /\ \A j \in 1..Len(batch) : inflight[i].msg < batch[j]
    /\ \A j \in 1..Len(queue) : inflight[i].msg < queue[j]
ClientRow ==
  \A i \in 1..Len(toClient) :
    /\ toClient[i].msg <= arrived
    /\ \A j \in 1..Len(toClient) : i < j => toClient[i].msg < toClient[j].msg
    /\ \A j \in 1..Len(batch) : toClient[i].msg < batch[j]
    /\ \A j \in 1..Len(queue) : toClient[i].msg < queue[j]
\* A message to be received yet, or once more, has been overtaken by none.
Safe(x) == \A i \in 1..Len(received) : x < received[i] => \E h \in 1..i : received[h] = x
SafeRow ==
  /\ \A i \in 1..Len(inflight) : Safe(inflight[i].msg)
  /\ \A i \in 1..Len(toClient) : Safe(toClient[i].msg)
NoneOvertakes(s) ==
  \A i, j \in 1..Len(s) : i < j /\ s[j] < s[i] => \E h \in 1..i : s[h] = s[j]

LowInv == /\ LowQos /\ DownQuiet /\ Acks /\ Sent
          /\ FlightRow /\ ClientRow /\ WaitRow
          /\ SafeRow /\ NoneOvertakes(received) /\ ~rejected

\* Messages in flight and on their way are messages, and so numbers.
LEMMA LowNumbers ==
  ASSUME LineTypes
  PROVE  /\ Len(inflight) \in Nat /\ Len(toServer) \in Nat
         /\ \A i \in 1..Len(inflight) : inflight[i].msg \in Messages /\ inflight[i].msg \in Int
         /\ \A i \in 1..Len(toClient) :
              ~Answer(toClient[i]) => toClient[i].msg \in Messages /\ toClient[i].msg \in Int
<1>1. Messages \subseteq Int
  BY DEF Messages
<1>2. ASSUME NEW i \in 1..Len(inflight) PROVE inflight[i].msg \in Messages
  <2>1. inflight[i] \in InFlight
    BY DEF LineTypes
  <2> QED
    BY <2>1 DEF InFlight
<1>3. ASSUME NEW i \in 1..Len(toClient), ~Answer(toClient[i]) PROVE toClient[i].msg \in Messages
  <2>1. toClient[i] \in ToClientPacket
    BY DEF LineTypes
  <2> QED
    BY <1>3, <2>1 DEF ToClientPacket, Answer
<1>4. Len(inflight) \in Nat /\ Len(toServer) \in Nat
  BY DEF LineTypes
<1> QED
  BY <1>1, <1>2, <1>3, <1>4

\* A message of QoS 0 or 1 that arrives goes to the end of the rows.
LEMMA LowArrival ==
  ASSUME LineTypes, LowInv, NEW q, q <= 1,
         arrived' = arrived + 1, qosOf' = [qosOf EXCEPT ![arrived + 1] = q],
         qosOf \in [Messages -> 0..2],
         queue' = Append(queue, arrived + 1),
         UNCHANGED <<inflight, link, batch, toClient, toServer, held, received, rejected>>
  PROVE  LowInv'
<1> USE DEF LowInv
<1>1. \A n \in Messages : n <= arrived => qosOf'[n] = qosOf[n]
  BY LineNumbers DEF Messages
<1>2. LowQos'
  BY <1>1 DEF LowQos
<1>3. /\ \A i \in 1..Len(inflight) :
           inflight[i].msg <= arrived /\ qosOf'[inflight[i].msg] = qosOf[inflight[i].msg]
      /\ \A i \in 1..Len(toClient) :
           toClient[i].msg <= arrived /\ qosOf'[toClient[i].msg] = qosOf[toClient[i].msg]
  BY <1>1, LowNumbers DEF FlightRow, ClientRow, Sent
<1>4. Acks'
  BY <1>3 DEF Acks, Got
<1>5. Sent'
  <2>1. /\ \A r : Waiting(r)' <=> Waiting(r)
        /\ \A k, r : Carries(toClient[k], r)' <=> Carries(toClient[k], r)
    BY DEF Waiting, Carries
  <2>2. ASSUME NEW k \in 1..Len(toClient), qosOf'[toClient[k].msg] > 0
        PROVE  \E r \in 1..Len(inflight) : Waiting(r) /\ Carries(toClient[k], r)
    BY ONLY LowInv, <1>3, <2>2 DEF LowInv, Sent
  <2> QED
    BY ONLY LowInv, UNCHANGED <<inflight, link, toClient, toServer>>, <2>1, <2>2 DEF LowInv, Sent
<1>6. WaitRow'
  BY ArrivalWait
<1>7. /\ Len(queue) \in Nat /\ Len(queue') = Len(queue) + 1
      /\ \A i \in 1..Len(queue) : queue'[i] = queue[i]
      /\ queue'[Len(queue) + 1] = arrived + 1
      /\ arrived \in Int
  BY AppendIndex, LineNumbers DEF LineTypes
<1>8. FlightRow'
  BY <1>7, LowNumbers DEF FlightRow
<1>9. ClientRow'
  BY <1>7, LowNumbers DEF ClientRow, Sent
<1> QED
  BY <1>2, <1>4, <1>5, <1>6, <1>8, <1>9 DEF DownQuiet, SafeRow, Safe, NoneOvertakes

\* A batch taken off the queue leaves the rows as they are.
LEMMA LowTake ==
  ASSUME LineTypes, LowInv, batch = <<>>, NEW q \in Nat, TakeBatch(q),
         UNCHANGED <<inflight, link, toClient, toServer, held, received, arrived, qosOf, rejected>>
  PROVE  LowInv'
<1> USE DEF LowInv
<1>1. WaitRow'
  BY TakeWait
<1>2. FlightRow'
  <2>1. ASSUME NEW i \in 1..Len(inflight)
        PROVE  /\ \A j \in 1..Len(batch') : inflight[i].msg < batch'[j]
               /\ \A j \in 1..Len(queue') : inflight[i].msg < queue'[j]
    <3>1. PICK x : x = inflight[i].msg
      OBVIOUS
    <3>2. \A j \in 1..Len(queue) : x < queue[j]
      BY <3>1 DEF FlightRow
    <3> QED
      BY <3>1, <3>2, TakeAbove
  <2> QED
    BY <2>1 DEF FlightRow
<1>3. ClientRow'
  <2>1. ASSUME NEW i \in 1..Len(toClient)
        PROVE  /\ \A j \in 1..Len(batch') : toClient[i].msg < batch'[j]
               /\ \A j \in 1..Len(queue') : toClient[i].msg < queue'[j]
    <3>1. PICK x : x = toClient[i].msg
      OBVIOUS
    <3>2. \A j \in 1..Len(queue) : x < queue[j]
      BY <3>1 DEF ClientRow
    <3> QED
      BY <3>1, <3>2, TakeAbove
  <2> QED
    BY <2>1 DEF ClientRow
<1>4. LowQos' /\ DownQuiet' /\ SafeRow' /\ NoneOvertakes(received)' /\ ~rejected'
  BY DEF LowQos, DownQuiet, SafeRow, Safe, NoneOvertakes
<1>5. Acks' /\ Sent'
  BY DEF Acks, Sent, Got, Waiting, Carries
<1> QED
  BY <1>1, <1>2, <1>3, <1>4, <1>5

\* The message in front of the batch is younger than all that went out.
LEMMA BatchFront ==
  ASSUME LineTypes, LowInv, batch # <<>>, NEW m, m = Head(batch)
  PROVE  /\ m \in Messages /\ m \in Int /\ m <= arrived
         /\ \A i \in 1..Len(inflight) : inflight[i].msg < m
         /\ \A i \in 1..Len(toClient) : toClient[i].msg < m
         /\ \A i \in 1..Len(received) : received[i] < m
         /\ \A j \in 1..Len(Tail(batch)) : m < Tail(batch)[j]
         /\ \A j \in 1..Len(queue) : m < queue[j]
         /\ Safe(m)
<1>1. /\ Len(batch) \in Nat \ {0} /\ Len(Tail(batch)) = Len(batch) - 1
      /\ \A i \in 1..(Len(batch) - 1) : Tail(batch)[i] = batch[i + 1]
      /\ m = batch[1] /\ m \in Messages
  BY TailIndex DEF LineTypes
<1>2. m \in Int
  BY <1>1 DEF Messages
<1>3. \A i \in 1..Len(received) : received[i] < m /\ received[i] \in Int
  BY <1>1, LineNumbers DEF LowInv, WaitRow, Below
<1>4. Safe(m)
  BY <1>2, <1>3 DEF Safe
<1>5. /\ \A j \in 1..Len(Tail(batch)) : m < Tail(batch)[j]
      /\ \A j \in 1..Len(queue) : m < queue[j]
      /\ m <= arrived
  BY <1>1 DEF LowInv, WaitRow, Increasing, Below, UpTo
<1>6. /\ \A i \in 1..Len(inflight) : inflight[i].msg < m
      /\ \A i \in 1..Len(toClient) : toClient[i].msg < m
  BY <1>1 DEF LowInv, FlightRow, ClientRow
<1> QED
  BY <1>1, <1>2, <1>3, <1>4, <1>5, <1>6

\* delive puts a packet in flight.
LEMMA LowFlight ==
  ASSUME LineTypes, LowInv, batch # <<>>, NEW m, m = Head(batch), NEW p,
         \/ qosOf[m] = 0 /\ inflight' = inflight
         \/ qosOf[m] > 0 /\ inflight' = Append(inflight, [pid |-> p, msg |-> m]),
         batch' \in {<<>>, Tail(batch)},
         UNCHANGED <<queue, received, arrived, qosOf>>
  PROVE  /\ FlightRow' /\ \A i \in 1..Len(inflight') : Safe(inflight'[i].msg)
         /\ \A i \in 1..Len(inflight) : i \in 1..Len(inflight') /\ inflight'[i] = inflight[i]
         /\ Len(inflight) <= Len(inflight')
         /\ \A i \in 1..Len(inflight') : qosOf[inflight'[i].msg] > 0
<1> DEFINE L == Len(inflight)
<1>1. /\ m \in Messages /\ m \in Int /\ m <= arrived
      /\ \A i \in 1..L : inflight[i].msg < m
      /\ \A j \in 1..Len(batch') : m < batch'[j]
      /\ \A j \in 1..Len(queue) : m < queue[j]
      /\ Safe(m)
  <2>1. /\ m \in Messages /\ m \in Int /\ m <= arrived
        /\ \A i \in 1..L : inflight[i].msg < m
        /\ \A j \in 1..Len(Tail(batch)) : m < Tail(batch)[j]
        /\ \A j \in 1..Len(queue) : m < queue[j]
        /\ Safe(m)
    BY BatchFront
  <2>2. \A j \in 1..Len(batch') : m < batch'[j]
    <3>1. CASE batch' = <<>>
      <4>1. Len(batch') = 0
        BY <3>1
      <4> QED
        BY <4>1
    <3>2. CASE batch' = Tail(batch)
      BY <2>1, <3>2
    <3> QED
      BY <3>1, <3>2
  <2> QED
    BY <2>1, <2>2
<1>2. ASSUME NEW i \in 1..L, NEW j \in 1..Len(batch') PROVE inflight[i].msg < batch'[j]
  <2>1. j \in 1..Len(Tail(batch)) /\ batch'[j] = Tail(batch)[j]
    BY <1>2
  <2>2. j + 1 \in 1..Len(batch) /\ Tail(batch)[j] = batch[j + 1]
    BY <2>1, TailIndex DEF LineTypes
  <2> QED
    BY <2>1, <2>2 DEF LowInv, FlightRow
<1>3. /\ \A i \in 1..L : /\ inflight[i].msg <= arrived /\ Safe(inflight[i].msg)
                         /\ qosOf[inflight[i].msg] > 0
                         /\ \A j \in 1..L : i < j => inflight[i].msg < inflight[j].msg
                         /\ \A j \in 1..Len(queue) : inflight[i].msg < queue[j]
      /\ L \in Nat
  BY LowNumbers DEF LowInv, FlightRow, SafeRow, Acks
<1>4. CASE inflight' = inflight
  BY <1>2, <1>3, <1>4 DEF FlightRow
<1>5. CASE qosOf[m] > 0 /\ inflight' = Append(inflight, [pid |-> p, msg |-> m])
  <2>1. /\ Len(inflight') = L + 1
        /\ \A i \in 1..L : inflight'[i] = inflight[i]
        /\ inflight'[L + 1].msg = m
    BY <1>5, AppendIndex DEF LineTypes
  <2>2. ASSUME NEW i \in 1..(L + 1)
        PROVE  /\ inflight'[i].msg <= arrived
               /\ \A j \in 1..(L + 1) : i < j => inflight'[i].msg < inflight'[j].msg
               /\ \A j \in 1..Len(batch') : inflight'[i].msg < batch'[j]
               /\ \A j \in 1..Len(queue) : inflight'[i].msg < queue[j]
    <3>1. CASE i \in 1..L
      <4>1. inflight'[i] = inflight[i]
        BY <2>1, <3>1
      <4>2. ASSUME NEW j \in 1..(L + 1), i < j PROVE inflight[i].msg < inflight'[j].msg
        <5>1. CASE j \in 1..L
          BY <1>3, <2>1, <3>1, <4>2, <5>1
        <5>2. CASE j = L + 1
          BY <1>1, <2>1, <3>1, <5>2
        <5> QED
          BY <1>3, <5>1, <5>2
      <4>3. /\ inflight[i].msg <= arrived
            /\ \A j \in 1..Len(batch') : inflight[i].msg < batch'[j]
            /\ \A j \in 1..Len(queue) : inflight[i].msg < queue[j]
        BY <1>2, <1>3, <3>1
      <4> QED
        BY <4>1, <4>2, <4>3
    <3>2. CASE i = L + 1
      BY <1>1, <1>3, <2>1, <3>2
    <3> QED
      BY <1>3, <3>1, <3>2
  <2>3. FlightRow'
    BY <2>1, <2>2 DEF FlightRow
  <2> QED
    BY <1>1, <1>3, <1>5, <2>1, <2>3
<1> QED
  BY <1>4, <1>5

\* A message sent goes on to the wire and, at QoS 1, in flight.
LEMMA LowSend ==
  ASSUME LineTypes, LowInv, link = "up", batch # <<>>, batch' = Tail(batch),
         NEW m, m = Head(batch), NEW p, NEW x, x = Publish(p, m),
         toClient' = Append(toClient, x),
         \/ qosOf[m] = 0 /\ inflight' = inflight
         \/ qosOf[m] > 0 /\ inflight' = Append(inflight, [pid |-> p, msg |-> m]),
         UNCHANGED <<queue, link, toServer, held, received, arrived, qosOf, rejected>>
  PROVE  LowInv'
<1> DEFINE L == Len(inflight)
           T == Len(toClient)
<1>1. /\ m \in Messages /\ m \in Int /\ m <= arrived
      /\ \A i \in 1..T : toClient[i].msg < m
      /\ \A j \in 1..Len(batch') : m < batch'[j]
      /\ \A j \in 1..Len(queue) : m < queue[j]
      /\ Safe(m)
  BY BatchFront
<1>2. /\ FlightRow' /\ \A i \in 1..Len(inflight') : Safe(inflight'[i].msg)
      /\ \A i \in 1..L : i \in 1..Len(inflight') /\ inflight'[i] = inflight[i]
      /\ L <= Len(inflight')
      /\ \A i \in 1..Len(inflight') : qosOf[inflight'[i].msg] > 0
  <2>1. batch' \in {<<>>, Tail(batch)}
    OBVIOUS
  <2> QED
    BY <2>1, LowFlight
<1>3. /\ T \in Nat /\ Len(toClient') = T + 1
      /\ \A i \in 1..T : toClient'[i] = toClient[i]
      /\ toClient'[T + 1] = x
      /\ L \in Nat /\ Len(toServer) \in Nat
  BY AppendIndex DEF LineTypes
<1>4. x.pid = p /\ x.msg = m /\ ~Answer(x)
  BY DEF Publish, Answer
<1>5. qosOf[m] > 0 =>
        /\ Len(inflight') = L + 1
        /\ inflight'[L + 1].pid = p /\ inflight'[L + 1].msg = m
  <2> SUFFICES ASSUME qosOf[m] > 0
               PROVE  /\ Len(inflight') = L + 1
                      /\ inflight'[L + 1].pid = p /\ inflight'[L + 1].msg = m
    OBVIOUS
  <2>1. inflight' = Append(inflight, [pid |-> p, msg |-> m])
    OBVIOUS
  <2> QED
    BY <2>1, AppendIndex DEF LineTypes
<1>6. ~(qosOf[m] > 0) => inflight' = inflight
  OBVIOUS
<1>7. WaitRow'
  BY SendWait DEF LowInv
<1>8. Acks'
  <2>1. Len(toServer) <= L
        /\ \A i \in 1..Len(toServer) : toServer[i] = Reply("PUBACK", inflight[i].pid) /\ Got(inflight[i].msg)
    BY DEF LowInv, Acks
  <2>2. \A i \in 1..Len(toServer) : i \in 1..L
    BY <1>3, <2>1
  <2>3. Len(toServer) <= Len(inflight')
    <3>1. Len(inflight') \in Nat
      BY <1>3, <1>5, <1>6
    <3> QED
      BY <1>2, <1>3, <2>1, <3>1
  <2> QED
    BY <1>2, <2>1, <2>2, <2>3 DEF Acks, Got
<1>9. Sent'
  <2>1. \A k \in 1..Len(toClient') : ~Answer(toClient'[k])
    BY <1>3, <1>4 DEF LowInv, Sent
  <2>2. ASSUME NEW k \in 1..Len(toClient'), qosOf[toClient'[k].msg] > 0
        PROVE  \E r \in 1..Len(inflight') :
                 /\ r > Len(toServer)
                 /\ toClient'[k].pid = inflight'[r].pid /\ toClient'[k].msg = inflight'[r].msg
    <3>1. CASE k \in 1..T
      <4>1. PICK r \in 1..L : Waiting(r) /\ Carries(toClient[k], r)
        BY <1>3, <2>2, <3>1 DEF LowInv, Sent
      <4> QED
        BY <1>2, <1>3, <3>1, <4>1 DEF Waiting, Carries
    <3>2. CASE k = T + 1
      <4>1. L + 1 \in 1..Len(inflight') /\ L + 1 > Len(toServer)
        BY <1>3, <1>4, <1>5, <2>2, <3>2 DEF LowInv, Acks
      <4> QED
        BY <1>3, <1>4, <1>5, <2>2, <3>2, <4>1
    <3>3. k \in 1..T \/ k = T + 1
      BY <1>3
    <3> QED
      BY <3>1, <3>2, <3>3
  <2>3. ASSUME NEW r \in 1..Len(inflight'), r > Len(toServer)
        PROVE  \E k \in 1..Len(toClient') :
                 toClient'[k].pid = inflight'[r].pid /\ toClient'[k].msg = inflight'[r].msg
    <3>1. CASE r \in 1..L
      <4>1. PICK k \in 1..T : Carries(toClient[k], r)
        BY <2>3, <3>1 DEF LowInv, Sent, Waiting
      <4>2. k \in 1..Len(toClient')
        BY <1>3
      <4> QED
        BY <1>2, <1>3, <3>1, <4>1, <4>2 DEF Carries
    <3>2. CASE r \notin 1..L
      <4>1. r = L + 1 /\ qosOf[m] > 0
        BY <1>3, <1>5, <1>6, <3>2
      <4>2. T + 1 \in 1..Len(toClient')
        BY <1>3
      <4> QED
        BY <1>3, <1>4, <1>5, <4>1, <4>2
    <3> QED
      BY <3>1, <3>2
  <2> QED
    BY <2>1, <2>2, <2>3 DEF Sent, Waiting, Carries
<1>10. ClientRow'
  <2>1. ASSUME NEW i \in 1..T, NEW j \in 1..Len(batch') PROVE toClient[i].msg < batch'[j]
    <3>1. j + 1 \in 1..Len(batch) /\ batch'[j] = batch[j + 1]
      BY TailIndex DEF LineTypes
    <3> QED
      BY <3>1 DEF LowInv, ClientRow
  <2>2. ASSUME NEW i \in 1..(T + 1)
        PROVE  /\ toClient'[i].msg <= arrived
               /\ \A j \in 1..(T + 1) : i < j => toClient'[i].msg < toClient'[j].msg
               /\ \A j \in 1..Len(batch') : toClient'[i].msg < batch'[j]
               /\ \A j \in 1..Len(queue) : toClient'[i].msg < queue[j]
    <3>1. CASE i \in 1..T
      BY <1>1, <1>3, <1>4, <2>1, <3>1 DEF LowInv, ClientRow
    <3>2. CASE i = T + 1
      BY <1>1, <1>3, <1>4, <3>2
    <3> QED
      BY <1>3, <3>1, <3>2
  <2> QED
    BY <1>3, <2>2 DEF ClientRow
<1>11. SafeRow'
  <2>1. ASSUME NEW i \in 1..Len(toClient') PROVE Safe(toClient'[i].msg)
    <3>1. CASE i \in 1..T
      BY <1>3, <3>1 DEF LowInv, SafeRow
    <3>2. CASE i = T + 1
      BY <1>1, <1>3, <1>4, <3>2
    <3> QED
      BY <1>3, <2>1, <3>1, <3>2
  <2>2. received' = received
    OBVIOUS
  <2>3. \A i \in 1..Len(inflight') : \A j \in 1..Len(received') :
          inflight'[i].msg < received'[j] => \E h \in 1..j : received'[h] = inflight'[i].msg
    BY <1>2, <2>2 DEF Safe
  <2>4. \A i \in 1..Len(toClient') : \A j \in 1..Len(received') :
          toClient'[i].msg < received'[j] => \E h \in 1..j : received'[h] = toClient'[i].msg
    BY <2>1, <2>2 DEF Safe
  <2> QED
    BY <2>3, <2>4 DEF SafeRow, Safe
<1>12. LowQos' /\ DownQuiet' /\ NoneOvertakes(received)' /\ ~rejected'
  BY DEF LowInv, LowQos, DownQuiet, NoneOvertakes
<1> QED
  BY <1>2, <1>7, <1>8, <1>9, <1>10, <1>11, <1>12 DEF LowInv

\* The connection ends: what was under way is gone.
LEMMA LowCut ==
  ASSUME FlightRow', WaitRow', \A i \in 1..Len(inflight') : Safe(inflight'[i].msg),
         \A i \in 1..Len(inflight') : qosOf[inflight'[i].msg] > 0,
         inflight' \in Seq(InFlight), LowInv,
         toClient' = <<>>, toServer' = <<>>, link' = "down",
         UNCHANGED <<received, arrived, qosOf, rejected>>
  PROVE  LowInv'
<1>1. Acks'
  BY DEF Acks
<1>2. Sent' /\ ClientRow'
  BY DEF Sent, ClientRow
<1>3. SafeRow'
  BY DEF SafeRow, Safe
<1>4. LowQos' /\ DownQuiet' /\ NoneOvertakes(received)' /\ ~rejected'
  BY DEF LowInv, LowQos, DownQuiet, NoneOvertakes
<1> QED
  BY <1>1, <1>2, <1>3, <1>4 DEF LowInv

\* The server reads the PUBACK of the packet in front.
LEMMA LowAcknowledge ==
  ASSUME LineTypes, LowInv, toServer # <<>>, toServer' = Tail(toServer),
         inflight' = Tail(inflight),
         UNCHANGED <<queue, batch, link, toClient, held, received, arrived, qosOf, rejected>>
  PROVE  LowInv'
<1> DEFINE L == Len(inflight)
           S == Len(toServer)
<1>1. /\ S \in Nat \ {0} /\ Len(toServer') = S - 1
      /\ \A i \in 1..(S - 1) : toServer'[i] = toServer[i + 1]
  BY TailIndex DEF LineTypes
<1>2. L \in Nat \ {0} /\ inflight # <<>>
  BY <1>1, LowNumbers DEF LowInv, Acks
<1>3. /\ Len(inflight') = L - 1
      /\ \A i \in 1..(L - 1) : inflight'[i] = inflight[i + 1]
  BY <1>2, TailIndex DEF LineTypes
<1>4. /\ \A i \in 1..(S - 1) : i + 1 \in 1..S
      /\ \A i \in 1..(L - 1) : i + 1 \in 1..L
  BY <1>1, <1>2
<1>5. Acks'
  <2>1. Len(toServer') <= Len(inflight')
    BY <1>1, <1>2, <1>3 DEF LowInv, Acks
  <2>2. ASSUME NEW i \in 1..Len(toServer')
        PROVE  toServer'[i] = Reply("PUBACK", inflight'[i].pid) /\ Got(inflight'[i].msg)
    <3>1. i \in 1..(S - 1) /\ i \in 1..(L - 1) /\ i + 1 \in 1..S
      BY <1>1, <1>2, <1>4 DEF LowInv, Acks
    <3> QED
      BY <1>1, <1>3, <3>1 DEF LowInv, Acks
  <2>3. \A r \in 1..Len(inflight') : qosOf[inflight'[r].msg] > 0
    BY <1>3, <1>4 DEF LowInv, Acks
  <2> QED
    BY <2>1, <2>2, <2>3 DEF Acks, Got
<1>6. Sent'
  <2>1. ASSUME NEW k \in 1..Len(toClient), qosOf[toClient[k].msg] > 0
        PROVE  \E r \in 1..Len(inflight') :
                 /\ r > Len(toServer')
                 /\ toClient[k].pid = inflight'[r].pid /\ toClient[k].msg = inflight'[r].msg
    <3>1. PICK r \in 1..L : Waiting(r) /\ Carries(toClient[k], r)
      BY <2>1 DEF LowInv, Sent
    <3>2. r - 1 \in 1..(L - 1) /\ r - 1 > S - 1 /\ (r - 1) + 1 = r
      BY <1>1, <1>2, <3>1 DEF Waiting
    <3>3. inflight'[r - 1] = inflight[r]
      BY <1>3, <3>2
    <3> QED
      BY <1>1, <1>3, <3>1, <3>2, <3>3 DEF Carries
  <2>2. ASSUME link = "up", NEW r \in 1..Len(inflight'), r > Len(toServer')
        PROVE  \E k \in 1..Len(toClient) :
                 toClient[k].pid = inflight'[r].pid /\ toClient[k].msg = inflight'[r].msg
    <3>1. r + 1 \in 1..L /\ r + 1 > S /\ inflight'[r] = inflight[r + 1]
      BY <1>1, <1>2, <1>3, <2>2
    <3> QED
      BY <2>2, <3>1 DEF LowInv, Sent, Waiting, Carries
  <2> QED
    BY <2>1, <2>2 DEF LowInv, Sent, Waiting, Carries
<1>7. FlightRow'
  <2>1. ASSUME NEW i \in 1..(L - 1), NEW j \in 1..(L - 1), i < j
        PROVE  inflight'[i].msg < inflight'[j].msg
    <3>1. i + 1 \in 1..L /\ j + 1 \in 1..L /\ i + 1 < j + 1
      BY <1>2, <2>1
    <3> QED
      BY <1>3, <3>1 DEF LowInv, FlightRow
  <2> QED
    BY <1>3, <1>4, <2>1 DEF LowInv, FlightRow
<1>8. ClientRow' /\ WaitRow'
  BY DEF LowInv, ClientRow, WaitRow, Increasing, Below, UpTo
<1>9. SafeRow'
  BY <1>3, <1>4 DEF LowInv, SafeRow, Safe
<1>10. LowQos' /\ DownQuiet' /\ NoneOvertakes(received)' /\ ~rejected'
  BY DEF LowInv, LowQos, DownQuiet, NoneOvertakes
<1> QED
  BY <1>5, <1>6, <1>7, <1>8, <1>9, <1>10 DEF LowInv

\* Whatever the client takes next, the packets in flight that are older have
\* been received: they are waiting to be acknowledged, or in front of it.
LEMMA OlderReceived ==
  ASSUME LineTypes, LowInv, link = "up", toClient # <<>>,
         NEW r \in 1..Len(inflight), inflight[r].msg < toClient[1].msg
  PROVE  r <= Len(toServer) /\ Got(inflight[r].msg)
<1>1. Len(toServer) \in Nat /\ 1 \in 1..Len(toClient) /\ Len(toClient) \in Nat
  BY LowNumbers, TailIndex DEF LineTypes
<1>2. CASE r <= Len(toServer)
  BY <1>1, <1>2 DEF LowInv, Acks
<1>3. CASE r > Len(toServer)
  <2>1. PICK k \in 1..Len(toClient) : toClient[k].msg = inflight[r].msg
    BY <1>3 DEF LowInv, Sent, Waiting, Carries
  <2>2. k = 1 \/ toClient[1].msg < toClient[k].msg
    BY <1>1 DEF LowInv, ClientRow
  <2>3. toClient[1].msg \in Int /\ toClient[k].msg \in Int
    BY <1>1, LowNumbers DEF LowInv, Sent
  <2> QED
    BY <2>1, <2>2, <2>3
<1> QED
  BY <1>1, <1>2, <1>3

\* A message received was the first on the wire, and its PUBACK goes behind
\* the others.
LEMMA LowReceive ==
  ASSUME LineTypes, LowInv, link = "up", toClient # <<>>, toClient' = Tail(toClient),
         NEW c, c = toClient[1], NEW m, m = c.msg, received' = Append(received, m),
         \/ qosOf[m] = 0 /\ toServer' = toServer
         \/ qosOf[m] > 0 /\ toServer' = Append(toServer, Reply("PUBACK", c.pid)),
         qosOf \in [Messages -> 0..2],
         UNCHANGED <<queue, batch, inflight, link, arrived, qosOf, rejected>>
  PROVE  LowInv'
<1> DEFINE L == Len(inflight)
           S == Len(toServer)
           T == Len(toClient)
           R == Len(received)
<1>1. /\ T \in Nat \ {0} /\ Len(toClient') = T - 1
      /\ \A i \in 1..(T - 1) : toClient'[i] = toClient[i + 1] /\ i + 1 \in 1..T
      /\ 1 \in 1..T
  BY TailIndex DEF LineTypes
<1>2. /\ R \in Nat /\ Len(received') = R + 1
      /\ \A i \in 1..R : received'[i] = received[i]
      /\ received'[R + 1] = m
      /\ L \in Nat /\ S \in Nat
  BY AppendIndex, LowNumbers DEF LineTypes
<1>3. m \in Messages /\ m \in Int /\ m <= arrived /\ Safe(m)
      /\ (\A j \in 1..Len(batch) : m < batch[j]) /\ (\A j \in 1..Len(queue) : m < queue[j])
  BY <1>1, LowNumbers DEF LowInv, Sent, ClientRow, SafeRow
<1>4. \A n : Got(n) => Got(n)'
  BY <1>2 DEF Got
<1>5. Got(m)'
  BY <1>2 DEF Got
<1>6. WaitRow'
  BY <1>3, ReceiveWait DEF LowInv
<1>7. ASSUME NEW x \in Int, Safe(x), x < m => Got(x) PROVE Safe(x)'
  <2> SUFFICES ASSUME NEW i \in 1..Len(received'), x < received'[i]
               PROVE  \E h \in 1..i : received'[h] = x
    BY DEF Safe
  <2>1. CASE i \in 1..R
    BY <1>2, <1>7, <2>1 DEF Safe
  <2>2. CASE i = R + 1
    <3>1. PICK h \in 1..R : received[h] = x
      BY <1>2, <1>7, <2>2 DEF Got
    <3>2. h \in 1..i /\ received'[h] = x
      BY <1>2, <2>2, <3>1
    <3> QED
      BY <3>2
  <2> QED
    BY <1>2, <2>1, <2>2
<1>8. SafeRow'
  <2>1. ASSUME NEW r \in 1..L PROVE Safe(inflight[r].msg)'
    <3>1. PICK x : x = inflight[r].msg
      OBVIOUS
    <3>2. x \in Int /\ Safe(x)
      BY <3>1, LowNumbers DEF LowInv, SafeRow
    <3>3. x < m => Got(x)
      BY <3>1, OlderReceived
    <3>4. Safe(x)'
      BY <1>7, <3>2, <3>3
    <3> QED
      BY <3>1, <3>4 DEF Safe
  <2>2. ASSUME NEW i \in 1..Len(toClient'), NEW x, x = toClient'[i].msg PROVE Safe(x)'
    <3>1. x = toClient[i + 1].msg /\ i + 1 \in 1..T /\ 1 < i + 1
      BY <1>1, <2>2
    <3>2. x \in Int /\ Safe(x) /\ m < x
      BY <1>1, <3>1, LowNumbers DEF LowInv, SafeRow, Sent, ClientRow
    <3> QED
      BY <1>3, <1>7, <3>2
  <2>3. ASSUME NEW i \in 1..Len(toClient'), NEW k \in 1..Len(received'),
               toClient'[i].msg < received'[k]
        PROVE  \E h \in 1..k : received'[h] = toClient'[i].msg
    <3>1. PICK x : x = toClient'[i].msg
      OBVIOUS
    <3>2. Safe(x)'
      BY <2>2, <3>1
    <3> QED
      BY <2>3, <3>1, <3>2 DEF Safe
  <2> QED
    BY <2>1, <2>3 DEF SafeRow, Safe
<1>9. NoneOvertakes(received)'
  <2>1. PICK s : s = received'
    OBVIOUS
  <2>2. Len(s) = R + 1 /\ s[R + 1] = m /\ \A i \in 1..R : s[i] = received[i]
    BY <1>2, <2>1
  <2>3. ASSUME NEW i \in 1..Len(s), NEW j \in 1..Len(s), i < j, s[j] < s[i]
        PROVE  \E h \in 1..i : s[h] = s[j]
    <3>1. i \in 1..R
      BY <1>2, <2>2, <2>3
    <3>2. CASE j \in 1..R
      <4>1. PICK h \in 1..i : received[h] = received[j]
        BY <2>2, <2>3, <3>1, <3>2 DEF LowInv, NoneOvertakes
      <4>2. h \in 1..R
        BY <1>2, <3>1
      <4> QED
        BY <2>2, <3>2, <4>1, <4>2
    <3>3. CASE j = R + 1
      <4>1. m < received[i]
        BY <2>2, <2>3, <3>1, <3>3
      <4>2. PICK h \in 1..i : received[h] = m
        BY <1>3, <3>1, <4>1 DEF Safe
      <4>3. h \in 1..R
        BY <1>2, <3>1
      <4> QED
        BY <2>2, <3>3, <4>2, <4>3
    <3> QED
      BY <1>2, <2>2, <3>2, <3>3
  <2>4. NoneOvertakes(s)
    BY <2>3 DEF NoneOvertakes
  <2> QED
    BY <2>1, <2>4
<1>10. ClientRow'
  <2>1. ASSUME NEW i \in 1..(T - 1), NEW j \in 1..(T - 1), i < j
        PROVE  toClient'[i].msg < toClient'[j].msg
    <3>1. i + 1 \in 1..T /\ j + 1 \in 1..T /\ i + 1 < j + 1
      BY <1>1, <2>1
    <3> QED
      BY <1>1, <3>1 DEF LowInv, ClientRow
  <2> QED
    BY <1>1, <2>1 DEF LowInv, ClientRow
\* A QoS 1 message is that of the first packet not acknowledged yet.
<1>11. qosOf[m] > 0 =>
         S + 1 \in 1..L /\ inflight[S + 1].pid = c.pid /\ inflight[S + 1].msg = m
  <2> SUFFICES ASSUME qosOf[m] > 0
               PROVE  S + 1 \in 1..L /\ inflight[S + 1].pid = c.pid /\ inflight[S + 1].msg = m
    OBVIOUS
  <2>1. PICK r \in 1..L : r > S /\ inflight[r].pid = c.pid /\ inflight[r].msg = m
    BY <1>1 DEF LowInv, Sent, Waiting, Carries
  <2>2. S + 1 \in 1..L
    BY <1>2, <2>1
  <2>3. CASE r = S + 1
    BY <2>1, <2>2, <2>3
  <2>4. CASE r # S + 1
    <3>1. S + 1 < r
      BY <1>2, <2>1, <2>4
    <3>2. inflight[S + 1].msg < m
      BY <2>1, <2>2, <3>1 DEF LowInv, FlightRow
    <3>3. S + 1 <= S
      BY <2>2, <3>2, OlderReceived
    <3> QED
      BY <1>2, <3>3
  <2> QED
    BY <2>3, <2>4
<1>12. CASE qosOf[m] = 0 /\ toServer' = toServer
  <2>1. Acks'
    BY <1>4, <1>12 DEF LowInv, Acks
  <2>2. Sent'
    <3>1. \A k \in 1..Len(toClient') : ~Answer(toClient'[k])
      BY <1>1 DEF LowInv, Sent
    <3>2. \A k \in 1..Len(toClient') : qosOf[toClient'[k].msg] > 0 =>
            \E r \in 1..L : Waiting(r) /\ Carries(toClient'[k], r)
      BY <1>1 DEF LowInv, Sent
    <3>3. ASSUME NEW r \in 1..L, Waiting(r)
          PROVE  \E k \in 1..Len(toClient') : Carries(toClient'[k], r)
      <4>1. PICK k \in 1..T : Carries(toClient[k], r)
        BY <3>3 DEF LowInv, Sent
      <4>2. toClient[k].msg # m
        <5>1. qosOf[inflight[r].msg] > 0 /\ toClient[k].msg = inflight[r].msg
          BY <4>1 DEF LowInv, Acks, Carries
        <5> QED
          BY <1>12, <5>1
      <4>3. k - 1 \in 1..(T - 1) /\ (k - 1) + 1 = k
        BY <1>1, <4>2
      <4> QED
        BY <1>1, <4>1, <4>3
    <3> QED
      BY <1>12, <3>1, <3>2, <3>3 DEF Sent, Waiting, Carries
  <2>3. DownQuiet'
    BY DEF DownQuiet
  <2> QED
    BY <1>6, <1>8, <1>9, <1>10, <2>1, <2>2, <2>3 DEF LowInv, LowQos, FlightRow
<1>13. CASE qosOf[m] > 0 /\ toServer' = Append(toServer, Reply("PUBACK", c.pid))
  <2>1. /\ Len(toServer') = S + 1
        /\ \A i \in 1..S : toServer'[i] = toServer[i]
        /\ toServer'[S + 1] = Reply("PUBACK", c.pid)
    BY <1>13, AppendIndex DEF LineTypes
  <2>2. Acks'
    <3>1. ASSUME NEW i \in 1..(S + 1)
          PROVE  toServer'[i] = Reply("PUBACK", inflight[i].pid) /\ Got(inflight[i].msg)'
      <4>1. CASE i \in 1..S
        BY <1>4, <2>1, <4>1 DEF LowInv, Acks
      <4>2. CASE i = S + 1
        <5>1. inflight[i].msg = m /\ inflight[i].pid = c.pid
          BY <1>11, <1>13, <4>2
        <5>2. Got(inflight[i].msg)'
          BY <1>5, <5>1 DEF Got
        <5> QED
          BY <2>1, <4>2, <5>1, <5>2
      <4> QED
        BY <1>2, <4>1, <4>2
    <3>2. S + 1 <= L
      BY <1>11, <1>13
    <3> QED
      BY <2>1, <3>1, <3>2 DEF LowInv, Acks
  <2>3. Sent'
    <3>1. \A k \in 1..Len(toClient') : ~Answer(toClient'[k])
      BY <1>1 DEF LowInv, Sent
    <3>2. ASSUME NEW k \in 1..Len(toClient'), qosOf[toClient'[k].msg] > 0
          PROVE  \E r \in 1..L : r > S + 1 /\ Carries(toClient'[k], r)
      <4>1. toClient'[k] = toClient[k + 1] /\ k + 1 \in 1..T /\ 1 < k + 1
        BY <1>1
      <4>2. PICK r \in 1..L : Waiting(r) /\ Carries(toClient[k + 1], r)
        BY <3>2, <4>1 DEF LowInv, Sent
      <4>3. m < toClient[k + 1].msg
        BY <1>1, <4>1 DEF LowInv, ClientRow
      <4>4. inflight[r].msg # m
        BY <1>3, <4>2, <4>3, LowNumbers DEF Carries
      <4>5. r # S + 1
        BY <1>11, <1>13, <4>4
      <4> QED
        BY <1>2, <4>1, <4>2, <4>5 DEF Waiting
    <3>3. ASSUME NEW r \in 1..L, r > S + 1
          PROVE  \E k \in 1..Len(toClient') : Carries(toClient'[k], r)
      <4>1. PICK k \in 1..T : Carries(toClient[k], r)
        BY <1>2, <3>3 DEF LowInv, Sent, Waiting
      <4>2. inflight[S + 1].msg < inflight[r].msg
        BY <1>11, <1>13, <3>3 DEF LowInv, FlightRow
      <4>3. k # 1
        BY <1>3, <1>11, <1>13, <4>1, <4>2, LowNumbers DEF Carries
      <4>4. k - 1 \in 1..(T - 1) /\ (k - 1) + 1 = k
        BY <1>1, <4>3
      <4> QED
        BY <1>1, <4>1, <4>4
    <3> QED
      BY <2>1, <3>1, <3>2, <3>3 DEF Sent, Waiting, Carries
  <2>4. DownQuiet'
    BY DEF DownQuiet
  <2> QED
    BY <1>6, <1>8, <1>9, <1>10, <2>2, <2>3, <2>4 DEF LowInv, LowQos, FlightRow
<1> QED
  BY <1>12, <1>13

\* handle_connect sends the packets in flight again, in their order.
LEMMA LowReconnect ==
  ASSUME LineTypes, LowInv, link = "down", link' = "up",
         Len(toClient') = Len(inflight),
         \A i \in 1..Len(inflight) : /\ toClient'[i].pid = inflight[i].pid
                                     /\ toClient'[i].msg = inflight[i].msg
                                     /\ ~Answer(toClient'[i]),
         UNCHANGED <<queue, batch, inflight, toServer, received, arrived, qosOf, rejected>>
  PROVE  LowInv'
<1> DEFINE L == Len(inflight)
<1>1. toServer = <<>> /\ Len(toServer) = 0
  BY DEF LowInv, DownQuiet
<1>2. /\ L \in Nat /\ Len(toClient') = L
      /\ \A i \in 1..L : /\ toClient'[i].pid = inflight[i].pid
                         /\ toClient'[i].msg = inflight[i].msg
                         /\ ~Answer(toClient'[i])
  BY LowNumbers
<1>3. Acks'
  BY <1>1 DEF LowInv, Acks, Got
<1>4. Sent'
  <2>1. \A k \in 1..Len(toClient') : ~Answer(toClient'[k])
    BY <1>2
  <2>2. ASSUME NEW k \in 1..L
        PROVE  /\ k \in 1..Len(toClient') /\ k > Len(toServer)
               /\ toClient'[k].pid = inflight[k].pid /\ toClient'[k].msg = inflight[k].msg
    BY <1>1, <1>2
  <2> QED
    BY <1>2, <2>1, <2>2 DEF Sent, Waiting, Carries
<1>5. ClientRow' /\ FlightRow'
  BY <1>2 DEF LowInv, ClientRow, FlightRow
<1>6. SafeRow'
  <2>1. ASSUME NEW i \in 1..L, NEW k \in 1..Len(received), inflight[i].msg < received[k]
        PROVE  \E h \in 1..k : received[h] = inflight[i].msg
    BY <2>1 DEF LowInv, SafeRow, Safe
  <2>2. ASSUME NEW i \in 1..Len(toClient'), NEW k \in 1..Len(received),
               toClient'[i].msg < received[k]
        PROVE  \E h \in 1..k : received[h] = toClient'[i].msg
    BY <1>2, <2>1, <2>2
  <2> QED
    BY <2>1, <2>2 DEF SafeRow, Safe
<1>7. LowQos' /\ DownQuiet' /\ WaitRow' /\ NoneOvertakes(received)' /\ ~rejected'
  BY DEF LowInv, LowQos, DownQuiet, WaitRow, NoneOvertakes, Increasing, Below, UpTo
<1> QED
  BY <1>3, <1>4, <1>5, <1>6, <1>7 DEF LowInv

-----------------------------------------------------------------------------
(* QoS 0 and QoS 1, step by step.                                          *)

\* With such messages all that the client sends is PUBACK.
LEMMA LowReads ==
  ASSUME LineTypes, LowInv, toServer # <<>>
  PROVE  /\ Head(toServer) = Reply("PUBACK", inflight[1].pid) /\ inflight # <<>>
         /\ Got(inflight[1].msg) /\ Head(inflight) = inflight[1]
<1>1. Len(toServer) \in Nat \ {0} /\ Head(toServer) = toServer[1]
  BY TailIndex DEF LineTypes
<1>2. Len(inflight) \in Nat \ {0}
  BY <1>1, LowNumbers DEF LowInv, Acks
<1>3. inflight # <<>>
  BY <1>2
<1>4. Head(inflight) = inflight[1]
  BY <1>3, TailIndex DEF LineTypes
<1> QED
  BY <1>1, <1>3, <1>4 DEF LowInv, Acks

\* delive keeps the rows, whether the send fails or not, and loses nothing if
\* it does not.
LEMMA DeliverLow ==
  ASSUME IInv, LowInv, Delive, DeliveSends \/ DeliveFails
  PROVE  LowInv' /\ (DeliveSends /\ NothingLost => NothingLost')
<1>1. /\ batch # <<>> /\ link = "up"
      /\ UNCHANGED <<queue, held, received, arrived, qosOf, rejected>>
  BY DEF Delive, clientVars, IInv, TypeOK, DownIsEmpty
<1>2. LineTypes /\ qosOf \in [Messages -> 0..2]
  BY IInvLineTypes DEF IInv, TypeOK
<1>3. PICK p, m, x : p = nextPid /\ m = Head(batch) /\ x = Publish(p, m)
  OBVIOUS
<1>4. m \in Messages
  BY <1>1, <1>2, <1>3, BatchFront
<1>5. \/ qosOf[m] = 0 /\ inflight' = inflight
      \/ qosOf[m] > 0 /\ inflight' = Append(inflight, [pid |-> p, msg |-> m])
  <2>1. qosOf[m] \in 0..2
    BY <1>2, <1>4
  <2> QED
    BY <1>3, <2>1 DEF Delive
<1>6. CASE DeliveSends
  <2>1. batch' = Tail(batch) /\ toClient' = Append(toClient, x) /\ UNCHANGED <<link, toServer>>
    BY <1>3, <1>6 DEF DeliveSends
  <2>2. LowInv'
    BY <1>1, <1>2, <1>3, <1>5, <2>1, LowSend
  <2>3. /\ \A i \in 1..Len(inflight) : i \in 1..Len(inflight') /\ inflight'[i] = inflight[i]
        /\ qosOf[m] # 0 => \E r \in 1..Len(inflight') : inflight'[r].msg = m
    <3>1. CASE qosOf[m] = 0 /\ inflight' = inflight
      BY <3>1
    <3>2. CASE inflight' = Append(inflight, [pid |-> p, msg |-> m])
      <4>1. /\ Len(inflight) \in Nat /\ Len(inflight') = Len(inflight) + 1
            /\ \A i \in 1..Len(inflight) : inflight'[i] = inflight[i]
            /\ inflight'[Len(inflight) + 1].msg = m
        BY <1>2, <3>2, AppendIndex DEF LineTypes
      <4>2. Len(inflight) + 1 \in 1..Len(inflight')
        BY <4>1
      <4> QED
        BY <4>1, <4>2
    <3> QED
      BY <1>5, <3>1, <3>2
  <2>4. NothingLost => NothingLost'
    BY <1>1, <1>2, <1>3, <2>1, <2>3, SendKept
  <2> QED
    BY <2>2, <2>4
<1>7. CASE DeliveFails
  <2>1. batch' = <<>> /\ toClient' = <<>> /\ toServer' = <<>> /\ link' = "down"
    BY <1>7 DEF DeliveFails
  <2>2. batch' \in {<<>>, Tail(batch)}
    BY <2>1
  <2>3. /\ FlightRow' /\ \A i \in 1..Len(inflight') : Safe(inflight'[i].msg)
        /\ \A i \in 1..Len(inflight') : qosOf[inflight'[i].msg] > 0
    BY <1>1, <1>2, <1>3, <1>5, <2>2, LowFlight
  <2>4. inflight' \in Seq(InFlight)
    BY DeliveSpends
  <2>5. WaitRow'
    <3>1. Len(batch') = 0
      BY <2>1
    <3> QED
      BY <1>1, <3>1 DEF LowInv, WaitRow, Increasing, Below, UpTo
  <2>6. LowInv'
    BY <1>1, <2>1, <2>3, <2>4, <2>5, LowCut
  <2>7. ~DeliveSends
    BY <1>1, <2>1 DEF DeliveSends
  <2> QED
    BY <2>6, <2>7
<1> QED
  BY <1>6, <1>7

\* handle_pub_ack takes the first message in flight.
LEMMA AcknowledgeLow ==
  ASSUME IInv, LowInv, HandlePubAck
  PROVE  LowInv' /\ (NothingLost => NothingLost')
<1>1. LineTypes
  BY IInvLineTypes
<1>2. toServer # <<>> /\ UNCHANGED <<held, received, arrived, qosOf>>
  BY DEF HandlePubAck, Reading, clientVars
<1>3. /\ Head(toServer).pid = inflight[1].pid /\ inflight # <<>> /\ Head(inflight) = inflight[1]
      /\ Got(inflight[1].msg)
  BY <1>1, <1>2, LowReads DEF Reply
<1>4. /\ toServer' = Tail(toServer) /\ inflight' = Tail(inflight)
      /\ UNCHANGED <<queue, batch, link, toClient, rejected>>
  BY <1>3 DEF HandlePubAck, FrontIs, Accept
<1>5. LowInv'
  BY <1>1, <1>2, <1>4, LowAcknowledge
<1>6. ASSUME NothingLost PROVE NothingLost'
  <2>1. /\ Len(inflight) \in Nat \ {0} /\ Len(inflight') = Len(inflight) - 1
        /\ \A i \in 1..(Len(inflight) - 1) : inflight'[i] = inflight[i + 1]
    BY <1>1, <1>3, <1>4, TailIndex DEF LineTypes
  <2>2. ASSUME NEW n, InLine(n) PROVE InLine(n)'
    <3>1. CASE \E r \in 1..Len(inflight) : inflight[r].msg = n
      <4>1. PICK r \in 1..Len(inflight) : inflight[r].msg = n
        BY <3>1
      <4>2. CASE r = 1
        BY <1>2, <1>3, <4>1, <4>2 DEF InLine, Got
      <4>3. CASE r # 1
        <5>1. r - 1 \in 1..Len(inflight') /\ inflight'[r - 1] = inflight[r]
          BY <2>1, <4>3
        <5> QED
          BY <4>1, <5>1 DEF InLine
      <4> QED
        BY <4>2, <4>3
    <3>2. CASE ~(\E r \in 1..Len(inflight) : inflight[r].msg = n)
      BY <1>2, <1>4, <2>2, <3>2 DEF InLine, Got
    <3> QED
      BY <3>1, <3>2
  <2> QED
    BY <1>2, <1>6, <2>2 DEF NothingLost
<1> QED
  BY <1>5, <1>6

\* The client receives in the order of the wire.
LEMMA ClientLow ==
  ASSUME IInv, LowInv, Client
  PROVE  LowInv' /\ (NothingLost => NothingLost')
<1>1. LineTypes /\ link \in {"up", "down"} /\ qosOf \in [Messages -> 0..2]
  BY IInvLineTypes DEF IInv, TypeOK
<1>2. PICK c, m : c = toClient[1] /\ m = c.msg
  OBVIOUS
<1>3. /\ toClient # <<>> /\ toClient' = Tail(toClient) /\ Head(toClient) = c
      /\ UNCHANGED <<queue, batch, inflight, link, arrived, qosOf, rejected>>
  BY <1>2 DEF Client, ClientReceives, ClientReleases, ClientTakes, sessionVars, connVars, modelVars
<1>4. link = "up"
  BY <1>1, <1>3 DEF LowInv, DownQuiet
<1>5. ~Answer(c) /\ m \in Messages
  <2>1. 1 \in 1..Len(toClient)
    BY <1>1, <1>3, TailIndex DEF LineTypes
  <2> QED
    BY <1>1, <1>2, <2>1, LowNumbers DEF LowInv, Sent
<1>6. qosOf[m] <= 1 /\ qosOf[m] \in 0..2
  BY <1>1, <1>5 DEF LowInv, LowQos
<1>7. ClientReceives
  BY <1>3, <1>5 DEF Client, ClientReleases, ClientTakes, Answer
<1>8. /\ received' = Append(received, m)
      /\ \/ qosOf[m] = 0 /\ toServer' = toServer
         \/ qosOf[m] > 0 /\ toServer' = Append(toServer, Reply("PUBACK", c.pid))
  BY <1>2, <1>3, <1>6, <1>7 DEF ClientReceives
<1>9. LowInv'
  BY <1>1, <1>2, <1>3, <1>4, <1>8, LowReceive
<1>10. ASSUME NothingLost PROVE NothingLost'
  <2>1. /\ Len(received) \in Nat /\ Len(received') = Len(received) + 1
        /\ \A i \in 1..Len(received) : received'[i] = received[i]
    <3>1. received \in Seq(Messages)
      BY <1>1 DEF LineTypes
    <3> QED
      BY <1>8, <3>1, AppendIndex
  <2>2. \A n : Got(n) => Got(n)'
    BY <2>1 DEF Got
  <2> QED
    BY <1>3, <1>10, <2>2 DEF NothingLost, InLine
<1> QED
  BY <1>9, <1>10

\* What is in flight is sent again in its order, before anything else.
LEMMA ReconnectLow ==
  ASSUME IInv, LowInv, NEW max \in ReceiveMaxes, Reconnect(max)
  PROVE  LowInv' /\ (NothingLost => NothingLost')
<1>1. LineTypes
  BY IInvLineTypes
<1>2. /\ link = "down" /\ link' = "up"
      /\ toClient' = [i \in DOMAIN inflight |-> Publish(inflight[i].pid, inflight[i].msg)]
      /\ UNCHANGED <<queue, batch, inflight, toServer, received, arrived, qosOf, rejected>>
  BY DEF Reconnect, sessionVars, clientVars
<1>3. DOMAIN inflight = 1..Len(inflight) /\ Len(inflight) \in Nat
  BY <1>1 DEF LineTypes
<1>4. /\ Len(toClient') = Len(inflight)
      /\ \A i \in 1..Len(inflight) : /\ toClient'[i].pid = inflight[i].pid
                                     /\ toClient'[i].msg = inflight[i].msg
                                     /\ ~Answer(toClient'[i])
  BY <1>2, <1>3 DEF Publish, Answer
<1>5. LowInv'
  BY <1>1, <1>2, <1>4, LowReconnect
<1>6. NothingLost => NothingLost'
  BY <1>2 DEF NothingLost, InLine, Got
<1> QED
  BY <1>5, <1>6

\* Every step keeps the rows, and loses nothing unless a send may fail.
LEMMA NextLow ==
  ASSUME QosLevels \subseteq {0, 1}, IInv, LowInv, [Next]_vars
  PROVE  LowInv' /\ (~MaySendFail /\ NothingLost => NothingLost')
<1> DEFINE Goal == LowInv' /\ (~MaySendFail /\ NothingLost => NothingLost')
<1>1. LineTypes /\ qosOf \in [Messages -> 0..2]
  BY IInvLineTypes DEF IInv, TypeOK
<1>2. CASE \E q \in QosLevels : AddMessage(q)
  <2>1. PICK q \in QosLevels : AddMessage(q)
    BY <1>2
  <2>2. /\ arrived' = arrived + 1 /\ qosOf' = [qosOf EXCEPT ![arrived + 1] = q] /\ q <= 1
        /\ queue' = Append(queue, arrived + 1)
        /\ UNCHANGED <<inflight, link, batch, toClient, toServer, held, received, rejected>>
    BY <2>1 DEF AddMessage, connVars, netVars, clientVars
  <2>3. LowInv'
    BY <1>1, <2>2, LowArrival
  <2>4. NothingLost => NothingLost'
    BY <1>1, <2>2, ArrivalKept
  <2> QED
    BY <2>3, <2>4
<1>3. CASE HandleNotified
  <2>1. /\ batch = <<>> /\ TakeBatch(quota)
        /\ UNCHANGED <<inflight, link, toClient, toServer, held, received, arrived, qosOf, rejected>>
    BY <1>3 DEF HandleNotified, Idle, netVars, clientVars, modelVars
  <2>2. quota \in Nat
    BY OutboundAssumption DEF IInv, TypeOK, OutboundAssumption
  <2>3. LowInv'
    BY <1>1, <2>1, <2>2, LowTake
  <2>4. NothingLost => NothingLost'
    BY <1>1, <2>1, <2>2, TakeKept
  <2> QED
    BY <2>3, <2>4
<1>4. CASE DeliveSends
  <2>1. Delive
    BY <1>4 DEF DeliveSends
  <2> QED
    BY <1>4, <2>1, DeliverLow
<1>5. CASE DeliveFails
  <2>1. Delive /\ MaySendFail
    BY <1>5 DEF DeliveFails
  <2> QED
    BY <1>5, <2>1, DeliverLow
<1>6. CASE HandlePubAck
  BY <1>6, AcknowledgeLow
<1>7. ASSUME HandlePubRec \/ HandlePubRecError \/ HandlePubComp PROVE FALSE
  <2>1. toServer # <<>> /\ Head(toServer).type # "PUBACK"
    BY <1>7 DEF HandlePubRec, HandlePubRecError, HandlePubComp, Reading
  <2> QED
    BY <1>1, <2>1, LowReads DEF Reply
<1>8. CASE Client
  BY <1>8, ClientLow
<1>9. CASE Drop
  <2>1. /\ link' = "down" /\ toClient' = <<>> /\ toServer' = <<>>
        /\ UNCHANGED <<queue, inflight, batch, received, arrived, qosOf, rejected>>
    BY <1>9 DEF Drop, sessionVars, clientVars, modelVars
  <2>2. FlightRow' /\ WaitRow'
    BY <2>1 DEF LowInv, FlightRow, WaitRow, Increasing, Below, UpTo
  <2>3. /\ \A i \in 1..Len(inflight') : Safe(inflight'[i].msg)
        /\ \A i \in 1..Len(inflight') : qosOf[inflight'[i].msg] > 0
        /\ inflight' \in Seq(InFlight)
    BY <1>1, <2>1 DEF LowInv, SafeRow, Acks, LineTypes
  <2>4. LowInv'
    BY <2>1, <2>2, <2>3, LowCut
  <2>5. NothingLost => NothingLost'
    BY <2>1 DEF NothingLost, InLine, Got
  <2> QED
    BY <2>4, <2>5
<1>10. CASE \E max \in ReceiveMaxes : Reconnect(max)
  BY <1>10, ReconnectLow
<1>11. CASE UNCHANGED vars
  <2>1. UNCHANGED <<queue, inflight, link, batch, toClient, toServer, received, arrived, qosOf, rejected>>
    BY <1>11 DEF vars, sessionVars, connVars, netVars, clientVars, modelVars
  <2>2. LowQos' /\ DownQuiet' /\ Acks' /\ Sent'
    BY <2>1 DEF LowInv, LowQos, DownQuiet, Acks, Sent, Got, Waiting, Carries
  <2>3. FlightRow' /\ ClientRow' /\ WaitRow'
    BY <2>1 DEF LowInv, FlightRow, ClientRow, WaitRow, Increasing, Below, UpTo
  <2>4. SafeRow' /\ NoneOvertakes(received)' /\ ~rejected'
    BY <2>1 DEF LowInv, SafeRow, Safe, NoneOvertakes
  <2>5. NothingLost => NothingLost'
    BY <2>1 DEF NothingLost, InLine, Got
  <2> QED
    BY <2>2, <2>3, <2>4, <2>5 DEF LowInv
<1> QED
  BY <1>2, <1>3, <1>4, <1>5, <1>6, <1>7, <1>8, <1>9, <1>10, <1>11 DEF Next, Server

\* At the beginning the rows are empty.
LEMMA InitLow == ASSUME Init PROVE LowInv /\ NothingLost
<1>1. LowQos /\ DownQuiet /\ Acks /\ Sent
  BY DEF Init, LowQos, DownQuiet, Acks, Sent
<1>2. FlightRow /\ ClientRow /\ WaitRow
  BY DEF Init, FlightRow, ClientRow, WaitRow, Increasing, Below, UpTo
<1>3. SafeRow /\ NoneOvertakes(received) /\ ~rejected
  BY DEF Init, SafeRow, NoneOvertakes
<1>4. NothingLost
  BY DEF Init, NothingLost, Messages
<1> QED
  BY <1>1, <1>2, <1>3, <1>4 DEF LowInv

\* Over all connections of a session whose messages have QoS 0 or QoS 1, with
\* connections lost at any time, also while a batch goes out, the client gets
\* them for the first time in the order they arrived (handle_connect sends the
\* packets in flight again before delive sends another).
THEOREM LowInOrder ==
  ASSUME QosLevels \subseteq {0, 1}
  PROVE  Spec => []InOrder
<1>1. Init => LowInv
  BY InitLow
<1>2. IInv /\ LowInv /\ [Next]_vars => (IInv /\ LowInv)'
  BY NextIInv, NextLow
<1>3. IInv /\ LowInv => InOrder
  <2> SUFFICES ASSUME IInv, LowInv PROVE InOrder
    OBVIOUS
  <2>1. received \in Seq(Messages) /\ Len(received) \in Nat /\ DOMAIN received = 1..Len(received)
    BY DEF IInv, TypeOK
  <2>2. ASSUME NEW i \in DOMAIN received, NEW j \in DOMAIN received, i < j, received[j] < received[i]
        PROVE  received[j] \in ToSet(SubSeq(received, 1, i))
    <3>1. PICK h \in 1..i : received[h] = received[j]
      BY <2>1, <2>2 DEF LowInv, NoneOvertakes
    <3>2. SubSeq(received, 1, i)[h] = received[j] /\ h \in DOMAIN SubSeq(received, 1, i)
      BY <2>1, <3>1
    <3> QED
      BY <3>2 DEF ToSet
  <2> QED
    BY <2>2 DEF InOrder
<1> QED
  BY <1>1, <1>2, <1>3, InitIInv, PTL DEF Spec

\* In such a session a client that acknowledges what it receives, in order, is
\* never thrown out by handle_pub_ack, although after a reconnect the allocator
\* starts at 1 again and two packets in flight may carry the same identifier.
THEOREM LowClientKept ==
  ASSUME QosLevels \subseteq {0, 1}
  PROVE  Spec => []ConformingClientKept
<1>1. Init => LowInv
  BY InitLow
<1>2. IInv /\ LowInv /\ [Next]_vars => (IInv /\ LowInv)'
  BY NextIInv, NextLow
<1>3. LowInv => ConformingClientKept
  BY DEF LowInv, ConformingClientKept
<1> QED
  BY <1>1, <1>2, <1>3, InitIInv, PTL DEF Spec

\* In such a session no QoS 1 message is lost, however often the connection is
\* lost while its task is idle: it is in the queue, in the batch or in flight
\* until the client has it.
THEOREM LowAtLeastOnce ==
  ASSUME QosLevels \subseteq {0, 1}, ~MaySendFail
  PROVE  Spec => []AtLeastOnce
<1>1. Init => LowInv /\ NothingLost
  BY InitLow
<1>2. IInv /\ LowInv /\ NothingLost /\ [Next]_vars => (IInv /\ LowInv /\ NothingLost)'
  BY NextIInv, NextLow
<1>3. IInv /\ NothingLost => AtLeastOnce
  BY KeptAtLeastOnce
<1> QED
  BY <1>1, <1>2, <1>3, InitIInv, PTL DEF Spec
=============================================================================
