----------------------------- MODULE OutboundFlow -----------------------------
(***************************************************************************)
(* From a session's queue to its client: quota, packet identifiers,        *)
(* acknowledgements and retransmission after a reconnect.                  *)
(*                                                                         *)
(* One client session and the connections that serve it one after the      *)
(* other.  queue, inflight and permit live in the Session and survive a    *)
(* connection; quota, nextPid and qos2 are fields of Connection and start  *)
(* afresh.  The task handles one event of its select! loop at a time, but  *)
(* it awaits each send, so messages are queued while a batch goes out.     *)
(*                                                                         *)
(* The client is the environment: it follows MQTT (acknowledges what it    *)
(* receives, in order, and keeps the identifiers of QoS 2 messages until   *)
(* they are released), except that it may refuse a QoS 2 message.          *)
(***************************************************************************)
EXTENDS Integers, SequencesExt

CONSTANTS
  Level,           \* protocol level of the client, "V4" or "V5"
  QosLevels,       \* QoS of the messages that arrive for the session
  ReceiveMaxes,    \* Receive Maximum values the client may connect with
  MaxPacketId,     \* u16::MAX
  UsizeSize,       \* number of values of usize
  MayRefuse,       \* the client may answer PUBREC with an error code
  MaxMessages,     \* bound on the messages that arrive
  MayDrop,         \* a connection may be lost while its task is idle
  MaySendFail,     \* a connection may be lost while a batch is going out
  MaxReconnects    \* bound on the client's reconnects

ASSUME OutboundAssumption ==
  /\ Level \in {"V4", "V5"}
  /\ QosLevels \subseteq 0..2
  /\ ReceiveMaxes \subseteq 1..(UsizeSize - 1)
  /\ MaxPacketId \in Nat \ {0}
  /\ UsizeSize \in Nat \ {0}
  /\ MayRefuse \in BOOLEAN
  /\ MayDrop \in BOOLEAN /\ MaySendFail \in BOOLEAN
  /\ MaxMessages \in Nat /\ MaxReconnects \in Nat

VARIABLES
  \* the Session
  queue,       \* messages waiting
  inflight,    \* inflight_pub_packets
  permit,      \* the Notify holds a permit
  \* the Connection
  link,        \* "up": the task serves a network connection; "down": none
  receiveMax,  \* receive_out_max
  quota,       \* receive_out_quota
  nextPid,     \* packet_id_allocator
  qos2,        \* inflight_qos2_messages, "None" for an absent entry
  batch,       \* messages handle_notified has popped and not delivered yet
  \* the network connection
  toClient, toServer,
  \* the client
  held,        \* identifiers of QoS 2 messages received and not released
  received,    \* messages handed to the application, in order
  \* bookkeeping of the model
  arrived,     \* messages that arrived so far; message n is the n-th
  qosOf,       \* qosOf[n]: QoS of message n
  resent,      \* packets in flight when the connection was made
  rejected,    \* the server has disconnected the client with ProtocolError
  reconnects

sessionVars == <<queue, inflight, permit>>
connVars    == <<link, receiveMax, quota, nextPid, qos2, batch>>
netVars     == <<toClient, toServer>>
clientVars  == <<held, received>>
modelVars   == <<arrived, qosOf, resent, rejected, reconnects>>
vars == <<sessionVars, connVars, netVars, clientVars, modelVars>>

-----------------------------------------------------------------------------
PacketIds == 1..MaxPacketId
Messages  == 1..MaxMessages

\* A Publish in flight is known by its packet identifier and its message.
InFlight == [pid : PacketIds, msg : Messages]

Publish(p, m)  == [type |-> "PUBLISH", pid |-> p, msg |-> m]
Reply(t, p)    == [type |-> t, pid |-> p]
Qos2States     == {"None", "Published", "Recorded"}

TypeOK ==
  /\ queue \in Seq(Messages)
  /\ inflight \in Seq(InFlight)
  /\ permit \in BOOLEAN
  /\ link \in {"up", "down"}
  /\ receiveMax \in ReceiveMaxes
  /\ quota \in 0..(UsizeSize - 1)
  /\ nextPid \in PacketIds
  /\ qos2 \in [PacketIds -> Qos2States]
  /\ batch \in Seq(Messages)
  /\ held \subseteq PacketIds
  /\ received \in Seq(Messages)
  /\ arrived \in 0..MaxMessages
  /\ qosOf \in [Messages -> 0..2]
  /\ resent \in Nat
  /\ rejected \in BOOLEAN
  /\ reconnects \in 0..MaxReconnects

NoQos2State == [p \in PacketIds |-> "None"]

\* The session is new and its first connection is up.
Init ==
  /\ queue = <<>> /\ inflight = <<>> /\ permit = FALSE
  /\ link = "up"
  /\ receiveMax \in ReceiveMaxes
  /\ quota = receiveMax
  /\ nextPid = 1
  /\ qos2 = NoQos2State
  /\ batch = <<>>
  /\ toClient = <<>> /\ toServer = <<>>
  /\ held = {} /\ received = <<>>
  /\ arrived = 0
  /\ qosOf = [n \in Messages |-> 0]
  /\ resent = 0
  /\ rejected = FALSE
  /\ reconnects = 0

-----------------------------------------------------------------------------
(* Storage.                                                                *)

\* Session::add_message: another task delivers a message to this session.
AddMessage(q) ==
  /\ arrived < MaxMessages
  /\ arrived' = arrived + 1
  /\ qosOf' = [qosOf EXCEPT ![arrived + 1] = q]
  /\ queue' = Append(queue, arrived + 1)
  /\ permit' = TRUE
  /\ UNCHANGED <<inflight, connVars, netVars, clientVars, resent, rejected,
                 reconnects>>

\* Storage::get_inflight_pub_packets looks at the front of the queue only.
BugLooksAtBack(p) == inflight # <<>> /\ inflight[Len(inflight)].pid = p
FrontIs(p) == inflight # <<>> /\ Head(inflight).pid = p

-----------------------------------------------------------------------------
(* The connection task.                                                    *)

\* The task is in its select! loop, not in the middle of a batch.
Idle == link = "up" /\ batch = <<>>

Lesser(a, b) == IF a < b THEN a ELSE b

\* Definitions whose name begins with Bug are faults seeded to show that the
\* properties below notice them; no other definition uses them.

\* handle_notified with q send credits: Storage::next_messages(Some(q)).
BugRestForgotten(q) ==
  /\ batch' = SubSeq(queue, 1, Lesser(q, Len(queue)))
  /\ queue' = <<>>
BugNewestFirst(q) ==
  LET n == Lesser(q, Len(queue)) IN
  /\ batch' = SubSeq(queue, Len(queue) - n + 1, Len(queue))
  /\ queue' = SubSeq(queue, 1, Len(queue) - n)
TakeBatch(q) ==
  LET n == Lesser(q, Len(queue)) IN
  /\ batch' = SubSeq(queue, 1, n)
  /\ queue' = SubSeq(queue, n + 1, Len(queue))

HandleNotified ==
  /\ Idle
  /\ permit
  /\ permit' = FALSE
  /\ TakeBatch(quota)
  /\ UNCHANGED <<inflight, link, receiveMax, quota, nextPid, qos2, netVars,
                 clientVars, modelVars>>

\* PacketIdAllocator::take
BugNoWrap(p) == p + 1
BugNotAdvanced(p) == p
PidAfter(p) == IF p = MaxPacketId THEN 1 ELSE p + 1

\* Connection::delive up to its send_packet.
Delive ==
  LET m == Head(batch) IN
  /\ batch # <<>>
  /\ IF qosOf[m] = 0
       THEN UNCHANGED <<nextPid, quota, inflight, qos2>>
       ELSE /\ nextPid' = PidAfter(nextPid)
            /\ quota' = (quota - 1) % UsizeSize
            /\ inflight' = Append(inflight, [pid |-> nextPid, msg |-> m])
            /\ qos2' = [qos2 EXCEPT ![nextPid] = "Published"]
  /\ UNCHANGED <<queue, permit, receiveMax, clientVars, arrived, qosOf, resent,
                 rejected, reconnects>>

DeliveSends ==
  /\ Delive
  /\ batch' = Tail(batch)
  /\ toClient' = Append(toClient, Publish(nextPid, Head(batch)))
  /\ UNCHANGED <<link, toServer>>

\* The send fails: handle_notified returns with the rest of the batch in hand.
DeliveFails ==
  /\ MaySendFail
  /\ Delive
  /\ batch' = <<>>
  /\ link' = "down"
  /\ toClient' = <<>> /\ toServer' = <<>>

\* A handler returned ProtocolError: DISCONNECT, and the loop ends.
Reject ==
  /\ rejected' = TRUE
  /\ link' = "down"
  /\ toClient' = <<>> /\ toServer' = <<>>
  /\ UNCHANGED <<sessionVars, receiveMax, quota, nextPid, qos2, batch>>

\* Packet t is next on the connection, and the task reads it.
Reading(t) ==
  /\ Idle
  /\ toServer # <<>> /\ Head(toServer).type = t
  /\ UNCHANGED <<clientVars, arrived, qosOf, resent, reconnects>>
Accept == UNCHANGED <<link, rejected>> /\ toServer' = Tail(toServer)

HandlePubAck ==
  LET p == Head(toServer).pid IN
  /\ Reading("PUBACK")
  /\ IF FrontIs(p)
       THEN /\ Accept
            /\ inflight' = Tail(inflight)
            /\ quota' = (quota + 1) % UsizeSize
            /\ UNCHANGED <<queue, permit, receiveMax, nextPid, qos2, batch, toClient>>
       ELSE Reject

\* *state = Qos2State::Recorded
BugEntryRemoved(p) == [qos2 EXCEPT ![p] = "None"]
Recorded(p) == [qos2 EXCEPT ![p] = "Recorded"]

\* PUBREC with a success code.
HandlePubRec ==
  LET p    == Head(toServer).pid
      code == IF FrontIs(p) THEN "PUBREL" ELSE "PUBREL_NOT_FOUND"
  IN
  /\ Reading("PUBREC")
  /\ IF qos2[p] = "Published" /\ (FrontIs(p) \/ Level = "V5")
       THEN /\ Accept
            /\ qos2' = Recorded(p)
            /\ toClient' = Append(toClient, Reply(code, p))
            /\ UNCHANGED <<sessionVars, receiveMax, quota, nextPid, batch>>
       ELSE Reject

\* PUBREC with an error code: the message is dropped, its credit is not
\* given back and its qos2 entry stays.
HandlePubRecError ==
  LET p == Head(toServer).pid IN
  /\ Reading("PUBREC_ERROR")
  /\ IF qos2[p] = "Published" /\ FrontIs(p)
       THEN /\ Accept
            /\ qos2' = Recorded(p)
            /\ inflight' = Tail(inflight)
            /\ UNCHANGED <<queue, permit, receiveMax, quota, nextPid, batch, toClient>>
       ELSE Reject

\* handle_pub_comp ends with handle_notified.
BugNotDrained(q) == UNCHANGED <<queue, batch>>
Refill(q) == TakeBatch(q)

HandlePubComp ==
  LET p == Head(toServer).pid IN
  /\ Reading("PUBCOMP")
  /\ IF qos2[p] = "Recorded"
       THEN /\ Accept
            /\ qos2' = [qos2 EXCEPT ![p] = "None"]
            /\ IF FrontIs(p)
                 THEN /\ inflight' = Tail(inflight)
                      /\ quota' = (quota + 1) % UsizeSize
                      /\ Refill(quota')
                 ELSE UNCHANGED <<inflight, quota, queue, batch>>
            /\ UNCHANGED <<permit, receiveMax, nextPid, toClient>>
       ELSE Reject

-----------------------------------------------------------------------------
(* Losing the connection and coming back.                                  *)

Drop ==
  /\ Idle
  /\ MayDrop
  /\ link' = "down"
  /\ toClient' = <<>> /\ toServer' = <<>>
  /\ UNCHANGED <<sessionVars, receiveMax, quota, nextPid, qos2, batch, clientVars,
                 modelVars>>

\* receive_out_quota -= 1 for every packet sent again, without a check.
BugResentFree(max) == max
CreditsAfterResend(max) == (max - Len(inflight)) % UsizeSize

\* handle_connect with Clean Start 0 on a session that is present: fresh
\* connection state, and every packet in flight is sent again.
Reconnect(max) ==
  /\ link = "down"
  /\ reconnects < MaxReconnects
  /\ reconnects' = reconnects + 1
  /\ link' = "up"
  /\ receiveMax' = max
  /\ quota' = CreditsAfterResend(max)
  /\ nextPid' = 1
  /\ qos2' = NoQos2State
  /\ resent' = Len(inflight)
  /\ toClient' = [i \in DOMAIN inflight |-> Publish(inflight[i].pid, inflight[i].msg)]
  /\ UNCHANGED <<sessionVars, batch, toServer, clientVars, arrived, qosOf,
                 rejected>>

-----------------------------------------------------------------------------
(* The client.                                                             *)

ClientTakes(t) ==
  /\ toClient # <<>> /\ Head(toClient).type = t
  /\ toClient' = Tail(toClient)
  /\ UNCHANGED <<sessionVars, connVars, modelVars>>

ClientReceives ==
  LET p == Head(toClient).pid
      m == Head(toClient).msg
  IN
  /\ ClientTakes("PUBLISH")
  /\ \/ /\ qosOf[m] = 0
        /\ received' = Append(received, m)
        /\ UNCHANGED <<held, toServer>>
     \/ /\ qosOf[m] = 1
        /\ received' = Append(received, m)
        /\ toServer' = Append(toServer, Reply("PUBACK", p))
        /\ UNCHANGED held
     \/ /\ qosOf[m] = 2
        /\ received' = IF p \in held THEN received ELSE Append(received, m)
        /\ held' = held \union {p}
        /\ toServer' = Append(toServer, Reply("PUBREC", p))
     \/ /\ qosOf[m] = 2 /\ MayRefuse /\ p \notin held
        /\ received' = Append(received, m)
        /\ toServer' = Append(toServer, Reply("PUBREC_ERROR", p))
        /\ UNCHANGED held

ClientReleases ==
  /\ \/ ClientTakes("PUBREL")
     \/ ClientTakes("PUBREL_NOT_FOUND")
  /\ held' = held \ {Head(toClient).pid}
  /\ toServer' = Append(toServer, Reply("PUBCOMP", Head(toClient).pid))
  /\ UNCHANGED received

-----------------------------------------------------------------------------
Server == \/ HandleNotified
          \/ DeliveSends
          \/ HandlePubAck
          \/ HandlePubRec
          \/ HandlePubRecError
          \/ HandlePubComp
Client == ClientReceives \/ ClientReleases

Next ==
  \/ \E q \in QosLevels : AddMessage(q)
  \/ Server
  \/ DeliveFails
  \/ Client
  \/ Drop
  \/ \E max \in ReceiveMaxes : Reconnect(max)

Spec == Init /\ [][Next]_vars

\* The executor runs the task when one of its branches is ready (select! polls
\* them in random order, so none is passed over for ever), and the client
\* answers what it receives.
FairSpec ==
  /\ Spec
  /\ SF_vars(HandleNotified)
  /\ SF_vars(HandlePubAck \/ HandlePubRec \/ HandlePubRecError \/ HandlePubComp)
  /\ WF_vars(DeliveSends)
  /\ WF_vars(Client)

-----------------------------------------------------------------------------
\* The messages the broker still holds for the session.
Pending == ToSet(queue) \union ToSet(batch)
             \union {e.msg : e \in ToSet(inflight)}

\* The credits left and the packets in flight never add up to more than the
\* client's Receive Maximum, unless more than that was in flight already when
\* it connected (handle_connect subtracts without a check).  receive_out_quota
\* goes down in delive and up in handle_pub_ack and handle_pub_comp, the
\* in-flight queue changes in Storage.
WithinReceiveMax ==
  resent <= receiveMax => Len(inflight) + quota <= receiveMax

\* A QoS 1 or QoS 2 message that arrived for the session is still held or has
\* reached the client.
AtLeastOnce ==
  \A n \in 1..arrived : qosOf[n] > 0 => n \in Pending \union ToSet(received)

\* The client's Receive Maximum leaves an identifier for every packet in flight.
\* handle_connect takes usize::MAX for a client that names none, and every V4
\* client is one: PacketIdAllocator::take then hands out identifiers that are
\* still in flight, and a QoS 2 message that gets one is taken for a copy of the
\* other.
IdsSuffice == receiveMax <= MaxPacketId

\* A QoS 2 message reaches the application of a client that names a Receive
\* Maximum once, and is not lost either: delive, handle_pub_rec,
\* handle_pub_comp.
ExactlyOnce ==
  IdsSuffice =>
    /\ \A n \in 1..arrived : qosOf[n] = 2 => n \in Pending \union ToSet(received)
    /\ \A i, j \in DOMAIN received :
         received[i] = received[j] /\ qosOf[received[i]] = 2 => i = j

\* Messages reach the application for the first time in the order they
\* arrived; a retransmission may repeat one, never overtake it.
InOrder ==
  \A i, j \in DOMAIN received :
    i < j /\ received[j] < received[i] => received[j] \in ToSet(SubSeq(received, 1, i))

\* No two packets in flight carry the same packet identifier as long as there
\* are enough for all of them, also after there were not: PacketIdAllocator::take
\* does not look at what is in flight, and only a Receive Maximum bounds that.
PacketIdsDistinct ==
  Len(inflight) <= MaxPacketId =>
    \A i, j \in DOMAIN inflight : inflight[i].pid = inflight[j].pid => i = j

\* A client that follows the protocol is not thrown out for a protocol error.
ConformingClientKept == ~rejected

\* Every message is received while the client stays connected, if it names a
\* Receive Maximum: handle_notified, delive, handle_pub_comp.
EventuallyReceived ==
  \A n \in Messages : arrived >= n /\ IdsSuffice ~> n \in ToSet(received)
=============================================================================
