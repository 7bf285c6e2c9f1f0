------------------------------ MODULE InboundFlow ------------------------------
(***************************************************************************)
(* PUBLISH packets from a client to the broker.                            *)
(*                                                                         *)
(* The connection task keeps a QoS 2 message in uncompleted_messages from  *)
(* PUBLISH to PUBREL and counts it against receive_in_quota; both are      *)
(* fields of Connection and are gone when the connection is.               *)
(*                                                                         *)
(* The client is the environment.  It follows MQTT: one identifier per     *)
(* message until it is done, no more than Receive Maximum QoS 2 messages   *)
(* unfinished, PUBLISH or PUBREL again after a reconnect.  Rogue packets   *)
(* reuse identifiers, ignore the Receive Maximum or release anything.      *)
(***************************************************************************)
EXTENDS Integers, Sequences, FiniteSets

CONSTANTS
  Level,         \* protocol level of the client, "V4" or "V5"
  QosLevels,     \* QoS of the messages the client publishes
  ReceiveMax,    \* ServiceConfig.receive_max
  PacketIds,     \* packet identifiers the client uses
  MaxRogue,      \* bound on the packets of the client that fit nothing
  MayDrop,       \* the connection may be lost
  MaxMessages,   \* bound on the messages published
  MaxReconnects, \* bound on the client's reconnects
  MaxInTransit,  \* bound on the packets on their way in each direction
  None           \* no message

ASSUME InboundAssumption ==
  /\ Level \in {"V4", "V5"}
  /\ QosLevels \subseteq 0..2
  /\ ReceiveMax \in Nat
  /\ IsFiniteSet(PacketIds)
  /\ MaxRogue \in Nat /\ MayDrop \in BOOLEAN
  /\ MaxMessages \in Nat /\ MaxReconnects \in Nat /\ MaxInTransit \in Nat
  /\ None \notin Nat

VARIABLES
  \* the Connection
  link,        \* "up": the task serves a network connection; "down": none
  quota,       \* receive_in_quota
  uncompleted, \* uncompleted_messages
  \* the network connection
  toServer, toClient,
  \* the client
  sender,      \* sender[p]: what the client is doing with identifier p
  \* bookkeeping of the model
  published,   \* messages published so far; message n is the n-th
  qosOf,       \* qosOf[n]: QoS of message n
  delivered,   \* delivered[n]: how often the broker has delivered message n
  rejected,    \* the broker has thrown the client out
  reconnects,
  rogue         \* packets sent that fit nothing

connVars  == <<link, quota, uncompleted>>
modelVars == <<published, qosOf, rejected, reconnects, rogue>>
vars == <<connVars, toServer, toClient, sender, modelVars, delivered>>

-----------------------------------------------------------------------------
Messages == 1..MaxMessages

Free == [state |-> "free", msg |-> None]
SenderStates == {"free", "published", "released"}

PublishPacket(q, p, n) == [type |-> "PUBLISH", qos |-> q, pid |-> p, msg |-> n]
PubRel(p)              == [type |-> "PUBREL", pid |-> p]
PubRelError(p)         == [type |-> "PUBREL_ERROR", pid |-> p]
Answer(t, p)           == [type |-> t, pid |-> p]

ClientPacket ==
  [type : {"PUBLISH"}, qos : 0..2, pid : PacketIds, msg : Messages]
    \union [type : {"PUBREL", "PUBREL_ERROR"}, pid : PacketIds]
ServerPacket ==
  [type : {"PUBACK", "PUBREC", "PUBREC_ERROR", "PUBCOMP"}, pid : PacketIds]

TypeOK ==
  /\ link \in {"up", "down"}
  /\ quota \in 0..ReceiveMax
  /\ uncompleted \in [PacketIds -> Messages \union {None}]
  /\ toServer \in Seq(ClientPacket)
  /\ toClient \in Seq(ServerPacket)
  /\ sender \in [PacketIds -> [state : SenderStates, msg : Messages \union {None}]]
  /\ published \in 0..MaxMessages
  /\ qosOf \in [Messages -> 0..2]
  /\ delivered \in [Messages -> Nat]
  /\ rejected \in BOOLEAN
  /\ reconnects \in 0..MaxReconnects
  /\ rogue \in 0..MaxRogue

NoMessages == [p \in PacketIds |-> None]

Init ==
  /\ link = "up" /\ quota = ReceiveMax /\ uncompleted = NoMessages
  /\ toServer = <<>> /\ toClient = <<>>
  /\ sender = [p \in PacketIds |-> Free]
  /\ published = 0 /\ qosOf = [n \in Messages |-> 0]
  /\ delivered = [n \in Messages |-> 0]
  /\ rejected = FALSE /\ reconnects = 0 /\ rogue = 0

-----------------------------------------------------------------------------
(* The connection task.                                                    *)

\* Definitions whose name begins with Bug are faults seeded to show that the
\* properties below notice them; no other definition uses them.

\* Storage::deliver hands message n to the subscribers.
BugLost(n) == UNCHANGED delivered
Deliver(n) == delivered' = [delivered EXCEPT ![n] = @ + 1]

\* A QoS 2 message is not delivered before its PUBREL.
BugEager(n) == delivered' = [delivered EXCEPT ![n] = @ + 1]
HoldBack(n) == UNCHANGED delivered

\* receive_in_quota -= 1, receive_in_quota += 1
BugNotTaken == quota
CreditTaken == quota - 1
BugNotReturned == quota
CreditReturned == quota + 1

\* uncompleted_messages.remove(packet_id)
BugOnlyRead(p) == uncompleted
Released(p) == [uncompleted EXCEPT ![p] = None]

\* Packet t is next on the connection, and the task reads it.
Reading(t) ==
  /\ link = "up"
  /\ toServer # <<>> /\ Head(toServer).type = t
  /\ UNCHANGED <<sender, published, qosOf, reconnects, rogue>>

\* The task answers (with nothing, if a is empty) and reads on; or the answer
\* cannot be sent and the loop ends, what was done before it stays done.
Reply(a) ==
  /\ UNCHANGED rejected
  /\ \/ /\ toServer' = Tail(toServer)
        /\ toClient' = toClient \o a
        /\ UNCHANGED link
     \/ /\ a # <<>> /\ MayDrop
        /\ link' = "down"
        /\ toServer' = <<>> /\ toClient' = <<>>

\* ReceiveMaximumExceeded or ProtocolError: DISCONNECT, and the loop ends.
Reject ==
  /\ rejected' = TRUE
  /\ link' = "down"
  /\ toServer' = <<>> /\ toClient' = <<>>
  /\ UNCHANGED <<quota, uncompleted, delivered>>

HandlePublish0 ==
  /\ Reading("PUBLISH") /\ Head(toServer).qos = 0
  /\ Deliver(Head(toServer).msg)
  /\ Reply(<<>>)
  /\ UNCHANGED <<quota, uncompleted>>

HandlePublish1 ==
  /\ Reading("PUBLISH") /\ Head(toServer).qos = 1
  /\ Deliver(Head(toServer).msg)
  /\ Reply(<<Answer("PUBACK", Head(toServer).pid)>>)
  /\ UNCHANGED <<quota, uncompleted>>

\* The quota is looked at before the identifier is, and the map entry is
\* overwritten before the identifier is found to be in use.
HandlePublish2 ==
  LET p == Head(toServer).pid
      n == Head(toServer).msg
  IN
  /\ Reading("PUBLISH") /\ Head(toServer).qos = 2
  /\ IF quota = 0 \/ (uncompleted[p] # None /\ Level = "V4")
       THEN Reject
       ELSE /\ uncompleted' = [uncompleted EXCEPT ![p] = n]
            /\ IF uncompleted[p] # None
                 THEN /\ Reply(<<Answer("PUBREC_ERROR", p)>>)
                      /\ UNCHANGED quota
                 ELSE /\ quota' = CreditTaken
                      /\ Reply(<<Answer("PUBREC", p)>>)
            /\ HoldBack(n)

\* A failed PUBCOMP ends the loop before the credit is given back, and with
\* the loop the quota.
HandlePubRel ==
  LET p == Head(toServer).pid IN
  /\ Reading("PUBREL")
  /\ IF uncompleted[p] # None
       THEN /\ uncompleted' = Released(p)
            /\ Deliver(uncompleted[p])
            /\ Reply(<<Answer("PUBCOMP", p)>>)
            /\ quota' = IF link' = "up" THEN CreditReturned ELSE quota
       ELSE IF Level = "V5"
              THEN /\ Reply(<<Answer("PUBCOMP", p)>>)
                   /\ UNCHANGED <<quota, uncompleted, delivered>>
              ELSE Reject

\* PUBREL with a reason code other than success: the message is dropped and
\* its credit is not given back.
HandlePubRelError ==
  LET p == Head(toServer).pid IN
  /\ Reading("PUBREL_ERROR")
  /\ IF uncompleted[p] # None
       THEN /\ uncompleted' = Released(p)
            /\ Reply(<<>>)
            /\ UNCHANGED <<quota, delivered>>
       ELSE IF Level = "V5"
              THEN /\ Reply(<<Answer("PUBCOMP", p)>>)
                   /\ UNCHANGED <<quota, uncompleted, delivered>>
              ELSE Reject

-----------------------------------------------------------------------------
(* Losing the connection and coming back.                                  *)

Drop ==
  /\ link = "up"
  /\ MayDrop
  /\ link' = "down"
  /\ toServer' = <<>> /\ toClient' = <<>>
  /\ UNCHANGED <<quota, uncompleted, sender, modelVars, delivered>>

\* What the client sends again, in the order of seq.
Unfinished(seq) ==
  [i \in DOMAIN seq |->
     LET p == seq[i] IN
     IF sender[p].state = "published"
       THEN PublishPacket(qosOf[sender[p].msg], p, sender[p].msg)
       ELSE PubRel(p)]

\* A new connection starts with an empty map and a full quota.
Reconnect ==
  /\ link = "down"
  /\ reconnects < MaxReconnects
  /\ reconnects' = reconnects + 1
  /\ link' = "up" /\ quota' = ReceiveMax /\ uncompleted' = NoMessages
  /\ LET busy == {p \in PacketIds : sender[p].state # "free"} IN
     \E seq \in [1..Cardinality(busy) -> busy] :
       /\ {seq[i] : i \in DOMAIN seq} = busy
       /\ toServer' = Unfinished(seq)
  /\ UNCHANGED <<toClient, sender, published, qosOf, delivered, rejected, rogue>>

-----------------------------------------------------------------------------
(* The client.                                                             *)

CanSend == link = "up" /\ Len(toServer) < MaxInTransit /\ Len(toClient) < MaxInTransit

Unreleased == {p \in PacketIds : /\ sender[p].state # "free"
                                 /\ qosOf[sender[p].msg] = 2}

\* A QoS 0 message has no identifier; the model gives it one to travel with.
ClientPublishes(q, p) ==
  LET n == published + 1 IN
  /\ CanSend
  /\ published < MaxMessages
  /\ sender[p].state = "free"
  /\ q = 2 => Cardinality(Unreleased) < ReceiveMax
  /\ published' = n
  /\ qosOf' = [qosOf EXCEPT ![n] = q]
  /\ toServer' = Append(toServer, PublishPacket(q, p, n))
  /\ sender' = IF q = 0 THEN sender
                 ELSE [sender EXCEPT ![p] = [state |-> "published", msg |-> n]]
  /\ UNCHANGED <<connVars, toClient, delivered, rejected, reconnects, rogue>>

\* PUBREC leads to PUBREL, everything else ends the exchange.
ClientReads ==
  LET a == Head(toClient)
      go == a.type = "PUBREC" /\ sender[a.pid].state # "free"
  IN
  /\ link = "up"
  /\ toClient # <<>>
  /\ toClient' = Tail(toClient)
  /\ sender' = [sender EXCEPT ![a.pid] =
                  IF go THEN [@ EXCEPT !.state = "released"] ELSE Free]
  /\ toServer' = IF go THEN Append(toServer, PubRel(a.pid)) ELSE toServer
  /\ UNCHANGED <<connVars, modelVars, delivered>>

RogueSends ==
  /\ rogue < MaxRogue /\ CanSend
  /\ rogue' = rogue + 1
  /\ \E p \in PacketIds :
       \/ /\ published < MaxMessages
          /\ published' = published + 1
          /\ \E q \in QosLevels :
               /\ qosOf' = [qosOf EXCEPT ![published + 1] = q]
               /\ toServer' = Append(toServer, PublishPacket(q, p, published + 1))
       \/ /\ \/ toServer' = Append(toServer, PubRel(p))
             \/ Level = "V5" /\ toServer' = Append(toServer, PubRelError(p))
          /\ UNCHANGED <<published, qosOf>>
  /\ UNCHANGED <<connVars, toClient, sender, rejected, reconnects, delivered>>

-----------------------------------------------------------------------------
Server == \/ HandlePublish0
          \/ HandlePublish1
          \/ HandlePublish2
          \/ HandlePubRel
          \/ HandlePubRelError

Next ==
  \/ \E q \in QosLevels, p \in PacketIds : ClientPublishes(q, p)
  \/ ClientReads
  \/ RogueSends
  \/ Server
  \/ Drop
  \/ Reconnect

Spec == Init /\ [][Next]_vars

\* The task reads what arrives, and the client answers and comes back.
FairSpec == Spec /\ WF_vars(Server) /\ WF_vars(ClientReads) /\ WF_vars(Reconnect)

-----------------------------------------------------------------------------
Held == {p \in PacketIds : uncompleted[p] # None}

\* Whatever the client sends, the QoS 2 messages the broker holds for it and
\* the credits it has left never exceed receive_max (handle_publish takes a
\* credit only for a new identifier, handle_pub_rel returns one only for an
\* entry it has removed).
HeldWithinReceiveMax == Cardinality(Held) + quota <= ReceiveMax

\* A client that stays within the Receive Maximum and uses an identifier for
\* one message at a time (rogue = 0) is never thrown out: the broker's count of its
\* unfinished messages is never above the client's own.
ConformingClientKept == rogue = 0 => ~rejected

\* No QoS 2 message of a conforming client is delivered twice, lost answers
\* and reconnects included.
AtMostOnce ==
  rogue = 0 => \A n \in 1..published : qosOf[n] = 2 => delivered[n] <= 1

\* A message above QoS 0 that the client has finished with was delivered
\* (handle_publish and handle_pub_rel deliver before they answer).
FinishedMeansDelivered ==
  \A n \in 1..published :
    qosOf[n] > 0 /\ (\A p \in PacketIds : sender[p].msg # n) => delivered[n] >= 1

\* As long as a conforming client has stayed on its first connection.
DeliveredWithoutReconnect == rogue = 0 /\ reconnects = 0 => FinishedMeansDelivered

\* What is held for an identifier leaves by its PUBREL, which delivers it, or
\* with its connection: no packet about another identifier, no refusal and no
\* answer that cannot be sent takes it away or replaces it.  If the client has
\* broken the protocol, another packet with that identifier may (handle_publish
\* inserts into uncompleted_messages before it looks whether the identifier is
\* in use, handle_pub_rel drops the message of a PUBREL with an error).
ReleasedWith(p) ==
  /\ toServer # <<>> /\ Head(toServer) = PubRel(p)
  /\ uncompleted'[p] = None
  /\ delivered' = [delivered EXCEPT ![uncompleted[p]] = @ + 1]
HeldUntilReleased ==
  [][\A p \in PacketIds :
       uncompleted[p] # None /\ uncompleted'[p] # uncompleted[p] =>
         \/ ReleasedWith(p)
         \/ reconnects' # reconnects
         \/ rogue > 0 /\ toServer # <<>> /\ Head(toServer).pid = p]_vars

\* A conforming sender of a released message is told, unless the connection is
\* lost; on the first connection the message has been delivered by then
\* (handle_pub_rel).
ReleaseCompletes ==
  \A p \in PacketIds, n \in Messages :
    (sender[p] = [state |-> "released", msg |-> n])
      ~> \/ rogue > 0
         \/ sender[p].msg # n /\ (delivered[n] = 1 \/ reconnects > 0)
         \/ link = "down"
=============================================================================
