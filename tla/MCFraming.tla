------------------------------- MODULE MCFraming -------------------------------
EXTENDS Framing

\* Every property of a kind, each with a value that fits the kind; two user
\* properties and, where there may be two, two subscription identifiers.
AllOf(lengths) ==
  {<<n, 1>> : n \in DOMAIN lengths} \union {<<"user_properties", 3>>}
    \union (IF "subscription_identifiers" \in DOMAIN lengths
            THEN {<<"subscription_identifiers", 200>>} ELSE {})

Ack(t, c, ps) == [type |-> t, packet_id |-> 7, reason_code |-> c, properties |-> ps]
Acks == {Ack("PUBACK", 0, {}), Ack("PUBREC", 16, {}), Ack("PUBREL", 146, AllOf(AckLengths)),
         Ack("PUBCOMP", 0, AllOf(AckLengths))}

Disconnect(c, ps) == [type |-> "DISCONNECT", reason_code |-> c, properties |-> ps]
Disconnects == {Disconnect(0, {}), Disconnect(4, {}), Disconnect(0, AllOf(DisconnectLengths))}

Publish(q, topic, ps, payload) ==
  [type |-> "PUBLISH", dup |-> q = 2, qos |-> q, retain |-> q = 1, topic |-> topic,
   packet_id |-> IF q = 0 THEN None ELSE 7, properties |-> ps, payload |-> payload]
Publishes == {Publish(0, 1, {}, 0), Publish(1, 0, {<<"topic_alias", 1>>}, 3),
              Publish(2, 3, AllOf(PublishLengths), 2), Publish(0, 1, {}, 130),
              Publish(0, 1, {}, 152)}

Options(q, nl, rap, rh) ==
  [qos |-> q, no_local |-> nl, retain_as_published |-> rap, retain_handling |-> rh]
Filter(n, o) == [path |-> n, options |-> o]
Subscriptions ==
  {[type |-> "SUBSCRIBE", packet_id |-> 7, properties |-> ps,
    filters |-> <<Filter(1, Options(1, TRUE, FALSE, 2)), Filter(3, Options(2, FALSE, TRUE, 1))>>] :
     ps \in {{}, AllOf(SubscribeLengths)}}
    \union {[type |-> "SUBACK", packet_id |-> 7, properties |-> AllOf(SubAckLengths),
             reason_codes |-> <<2, 0, 135>>],
            [type |-> "UNSUBSCRIBE", packet_id |-> 7, properties |-> AllOf(UnsubscribeLengths),
             filters |-> <<1, 3>>],
            [type |-> "UNSUBACK", packet_id |-> 7, properties |-> AllOf(UnsubAckLengths),
             reason_codes |-> <<0, 17>>]}

ConnAck(c, ps) ==
  [type |-> "CONNACK", session_present |-> c = 0, reason_code |-> c, properties |-> ps]
ConnAcks == {ConnAck(0, AllOf(ConnAckLengths)), ConnAck(135, {}), ConnAck(151, {})}

Will(ps) == [qos |-> 1, retain |-> TRUE, topic |-> 1, payload |-> 2, properties |-> ps]
Login == [username |-> 1, password |-> 2]
Connect(l, ps, will, login) ==
  [type |-> "CONNECT", level |-> l, keep_alive |-> 60, clean_start |-> will = None,
   client_id |-> 2, will |-> will, login |-> login, properties |-> ps]
MCConnects ==
  {Connect(V4, {}, None, Login), Connect(V5, {}, None, None),
   Connect(V5, AllOf(ConnectLengths), Will(AllOf(WillLengths)), [Login EXCEPT !.password = 0])}

Pings == {[type |-> "PINGREQ"], [type |-> "PINGRESP"]}

MCSendable == Acks \union Disconnects \union Publishes \union Subscriptions \union ConnAcks \union Pings
\* The largest subscription identifier, whose length bytes_remaining_length refuses.
LargestId == {Publish(0, 1, {<<"subscription_identifiers", 268435455>>}, 0)}
MCSendableToo == MCSendable \union LargestId

\* A client of level V4 that has a will.
V4WillConnects == {Connect(V4, {}, Will({}), None)}
Nothing == {}

\* The proofs are about the packets of the first run, and not of the second.
ASSUME MCAssumption == PacketsWellCounted <=> Connects # V4WillConnects
=============================================================================
