-------------------------------- MODULE Packets --------------------------------
(***************************************************************************)
(* The formats of the packets: what encode writes, the length that is      *)
(* computed before it, and what decode reads.  The code writes these three *)
(* by hand for every packet and every set of properties, and so does this  *)
(* module: an encoder, a length or a decoder that disagrees with the other *)
(* two shows in Framing, where the packets go over a connection.           *)
(*                                                                         *)
(* A string, a binary or a payload is its length.  What is written are     *)
(* tokens <<kind, value>> of a known size in bytes; a read that finds a    *)
(* token of another kind reads bytes that mean something else, and counts  *)
(* as malformed.  Properties are a set of <<name, value>>.                 *)
(***************************************************************************)
EXTENDS Integers, Sequences, FiniteSets, SequencesExt, FiniteSetsExt

CONSTANT None

\* None is no number, and no value of a field that may be None.
ASSUME NoneAssumption ==
  /\ None \notin Nat
  /\ None \notin [qos : 0..2, retain : BOOLEAN]
  /\ None \notin [username : Nat, password : Nat]

V4 == 4
V5 == 5
Malformed == [type |-> "malformed"]

\* Definitions whose name begins with Bug are faults seeded to show that the
\* properties of Framing notice them; no other definition uses them.

-----------------------------------------------------------------------------
(* Writing and reading.                                                    *)

\* The bytes write_remaining_length writes, of a length up to 268435455.
RemainingLengthSize(v) ==
  IF v < 128 THEN 1 ELSE IF v < 16384 THEN 2 ELSE IF v < 2097152 THEN 3 ELSE 4

\* bytes_remaining_length: the bytes a length is taken to be written in, None
\* for one that it refuses.
BytesRemainingLength(v) ==
  IF v < 128 THEN 1 ELSE IF v < 16383 THEN 2 ELSE IF v < 2097151 THEN 3
  ELSE IF v < 268435455 THEN 4 ELSE None
Unwritable(v) == BytesRemainingLength(v) = None
\* What is added up.  A packet with an unwritable length has no size: encode
\* gives it up (PayloadTooLarge), whatever is put here.
LengthCount(v) == IF Unwritable(v) THEN 4 ELSE BytesRemainingLength(v)

\* A string and a binary come behind their length in two bytes, and a user
\* property is two strings.  raw: what goes on to the end of the packet.
TokenSize(t) ==
  CASE t[1] \in {"flag", "flags", "id", "u8"} -> 1
    [] t[1] = "u16" -> 2
    [] t[1] = "u32" -> 4
    [] t[1] = "len" -> RemainingLengthSize(t[2])
    [] t[1] = "str" -> 2 + t[2]
    [] t[1] = "kv"  -> 4 + t[2]
    [] t[1] = "raw" -> t[2]
\* Sizes(ts)[i]: the bytes of the first i tokens.
Sizes(ts) ==
  LET size[i \in 0..Len(ts)] == IF i = 0 THEN 0 ELSE size[i - 1] + TokenSize(ts[i])
  IN size
Size(ts) == Sizes(ts)[Len(ts)]

\* Token i is of kind k.
At(ts, i, k) == i \in DOMAIN ts /\ ts[i][1] = k
From(ts, i) == SubSeq(ts, i, Len(ts))

\* How many tokens the first n bytes are, None if they end within a token.
TokensIn(ts, n) ==
  LET sizes == Sizes(ts)
      Ends(i) == sizes[i] = n
  IN IF \E i \in DOMAIN sizes : Ends(i) THEN CHOOSE i \in DOMAIN sizes : Ends(i) ELSE None

-----------------------------------------------------------------------------
(* Properties.  lengths[name] is the kind that bytes_length counts for a   *)
(* property, writes the order and the kinds that encode writes, reads[name]*)
(* the kind that decode reads.                                             *)

\* prop_len!, prop_remaining_length_len!, prop_data_len! and prop_kv_len!
PropLen(kind, v) ==
  1 + (IF kind = "len" THEN LengthCount(v) ELSE TokenSize(<<kind, v>>))

BytesLength(lengths, ps) == SumFunction([p \in ps |-> PropLen(lengths[p[1]], p[2])])
BytesLengthFails(lengths, ps) == \E p \in ps : lengths[p[1]] = "len" /\ Unwritable(p[2])

Written(writes, ps) ==
  FlattenSeq([i \in DOMAIN writes |->
    LET values == SetToSeq({p[2] : p \in {q \in ps : q[1] = writes[i][1]}})
    IN FlattenSeq([j \in DOMAIN values |->
         <<<<"id", writes[i][1]>>, <<writes[i][2], values[j]>>>>])])

\* Properties behind their length, which V4 has not, and the size counted.
WithLength(level, lengths, writes, ps) ==
  IF level = V4 THEN <<>>
  ELSE <<<<"len", BytesLength(lengths, ps)>>>> \o Written(writes, ps)
WithLengthSize(level, lengths, ps) ==
  IF level = V4 THEN 0
  ELSE LengthCount(BytesLength(lengths, ps)) + BytesLength(lengths, ps)

\* The loop of a properties' decode: an identifier and its value, to the end.
Readable(reads, ts) ==
  \A i \in DOMAIN ts :
    IF i % 2 = 1
    THEN ts[i][1] = "id" /\ ts[i][2] \in DOMAIN reads /\ i < Len(ts)
    ELSE ts[i][1] = reads[ts[i - 1][2]]
ReadIn(ts) == {<<ts[i][2], ts[i + 1][2]>> : i \in {j \in DOMAIN ts : j % 2 = 1}}

\* A length, then the properties split off at it; V4 has neither.
Split(level, reads, ts) ==
  LET n == IF At(ts, 1, "len") THEN TokensIn(Tail(ts), ts[1][2]) ELSE None
      ps == SubSeq(ts, 2, n + 1)
  IN IF level = V4 THEN [ok |-> TRUE, properties |-> {}, rest |-> ts]
     ELSE IF n = None THEN [ok |-> FALSE]
     ELSE [ok |-> Readable(reads, ps), properties |-> ReadIn(ps), rest |-> From(ts, n + 2)]

-----------------------------------------------------------------------------
(* PUBACK, PUBREC, PUBREL and PUBCOMP: the reason code and the properties  *)
(* are left out when there is nothing in them.                             *)

AckLengths == [reason_string |-> "str", user_properties |-> "kv"]
AckWrites == <<<<"reason_string", "str">>, <<"user_properties", "kv">>>>
AckReads == [reason_string |-> "str", user_properties |-> "kv"]

AckHeaderLength(p, level) ==
  IF level = V4 THEN 2
  ELSE IF p.properties # {} THEN 2 + 1 + WithLengthSize(V5, AckLengths, p.properties)
  ELSE IF p.reason_code = 0 THEN 2 ELSE 3
AckBody(p, level) ==
  <<<<"u16", p.packet_id>>>>
    \o (IF level = V5 /\ (p.reason_code # 0 \/ p.properties # {})
        THEN <<<<"u8", p.reason_code>>>> ELSE <<>>)
    \o (IF level = V5 /\ p.properties # {}
        THEN WithLength(V5, AckLengths, AckWrites, p.properties) ELSE <<>>)
AckEncoding(p, low, level) ==
  [low |-> low, size |-> AckHeaderLength(p, level), body |-> AckBody(p, level)]

\* The length of the properties is read and checked, and decode goes on to the
\* end of the packet.
AckDecoded(type, codes, ts, level) ==
  LET code == IF level = V5 /\ Len(ts) > 1 THEN ts[2] ELSE <<"u8", 0>>
      rest == IF level = V5 THEN From(ts, 3) ELSE <<>>
      ps   == From(rest, 2)
  IN IF /\ At(ts, 1, "u16")
        /\ code[1] = "u8" /\ code[2] \in codes
        /\ rest = <<>> \/ (At(rest, 1, "len") /\ Size(ps) >= rest[1][2] /\ Readable(AckReads, ps))
     THEN [type |-> type, packet_id |-> ts[1][2], reason_code |-> code[2],
           properties |-> ReadIn(ps)]
     ELSE Malformed

PubAckReasonCodes  == {0, 16, 128, 131, 135, 144, 145, 151, 153}
PubRecReasonCodes  == {0, 16, 128, 131, 135, 144, 145, 151, 153}
PubRelReasonCodes  == {0, 146}
PubCompReasonCodes == {0, 146}
PubAckEncoding(p, level)   == AckEncoding(p, 0, level)
PubRecEncoding(p, level)   == AckEncoding(p, 0, level)
PubRelEncoding(p, level)   == AckEncoding(p, 2, level)
PubCompEncoding(p, level)  == AckEncoding(p, 0, level)
PubAckDecoded(ts, level)   == AckDecoded("PUBACK", PubAckReasonCodes, ts, level)
PubRecDecoded(ts, level)   == AckDecoded("PUBREC", PubRecReasonCodes, ts, level)
PubRelDecoded(low, ts, level) ==
  IF low = 2 THEN AckDecoded("PUBREL", PubRelReasonCodes, ts, level) ELSE Malformed
PubCompDecoded(ts, level)  == AckDecoded("PUBCOMP", PubCompReasonCodes, ts, level)

-----------------------------------------------------------------------------
(* DISCONNECT: nothing at V4, and nothing at V5 if it is a normal one.     *)

DisconnectReasonCodes ==
  {0, 4} \union (128..131) \union {135, 137, 139} \union (141..144) \union (147..162)
DisconnectLengths ==
  [session_expiry_interval |-> "u32", reason_string |-> "str", user_properties |-> "kv",
   server_reference |-> "str"]
DisconnectWrites ==
  <<<<"session_expiry_interval", "u32">>, <<"reason_string", "str">>,
    <<"user_properties", "kv">>, <<"server_reference", "str">>>>
DisconnectReads ==
  [session_expiry_interval |-> "u32", reason_string |-> "str", user_properties |-> "kv",
   server_reference |-> "str"]

DisconnectLength(p, level) ==
  IF level = V4 THEN 0
  ELSE IF p.properties # {} THEN 1 + WithLengthSize(V5, DisconnectLengths, p.properties)
  ELSE IF p.reason_code = 0 THEN 0 ELSE 1
DisconnectEncoding(p, level) ==
  [low |-> 0, size |-> DisconnectLength(p, level),
   body |-> (IF level = V5 /\ (p.reason_code # 0 \/ p.properties # {})
             THEN <<<<"u8", p.reason_code>>>> ELSE <<>>)
         \o (IF level = V5 /\ p.properties # {}
             THEN WithLength(V5, DisconnectLengths, DisconnectWrites, p.properties) ELSE <<>>)]
DisconnectDecoded(ts, level) ==
  LET split == IF Len(ts) > 1 THEN Split(V5, DisconnectReads, Tail(ts))
               ELSE [ok |-> TRUE, properties |-> {}]
      Packet(code, ps) == [type |-> "DISCONNECT", reason_code |-> code, properties |-> ps]
  IN IF ts = <<>> THEN Packet(0, {})
     ELSE IF level = V5 /\ At(ts, 1, "u8") /\ ts[1][2] \in DisconnectReasonCodes /\ split.ok
     THEN Packet(ts[1][2], split.properties)
     ELSE Malformed

-----------------------------------------------------------------------------
(* SUBSCRIBE and SUBACK.                                                   *)

SubscribeLengths == [id |-> "len", user_properties |-> "kv"]
SubscribeWrites == <<<<"id", "len">>, <<"user_properties", "kv">>>>
SubscribeReads == [id |-> "len", user_properties |-> "kv"]

\* V4 has no options besides the QoS.
V4Options(qos) ==
  [qos |-> qos, no_local |-> FALSE, retain_as_published |-> FALSE, retain_handling |-> 0]
BugQosOnly(f, level) == <<<<"str", f.path>>, <<"flags", V4Options(f.options.qos)>>>>
FilterEncoding(f, level) ==
  <<<<"str", f.path>>, <<"flags", IF level = V4 THEN V4Options(f.options.qos) ELSE f.options>>>>

SubscribeLength(p, level) ==
  2 + WithLengthSize(level, SubscribeLengths, p.properties)
    + SumFunction([i \in DOMAIN p.filters |-> 2 + p.filters[i].path + 1])
SubscribeEncoding(p, level) ==
  [low |-> 2, size |-> SubscribeLength(p, level),
   body |-> <<<<"u16", p.packet_id>>>>
         \o WithLength(level, SubscribeLengths, SubscribeWrites, p.properties)
         \o FlattenSeq([i \in DOMAIN p.filters |-> FilterEncoding(p.filters[i], level)])]

FiltersReadable(ts, level) ==
  /\ Len(ts) % 2 = 0
  /\ \A i \in DOMAIN ts : At(ts, i, IF i % 2 = 1 THEN "str" ELSE "flags")
  /\ level = V4 => \A i \in DOMAIN ts : i % 2 = 0 => ts[i][2] = V4Options(ts[i][2].qos)
SubscribeDecoded(low, ts, level) ==
  LET split == Split(level, SubscribeReads, Tail(ts))
      fs == split.rest
  IN IF low = 2 /\ At(ts, 1, "u16") /\ split.ok /\ FiltersReadable(fs, level)
     THEN [type |-> "SUBSCRIBE", packet_id |-> ts[1][2], properties |-> split.properties,
           filters |-> [i \in 1..(Len(fs) \div 2) |->
                         [path |-> fs[2 * i - 1][2], options |-> fs[2 * i][2]]]]
     ELSE Malformed

SubscribeReasonCodes == {0, 1, 2, 128, 131, 135, 143, 145, 151, 158, 161, 162}
SubscribeReasonCodeV4(code) == IF code \in 0..2 THEN code ELSE 128
SubAckLengths == [reason_string |-> "str", user_properties |-> "kv"]
SubAckWrites == <<<<"reason_string", "str">>, <<"user_properties", "kv">>>>
SubAckReads == [reason_string |-> "str", user_properties |-> "kv"]

\* One byte for each reason code; the codes that can be read back.
Codes(cs) == [i \in DOMAIN cs |-> <<"u8", cs[i]>>]
CodesReadable(ts, codes) == \A i \in DOMAIN ts : At(ts, i, "u8") /\ ts[i][2] \in codes
CodesIn(ts) == [i \in DOMAIN ts |-> ts[i][2]]

SubAckLength(p, level) ==
  2 + WithLengthSize(level, SubAckLengths, p.properties) + Len(p.reason_codes)
SubAckEncoding(p, level) ==
  [low |-> 0, size |-> SubAckLength(p, level),
   body |-> <<<<"u16", p.packet_id>>>>
         \o WithLength(level, SubAckLengths, SubAckWrites, p.properties)
         \o Codes([i \in DOMAIN p.reason_codes |->
                    IF level = V4 THEN SubscribeReasonCodeV4(p.reason_codes[i])
                    ELSE p.reason_codes[i]])]
SubAckDecoded(ts, level) ==
  LET split == Split(level, SubAckReads, Tail(ts))
      codes == IF level = V4 THEN {0, 1, 2, 128} ELSE SubscribeReasonCodes
  IN IF At(ts, 1, "u16") /\ split.ok /\ CodesReadable(split.rest, codes)
     THEN [type |-> "SUBACK", packet_id |-> ts[1][2], properties |-> split.properties,
           reason_codes |-> CodesIn(split.rest)]
     ELSE Malformed

-----------------------------------------------------------------------------
(* UNSUBSCRIBE and UNSUBACK, which has reason codes at V5 only.            *)

UnsubscribeLengths == [user_properties |-> "kv"]
UnsubscribeWrites == <<<<"user_properties", "kv">>>>
UnsubscribeReads == [user_properties |-> "kv"]

UnsubscribeLength(p, level) ==
  2 + WithLengthSize(level, UnsubscribeLengths, p.properties)
    + SumFunction([i \in DOMAIN p.filters |-> 2 + p.filters[i]])
UnsubscribeEncoding(p, level) ==
  [low |-> 2, size |-> UnsubscribeLength(p, level),
   body |-> <<<<"u16", p.packet_id>>>>
         \o WithLength(level, UnsubscribeLengths, UnsubscribeWrites, p.properties)
         \o [i \in DOMAIN p.filters |-> <<"str", p.filters[i]>>]]
UnsubscribeDecoded(low, ts, level) ==
  LET split == Split(level, UnsubscribeReads, Tail(ts))
      fs == split.rest
  IN IF low = 2 /\ At(ts, 1, "u16") /\ split.ok /\ \A i \in DOMAIN fs : At(fs, i, "str")
     THEN [type |-> "UNSUBSCRIBE", packet_id |-> ts[1][2], properties |-> split.properties,
           filters |-> CodesIn(fs)]
     ELSE Malformed

UnsubAckReasonCodes == {0, 17, 128, 131, 135, 143, 145}
UnsubAckLengths == [reason_string |-> "str", user_properties |-> "kv"]
UnsubAckWrites == <<<<"reason_string", "str">>, <<"user_properties", "kv">>>>
UnsubAckReads == [reason_string |-> "str", user_properties |-> "kv"]

UnsubAckLength(p, level) ==
  2 + WithLengthSize(level, UnsubAckLengths, p.properties)
    + (IF level = V5 THEN Len(p.reason_codes) ELSE 0)
UnsubAckEncoding(p, level) ==
  [low |-> 0, size |-> UnsubAckLength(p, level),
   body |-> <<<<"u16", p.packet_id>>>>
         \o WithLength(level, UnsubAckLengths, UnsubAckWrites, p.properties)
         \o (IF level = V5 THEN Codes(p.reason_codes) ELSE <<>>)]
UnsubAckDecoded(ts, level) ==
  LET split == Split(level, UnsubAckReads, Tail(ts))
      codes == IF level = V5 THEN split.rest ELSE <<>>
  IN IF At(ts, 1, "u16") /\ split.ok /\ CodesReadable(codes, UnsubAckReasonCodes)
     THEN [type |-> "UNSUBACK", packet_id |-> ts[1][2], properties |-> split.properties,
           reason_codes |-> CodesIn(codes)]
     ELSE Malformed

-----------------------------------------------------------------------------
(* PUBLISH.  The length of the properties is computed at V4 too, for       *)
(* nothing but the failure.                                                *)

PublishLengths ==
  [payload_format_indicator |-> "u8", message_expiry_interval |-> "u32", topic_alias |-> "u16",
   response_topic |-> "str", correlation_data |-> "str", user_properties |-> "kv",
   subscription_identifiers |-> "len", content_type |-> "str"]
PublishWrites ==
  <<<<"payload_format_indicator", "u8">>, <<"message_expiry_interval", "u32">>,
    <<"topic_alias", "u16">>, <<"response_topic", "str">>, <<"correlation_data", "str">>,
    <<"user_properties", "kv">>, <<"subscription_identifiers", "len">>,
    <<"content_type", "str">>>>
PublishReads ==
  [payload_format_indicator |-> "u8", message_expiry_interval |-> "u32", topic_alias |-> "u16",
   response_topic |-> "str", correlation_data |-> "str", user_properties |-> "kv",
   subscription_identifiers |-> "len", content_type |-> "str"]

PublishLength(p, level) ==
  2 + p.topic + (IF p.qos # 0 THEN 2 ELSE 0)
    + WithLengthSize(level, PublishLengths, p.properties) + p.payload
PublishEncoding(p, level) ==
  [low |-> [dup |-> p.dup, qos |-> p.qos, retain |-> p.retain],
   size |-> PublishLength(p, level),
   body |-> <<<<"str", p.topic>>>>
         \o (IF p.packet_id # None THEN <<<<"u16", p.packet_id>>>> ELSE <<>>)
         \o WithLength(level, PublishLengths, PublishWrites, p.properties)
         \o (IF p.payload > 0 THEN <<<<"raw", p.payload>>>> ELSE <<>>)]
PublishDecoded(low, ts, level) ==
  LET n == IF low.qos = 0 THEN 1 ELSE 2
      split == Split(level, PublishReads, From(ts, n + 1))
  IN IF At(ts, 1, "str") /\ (n = 2 => At(ts, 2, "u16")) /\ split.ok
     THEN [type |-> "PUBLISH", dup |-> low.dup, qos |-> low.qos, retain |-> low.retain,
           topic |-> ts[1][2], packet_id |-> IF n = 2 THEN ts[2][2] ELSE None,
           properties |-> split.properties, payload |-> Size(split.rest)]
     ELSE Malformed

-----------------------------------------------------------------------------
(* CONNACK, with reason codes of its own at V4.                            *)

ConnectReasonCodes ==
  {0, 140, 144, 149, 151, 159} \union (128..138) \union (153..157)
\* ConnectReasonCodeV4 and back.
ConnectReasonCodeV4(code) ==
  CASE code = 0 -> 0 [] code = 132 -> 1 [] code = 133 -> 2 [] code = 134 -> 4
    [] code = 135 -> 5 [] OTHER -> 3
ConnectReasonCode(v4) == <<0, 132, 133, 136, 134, 135>>[v4 + 1]

ConnAckLengths ==
  [session_expiry_interval |-> "u32", receive_max |-> "u16", maximum_qos |-> "u8",
   retain_available |-> "u8", max_packet_size |-> "u32", assigned_client_identifier |-> "str",
   topic_alias_max |-> "u16", reason_string |-> "str", user_properties |-> "kv",
   wildcard_subscription_available |-> "u8", subscription_identifiers_available |-> "u8",
   shared_subscription_available |-> "u8", server_keep_alive |-> "u16",
   response_information |-> "str", server_reference |-> "str",
   authentication_method |-> "str", authentication_data |-> "str"]
ConnAckWrites ==
  <<<<"session_expiry_interval", "u32">>, <<"receive_max", "u16">>, <<"maximum_qos", "u8">>,
    <<"retain_available", "u8">>, <<"max_packet_size", "u32">>,
    <<"assigned_client_identifier", "str">>, <<"topic_alias_max", "u16">>,
    <<"reason_string", "str">>, <<"user_properties", "kv">>,
    <<"wildcard_subscription_available", "u8">>,
    <<"subscription_identifiers_available", "u8">>, <<"shared_subscription_available", "u8">>,
    <<"server_keep_alive", "u16">>, <<"response_information", "str">>,
    <<"server_reference", "str">>, <<"authentication_method", "str">>,
    <<"authentication_data", "str">>>>
ConnAckReads ==
  [session_expiry_interval |-> "u32", receive_max |-> "u16", maximum_qos |-> "u8",
   retain_available |-> "u8", max_packet_size |-> "u32", assigned_client_identifier |-> "str",
   topic_alias_max |-> "u16", reason_string |-> "str", user_properties |-> "kv",
   wildcard_subscription_available |-> "u8", subscription_identifiers_available |-> "u8",
   shared_subscription_available |-> "u8", server_keep_alive |-> "u16",
   response_information |-> "str", server_reference |-> "str",
   authentication_method |-> "str", authentication_data |-> "str"]

ConnAckLength(p, level) == 2 + WithLengthSize(level, ConnAckLengths, p.properties)
ConnAckEncoding(p, level) ==
  [low |-> 0, size |-> ConnAckLength(p, level),
   body |-> <<<<"u8", IF p.session_present THEN 1 ELSE 0>>,
              <<"u8", IF level = V4 THEN ConnectReasonCodeV4(p.reason_code) ELSE p.reason_code>>>>
         \o WithLength(level, ConnAckLengths, ConnAckWrites, p.properties)]
ConnAckDecoded(ts, level) ==
  LET split == Split(level, ConnAckReads, From(ts, 3))
      codes == IF level = V4 THEN 0..5 ELSE ConnectReasonCodes
  IN IF /\ At(ts, 1, "u8") /\ ts[1][2] \in {0, 1}
        /\ At(ts, 2, "u8") /\ ts[2][2] \in codes
        /\ split.ok
     THEN [type |-> "CONNACK", session_present |-> ts[1][2] = 1,
           reason_code |-> IF level = V4 THEN ConnectReasonCode(ts[2][2]) ELSE ts[2][2],
           properties |-> split.properties]
     ELSE Malformed

-----------------------------------------------------------------------------
(* CONNECT.  will: None or [qos, retain, topic, payload, properties];      *)
(* login: None or [username, password], an empty one is not written.       *)

ConnectLengths ==
  [session_expiry_interval |-> "u32", receive_max |-> "u16", max_packet_size |-> "u32",
   topic_alias_max |-> "u16", request_response_info |-> "u8", request_problem_info |-> "u8",
   user_properties |-> "kv", authentication_method |-> "str", authentication_data |-> "str"]
ConnectWrites ==
  <<<<"session_expiry_interval", "u32">>, <<"receive_max", "u16">>, <<"max_packet_size", "u32">>,
    <<"topic_alias_max", "u16">>, <<"request_response_info", "u8">>,
    <<"request_problem_info", "u8">>, <<"user_properties", "kv">>,
    <<"authentication_method", "str">>, <<"authentication_data", "str">>>>
ConnectReads ==
  [session_expiry_interval |-> "u32", receive_max |-> "u16", max_packet_size |-> "u32",
   topic_alias_max |-> "u16", request_response_info |-> "u8", request_problem_info |-> "u8",
   user_properties |-> "kv", authentication_method |-> "str", authentication_data |-> "str"]

WillLengths ==
  [delay_interval |-> "u32", payload_format_indicator |-> "u8",
   message_expiry_interval |-> "u32", content_type |-> "str", response_topic |-> "str",
   correlation_data |-> "str", user_properties |-> "kv"]
WillWrites ==
  <<<<"delay_interval", "u32">>, <<"payload_format_indicator", "u8">>,
    <<"message_expiry_interval", "u32">>, <<"content_type", "str">>,
    <<"response_topic", "str">>, <<"correlation_data", "str">>, <<"user_properties", "kv">>>>
WillReads ==
  [delay_interval |-> "u32", payload_format_indicator |-> "u8",
   message_expiry_interval |-> "u32", content_type |-> "str", response_topic |-> "str",
   correlation_data |-> "str", user_properties |-> "kv"]

\* The length of the will's properties is taken to be written in as many bytes
\* as that of the properties of CONNECT.
WillLength(p, level) ==
  IF p.will = None THEN 0
  ELSE (IF level = V4 THEN 0
        ELSE LengthCount(BytesLength(ConnectLengths, p.properties))
               + BytesLength(WillLengths, p.will.properties))
       + 2 + p.will.topic + 2 + p.will.payload
HasUsername(login) == login # None /\ login.username > 0
HasPassword(login) == login # None /\ login.password > 0
ConnectLength(p, level) ==
  10 + WithLengthSize(level, ConnectLengths, p.properties) + 2 + p.client_id
    + WillLength(p, level)
    + (IF HasUsername(p.login) THEN 2 + p.login.username ELSE 0)
    + (IF HasPassword(p.login) THEN 2 + p.login.password ELSE 0)

ConnectFlags(p) ==
  [clean_start |-> p.clean_start,
   will |-> IF p.will = None THEN None ELSE [qos |-> p.will.qos, retain |-> p.will.retain],
   username |-> HasUsername(p.login), password |-> HasPassword(p.login)]
ConnectEncoding(p, level) ==
  [low |-> 0, size |-> ConnectLength(p, level),
   body |-> <<<<"str", 4>>, <<"u8", level>>, <<"flags", ConnectFlags(p)>>,
              <<"u16", p.keep_alive>>>>
         \o WithLength(level, ConnectLengths, ConnectWrites, p.properties)
         \o <<<<"str", p.client_id>>>>
         \o (IF p.will = None THEN <<>>
             ELSE WithLength(level, WillLengths, WillWrites, p.will.properties)
                    \o <<<<"str", p.will.topic>>, <<"str", p.will.payload>>>>)
         \o (IF HasUsername(p.login) THEN <<<<"str", p.login.username>>>> ELSE <<>>)
         \o (IF HasPassword(p.login) THEN <<<<"str", p.login.password>>>> ELSE <<>>)]

\* A length stands in front of the topic of a will at both levels.
ReadWill(level, ts) ==
  LET split == IF level = V5 THEN Split(V5, WillReads, ts)
               ELSE [ok |-> At(ts, 1, "len"), properties |-> {}, rest |-> Tail(ts)]
  IN IF split.ok /\ At(split.rest, 1, "str") /\ At(split.rest, 2, "str")
     THEN [ok |-> TRUE, properties |-> split.properties, topic |-> split.rest[1][2],
           payload |-> split.rest[2][2], rest |-> From(split.rest, 3)]
     ELSE [ok |-> FALSE]

\* Without a user name there is no login, whatever the password flag says.
ReadLogin(flags, ts) ==
  LET n == Cardinality({k \in {"username", "password"} : flags[k]})
      Password == IF ~flags.password THEN 0 ELSE ts[n][2]
  IN IF \E i \in 1..n : ~At(ts, i, "str") THEN [ok |-> FALSE]
     ELSE [ok |-> TRUE,
           login |-> IF ~flags.username THEN None
                     ELSE [username |-> ts[1][2], password |-> Password]]

\* The level is the one CONNECT names, not the one the decoder has.
ConnectDecoded(ts, unused) ==
  LET level == ts[2][2]
      flags == ts[3][2]
      split == Split(level, ConnectReads, From(ts, 5))
      will  == IF flags.will = None THEN [ok |-> TRUE, rest |-> Tail(split.rest)]
               ELSE ReadWill(level, Tail(split.rest))
      login == ReadLogin(flags, will.rest)
  IN IF /\ At(ts, 1, "str") /\ ts[1][2] = 4
        /\ At(ts, 2, "u8") /\ level \in {V4, V5}
        /\ At(ts, 3, "flags") /\ At(ts, 4, "u16")
        /\ split.ok /\ At(split.rest, 1, "str") /\ will.ok /\ login.ok
     THEN [type |-> "CONNECT", level |-> level, keep_alive |-> ts[4][2],
           clean_start |-> flags.clean_start, client_id |-> split.rest[1][2],
           will |-> IF flags.will = None THEN None
                    ELSE [qos |-> flags.will.qos, retain |-> flags.will.retain,
                          topic |-> will.topic, payload |-> will.payload,
                          properties |-> will.properties],
           login |-> login.login, properties |-> split.properties]
     ELSE Malformed

-----------------------------------------------------------------------------
(* The packets themselves, as the types of the code have them, field by    *)
(* field, with strings write_binary can write.  An optional property is a  *)
(* property that may not be there.  These are more packets than the code   *)
(* has: a property may be there more than once, a bool may be any byte, a  *)
(* number any number, and one that is not zero in the code may be zero.    *)

U16 == 0..65535
PacketIds == 1..65535
Values == [u8 |-> 0..255, u16 |-> U16, u32 |-> Nat, len |-> Nat, str |-> U16, kv |-> 0..131070]
PropertySets(lengths) ==
  {ps \in SUBSET ((DOMAIN lengths) \X Nat) :
     IsFiniteSet(ps) /\ \A q \in ps : q[2] \in Values[lengths[q[1]]]}

WillPackets ==
  [qos : 0..2, retain : BOOLEAN, topic : U16, payload : U16, properties : PropertySets(WillLengths)]
LoginPackets == [username : U16, password : U16]
ConnectPackets ==
  [type : {"CONNECT"}, level : {V4, V5}, keep_alive : U16, clean_start : BOOLEAN,
   client_id : U16, will : {None} \union WillPackets, login : {None} \union LoginPackets,
   properties : PropertySets(ConnectLengths)]
ConnAckPackets ==
  [type : {"CONNACK"}, session_present : BOOLEAN, reason_code : ConnectReasonCodes,
   properties : PropertySets(ConnAckLengths)]
PublishPackets ==
  {p \in [type : {"PUBLISH"}, dup : BOOLEAN, qos : 0..2, retain : BOOLEAN, topic : U16,
          packet_id : {None} \union PacketIds, properties : PropertySets(PublishLengths),
          payload : Nat] :
     p.packet_id = None <=> p.qos = 0}
AckPackets(type, codes) ==
  [type : {type}, packet_id : PacketIds, reason_code : codes,
   properties : PropertySets(AckLengths)]
AnyAckPackets ==
  AckPackets("PUBACK", PubAckReasonCodes) \union AckPackets("PUBREC", PubRecReasonCodes)
    \union AckPackets("PUBREL", PubRelReasonCodes) \union AckPackets("PUBCOMP", PubCompReasonCodes)
SubscribeOptions ==
  [qos : 0..2, no_local : BOOLEAN, retain_as_published : BOOLEAN, retain_handling : 0..2]
SubscribePackets ==
  [type : {"SUBSCRIBE"}, packet_id : PacketIds, properties : PropertySets(SubscribeLengths),
   filters : Seq([path : U16, options : SubscribeOptions])]
SubAckPackets ==
  [type : {"SUBACK"}, packet_id : PacketIds, properties : PropertySets(SubAckLengths),
   reason_codes : Seq(SubscribeReasonCodes)]
UnsubscribePackets ==
  [type : {"UNSUBSCRIBE"}, packet_id : PacketIds,
   properties : PropertySets(UnsubscribeLengths), filters : Seq(U16)]
UnsubAckPackets ==
  [type : {"UNSUBACK"}, packet_id : PacketIds, properties : PropertySets(UnsubAckLengths),
   reason_codes : Seq(UnsubAckReasonCodes)]
DisconnectPackets ==
  [type : {"DISCONNECT"}, reason_code : DisconnectReasonCodes,
   properties : PropertySets(DisconnectLengths)]
PingPackets == [type : {"PINGREQ", "PINGRESP"}]
OtherPackets ==
  ConnAckPackets \union PublishPackets \union AnyAckPackets \union SubscribePackets
    \union SubAckPackets \union UnsubscribePackets \union UnsubAckPackets
    \union DisconnectPackets \union PingPackets

-----------------------------------------------------------------------------
(* All packets.                                                            *)

\* Packet::encode
Encoding(p, level) ==
  CASE p.type = "CONNECT"     -> ConnectEncoding(p, level)
    [] p.type = "CONNACK"     -> ConnAckEncoding(p, level)
    [] p.type = "PUBLISH"     -> PublishEncoding(p, level)
    [] p.type = "PUBACK"      -> PubAckEncoding(p, level)
    [] p.type = "PUBREC"      -> PubRecEncoding(p, level)
    [] p.type = "PUBREL"      -> PubRelEncoding(p, level)
    [] p.type = "PUBCOMP"     -> PubCompEncoding(p, level)
    [] p.type = "SUBSCRIBE"   -> SubscribeEncoding(p, level)
    [] p.type = "SUBACK"      -> SubAckEncoding(p, level)
    [] p.type = "UNSUBSCRIBE" -> UnsubscribeEncoding(p, level)
    [] p.type = "UNSUBACK"    -> UnsubAckEncoding(p, level)
    [] p.type = "DISCONNECT"  -> DisconnectEncoding(p, level)
    [] OTHER                  -> [low |-> 0, size |-> 0, body |-> <<>>]

\* EncodeError::PayloadTooLarge: a length that cannot be written.
PayloadTooLarge(p, level) ==
  \/ p.type = "PUBLISH" /\ BytesLengthFails(PublishLengths, p.properties)
  \/ p.type = "SUBSCRIBE" /\ level = V5 /\ BytesLengthFails(SubscribeLengths, p.properties)

\* EncodeError::PacketTooLarge: PUBLISH may be as large as the limit, the
\* others must be smaller, and PINGREQ and PINGRESP are not compared.
BugNoLimit(p, level, limit) == FALSE
PacketTooLarge(p, level, limit) ==
  /\ limit # None
  /\ p.type \notin {"PINGREQ", "PINGRESP"}
  /\ IF p.type = "PUBLISH" THEN Encoding(p, level).size > limit
     ELSE Encoding(p, level).size >= limit

\* The first byte, then all of a packet that encode does not refuse.
Flag(p, level) == <<"flag", [type |-> p.type, low |-> Encoding(p, level).low]>>
Frame(p, level) ==
  <<Flag(p, level), <<"len", Encoding(p, level).size>>>> \o Encoding(p, level).body

\* Packet::decode
Decode(flag, ts, level) ==
  CASE flag.type = "CONNECT"     -> ConnectDecoded(ts, level)
    [] flag.type = "CONNACK"     -> ConnAckDecoded(ts, level)
    [] flag.type = "PUBLISH"     -> PublishDecoded(flag.low, ts, level)
    [] flag.type = "PUBACK"      -> PubAckDecoded(ts, level)
    [] flag.type = "PUBREC"      -> PubRecDecoded(ts, level)
    [] flag.type = "PUBREL"      -> PubRelDecoded(flag.low, ts, level)
    [] flag.type = "PUBCOMP"     -> PubCompDecoded(ts, level)
    [] flag.type = "SUBSCRIBE"   -> SubscribeDecoded(flag.low, ts, level)
    [] flag.type = "SUBACK"      -> SubAckDecoded(ts, level)
    [] flag.type = "UNSUBSCRIBE" -> UnsubscribeDecoded(flag.low, ts, level)
    [] flag.type = "UNSUBACK"    -> UnsubAckDecoded(ts, level)
    [] flag.type = "DISCONNECT"  -> DisconnectDecoded(ts, level)
    [] OTHER                     -> [type |-> flag.type]

\* At level V4 the properties are not sent, and neither are reason codes and
\* options that V4 has not.
SeenOptions(f) == [path |-> f.path, options |-> V4Options(f.options.qos)]
Bare(p) == IF p.type \in {"PINGREQ", "PINGRESP"} THEN p ELSE [p EXCEPT !.properties = {}]
Seen(p, l) ==
  IF l = V5 THEN p
  ELSE CASE p.type \in {"PUBACK", "PUBREC", "PUBREL", "PUBCOMP", "DISCONNECT"} ->
              [Bare(p) EXCEPT !.reason_code = 0]
         [] p.type = "CONNACK" ->
              [Bare(p) EXCEPT !.reason_code = ConnectReasonCode(ConnectReasonCodeV4(@))]
         [] p.type = "SUBACK" ->
              [Bare(p) EXCEPT !.reason_codes =
                 [i \in DOMAIN @ |-> IF @[i] < 128 THEN @[i] ELSE 128]]
         [] p.type = "UNSUBACK" -> [Bare(p) EXCEPT !.reason_codes = <<>>]
         [] p.type = "SUBSCRIBE" ->
              [Bare(p) EXCEPT !.filters = [i \in DOMAIN @ |-> SeenOptions(@[i])]]
         [] OTHER -> Bare(p)

-----------------------------------------------------------------------------
(* The packets whose lengths are counted as they are written.              *)

\* The lengths among the properties, and that of the properties, are written
\* in as many bytes as bytes_remaining_length says: it says one too many for
\* 16383 and for 2097151.
Counted(lengths, ps) ==
  /\ BytesLength(lengths, ps) \notin {16383, 2097151}
  /\ \A q \in ps : lengths[q[1]] = "len" => q[2] \notin {16383, 2097151}

\* A CONNECT that is read as it was written: at V4 a will is read behind a
\* length that nobody writes, at V5 the length of its properties is counted
\* as the length of those of CONNECT is, and a login without a user name is
\* no login.
ConnectCounted(p) ==
  /\ p.level = V5 => Counted(ConnectLengths, p.properties)
  /\ p.will # None =>
       /\ p.level = V5
       /\ Counted(WillLengths, p.will.properties)
       /\ LengthCount(BytesLength(ConnectLengths, p.properties))
            = LengthCount(BytesLength(WillLengths, p.will.properties))
  /\ p.login # None => p.login.username > 0

PropertyLengths ==
  [CONNACK |-> ConnAckLengths, PUBLISH |-> PublishLengths, PUBACK |-> AckLengths,
   PUBREC |-> AckLengths, PUBREL |-> AckLengths, PUBCOMP |-> AckLengths,
   SUBSCRIBE |-> SubscribeLengths, SUBACK |-> SubAckLengths,
   UNSUBSCRIBE |-> UnsubscribeLengths, UNSUBACK |-> UnsubAckLengths,
   DISCONNECT |-> DisconnectLengths]
WellCounted(p) ==
  IF p.type = "CONNECT" THEN ConnectCounted(p)
  ELSE p.type \in DOMAIN PropertyLengths => Counted(PropertyLengths[p.type], p.properties)
=============================================================================
