-------------------------------- MODULE Framing --------------------------------
(***************************************************************************)
(* Packets over a connection: one direction, from the encode of a Codec to *)
(* the decode of the Codec at the other end.                               *)
(*                                                                         *)
(* A packet is put into write_buf and written whole; what arrives with one *)
(* read is any piece of the byte stream.  decode keeps what it has read    *)
(* and how far it got in the Codec, so a call of it may be dropped between *)
(* any two steps (the select! of client_loop does that) and the next call  *)
(* goes on: each turn of its loop is a step here.                          *)
(*                                                                         *)
(* The connection may be lost with bytes on their way.                     *)
(***************************************************************************)
EXTENDS Packets

CONSTANTS
  Connects,  \* CONNECT packets
  Sendable,  \* other packets
  Limit,     \* the Maximum Packet Size both ends have set, None: usize::MAX
  ReadSizes, \* how many bytes a read may return (decode reads at most 256)
  MaxSent    \* bound on the packets sent

ASSUME FramingAssumption ==
  /\ Connects \subseteq ConnectPackets
  /\ Sendable \subseteq OtherPackets
  \* Others write_remaining_length would refuse.
  /\ \A p \in Connects \union Sendable : \A l \in {V4, V5} : Encoding(p, l).size <= 268435455
  /\ Limit \in Nat \union {None}
  /\ ReadSizes \subseteq 1..256
  /\ MaxSent \in Nat

VARIABLES
  \* the sending end
  level,     \* Codec.level
  writeBuf,  \* what a failed encode has left in write_buf
  sent,      \* packets written, as the receiver can see them
  \* the connection
  stream,    \* written and not taken out of read_buf
  arrived,   \* how many bytes of stream are in read_buf
  link,      \* "up"; "closed": the sender is done; "lost": no more arrives
  \* the receiving end
  peerLevel, \* Codec.level
  decoder,   \* decoder_state
  got,       \* packets decoded
  result     \* "open", or how the last call of decode ended

sendVars == <<level, writeBuf, sent>>
readVars == <<peerLevel, decoder, got, result>>
vars == <<sendVars, stream, arrived, link, readVars>>

-----------------------------------------------------------------------------
AtFlag == [at |-> "Flag"]
AtLength(flag) == [at |-> "Length", flag |-> flag]
AtBody(flag, size) == [at |-> "Body", flag |-> flag, size |-> size]

\* A new connection has level V4 at both ends until CONNECT has passed; in the
\* other direction, and after that, both have the level of the client.
Init ==
  /\ level \in {V4, V5}
  /\ peerLevel = level
  /\ writeBuf = <<>> /\ sent = <<>>
  /\ stream = <<>> /\ arrived = 0
  /\ link = "up"
  /\ decoder = AtFlag
  /\ got = <<>>
  /\ result = "open"

-----------------------------------------------------------------------------
(* The sending end.                                                        *)

\* Definitions whose name begins with Bug are faults seeded to show that the
\* properties below notice them; no other definition uses them.

CanSend == link = "up" /\ writeBuf = <<>> /\ Len(sent) < MaxSent

\* Codec::encode.  A refused packet leaves its first byte in write_buf.
Encode(p) ==
  LET l == IF p.type = "CONNECT" THEN p.level ELSE level IN
  /\ CanSend
  /\ level' = l
  /\ IF PayloadTooLarge(p, l) \/ PacketTooLarge(p, l, Limit)
     THEN /\ writeBuf' = <<Flag(p, l)>>
          /\ link' = IF PayloadTooLarge(p, l) THEN "up" ELSE "closed"
          /\ UNCHANGED <<sent, stream>>
     ELSE /\ stream' = stream \o Frame(p, l)
          /\ sent' = Append(sent, Seen(p, l))
          /\ UNCHANGED <<writeBuf, link>>
  /\ UNCHANGED <<arrived, readVars>>

SendConnect == sent = <<>> /\ level = V4 /\ \E p \in Connects : Encode(p)
Send == \E p \in Sendable : Encode(p)

\* PayloadTooLarge in an answer: the connection sends a DISCONNECT before it
\* ends, behind what is in write_buf.
TooLarge == [type |-> "DISCONNECT", reason_code |-> 149, properties |-> {}]
SayGoodbye ==
  /\ link = "up" /\ writeBuf # <<>>
  /\ ~PacketTooLarge(TooLarge, level, Limit)
  /\ stream' = stream \o writeBuf \o Frame(TooLarge, level)
  /\ link' = "closed"
  /\ UNCHANGED <<sendVars, arrived, readVars>>

\* The sender ends the connection: as it likes, or because handle_notified was
\* refused a PUBLISH, which goes without a DISCONNECT.
Close ==
  /\ link = "up"
  /\ link' = "closed"
  /\ UNCHANGED <<sendVars, stream, arrived, readVars>>

Lose ==
  /\ link # "lost"
  /\ link' = "lost"
  /\ UNCHANGED <<sendVars, stream, arrived, readVars>>

-----------------------------------------------------------------------------
(* The receiving end: Codec::decode.                                       *)

\* get_remaining_length: the length, and the bytes it is in.  Behind the first
\* byte a refused packet has left there is a DISCONNECT, whose first byte, 224,
\* is then taken for 96 and a sign that the next byte goes on.
LengthValue == IF Head(stream)[1] = "len" THEN Head(stream)[2] ELSE 96 + 128 * stream[2][2]
LengthSize == IF Head(stream)[1] = "len" THEN TokenSize(Head(stream)) ELSE 2

\* read_buf holds the whole of what the state asks for.
BugBodyWithMore == decoder.at = "Body" /\ arrived > decoder.size
FlagHere == decoder.at = "Flag" /\ arrived > 0
LengthHere == decoder.at = "Length" /\ arrived > 0 /\ arrived >= LengthSize
BodyHere == decoder.at = "Body" /\ arrived >= decoder.size

Reading == result = "open" /\ UNCHANGED <<sendVars, link>>
NeedsMore == Reading /\ ~FlagHere /\ ~LengthHere /\ ~BodyHere

\* A read returns what has arrived, up to some size.
Arrive ==
  /\ NeedsMore
  /\ link # "lost" /\ arrived < Size(stream)
  /\ \E k \in ReadSizes : arrived' = Min({arrived + k, Size(stream)})
  /\ UNCHANGED <<stream, readVars>>

Fail(r) == result' = r /\ UNCHANGED <<stream, arrived, peerLevel, decoder, got>>

\* n bytes, which are the first tokens of the stream, are taken out of read_buf.
Take(n, next) ==
  /\ stream' = From(stream, TokensIn(stream, n) + 1)
  /\ arrived' = arrived - n
  /\ decoder' = next
  /\ UNCHANGED result

\* A body that ends within a field or before the next packet begins, which no
\* packet does whose size is counted as it is written; it counts as malformed.
Astray == Reading /\ Fail("malformed")

TakeFlag ==
  /\ FlagHere
  /\ IF Head(stream)[1] = "flag"
     THEN Reading /\ Take(1, AtLength(Head(stream)[2])) /\ UNCHANGED <<peerLevel, got>>
     ELSE Astray

OverLimit(size) == Limit # None /\ size > Limit
TakeLength ==
  /\ LengthHere
  /\ Reading
  /\ IF OverLimit(LengthValue) THEN Fail("too_large")
     ELSE /\ Take(LengthSize, AtBody(decoder.flag, LengthValue))
          /\ UNCHANGED <<peerLevel, got>>

TakeBody ==
  LET k == TokensIn(stream, decoder.size)
      p == Decode(decoder.flag, SubSeq(stream, 1, k), peerLevel)
  IN
  /\ BodyHere
  /\ Reading
  /\ IF k = None THEN Astray
     ELSE IF p = Malformed THEN Fail("malformed")
     ELSE /\ Take(decoder.size, AtFlag)
          /\ got' = Append(got, p)
          /\ peerLevel' = IF p.type = "CONNECT" THEN p.level ELSE peerLevel

\* The end of the stream, between two packets or within one.
EndOf(d) == IF d = AtFlag THEN "end" ELSE "unexpected_eof"
ReadEnd ==
  /\ NeedsMore
  /\ link = "lost" \/ (link = "closed" /\ arrived = Size(stream))
  /\ Fail(EndOf(decoder))

-----------------------------------------------------------------------------
Next == \/ SendConnect \/ Send \/ SayGoodbye \/ Close \/ Lose
        \/ Arrive \/ TakeFlag \/ TakeLength \/ TakeBody \/ ReadEnd

Spec == Init /\ [][Next]_vars

-----------------------------------------------------------------------------
\* What the proofs ask of the packets, for the properties to hold.
PacketsWellCounted == \A p \in Connects \union Sendable : WellCounted(p)

\* What decode returns is what was given to encode, in that order, whole, and
\* as far as the protocol level has room for it, however the bytes were cut
\* into reads: the decoders and encoders agree on every field, order and flag.
DecodedAsSent == IsPrefix(got, sent)

\* decode refuses nothing that encode let out, neither for what it says (the
\* lengths encode computes are those of what it writes, and of what decode
\* reads) nor, if both ends have the same limit, for its size: only the
\* DISCONNECT behind a packet that encode gave up on is.
NothingRefused == result # "malformed" /\ (result = "too_large" => writeBuf # <<>>)

\* decode returns None only between two packets, with nothing of the next one
\* taken out of the buffer or left in it; and when the sender closes, all it
\* sent has been decoded and the end is not taken for a cut (a decode that
\* waits for more than a packet has would run into it).  One orderly end is:
\* that behind a packet encode gave up on, whose first byte makes the length
\* of the DISCONNECT another one.  All packets sent are decoded before it.
EndIsClean ==
  /\ result = "end" => arrived = 0 /\ (stream # <<>> => Head(stream)[1] = "flag")
  /\ result = "end" /\ link = "closed" => got = sent
  /\ result = "unexpected_eof" => link = "lost" \/ (writeBuf # <<>> /\ got = sent)
=============================================================================
