----------------------------- MODULE FramingProofs -----------------------------
(***************************************************************************)
(* What goes over a connection, for all packets, any limit and any cutting *)
(* into reads: decoded as it was sent, refused never, ended between two    *)
(* packets.                                                                *)
(*                                                                         *)
(* The packets sent, F, are named; R[i] is what is on its way from the     *)
(* i-th on, and g of them are decoded.  The decoder is before the first    *)
(* byte, before the length or before the body of packet g + 1, and what is *)
(* in the stream is the rest of that packet with R[g + 2] behind it; or    *)
(* all are decoded, and it is in the DISCONNECT behind a refused one,      *)
(* before what it takes for the length or before more than will come. That *)
(* a step takes just that packet needs one thing of it: the body is as     *)
(* long as its length says and decodes as the packet (Formatted), which    *)
(* PacketsProofs shows for each packet.                                    *)
(***************************************************************************)
EXTENDS Framing, PacketsProofs

-----------------------------------------------------------------------------
(* The connection, for packets whose formats agree.                        *)

Levels == {V4, V5}
AllPackets == Connects \union Sendable

\* The formats of the packets agree; a CONNECT can be read at any level.
FormatsAgree(V) ==
  /\ \A p \in Connects : /\ p.type = "CONNECT" /\ p.level \in Levels
                         /\ Formatted(V, p, p.level, Levels)
                         /\ Seen(p, p.level).level = p.level
  /\ \A p \in Sendable : \A l \in Levels :
       /\ p.type \notin {"CONNECT", "malformed"}
       /\ Formatted(V, p, l, {l})
  /\ \A l \in Levels : Formatted(V, TooLarge, l, {l})

\* The packets F are in flight or decoded.
SentAs(V, F) ==
  /\ F \in Seq(AllPackets)
  /\ sent = [i \in 1..Len(F) |-> Seen(F[i], level)]
  /\ \A i \in 1..Len(F) : /\ F[i] \in Connects => i = 1 /\ F[i].level = level
                          /\ ~PacketTooLarge(F[i], level, Limit)
  /\ level \in Levels
  /\ writeBuf = <<>> \/ \E t \in {"flag"} \X V : writeBuf = <<t>>
  /\ link \in {"up", "closed", "lost"}

\* R[i] is what is on its way from packet i on; behind the last one may be what
\* a refused packet has left.
Chained(V, F, R) ==
  /\ R \in [1..(Len(F) + 1) -> Seq(Token(V))]
  /\ \A i \in 1..Len(F) : R[i] = Frame(F[i], level) \o R[i + 1]
  /\ \/ R[Len(F) + 1] = <<>>
     \/ writeBuf # <<>> /\ link # "up" /\ R[Len(F) + 1] = writeBuf \o Frame(TooLarge, level)

\* g packets are decoded, and the decoder is where the next one begins, behind
\* its first byte, behind its length, or in what a refused packet has left.
BeforeFlag(F, R, g) == decoder = AtFlag /\ stream = R[g + 1]
BeforeLength(F, R, g) ==
  /\ g < Len(F)
  /\ decoder = AtLength(Flag(F[g + 1], level)[2])
  /\ stream = <<<<"len", Encoding(F[g + 1], level).size>>>>
                \o (Encoding(F[g + 1], level).body \o R[g + 2])
BeforeBody(F, R, g) ==
  /\ g < Len(F)
  /\ decoder = AtBody(Flag(F[g + 1], level)[2], Encoding(F[g + 1], level).size)
  /\ stream = Encoding(F[g + 1], level).body \o R[g + 2]
BeforeGoodbye(F, R, g) ==
  /\ g = Len(F)
  /\ writeBuf # <<>> /\ link # "up"
  /\ \E flag : \/ decoder = AtLength(flag) /\ stream = Frame(TooLarge, level)
               \/ \E n \in Nat : decoder = AtBody(flag, n) /\ Size(stream) < n

ReadTo(V, F, R, g) ==
  /\ g \in 0..Len(F)
  /\ got = [i \in 1..g |-> Seen(F[i], level)]
  /\ peerLevel \in Levels
  /\ \/ peerLevel = level
     \/ g = 0 /\ Len(F) = 0 /\ writeBuf # <<>>
     \/ g = 0 /\ Len(F) > 0 /\ F[1] \in Connects
  /\ stream \in Seq(Token(V))
  /\ \/ BeforeFlag(F, R, g) \/ BeforeLength(F, R, g) \/ BeforeBody(F, R, g)
     \/ BeforeGoodbye(F, R, g)
  /\ arrived \in 0..Size(stream)

Ended(F, g) ==
  /\ result \in {"open", "too_large", "end", "unexpected_eof"}
  /\ result = "too_large" => writeBuf # <<>>
  /\ result = "end" => /\ decoder = AtFlag /\ arrived = 0 /\ link # "up"
                       /\ link = "closed" => g = Len(F)
  /\ result = "unexpected_eof" => link = "lost" \/ (writeBuf # <<>> /\ g = Len(F))

Matches(V, F, R, g) ==
  SentAs(V, F) /\ Chained(V, F, R) /\ ReadTo(V, F, R, g) /\ Ended(F, g)

IInv(V) == \E F, R, g : Matches(V, F, R, g)

\* A frame, and what is behind it, token by token.
FrameSplits(p, l, r) ==
  Frame(p, l) \o r
    = <<Flag(p, l)>> \o (<<<<"len", Encoding(p, l).size>>>> \o (Encoding(p, l).body \o r))

\* A frame is a first byte, a length and a body, whatever is behind it.
LEMMA FrameTokens ==
  ASSUME NEW V, NEW p, NEW l, NEW ms, Formatted(V, p, l, ms), NEW r \in Seq(Token(V))
  PROVE  /\ Frame(p, l) \in Seq(Token(V))
         /\ Flag(p, l) \in Token(V)
         /\ <<"len", Encoding(p, l).size>> \in Token(V)
         /\ FrameSplits(p, l, r)
<1> DEFINE b == Encoding(p, l).body
           t == <<"len", Encoding(p, l).size>>
           f == Flag(p, l)
<1>1. f \in Token(V) /\ t \in Token(V) /\ b \in Seq(Token(V))
  BY DEF Formatted, Token
<1>2. Frame(p, l) = <<f, t>> \o b
  BY DEF Frame
<1> HIDE DEF b, t, f
<1>3. <<f, t>> \in Seq(Token(V)) /\ <<f>> \in Seq(Token(V)) /\ <<t>> \in Seq(Token(V))
  BY <1>1
<1>4. <<f, t>> = <<f>> \o <<t>>
  BY <1>1
<1>5. (<<f, t>> \o b) \o r = <<f, t>> \o (b \o r)
  BY <1>1, <1>3, ConcatAssociative
<1>6. b \o r \in Seq(Token(V))
  BY <1>1, ConcatProperties
<1>7. <<f, t>> \o (b \o r) = <<f>> \o (<<t>> \o (b \o r))
  <2> DEFINE u == b \o r
  <2>1. u \in Seq(Token(V))
    BY <1>6
  <2> HIDE DEF u
  <2>2. (<<f>> \o <<t>>) \o u = <<f>> \o (<<t>> \o u)
    BY <1>3, <2>1, ConcatAssociative
  <2>3. <<f, t>> \o u = <<f>> \o (<<t>> \o u)
    BY <1>4, <2>2
  <2> QED
    BY <2>3 DEF u
<1>8. <<f, t>> \o b \in Seq(Token(V))
  BY <1>1, <1>3, ConcatProperties
<1> QED
  BY <1>1, <1>2, <1>5, <1>7, <1>8 DEF FrameSplits, b, t, f

\* More behind a stream goes behind its last part.
LEMMA MoreBehindTwo ==
  ASSUME NEW S, NEW b \in Seq(S), NEW r \in Seq(S), NEW x \in Seq(S)
  PROVE  (b \o r) \o x = b \o (r \o x)
BY ConcatAssociative

-----------------------------------------------------------------------------
(* The sending end keeps the invariant.                                    *)

\* At the beginning nothing is sent, on its way or decoded.
LEMMA InitIInv ==
  ASSUME NEW V
  PROVE  Init => IInv(V)
<1> SUFFICES ASSUME Init PROVE Matches(V, <<>>, [i \in 1..1 |-> <<>>], 0)
  BY DEF IInv
<1> DEFINE R == [i \in 1..1 |-> <<>>]
<1>0. <<>> \in Seq(AllPackets) /\ Len(<<>>) = 0 /\ <<>> \in Seq(Token(V))
  OBVIOUS
<1>1. SentAs(V, <<>>)
  BY <1>0 DEF Init, SentAs, Levels
<1>2. Chained(V, <<>>, R)
  BY <1>0 DEF Chained
<1>3. ReadTo(V, <<>>, R, 0)
  BY <1>0, SizeOfNone DEF Init, ReadTo, BeforeFlag, Levels
<1>4. Ended(<<>>, 0)
  BY DEF Init, Ended
<1> QED
  BY <1>1, <1>2, <1>3, <1>4 DEF Matches

\* What is appended to the stream leaves the place of the decoder as it is.
LEMMA BeforeMore ==
  ASSUME NEW V, FormatsAgree(V), NEW F, NEW R, NEW g, Matches(V, F, R, g),
         NEW x \in Seq(Token(V)), NEW G \in Seq(AllPackets), NEW Q,
         Len(F) <= Len(G), \A i \in 1..Len(F) : G[i] = F[i],
         ~BeforeGoodbye(F, R, g),
         level' = level \/ F = <<>>,
         Q \in [1..(Len(G) + 1) -> Seq(Token(V))],
         \A i \in 1..(Len(F) + 1) : Q[i] = R[i] \o x,
         stream' = stream \o x, UNCHANGED <<decoder, arrived>>
  PROVE  /\ stream' \in Seq(Token(V)) /\ arrived' \in 0..Size(stream')
         /\ \/ BeforeFlag(G, Q, g)' \/ BeforeLength(G, Q, g)' \/ BeforeBody(G, Q, g)'
<1>1. /\ F \in Seq(AllPackets) /\ Len(F) \in Nat /\ g \in 0..Len(F)
      /\ R \in [1..(Len(F) + 1) -> Seq(Token(V))]
      /\ stream \in Seq(Token(V)) /\ arrived \in 0..Size(stream)
      /\ BeforeFlag(F, R, g) \/ BeforeLength(F, R, g) \/ BeforeBody(F, R, g)
  BY DEF Matches, SentAs, Chained, ReadTo
<1>2. stream' \in Seq(Token(V)) /\ arrived' \in 0..Size(stream')
  <2>1. /\ stream \o x \in Seq(Token(V))
        /\ Size(stream \o x) = Size(stream) + Size(x)
        /\ Size(stream) \in Nat /\ Size(x) \in Nat
    BY <1>1, SizeOfConcat, ConcatProperties
  <2> QED
    BY <1>1, <2>1
<1>3. Len(F) <= Len(G) /\ \A i \in 1..Len(F) : G[i] = F[i]
  OBVIOUS
<1>4. ASSUME BeforeFlag(F, R, g) PROVE BeforeFlag(G, Q, g)'
  <2>1. g + 1 \in 1..(Len(F) + 1)
    BY <1>1
  <2>2. stream' = R[g + 1] \o x /\ decoder' = AtFlag
    BY <1>4 DEF BeforeFlag
  <2>3. stream' = Q[g + 1]
    BY <2>1, <2>2
  <2> QED
    BY <2>2, <2>3 DEF BeforeFlag
<1>5. ASSUME g < Len(F)
      PROVE  /\ g + 1 \in 1..Len(F) /\ g + 2 \in 1..(Len(F) + 1)
             /\ level' = level /\ level \in Levels /\ G[g + 1] = F[g + 1] /\ g < Len(G)
             /\ R[g + 2] \in Seq(Token(V)) /\ Q[g + 2] = R[g + 2] \o x
             /\ Encoding(F[g + 1], level).body \in Seq(Token(V))
             /\ <<<<"len", Encoding(F[g + 1], level).size>>>> \in Seq(Token(V))
  <2>1. g + 1 \in 1..Len(F) /\ g + 2 \in 1..(Len(F) + 1)
    BY <1>1, <1>5
  <2>2. level' = level /\ level \in Levels /\ G[g + 1] = F[g + 1] /\ g < Len(G)
    <3>1. F # <<>> /\ Len(G) \in Nat
      BY <1>1, <1>5
    <3> QED
      BY <1>1, <1>3, <1>5, <2>1, <3>1 DEF Matches, SentAs
  <2>3. F[g + 1] \in AllPackets /\ (F[g + 1] \in Connects => F[g + 1].level = level)
    BY <1>1, <2>1, ElementOfSeq DEF Matches, SentAs
  <2>4. \E ms : Formatted(V, F[g + 1], level, ms)
    BY <2>2, <2>3 DEF FormatsAgree, AllPackets
  <2>5. /\ Encoding(F[g + 1], level).body \in Seq(Token(V))
        /\ <<"len", Encoding(F[g + 1], level).size>> \in Token(V)
    BY <2>4 DEF Formatted, Token
  <2>6. R[g + 2] \in Seq(Token(V)) /\ Q[g + 2] = R[g + 2] \o x
    BY <1>1, <2>1
  <2>7. <<<<"len", Encoding(F[g + 1], level).size>>>> \in Seq(Token(V))
    BY <2>5
  <2> QED
    BY <2>1, <2>2, <2>5, <2>6, <2>7
<1>6. ASSUME BeforeLength(F, R, g) PROVE BeforeLength(G, Q, g)'
  <2>1. g < Len(F)
    BY <1>6 DEF BeforeLength
  <2> DEFINE h == <<<<"len", Encoding(F[g + 1], level).size>>>>
             b == Encoding(F[g + 1], level).body
             r == R[g + 2]
  <2>2. h \in Seq(Token(V)) /\ b \in Seq(Token(V)) /\ r \in Seq(Token(V))
    BY <1>5, <2>1
  <2>3. stream = h \o (b \o r)
    BY <1>6 DEF BeforeLength
  <2>4. BeforeLength(G, Q, g)' <=> decoder' = AtLength(Flag(F[g + 1], level)[2])
                                    /\ stream' = h \o (b \o Q[g + 2])
    BY <1>5, <2>1 DEF BeforeLength
  <2>5. decoder' = AtLength(Flag(F[g + 1], level)[2])
    BY <1>6 DEF BeforeLength
  <2> HIDE DEF h, b, r
  <2>6. (h \o (b \o r)) \o x = h \o (b \o (r \o x))
    <3> DEFINE u == b \o r
    <3>1. u \in Seq(Token(V))
      BY <2>2, ConcatProperties
    <3>2. u \o x = b \o (r \o x)
      <4>1. b \in Seq(Token(V)) /\ r \in Seq(Token(V)) /\ x \in Seq(Token(V))
        BY <2>2
      <4> QED
        BY ONLY <4>1, MoreBehindTwo
    <3> HIDE DEF u
    <3>3. (h \o u) \o x = h \o (u \o x)
      <4>1. h \in Seq(Token(V)) /\ u \in Seq(Token(V)) /\ x \in Seq(Token(V))
        BY <2>2, <3>1
      <4> QED
        BY ONLY <4>1, MoreBehindTwo
    <3>4. (h \o u) \o x = h \o (b \o (r \o x))
      BY <3>2, <3>3
    <3> QED
      BY <3>4 DEF u
  <2>7. stream' = h \o (b \o Q[g + 2])
    BY <1>5, <2>1, <2>3, <2>6 DEF r
  <2> QED
    BY <2>4, <2>5, <2>7
<1>7. ASSUME BeforeBody(F, R, g) PROVE BeforeBody(G, Q, g)'
  <2>1. g < Len(F)
    BY <1>7 DEF BeforeBody
  <2> DEFINE b == Encoding(F[g + 1], level).body
             r == R[g + 2]
  <2>2. b \in Seq(Token(V)) /\ r \in Seq(Token(V))
    BY <1>5, <2>1
  <2>3. stream = b \o r
    BY <1>7 DEF BeforeBody
  <2>4. BeforeBody(G, Q, g)' <=>
          /\ decoder' = AtBody(Flag(F[g + 1], level)[2], Encoding(F[g + 1], level).size)
          /\ stream' = b \o Q[g + 2]
    BY <1>5, <2>1 DEF BeforeBody
  <2>5. decoder' = AtBody(Flag(F[g + 1], level)[2], Encoding(F[g + 1], level).size)
    BY <1>7 DEF BeforeBody
  <2> HIDE DEF b, r
  <2>6. (b \o r) \o x = b \o (r \o x)
    BY <2>2, MoreBehindTwo
  <2>7. stream' = b \o Q[g + 2]
    BY <1>5, <2>1, <2>3, <2>6 DEF r
  <2> QED
    BY <2>4, <2>5, <2>7
<1> QED
  BY <1>1, <1>2, <1>4, <1>6, <1>7

\* Append makes a function one longer.
LEMMA AppendTo ==
  ASSUME NEW n \in Nat, NEW f, f = [i \in 1..n |-> f[i]], NEW y
  PROVE  Append(f, y) = [i \in 1..(n + 1) |-> IF i = n + 1 THEN y ELSE f[i]]
<1> DEFINE S == {f[i] : i \in 1..n} \union {y}
<1>1. f \in [1..n -> S]
  OBVIOUS
<1> HIDE DEF S
<1>2. f \in Seq(S) /\ Len(f) = n
  BY <1>1
<1>3. y \in S
  BY DEF S
<1>4. Append(f, y) \in Seq(S) /\ Len(Append(f, y)) = n + 1
      /\ \A i \in 1..n : Append(f, y)[i] = f[i]
      /\ Append(f, y)[n + 1] = y
  BY <1>2, <1>3, AppendProperties
<1>5. Append(f, y) = [i \in 1..(n + 1) |-> Append(f, y)[i]]
  BY <1>4
<1> QED
  BY <1>4, <1>5

\* A packet that is not refused goes behind what is on its way.
LEMMA SentPacket ==
  ASSUME NEW V, FormatsAgree(V), NEW F, NEW R, NEW g, Matches(V, F, R, g),
         NEW p \in AllPackets, NEW l \in Levels, NEW ms, Formatted(V, p, l, ms),
         p \in Connects => sent = <<>> /\ p.level = l,
         p \notin Connects => l = level,
         CanSend, ~PacketTooLarge(p, l, Limit), level' = l,
         stream' = stream \o Frame(p, l), sent' = Append(sent, Seen(p, l)),
         UNCHANGED <<writeBuf, link, arrived, readVars>>
  PROVE  IInv(V)'
<1> DEFINE G == Append(F, p)
           x == Frame(p, l)
           m == Len(F)
           Q == [i \in 1..(m + 2) |-> IF i = m + 2 THEN <<>> ELSE R[i] \o x]
<1>1. /\ F \in Seq(AllPackets) /\ m \in Nat /\ g \in 0..m
      /\ R \in [1..(m + 1) -> Seq(Token(V))]
      /\ \A i \in 1..m : R[i] = Frame(F[i], level) \o R[i + 1]
      /\ R[m + 1] = <<>> /\ writeBuf = <<>> /\ link = "up" /\ result = "open"
      /\ level \in Levels
      /\ ~BeforeGoodbye(F, R, g)
  <2>1. F \in Seq(AllPackets) /\ m \in Nat /\ level \in Levels
    BY DEF Matches, SentAs
  <2>2. writeBuf = <<>> /\ link = "up"
    BY DEF CanSend
  <2>3. /\ R \in [1..(m + 1) -> Seq(Token(V))]
        /\ \A i \in 1..m : R[i] = Frame(F[i], level) \o R[i + 1]
        /\ R[m + 1] = <<>>
    BY <2>2 DEF Matches, Chained
  <2>4. g \in 0..m
    BY DEF Matches, ReadTo
  <2>5. result = "open"
    BY <2>2 DEF Matches, Ended
  <2>6. ~BeforeGoodbye(F, R, g)
    BY <2>2 DEF BeforeGoodbye
  <2> QED
    BY <2>1, <2>2, <2>3, <2>4, <2>5, <2>6
<1>2. /\ G \in Seq(AllPackets) /\ Len(G) = m + 1 /\ G[m + 1] = p
      /\ \A i \in 1..m : G[i] = F[i]
  BY <1>1, AppendProperties
<1>3. x \in Seq(Token(V))
  <2>1. <<>> \in Seq(Token(V))
    OBVIOUS
  <2> QED
    BY <2>1, FrameTokens
<1>4. sent = [i \in 1..m |-> Seen(F[i], level)]
  BY DEF Matches, SentAs
<1>5. (p \in Connects \/ level' # level) => m = 0 /\ F = <<>>
  <2>1. sent = <<>> => m = 0
    <3>1. DOMAIN sent = 1..m
      BY <1>4
    <3>2. DOMAIN <<>> = {}
      OBVIOUS
    <3>3. sent = <<>> => 1 \notin 1..m
      BY <3>1, <3>2
    <3> QED
      BY <1>1, <3>3
  <2>2. m = 0 => F = <<>>
    BY <1>1
  <2> QED
    BY <2>1, <2>2
<1>6. \A i \in 1..m : level' = level
  BY <1>1, <1>5
<1>7. /\ Q \in [1..(Len(G) + 1) -> Seq(Token(V))]
      /\ \A i \in 1..(m + 1) : Q[i] = R[i] \o x
      /\ Q[m + 2] = <<>>
  <2>1. Len(G) + 1 = m + 2
    BY <1>1, <1>2
  <2>2. ASSUME NEW i \in 1..(m + 1) PROVE R[i] \o x \in Seq(Token(V))
    <3>1. R[i] \in Seq(Token(V))
      BY <1>1
    <3> QED
      BY <1>3, <3>1, ConcatProperties
  <2> HIDE DEF x
  <2>3. <<>> \in Seq(Token(V))
    OBVIOUS
  <2>4. \A i \in 1..(m + 2) : i = m + 2 \/ i \in 1..(m + 1)
    BY <1>1
  <2>5. Q \in [1..(m + 2) -> Seq(Token(V))]
    BY <2>2, <2>3, <2>4
  <2>6. \A i \in 1..(m + 1) : i \in 1..(m + 2) /\ i # m + 2
    BY <1>1
  <2>7. m + 2 \in 1..(m + 2)
    BY <1>1
  <2> QED
    BY <2>1, <2>5, <2>6, <2>7
<1> HIDE DEF G, Q
<1>8. SentAs(V, G)'
  <2>1. sent' = [i \in 1..(m + 1) |-> Seen(G[i], l)]
    <3>1. sent' = [i \in 1..(m + 1) |-> IF i = m + 1 THEN Seen(p, l) ELSE sent[i]]
      <4>1. sent = [i \in 1..m |-> sent[i]]
        BY <1>4
      <4> QED
        BY <1>1, <4>1, AppendTo
    <3>2. ASSUME NEW i \in 1..(m + 1)
          PROVE  (IF i = m + 1 THEN Seen(p, l) ELSE sent[i]) = Seen(G[i], l)
      <4>1. CASE i = m + 1
        BY <1>2, <4>1
      <4>2. CASE i # m + 1
        <5>1. i \in 1..m
          BY <1>1, <4>2
        <5>2. l = level
          BY <1>6, <5>1
        <5> QED
          BY <1>2, <1>4, <4>2, <5>1, <5>2
      <4> QED
        BY <4>1, <4>2
    <3> QED
      BY <3>1, <3>2
  <2>2. ASSUME NEW i \in 1..(m + 1)
        PROVE  (G[i] \in Connects => i = 1 /\ G[i].level = l) /\ ~PacketTooLarge(G[i], l, Limit)
    <3>1. CASE i = m + 1
      BY <1>1, <1>2, <1>5, <3>1
    <3>2. CASE i # m + 1
      <4>1. i \in 1..m
        BY <1>1, <3>2
      <4>2. l = level
        BY <1>6, <4>1
      <4> QED
        BY <1>2, <4>1, <4>2 DEF Matches, SentAs
    <3> QED
      BY <3>1, <3>2
  <2> QED
    BY <1>1, <1>2, <2>1, <2>2 DEF SentAs
<1>9. Chained(V, G, Q)'
  <2>1. ASSUME NEW i \in 1..(m + 1) PROVE Q[i] = Frame(G[i], l) \o Q[i + 1]
    <3>1. CASE i = m + 1
      <4>1. Q[i] = <<>> \o x /\ Q[i + 1] = <<>>
        <5>1. m + 1 \in 1..(m + 1) /\ (m + 1) + 1 = m + 2
          BY <1>1
        <5>2. Q[m + 1] = R[m + 1] \o x /\ Q[(m + 1) + 1] = <<>>
          BY <1>7, <5>1
        <5> QED
          BY <1>1, <3>1, <5>2
      <4>2. <<>> \o x = x /\ x \o <<>> = x
        BY <1>3, ConcatEmptySeq
      <4>3. Frame(G[i], l) = x
        BY <1>2, <3>1
      <4> QED
        BY <4>1, <4>2, <4>3
    <3>2. CASE i # m + 1
      <4>1. i \in 1..m /\ i + 1 \in 1..(m + 1)
        BY <1>1, <3>2
      <4>2. l = level /\ G[i] = F[i]
        BY <1>2, <1>6, <4>1
      <4> DEFINE f == Frame(F[i], level)
                 r == R[i + 1]
      <4>3. Formatted(V, F[i], level, {level})
        <5>1. F[i] \in AllPackets /\ (F[i] \in Connects => F[i].level = level)
          BY <1>1, <4>1, ElementOfSeq DEF Matches, SentAs
        <5> QED
          BY <1>1, <5>1 DEF FormatsAgree, AllPackets, Formatted
      <4>4. f \in Seq(Token(V)) /\ r \in Seq(Token(V))
        <5>1. r \in Seq(Token(V))
          BY <1>1, <4>1
        <5> QED
          BY <4>3, <5>1, FrameTokens
      <4>5. R[i] = f \o r
        BY <1>1, <4>1
      <4> HIDE DEF f, r, x
      <4>6. (f \o r) \o x = f \o (r \o x)
        <5>1. f \in Seq(Token(V)) /\ r \in Seq(Token(V)) /\ x \in Seq(Token(V))
          BY <1>3, <4>4
        <5> QED
          BY <5>1, MoreBehindTwo
      <4>7. Q[i] = (f \o r) \o x /\ Q[i + 1] = r \o x
        BY <1>7, <4>1, <4>5 DEF r
      <4>8. Frame(G[i], l) = f
        BY <4>2 DEF f
      <4> QED
        BY <4>6, <4>7, <4>8
    <3> QED
      BY <3>1, <3>2
  <2>2. Q[Len(G) + 1] = <<>>
    BY <1>1, <1>2, <1>7
  <2> QED
    BY <1>2, <1>7, <2>1, <2>2 DEF Chained
<1>10. ReadTo(V, G, Q, g)'
  <2>1. /\ stream' \in Seq(Token(V)) /\ arrived' \in 0..Size(stream')
        /\ BeforeFlag(G, Q, g)' \/ BeforeLength(G, Q, g)' \/ BeforeBody(G, Q, g)'
    <3>1. Len(F) <= Len(G) /\ \A i \in 1..Len(F) : G[i] = F[i]
      BY <1>1, <1>2
    <3>2. level' = level \/ F = <<>>
      BY <1>5
    <3>3. \A i \in 1..(Len(F) + 1) : Q[i] = R[i] \o x
      BY <1>7
    <3>4. UNCHANGED <<decoder, arrived>> /\ stream' = stream \o x
      BY DEF readVars
    <3>5. G \in Seq(AllPackets) /\ Q \in [1..(Len(G) + 1) -> Seq(Token(V))]
      BY <1>2, <1>7
    <3> HIDE DEF x, m
    <3> QED
      BY <1>1, <1>3, <3>1, <3>2, <3>3, <3>4, <3>5, BeforeMore
  <2>2. g \in 0..Len(G) /\ got' = [i \in 1..g |-> Seen(G[i], level')]
    <3>1. got' = [i \in 1..g |-> Seen(F[i], level)]
      BY DEF Matches, ReadTo, readVars
    <3>2. \A i \in 1..g : i \in 1..m /\ G[i] = F[i] /\ level' = level
      BY <1>1, <1>2, <1>6
    <3> QED
      BY <1>1, <1>2, <3>1, <3>2
  <2>3. /\ peerLevel' \in Levels
        /\ \/ peerLevel' = level'
           \/ g = 0 /\ Len(G) > 0 /\ G[1] \in Connects
    <3>1. /\ peerLevel \in Levels /\ peerLevel' = peerLevel
          /\ \/ peerLevel = level
             \/ g = 0 /\ m > 0 /\ F[1] \in Connects
      BY <1>1 DEF Matches, ReadTo, readVars
    <3>2. CASE p \in Connects
      BY <1>1, <1>2, <1>5, <3>1, <3>2
    <3>3. CASE p \notin Connects
      BY <1>1, <1>2, <3>1, <3>3
    <3> QED
      BY <3>2, <3>3
  <2> QED
    BY <2>1, <2>2, <2>3 DEF ReadTo
<1>11. Ended(G, g)'
  BY <1>1 DEF Ended, readVars
<1> QED
  BY <1>8, <1>9, <1>10, <1>11 DEF IInv, Matches

\* A refused packet leaves its first byte, and nothing is sent any more.
LEMMA RefusedPacket ==
  ASSUME NEW V, NEW F, NEW R, NEW g, Matches(V, F, R, g),
         NEW p \in AllPackets, NEW l \in Levels, NEW ms, Formatted(V, p, l, ms),
         p \in Connects => sent = <<>>, p \notin Connects => l = level,
         CanSend, level' = l, writeBuf' = <<Flag(p, l)>>, link' \in {"up", "closed"},
         UNCHANGED <<sent, stream, arrived, readVars>>
  PROVE  Matches(V, F, R, g)'
<1>1. writeBuf = <<>> /\ link = "up" /\ result = "open"
  BY DEF CanSend, Matches, Ended
<1>2. /\ F \in Seq(AllPackets) /\ Len(F) \in Nat /\ g \in 0..Len(F)
      /\ sent = [i \in 1..Len(F) |-> Seen(F[i], level)]
  BY DEF Matches, SentAs, ReadTo
<1>3. Len(F) = 0 \/ level' = level
  <2>1. sent = <<>> => Len(F) = 0
    <3>1. DOMAIN sent = 1..Len(F)
      BY <1>2
    <3>2. DOMAIN <<>> = {}
      OBVIOUS
    <3>3. sent = <<>> => 1 \notin 1..Len(F)
      BY <3>1, <3>2
    <3> QED
      BY <1>2, <3>3
  <2> QED
    BY <2>1
<1>4. writeBuf' # <<>> /\ \E t \in {"flag"} \X V : writeBuf' = <<t>>
  BY DEF Formatted
<1>5. SentAs(V, F)'
  <2>1. sent' = [i \in 1..Len(F) |-> Seen(F[i], level')]
    BY <1>2, <1>3
  <2>2. \A i \in 1..Len(F) : /\ F[i] \in Connects => i = 1 /\ F[i].level = level'
                             /\ ~PacketTooLarge(F[i], level', Limit)
    BY <1>2, <1>3 DEF Matches, SentAs
  <2> QED
    BY <1>2, <1>4, <2>1, <2>2 DEF SentAs
<1>6. Chained(V, F, R)'
  <2>1. R \in [1..(Len(F) + 1) -> Seq(Token(V))] /\ R[Len(F) + 1] = <<>>
    BY <1>1 DEF Matches, Chained
  <2>2. ASSUME NEW i \in 1..Len(F) PROVE R[i] = Frame(F[i], level') \o R[i + 1]
    <3>1. R[i] = Frame(F[i], level) \o R[i + 1]
      BY DEF Matches, Chained
    <3>2. level' = level
      BY <1>2, <1>3
    <3> QED
      BY <3>1, <3>2
  <2> QED
    BY <2>1, <2>2 DEF Chained
<1>7. ReadTo(V, F, R, g)'
  <2>1. BeforeFlag(F, R, g) \/ BeforeLength(F, R, g) \/ BeforeBody(F, R, g)
    BY <1>1 DEF Matches, ReadTo, BeforeGoodbye
  <2>2. BeforeFlag(F, R, g)' \/ BeforeLength(F, R, g)' \/ BeforeBody(F, R, g)'
    <3>1. ASSUME BeforeFlag(F, R, g) PROVE BeforeFlag(F, R, g)'
      BY <3>1 DEF BeforeFlag, readVars
    <3>2. ASSUME BeforeLength(F, R, g) PROVE BeforeLength(F, R, g)'
      <4>1. level' = level /\ UNCHANGED <<decoder, stream>>
        BY <1>2, <1>3, <3>2 DEF BeforeLength, readVars
      <4> QED
        BY <3>2, <4>1 DEF BeforeLength
    <3>3. ASSUME BeforeBody(F, R, g) PROVE BeforeBody(F, R, g)'
      <4>1. level' = level /\ UNCHANGED <<decoder, stream>>
        BY <1>2, <1>3, <3>3 DEF BeforeBody, readVars
      <4> QED
        BY <3>3, <4>1 DEF BeforeBody
    <3> QED
      BY <2>1, <3>1, <3>2, <3>3
  <2>3. got' = [i \in 1..g |-> Seen(F[i], level')]
    <3>1. got = [i \in 1..g |-> Seen(F[i], level)]
      BY DEF Matches, ReadTo
    <3>2. CASE level' = level
      BY <3>1, <3>2 DEF readVars
    <3>3. CASE Len(F) = 0
      <4>1. 1..g = {}
        BY <1>2, <3>3
      <4> QED
        BY <3>1, <4>1 DEF readVars
    <3> QED
      BY <1>3, <3>2, <3>3
  <2>4. /\ peerLevel' \in Levels
        /\ \/ peerLevel' = level'
           \/ g = 0 /\ Len(F) = 0 /\ writeBuf' # <<>>
           \/ g = 0 /\ Len(F) > 0 /\ F[1] \in Connects
    BY <1>1, <1>2, <1>3, <1>4 DEF Matches, ReadTo, readVars
  <2>5. stream' \in Seq(Token(V)) /\ arrived' \in 0..Size(stream')
    BY DEF Matches, ReadTo
  <2> QED
    BY <1>2, <2>2, <2>3, <2>4, <2>5 DEF ReadTo
<1>8. Ended(F, g)'
  BY <1>1 DEF Ended, readVars
<1> QED
  BY <1>5, <1>6, <1>7, <1>8 DEF Matches

\* Codec::encode keeps the invariant, whether it lets the packet out or not.
LEMMA EncodeIInv ==
  ASSUME NEW V, FormatsAgree(V), IInv(V), SendConnect \/ Send
  PROVE  IInv(V)'
<1>1. PICK F, R, g : Matches(V, F, R, g)
  BY DEF IInv
<1>2. level \in Levels
  BY <1>1 DEF Matches, SentAs
<1>3. PICK p \in AllPackets : Encode(p) /\ (p \in Connects => sent = <<>>)
  <2>1. ASSUME NEW p \in Sendable PROVE p \notin Connects
    BY DEF FormatsAgree
  <2> QED
    BY <2>1 DEF SendConnect, Send, AllPackets
<1> DEFINE l == IF p.type = "CONNECT" THEN p.level ELSE level
           Refused == PayloadTooLarge(p, l) \/ PacketTooLarge(p, l, Limit)
<1>4. /\ l \in Levels /\ (\E ms : Formatted(V, p, l, ms))
      /\ p \in Connects => p.level = l
      /\ p \notin Connects => l = level
  BY <1>2 DEF FormatsAgree, AllPackets
<1>5. PICK ms : Formatted(V, p, l, ms)
  BY <1>4
<1>6. /\ CanSend /\ level' = l /\ UNCHANGED <<arrived, readVars>>
      /\ Refused => /\ writeBuf' = <<Flag(p, l)>> /\ link' \in {"up", "closed"}
                    /\ UNCHANGED <<sent, stream>>
      /\ ~Refused => /\ stream' = stream \o Frame(p, l) /\ sent' = Append(sent, Seen(p, l))
                     /\ UNCHANGED <<writeBuf, link>>
  BY <1>3 DEF Encode, CanSend
<1> HIDE DEF l
<1>7. ASSUME Refused PROVE IInv(V)'
  <2>1. UNCHANGED <<sent, stream, arrived, readVars>>
    BY <1>6, <1>7
  <2>2. Matches(V, F, R, g)'
    BY <1>1, <1>3, <1>4, <1>5, <1>6, <1>7, <2>1, RefusedPacket
  <2> QED
    BY <2>2 DEF IInv
<1>8. ASSUME ~Refused PROVE IInv(V)'
  <2>1. UNCHANGED <<writeBuf, link, arrived, readVars>>
    BY <1>6, <1>8
  <2>2. p \in Connects => sent = <<>> /\ p.level = l
    BY <1>3, <1>4
  <2>3. ~PacketTooLarge(p, l, Limit)
    BY <1>8
  <2> QED
    BY <1>1, <1>4, <1>5, <1>6, <1>8, <2>1, <2>2, <2>3, SentPacket
<1> QED
  BY <1>7, <1>8

\* The DISCONNECT of a refused packet goes behind its first byte.
LEMMA GoodbyeIInv ==
  ASSUME NEW V, FormatsAgree(V), IInv(V), SayGoodbye
  PROVE  IInv(V)'
<1>1. PICK F, R, g : Matches(V, F, R, g)
  BY DEF IInv
<1> DEFINE m == Len(F)
<1>x. PICK x : x = writeBuf \o Frame(TooLarge, level)
  OBVIOUS
<1>q. PICK Q : Q = [i \in 1..(m + 1) |-> R[i] \o x]
  OBVIOUS
<1>2. /\ F \in Seq(AllPackets) /\ m \in Nat /\ g \in 0..m /\ level \in Levels
      /\ R \in [1..(m + 1) -> Seq(Token(V))]
      /\ \A i \in 1..m : R[i] = Frame(F[i], level) \o R[i + 1]
      /\ R[m + 1] = <<>> /\ writeBuf # <<>> /\ link = "up" /\ result \in {"open", "unexpected_eof", "too_large"}
  <2>1. F \in Seq(AllPackets) /\ m \in Nat /\ level \in Levels
    BY <1>1 DEF Matches, SentAs
  <2>2. writeBuf # <<>> /\ link = "up"
    BY DEF SayGoodbye
  <2>3. /\ R \in [1..(m + 1) -> Seq(Token(V))]
        /\ \A i \in 1..m : R[i] = Frame(F[i], level) \o R[i + 1]
        /\ R[m + 1] = <<>>
    BY <1>1, <2>2 DEF Matches, Chained
  <2>4. g \in 0..m
    BY <1>1 DEF Matches, ReadTo
  <2>5. result \in {"open", "unexpected_eof", "too_large"}
    BY <1>1, <2>2 DEF Matches, Ended
  <2> QED
    BY <2>1, <2>2, <2>3, <2>4, <2>5
<1>3. /\ link' = "closed" /\ stream' = stream \o x
      /\ UNCHANGED <<level, writeBuf, sent, arrived, peerLevel, decoder, got, result>>
  <2>1. stream' = (stream \o writeBuf) \o Frame(TooLarge, level)
    BY DEF SayGoodbye
  <2>2. /\ stream \in Seq(Token(V)) /\ writeBuf \in Seq(Token(V))
        /\ Frame(TooLarge, level) \in Seq(Token(V))
    <3>1. stream \in Seq(Token(V))
      BY <1>1 DEF Matches, ReadTo
    <3>2. PICK t \in {"flag"} \X V : writeBuf = <<t>>
      BY <1>1, <1>2 DEF Matches, SentAs
    <3>3. t \in Token(V)
      BY DEF Token
    <3>4. Formatted(V, TooLarge, level, {level})
      BY <1>2 DEF FormatsAgree
    <3>5. Frame(TooLarge, level) \in Seq(Token(V))
      <4>1. <<>> \in Seq(Token(V))
        OBVIOUS
      <4> QED
        BY <3>4, <4>1, FrameTokens
    <3> QED
      BY <3>1, <3>2, <3>3, <3>5
  <2> DEFINE f == Frame(TooLarge, level)
  <2> HIDE DEF f
  <2>3. (stream \o writeBuf) \o f = stream \o (writeBuf \o f)
    <3>1. stream \in Seq(Token(V)) /\ writeBuf \in Seq(Token(V)) /\ f \in Seq(Token(V))
      BY <2>2 DEF f
    <3> QED
      BY <3>1, MoreBehindTwo
  <2>4. stream' = stream \o x
    BY <1>x, <2>1, <2>3 DEF f
  <2>5. link' = "closed" /\ UNCHANGED <<sendVars, arrived, readVars>>
    BY DEF SayGoodbye
  <2> QED
    BY <2>4, <2>5 DEF sendVars, readVars
<1>4. x \in Seq(Token(V))
  <2>1. PICK t \in {"flag"} \X V : writeBuf = <<t>>
    BY <1>1, <1>2 DEF Matches, SentAs
  <2>2. t \in Token(V)
    BY DEF Token
  <2>3. Formatted(V, TooLarge, level, {level})
    BY <1>2 DEF FormatsAgree
  <2>4. Frame(TooLarge, level) \in Seq(Token(V))
    <3>1. <<>> \in Seq(Token(V))
      OBVIOUS
    <3> QED
      BY <2>3, <3>1, FrameTokens
  <2>5. writeBuf \in Seq(Token(V))
    BY <2>1, <2>2
  <2> QED
    BY <1>x, <2>4, <2>5, ConcatProperties
<1>5. /\ Q \in [1..(m + 1) -> Seq(Token(V))]
      /\ \A i \in 1..(m + 1) : Q[i] = R[i] \o x
      /\ Q[m + 1] = x
  <2>1. ASSUME NEW i \in 1..(m + 1) PROVE R[i] \o x \in Seq(Token(V))
    <3>1. R[i] \in Seq(Token(V))
      BY <1>2
    <3> QED
      BY <1>4, <3>1, ConcatProperties
  <2>2. <<>> \o x = x
    BY <1>4, ConcatEmptySeq
  <2>3. m + 1 \in 1..(m + 1)
    BY <1>2
  <2> QED
    BY <1>2, <1>q, <2>1, <2>2, <2>3
<1>6. SentAs(V, F)'
  <2>1. SentAs(V, F)
    BY <1>1 DEF Matches
  <2> QED
    BY <1>3, <2>1 DEF SentAs
<1>7. Chained(V, F, Q)'
  <2>1. ASSUME NEW i \in 1..m PROVE Q[i] = Frame(F[i], level) \o Q[i + 1]
    <3> DEFINE f == Frame(F[i], level)
               r == R[i + 1]
    <3>1. i \in 1..(m + 1) /\ i + 1 \in 1..(m + 1)
      BY <1>2
    <3>2. Formatted(V, F[i], level, {level})
      <4>1. F[i] \in AllPackets /\ (F[i] \in Connects => F[i].level = level)
        BY <1>1, <1>2, ElementOfSeq DEF Matches, SentAs
      <4> QED
        BY <1>2, <4>1 DEF FormatsAgree, AllPackets, Formatted
    <3>3. f \in Seq(Token(V)) /\ r \in Seq(Token(V))
      <4>1. r \in Seq(Token(V))
        BY <1>2, <3>1
      <4> QED
        BY <3>2, <4>1, FrameTokens
    <3>4. R[i] = f \o r
      BY <1>2
    <3>5. Q[i] = R[i] \o x /\ Q[i + 1] = r \o x
      BY <1>5, <3>1
    <3> HIDE DEF f, r
    <3>6. (f \o r) \o x = f \o (r \o x)
      <4>1. f \in Seq(Token(V)) /\ r \in Seq(Token(V)) /\ x \in Seq(Token(V))
        BY <1>4, <3>3
      <4> QED
        BY ONLY <4>1, MoreBehindTwo
    <3>7. Q[i] = f \o Q[i + 1]
      BY <3>4, <3>5, <3>6
    <3> QED
      BY <3>7 DEF f
  <2>2. Q[m + 1] = writeBuf \o Frame(TooLarge, level)
    BY <1>5, <1>x
  <2>3. level' = level /\ writeBuf' = writeBuf /\ writeBuf # <<>> /\ link' # "up"
    BY <1>2, <1>3
  <2>4. Q \in [1..(Len(F) + 1) -> Seq(Token(V))]
    BY <1>5
  <2>5. \A i \in 1..Len(F) : Q[i] = Frame(F[i], level') \o Q[i + 1]
    BY <2>1, <2>3
  <2>6. Q[Len(F) + 1] = writeBuf' \o Frame(TooLarge, level')
    BY <2>2, <2>3
  <2>7. writeBuf' # <<>> /\ link' # "up"
    BY <2>3
  <2> QED
    BY <2>4, <2>5, <2>6, <2>7 DEF Chained
<1>8. ReadTo(V, F, Q, g)'
  <2>1. /\ stream' \in Seq(Token(V)) /\ arrived' \in 0..Size(stream')
        /\ BeforeFlag(F, Q, g)' \/ BeforeLength(F, Q, g)' \/ BeforeBody(F, Q, g)'
    <3>1. ~BeforeGoodbye(F, R, g)
      BY <1>2 DEF BeforeGoodbye
    <3>2. UNCHANGED <<decoder, arrived>> /\ stream' = stream \o x /\ level' = level
      BY <1>3
    <3>3. Q \in [1..(Len(F) + 1) -> Seq(Token(V))] /\ \A i \in 1..(Len(F) + 1) : Q[i] = R[i] \o x
      BY <1>5
    <3>4. F \in Seq(AllPackets) /\ Len(F) <= Len(F) /\ \A i \in 1..Len(F) : F[i] = F[i]
      BY <1>2
    <3>5. level' = level \/ F = <<>>
      BY <3>2
    <3> HIDE DEF m
    <3> QED
      BY <1>1, <1>4, <3>1, <3>2, <3>3, <3>4, <3>5, BeforeMore
  <2>2. /\ g \in 0..Len(F)
        /\ got = [i \in 1..g |-> Seen(F[i], level)]
        /\ peerLevel \in Levels
        /\ \/ peerLevel = level
           \/ g = 0 /\ Len(F) = 0 /\ writeBuf # <<>>
           \/ g = 0 /\ Len(F) > 0 /\ F[1] \in Connects
    BY <1>1 DEF Matches, ReadTo
  <2> QED
    BY <1>3, <2>1, <2>2 DEF ReadTo
<1>9. Ended(F, g)'
  <2>1. Ended(F, g)
    BY <1>1 DEF Matches
  <2> QED
    BY <1>2, <1>3, <2>1 DEF Ended
<1> QED
  BY <1>6, <1>7, <1>8, <1>9 DEF IInv, Matches

\* The end of the connection keeps the invariant.
LEMMA EndOfLinkIInv ==
  ASSUME NEW V, IInv(V), Close \/ Lose
  PROVE  IInv(V)'
<1>1. PICK F, R, g : Matches(V, F, R, g)
  BY DEF IInv
<1>2. /\ link' \in {"closed", "lost"} /\ link # "lost" /\ (link' = "closed" => link = "up")
      /\ UNCHANGED <<level, writeBuf, sent, stream, arrived, peerLevel, decoder, got, result>>
  BY DEF Close, Lose, sendVars, readVars
<1>3. SentAs(V, F)'
  BY <1>1, <1>2 DEF Matches, SentAs
<1>4. Chained(V, F, R)'
  <2>1. Chained(V, F, R)
    BY <1>1 DEF Matches
  <2> QED
    BY <1>2, <2>1 DEF Chained
<1>5. ReadTo(V, F, R, g)'
  <2>1. ReadTo(V, F, R, g)
    BY <1>1 DEF Matches
  <2>2. BeforeFlag(F, R, g) => BeforeFlag(F, R, g)'
    BY <1>2 DEF BeforeFlag
  <2>3. BeforeLength(F, R, g) => BeforeLength(F, R, g)'
    BY <1>2 DEF BeforeLength
  <2>4. BeforeBody(F, R, g) => BeforeBody(F, R, g)'
    BY <1>2 DEF BeforeBody
  <2>5. BeforeGoodbye(F, R, g) => BeforeGoodbye(F, R, g)'
    BY <1>2 DEF BeforeGoodbye
  <2> QED
    BY <1>2, <2>1, <2>2, <2>3, <2>4, <2>5 DEF ReadTo
<1>6. Ended(F, g)'
  <2>1. Ended(F, g)
    BY <1>1 DEF Matches
  <2> QED
    BY <1>2, <2>1 DEF Ended
<1> QED
  BY <1>3, <1>4, <1>5, <1>6 DEF IInv, Matches

-----------------------------------------------------------------------------
(* The receiving end keeps the invariant.                                  *)

\* What the packet that is being decoded is.
LEMMA PacketHere ==
  ASSUME NEW V, FormatsAgree(V), NEW F, NEW R, NEW g, Matches(V, F, R, g), g < Len(F)
  PROVE  /\ g + 1 \in 1..Len(F) /\ g + 2 \in 1..(Len(F) + 1) /\ (g + 1) + 1 = g + 2
         /\ F[g + 1] \in AllPackets /\ level \in Levels
         /\ F[g + 1] \in Connects => g = 0 /\ F[g + 1].level = level
         /\ Formatted(V, F[g + 1], level, IF F[g + 1] \in Connects THEN Levels ELSE {level})
         /\ ~PacketTooLarge(F[g + 1], level, Limit)
         /\ R[g + 2] \in Seq(Token(V))
         /\ R[g + 1] = Frame(F[g + 1], level) \o R[g + 2]
<1>1. F \in Seq(AllPackets) /\ Len(F) \in Nat /\ g \in 0..Len(F) /\ level \in Levels
  BY DEF Matches, SentAs, ReadTo
<1>2. g + 1 \in 1..Len(F) /\ g + 2 \in 1..(Len(F) + 1) /\ (g + 1) + 1 = g + 2
  BY <1>1
<1>3. /\ F[g + 1] \in AllPackets
      /\ F[g + 1] \in Connects => g + 1 = 1 /\ F[g + 1].level = level
      /\ ~PacketTooLarge(F[g + 1], level, Limit)
  BY <1>1, <1>2, ElementOfSeq DEF Matches, SentAs
<1>4. Formatted(V, F[g + 1], level, IF F[g + 1] \in Connects THEN Levels ELSE {level})
  BY <1>1, <1>3 DEF FormatsAgree, AllPackets
<1>5. R[g + 2] \in Seq(Token(V)) /\ R[g + 1] = Frame(F[g + 1], level) \o R[g + 2]
  BY <1>2 DEF Matches, Chained
<1> QED
  BY <1>1, <1>2, <1>3, <1>4, <1>5

\* What a refused packet leaves.
LEMMA GoodbyeHere ==
  ASSUME NEW V, FormatsAgree(V), NEW F, NEW R, NEW g, Matches(V, F, R, g)
  PROVE  /\ Frame(TooLarge, level) \in Seq(Token(V)) /\ Frame(TooLarge, level) # <<>>
         /\ Head(Frame(TooLarge, level)) \in Token(V)
         /\ Head(Frame(TooLarge, level))[1] = "flag"
<1>1. Formatted(V, TooLarge, level, {level})
  BY DEF Matches, SentAs, FormatsAgree
<1>2. Frame(TooLarge, level) \in Seq(Token(V)) /\ Flag(TooLarge, level) \in Token(V)
  <2>1. <<>> \in Seq(Token(V))
    OBVIOUS
  <2> QED
    BY <1>1, <2>1, FrameTokens
<1>3. Flag(TooLarge, level)[1] = "flag"
  BY DEF Flag
<1> DEFINE b == Encoding(TooLarge, level).body
           t == <<"len", Encoding(TooLarge, level).size>>
           f == Flag(TooLarge, level)
<1>4. b \in Seq(Token(V)) /\ t \in Token(V) /\ f \in Token(V)
  BY <1>1 DEF Formatted, Token
<1>5. Frame(TooLarge, level) = <<f, t>> \o b
  BY DEF Frame
<1> HIDE DEF b, t, f
<1>6. <<f, t>> \o b # <<>> /\ Head(<<f, t>> \o b) = f
  <2>1. <<f, t>> \in Seq(Token(V)) /\ Len(<<f, t>>) = 2 /\ <<f, t>>[1] = f
    BY <1>4
  <2>2. /\ Len(<<f, t>> \o b) = 2 + Len(b) /\ Len(b) \in Nat /\ <<f, t>> \o b \in Seq(Token(V))
        /\ \A i \in 1..(2 + Len(b)) : (<<f, t>> \o b)[i] = IF i <= 2 THEN <<f, t>>[i] ELSE b[i - 2]
    BY <1>4, <2>1, ConcatProperties
  <2>3. (<<f, t>> \o b)[1] = f
    BY <2>1, <2>2
  <2> QED
    BY <2>2, <2>3
<1>7. Head(Frame(TooLarge, level)) = Flag(TooLarge, level) /\ Frame(TooLarge, level) # <<>>
  BY <1>5, <1>6 DEF f
<1> QED
  BY <1>2, <1>3, <1>7

\* A DISCONNECT that is read from its first byte on as a length.
Stray(V, t, n, b) ==
  /\ t \in {"flag"} \X V /\ n \in 0..1
  /\ b \in Seq(Token(V)) /\ Size(b) = n
  /\ Frame(TooLarge, level) = <<t, <<"len", n>>>> \o b

\* The DISCONNECT of a refused packet has at most the reason code behind its
\* length.
LEMMA GoodbyeIsStray ==
  ASSUME NEW V, FormatsAgree(V), level \in Levels
  PROVE  \E t, n, b : Stray(V, t, n, b)
<1>1. Formatted(V, TooLarge, level, {level})
  BY DEF FormatsAgree
<1> DEFINE e == Encoding(TooLarge, level)
           t == Flag(TooLarge, level)
<1>2. /\ t \in {"flag"} \X V /\ e.body \in Seq(Token(V)) /\ Size(e.body) = e.size
  BY <1>1 DEF Formatted
<1>3. e.size \in 0..1
  BY DEF Encoding, TooLarge, DisconnectEncoding, DisconnectLength
<1>4. Frame(TooLarge, level) = <<t, <<"len", e.size>>>> \o e.body
  BY DEF Frame
<1> HIDE DEF e, t
<1> QED
  BY <1>2, <1>3, <1>4 DEF Stray

\* get_remaining_length takes two bytes of it, and more than is behind them.
LEMMA StrayIsRead ==
  ASSUME NEW V, NEW t, NEW n, NEW b, Stray(V, t, n, b), stream = Frame(TooLarge, level)
  PROVE  /\ LengthSize = 2 /\ LengthValue \in Nat /\ Size(b) < LengthValue
         /\ Size(stream) = 2 + Size(b) /\ Size(b) \in Nat
         /\ From(stream, TokensIn(stream, 2) + 1) = b
<1> DEFINE z == <<"len", n>>
           h == <<t, z>>
<1>1. /\ t \in Token(V) /\ t[1] = "flag" /\ n \in 0..1
      /\ b \in Seq(Token(V)) /\ Size(b) = n /\ stream = h \o b
  BY DEF Stray, Token
<1>2. z \in Token(V) /\ z[1] = "len" /\ z[2] = n
  BY <1>1 DEF Token
<1>3. TokenSize(t) = 1 /\ TokenSize(z) = 1
  BY <1>1, <1>2 DEF TokenSize, RemainingLengthSize
<1> HIDE DEF z
<1>4. h = <<t>> \o <<z>> /\ h \in Seq(Token(V)) /\ Len(h) = 2 /\ h[1] = t /\ h[2] = z
  BY <1>1, <1>2, PairIsConcat
<1> HIDE DEF h
<1>5. Size(h) = 2
  <2>1. <<z>> \in Seq(Token(V)) /\ Size(<<z>>) = 1
    BY <1>2, <1>3, SizeOfOne
  <2>2. Size(<<t>> \o <<z>>) = TokenSize(t) + Size(<<z>>)
    BY <1>1, <2>1, FirstToken
  <2> QED
    BY <1>3, <1>4, <2>1, <2>2
<1>6. stream[1] = t /\ stream[2] = z /\ Head(stream) = t
  <2>1. /\ Len(h \o b) = 2 + Len(b) /\ Len(b) \in Nat /\ h \o b \in Seq(Token(V))
        /\ \A i \in 1..(2 + Len(b)) : (h \o b)[i] = IF i <= 2 THEN h[i] ELSE b[i - 2]
    BY <1>1, <1>4, ConcatProperties
  <2> QED
    BY <1>1, <1>4, <2>1
<1>7. LengthSize = 2 /\ LengthValue = 96 + 128 * n
  BY <1>1, <1>2, <1>6 DEF LengthSize, LengthValue
<1>8. Size(stream) = 2 + Size(b)
  BY <1>1, <1>4, <1>5, SizeOfConcat
<1>9. From(stream, TokensIn(stream, 2) + 1) = b
  <2>1. TokensIn(h \o b, Size(h)) = Len(h)
    BY <1>1, <1>4, TokensOfConcat
  <2>2. From(h \o b, Len(h) + 1) = b
    BY <1>1, <1>4, PartsOfConcat
  <2> QED
    BY <1>1, <1>5, <2>1, <2>2
<1> QED
  BY <1>1, <1>7, <1>8, <1>9

\* Nothing that encode lets out is over the limit of decode.
LEMMA NotOverLimit ==
  ASSUME NEW p, NEW l, ~PacketTooLarge(p, l, Limit), Encoding(p, l).size \in Nat
  PROVE  ~OverLimit(Encoding(p, l).size)
<1>1. Limit # None => Limit \in Nat
  BY FramingAssumption
<1>2. p.type \in {"PINGREQ", "PINGRESP"} => Encoding(p, l).size = 0
  BY DEF Encoding
<1> DEFINE n == Encoding(p, l).size
<1>3. Limit # None /\ p.type \notin {"PINGREQ", "PINGRESP"} => ~(n > Limit) \/ ~(n >= Limit)
  BY DEF PacketTooLarge
<1>4. n \in Nat /\ (p.type \in {"PINGREQ", "PINGRESP"} => n = 0)
  BY <1>2
<1> HIDE DEF n
<1>5. ~(Limit # None /\ n > Limit)
  BY <1>1, <1>3, <1>4
<1> QED
  BY <1>5 DEF OverLimit, n

\* The sending end does not change.
LEMMA SentStays ==
  ASSUME NEW V, NEW F, NEW R, NEW g, Matches(V, F, R, g), UNCHANGED <<sendVars, link>>
  PROVE  SentAs(V, F)' /\ Chained(V, F, R)'
<1>1. SentAs(V, F) /\ Chained(V, F, R)
  BY DEF Matches
<1>2. UNCHANGED <<level, writeBuf, sent, link>>
  BY DEF sendVars
<1> QED
  BY <1>1, <1>2 DEF SentAs, Chained

\* A call of decode that ends without a packet keeps it, if it ends for a
\* reason the invariant allows.
LEMMA FailIInv ==
  ASSUME NEW V, NEW F, NEW R, NEW g, Matches(V, F, R, g), UNCHANGED <<sendVars, link>>,
         NEW r, Fail(r), r \in {"too_large", "end", "unexpected_eof"},
         r = "too_large" => writeBuf # <<>>,
         r = "end" => /\ decoder = AtFlag /\ arrived = 0 /\ link # "up"
                      /\ link = "closed" => g = Len(F),
         r = "unexpected_eof" => link = "lost" \/ (writeBuf # <<>> /\ g = Len(F))
  PROVE  Matches(V, F, R, g)'
<1>1. SentAs(V, F)' /\ Chained(V, F, R)'
  BY SentStays
<1>2. UNCHANGED <<stream, arrived, peerLevel, decoder, got, level, writeBuf, sent, link>>
      /\ result' = r
  BY DEF Fail, sendVars
<1>3. ReadTo(V, F, R, g)'
  <2>1. ReadTo(V, F, R, g)
    BY DEF Matches
  <2>2. BeforeFlag(F, R, g) => BeforeFlag(F, R, g)'
    BY <1>2 DEF BeforeFlag
  <2>3. BeforeLength(F, R, g) => BeforeLength(F, R, g)'
    BY <1>2 DEF BeforeLength
  <2>4. BeforeBody(F, R, g) => BeforeBody(F, R, g)'
    BY <1>2 DEF BeforeBody
  <2>5. BeforeGoodbye(F, R, g) => BeforeGoodbye(F, R, g)'
    BY <1>2 DEF BeforeGoodbye
  <2> QED
    BY <1>2, <2>1, <2>2, <2>3, <2>4, <2>5 DEF ReadTo
<1>4. Ended(F, g)'
  BY <1>2 DEF Ended
<1> QED
  BY <1>1, <1>3, <1>4 DEF Matches

\* A read, of any size, keeps it.
LEMMA ArriveIInv ==
  ASSUME NEW V, IInv(V), Arrive
  PROVE  IInv(V)'
<1>1. PICK F, R, g : Matches(V, F, R, g)
  BY DEF IInv
<1>2. /\ UNCHANGED <<sendVars, link, stream, readVars>>
      /\ \E k \in ReadSizes : arrived' = Min({arrived + k, Size(stream)})
  BY DEF Arrive, NeedsMore, Reading
<1>3. SentAs(V, F)' /\ Chained(V, F, R)'
  BY <1>1, <1>2, SentStays
<1>4. UNCHANGED <<stream, peerLevel, decoder, got, level, writeBuf, sent, link, result>>
  BY <1>2 DEF sendVars, readVars
<1>5. ReadTo(V, F, R, g) /\ Ended(F, g)
  BY <1>1 DEF Matches
<1>6. arrived' \in 0..Size(stream)
  <2>1. PICK k \in ReadSizes : arrived' = Min({arrived + k, Size(stream)})
    BY <1>2
  <2>2. k \in Nat
    BY FramingAssumption
  <2>3. stream \in Seq(Token(V)) /\ arrived \in 0..Size(stream)
    BY <1>5 DEF ReadTo
  <2>4. Size(stream) \in Nat
    BY <2>3, SizeOfSome
  <2>5. PICK a \in Nat, z \in Nat : a = arrived + k /\ z = Size(stream)
    BY <2>2, <2>3, <2>4
  <2>6. arrived' = CHOOSE x \in {a, z} : \A y \in {a, z} : x <= y
    BY <2>1, <2>5 DEF Min
  <2>7. \E x \in {a, z} : \A y \in {a, z} : x <= y
    BY <2>5
  <2>8. arrived' \in {a, z} /\ arrived' <= z
    BY <2>6, <2>7
  <2> QED
    BY <2>5, <2>8
<1>7. ReadTo(V, F, R, g)'
  <2>2. BeforeFlag(F, R, g) => BeforeFlag(F, R, g)'
    BY <1>4 DEF BeforeFlag
  <2>3. BeforeLength(F, R, g) => BeforeLength(F, R, g)'
    BY <1>4 DEF BeforeLength
  <2>4. BeforeBody(F, R, g) => BeforeBody(F, R, g)'
    BY <1>4 DEF BeforeBody
  <2>5. BeforeGoodbye(F, R, g) => BeforeGoodbye(F, R, g)'
    BY <1>4 DEF BeforeGoodbye
  <2> QED
    BY <1>4, <1>5, <1>6, <2>2, <2>3, <2>4, <2>5 DEF ReadTo
<1>8. Ended(F, g)'
  <2>1. result = "open"
    BY DEF Arrive, NeedsMore, Reading
  <2> QED
    BY <1>4, <1>5, <2>1 DEF Ended
<1> QED
  BY <1>3, <1>7, <1>8 DEF IInv, Matches

\* The decoder goes on within a packet.
LEMMA WithinIInv ==
  ASSUME NEW V, NEW F, NEW R, NEW g, Matches(V, F, R, g), UNCHANGED <<sendVars, link>>,
         result = "open", UNCHANGED <<result, peerLevel, got>>,
         stream' \in Seq(Token(V)), arrived' \in 0..Size(stream'),
         BeforeLength(F, R, g)' \/ BeforeBody(F, R, g)' \/ BeforeGoodbye(F, R, g)'
  PROVE  Matches(V, F, R, g)'
<1>1. SentAs(V, F)' /\ Chained(V, F, R)'
  BY SentStays
<1>2. UNCHANGED <<level, writeBuf>>
  BY DEF sendVars
<1>3. ReadTo(V, F, R, g)'
  <2>1. /\ g \in 0..Len(F)
        /\ got = [i \in 1..g |-> Seen(F[i], level)]
        /\ peerLevel \in Levels
        /\ \/ peerLevel = level
           \/ g = 0 /\ Len(F) = 0 /\ writeBuf # <<>>
           \/ g = 0 /\ Len(F) > 0 /\ F[1] \in Connects
    BY DEF Matches, ReadTo
  <2> QED
    BY <1>2, <2>1 DEF ReadTo
<1>4. Ended(F, g)'
  BY DEF Ended
<1> QED
  BY <1>1, <1>3, <1>4 DEF Matches

\* Where the decoder is tells what is in front of it.
LEMMA DecoderAt ==
  ASSUME NEW V, NEW F, NEW R, NEW g, ReadTo(V, F, R, g)
  PROVE  /\ decoder = AtFlag \/ decoder.at = "Flag" => BeforeFlag(F, R, g)
         /\ decoder.at = "Length" => BeforeLength(F, R, g) \/ BeforeGoodbye(F, R, g)
         /\ decoder.at = "Body" => BeforeBody(F, R, g) \/ BeforeGoodbye(F, R, g)
<1>1. \/ BeforeFlag(F, R, g) \/ BeforeLength(F, R, g) \/ BeforeBody(F, R, g)
      \/ BeforeGoodbye(F, R, g)
  BY DEF ReadTo
<1>2. BeforeFlag(F, R, g) => decoder.at = "Flag"
  BY DEF BeforeFlag, AtFlag
<1>3. BeforeLength(F, R, g) => decoder.at = "Length"
  BY DEF BeforeLength, AtLength
<1>4. BeforeBody(F, R, g) => decoder.at = "Body"
  BY DEF BeforeBody, AtBody
<1>5. BeforeGoodbye(F, R, g) => decoder.at \in {"Length", "Body"}
  BY DEF BeforeGoodbye, AtLength, AtBody
<1>6. decoder = AtFlag => decoder.at = "Flag"
  BY DEF AtFlag
<1> QED
  BY <1>1, <1>2, <1>3, <1>4, <1>5, <1>6

\* What is on its way from packet g + 1 on: its first byte, and what is behind.
BeginsWith(V, F, R, g, t, r) ==
  /\ t \in {"flag"} \X V /\ t = Flag(F[g + 1], level)
  /\ r \in Seq(Token(V))
  /\ r = <<<<"len", Encoding(F[g + 1], level).size>>>>
           \o (Encoding(F[g + 1], level).body \o R[g + 2])
  /\ R[g + 1] = <<t>> \o r

\* Where a packet is still to be decoded, its frame is next.
LEMMA NextFrame ==
  ASSUME NEW V, FormatsAgree(V), NEW F, NEW R, NEW g, Matches(V, F, R, g), g < Len(F)
  PROVE  \E t, r : BeginsWith(V, F, R, g, t, r)
<1>0. Matches(V, F, R, g) /\ g < Len(F)
  OBVIOUS
<1>1. PICK p, x : p = F[g + 1] /\ x = R[g + 2]
  OBVIOUS
<1>2. PICK ms : Formatted(V, p, level, ms)
  BY <1>0, <1>1, PacketHere
<1>3. x \in Seq(Token(V)) /\ R[g + 1] = Frame(p, level) \o x
  <2>1. R[g + 2] \in Seq(Token(V)) /\ R[g + 1] = Frame(F[g + 1], level) \o R[g + 2]
    <3>1. g \in Nat /\ Len(F) \in Nat
      BY <1>0 DEF Matches, SentAs, ReadTo
    <3>2. g + 1 \in 1..Len(F) /\ g + 2 \in 1..(Len(F) + 1) /\ (g + 1) + 1 = g + 2
      BY <1>0, <3>1
    <3> QED
      BY <1>0, <3>2 DEF Matches, Chained
  <2> QED
    BY <1>1, <2>1
<1>4. Encoding(p, level).body \in Seq(Token(V)) /\ Encoding(p, level).size \in Nat
  BY <1>2 DEF Formatted
<1>5. Encoding(p, level).body \o x \in Seq(Token(V))
  BY <1>3, <1>4, ConcatProperties
<1>6. <<<<"len", Encoding(p, level).size>>>> \in Seq(Token(V))
  BY <1>4 DEF Token
<1>7. <<<<"len", Encoding(p, level).size>>>> \o (Encoding(p, level).body \o x) \in Seq(Token(V))
  BY <1>5, <1>6, ConcatProperties
<1>8. Flag(p, level) \in {"flag"} \X V
  BY <1>2 DEF Formatted
<1>9. Frame(p, level) \o x
        = <<Flag(p, level)>> \o (<<<<"len", Encoding(p, level).size>>>>
                                   \o (Encoding(p, level).body \o x))
  <2>1. FrameSplits(p, level, x)
    BY <1>2, <1>3, FrameTokens
  <2> QED
    BY <2>1 DEF FrameSplits
<1> QED
  BY <1>1, <1>3, <1>7, <1>8, <1>9 DEF BeginsWith

\* Taking the first byte keeps the invariant: it is that of the next packet.
LEMMA TakeFlagIInv ==
  ASSUME NEW V, FormatsAgree(V), IInv(V), TakeFlag
  PROVE  IInv(V)'
<1>1. PICK F, R, g : Matches(V, F, R, g)
  BY DEF IInv
<1>2. /\ decoder.at = "Flag" /\ arrived > 0 /\ result = "open" /\ UNCHANGED <<sendVars, link>>
      /\ IF Head(stream)[1] = "flag"
         THEN Take(1, AtLength(Head(stream)[2])) /\ UNCHANGED <<peerLevel, got>>
         ELSE Fail("malformed")
  BY DEF TakeFlag, FlagHere, Reading, Astray
<1>3. /\ F \in Seq(AllPackets) /\ Len(F) \in Nat /\ g \in 0..Len(F)
      /\ stream \in Seq(Token(V)) /\ arrived \in 0..Size(stream)
  BY <1>1 DEF Matches, SentAs, ReadTo
<1>4. BeforeFlag(F, R, g)
  BY <1>1, <1>2, DecoderAt DEF Matches
<1>5. stream = R[g + 1]
  BY <1>4 DEF BeforeFlag
<1>6. Size(stream) \in Nat /\ stream # <<>>
  BY <1>2, <1>3, SizeOfSome, SizeOfNone
\* A first byte is taken, and r is behind it.
<1>7. ASSUME NEW t \in {"flag"} \X V, NEW r \in Seq(Token(V)), stream = <<t>> \o r
      PROVE  /\ stream' = r /\ stream' \in Seq(Token(V)) /\ arrived' \in 0..Size(stream')
             /\ decoder' = AtLength(t[2]) /\ UNCHANGED <<result, peerLevel, got>>
  <2>1. t \in Token(V) /\ t[1] = "flag"
    BY DEF Token
  <2>2. TokenSize(t) = 1
    BY <2>1 DEF TokenSize
  <2>3. /\ Head(stream) = t /\ Size(stream) = 1 + Size(r) /\ Size(r) \in Nat
        /\ From(stream, TokensIn(stream, 1) + 1) = r
    BY <1>7, <2>1, <2>2, FirstToken
  <2>4. Take(1, AtLength(t[2])) /\ UNCHANGED <<peerLevel, got>>
    BY <1>2, <2>1, <2>3
  <2>5. stream' = r /\ arrived' = arrived - 1 /\ decoder' = AtLength(t[2]) /\ UNCHANGED result
    BY <2>3, <2>4 DEF Take
  <2>6. arrived' \in 0..Size(r)
    BY <1>2, <1>3, <2>3, <2>5
  <2> QED
    BY <2>4, <2>5, <2>6
<1>8. ASSUME g < Len(F) PROVE Matches(V, F, R, g)'
  <2>1. Matches(V, F, R, g) /\ g < Len(F)
    BY <1>1, <1>8
  <2>2. PICK t, r : BeginsWith(V, F, R, g, t, r)
    BY <2>1, NextFrame
  <2>3. t \in {"flag"} \X V /\ r \in Seq(Token(V)) /\ R[g + 1] = <<t>> \o r
    BY <2>2 DEF BeginsWith
  <2>5. /\ stream' = r /\ stream' \in Seq(Token(V)) /\ arrived' \in 0..Size(stream')
        /\ decoder' = AtLength(t[2]) /\ UNCHANGED <<result, peerLevel, got>>
    BY <1>5, <1>7, <2>3
  <2>6. level' = level
    BY <1>2 DEF sendVars
  <2>7. BeforeLength(F, R, g)'
    BY <1>8, <2>2, <2>5, <2>6 DEF BeforeLength, BeginsWith
  <2> QED
    BY <1>1, <1>2, <2>5, <2>7, WithinIInv
<1>9. ASSUME g = Len(F) PROVE Matches(V, F, R, g)'
  <2>1. /\ writeBuf # <<>> /\ link # "up" /\ stream = writeBuf \o Frame(TooLarge, level)
    BY <1>1, <1>5, <1>6, <1>9 DEF Matches, Chained
  <2>2. PICK t \in {"flag"} \X V : writeBuf = <<t>>
    BY <1>1, <2>1 DEF Matches, SentAs
  <2>3. PICK r : r = Frame(TooLarge, level)
    OBVIOUS
  <2>4. r \in Seq(Token(V))
    BY <1>1, <2>3, GoodbyeHere
  <2>5. /\ stream' = r /\ stream' \in Seq(Token(V)) /\ arrived' \in 0..Size(stream')
        /\ decoder' = AtLength(t[2]) /\ UNCHANGED <<result, peerLevel, got>>
    BY <1>7, <2>1, <2>2, <2>3, <2>4
  <2>6. UNCHANGED <<level, writeBuf, link>>
    BY <1>2 DEF sendVars
  <2>7. BeforeGoodbye(F, R, g)'
    BY <1>9, <2>1, <2>3, <2>5, <2>6 DEF BeforeGoodbye
  <2> QED
    BY <1>1, <1>2, <2>5, <2>7, WithinIInv
<1>10. g < Len(F) \/ g = Len(F)
  BY <1>3
<1> QED
  BY <1>8, <1>9, <1>10 DEF IInv

\* get_remaining_length keeps it: the length is that of the packet begun, and
\* no more than the limit encode kept to.
LEMMA TakeLengthIInv ==
  ASSUME NEW V, FormatsAgree(V), IInv(V), TakeLength
  PROVE  IInv(V)'
<1>1. PICK F, R, g : Matches(V, F, R, g)
  BY DEF IInv
<1>2. /\ decoder.at = "Length" /\ arrived >= LengthSize /\ result = "open"
      /\ UNCHANGED <<sendVars, link>>
      /\ OverLimit(LengthValue) => Fail("too_large")
      /\ ~OverLimit(LengthValue) =>
           /\ Take(LengthSize, AtBody(decoder.flag, LengthValue))
           /\ UNCHANGED <<peerLevel, got>>
  BY DEF TakeLength, LengthHere, Reading
<1>3. /\ F \in Seq(AllPackets) /\ Len(F) \in Nat /\ g \in 0..Len(F)
      /\ stream \in Seq(Token(V)) /\ arrived \in 0..Size(stream)
  BY <1>1 DEF Matches, SentAs, ReadTo
<1>4. BeforeLength(F, R, g) \/ BeforeGoodbye(F, R, g)
  BY <1>1, <1>2, DecoderAt DEF Matches
<1>5. ASSUME BeforeLength(F, R, g) PROVE Matches(V, F, R, g)'
  <2> DEFINE p == F[g + 1]
  <2>0. g < Len(F)
    BY <1>5 DEF BeforeLength
  <2>1. /\ Formatted(V, p, level, IF p \in Connects THEN Levels ELSE {level})
        /\ ~PacketTooLarge(p, level, Limit)
        /\ R[g + 2] \in Seq(Token(V))
    <3>1. Matches(V, F, R, g) /\ g < Len(F)
      BY <1>1, <2>0
    <3> QED
      BY <3>1, PacketHere
  <2>2. PICK t, r, n : /\ t = <<"len", n>> /\ n = Encoding(p, level).size
                       /\ r = Encoding(p, level).body \o R[g + 2]
    OBVIOUS
  <2>3. stream = <<t>> \o r /\ decoder = AtLength(Flag(p, level)[2])
    BY <1>5, <2>2 DEF BeforeLength
  <2>4. t \in Token(V) /\ r \in Seq(Token(V)) /\ n \in Nat
    <3>1. Encoding(p, level).body \in Seq(Token(V)) /\ Encoding(p, level).size \in Nat
      BY <2>1 DEF Formatted
    <3>2. Encoding(p, level).body \o R[g + 2] \in Seq(Token(V))
      BY <2>1, <3>1, ConcatProperties
    <3> QED
      BY <2>2, <3>1, <3>2 DEF Token
  <2>5. /\ Head(stream) = t /\ Size(stream) = TokenSize(t) + Size(r) /\ Size(r) \in Nat
        /\ TokenSize(t) \in Nat
        /\ From(stream, TokensIn(stream, TokenSize(t)) + 1) = r
    BY <2>3, <2>4, FirstToken
  <2>6. LengthSize = TokenSize(t) /\ LengthValue = n /\ ~OverLimit(n)
    BY <2>1, <2>2, <2>4, <2>5, NotOverLimit DEF LengthSize, LengthValue
  <2>7. Take(TokenSize(t), AtBody(decoder.flag, n)) /\ UNCHANGED <<peerLevel, got>>
    BY <1>2, <2>6
  <2>8. /\ stream' = r /\ arrived' = arrived - TokenSize(t) /\ UNCHANGED result
        /\ decoder' = AtBody(Flag(p, level)[2], n)
    BY <2>3, <2>5, <2>7 DEF Take, AtLength
  <2>9. arrived' \in 0..Size(stream') /\ stream' \in Seq(Token(V))
    BY <1>2, <1>3, <2>4, <2>5, <2>6, <2>8
  <2>10. level' = level
    BY <1>2 DEF sendVars
  <2>11. BeforeBody(F, R, g)'
    BY <2>0, <2>2, <2>8, <2>10 DEF BeforeBody
  <2> QED
    BY <1>1, <1>2, <2>7, <2>8, <2>9, <2>11, WithinIInv
<1>6. ASSUME BeforeGoodbye(F, R, g) PROVE Matches(V, F, R, g)'
  <2>1. PICK flag : /\ g = Len(F) /\ writeBuf # <<>> /\ link # "up"
                    /\ decoder = AtLength(flag) /\ stream = Frame(TooLarge, level)
    BY <1>2, <1>6 DEF BeforeGoodbye, AtBody
  <2>2. PICK t, n, b : Stray(V, t, n, b)
    BY <1>1, GoodbyeIsStray DEF Matches, SentAs
  <2>3. PICK v : v = LengthValue
    OBVIOUS
  <2>4. /\ LengthSize = 2 /\ v \in Nat /\ Size(b) < v
        /\ Size(stream) = 2 + Size(b) /\ Size(b) \in Nat
        /\ From(stream, TokensIn(stream, 2) + 1) = b
    BY <2>1, <2>2, <2>3, StrayIsRead
  <2>5. CASE OverLimit(v)
    <3>1. Fail("too_large")
      BY <1>2, <2>3, <2>5
    <3> QED
      BY <1>1, <1>2, <2>1, <3>1, FailIInv
  <2>6. CASE ~OverLimit(v)
    <3>1. Take(2, AtBody(flag, v)) /\ UNCHANGED <<peerLevel, got>>
      BY <1>2, <2>1, <2>3, <2>4, <2>6 DEF AtLength
    <3>2. /\ stream' = b /\ arrived' = arrived - 2 /\ UNCHANGED result
          /\ decoder' = AtBody(flag, v)
      BY <2>4, <3>1 DEF Take
    <3>3. arrived' \in 0..Size(stream') /\ stream' \in Seq(Token(V))
      BY <1>2, <1>3, <2>2, <2>4, <3>2 DEF Stray
    <3>4. UNCHANGED <<level, writeBuf, link>>
      BY <1>2 DEF sendVars
    <3>5. BeforeGoodbye(F, R, g)'
      BY <2>1, <2>4, <3>2, <3>4 DEF BeforeGoodbye
    <3> QED
      BY <1>1, <1>2, <3>1, <3>2, <3>3, <3>5, WithinIInv
  <2> QED
    BY <2>5, <2>6
<1> QED
  BY <1>4, <1>5, <1>6 DEF IInv

\* Taking the body keeps it: it ends where the length says, and decodes as
\* what was sent.
LEMMA TakeBodyIInv ==
  ASSUME NEW V, FormatsAgree(V), IInv(V), TakeBody
  PROVE  IInv(V)'
<1>1. PICK F, R, g : Matches(V, F, R, g)
  BY DEF IInv
<1> DEFINE k == TokensIn(stream, decoder.size)
           q == Decode(decoder.flag, SubSeq(stream, 1, k), peerLevel)
<1>2. /\ decoder.at = "Body" /\ arrived >= decoder.size /\ result = "open"
      /\ UNCHANGED <<sendVars, link>>
      /\ k # None /\ q # Malformed =>
           /\ Take(decoder.size, AtFlag)
           /\ got' = Append(got, q)
           /\ peerLevel' = IF q.type = "CONNECT" THEN q.level ELSE peerLevel
  BY DEF TakeBody, BodyHere, Reading, Astray
<1> HIDE DEF k, q
<1>3. /\ F \in Seq(AllPackets) /\ Len(F) \in Nat /\ g \in 0..Len(F) /\ level \in Levels
      /\ stream \in Seq(Token(V)) /\ arrived \in 0..Size(stream)
      /\ peerLevel \in Levels
      /\ got = [i \in 1..g |-> Seen(F[i], level)]
  BY <1>1 DEF Matches, SentAs, ReadTo
<1>4. BeforeBody(F, R, g)
  <2>1. ASSUME BeforeGoodbye(F, R, g) PROVE FALSE
    <3>1. PICK n \in Nat : decoder.size = n /\ Size(stream) < n
      BY <1>2, <2>1 DEF BeforeGoodbye, AtLength, AtBody
    <3>2. Size(stream) \in Nat
      BY <1>3, SizeOfSome
    <3> QED
      BY <1>2, <1>3, <3>1, <3>2
  <2> QED
    BY <1>1, <1>2, <2>1, DecoderAt DEF Matches
<1>5. PICK p : p = F[g + 1]
  OBVIOUS
<1>6. /\ g < Len(F) /\ decoder.flag = Flag(p, level)[2] /\ decoder.size = Encoding(p, level).size
      /\ stream = Encoding(p, level).body \o R[g + 2]
  BY <1>4, <1>5 DEF BeforeBody, AtBody
<1>7. /\ Formatted(V, p, level, IF p \in Connects THEN Levels ELSE {level})
      /\ R[g + 2] \in Seq(Token(V)) /\ p \in AllPackets
      /\ p \in Connects => g = 0 /\ p.level = level
      /\ g + 1 \in 1..Len(F) /\ g + 2 \in 1..(Len(F) + 1) /\ (g + 1) + 1 = g + 2
  <2>1. Matches(V, F, R, g) /\ g < Len(F)
    BY <1>1, <1>6
  <2>2. /\ Formatted(V, F[g + 1], level, IF F[g + 1] \in Connects THEN Levels ELSE {level})
        /\ R[g + 2] \in Seq(Token(V)) /\ F[g + 1] \in AllPackets
        /\ F[g + 1] \in Connects => g = 0 /\ F[g + 1].level = level
    BY <2>1, PacketHere
  <2>3. g + 1 \in 1..Len(F) /\ g + 2 \in 1..(Len(F) + 1) /\ (g + 1) + 1 = g + 2
    BY <1>3, <1>6
  <2> QED
    BY <1>5, <2>2, <2>3
<1>8. PICK b, r : b = Encoding(p, level).body /\ r = R[g + 2]
  OBVIOUS
<1>9. /\ b \in Seq(Token(V)) /\ r \in Seq(Token(V)) /\ stream = b \o r
      /\ Size(b) = decoder.size
  BY <1>6, <1>7, <1>8 DEF Formatted
<1>10. k = Len(b) /\ Len(b) \in Nat /\ SubSeq(stream, 1, k) = b /\ From(stream, k + 1) = r
  BY <1>9, TokensOfConcat, PartsOfConcat DEF k
<1>11. q = Seen(p, level)
  <2>1. p \in Connects \/ peerLevel = level
    BY <1>1, <1>5, <1>6, <1>3 DEF Matches, ReadTo
  <2>2. Decode(Flag(p, level)[2], b, peerLevel) = Seen(p, level)
    BY <1>3, <1>7, <1>8, <2>1 DEF Formatted
  <2> QED
    BY <1>6, <1>10, <2>2 DEF q
<1>12. /\ q.type = p.type /\ p.type # "malformed"
       /\ p \in Connects => q.type = "CONNECT" /\ q.level = level
       /\ p \notin Connects => q.type # "CONNECT"
  BY <1>3, <1>7, <1>11 DEF Formatted, FormatsAgree, AllPackets
<1>13. q # Malformed
  BY <1>12 DEF Malformed
<1>14. k # None
  BY <1>10, NoneAssumption
<1>15. Take(decoder.size, AtFlag) /\ got' = Append(got, q)
       /\ peerLevel' = IF q.type = "CONNECT" THEN q.level ELSE peerLevel
  BY <1>2, <1>13, <1>14
<1>16. stream' = r /\ arrived' = arrived - decoder.size /\ decoder' = AtFlag /\ UNCHANGED result
  BY <1>10, <1>15 DEF Take, k
<1>17. UNCHANGED <<level, writeBuf, link>>
  BY <1>2 DEF sendVars
<1>18. SentAs(V, F)' /\ Chained(V, F, R)'
  BY <1>1, <1>2, SentStays
<1>19. ReadTo(V, F, R, g + 1)'
  <2>1. got' = [i \in 1..(g + 1) |-> Seen(F[i], level)]
    <3>1. got = [i \in 1..g |-> got[i]]
      BY <1>3
    <3>2. g \in Nat
      BY <1>3
    <3>3. got' = [i \in 1..(g + 1) |-> IF i = g + 1 THEN q ELSE got[i]]
      BY <1>15, <3>1, <3>2, AppendTo
    <3>4. ASSUME NEW i \in 1..(g + 1)
          PROVE  (IF i = g + 1 THEN q ELSE got[i]) = Seen(F[i], level)
      <4>1. CASE i = g + 1
        BY <1>5, <1>11, <4>1
      <4>2. CASE i # g + 1
        <5>1. i \in 1..g
          BY <3>2, <4>2
        <5> QED
          BY <1>3, <4>2, <5>1
      <4> QED
        BY <4>1, <4>2
    <3> QED
      BY <3>3, <3>4
  <2>2. peerLevel' \in Levels /\ peerLevel' = level
    <3>1. p \in Connects \/ peerLevel = level
      BY <1>1, <1>5, <1>6, <1>3 DEF Matches, ReadTo
    <3> QED
      BY <1>3, <1>12, <1>15, <3>1
  <2>3. stream' \in Seq(Token(V)) /\ arrived' \in 0..Size(stream')
    <3>1. Size(stream) = decoder.size + Size(r) /\ Size(r) \in Nat /\ decoder.size \in Nat
      BY <1>9, SizeOfConcat
    <3> QED
      BY <1>2, <1>3, <1>9, <1>16, <3>1
  <2>4. BeforeFlag(F, R, g + 1)'
    BY <1>7, <1>8, <1>16 DEF BeforeFlag
  <2>5. g + 1 \in 0..Len(F)
    BY <1>7
  <2> QED
    BY <1>17, <2>1, <2>2, <2>3, <2>4, <2>5 DEF ReadTo
<1>20. Ended(F, g + 1)'
  BY <1>2, <1>16 DEF Ended
<1> QED
  BY <1>18, <1>19, <1>20 DEF IInv, Matches

\* The end of the stream keeps it: between two packets all has been decoded,
\* within one the connection was lost.
LEMMA ReadEndIInv ==
  ASSUME NEW V, FormatsAgree(V), IInv(V), ReadEnd
  PROVE  IInv(V)'
<1>1. PICK F, R, g : Matches(V, F, R, g)
  BY DEF IInv
<1>2. /\ result = "open" /\ UNCHANGED <<sendVars, link>>
      /\ ~FlagHere /\ ~LengthHere /\ ~BodyHere
      /\ link = "lost" \/ (link = "closed" /\ arrived = Size(stream))
      /\ Fail(EndOf(decoder))
  BY DEF ReadEnd, NeedsMore, Reading
<1>3. /\ F \in Seq(AllPackets) /\ Len(F) \in Nat /\ g \in 0..Len(F)
      /\ stream \in Seq(Token(V)) /\ arrived \in 0..Size(stream)
  BY <1>1 DEF Matches, SentAs, ReadTo
<1>4. Size(stream) \in Nat /\ arrived \in Nat
  BY <1>3, SizeOfSome
<1>5. ASSUME decoder = AtFlag PROVE Matches(V, F, R, g)'
  <2>1. EndOf(decoder) = "end"
    BY <1>5 DEF EndOf
  <2>2. arrived = 0
    BY <1>2, <1>4, <1>5 DEF FlagHere, AtFlag
  <2>3. ASSUME link = "closed" PROVE g = Len(F)
    <3>1. Size(stream) = 0
      BY <1>2, <2>2, <2>3
    <3>2. stream = <<>>
      BY <1>3, <3>1, SizeOfSome
    <3>3. stream = R[g + 1]
      BY <1>1, <1>5, DecoderAt DEF Matches, BeforeFlag
    <3>4. ASSUME g < Len(F) PROVE FALSE
      <4>1. Matches(V, F, R, g) /\ g < Len(F)
        BY <1>1, <3>4
      <4>2. PICK t, r : BeginsWith(V, F, R, g, t, r)
        BY <4>1, NextFrame
      <4>3. t \in Token(V) /\ r \in Seq(Token(V)) /\ R[g + 1] = <<t>> \o r
        BY <4>2 DEF Token, BeginsWith
      <4>4. <<t>> \o r # <<>>
        BY <4>3, FirstToken
      <4> QED
        BY <3>2, <3>3, <4>3, <4>4
    <3> QED
      BY <1>3, <3>4
  <2>4. link # "up"
    BY <1>2
  <2> QED
    BY <1>1, <1>2, <1>5, <2>1, <2>2, <2>3, <2>4, FailIInv
<1>6. ASSUME decoder # AtFlag PROVE Matches(V, F, R, g)'
  <2>1. EndOf(decoder) = "unexpected_eof"
    BY <1>6 DEF EndOf
  <2>2. link = "lost" \/ BeforeGoodbye(F, R, g)
    <3>1. SUFFICES ASSUME arrived = Size(stream), ~BeforeGoodbye(F, R, g) PROVE FALSE
      BY <1>2
    <3>2. ASSUME NEW t \in Token(V), NEW r \in Seq(Token(V)), stream = <<t>> \o r,
                 t[1] = "len", decoder.at = "Length"
          PROVE  FALSE
      <4>1. /\ Head(stream) = t /\ Size(stream) = TokenSize(t) + Size(r) /\ Size(r) \in Nat
            /\ TokenSize(t) \in Nat \ {0}
        BY <3>2, FirstToken
      <4>2. LengthSize = TokenSize(t)
        BY <3>2, <4>1 DEF LengthSize
      <4> QED
        BY <1>2, <3>1, <3>2, <4>1, <4>2 DEF LengthHere
    <3>3. ASSUME BeforeLength(F, R, g) PROVE FALSE
      <4>0. g < Len(F)
        BY <3>3 DEF BeforeLength
      <4>1. /\ Formatted(V, F[g + 1], level, IF F[g + 1] \in Connects THEN Levels ELSE {level})
            /\ R[g + 2] \in Seq(Token(V))
        <5>1. Matches(V, F, R, g) /\ g < Len(F)
          BY <1>1, <4>0
        <5> QED
          BY <5>1, PacketHere
      <4>2. /\ Encoding(F[g + 1], level).body \in Seq(Token(V))
            /\ <<"len", Encoding(F[g + 1], level).size>> \in Token(V)
        BY <4>1 DEF Formatted, Token
      <4>3. Encoding(F[g + 1], level).body \o R[g + 2] \in Seq(Token(V))
        BY <4>1, <4>2, ConcatProperties
      <4>4. decoder.at = "Length"
        BY <3>3 DEF BeforeLength, AtLength
      <4>5. stream = <<<<"len", Encoding(F[g + 1], level).size>>>>
                       \o (Encoding(F[g + 1], level).body \o R[g + 2])
        BY <3>3 DEF BeforeLength
      <4> QED
        BY <3>2, <4>2, <4>3, <4>4, <4>5
    <3>4. ASSUME BeforeBody(F, R, g) PROVE FALSE
      <4>0. g < Len(F) /\ decoder.at = "Body" /\ decoder.size = Encoding(F[g + 1], level).size
            /\ stream = Encoding(F[g + 1], level).body \o R[g + 2]
        BY <3>4 DEF BeforeBody, AtBody
      <4>1. /\ Formatted(V, F[g + 1], level, IF F[g + 1] \in Connects THEN Levels ELSE {level})
            /\ R[g + 2] \in Seq(Token(V))
        <5>1. Matches(V, F, R, g) /\ g < Len(F)
          BY <1>1, <4>0
        <5> QED
          BY <5>1, PacketHere
      <4>2. Size(stream) = decoder.size + Size(R[g + 2]) /\ Size(R[g + 2]) \in Nat
            /\ decoder.size \in Nat
        BY <4>0, <4>1, SizeOfConcat DEF Formatted
      <4> QED
        BY <1>2, <3>1, <4>0, <4>2 DEF BodyHere
    <3> QED
      BY <1>1, <1>6, <3>1, <3>3, <3>4 DEF Matches, ReadTo, BeforeFlag
  <2>3. link = "lost" \/ (writeBuf # <<>> /\ g = Len(F))
    BY <2>2 DEF BeforeGoodbye
  <2> QED
    BY <1>1, <1>2, <2>1, <2>3, FailIInv
<1> QED
  BY <1>5, <1>6 DEF IInv

\* A step of somebody else keeps it.
LEMMA StutterIInv ==
  ASSUME NEW V, IInv(V), UNCHANGED vars
  PROVE  IInv(V)'
<1>1. PICK F, R, g : Matches(V, F, R, g)
  BY DEF IInv
<1>2. UNCHANGED <<level, writeBuf, sent, stream, arrived, link, peerLevel, decoder, got, result>>
  BY DEF vars, sendVars, readVars
<1>3. Matches(V, F, R, g)'
  <2>1. SentAs(V, F)' /\ Chained(V, F, R)'
    BY <1>1, <1>2, SentStays DEF sendVars
  <2>2. ReadTo(V, F, R, g) /\ Ended(F, g)
    BY <1>1 DEF Matches
  <2>3. ReadTo(V, F, R, g)'
    BY <1>2, <2>2 DEF ReadTo, BeforeFlag, BeforeLength, BeforeBody, BeforeGoodbye
  <2>4. Ended(F, g)'
    BY <1>2, <2>2 DEF Ended
  <2> QED
    BY <2>1, <2>3, <2>4 DEF Matches
<1> QED
  BY <1>3 DEF IInv

\* Every step keeps the invariant.
LEMMA NextIInv ==
  ASSUME NEW V, FormatsAgree(V), IInv(V), [Next]_vars
  PROVE  IInv(V)'
<1>1. ASSUME SendConnect \/ Send PROVE IInv(V)'
  BY <1>1, EncodeIInv
<1>2. ASSUME SayGoodbye PROVE IInv(V)'
  BY <1>2, GoodbyeIInv
<1>3. ASSUME Close \/ Lose PROVE IInv(V)'
  BY <1>3, EndOfLinkIInv
<1>4. ASSUME Arrive PROVE IInv(V)'
  BY <1>4, ArriveIInv
<1>5. ASSUME TakeFlag PROVE IInv(V)'
  BY <1>5, TakeFlagIInv
<1>6. ASSUME TakeLength PROVE IInv(V)'
  BY <1>6, TakeLengthIInv
<1>7. ASSUME TakeBody PROVE IInv(V)'
  BY <1>7, TakeBodyIInv
<1>8. ASSUME ReadEnd PROVE IInv(V)'
  BY <1>8, ReadEndIInv
<1>9. ASSUME UNCHANGED vars PROVE IInv(V)'
  BY <1>9, StutterIInv
<1> QED
  BY <1>1, <1>2, <1>3, <1>4, <1>5, <1>6, <1>7, <1>8, <1>9 DEF Next

-----------------------------------------------------------------------------
(* What the invariant says.                                                *)

\* The invariant says that what is decoded is a prefix of what was sent.
LEMMA IInvDecodedAsSent ==
  ASSUME NEW V, IInv(V)
  PROVE  DecodedAsSent
<1>1. PICK F, R, g : Matches(V, F, R, g)
  BY DEF IInv
<1>2. /\ Len(F) \in Nat /\ g \in 0..Len(F)
      /\ sent = [i \in 1..Len(F) |-> Seen(F[i], level)]
      /\ got = [i \in 1..g |-> Seen(F[i], level)]
  BY <1>1 DEF Matches, SentAs, ReadTo
<1> DEFINE S == {Seen(F[i], level) : i \in 1..Len(F)}
<1>3. sent \in Seq(S) /\ got \in Seq(S) /\ Len(sent) = Len(F) /\ Len(got) = g
  BY <1>2
<1>4. \A i \in 1..g : got[i] = sent[i]
  BY <1>2
<1> HIDE DEF S
<1>5. Len(got) <= Len(sent) /\ \A i \in 1..Len(got) : got[i] = sent[i]
  BY <1>2, <1>3, <1>4
<1>6. SubSeq(got, 1, Len(got)) = SubSeq(sent, 1, Len(got))
  BY <1>3, <1>5
<1> QED
  BY <1>5, <1>6 DEF DecodedAsSent, IsPrefix

\* It says that nothing is refused.
LEMMA IInvNothingRefused ==
  ASSUME NEW V, IInv(V)
  PROVE  NothingRefused
BY DEF IInv, Matches, Ended, NothingRefused

\* It says that the end is clean.
LEMMA IInvEndIsClean ==
  ASSUME NEW V, FormatsAgree(V), IInv(V)
  PROVE  EndIsClean
<1>1. PICK F, R, g : Matches(V, F, R, g)
  BY DEF IInv
<1>2. result = "unexpected_eof" => link = "lost" \/ (writeBuf # <<>> /\ got = sent)
  BY <1>1 DEF Matches, SentAs, ReadTo, Ended
<1>3. ASSUME result = "end" PROVE arrived = 0 /\ (stream # <<>> => Head(stream)[1] = "flag")
  <2>1. decoder = AtFlag /\ arrived = 0
    BY <1>1, <1>3 DEF Matches, Ended
  <2>2. stream = R[g + 1] /\ g \in 0..Len(F) /\ Len(F) \in Nat
    <3>1. BeforeFlag(F, R, g)
      BY <1>1, <2>1, DecoderAt DEF Matches
    <3>2. stream = R[g + 1]
      BY <3>1 DEF BeforeFlag
    <3> QED
      BY <1>1, <3>2 DEF Matches, SentAs, ReadTo
  <2>3. ASSUME g < Len(F) PROVE Head(stream)[1] = "flag"
    <3>1. Matches(V, F, R, g) /\ g < Len(F)
      BY <1>1, <2>3
    <3>2. PICK t, r : BeginsWith(V, F, R, g, t, r)
      BY <3>1, NextFrame
    <3>3. t \in Token(V) /\ t[1] = "flag" /\ r \in Seq(Token(V)) /\ R[g + 1] = <<t>> \o r
      BY <3>2 DEF Token, BeginsWith
    <3>4. Head(<<t>> \o r) = t
      BY <3>3, FirstToken
    <3> QED
      BY <2>2, <3>3, <3>4
  <2>4. ASSUME g = Len(F), stream # <<>> PROVE Head(stream)[1] = "flag"
    <3>1. writeBuf # <<>> /\ stream = writeBuf \o Frame(TooLarge, level)
      BY <1>1, <2>2, <2>4 DEF Matches, Chained
    <3>2. PICK t \in {"flag"} \X V : writeBuf = <<t>>
      BY <1>1, <3>1 DEF Matches, SentAs
    <3>3. t \in Token(V) /\ t[1] = "flag"
      BY DEF Token
    <3>4. Frame(TooLarge, level) \in Seq(Token(V))
      BY <1>1, GoodbyeHere
    <3>5. Head(stream) = t
      BY <3>1, <3>2, <3>3, <3>4, FirstToken
    <3> QED
      BY <3>3, <3>5
  <2> QED
    BY <2>1, <2>2, <2>3, <2>4
<1>4. ASSUME result = "end", link = "closed" PROVE got = sent
  BY <1>1, <1>4 DEF Matches, SentAs, ReadTo, Ended
<1> QED
  BY <1>2, <1>3, <1>4 DEF EndIsClean

\* Packets whose formats agree go over a connection whole, in order and
\* unrefused.
LEMMA FormatsSuffice ==
  ASSUME NEW V, FormatsAgree(V)
  PROVE  Spec => [](DecodedAsSent /\ NothingRefused /\ EndIsClean)
<1>1. Init => IInv(V)
  BY InitIInv
<1>2. IInv(V) /\ [Next]_vars => IInv(V)'
  BY NextIInv
<1>3. IInv(V) => DecodedAsSent /\ NothingRefused /\ EndIsClean
  BY IInvDecodedAsSent, IInvNothingRefused, IInvEndIsClean
<1> QED
  BY <1>1, <1>2, <1>3, PTL DEF Spec

-----------------------------------------------------------------------------
(* The formats of all packets agree.                                       *)

\* The formats of every CONNECT that is sent agree.
LEMMA ConnectAgrees ==
  ASSUME PacketsWellCounted, NEW p \in Connects
  PROVE  /\ p.type = "CONNECT" /\ p.level \in Levels
         /\ Formatted(FlagValues, p, p.level, Levels)
         /\ Seen(p, p.level).level = p.level
<1>1. p \in ConnectPackets
  BY FramingAssumption DEF FramingAssumption
<1>2. /\ p.type = "CONNECT" /\ p.level \in {V4, V5}
      /\ p = [type |-> "CONNECT", level |-> p.level, keep_alive |-> p.keep_alive,
              clean_start |-> p.clean_start, client_id |-> p.client_id, will |-> p.will,
              login |-> p.login, properties |-> p.properties]
  BY <1>1 DEF ConnectPackets
<1>3. ConnectCounted(p)
  BY <1>2 DEF PacketsWellCounted, WellCounted
<1>4. Formatted(FlagValues, p, p.level, {V4, V5})
  BY <1>1, <1>3, ConnectFormatted
<1>5. Seen(p, p.level).level = p.level
  BY <1>2 DEF Seen, Bare, V4, V5
<1> QED
  BY <1>2, <1>4, <1>5 DEF Levels

\* The formats of every other packet agree, at both levels.
LEMMA OtherAgrees ==
  ASSUME NEW p \in OtherPackets, WellCounted(p), NEW l \in Levels
  PROVE  p.type \notin {"CONNECT", "malformed"} /\ Formatted(FlagValues, p, l, {l})
<1> DEFINE Good == p.type \notin {"CONNECT", "malformed"} /\ Formatted(FlagValues, p, l, {l})
<1>0. l \in {V4, V5}
  BY DEF Levels
<1>1. ASSUME p \in ConnAckPackets PROVE Good
  <2>1. p.type = "CONNACK"
    BY <1>1 DEF ConnAckPackets
  <2>2. Counted(ConnAckLengths, p.properties)
    BY <2>1 DEF WellCounted, PropertyLengths
  <2> QED
    BY <1>0, <1>1, <2>1, <2>2, ConnAckFormatted
<1>2. ASSUME p \in PublishPackets PROVE Good
  <2>1. p.type = "PUBLISH"
    BY <1>2 DEF PublishPackets
  <2>2. Counted(PublishLengths, p.properties)
    BY <2>1 DEF WellCounted, PropertyLengths
  <2> QED
    BY <1>0, <1>2, <2>1, <2>2, PublishFormatted
<1>3. ASSUME p \in AnyAckPackets PROVE Good
  <2>1. p.type \in {"PUBACK", "PUBREC", "PUBREL", "PUBCOMP"}
    BY <1>3 DEF AnyAckPackets, AckPackets
  <2>2. Counted(AckLengths, p.properties)
    BY <2>1 DEF WellCounted, PropertyLengths
  <2> QED
    BY <1>0, <1>3, <2>1, <2>2, AckFormatted
<1>4. ASSUME p \in SubscribePackets PROVE Good
  <2>1. p.type = "SUBSCRIBE"
    BY <1>4 DEF SubscribePackets
  <2>2. Counted(SubscribeLengths, p.properties)
    BY <2>1 DEF WellCounted, PropertyLengths
  <2> QED
    BY <1>0, <1>4, <2>1, <2>2, SubscribeFormatted
<1>5. ASSUME p \in SubAckPackets PROVE Good
  <2>1. p.type = "SUBACK"
    BY <1>5 DEF SubAckPackets
  <2>2. Counted(SubAckLengths, p.properties)
    BY <2>1 DEF WellCounted, PropertyLengths
  <2> QED
    BY <1>0, <1>5, <2>1, <2>2, SubAckFormatted
<1>6. ASSUME p \in UnsubscribePackets PROVE Good
  <2>1. p.type = "UNSUBSCRIBE"
    BY <1>6 DEF UnsubscribePackets
  <2>2. Counted(UnsubscribeLengths, p.properties)
    BY <2>1 DEF WellCounted, PropertyLengths
  <2> QED
    BY <1>0, <1>6, <2>1, <2>2, UnsubscribeFormatted
<1>7. ASSUME p \in UnsubAckPackets PROVE Good
  <2>1. p.type = "UNSUBACK"
    BY <1>7 DEF UnsubAckPackets
  <2>2. Counted(UnsubAckLengths, p.properties)
    BY <2>1 DEF WellCounted, PropertyLengths
  <2> QED
    BY <1>0, <1>7, <2>1, <2>2, UnsubAckFormatted
<1>8. ASSUME p \in DisconnectPackets PROVE Good
  <2>1. p.type = "DISCONNECT"
    BY <1>8 DEF DisconnectPackets
  <2>2. Counted(DisconnectLengths, p.properties)
    BY <2>1 DEF WellCounted, PropertyLengths
  <2> QED
    BY <1>0, <1>8, <2>1, <2>2, DisconnectFormatted
<1>9. ASSUME p \in PingPackets PROVE Good
  <2>1. p.type \in {"PINGREQ", "PINGRESP"}
    BY <1>9 DEF PingPackets
  <2> QED
    BY <1>0, <1>9, <2>1, PingFormatted
<1> HIDE DEF Good
<1>10. Good
  BY <1>1, <1>2, <1>3, <1>4, <1>5, <1>6, <1>7, <1>8, <1>9 DEF OtherPackets
<1> QED
  BY <1>10 DEF Good

\* So do those of the DISCONNECT behind a refused packet.
LEMMA GoodbyeAgrees ==
  ASSUME NEW l \in Levels
  PROVE  Formatted(FlagValues, TooLarge, l, {l})
<1>1. TooLarge \in DisconnectPackets
  <2>1. 149 \in DisconnectReasonCodes
    BY DEF DisconnectReasonCodes
  <2>2. {} \in PropertySets(DisconnectLengths)
    BY FS_EmptySet DEF PropertySets
  <2> QED
    BY <2>1, <2>2 DEF TooLarge, DisconnectPackets
<1>2. TooLarge.properties = {}
  BY DEF TooLarge
<1>3. Counted(DisconnectLengths, TooLarge.properties)
  BY <1>2, BytesLengthOfNone DEF Counted
<1>4. l \in {V4, V5}
  BY DEF Levels
<1> QED
  BY <1>1, <1>3, <1>4, DisconnectFormatted

\* The formats of all packets agree.
LEMMA AllAgree ==
  ASSUME PacketsWellCounted
  PROVE  FormatsAgree(FlagValues)
<1>1. \A p \in Sendable : p \in OtherPackets /\ WellCounted(p)
  BY FramingAssumption DEF FramingAssumption, PacketsWellCounted
<1> QED
  BY <1>1, ConnectAgrees, OtherAgrees, GoodbyeAgrees DEF FormatsAgree

-----------------------------------------------------------------------------
(* The properties of Framing.                                              *)

\* What Codec::decode returns at one end is what was given to Codec::encode
\* at the other, in that order and in every field, whatever the packets, the
\* limit and the sizes of the reads are, if the lengths in the packets are
\* counted as they are written.
THEOREM WhatIsSentIsDecoded == PacketsWellCounted => (Spec => []DecodedAsSent)
<1> SUFFICES ASSUME PacketsWellCounted PROVE Spec => []DecodedAsSent
  OBVIOUS
<1>1. FormatsAgree(FlagValues)
  BY AllAgree
<1>2. Spec => [](DecodedAsSent /\ NothingRefused /\ EndIsClean)
  BY <1>1, FormatsSuffice
<1> QED
  BY <1>2, PTL

\* Codec::decode takes no packet that Codec::encode has let out for malformed
\* or, with the same limit, for too large.
THEOREM WhatIsSentIsAccepted == PacketsWellCounted => (Spec => []NothingRefused)
<1> SUFFICES ASSUME PacketsWellCounted PROVE Spec => []NothingRefused
  OBVIOUS
<1>1. FormatsAgree(FlagValues)
  BY AllAgree
<1>2. Spec => [](DecodedAsSent /\ NothingRefused /\ EndIsClean)
  BY <1>1, FormatsSuffice
<1> QED
  BY <1>2, PTL

\* Codec::decode returns None between two packets only, with all that was
\* sent decoded if the sender has closed, and takes the end of the stream for
\* a cut only if the connection was lost, or behind what a packet that encode
\* gave up on has left, with all that was sent decoded.
THEOREM EndIsBetweenPackets == PacketsWellCounted => (Spec => []EndIsClean)
<1> SUFFICES ASSUME PacketsWellCounted PROVE Spec => []EndIsClean
  OBVIOUS
<1>1. FormatsAgree(FlagValues)
  BY AllAgree
<1>2. Spec => [](DecodedAsSent /\ NothingRefused /\ EndIsClean)
  BY <1>1, FormatsSuffice
<1> QED
  BY <1>2, PTL
===============================================================================
