----------------------------- MODULE PacketsProofs -----------------------------
(***************************************************************************)
(* The formats of the packets: for every packet, whatever its fields and   *)
(* properties are, the length computed is that of what encode writes, and  *)
(* decode reads the packet back (Formatted).                               *)
(*                                                                         *)
(* The properties come first.  Tokens tell a set of properties (Tells) if  *)
(* they are as many bytes as bytes_length says and are read as that set;   *)
(* one property does, and what tells two sets tells their union, so that   *)
(* tables which agree on every name (TablesAgree) do for every set.  Then  *)
(* each packet is laid out in three parts, its properties in the middle    *)
(* (InThree, Laid).                                                        *)
(*                                                                         *)
(* Sizes and FlattenSeq are recursive functions, and SumFunction a fold:   *)
(* that they are what their equations say is shown on the way, by a least  *)
(* counterexample.                                                         *)
(***************************************************************************)
EXTENDS Packets, SequenceTheorems, FiniteSetTheorems, WellFoundedInduction, TLAPS

-----------------------------------------------------------------------------
(* The lengths of lengths.                                                 *)

\* What bytes_remaining_length returns for a length that it does not refuse.
LEMMA LengthNotRefused ==
  ASSUME NEW v \in Nat, v < 268435455
  PROVE  BytesRemainingLength(v)
           = IF v < 128 THEN 1 ELSE IF v < 16383 THEN 2 ELSE IF v < 2097151 THEN 3 ELSE 4
BY SMT DEF BytesRemainingLength

\* Of the lengths up to 268435455, which write_remaining_length (writer.rs)
\* writes, bytes_remaining_length agrees on how many bytes they take, with three
\* exceptions: 16383 and 2097151, which it counts one byte longer than they are
\* written, and 268435455, which it refuses.
THEOREM LengthSizesAgree ==
  \A v \in Nat : v <= 268435455 =>
    (BytesRemainingLength(v) = RemainingLengthSize(v) <=> v \notin {16383, 2097151, 268435455})
<1>1. ASSUME NEW v \in Nat, v <= 268435455
      PROVE  BytesRemainingLength(v) = RemainingLengthSize(v)
               <=> v \notin {16383, 2097151, 268435455}
  <2> DEFINE Agree == BytesRemainingLength(v) = RemainingLengthSize(v)
             Exception == v \in {16383, 2097151, 268435455}
  <2>1. \/ v < 16383
        \/ v = 16383
        \/ v > 16383 /\ v < 2097151
        \/ v = 2097151
        \/ v > 2097151 /\ v < 268435455
        \/ v = 268435455
    BY <1>1, SMT
  <2>2. ASSUME v < 16383 \/ (v > 16383 /\ v < 2097151) \/ (v > 2097151 /\ v < 268435455)
        PROVE  Agree /\ ~Exception
    <3>1. v < 268435455
      BY <2>2, SMT
    <3>2. Agree
      BY <2>2, <3>1, LengthNotRefused, SMT DEF RemainingLengthSize
    <3>3. ~Exception
      BY <2>2, SMT
    <3> QED
      BY <3>2, <3>3, SMT
  <2>3. ASSUME v = 16383 \/ v = 2097151 PROVE ~Agree /\ Exception
    <3>1. v < 268435455
      BY <2>3, SMT
    <3>2. ~Agree
      BY <2>3, <3>1, LengthNotRefused, SMT DEF RemainingLengthSize
    <3>3. Exception
      BY <2>3, SMT
    <3> QED
      BY <3>2, <3>3, SMT
  <2>4. ASSUME v = 268435455 PROVE ~Agree /\ Exception
    <3>1. BytesRemainingLength(v) = None
      BY <2>4, SMT DEF BytesRemainingLength
    <3>2. RemainingLengthSize(v) \in Nat
      BY SMT DEF RemainingLengthSize
    <3>3. None \notin Nat
      BY NoneAssumption
    <3>4. Exception
      BY <2>4, SMT
    <3> HIDE DEF Exception
    <3> QED
      BY <3>1, <3>2, <3>3, <3>4
  <2> HIDE DEF Agree, Exception
  <2>5. Agree <=> ~Exception
    BY <2>1, <2>2, <2>3, <2>4, SMT
  <2> QED
    BY <2>5, SMT DEF Agree, Exception
<1> QED
  BY <1>1, SMT

\* No length that bytes_remaining_length does not refuse is counted shorter than
\* it is written: a packet never announces less than it holds, and by at most
\* one byte more.
THEOREM NeverCountedShort ==
  \A v \in Nat : v < 268435455 =>
    BytesRemainingLength(v) \in {RemainingLengthSize(v), RemainingLengthSize(v) + 1}
<1>1. ASSUME NEW v \in Nat, v < 268435455
      PROVE BytesRemainingLength(v) \in {RemainingLengthSize(v), RemainingLengthSize(v) + 1}
  BY <1>1, LengthNotRefused, SMT DEF RemainingLengthSize
<1> QED
  BY <1>1, SMT

\* A length is counted as it is written, but for two.
LEMMA LengthCountAgrees ==
  ASSUME NEW v \in Nat, v \notin {16383, 2097151}
  PROVE  LengthCount(v) = RemainingLengthSize(v)
<1>1. CASE v < 268435455
  <2>1. v <= 268435455 /\ v \notin {16383, 2097151, 268435455}
    BY <1>1, SMT
  <2>2. BytesRemainingLength(v) = RemainingLengthSize(v)
    BY <2>1, LengthSizesAgree, SMT
  <2>3. RemainingLengthSize(v) \in Nat
    BY SMT DEF RemainingLengthSize
  <2> QED
    BY <2>2, <2>3, NoneAssumption, SMT DEF LengthCount, Unwritable
<1>2. CASE v >= 268435455
  <2>1. BytesRemainingLength(v) = None
    BY <1>2, SMT DEF BytesRemainingLength
  <2>2. RemainingLengthSize(v) = 4
    BY <1>2, SMT DEF RemainingLengthSize
  <2> QED
    BY <2>1, <2>2, SMT DEF LengthCount, Unwritable
<1> QED
  BY <1>1, <1>2, SMT

-----------------------------------------------------------------------------
(* Induction.                                                              *)

\* A nonempty set of natural numbers has a least element.
LEMMA Least ==
  ASSUME NEW T, T \subseteq Nat, T # {}
  PROVE  \E x \in T : \A y \in T : x <= y
<1> DEFINE R == OpToRel(<, Nat)
<1>1. IsWellFoundedOn(R, Nat)
  BY NatLessThanWellFounded
<1>2. R = {ss \in Nat \X Nat : ss[1] < ss[2]}
  BY DEF OpToRel
<1> HIDE DEF R
<1>3. PICK x \in T : \A y \in T : ~ (<<y, x>> \in R)
  BY <1>1, WFMin
<1>4. ASSUME NEW y \in T
      PROVE  x <= y
  <2>1. x \in Nat /\ y \in Nat
    OBVIOUS
  <2>2. <<y, x>> \in R <=> y < x
    BY <1>2, <2>1
  <2>3. ~(y < x)
    BY <1>3, <2>2
  <2> QED
    BY <2>1, <2>3
<1> QED
  BY <1>4

\* What holds of 0 and of every number after one of which it holds, holds of
\* all of them up to n.
LEMMA StepByStep ==
  ASSUME NEW K, NEW n \in Nat, 0 \in K, \A i \in 0..n : i \in K /\ i < n => i + 1 \in K
  PROVE  0..n \subseteq K
<1> SUFFICES ASSUME (0..n) \ K # {} PROVE FALSE
  OBVIOUS
<1> DEFINE T == (0..n) \ K
<1>0. T \subseteq Nat
  OBVIOUS
<1> HIDE DEF T
<1>1. PICK x \in T : \A y \in T : x <= y
  BY <1>0, Least DEF T
<1>2. x \in 0..n /\ x \notin K
  BY DEF T
<1>3. x # 0 /\ x - 1 \in 0..n /\ x - 1 < n
  BY <1>2
<1>4. x - 1 \in K
  BY <1>1, <1>2, <1>3 DEF T
<1>5. (x - 1) + 1 \in K
  BY <1>3, <1>4
<1> QED
  BY <1>2, <1>5

-----------------------------------------------------------------------------
(* Tokens and their sizes.                                                 *)

\* The names of properties.
Names ==
  DOMAIN AckReads \union DOMAIN DisconnectReads \union DOMAIN SubscribeReads
    \union DOMAIN SubAckReads \union DOMAIN UnsubscribeReads \union DOMAIN UnsubAckReads
    \union DOMAIN PublishReads \union DOMAIN ConnAckReads \union DOMAIN ConnectReads
    \union DOMAIN WillReads

\* What is written: V holds the values of flags.
Token(V) ==
  ({"u8", "u16", "u32", "len", "str", "kv"} \X Nat) \union ({"raw"} \X (Nat \ {0}))
    \union ({"id"} \X Names) \union ({"flag", "flags"} \X V)

\* Every token takes at least one byte.
LEMMA TokenSizePositive ==
  ASSUME NEW V, NEW t \in Token(V)
  PROVE  TokenSize(t) \in Nat /\ TokenSize(t) > 0
<1>1. CASE t \in {"u8", "u16", "u32", "len", "str", "kv"} \X Nat
  <2>1. t[2] \in Nat /\ t[1] \in {"u8", "u16", "u32", "len", "str", "kv"}
    BY <1>1
  <2>2. RemainingLengthSize(t[2]) \in Nat /\ RemainingLengthSize(t[2]) > 0
    BY <2>1 DEF RemainingLengthSize
  <2> QED
    BY <2>1, <2>2 DEF TokenSize
<1>2. CASE t \in {"raw"} \X (Nat \ {0})
  BY <1>2 DEF TokenSize
<1>3. CASE t \in {"id"} \X Names
  BY <1>3 DEF TokenSize
<1>4. CASE t \in {"flag", "flags"} \X V
  BY <1>4 DEF TokenSize
<1> QED
  BY <1>1, <1>2, <1>3, <1>4 DEF Token

\* The recursion of Sizes is one that a function meets.
Counts(ts, n, g) ==
  /\ g \in [0..n -> Nat] /\ g[0] = 0
  /\ \A i \in 1..n : g[i] = g[i - 1] + TokenSize(ts[i])

\* The sizes of the first tokens can be computed, as far as one likes: the
\* recursion of Sizes stops.
LEMMA SizesUpTo ==
  ASSUME NEW V, NEW ts \in Seq(Token(V)), NEW n \in 0..Len(ts)
  PROVE  \E g : Counts(ts, n, g)
<1> DEFINE Meets(g, m) == g[0] = 0 /\ \A i \in 1..m : g[i] = g[i - 1] + TokenSize(ts[i])
           K == {m \in Nat : \E g \in [0..m -> Nat] : Meets(g, m)}
<1>1. 0 \in K
  <2>1. [i \in 0..0 |-> 0] \in [0..0 -> Nat] /\ Meets([i \in 0..0 |-> 0], 0)
    OBVIOUS
  <2> QED
    BY <2>1
<1>2. ASSUME NEW m \in 0..Len(ts), m \in K, m < Len(ts)
      PROVE  m + 1 \in K
  <2>0. Len(ts) \in Nat /\ m \in Nat /\ m + 1 \in 1..Len(ts)
    BY <1>2
  <2>1. PICK g \in [0..m -> Nat] : Meets(g, m)
    BY <1>2
  <2>2. ts[m + 1] \in Token(V)
    BY <2>0, ElementOfSeq
  <2>3. TokenSize(ts[m + 1]) \in Nat
    BY <2>2, TokenSizePositive
  <2> DEFINE h == [i \in 0..(m + 1) |-> IF i = m + 1 THEN g[m] + TokenSize(ts[m + 1]) ELSE g[i]]
  <2>4. h \in [0..(m + 1) -> Nat]
    <3>1. ASSUME NEW i \in 0..(m + 1) PROVE h[i] \in Nat
      BY <2>0, <2>3
    <3> QED
      BY <3>1
  <2>5. h[0] = 0
    BY <2>0, <2>1
  <2>6. ASSUME NEW i \in 1..(m + 1) PROVE h[i] = h[i - 1] + TokenSize(ts[i])
    BY <2>0, <2>1
  <2>7. Meets(h, m + 1)
    BY <2>5, <2>6
  <2> HIDE DEF h, Meets
  <2>8. \E f \in [0..(m + 1) -> Nat] : Meets(f, m + 1)
    BY <2>4, <2>7
  <2> QED
    BY <2>0, <2>8
<1> HIDE DEF K
<1>3. Len(ts) \in Nat
  OBVIOUS
<1>4. 0..Len(ts) \subseteq K
  BY <1>1, <1>2, <1>3, StepByStep
<1>5. n \in K
  BY <1>4
<1> QED
  BY <1>5 DEF K, Counts

\* Sizes meets its own recursive equation, and is a function to numbers.
LEMMA SizesRecursion ==
  ASSUME NEW V, NEW ts \in Seq(Token(V))
  PROVE  /\ Sizes(ts) \in [0..Len(ts) -> Nat]
         /\ Sizes(ts)[0] = 0
         /\ \A i \in 1..Len(ts) : Sizes(ts)[i] = Sizes(ts)[i - 1] + TokenSize(ts[i])
<1> DEFINE n == Len(ts)
           Eq(g) == g = [i \in 0..n |-> IF i = 0 THEN 0 ELSE g[i - 1] + TokenSize(ts[i])]
<1>0. n \in Nat
  OBVIOUS
<1>1. PICK g : Counts(ts, n, g)
  <2>1. n \in 0..Len(ts)
    BY <1>0
  <2> QED
    BY <2>1, SizesUpTo
<1>2. Eq(g)
  BY <1>0, <1>1 DEF Counts
<1>3. Sizes(ts) = CHOOSE s : Eq(s)
  BY DEF Sizes
<1>4. Eq(Sizes(ts))
  BY <1>2, <1>3
<1> DEFINE S == Sizes(ts)
<1> HIDE DEF S
<1>5. S = [i \in 0..n |-> IF i = 0 THEN 0 ELSE S[i - 1] + TokenSize(ts[i])]
  BY <1>4 DEF S
<1>6. S[0] = 0 /\ \A i \in 1..n : S[i] = S[i - 1] + TokenSize(ts[i])
  BY <1>0, <1>5
<1> DEFINE K == {i \in Nat : i \in 0..n => S[i] \in Nat}
<1>7. 0 \in K
  BY <1>6
<1>8. ASSUME NEW i \in 0..n, i \in K, i < n PROVE i + 1 \in K
  <2>1. i + 1 \in 1..n /\ S[i] \in Nat /\ (i + 1) - 1 = i
    BY <1>0, <1>8
  <2>2. ts[i + 1] \in Token(V)
    BY <2>1, ElementOfSeq
  <2>3. TokenSize(ts[i + 1]) \in Nat
    BY <2>2, TokenSizePositive
  <2>4. S[i + 1] = S[i] + TokenSize(ts[i + 1])
    BY <1>6, <2>1
  <2> QED
    BY <2>1, <2>3, <2>4
<1>9. \A i \in 0..n : S[i] \in Nat
  <2> HIDE DEF K
  <2>1. 0..n \subseteq K
    BY <1>0, <1>7, <1>8, StepByStep
  <2> QED
    BY <2>1 DEF K
<1>10. S \in [0..n -> Nat]
  BY <1>5, <1>9
<1> QED
  BY <1>6, <1>10 DEF S

\* A part of the tokens is smaller than a longer part.
LEMMA SizesGrow ==
  ASSUME NEW V, NEW ts \in Seq(Token(V)), NEW j \in 0..Len(ts)
  PROVE  \A i \in 0..Len(ts) : i < j => Sizes(ts)[i] < Sizes(ts)[j]
<1> DEFINE n == Len(ts)
           S == Sizes(ts)
           K == {m \in Nat : m \in 0..n => \A i \in 0..n : i < m => S[i] < S[m]}
<1>0. n \in Nat
  OBVIOUS
<1>1. S \in [0..n -> Nat] /\ \A i \in 1..n : S[i] = S[i - 1] + TokenSize(ts[i])
  BY SizesRecursion
<1> HIDE DEF S
<1>2. 0 \in K
  OBVIOUS
<1>3. ASSUME NEW m \in 0..n, m \in K, m < n PROVE m + 1 \in K
  <2>1. m + 1 \in 1..n /\ (m + 1) - 1 = m
    BY <1>0, <1>3
  <2>2. ts[m + 1] \in Token(V)
    BY <2>1, ElementOfSeq
  <2>3. TokenSize(ts[m + 1]) \in Nat /\ TokenSize(ts[m + 1]) > 0
    BY <2>2, TokenSizePositive
  <2>4. S[m + 1] = S[m] + TokenSize(ts[m + 1])
    BY <1>1, <2>1
  <2>5. S[m] \in Nat /\ S[m] < S[m + 1]
    BY <1>1, <2>3, <2>4
  <2>6. ASSUME NEW i \in 0..n, i < m + 1 PROVE S[i] < S[m + 1]
    <3>1. CASE i = m
      BY <3>1, <2>5
    <3>2. CASE i < m
      <4>1. S[i] < S[m] /\ S[i] \in Nat /\ S[m + 1] \in Nat
        BY <1>1, <1>3, <3>2, <2>1
      <4> QED
        BY <4>1, <2>5
    <3> QED
      BY <2>6, <3>1, <3>2
  <2> QED
    BY <2>6, <1>0
<1>4. 0..n \subseteq K
  <2> HIDE DEF K
  <2> QED
    BY <1>0, <1>2, <1>3, StepByStep
<1> QED
  BY <1>4 DEF S

\* Where two streams join, the bytes of the second are counted from the end
\* of the first.
LEMMA SizesOfConcat ==
  ASSUME NEW V, NEW s \in Seq(Token(V)), NEW t \in Seq(Token(V))
  PROVE  /\ \A i \in 0..Len(s) : Sizes(s \o t)[i] = Sizes(s)[i]
         /\ \A i \in 0..Len(t) : Sizes(s \o t)[Len(s) + i] = Size(s) + Sizes(t)[i]
<1> DEFINE u == s \o t
           m == Len(s)
           n == Len(t)
           A == Sizes(s)
           B == Sizes(t)
           U == Sizes(u)
<1>0. m \in Nat /\ n \in Nat
  OBVIOUS
<1>1. /\ u \in Seq(Token(V)) /\ Len(u) = m + n
      /\ \A i \in 1..m : u[i] = s[i]
      /\ \A i \in 1..n : u[m + i] = t[i]
  <2>1. /\ u \in Seq(Token(V)) /\ Len(u) = m + n
        /\ \A i \in 1..(m + n) : u[i] = IF i <= m THEN s[i] ELSE t[i - m]
    BY ConcatProperties
  <2> HIDE DEF u, m, n
  <2>2. \A i \in 1..m : i \in 1..(m + n) /\ i <= m
    BY <1>0
  <2>3. \A i \in 1..n : m + i \in 1..(m + n) /\ ~(m + i <= m) /\ (m + i) - m = i
    BY <1>0
  <2> QED
    BY <2>1, <2>2, <2>3
<1> HIDE DEF u
<1>2. /\ A \in [0..m -> Nat] /\ A[0] = 0 /\ \A i \in 1..m : A[i] = A[i - 1] + TokenSize(s[i])
      /\ B \in [0..n -> Nat] /\ B[0] = 0 /\ \A i \in 1..n : B[i] = B[i - 1] + TokenSize(t[i])
  BY SizesRecursion
<1>3. /\ U \in [0..(m + n) -> Nat] /\ U[0] = 0
      /\ \A i \in 1..(m + n) : U[i] = U[i - 1] + TokenSize(u[i])
  BY <1>1, SizesRecursion
<1>4. Size(s) = A[m]
  BY DEF Size
<1> HIDE DEF m, n, A, B, U
<1> DEFINE K == {i \in Nat : i \in 0..m => U[i] = A[i]}
           L == {i \in Nat : i \in 0..n => U[m + i] = A[m] + B[i]}
<1>5. 0..m \subseteq K
  <2>1. 0 \in K
    BY <1>2, <1>3
  <2>2. ASSUME NEW i \in 0..m, i \in K, i < m PROVE i + 1 \in K
    <3>1. i + 1 \in 1..m /\ i + 1 \in 1..(m + n) /\ (i + 1) - 1 = i
      BY <1>0, <2>2
    <3>2. U[i + 1] = U[i] + TokenSize(u[i + 1]) /\ A[i + 1] = A[i] + TokenSize(s[i + 1])
      BY <1>2, <1>3, <3>1
    <3> QED
      BY <1>1, <2>2, <3>1, <3>2
  <2> HIDE DEF K
  <2> QED
    BY <1>0, <2>1, <2>2, StepByStep
<1>6. U[m] = A[m] /\ A[m] \in Nat
  BY <1>0, <1>2, <1>5
<1>7. 0..n \subseteq L
  <2>1. 0 \in L
    BY <1>0, <1>2, <1>6
  <2>2. ASSUME NEW i \in 0..n, i \in L, i < n PROVE i + 1 \in L
    <3>1. /\ i + 1 \in 1..n /\ m + (i + 1) \in 1..(m + n)
          /\ (i + 1) - 1 = i /\ (m + (i + 1)) - 1 = m + i
      BY <1>0, <2>2
    <3>2. /\ U[m + (i + 1)] = U[m + i] + TokenSize(t[i + 1])
          /\ B[i + 1] = B[i] + TokenSize(t[i + 1])
      BY <1>1, <1>2, <1>3, <3>1
    <3>3. U[m + i] = A[m] + B[i] /\ B[i] \in Nat
      BY <1>2, <2>2
    <3>4. TokenSize(t[i + 1]) \in Nat
      <4>1. t[i + 1] \in Token(V)
        BY <3>1, ElementOfSeq DEF n
      <4> QED
        BY <4>1, TokenSizePositive
    <3>5. U[m + (i + 1)] = A[m] + B[i + 1]
      BY <1>6, <3>2, <3>3, <3>4
    <3> QED
      BY <3>1, <3>5
  <2> HIDE DEF L
  <2> QED
    BY <1>0, <2>1, <2>2, StepByStep
<1> QED
  BY <1>4, <1>5, <1>7 DEF A, B, U, u, m, n

\* The size of two streams written one behind the other is their sum.
LEMMA SizeOfConcat ==
  ASSUME NEW V, NEW s \in Seq(Token(V)), NEW t \in Seq(Token(V))
  PROVE  Size(s) \in Nat /\ Size(t) \in Nat /\ Size(s \o t) = Size(s) + Size(t)
<1>1. Len(s) \in Nat /\ Len(t) \in Nat /\ Len(s \o t) = Len(s) + Len(t)
  BY ConcatProperties
<1>2. Sizes(s \o t)[Len(s) + Len(t)] = Size(s) + Sizes(t)[Len(t)]
  BY <1>1, SizesOfConcat
<1>3. Sizes(s) \in [0..Len(s) -> Nat] /\ Sizes(t) \in [0..Len(t) -> Nat]
  BY SizesRecursion
<1> QED
  BY <1>1, <1>2, <1>3 DEF Size

\* One token is as long as the token.
LEMMA SizeOfOne ==
  ASSUME NEW V, NEW t \in Token(V)
  PROVE  Size(<<t>>) = TokenSize(t)
<1>1. <<t>> \in Seq(Token(V)) /\ Len(<<t>>) = 1 /\ <<t>>[1] = t
  OBVIOUS
<1>2. /\ Sizes(<<t>>)[0] = 0
      /\ \A i \in 1..1 : Sizes(<<t>>)[i] = Sizes(<<t>>)[i - 1] + TokenSize(<<t>>[i])
  BY <1>1, SizesRecursion
<1>3. TokenSize(t) \in Nat
  BY TokenSizePositive
<1> QED
  BY <1>1, <1>2, <1>3 DEF Size

\* Nothing has no bytes.
LEMMA SizeOfNone == Size(<<>>) = 0
<1>1. <<>> \in Seq(Token({})) /\ Len(<<>>) = 0
  OBVIOUS
<1> QED
  BY <1>1, SizesRecursion DEF Size

\* Only nothing has no bytes: no token is empty.
LEMMA SizeOfSome ==
  ASSUME NEW V, NEW s \in Seq(Token(V))
  PROVE  Size(s) \in Nat /\ (Size(s) = 0 <=> s = <<>>)
<1>1. Sizes(s) \in [0..Len(s) -> Nat] /\ Sizes(s)[0] = 0 /\ Len(s) \in Nat
  BY SizesRecursion
<1>2. ASSUME s # <<>> PROVE Size(s) > 0
  <2>1. 0 < Len(s) /\ 0 \in 0..Len(s) /\ Len(s) \in 0..Len(s)
    BY <1>1, <1>2
  <2> QED
    BY <1>1, <2>1, SizesGrow DEF Size
<1> QED
  BY <1>1, <1>2, SizeOfNone DEF Size

\* The bytes of s are the tokens of s, whatever comes behind them.
LEMMA TokensOfConcat ==
  ASSUME NEW V, NEW s \in Seq(Token(V)), NEW t \in Seq(Token(V))
  PROVE  TokensIn(s \o t, Size(s)) = Len(s)
<1> DEFINE u == s \o t
           U == Sizes(u)
           n == Len(u)
<1>1. u \in Seq(Token(V)) /\ n = Len(s) + Len(t) /\ Len(s) \in Nat /\ Len(t) \in Nat
  BY ConcatProperties
<1>2. U \in [0..n -> Nat]
  BY <1>1, SizesRecursion
<1>3. Len(s) \in 0..n /\ U[Len(s)] = Size(s)
  BY <1>1, SizesOfConcat DEF Size
<1>4. ASSUME NEW i \in 0..n, U[i] = Size(s) PROVE i = Len(s)
  <2>1. i < Len(s) => U[i] < U[Len(s)]
    BY <1>1, <1>3, SizesGrow
  <2>2. Len(s) < i => U[Len(s)] < U[i]
    BY <1>1, <1>3, SizesGrow
  <2>3. U[i] \in Nat /\ i \in Nat
    BY <1>1, <1>2
  <2> HIDE DEF u, U
  <2> QED
    BY <1>1, <1>3, <1>4, <2>1, <2>2, <2>3
<1>5. DOMAIN U = 0..n
  BY <1>2
<1>6. TokensIn(u, Size(s)) =
        IF \E i \in 0..n : U[i] = Size(s) THEN CHOOSE i \in 0..n : U[i] = Size(s) ELSE None
  BY <1>5 DEF TokensIn
<1> HIDE DEF u, U, n
<1>7. TokensIn(u, Size(s)) = Len(s)
  BY <1>3, <1>4, <1>6
<1> QED
  BY <1>7 DEF u

\* What was written one behind the other can be cut where it was joined.
LEMMA PartsOfConcat ==
  ASSUME NEW S, NEW s \in Seq(S), NEW t \in Seq(S)
  PROVE  SubSeq(s \o t, 1, Len(s)) = s /\ From(s \o t, Len(s) + 1) = t
<1>1. /\ s \o t \in Seq(S) /\ Len(s \o t) = Len(s) + Len(t)
      /\ Len(s) \in Nat /\ Len(t) \in Nat
      /\ \A i \in 1..(Len(s) + Len(t)) : (s \o t)[i] = IF i <= Len(s) THEN s[i] ELSE t[i - Len(s)]
  BY ConcatProperties
<1>2. SubSeq(s \o t, 1, Len(s)) = s
  OBVIOUS
<1>3. SubSeq(s \o t, Len(s) + 1, Len(s) + Len(t)) = t
  OBVIOUS
<1> QED
  BY <1>1, <1>2, <1>3 DEF From

\* The first token of a stream.
LEMMA FirstToken ==
  ASSUME NEW V, NEW t \in Token(V), NEW r \in Seq(Token(V))
  PROVE  /\ <<t>> \o r \in Seq(Token(V)) /\ <<t>> \o r # <<>>
         /\ Head(<<t>> \o r) = t
         /\ Size(<<t>> \o r) = TokenSize(t) + Size(r)
         /\ Size(r) \in Nat /\ TokenSize(t) \in Nat \ {0}
         /\ From(<<t>> \o r, TokensIn(<<t>> \o r, TokenSize(t)) + 1) = r
<1>1. <<t>> \in Seq(Token(V)) /\ Len(<<t>>) = 1 /\ <<t>>[1] = t
  OBVIOUS
<1>2. /\ <<t>> \o r \in Seq(Token(V)) /\ Len(<<t>> \o r) = 1 + Len(r) /\ Len(r) \in Nat
      /\ \A i \in 1..(1 + Len(r)) : (<<t>> \o r)[i] = IF i <= 1 THEN <<t>>[i] ELSE r[i - 1]
  BY <1>1, ConcatProperties
<1>3. (<<t>> \o r)[1] = t
  BY <1>1, <1>2
<1>4. Size(<<t>>) = TokenSize(t) /\ TokenSize(t) \in Nat \ {0}
  BY SizeOfOne, TokenSizePositive
<1>5. Size(<<t>> \o r) = TokenSize(t) + Size(r) /\ Size(r) \in Nat
  BY <1>1, <1>4, SizeOfConcat
<1>6. TokensIn(<<t>> \o r, TokenSize(t)) = 1
  BY <1>1, <1>4, TokensOfConcat
<1>7. From(<<t>> \o r, 2) = r
  <2>1. From(<<t>> \o r, Len(<<t>>) + 1) = r
    BY <1>1, PartsOfConcat
  <2>2. Len(<<t>>) + 1 = 2
    BY <1>1
  <2> QED
    BY <2>1, <2>2
<1> QED
  BY <1>2, <1>3, <1>4, <1>5, <1>6, <1>7

-----------------------------------------------------------------------------
(* Sums: SumFunction counts the pairs of an argument and a number from 1   *)
(* up to its value.                                                        *)

Pairs(f, s) == {q \in s \X Nat : q[2] \in 1..f[q[1]]}

\* One more element adds its value to the number of pairs.
LEMMA PairsAdd ==
  ASSUME NEW D, NEW f \in [D -> Nat], NEW s \in SUBSET D, NEW x \in D, x \notin s,
         IsFiniteSet(Pairs(f, s))
  PROVE  /\ IsFiniteSet(Pairs(f, s \union {x}))
         /\ Cardinality(Pairs(f, s \union {x})) = Cardinality(Pairs(f, s)) + f[x]
         /\ Cardinality(Pairs(f, s)) \in Nat
<1> DEFINE X == {x} \X (1..f[x])
<1>0. f[x] \in Nat
  OBVIOUS
<1>1. IsFiniteSet(X) /\ Cardinality(X) = f[x]
  <2>1. IsFiniteSet({x}) /\ Cardinality({x}) = 1
    BY FS_Singleton
  <2>2. IsFiniteSet(1..f[x]) /\ Cardinality(1..f[x]) = IF 1 > f[x] THEN 0 ELSE f[x] - 1 + 1
    BY <1>0, FS_Interval
  <2>3. Cardinality(1..f[x]) = f[x]
    BY <1>0, <2>2
  <2>4. IsFiniteSet(X) /\ Cardinality(X) = Cardinality({x}) * Cardinality(1..f[x])
    BY <2>1, <2>2, FS_Product
  <2> QED
    BY <1>0, <2>1, <2>3, <2>4
<1>2. Pairs(f, s \union {x}) = Pairs(f, s) \union X
  BY DEF Pairs
<1>3. Pairs(f, s) \cap X = {}
  BY DEF Pairs
<1>4. Cardinality(Pairs(f, s) \cap X) = 0
  BY <1>3, FS_EmptySet
<1> HIDE DEF X
<1>5. /\ IsFiniteSet(Pairs(f, s) \union X)
      /\ Cardinality(Pairs(f, s) \union X)
           = Cardinality(Pairs(f, s)) + Cardinality(X) - Cardinality(Pairs(f, s) \cap X)
  BY <1>1, FS_Union
<1>6. PICK n \in Nat : n = Cardinality(Pairs(f, s))
  BY FS_CardinalityType
<1>7. Cardinality(Pairs(f, s) \union X) = n + f[x]
  BY <1>0, <1>1, <1>4, <1>5, <1>6
<1> QED
  BY <1>2, <1>5, <1>6, <1>7

\* A function to numbers on a finite set has finitely many pairs.
LEMMA PairsFinite ==
  ASSUME NEW D, NEW f \in [D -> Nat], NEW s \in SUBSET D, IsFiniteSet(s)
  PROVE  IsFiniteSet(Pairs(f, s)) /\ Cardinality(Pairs(f, s)) \in Nat
<1> DEFINE K == {n \in Nat : \A r \in SUBSET D :
                   IsFiniteSet(r) /\ Cardinality(r) = n => IsFiniteSet(Pairs(f, r))}
<1>1. 0 \in K
  <2>1. ASSUME NEW r \in SUBSET D, IsFiniteSet(r), Cardinality(r) = 0
        PROVE  IsFiniteSet(Pairs(f, r))
    <3>1. r = {}
      BY <2>1, FS_EmptySet
    <3>2. Pairs(f, {}) = {}
      BY DEF Pairs
    <3> QED
      BY <3>1, <3>2, FS_EmptySet
  <2> QED
    BY <2>1
<1>2. PICK m \in Nat : m = Cardinality(s)
  BY FS_CardinalityType
<1>3. ASSUME NEW n \in 0..m, n \in K, n < m PROVE n + 1 \in K
  <2>1. ASSUME NEW r \in SUBSET D, IsFiniteSet(r), Cardinality(r) = n + 1
        PROVE  IsFiniteSet(Pairs(f, r))
    <3>1. r # {}
      BY <2>1, FS_EmptySet
    <3>2. PICK x \in r : TRUE
      BY <3>1
    <3>3. IsFiniteSet(r \ {x}) /\ Cardinality(r \ {x}) = Cardinality(r) - 1
      BY <2>1, FS_RemoveElement
    <3>4. Cardinality(r \ {x}) = n
      BY <2>1, <3>3
    <3>5. IsFiniteSet(Pairs(f, r \ {x}))
      BY <1>3, <3>3, <3>4
    <3>6. IsFiniteSet(Pairs(f, (r \ {x}) \union {x}))
      BY <3>5, PairsAdd
    <3>7. (r \ {x}) \union {x} = r
      OBVIOUS
    <3> QED
      BY <3>6, <3>7
  <2> QED
    BY <2>1
<1> HIDE DEF K
<1>4. 0..m \subseteq K
  BY <1>1, <1>3, StepByStep
<1>5. m \in K
  BY <1>4
<1>6. IsFiniteSet(Pairs(f, s))
  BY <1>2, <1>5 DEF K
<1> QED
  BY <1>6, FS_CardinalityType

\* The sum of a function is how many pairs it has, which makes sums a matter
\* of cardinalities.
LEMMA SumCountsPairs ==
  ASSUME NEW D, IsFiniteSet(D), NEW f \in [D -> Nat]
  PROVE  SumFunction(f) = Cardinality(Pairs(f, D))
<1> DEFINE c(s) == CHOOSE x \in s : TRUE
           Eq(g) == g = [s \in SUBSET D |-> IF s = {} THEN 0 ELSE f[c(s)] + g[s \ {c(s)}]]
           h == [s \in SUBSET D |-> Cardinality(Pairs(f, s))]
<1>0. DOMAIN f = D
  OBVIOUS
<1>1. SumFunction(f) = (CHOOSE g : Eq(g))[D]
  BY <1>0 DEF SumFunction, SumFunctionOnSet, FoldFunctionOnSet, MapThenFoldSet
<1>2. ASSUME NEW s \in SUBSET D
      PROVE  /\ s = {} => h[s] = 0
             /\ s # {} => /\ c(s) \in s /\ s \ {c(s)} \in SUBSET D
                          /\ h[s] = f[c(s)] + h[s \ {c(s)}]
  <2>1. ASSUME s = {} PROVE h[s] = 0
    <3>1. Pairs(f, {}) = {}
      BY DEF Pairs
    <3> QED
      BY <2>1, <3>1, FS_EmptySet
  <2>2. ASSUME s # {}
        PROVE  c(s) \in s /\ s \ {c(s)} \in SUBSET D /\ h[s] = f[c(s)] + h[s \ {c(s)}]
    <3>1. PICK x : x = c(s)
      OBVIOUS
    <3>2. x \in s
      BY <2>2, <3>1
    <3>3. IsFiniteSet(s \ {x})
      <4>1. IsFiniteSet(s)
        BY FS_Subset
      <4> QED
        BY <4>1, FS_RemoveElement
    <3>4. IsFiniteSet(Pairs(f, s \ {x}))
      BY <3>3, PairsFinite
    <3>5. /\ Cardinality(Pairs(f, (s \ {x}) \union {x})) = Cardinality(Pairs(f, s \ {x})) + f[x]
          /\ Cardinality(Pairs(f, s \ {x})) \in Nat
      <4>1. s \ {x} \in SUBSET D /\ x \in D /\ x \notin s \ {x}
        BY <3>2
      <4> QED
        BY <4>1, <3>4, PairsAdd
    <3>6. (s \ {x}) \union {x} = s
      BY <3>2
    <3>7. f[x] \in Nat
      BY <3>2
    <3>8. h[s] = f[x] + h[s \ {x}]
      <4>1. h[s] = Cardinality(Pairs(f, s)) /\ h[s \ {x}] = Cardinality(Pairs(f, s \ {x}))
        OBVIOUS
      <4>2. Cardinality(Pairs(f, s)) = Cardinality(Pairs(f, s \ {x})) + f[x]
        BY <3>5, <3>6
      <4> HIDE DEF h
      <4> QED
        BY <3>5, <3>7, <4>1, <4>2
    <3> HIDE DEF c, h
    <3> QED
      BY <3>1, <3>2, <3>8
  <2> QED
    BY <2>1, <2>2
<1> HIDE DEF c
<1>3. Eq(h)
  <2> DEFINE w == [s \in SUBSET D |-> IF s = {} THEN 0 ELSE f[c(s)] + h[s \ {c(s)}]]
  <2>1. \A s \in SUBSET D : h[s] = w[s]
    BY <1>2
  <2>2. h = w
    BY <2>1
  <2> QED
    BY <2>2
<1>4. PICK G : G = CHOOSE g : Eq(g)
  OBVIOUS
<1>5. Eq(G)
  BY <1>3, <1>4
<1> HIDE DEF h
<1>6. /\ \A s \in SUBSET D : s = {} => G[s] = 0
      /\ \A s \in SUBSET D : s # {} => G[s] = f[c(s)] + G[s \ {c(s)}]
  BY <1>5
<1> HIDE DEF Eq
<1> DEFINE K == {n \in Nat : \A s \in SUBSET D : Cardinality(s) = n => G[s] = h[s]}
<1>7. PICK m \in Nat : m = Cardinality(D)
  BY FS_CardinalityType
<1>8. 0 \in K
  <2>1. ASSUME NEW s \in SUBSET D, Cardinality(s) = 0 PROVE G[s] = h[s]
    <3>1. IsFiniteSet(s)
      BY FS_Subset
    <3>2. s = {}
      BY <2>1, <3>1, FS_EmptySet
    <3> QED
      BY <1>2, <1>6, <3>2
  <2> QED
    BY <2>1
<1>9. ASSUME NEW n \in 0..m, n \in K, n < m PROVE n + 1 \in K
  <2>1. ASSUME NEW s \in SUBSET D, Cardinality(s) = n + 1 PROVE G[s] = h[s]
    <3>1. IsFiniteSet(s)
      BY FS_Subset
    <3>2. s # {}
      BY <2>1, FS_EmptySet
    <3>3. c(s) \in s /\ s \ {c(s)} \in SUBSET D /\ h[s] = f[c(s)] + h[s \ {c(s)}]
      BY <1>2, <3>2
    <3>4. Cardinality(s \ {c(s)}) = Cardinality(s) - 1
      BY <3>1, <3>3, FS_RemoveElement
    <3>5. Cardinality(s \ {c(s)}) = n
      BY <2>1, <3>4
    <3>6. G[s \ {c(s)}] = h[s \ {c(s)}]
      BY <1>9, <3>3, <3>5
    <3> QED
      BY <1>6, <3>2, <3>3, <3>6
  <2> QED
    BY <2>1
<1> HIDE DEF K
<1>10. 0..m \subseteq K
  BY <1>8, <1>9, StepByStep
<1>11. m \in K
  BY <1>10
<1>12. D \in SUBSET D
  OBVIOUS
<1>13. G[D] = h[D]
  BY <1>7, <1>11, <1>12 DEF K
<1> QED
  BY <1>1, <1>4, <1>12, <1>13 DEF h

\* The sum over no elements is 0.
LEMMA SumOfNone ==
  ASSUME NEW f, DOMAIN f = {}
  PROVE  SumFunction(f) = 0
<1> DEFINE Eq(g) == g = [s \in SUBSET {} |->
                           IF s = {} THEN 0
                           ELSE f[CHOOSE x \in s : TRUE] + g[s \ {CHOOSE x \in s : TRUE}]]
<1>2. SumFunction(f) = (CHOOSE g : Eq(g))[{}]
  BY DEF SumFunction, SumFunctionOnSet, FoldFunctionOnSet, MapThenFoldSet
<1>3. Eq([s \in SUBSET {} |-> 0])
  OBVIOUS
<1>4. PICK G : G = CHOOSE g : Eq(g)
  OBVIOUS
<1>5. Eq(G)
  BY <1>3, <1>4
<1>6. G[{}] = 0
  BY <1>5
<1> QED
  BY <1>2, <1>4, <1>6

\* The sum over one element is its value.
LEMMA SumOfOne ==
  ASSUME NEW x, NEW f \in [{x} -> Nat]
  PROVE  SumFunction(f) = f[x]
<1>1. IsFiniteSet({x})
  BY FS_Singleton
<1>2. SumFunction(f) = Cardinality(Pairs(f, {x}))
  BY <1>1, SumCountsPairs
<1>3. Pairs(f, {}) = {}
  BY DEF Pairs
<1>4. IsFiniteSet(Pairs(f, {})) /\ Cardinality(Pairs(f, {})) = 0
  BY <1>3, FS_EmptySet
<1>5. {} \in SUBSET {x} /\ x \in {x} /\ x \notin {} /\ {} \union {x} = {x} /\ f[x] \in Nat
  OBVIOUS
<1>6. Cardinality(Pairs(f, {} \union {x})) = Cardinality(Pairs(f, {})) + f[x]
  BY <1>4, <1>5, PairsAdd
<1> QED
  BY <1>2, <1>4, <1>5, <1>6

\* The sum over two disjoint sets is the sum of their sums.
LEMMA SumOfUnion ==
  ASSUME NEW S, NEW T, IsFiniteSet(S), IsFiniteSet(T), S \cap T = {},
         NEW f \in [S \union T -> Nat], NEW g \in [S -> Nat], NEW h \in [T -> Nat],
         \A x \in S : f[x] = g[x], \A x \in T : f[x] = h[x]
  PROVE  /\ SumFunction(f) = SumFunction(g) + SumFunction(h)
         /\ SumFunction(g) \in Nat /\ SumFunction(h) \in Nat
<1>1. IsFiniteSet(S \union T)
  BY FS_Union
<1>2. /\ SumFunction(f) = Cardinality(Pairs(f, S \union T))
      /\ SumFunction(g) = Cardinality(Pairs(g, S))
      /\ SumFunction(h) = Cardinality(Pairs(h, T))
  BY <1>1, SumCountsPairs
<1>3. Pairs(f, S \union T) = Pairs(g, S) \union Pairs(h, T)
  <2>1. ASSUME NEW q \in (S \union T) \X Nat
        PROVE  q \in Pairs(f, S \union T) <=> q \in Pairs(g, S) \union Pairs(h, T)
    <3>1. CASE q[1] \in S
      <4>1. f[q[1]] = g[q[1]] /\ q[1] \notin T
        BY <3>1
      <4> QED
        BY <3>1, <4>1 DEF Pairs
    <3>2. CASE q[1] \in T
      <4>1. f[q[1]] = h[q[1]] /\ q[1] \notin S
        BY <3>2
      <4> QED
        BY <3>2, <4>1 DEF Pairs
    <3> QED
      BY <3>1, <3>2
  <2>2. Pairs(f, S \union T) \subseteq (S \union T) \X Nat
    BY DEF Pairs
  <2>3. Pairs(g, S) \union Pairs(h, T) \subseteq (S \union T) \X Nat
    BY DEF Pairs
  <2> QED
    BY <2>1, <2>2, <2>3
<1>4. Pairs(g, S) \cap Pairs(h, T) = {}
  BY DEF Pairs
<1>5. /\ IsFiniteSet(Pairs(g, S)) /\ IsFiniteSet(Pairs(h, T))
  <2>1. S \in SUBSET S /\ T \in SUBSET T
    OBVIOUS
  <2> QED
    BY <2>1, PairsFinite
<1>6. PICK m \in Nat, n \in Nat : m = Cardinality(Pairs(g, S)) /\ n = Cardinality(Pairs(h, T))
  BY <1>5, FS_CardinalityType
<1>7. Cardinality(Pairs(g, S) \union Pairs(h, T)) = m + n - Cardinality(Pairs(g, S) \cap Pairs(h, T))
  BY <1>5, <1>6, FS_Union
<1>8. Cardinality(Pairs(g, S) \cap Pairs(h, T)) = 0
  BY <1>4, FS_EmptySet
<1>9. Cardinality(Pairs(g, S) \union Pairs(h, T)) = m + n
  BY <1>7, <1>8
<1> QED
  BY <1>2, <1>3, <1>6, <1>9

\* One more element adds its value to the sum.
LEMMA SumOfMore ==
  ASSUME NEW S, IsFiniteSet(S), NEW y, y \notin S,
         NEW f \in [S \union {y} -> Nat], NEW g \in [S -> Nat], \A x \in S : f[x] = g[x]
  PROVE  SumFunction(f) = SumFunction(g) + f[y] /\ SumFunction(g) \in Nat
<1> DEFINE h == [x \in {y} |-> f[x]]
           T == {y}
<1>1. h \in [T -> Nat] /\ h[y] = f[y]
  OBVIOUS
<1>2. IsFiniteSet(T)
  BY FS_Singleton
<1>3. /\ IsFiniteSet(S) /\ IsFiniteSet(T) /\ S \cap T = {}
      /\ f \in [S \union T -> Nat] /\ g \in [S -> Nat] /\ h \in [T -> Nat]
      /\ \A x \in S : f[x] = g[x]
      /\ \A x \in T : f[x] = h[x]
  BY <1>1, <1>2
<1> HIDE DEF T
<1>4. SumFunction(h) = h[y]
  BY <1>1, SumOfOne DEF T
<1> HIDE DEF h
<1>5. /\ SumFunction(f) = SumFunction(g) + SumFunction(h)
      /\ SumFunction(g) \in Nat /\ SumFunction(h) \in Nat
  BY ONLY <1>3, SumOfUnion
<1> QED
  BY <1>1, <1>4, <1>5

\* A function on 1..n + 1 sums up to what it does on 1..n, and its last value.
LEMMA SumOfNext ==
  ASSUME NEW n \in Nat, NEW f \in [1..(n + 1) -> Nat], NEW g \in [1..n -> Nat],
         \A i \in 1..n : f[i] = g[i]
  PROVE  SumFunction(f) = SumFunction(g) + f[n + 1] /\ SumFunction(g) \in Nat
<1>1. IsFiniteSet(1..n)
  BY FS_Interval
<1>2. 1..(n + 1) = (1..n) \union {n + 1} /\ n + 1 \notin 1..n
  OBVIOUS
<1>3. PICK S, y : S = 1..n /\ y = n + 1
  OBVIOUS
<1>4. /\ IsFiniteSet(S) /\ y \notin S /\ f \in [S \union {y} -> Nat] /\ g \in [S -> Nat]
      /\ \A x \in S : f[x] = g[x]
  BY <1>1, <1>2, <1>3
<1>5. SumFunction(f) = SumFunction(g) + f[y] /\ SumFunction(g) \in Nat
  BY <1>4, SumOfMore
<1> QED
  BY <1>3, <1>5

-----------------------------------------------------------------------------
(* Properties.                                                             *)

Measured(lengths, ps) ==
  IsFiniteSet(ps) /\ \A p \in ps : PropLen(lengths[p[1]], p[2]) \in Nat

\* bytes_length adds up over disjoint sets of properties.
LEMMA BytesLengthOfUnion ==
  ASSUME NEW lengths, NEW ps, NEW qs, Measured(lengths, ps), Measured(lengths, qs), ps \cap qs = {}
  PROVE  /\ BytesLength(lengths, ps \union qs) = BytesLength(lengths, ps) + BytesLength(lengths, qs)
         /\ BytesLength(lengths, ps) \in Nat /\ BytesLength(lengths, qs) \in Nat
         /\ Measured(lengths, ps \union qs)
<1> DEFINE f == [p \in ps \union qs |-> PropLen(lengths[p[1]], p[2])]
           g == [p \in ps |-> PropLen(lengths[p[1]], p[2])]
           h == [p \in qs |-> PropLen(lengths[p[1]], p[2])]
<1>1. f \in [ps \union qs -> Nat] /\ g \in [ps -> Nat] /\ h \in [qs -> Nat]
  BY DEF Measured
<1>2. (\A x \in ps : f[x] = g[x]) /\ (\A x \in qs : f[x] = h[x])
  OBVIOUS
<1>3. IsFiniteSet(ps) /\ IsFiniteSet(qs)
  BY DEF Measured
<1>4. /\ BytesLength(lengths, ps \union qs) = SumFunction(f)
      /\ BytesLength(lengths, ps) = SumFunction(g)
      /\ BytesLength(lengths, qs) = SumFunction(h)
  BY DEF BytesLength
<1>5. IsFiniteSet(ps \union qs)
  BY <1>3, FS_Union
<1>6. Measured(lengths, ps \union qs)
  BY <1>5 DEF Measured
<1> HIDE DEF f, g, h
<1>7. SumFunction(f) = SumFunction(g) + SumFunction(h) /\ SumFunction(g) \in Nat /\ SumFunction(h) \in Nat
  <2>1. /\ IsFiniteSet(ps) /\ IsFiniteSet(qs) /\ ps \cap qs = {}
        /\ f \in [ps \union qs -> Nat] /\ g \in [ps -> Nat] /\ h \in [qs -> Nat]
        /\ \A x \in ps : f[x] = g[x]
        /\ \A x \in qs : f[x] = h[x]
    BY <1>1, <1>2, <1>3
  <2> QED
    BY ONLY <2>1, SumOfUnion
<1> QED
  BY <1>4, <1>6, <1>7

\* bytes_length of one property is what prop_len! and its kin count for it.
LEMMA BytesLengthOfOne ==
  ASSUME NEW lengths, NEW p, PropLen(lengths[p[1]], p[2]) \in Nat
  PROVE  BytesLength(lengths, {p}) = PropLen(lengths[p[1]], p[2]) /\ Measured(lengths, {p})
<1> DEFINE f == [q \in {p} |-> PropLen(lengths[q[1]], q[2])]
<1>1. f \in [{p} -> Nat] /\ f[p] = PropLen(lengths[p[1]], p[2])
  OBVIOUS
<1>2. BytesLength(lengths, {p}) = SumFunction(f)
  BY DEF BytesLength
<1>3. Measured(lengths, {p})
  BY FS_Singleton DEF Measured
<1> HIDE DEF f
<1> QED
  BY <1>1, <1>2, <1>3, SumOfOne

\* bytes_length of no properties is 0.
LEMMA BytesLengthOfNone ==
  ASSUME NEW lengths
  PROVE  BytesLength(lengths, {}) = 0 /\ Measured(lengths, {})
<1> DEFINE f == [q \in {} |-> PropLen(lengths[q[1]], q[2])]
<1>1. DOMAIN f = {} /\ BytesLength(lengths, {}) = SumFunction(f)
  BY DEF BytesLength
<1> HIDE DEF f
<1>2. Measured(lengths, {})
  BY FS_EmptySet DEF Measured
<1> QED
  BY <1>1, <1>2, SumOfNone

\* The tokens ts are the properties ps: decode reads ps out of them, and their
\* bytes are as many as are counted for ps.
Tells(V, lengths, reads, ts, ps) ==
  /\ ts \in Seq(Token(V)) /\ \E k \in Nat : Len(ts) = 2 * k
  /\ Readable(reads, ts) /\ ReadIn(ts) = ps
  /\ Measured(lengths, ps) /\ Size(ts) = BytesLength(lengths, ps)

\* No tokens tell no properties.
LEMMA TellsNone ==
  ASSUME NEW V, NEW lengths, NEW reads
  PROVE  Tells(V, lengths, reads, <<>>, {})
<1>1. <<>> \in Seq(Token(V)) /\ Len(<<>>) = 2 * 0 /\ DOMAIN <<>> = {}
  OBVIOUS
<1>2. Readable(reads, <<>>) /\ ReadIn(<<>>) = {}
  BY <1>1 DEF Readable, ReadIn
<1> QED
  BY <1>1, <1>2, SizeOfNone, BytesLengthOfNone DEF Tells

\* The kinds of properties, and the values that are counted in as many bytes
\* as they are written in.
Kinds == {"u8", "u16", "u32", "len", "str", "kv"}
CountedRight(kind, v) == v \in Nat /\ (kind = "len" => v \notin {16383, 2097151})

\* A pair is one element behind another.
LEMMA PairIsConcat ==
  ASSUME NEW S, NEW a \in S, NEW b \in S
  PROVE  <<a, b>> = <<a>> \o <<b>>
<1>1. <<a>> \in Seq(S) /\ Len(<<a>>) = 1 /\ <<b>> \in Seq(S) /\ Len(<<b>>) = 1
  OBVIOUS
<1>2. /\ <<a>> \o <<b>> \in Seq(S) /\ Len(<<a>> \o <<b>>) = 2
      /\ \A i \in 1..2 : (<<a>> \o <<b>>)[i] = IF i <= 1 THEN <<a>>[i] ELSE <<b>>[i - 1]
  BY <1>1, ConcatProperties
<1>3. (<<a>> \o <<b>>)[1] = a /\ (<<a>> \o <<b>>)[2] = b
  BY <1>2
<1>4. <<a, b>> \in Seq(S) /\ Len(<<a, b>>) = 2 /\ <<a, b>>[1] = a /\ <<a, b>>[2] = b
  OBVIOUS
<1>5. \A i \in 1..2 : i = 1 \/ i = 2
  OBVIOUS
<1> QED
  BY <1>2, <1>3, <1>4, <1>5, SeqEqual

\* An identifier and its value tell one property, if encode writes the kind
\* that bytes_length counts and decode reads, and if a length is counted as
\* it is written.
LEMMA TellsOne ==
  ASSUME NEW V, NEW lengths, NEW reads, NEW name \in Names, name \in DOMAIN reads,
         NEW kind \in Kinds, lengths[name] = kind, reads[name] = kind,
         NEW v, CountedRight(kind, v)
  PROVE  Tells(V, lengths, reads, <<<<"id", name>>, <<kind, v>>>>, {<<name, v>>})
<1>1. PICK a, b, p : a = <<"id", name>> /\ b = <<kind, v>> /\ p = <<name, v>>
  OBVIOUS
<1>2. a \in Token(V) /\ b \in Token(V) /\ v \in Nat
  BY <1>1 DEF Token, Kinds, CountedRight
<1>3. TokenSize(a) = 1 /\ TokenSize(b) \in Nat
  <2>1. TokenSize(a) = 1
    BY <1>1 DEF TokenSize
  <2> QED
    BY <1>2, <2>1, TokenSizePositive
<1>4. PropLen(lengths[name], v) = 1 + TokenSize(b)
  <2>1. CASE kind = "len"
    <3>1. LengthCount(v) = RemainingLengthSize(v)
      BY <1>2, <2>1, LengthCountAgrees DEF CountedRight
    <3>2. TokenSize(b) = RemainingLengthSize(v)
      BY <1>1, <2>1 DEF TokenSize
    <3> QED
      BY <2>1, <3>1, <3>2 DEF PropLen
  <2>2. CASE kind # "len"
    BY <1>1, <2>2 DEF PropLen
  <2> QED
    BY <2>1, <2>2
<1>5. p[1] = name /\ p[2] = v /\ PropLen(lengths[p[1]], p[2]) \in Nat
  BY <1>1, <1>3, <1>4
<1>6. BytesLength(lengths, {p}) = 1 + TokenSize(b) /\ Measured(lengths, {p})
  BY <1>4, <1>5, BytesLengthOfOne
<1>7. <<a, b>> \in Seq(Token(V)) /\ <<a, b>> = <<a>> \o <<b>> /\ Len(<<a, b>>) = 2 * 1
  <2>1. <<a, b>> \in Seq(Token(V))
    BY <1>2
  <2>2. Len(<<a, b>>) = 2
    OBVIOUS
  <2>3. <<a, b>> = <<a>> \o <<b>>
    BY <1>2, PairIsConcat
  <2> QED
    BY <2>1, <2>2, <2>3
<1>8. Size(<<a, b>>) = 1 + TokenSize(b)
  <2>1. <<a>> \in Seq(Token(V)) /\ <<b>> \in Seq(Token(V))
    BY <1>2
  <2>2. Size(<<a>> \o <<b>>) = Size(<<a>>) + Size(<<b>>)
    BY <2>1, SizeOfConcat
  <2>3. Size(<<a>>) = TokenSize(a) /\ Size(<<b>>) = TokenSize(b)
    BY <1>2, SizeOfOne
  <2> QED
    BY <1>3, <1>7, <2>2, <2>3
<1>9. Readable(reads, <<a, b>>)
  <2>1. DOMAIN <<a, b>> = 1..2 /\ Len(<<a, b>>) = 2
    OBVIOUS
  <2>2. <<a, b>>[1][1] = "id" /\ <<a, b>>[1][2] = name /\ <<a, b>>[2][1] = kind
    BY <1>1
  <2>3. \A i \in 1..2 : i = 1 \/ i = 2
    OBVIOUS
  <2>4. 1 % 2 = 1 /\ 2 % 2 = 0 /\ 2 - 1 = 1
    OBVIOUS
  <2> QED
    BY <2>1, <2>2, <2>3, <2>4 DEF Readable
<1>10. ReadIn(<<a, b>>) = {p}
  <2>1. DOMAIN <<a, b>> = {1, 2} /\ 1 % 2 = 1 /\ 2 % 2 = 0
    OBVIOUS
  <2>2. {j \in DOMAIN <<a, b>> : j % 2 = 1} = {1}
    BY <2>1
  <2>3. <<a, b>>[1][2] = name /\ <<a, b>>[1 + 1][2] = v
    BY <1>1
  <2> QED
    BY <1>1, <2>2, <2>3 DEF ReadIn
<1>11. Tells(V, lengths, reads, <<a, b>>, {p})
  BY <1>6, <1>7, <1>8, <1>9, <1>10 DEF Tells
<1> QED
  BY <1>1, <1>11

\* Tokens that tell some properties, behind tokens that tell others, tell
\* both.
LEMMA TellsConcat ==
  ASSUME NEW V, NEW lengths, NEW reads, NEW s, NEW t, NEW ps, NEW qs,
         Tells(V, lengths, reads, s, ps), Tells(V, lengths, reads, t, qs), ps \cap qs = {}
  PROVE  Tells(V, lengths, reads, s \o t, ps \union qs)
<1>1. PICK u, m, n : u = s \o t /\ m = Len(s) /\ n = Len(t)
  OBVIOUS
<1>2. /\ s \in Seq(Token(V)) /\ t \in Seq(Token(V)) /\ m \in Nat /\ n \in Nat
      /\ Readable(reads, s) /\ Readable(reads, t) /\ ReadIn(s) = ps /\ ReadIn(t) = qs
      /\ Measured(lengths, ps) /\ Size(s) = BytesLength(lengths, ps)
      /\ Measured(lengths, qs) /\ Size(t) = BytesLength(lengths, qs)
  BY <1>1 DEF Tells
<1>3. PICK k \in Nat, l \in Nat : m = 2 * k /\ n = 2 * l
  BY <1>1 DEF Tells
<1>4. /\ u \in Seq(Token(V)) /\ Len(u) = m + n /\ DOMAIN u = 1..(m + n)
      /\ \A i \in 1..(m + n) : u[i] = IF i <= m THEN s[i] ELSE t[i - m]
  BY <1>1, <1>2, ConcatProperties
<1>5. DOMAIN s = 1..m /\ DOMAIN t = 1..n
  BY <1>1, <1>2
<1>6. Size(u) = BytesLength(lengths, ps \union qs) /\ Measured(lengths, ps \union qs)
  <2>1. Size(u) = Size(s) + Size(t)
    BY <1>1, <1>2, SizeOfConcat
  <2>2. Measured(lengths, ps) /\ Measured(lengths, qs) /\ ps \cap qs = {}
    BY <1>2
  <2>3. /\ BytesLength(lengths, ps \union qs) = BytesLength(lengths, ps) + BytesLength(lengths, qs)
        /\ Measured(lengths, ps \union qs)
    BY ONLY <2>2, BytesLengthOfUnion
  <2> QED
    BY <1>2, <2>1, <2>3
<1>7. ASSUME NEW i \in 1..m
      PROVE  i \in 1..(m + n) /\ u[i] = s[i]
  BY <1>2, <1>4
<1>8. ASSUME NEW i \in 1..n
      PROVE  /\ i + m \in 1..(m + n) /\ u[i + m] = t[i] /\ (i + m) % 2 = i % 2
             /\ (i + m) - 1 = (i - 1) + m
  <2>1. i + m \in 1..(m + n) /\ ~(i + m <= m) /\ (i + m) - m = i /\ (i + m) - 1 = (i - 1) + m
    BY <1>2
  <2>2. (i + m) % 2 = i % 2
    BY <1>3
  <2> QED
    BY <1>4, <2>1, <2>2
<1>9. ASSUME NEW i \in 1..(m + n), i \notin 1..m
      PROVE  i - m \in 1..n /\ i = (i - m) + m
  BY <1>2, <1>9
<1>10. Readable(reads, u)
  <2> DEFINE Right(x, z, i) == IF i % 2 = 1
                               THEN x[i][1] = "id" /\ x[i][2] \in DOMAIN reads /\ i < z
                               ELSE x[i][1] = reads[x[i - 1][2]]
  <2>1. (\A i \in 1..m : Right(s, m, i)) /\ (\A i \in 1..n : Right(t, n, i))
    BY <1>1, <1>2, <1>5 DEF Readable
  <2>2. ASSUME NEW i \in 1..m PROVE Right(u, m + n, i)
    <3>1. CASE i % 2 = 1
      BY <1>2, <1>7, <2>1, <3>1
    <3>2. CASE i % 2 # 1
      <4>1. i - 1 \in 1..m
        BY <1>2, <3>2
      <4> QED
        BY <1>7, <2>1, <3>2, <4>1
    <3> QED
      BY <3>1, <3>2
  <2>3. ASSUME NEW i \in 1..n PROVE Right(u, m + n, i + m)
    <3>1. CASE i % 2 = 1
      <4>1. t[i][1] = "id" /\ t[i][2] \in DOMAIN reads /\ i < n
        BY <2>1, <3>1
      <4>2. i + m < m + n
        BY <1>2, <4>1
      <4> QED
        BY <1>8, <3>1, <4>1, <4>2
    <3>2. CASE i % 2 # 1
      <4>1. i - 1 \in 1..n
        BY <1>2, <3>2
      <4>2. t[i][1] = reads[t[i - 1][2]]
        BY <2>1, <3>2
      <4>3. u[i + m] = t[i] /\ u[(i + m) - 1] = t[i - 1] /\ (i + m) % 2 # 1
        BY <1>8, <3>2, <4>1
      <4> QED
        BY <4>2, <4>3
    <3> QED
      BY <3>1, <3>2
  <2> HIDE DEF Right
  <2>4. ASSUME NEW i \in 1..(m + n) PROVE Right(u, m + n, i)
    <3>1. CASE i \in 1..m
      BY <2>2, <3>1
    <3>2. CASE i \notin 1..m
      BY <1>9, <2>3, <3>2
    <3> QED
      BY <3>1, <3>2
  <2> QED
    BY <1>4, <2>4 DEF Readable, Right
<1>11. ReadIn(u) = ps \union qs
  <2>1. ASSUME NEW j \in 1..(m + n), j % 2 = 1
        PROVE  <<u[j][2], u[j + 1][2]>> \in ps \union qs
    <3>1. CASE j \in 1..m
      <4>1. j + 1 \in 1..m
        BY <1>3, <2>1, <3>1
      <4>2. u[j] = s[j] /\ u[j + 1] = s[j + 1]
        BY <1>7, <3>1, <4>1
      <4> QED
        BY <1>2, <1>5, <2>1, <3>1, <4>2 DEF ReadIn
    <3>2. CASE j \notin 1..m
      <4>1. PICK i : i = j - m
        OBVIOUS
      <4>2. i \in 1..n /\ j = i + m
        BY <1>9, <3>2, <4>1
      <4>3. i % 2 = 1
        BY <1>8, <2>1, <4>2
      <4>4. i + 1 \in 1..n /\ (i + 1) + m = j + 1
        BY <1>2, <1>3, <4>2, <4>3
      <4>5. u[j] = t[i] /\ u[j + 1] = t[i + 1]
        BY <1>8, <4>2, <4>4
      <4> QED
        BY <1>2, <1>5, <4>2, <4>3, <4>5 DEF ReadIn
    <3> QED
      BY <3>1, <3>2
  <2>2. ASSUME NEW j \in 1..m, j % 2 = 1
        PROVE  \E i \in 1..(m + n) : i % 2 = 1 /\ <<u[i][2], u[i + 1][2]>> = <<s[j][2], s[j + 1][2]>>
    <3>1. j + 1 \in 1..m
      BY <1>3, <2>2
    <3>2. u[j] = s[j] /\ u[j + 1] = s[j + 1] /\ j \in 1..(m + n)
      BY <1>7, <3>1
    <3> QED
      BY <2>2, <3>2
  <2>3. ASSUME NEW j \in 1..n, j % 2 = 1
        PROVE  \E i \in 1..(m + n) : i % 2 = 1 /\ <<u[i][2], u[i + 1][2]>> = <<t[j][2], t[j + 1][2]>>
    <3>1. j + 1 \in 1..n /\ (j + 1) + m = (j + m) + 1
      BY <1>2, <1>3, <2>3
    <3>2. u[j + m] = t[j] /\ u[(j + m) + 1] = t[j + 1] /\ j + m \in 1..(m + n) /\ (j + m) % 2 = 1
      BY <1>8, <2>3, <3>1
    <3> QED
      BY <3>2
  <2>4. ReadIn(u) = {<<u[i][2], u[i + 1][2]>> : i \in {j \in 1..(m + n) : j % 2 = 1}}
    BY <1>4 DEF ReadIn
  <2>5. ps = {<<s[i][2], s[i + 1][2]>> : i \in {j \in 1..m : j % 2 = 1}}
    BY <1>2, <1>5 DEF ReadIn
  <2>6. qs = {<<t[i][2], t[i + 1][2]>> : i \in {j \in 1..n : j % 2 = 1}}
    BY <1>2, <1>5 DEF ReadIn
  <2>7. ReadIn(u) \subseteq ps \union qs
    BY <2>1, <2>4
  <2>8. ps \subseteq ReadIn(u)
    BY <2>2, <2>4, <2>5
  <2>9. qs \subseteq ReadIn(u)
    BY <2>3, <2>4, <2>6
  <2> QED
    BY <2>7, <2>8, <2>9
<1>12. \E h \in Nat : Len(u) = 2 * h
  <2>1. k + l \in Nat /\ m + n = 2 * (k + l)
    BY <1>3
  <2> QED
    BY <1>4, <2>1
<1> QED
  BY <1>1, <1>4, <1>6, <1>10, <1>11, <1>12 DEF Tells

-----------------------------------------------------------------------------
(* Sequences one behind the other.                                         *)

\* g[i] is the first i sequences of x in one.
Joins(S, x, n, g) ==
  /\ g \in [1..n -> Seq(S)] /\ g[1] = x[1]
  /\ \A i \in 2..n : g[i] = g[i - 1] \o x[i]

\* The parts can be joined one by one, as far as one likes: the recursion of
\* FlattenSeq stops.
LEMMA JoinsUpTo ==
  ASSUME NEW S, NEW x \in Seq(Seq(S)), NEW n \in 1..Len(x)
  PROVE  \E g : Joins(S, x, n, g)
<1>0. Len(x) \in Nat
  OBVIOUS
<1> DEFINE K == {m \in Nat : m < Len(x) => \E g : Joins(S, x, m + 1, g)}
<1>1. 0 \in K
  <2>1. ASSUME 0 < Len(x) PROVE \E g : Joins(S, x, 0 + 1, g)
    <3>1. x[1] \in Seq(S)
      BY <1>0, <2>1, ElementOfSeq
    <3>2. 1..(0 + 1) = {1} /\ 2..(0 + 1) = {}
      OBVIOUS
    <3>3. [i \in 1..(0 + 1) |-> x[1]] \in [1..(0 + 1) -> Seq(S)]
      BY <3>1
    <3>4. Joins(S, x, 0 + 1, [i \in 1..(0 + 1) |-> x[1]])
      BY <3>2, <3>3 DEF Joins
    <3> QED
      BY <3>4
  <2> QED
    BY <2>1
<1>2. ASSUME NEW m \in 0..Len(x), m \in K, m < Len(x) PROVE m + 1 \in K
  <2>1. ASSUME m + 1 < Len(x) PROVE \E g : Joins(S, x, (m + 1) + 1, g)
    <3>1. PICK g : Joins(S, x, m + 1, g)
      BY <1>2
    <3>2. PICK l \in Nat : l = m + 2
      BY <1>0
    <3>3. l \in 1..Len(x) /\ m + 1 \in 1..(m + 1) /\ l - 1 = m + 1 /\ (m + 1) + 1 = l
      BY <1>0, <2>1, <3>2
    <3>4. x[l] \in Seq(S) /\ g[m + 1] \in Seq(S)
      BY <3>1, <3>3, ElementOfSeq DEF Joins
    <3>5. g[m + 1] \o x[l] \in Seq(S)
      BY <3>4, ConcatProperties
    <3> DEFINE h == [i \in 1..l |-> IF i = l THEN g[m + 1] \o x[l] ELSE g[i]]
    <3>6. ASSUME NEW i \in 1..l PROVE i = l \/ i \in 1..(m + 1)
      BY <3>2
    <3>7. ASSUME NEW i \in 1..l PROVE h[i] \in Seq(S)
      BY <3>1, <3>5, <3>6 DEF Joins
    <3>8. h \in [1..l -> Seq(S)]
      BY <3>7
    <3>9. h[1] = x[1]
      BY <3>1, <3>2 DEF Joins
    <3>10. ASSUME NEW i \in 2..l PROVE h[i] = h[i - 1] \o x[i]
      <4>1. CASE i = l
        <5>1. i - 1 \in 1..l /\ i - 1 # l /\ i - 1 = m + 1 /\ l \in 1..l
          BY <3>2, <4>1
        <5>2. h[l] = g[m + 1] \o x[l]
          BY <5>1
        <5>3. h[i - 1] = g[m + 1]
          BY <5>1
        <5> HIDE DEF h
        <5> QED
          BY <4>1, <5>2, <5>3
      <4>2. CASE i # l
        <5>1. i \in 2..(m + 1) /\ i - 1 \in 1..l /\ i - 1 # l /\ i \in 1..l
          BY <3>2, <4>2
        <5>2. g[i] = g[i - 1] \o x[i]
          BY <3>1, <5>1 DEF Joins
        <5> QED
          BY <4>2, <5>1, <5>2
      <4> QED
        BY <4>1, <4>2
    <3> HIDE DEF h
    <3>11. Joins(S, x, l, h)
      BY <3>8, <3>9, <3>10 DEF Joins
    <3> QED
      BY <3>3, <3>11
  <2> QED
    BY <1>2, <2>1
<1> HIDE DEF K
<1>3. 0..Len(x) \subseteq K
  BY <1>0, <1>1, <1>2, StepByStep
<1>4. n - 1 \in 0..Len(x) /\ n - 1 < Len(x) /\ (n - 1) + 1 = n
  BY <1>0
<1>5. n - 1 \in K
  BY <1>3, <1>4
<1> QED
  BY <1>4, <1>5 DEF K

\* FlattenSeq joins all the parts.
LEMMA FlattenJoins ==
  ASSUME NEW S, NEW x \in Seq(Seq(S)), x # <<>>
  PROVE  \E g : Joins(S, x, Len(x), g) /\ FlattenSeq(x) = g[Len(x)]
<1> DEFINE n == Len(x)
           Eq(g) == g = [i \in 1..n |-> IF i = 1 THEN x[i] ELSE g[i - 1] \o x[i]]
<1>0. n \in Nat \ {0} /\ n \in 1..n
  OBVIOUS
<1>1. PICK g : Joins(S, x, n, g)
  <2>1. n \in 1..Len(x)
    BY <1>0
  <2> QED
    BY <2>1, JoinsUpTo
<1>2. Eq(g)
  <2>1. g = [i \in 1..n |-> g[i]]
    BY <1>1 DEF Joins
  <2>2. ASSUME NEW i \in 1..n PROVE g[i] = IF i = 1 THEN x[i] ELSE g[i - 1] \o x[i]
    <3>1. i = 1 \/ i \in 2..n
      OBVIOUS
    <3> QED
      BY <1>1, <3>1 DEF Joins
  <2> QED
    BY <2>1, <2>2
<1>3. FlattenSeq(x) = (CHOOSE f : Eq(f))[n]
  BY <1>0 DEF FlattenSeq
<1>4. PICK G : G = CHOOSE f : Eq(f)
  OBVIOUS
<1>5. Eq(G)
  BY <1>2, <1>4
<1>6. G = [i \in 1..n |-> G[i]] /\ G[1] = x[1] /\ \A i \in 2..n : G[i] = G[i - 1] \o x[i]
  <2> DEFINE w == [i \in 1..n |-> IF i = 1 THEN x[i] ELSE G[i - 1] \o x[i]]
  <2>1. G = w
    BY <1>5
  <2>2. ASSUME NEW i \in 1..n PROVE w[i] = IF i = 1 THEN x[i] ELSE G[i - 1] \o x[i]
    OBVIOUS
  <2>3. w = [i \in 1..n |-> w[i]]
    OBVIOUS
  <2>4. \A i \in 2..n : i \in 1..n /\ i # 1
    OBVIOUS
  <2> HIDE DEF w, n
  <2>5. G = [i \in 1..n |-> G[i]]
    BY <2>1, <2>3
  <2>6. 1 \in 1..n
    BY <1>0
  <2>7. w[1] = x[1]
    BY <2>2, <2>6
  <2>8. \A i \in 2..n : w[i] = G[i - 1] \o x[i]
    BY <2>2, <2>4
  <2> QED
    BY <2>1, <2>5, <2>7, <2>8
<1> HIDE DEF Eq
<1> DEFINE K == {m \in Nat : m < n => G[m + 1] \in Seq(S)}
<1>7. 0 \in K
  BY <1>0, <1>6, ElementOfSeq
<1>8. ASSUME NEW m \in 0..n, m \in K, m < n PROVE m + 1 \in K
  <2>1. ASSUME m + 1 < n PROVE G[(m + 1) + 1] \in Seq(S)
    <3>1. (m + 1) + 1 \in 2..n /\ (m + 1) + 1 \in 1..n /\ ((m + 1) + 1) - 1 = m + 1
      BY <1>0, <2>1
    <3>2. x[(m + 1) + 1] \in Seq(S) /\ G[m + 1] \in Seq(S)
      BY <1>8, <3>1, ElementOfSeq
    <3>3. G[m + 1] \o x[(m + 1) + 1] \in Seq(S)
      BY <3>2, ConcatProperties
    <3> QED
      BY <1>6, <3>1, <3>3
  <2> QED
    BY <1>8, <2>1
<1> HIDE DEF K
<1>9. 0..n \subseteq K
  BY <1>0, <1>7, <1>8, StepByStep
<1>10. ASSUME NEW i \in 1..n PROVE G[i] \in Seq(S)
  <2>1. i - 1 \in 0..n /\ i - 1 < n /\ (i - 1) + 1 = i
    BY <1>0
  <2>2. i - 1 \in K
    BY <1>9, <2>1
  <2> QED
    BY <2>1, <2>2 DEF K
<1>11. Joins(S, x, n, G)
  BY <1>6, <1>10 DEF Joins
<1> QED
  BY <1>3, <1>4, <1>11

\* Parts that tell disjoint sets of properties tell all of these when they
\* are joined.
LEMMA TellsFlatten ==
  ASSUME NEW V, NEW lengths, NEW reads, NEW x \in Seq(Seq(Token(V))), NEW P,
         \A i \in 1..Len(x) : Tells(V, lengths, reads, x[i], P[i]),
         \A i \in 1..Len(x), j \in 1..Len(x) : i # j => P[i] \cap P[j] = {},
         NEW ps, \A p : p \in ps <=> \E i \in 1..Len(x) : p \in P[i]
  PROVE  Tells(V, lengths, reads, FlattenSeq(x), ps)
<1>0. PICK n \in Nat : n = Len(x)
  OBVIOUS
<1>1. CASE x = <<>>
  <2>1. FlattenSeq(x) = <<>> /\ 1..Len(x) = {}
    BY <1>1 DEF FlattenSeq
  <2>2. ps = {}
    BY <2>1
  <2>3. Tells(V, lengths, reads, <<>>, {})
    BY TellsNone
  <2> QED
    BY <2>1, <2>2, <2>3
<1>2. CASE x # <<>>
  <2>1. PICK g : Joins(Token(V), x, n, g) /\ FlattenSeq(x) = g[n]
    BY <1>0, <1>2, FlattenJoins
  <2>2. n > 0
    BY <1>0, <1>2
  <2> DEFINE U(m) == UNION {P[i] : i \in 1..m}
             K == {m \in Nat : m < n => Tells(V, lengths, reads, g[m + 1], U(m + 1))}
  <2>3. 0 \in K
    <3>1. 1 \in 1..n /\ 1..1 = {1} /\ 0 + 1 = 1
      BY <2>2
    <3>2. U(1) = P[1]
      BY <3>1
    <3>3. g[1] = x[1]
      BY <2>1 DEF Joins
    <3>4. Tells(V, lengths, reads, x[1], P[1])
      BY <1>0, <3>1
    <3> HIDE DEF U
    <3> QED
      BY <3>1, <3>2, <3>3, <3>4
  <2>4. ASSUME NEW m \in 0..n, m \in K, m < n PROVE m + 1 \in K
    <3>1. ASSUME m + 1 < n PROVE Tells(V, lengths, reads, g[(m + 1) + 1], U((m + 1) + 1))
      <4>1. PICK l \in 2..n : l = (m + 1) + 1 /\ l - 1 = m + 1
        BY <3>1
      <4>2. g[l] = g[m + 1] \o x[l]
        BY <2>1, <4>1 DEF Joins
      <4>3. U(l) = U(m + 1) \union P[l]
        <5>1. 1..l = (1..(m + 1)) \union {l}
          BY <4>1
        <5>2. \A y : y \in U(l) <=> y \in U(m + 1) \/ y \in P[l]
          BY ONLY <5>1
        <5> HIDE DEF U
        <5> QED
          BY ONLY <5>2
      <4>4. U(m + 1) \cap P[l] = {}
        <5>1. ASSUME NEW i \in 1..(m + 1) PROVE P[i] \cap P[l] = {}
          <6>1. i \in 1..n /\ l \in 1..n /\ i # l
            BY <4>1
          <6> QED
            BY <1>0, <6>1
        <5> QED
          BY <5>1
      <4>5. Tells(V, lengths, reads, g[m + 1], U(m + 1))
        BY <2>4
      <4>6. Tells(V, lengths, reads, x[l], P[l])
        BY <1>0, <4>1
      <4> HIDE DEF U
      <4>7. Tells(V, lengths, reads, g[m + 1] \o x[l], U(m + 1) \union P[l])
        BY <4>4, <4>5, <4>6, TellsConcat
      <4> QED
        BY <4>1, <4>2, <4>3, <4>7
    <3> QED
      BY <2>4, <3>1
  <2> HIDE DEF K
  <2>5. 0..n \subseteq K
    BY <2>3, <2>4, StepByStep
  <2>6. n - 1 \in 0..n /\ n - 1 < n /\ (n - 1) + 1 = n
    BY <2>2
  <2>7. n - 1 \in K
    BY <2>5, <2>6
  <2>8. Tells(V, lengths, reads, g[n], U(n))
    BY <2>6, <2>7 DEF K
  <2>9. U(n) = ps
    BY <1>0
  <2> HIDE DEF U
  <2> QED
    BY <2>1, <2>8, <2>9
<1> QED
  BY <1>1, <1>2

-----------------------------------------------------------------------------
(* Properties written in their order are read back.                        *)

\* A finite set can be put in a sequence that has every element, and each
\* once.
LEMMA SetToSeqIsOnto ==
  ASSUME NEW S, IsFiniteSet(S)
  PROVE  /\ SetToSeq(S) \in Seq(S)
         /\ \A i, j \in DOMAIN SetToSeq(S) : SetToSeq(S)[i] = SetToSeq(S)[j] => i = j
         /\ \A v \in S : \E i \in DOMAIN SetToSeq(S) : SetToSeq(S)[i] = v
<1>1. PICK n \in Nat : n = Cardinality(S) /\ ExistsBijection(1..n, S)
  BY FS_CardinalityType
<1>2. PICK f \in [1..n -> S] : IsInjective(f)
  BY <1>1 DEF ExistsBijection, Bijection, Injection
<1>3. PICK g : g = SetToSeq(S)
  OBVIOUS
<1>4. g \in [1..n -> S] /\ IsInjective(g)
  <2>1. g = CHOOSE h \in [1..n -> S] : IsInjective(h)
    BY <1>1, <1>3 DEF SetToSeq
  <2> QED
    BY <1>2, <2>1
<1>5. g \in Injection(1..n, S)
  BY <1>4 DEF Injection
<1>6. Cardinality(1..n) = n
  <2>1. 1 \in Int /\ n \in Int
    OBVIOUS
  <2>2. Cardinality(1..n) = IF 1 > n THEN 0 ELSE n - 1 + 1
    BY <2>1, FS_Interval
  <2> QED
    BY <2>2
<1>7. g \in Surjection(1..n, S)
  BY <1>1, <1>5, <1>6, FS_Injection
<1>8. \A v \in S : \E i \in 1..n : g[i] = v
  BY <1>7 DEF Surjection
<1>9. DOMAIN g = 1..n /\ g \in Seq(S)
  BY <1>4
<1>10. \A i, j \in 1..n : g[i] = g[j] => i = j
  BY <1>4 DEF IsInjective
<1> QED
  BY <1>3, <1>8, <1>9, <1>10

\* The properties of one name.
WrittenAs(name, kind, S) ==
  LET values == SetToSeq(S)
  IN FlattenSeq([j \in DOMAIN values |-> <<<<"id", name>>, <<kind, values[j]>>>>])

\* All the values of one property, written one after the other.
LEMMA TellsWrittenAs ==
  ASSUME NEW V, NEW lengths, NEW reads, NEW name \in Names, name \in DOMAIN reads,
         NEW kind \in Kinds, lengths[name] = kind, reads[name] = kind,
         NEW S, IsFiniteSet(S), \A v \in S : CountedRight(kind, v)
  PROVE  Tells(V, lengths, reads, WrittenAs(name, kind, S), {<<name, v>> : v \in S})
<1>1. PICK values : values = SetToSeq(S)
  OBVIOUS
<1>2. /\ values \in Seq(S)
      /\ \A i, j \in DOMAIN values : values[i] = values[j] => i = j
      /\ \A v \in S : \E i \in DOMAIN values : values[i] = v
  BY <1>1, SetToSeqIsOnto
<1>3. PICK n \in Nat : n = Len(values) /\ DOMAIN values = 1..n
  BY <1>2
<1>4. \A i \in 1..n : values[i] \in S
  BY <1>2, <1>3, ElementOfSeq
<1>5. PICK x, P : /\ x = [j \in 1..n |-> <<<<"id", name>>, <<kind, values[j]>>>>]
                  /\ P = [j \in 1..n |-> {<<name, values[j]>>}]
  OBVIOUS
<1>6. ASSUME NEW i \in 1..n PROVE Tells(V, lengths, reads, x[i], P[i])
  <2>1. CountedRight(kind, values[i])
    BY <1>4
  <2>2. Tells(V, lengths, reads, <<<<"id", name>>, <<kind, values[i]>>>>, {<<name, values[i]>>})
    BY <2>1, TellsOne
  <2> QED
    BY <1>5, <2>2
<1>7. x \in Seq(Seq(Token(V))) /\ Len(x) = n
  <2>1. \A i \in 1..n : x[i] \in Seq(Token(V))
    BY <1>6 DEF Tells
  <2>2. x \in [1..n -> Seq(Token(V))]
    BY <1>5, <2>1
  <2> QED
    BY <2>2
<1>8. ASSUME NEW i \in 1..n, NEW j \in 1..n, i # j PROVE P[i] \cap P[j] = {}
  <2>1. values[i] # values[j]
    BY <1>2, <1>3, <1>8
  <2>2. P[i] = {<<name, values[i]>>} /\ P[j] = {<<name, values[j]>>}
    BY <1>5
  <2> QED
    BY <2>1, <2>2
<1>9. PICK qs : qs = {<<name, v>> : v \in S}
  OBVIOUS
<1>10. \A p : p \in qs <=> \E i \in 1..n : p \in P[i]
  <2>1. ASSUME NEW i \in 1..n PROVE P[i] \subseteq qs
    BY <1>4, <1>5, <1>9
  <2>2. ASSUME NEW v \in S PROVE \E i \in 1..n : <<name, v>> \in P[i]
    <3>1. PICK i \in 1..n : values[i] = v
      BY <1>2, <1>3
    <3> QED
      BY <1>5, <3>1
  <2> QED
    BY <1>9, <2>1, <2>2
<1>11. WrittenAs(name, kind, S) = FlattenSeq(x)
  BY <1>1, <1>3, <1>5 DEF WrittenAs
<1>12. /\ x \in Seq(Seq(Token(V)))
       /\ \A i \in 1..Len(x) : Tells(V, lengths, reads, x[i], P[i])
       /\ \A i \in 1..Len(x), j \in 1..Len(x) : i # j => P[i] \cap P[j] = {}
       /\ \A p : p \in qs <=> \E i \in 1..Len(x) : p \in P[i]
  BY <1>6, <1>7, <1>8, <1>10
<1>13. Tells(V, lengths, reads, FlattenSeq(x), qs)
  BY ONLY <1>12, TellsFlatten
<1> QED
  BY <1>9, <1>11, <1>13

\* The three tables of a packet's properties agree.
TablesAgree(lengths, writes, reads) ==
  /\ DOMAIN writes = 1..Len(writes) /\ Len(writes) \in Nat
  /\ \A i \in 1..Len(writes) : /\ writes[i][1] \in Names /\ writes[i][2] \in Kinds
                               /\ writes[i][1] \in DOMAIN reads
                               /\ lengths[writes[i][1]] = writes[i][2]
                               /\ reads[writes[i][1]] = writes[i][2]
  /\ \A i, j \in 1..Len(writes) : writes[i][1] = writes[j][1] => i = j
  /\ \A name \in DOMAIN lengths : \E i \in 1..Len(writes) : writes[i][1] = name

\* Properties whose values are counted right.
Countable(lengths, ps) ==
  /\ IsFiniteSet(ps) /\ ps \subseteq (DOMAIN lengths) \X Nat
  /\ \A p \in ps : CountedRight(lengths[p[1]], p[2])

\* What encode writes for a set of properties is as long as bytes_length says
\* and is read as that set, if the three tables agree.
LEMMA TellsWritten ==
  ASSUME NEW V, NEW lengths, NEW writes, NEW reads, NEW ps,
         TablesAgree(lengths, writes, reads), Countable(lengths, ps)
  PROVE  Tells(V, lengths, reads, Written(writes, ps), ps)
<1> DEFINE Of(i) == {q \in ps : q[1] = writes[i][1]}
           S(i) == {p[2] : p \in Of(i)}
<1>1. PICK n \in Nat : n = Len(writes) /\ DOMAIN writes = 1..n
  BY DEF TablesAgree
<1>2. PICK x, P : /\ x = [i \in 1..n |-> WrittenAs(writes[i][1], writes[i][2], S(i))]
                  /\ P = [i \in 1..n |-> Of(i)]
  OBVIOUS
<1>3. Written(writes, ps) = FlattenSeq(x)
  BY <1>1, <1>2 DEF Written, WrittenAs
<1>4. ASSUME NEW i \in 1..n PROVE Tells(V, lengths, reads, x[i], P[i])
  <2>1. PICK name, kind : name = writes[i][1] /\ kind = writes[i][2]
    OBVIOUS
  <2>2. /\ name \in Names /\ kind \in Kinds /\ name \in DOMAIN reads
        /\ lengths[name] = kind /\ reads[name] = kind
    BY <1>1, <2>1 DEF TablesAgree
  <2>3. PICK vs : vs = S(i)
    OBVIOUS
  <2>4. \A p \in ps : p = <<p[1], p[2]>>
    BY DEF Countable
  <2>5. Of(i) = {<<name, v>> : v \in vs}
    BY <2>1, <2>3, <2>4
  <2>6. \A v \in vs : CountedRight(kind, v)
    BY <2>1, <2>2, <2>3 DEF Countable
  <2>7. IsFiniteSet(vs)
    <3>1. IsFiniteSet(ps) /\ Of(i) \in SUBSET ps
      BY DEF Countable
    <3>2. IsFiniteSet(Of(i))
      BY <3>1, FS_Subset
    <3> DEFINE f == [p \in Of(i) |-> p[2]]
    <3>3. f \in Surjection(Of(i), vs)
      BY <2>3 DEF Surjection
    <3> QED
      BY <3>2, <3>3, FS_Surjection
  <2> HIDE DEF Of, S
  <2>8. Tells(V, lengths, reads, WrittenAs(name, kind, vs), {<<name, v>> : v \in vs})
    BY <2>2, <2>6, <2>7, TellsWrittenAs
  <2> QED
    BY <1>2, <2>1, <2>3, <2>5, <2>8
<1>5. x \in Seq(Seq(Token(V))) /\ Len(x) = n
  <2>1. \A i \in 1..n : x[i] \in Seq(Token(V))
    BY <1>4 DEF Tells
  <2>2. x \in [1..n -> Seq(Token(V))]
    BY <1>2, <2>1
  <2> QED
    BY <2>2
<1>6. ASSUME NEW i \in 1..n, NEW j \in 1..n, i # j PROVE P[i] \cap P[j] = {}
  <2>1. writes[i][1] # writes[j][1]
    BY <1>1, <1>6 DEF TablesAgree
  <2>2. P[i] = Of(i) /\ P[j] = Of(j)
    BY <1>2
  <2> QED
    BY <2>1, <2>2
<1>8. \A p : p \in ps <=> \E i \in 1..n : p \in P[i]
  <2>1. ASSUME NEW i \in 1..n PROVE P[i] \subseteq ps
    BY <1>2
  <2>2. ASSUME NEW p \in ps PROVE \E i \in 1..n : p \in P[i]
    <3>1. p[1] \in DOMAIN lengths
      BY DEF Countable
    <3>2. PICK i \in 1..n : writes[i][1] = p[1]
      BY <1>1, <3>1 DEF TablesAgree
    <3>3. p \in Of(i)
      BY <3>2
    <3> QED
      BY <1>2, <3>3
  <2> QED
    BY <2>1, <2>2
<1>9. /\ x \in Seq(Seq(Token(V)))
      /\ \A i \in 1..Len(x) : Tells(V, lengths, reads, x[i], P[i])
      /\ \A i \in 1..Len(x), j \in 1..Len(x) : i # j => P[i] \cap P[j] = {}
      /\ \A p : p \in ps <=> \E i \in 1..Len(x) : p \in P[i]
  BY <1>4, <1>5, <1>6, <1>8
<1>10. Tells(V, lengths, reads, FlattenSeq(x), ps)
  BY ONLY <1>9, TellsFlatten
<1> QED
  BY <1>3, <1>10

\* A length, what it is the length of, and the rest.
Parts(t, w, r, ts) == ts = <<t>> \o (w \o r)
Peels(t, w, r, ts) ==
  /\ 1 \in DOMAIN ts /\ ts[1] = t /\ Tail(ts) = w \o r
  /\ SubSeq(ts, 2, Len(w) + 1) = w /\ From(ts, Len(w) + 2) = r

\* A token, what is split off behind it and the rest can be taken apart
\* again.
LEMMA ThreeParts ==
  ASSUME NEW S, NEW t \in S, NEW w \in Seq(S), NEW r \in Seq(S), NEW ts, Parts(t, w, r, ts)
  PROVE  ts \in Seq(S) /\ Peels(t, w, r, ts)
<1>1. PICK m \in Nat, n \in Nat : m = Len(w) /\ n = Len(r)
  OBVIOUS
<1>2. PICK u : u = w \o r
  OBVIOUS
<1>3. /\ u \in Seq(S) /\ Len(u) = m + n
      /\ \A i \in 1..(m + n) : u[i] = IF i <= m THEN w[i] ELSE r[i - m]
  BY <1>1, <1>2, ConcatProperties
<1>4. <<t>> \in Seq(S) /\ Len(<<t>>) = 1 /\ <<t>>[1] = t
  OBVIOUS
<1>5. /\ ts \in Seq(S) /\ Len(ts) = 1 + (m + n)
      /\ \A i \in 1..(1 + (m + n)) : ts[i] = IF i <= 1 THEN <<t>>[i] ELSE u[i - 1]
  <2>1. ts = <<t>> \o u
    BY <1>2 DEF Parts
  <2> QED
    BY <1>3, <1>4, <2>1, ConcatProperties
<1>6. ts[1] = t /\ 1 \in DOMAIN ts
  BY <1>4, <1>5
<1>7. \A i \in 1..(m + n) : ts[i + 1] = u[i]
  BY <1>5
<1>8. Tail(ts) = u
  <2>1. ts # <<>>
    BY <1>5
  <2>2. Tail(ts) \in Seq(S) /\ Len(Tail(ts)) = m + n /\ \A i \in 1..(m + n) : Tail(ts)[i] = ts[i + 1]
    BY <1>5, <2>1, HeadTailProperties
  <2> QED
    BY <1>3, <1>7, <2>2, SeqEqual
<1>9. SubSeq(ts, 2, m + 1) = w
  <2>1. /\ SubSeq(ts, 2, m + 1) \in Seq(S) /\ Len(SubSeq(ts, 2, m + 1)) = m
        /\ \A i \in 1..m : SubSeq(ts, 2, m + 1)[i] = ts[i + 1]
    BY <1>5
  <2>2. \A i \in 1..m : ts[i + 1] = w[i]
    BY <1>3, <1>7
  <2> QED
    BY <1>1, <2>1, <2>2, SeqEqual
<1>10. SubSeq(ts, m + 2, 1 + (m + n)) = r
  <2>1. /\ SubSeq(ts, m + 2, 1 + (m + n)) \in Seq(S) /\ Len(SubSeq(ts, m + 2, 1 + (m + n))) = n
        /\ \A i \in 1..n : SubSeq(ts, m + 2, 1 + (m + n))[i] = ts[i + (m + 1)]
    BY <1>5
  <2>2. ASSUME NEW i \in 1..n PROVE ts[i + (m + 1)] = r[i]
    <3>1. i + m \in 1..(m + n) /\ (i + m) + 1 = i + (m + 1) /\ ~(i + m <= m) /\ (i + m) - m = i
      OBVIOUS
    <3> QED
      BY <1>3, <1>7, <3>1
  <2> QED
    BY <1>1, <2>1, <2>2, SeqEqual
<1>11. From(ts, m + 2) = r
  BY <1>5, <1>10 DEF From
<1>12. Tail(ts) = w \o r
  BY <1>2, <1>8
<1>13. SubSeq(ts, 2, Len(w) + 1) = w /\ From(ts, Len(w) + 2) = r
  BY <1>1, <1>9, <1>11
<1> QED
  BY <1>5, <1>6, <1>12, <1>13 DEF Peels

\* Properties that are counted right, and whose length is written in as many
\* bytes as are counted for it.
Fits(lengths, ps) ==
  Countable(lengths, ps) /\ BytesLength(lengths, ps) \notin {16383, 2097151}

SplitOk(level, ps, r) == [ok |-> TRUE, properties |-> IF level = V4 THEN {} ELSE ps, rest |-> r]
SplitsOff(level, reads, ps, w, r) == Split(level, reads, w \o r) = SplitOk(level, ps, r)

\* Properties behind their length are as long as counted, and are split off.
LEMMA WithLengthIsSplit ==
  ASSUME NEW V, NEW lengths, NEW writes, NEW reads, NEW ps,
         TablesAgree(lengths, writes, reads),
         NEW level \in {V4, V5}, level = V5 => Fits(lengths, ps), NEW r \in Seq(Token(V))
  PROVE  /\ WithLength(level, lengths, writes, ps) \in Seq(Token(V))
         /\ Size(WithLength(level, lengths, writes, ps)) = WithLengthSize(level, lengths, ps)
         /\ WithLengthSize(level, lengths, ps) \in Nat
         /\ SplitsOff(level, reads, ps, WithLength(level, lengths, writes, ps), r)
<1>1. CASE level = V4
  <2>1. WithLength(level, lengths, writes, ps) = <<>> /\ WithLengthSize(level, lengths, ps) = 0
    BY <1>1 DEF WithLength, WithLengthSize
  <2>2. <<>> \o r = r /\ <<>> \in Seq(Token(V))
    BY ConcatEmptySeq
  <2>3. Split(level, reads, r) = SplitOk(level, ps, r)
    BY <1>1 DEF Split, SplitOk
  <2> QED
    BY <2>1, <2>2, <2>3, SizeOfNone DEF SplitsOff
<1>2. CASE level = V5
  <2>0. level # V4
    BY <1>2 DEF V4, V5
  <2>1. PICK w, n, t : w = Written(writes, ps) /\ n = BytesLength(lengths, ps) /\ t = <<"len", n>>
    OBVIOUS
  <2>2. Tells(V, lengths, reads, w, ps)
    BY <1>2, <2>1, TellsWritten DEF Fits
  <2>3. w \in Seq(Token(V)) /\ Size(w) = n /\ Readable(reads, w) /\ ReadIn(w) = ps
    BY <2>1, <2>2 DEF Tells
  <2>4. n \in Nat
    BY <2>3, SizeOfSome, SizeOfNone
  <2>5. t \in Token(V) /\ TokenSize(t) = RemainingLengthSize(n)
    BY <2>1, <2>4 DEF Token, TokenSize
  <2>6. RemainingLengthSize(n) = LengthCount(n) /\ RemainingLengthSize(n) \in Nat
    <3>1. n \notin {16383, 2097151}
      BY <1>2, <2>1 DEF Fits
    <3>2. TokenSize(t) \in Nat
      BY <2>5, TokenSizePositive
    <3> QED
      BY <2>4, <2>5, <3>1, <3>2, LengthCountAgrees
  <2>7. WithLength(level, lengths, writes, ps) = <<t>> \o w
    BY <2>0, <2>1 DEF WithLength
  <2>8. WithLengthSize(level, lengths, ps) = RemainingLengthSize(n) + n
    BY <2>0, <2>1, <2>6 DEF WithLengthSize
  <2>9. <<t>> \o w \in Seq(Token(V)) /\ Size(<<t>> \o w) = TokenSize(t) + Size(w)
    BY <2>3, <2>5, FirstToken
  <2>10. Split(level, reads, (<<t>> \o w) \o r) = SplitOk(level, ps, r)
    <3>1. <<t>> \in Seq(Token(V))
      BY <2>5
    <3>2. PICK ts : ts = (<<t>> \o w) \o r
      OBVIOUS
    <3>3. Parts(t, w, r, ts)
      BY <2>3, <3>1, <3>2, ConcatAssociative DEF Parts
    <3>4. /\ 1 \in DOMAIN ts /\ ts[1] = t /\ Tail(ts) = w \o r
          /\ SubSeq(ts, 2, Len(w) + 1) = w /\ From(ts, Len(w) + 2) = r
      <4>1. Peels(t, w, r, ts)
        BY <2>3, <2>5, <3>3, ThreeParts
      <4> QED
        BY <4>1 DEF Peels
    <3>5. TokensIn(Tail(ts), n) = Len(w)
      BY <2>3, <3>4, TokensOfConcat
    <3>6. Len(w) # None
      BY <2>3, NoneAssumption
    <3>7. At(ts, 1, "len") /\ ts[1][2] = n
      BY <2>1, <3>4 DEF At
    <3>8. Split(level, reads, ts) = [ok |-> TRUE, properties |-> ps, rest |-> r]
      BY <2>0, <2>3, <3>4, <3>5, <3>6, <3>7 DEF Split
    <3> QED
      BY <2>0, <3>2, <3>8 DEF SplitOk
  <2> QED
    BY <2>3, <2>4, <2>5, <2>6, <2>7, <2>8, <2>9, <2>10 DEF SplitsOff
<1> QED
  BY <1>1, <1>2

-----------------------------------------------------------------------------
(* The tables of every packet agree.                                       *)

\* PUBACK and the other acknowledgements: bytes_length, encode and decode of
\* their properties agree on every name and kind.
LEMMA AckTablesAgree == TablesAgree(AckLengths, AckWrites, AckReads)
<1>1. Len(AckWrites) = 2 /\ DOMAIN AckWrites = 1..2
  BY DEF AckWrites
<1>2. ASSUME NEW i \in 1..2
      PROVE  /\ AckWrites[i][2] \in Kinds
             /\ AckWrites[i][1] \in DOMAIN AckReads
             /\ AckLengths[AckWrites[i][1]] = AckWrites[i][2]
             /\ AckReads[AckWrites[i][1]] = AckWrites[i][2]
  BY DEF AckLengths, AckWrites, AckReads, Kinds
<1>3. ASSUME NEW i \in 1..2, NEW j \in 1..2, AckWrites[i][1] = AckWrites[j][1] PROVE i = j
  BY <1>3 DEF AckWrites
<1>4. ASSUME NEW name \in DOMAIN AckLengths PROVE \E i \in 1..2 : AckWrites[i][1] = name
  BY DEF AckLengths, AckWrites
<1>5. DOMAIN AckReads \subseteq Names
  BY DEF Names
<1> QED
  BY <1>1, <1>2, <1>3, <1>4, <1>5 DEF TablesAgree

\* The same for DisconnectProperties.
LEMMA DisconnectTablesAgree == TablesAgree(DisconnectLengths, DisconnectWrites, DisconnectReads)
<1>1. Len(DisconnectWrites) = 4 /\ DOMAIN DisconnectWrites = 1..4
  BY DEF DisconnectWrites
<1>2. ASSUME NEW i \in 1..4
      PROVE  /\ DisconnectWrites[i][2] \in Kinds
             /\ DisconnectWrites[i][1] \in DOMAIN DisconnectReads
             /\ DisconnectLengths[DisconnectWrites[i][1]] = DisconnectWrites[i][2]
             /\ DisconnectReads[DisconnectWrites[i][1]] = DisconnectWrites[i][2]
  BY DEF DisconnectLengths, DisconnectWrites, DisconnectReads, Kinds
<1>3. ASSUME NEW i \in 1..4, NEW j \in 1..4, DisconnectWrites[i][1] = DisconnectWrites[j][1] PROVE i = j
  BY <1>3 DEF DisconnectWrites
<1>4. ASSUME NEW name \in DOMAIN DisconnectLengths PROVE \E i \in 1..4 : DisconnectWrites[i][1] = name
  BY DEF DisconnectLengths, DisconnectWrites
<1>5. DOMAIN DisconnectReads \subseteq Names
  BY DEF Names
<1> QED
  BY <1>1, <1>2, <1>3, <1>4, <1>5 DEF TablesAgree

\* The same for SubscribeProperties.
LEMMA SubscribeTablesAgree == TablesAgree(SubscribeLengths, SubscribeWrites, SubscribeReads)
<1>1. Len(SubscribeWrites) = 2 /\ DOMAIN SubscribeWrites = 1..2
  BY DEF SubscribeWrites
<1>2. ASSUME NEW i \in 1..2
      PROVE  /\ SubscribeWrites[i][2] \in Kinds
             /\ SubscribeWrites[i][1] \in DOMAIN SubscribeReads
             /\ SubscribeLengths[SubscribeWrites[i][1]] = SubscribeWrites[i][2]
             /\ SubscribeReads[SubscribeWrites[i][1]] = SubscribeWrites[i][2]
  BY DEF SubscribeLengths, SubscribeWrites, SubscribeReads, Kinds
<1>3. ASSUME NEW i \in 1..2, NEW j \in 1..2, SubscribeWrites[i][1] = SubscribeWrites[j][1] PROVE i = j
  BY <1>3 DEF SubscribeWrites
<1>4. ASSUME NEW name \in DOMAIN SubscribeLengths PROVE \E i \in 1..2 : SubscribeWrites[i][1] = name
  BY DEF SubscribeLengths, SubscribeWrites
<1>5. DOMAIN SubscribeReads \subseteq Names
  BY DEF Names
<1> QED
  BY <1>1, <1>2, <1>3, <1>4, <1>5 DEF TablesAgree

\* The same for SubAckProperties.
LEMMA SubAckTablesAgree == TablesAgree(SubAckLengths, SubAckWrites, SubAckReads)
<1>1. Len(SubAckWrites) = 2 /\ DOMAIN SubAckWrites = 1..2
  BY DEF SubAckWrites
<1>2. ASSUME NEW i \in 1..2
      PROVE  /\ SubAckWrites[i][2] \in Kinds
             /\ SubAckWrites[i][1] \in DOMAIN SubAckReads
             /\ SubAckLengths[SubAckWrites[i][1]] = SubAckWrites[i][2]
             /\ SubAckReads[SubAckWrites[i][1]] = SubAckWrites[i][2]
  BY DEF SubAckLengths, SubAckWrites, SubAckReads, Kinds
<1>3. ASSUME NEW i \in 1..2, NEW j \in 1..2, SubAckWrites[i][1] = SubAckWrites[j][1] PROVE i = j
  BY <1>3 DEF SubAckWrites
<1>4. ASSUME NEW name \in DOMAIN SubAckLengths PROVE \E i \in 1..2 : SubAckWrites[i][1] = name
  BY DEF SubAckLengths, SubAckWrites
<1>5. DOMAIN SubAckReads \subseteq Names
  BY DEF Names
<1> QED
  BY <1>1, <1>2, <1>3, <1>4, <1>5 DEF TablesAgree

\* The same for UnsubscribeProperties.
LEMMA UnsubscribeTablesAgree == TablesAgree(UnsubscribeLengths, UnsubscribeWrites, UnsubscribeReads)
<1>1. Len(UnsubscribeWrites) = 1 /\ DOMAIN UnsubscribeWrites = 1..1
  BY DEF UnsubscribeWrites
<1>2. ASSUME NEW i \in 1..1
      PROVE  /\ UnsubscribeWrites[i][2] \in Kinds
             /\ UnsubscribeWrites[i][1] \in DOMAIN UnsubscribeReads
             /\ UnsubscribeLengths[UnsubscribeWrites[i][1]] = UnsubscribeWrites[i][2]
             /\ UnsubscribeReads[UnsubscribeWrites[i][1]] = UnsubscribeWrites[i][2]
  BY DEF UnsubscribeLengths, UnsubscribeWrites, UnsubscribeReads, Kinds
<1>3. ASSUME NEW i \in 1..1, NEW j \in 1..1, UnsubscribeWrites[i][1] = UnsubscribeWrites[j][1] PROVE i = j
  BY <1>3 DEF UnsubscribeWrites
<1>4. ASSUME NEW name \in DOMAIN UnsubscribeLengths PROVE \E i \in 1..1 : UnsubscribeWrites[i][1] = name
  BY DEF UnsubscribeLengths, UnsubscribeWrites
<1>5. DOMAIN UnsubscribeReads \subseteq Names
  BY DEF Names
<1> QED
  BY <1>1, <1>2, <1>3, <1>4, <1>5 DEF TablesAgree

\* The same for UnsubAckProperties.
LEMMA UnsubAckTablesAgree == TablesAgree(UnsubAckLengths, UnsubAckWrites, UnsubAckReads)
<1>1. Len(UnsubAckWrites) = 2 /\ DOMAIN UnsubAckWrites = 1..2
  BY DEF UnsubAckWrites
<1>2. ASSUME NEW i \in 1..2
      PROVE  /\ UnsubAckWrites[i][2] \in Kinds
             /\ UnsubAckWrites[i][1] \in DOMAIN UnsubAckReads
             /\ UnsubAckLengths[UnsubAckWrites[i][1]] = UnsubAckWrites[i][2]
             /\ UnsubAckReads[UnsubAckWrites[i][1]] = UnsubAckWrites[i][2]
  BY DEF UnsubAckLengths, UnsubAckWrites, UnsubAckReads, Kinds
<1>3. ASSUME NEW i \in 1..2, NEW j \in 1..2, UnsubAckWrites[i][1] = UnsubAckWrites[j][1] PROVE i = j
  BY <1>3 DEF UnsubAckWrites
<1>4. ASSUME NEW name \in DOMAIN UnsubAckLengths PROVE \E i \in 1..2 : UnsubAckWrites[i][1] = name
  BY DEF UnsubAckLengths, UnsubAckWrites
<1>5. DOMAIN UnsubAckReads \subseteq Names
  BY DEF Names
<1> QED
  BY <1>1, <1>2, <1>3, <1>4, <1>5 DEF TablesAgree

\* The same for PublishProperties.
LEMMA PublishTablesAgree == TablesAgree(PublishLengths, PublishWrites, PublishReads)
<1>1. Len(PublishWrites) = 8 /\ DOMAIN PublishWrites = 1..8
  BY DEF PublishWrites
<1>2. ASSUME NEW i \in 1..8
      PROVE  /\ PublishWrites[i][2] \in Kinds
             /\ PublishWrites[i][1] \in DOMAIN PublishReads
             /\ PublishLengths[PublishWrites[i][1]] = PublishWrites[i][2]
             /\ PublishReads[PublishWrites[i][1]] = PublishWrites[i][2]
  BY DEF PublishLengths, PublishWrites, PublishReads, Kinds
<1>3. ASSUME NEW i \in 1..8, NEW j \in 1..8, PublishWrites[i][1] = PublishWrites[j][1] PROVE i = j
  BY <1>3 DEF PublishWrites
<1>4. ASSUME NEW name \in DOMAIN PublishLengths PROVE \E i \in 1..8 : PublishWrites[i][1] = name
  BY DEF PublishLengths, PublishWrites
<1>5. DOMAIN PublishReads \subseteq Names
  BY DEF Names
<1> QED
  BY <1>1, <1>2, <1>3, <1>4, <1>5 DEF TablesAgree

\* The same for ConnAckProperties.
LEMMA ConnAckTablesAgree == TablesAgree(ConnAckLengths, ConnAckWrites, ConnAckReads)
<1>1. Len(ConnAckWrites) = 17 /\ DOMAIN ConnAckWrites = 1..17
  BY DEF ConnAckWrites
<1>2. ASSUME NEW i \in 1..17
      PROVE  /\ ConnAckWrites[i][2] \in Kinds
             /\ ConnAckWrites[i][1] \in DOMAIN ConnAckReads
             /\ ConnAckLengths[ConnAckWrites[i][1]] = ConnAckWrites[i][2]
             /\ ConnAckReads[ConnAckWrites[i][1]] = ConnAckWrites[i][2]
  BY DEF ConnAckLengths, ConnAckWrites, ConnAckReads, Kinds
<1>3. ASSUME NEW i \in 1..17, NEW j \in 1..17, ConnAckWrites[i][1] = ConnAckWrites[j][1] PROVE i = j
  BY <1>3 DEF ConnAckWrites
<1>4. ASSUME NEW name \in DOMAIN ConnAckLengths PROVE \E i \in 1..17 : ConnAckWrites[i][1] = name
  BY DEF ConnAckLengths, ConnAckWrites
<1>5. DOMAIN ConnAckReads \subseteq Names
  BY DEF Names
<1> QED
  BY <1>1, <1>2, <1>3, <1>4, <1>5 DEF TablesAgree

\* The same for ConnectProperties.
LEMMA ConnectTablesAgree == TablesAgree(ConnectLengths, ConnectWrites, ConnectReads)
<1>1. Len(ConnectWrites) = 9 /\ DOMAIN ConnectWrites = 1..9
  BY DEF ConnectWrites
<1>2. ASSUME NEW i \in 1..9
      PROVE  /\ ConnectWrites[i][2] \in Kinds
             /\ ConnectWrites[i][1] \in DOMAIN ConnectReads
             /\ ConnectLengths[ConnectWrites[i][1]] = ConnectWrites[i][2]
             /\ ConnectReads[ConnectWrites[i][1]] = ConnectWrites[i][2]
  BY DEF ConnectLengths, ConnectWrites, ConnectReads, Kinds
<1>3. ASSUME NEW i \in 1..9, NEW j \in 1..9, ConnectWrites[i][1] = ConnectWrites[j][1] PROVE i = j
  BY <1>3 DEF ConnectWrites
<1>4. ASSUME NEW name \in DOMAIN ConnectLengths PROVE \E i \in 1..9 : ConnectWrites[i][1] = name
  BY DEF ConnectLengths, ConnectWrites
<1>5. DOMAIN ConnectReads \subseteq Names
  BY DEF Names
<1> QED
  BY <1>1, <1>2, <1>3, <1>4, <1>5 DEF TablesAgree

\* The same for WillProperties.
LEMMA WillTablesAgree == TablesAgree(WillLengths, WillWrites, WillReads)
<1>1. Len(WillWrites) = 7 /\ DOMAIN WillWrites = 1..7
  BY DEF WillWrites
<1>2. ASSUME NEW i \in 1..7
      PROVE  /\ WillWrites[i][2] \in Kinds
             /\ WillWrites[i][1] \in DOMAIN WillReads
             /\ WillLengths[WillWrites[i][1]] = WillWrites[i][2]
             /\ WillReads[WillWrites[i][1]] = WillWrites[i][2]
  BY DEF WillLengths, WillWrites, WillReads, Kinds
<1>3. ASSUME NEW i \in 1..7, NEW j \in 1..7, WillWrites[i][1] = WillWrites[j][1] PROVE i = j
  BY <1>3 DEF WillWrites
<1>4. ASSUME NEW name \in DOMAIN WillLengths PROVE \E i \in 1..7 : WillWrites[i][1] = name
  BY DEF WillLengths, WillWrites
<1>5. DOMAIN WillReads \subseteq Names
  BY DEF Names
<1> QED
  BY <1>1, <1>2, <1>3, <1>4, <1>5 DEF TablesAgree

-----------------------------------------------------------------------------
(* How the body of a packet is laid out: tokens before its properties, the *)
(* properties behind their length, tokens after them.                      *)

\* Two tokens are as long as both.
LEMMA SizeOfTwo ==
  ASSUME NEW V, NEW a \in Token(V), NEW b \in Token(V)
  PROVE  <<a, b>> \in Seq(Token(V)) /\ Size(<<a, b>>) = TokenSize(a) + TokenSize(b)
<1>1. <<b>> \in Seq(Token(V)) /\ <<a, b>> \in Seq(Token(V))
  OBVIOUS
<1>2. Size(<<b>>) = TokenSize(b)
  BY SizeOfOne
<1>3. <<a, b>> = <<a>> \o <<b>>
  BY PairIsConcat
<1>4. Size(<<a>> \o <<b>>) = TokenSize(a) + Size(<<b>>)
  BY <1>1, FirstToken
<1> QED
  BY <1>1, <1>2, <1>3, <1>4

\* What follows the first token begins at the second.
LEMMA TailIsFrom ==
  ASSUME NEW S, NEW ts \in Seq(S), ts # <<>>
  PROVE  Tail(ts) = From(ts, 2)
<1>1. /\ Tail(ts) \in Seq(S) /\ Len(Tail(ts)) = Len(ts) - 1
      /\ \A i \in 1..(Len(ts) - 1) : Tail(ts)[i] = ts[i + 1]
  BY HeadTailProperties
<1>2. PICK n \in Nat : n = Len(ts) /\ n >= 1
  OBVIOUS
<1>3. /\ From(ts, 2) \in Seq(S) /\ Len(From(ts, 2)) = n - 1
      /\ \A i \in 1..(n - 1) : From(ts, 2)[i] = ts[i + 1]
  <2>1. /\ SubSeq(ts, 2, n) \in Seq(S) /\ Len(SubSeq(ts, 2, n)) = n - 1
        /\ \A i \in 1..(n - 1) : SubSeq(ts, 2, n)[i] = ts[i + 1]
    BY <1>2
  <2> QED
    BY <1>2, <2>1 DEF From
<1> QED
  BY <1>1, <1>2, <1>3, SeqEqual

InThree(pre, w, post, body) == body = (pre \o w) \o post
Laid(V, level, reads, ps, size, pre, post, body) ==
  /\ body \in Seq(Token(V)) /\ pre \in Seq(Token(V)) /\ post \in Seq(Token(V))
  /\ size \in Nat /\ Size(body) = Size(pre) + size + Size(post)
  /\ \A i \in 1..Len(pre) : i \in DOMAIN body /\ body[i] = pre[i]
  /\ Split(level, reads, From(body, Len(pre) + 1)) = SplitOk(level, ps, post)

\* A body of fields, properties behind their length, and a payload: as long
\* as the three are counted, and Split at the properties gives them and the
\* payload back.
LEMMA BodyLaid ==
  ASSUME NEW V, NEW lengths, NEW writes, NEW reads, NEW ps,
         TablesAgree(lengths, writes, reads),
         NEW level \in {V4, V5}, level = V5 => Fits(lengths, ps),
         NEW pre \in Seq(Token(V)), NEW post \in Seq(Token(V)),
         NEW body, InThree(pre, WithLength(level, lengths, writes, ps), post, body)
  PROVE  Laid(V, level, reads, ps, WithLengthSize(level, lengths, ps), pre, post, body)
<1>1. PICK w : w = WithLength(level, lengths, writes, ps)
  OBVIOUS
<1>2. /\ w \in Seq(Token(V)) /\ Size(w) = WithLengthSize(level, lengths, ps)
      /\ WithLengthSize(level, lengths, ps) \in Nat
      /\ SplitsOff(level, reads, ps, w, post)
  BY <1>1, WithLengthIsSplit
<1>3. PICK u : u = w \o post
  OBVIOUS
<1>4. u \in Seq(Token(V)) /\ Size(u) = Size(w) + Size(post) /\ Size(post) \in Nat
  BY <1>2, <1>3, SizeOfConcat, ConcatProperties
<1>5. body = pre \o u
  <2>1. body = (pre \o w) \o post
    BY <1>1 DEF InThree
  <2>2. (pre \o w) \o post = pre \o (w \o post)
    <3>1. pre \in Seq(Token(V)) /\ w \in Seq(Token(V)) /\ post \in Seq(Token(V))
      BY <1>2
    <3> QED
      BY ONLY <3>1, ConcatAssociative
  <2> QED
    BY <1>3, <2>1, <2>2
<1>6. Size(pre \o u) = Size(pre) + Size(u) /\ Size(pre) \in Nat
  BY <1>4, SizeOfConcat
<1>7. /\ pre \o u \in Seq(Token(V)) /\ Len(pre \o u) = Len(pre) + Len(u)
      /\ \A i \in 1..Len(pre \o u) : (pre \o u)[i] = IF i <= Len(pre) THEN pre[i] ELSE u[i - Len(pre)]
  BY <1>4, ConcatProperties
<1>8. From(pre \o u, Len(pre) + 1) = u
  BY <1>4, PartsOfConcat
<1>9. \A i \in 1..Len(pre) : i \in DOMAIN (pre \o u) /\ (pre \o u)[i] = pre[i]
  <2>1. PICK b : b = pre \o u
    OBVIOUS
  <2>3. PICK m \in Nat, n \in Nat : m = Len(pre) /\ n = Len(u)
    BY <1>4
  <2>2. DOMAIN b = 1..(m + n)
    BY <1>7, <2>1, <2>3
  <2> QED
    BY <1>7, <2>1, <2>2, <2>3
<1>10. Size(body) = Size(pre) + WithLengthSize(level, lengths, ps) + Size(post)
  BY <1>2, <1>4, <1>5, <1>6
<1>11. Split(level, reads, From(body, Len(pre) + 1)) = SplitOk(level, ps, post)
  BY <1>2, <1>3, <1>5, <1>8 DEF SplitsOff
<1> QED
  BY <1>2, <1>5, <1>7, <1>9, <1>10, <1>11 DEF Laid

\* The bytes of a sequence are the sum of those of its tokens.
LEMMA SizeIsSum ==
  ASSUME NEW V, NEW ts \in Seq(Token(V))
  PROVE  Size(ts) = SumFunction([i \in 1..Len(ts) |-> TokenSize(ts[i])])
<1>1. PICK n \in Nat : n = Len(ts)
  OBVIOUS
<1>2. PICK z : z = Sizes(ts)
  OBVIOUS
<1>3. z[0] = 0 /\ \A i \in 1..n : z[i] = z[i - 1] + TokenSize(ts[i])
  BY <1>1, <1>2, SizesRecursion
<1>4. \A i \in 1..n : TokenSize(ts[i]) \in Nat
  BY <1>1, ElementOfSeq, TokenSizePositive
<1> DEFINE f(m) == [i \in 1..m |-> TokenSize(ts[i])]
           K == {m \in Nat : m <= n => z[m] = SumFunction(f(m))}
<1>5. 0 \in K
  <2>1. DOMAIN f(0) = {}
    OBVIOUS
  <2> HIDE DEF f
  <2>2. SumFunction(f(0)) = 0
    BY <2>1, SumOfNone
  <2> QED
    BY <1>3, <2>2
<1>6. ASSUME NEW m \in 0..n, m \in K, m < n PROVE m + 1 \in K
  <2>1. m \in Nat /\ m + 1 \in 1..n /\ (m + 1) - 1 = m
    BY <1>6
  <2>2. f(m + 1) \in [1..(m + 1) -> Nat] /\ f(m) \in [1..m -> Nat]
    BY <1>4, <2>1
  <2>3. \A i \in 1..m : f(m + 1)[i] = f(m)[i]
    OBVIOUS
  <2>4. f(m + 1)[m + 1] = TokenSize(ts[m + 1])
    BY <2>1
  <2>5. z[m] = SumFunction(f(m))
    BY <1>6
  <2> HIDE DEF f
  <2>6. SumFunction(f(m + 1)) = SumFunction(f(m)) + f(m + 1)[m + 1]
    BY <2>1, <2>2, <2>3, SumOfNext
  <2>7. z[m + 1] = z[m] + TokenSize(ts[m + 1])
    BY <1>3, <2>1
  <2> QED
    BY <2>1, <2>4, <2>5, <2>6, <2>7
<1> HIDE DEF K
<1>7. 0..n \subseteq K
  BY <1>5, <1>6, StepByStep
<1>8. n \in K
  BY <1>7
<1>9. z[n] = SumFunction(f(n))
  BY <1>8 DEF K
<1> QED
  BY <1>1, <1>2, <1>9 DEF Size

\* Pairs one after the other.
Alternates(x, y, n) ==
  Len(y) = 2 * n /\ \A i \in 1..n : y[2 * i - 1] = x[i][1] /\ y[2 * i] = x[i][2]

\* Pairs of tokens written one after the other: pair i is at 2i - 1 and 2i,
\* and the size is the sum over the pairs (the filters of SUBSCRIBE).
LEMMA PairsFlattened ==
  ASSUME NEW V, NEW x \in Seq(Seq(Token(V))), \A i \in 1..Len(x) : Len(x[i]) = 2
  PROVE  /\ FlattenSeq(x) \in Seq(Token(V)) /\ Alternates(x, FlattenSeq(x), Len(x))
         /\ Size(FlattenSeq(x)) = SumFunction([i \in 1..Len(x) |-> Size(x[i])])
<1>1. PICK n \in Nat : n = Len(x)
  OBVIOUS
<1>2. \A i \in 1..n : x[i] \in Seq(Token(V)) /\ Len(x[i]) = 2
  BY <1>1, ElementOfSeq
<1> DEFINE f(m) == [i \in 1..m |-> Size(x[i])]
<1>3. \A i \in 1..n : Size(x[i]) \in Nat
  BY <1>2, SizeOfSome
<1>4. CASE x = <<>>
  <2>1. n = 0 /\ FlattenSeq(x) = <<>> /\ DOMAIN f(n) = {}
    BY <1>1, <1>4 DEF FlattenSeq
  <2> HIDE DEF f
  <2>2. SumFunction(f(n)) = 0
    BY <2>1, SumOfNone
  <2>3. <<>> \in Seq(Token(V)) /\ Alternates(x, <<>>, 0)
    BY DEF Alternates
  <2> QED
    BY <1>1, <2>1, <2>2, <2>3, SizeOfNone DEF f
<1>5. CASE x # <<>>
  <2>1. PICK g : Joins(Token(V), x, n, g) /\ FlattenSeq(x) = g[n]
    BY <1>1, <1>5, FlattenJoins
  <2>2. n > 0
    BY <1>1, <1>5
  <2> DEFINE OK(m) == Alternates(x, g[m], m) /\ Size(g[m]) = SumFunction(f(m))
             K == {m \in Nat : m < n => OK(m + 1)}
  <2>3. 0 \in K
    <3>1. 1 \in 1..n /\ g[1] = x[1]
      BY <2>1, <2>2 DEF Joins
    <3>2. Alternates(x, x[1], 1)
      BY <1>2, <3>1 DEF Alternates
    <3>3. f(1) \in [{1} -> Nat] /\ f(1)[1] = Size(x[1])
      BY <1>3, <3>1
    <3> HIDE DEF f
    <3>4. SumFunction(f(1)) = f(1)[1]
      BY <3>3, SumOfOne
    <3> QED
      BY <3>1, <3>2, <3>3, <3>4
  <2>4. ASSUME NEW m \in 0..n, m \in K, m < n PROVE m + 1 \in K
    <3>1. ASSUME m + 1 < n PROVE OK((m + 1) + 1)
      <4>1. PICK k \in 1..n, l \in 2..n : k = m + 1 /\ l = k + 1 /\ l - 1 = k
        BY <3>1
      <4>2. g[l] = g[k] \o x[l] /\ g[k] \in Seq(Token(V))
        BY <2>1, <4>1 DEF Joins
      <4>3. x[l] \in Seq(Token(V)) /\ Len(x[l]) = 2
        BY <1>2
      <4>4. Alternates(x, g[k], k) /\ Size(g[k]) = SumFunction(f(k))
        BY <2>4, <4>1
      <4>5. PICK u, v, w : u = g[k] /\ v = x[l] /\ w = g[l]
        OBVIOUS
      <4>6. Len(u) = 2 * k /\ \A i \in 1..k : u[2 * i - 1] = x[i][1] /\ u[2 * i] = x[i][2]
        BY <4>4, <4>5 DEF Alternates
      <4>7. /\ Len(w) = 2 * k + 2
            /\ \A i \in 1..(2 * k + 2) : w[i] = IF i <= 2 * k THEN u[i] ELSE v[i - 2 * k]
        <5>1. u \in Seq(Token(V)) /\ v \in Seq(Token(V)) /\ Len(v) = 2
          BY <4>2, <4>3, <4>5
        <5>2. /\ Len(u \o v) = Len(u) + Len(v)
              /\ \A i \in 1..(Len(u) + Len(v)) :
                   (u \o v)[i] = IF i <= Len(u) THEN u[i] ELSE v[i - Len(u)]
          BY ONLY <5>1, ConcatProperties
        <5>3. w = u \o v
          BY <4>2, <4>5
        <5>4. /\ Len(w) = Len(u) + 2
              /\ \A i \in 1..(Len(u) + 2) : w[i] = IF i <= Len(u) THEN u[i] ELSE v[i - Len(u)]
          BY ONLY <5>1, <5>2, <5>3
        <5> QED
          BY ONLY <4>6, <5>4
      <4>8. ASSUME NEW i \in 1..l PROVE w[2 * i - 1] = x[i][1] /\ w[2 * i] = x[i][2]
        <5>1. CASE i \in 1..k
          <6>1. 2 * i \in 1..(2 * k + 2) /\ 2 * i - 1 \in 1..(2 * k + 2) /\ 2 * i <= 2 * k /\ 2 * i - 1 <= 2 * k
            BY <5>1
          <6>2. w[2 * i] = u[2 * i] /\ w[2 * i - 1] = u[2 * i - 1]
            BY <4>7, <6>1
          <6> QED
            BY <4>6, <5>1, <6>2
        <5>2. CASE i = l
          <6>1. 2 * i = 2 * k + 2 /\ 2 * i - 1 = 2 * k + 1
            BY <4>1, <5>2
          <6>2. 2 * k + 2 \in 1..(2 * k + 2) /\ ~(2 * k + 2 <= 2 * k) /\ (2 * k + 2) - 2 * k = 2
            OBVIOUS
          <6>3. 2 * k + 1 \in 1..(2 * k + 2) /\ ~(2 * k + 1 <= 2 * k) /\ (2 * k + 1) - 2 * k = 1
            OBVIOUS
          <6>4. w[2 * k + 2] = v[2] /\ w[2 * k + 1] = v[1]
            BY <4>7, <6>2, <6>3
          <6> QED
            BY <4>5, <5>2, <6>1, <6>4
        <5> QED
          BY <4>1, <5>1, <5>2
      <4>9. Alternates(x, w, l)
        <5>1. 2 * l = 2 * k + 2
          BY <4>1
        <5> QED
          BY <4>7, <4>8, <5>1 DEF Alternates
      <4>10. Size(w) = Size(u) + Size(v)
        BY <4>2, <4>3, <4>5, SizeOfConcat
      <4>11. f(k + 1) \in [1..(k + 1) -> Nat] /\ f(k) \in [1..k -> Nat]
        BY <1>3, <4>1
      <4>12. \A i \in 1..k : f(k + 1)[i] = f(k)[i]
        OBVIOUS
      <4>13. f(k + 1)[k + 1] = Size(v)
        BY <4>1, <4>5
      <4>14. k \in Nat
        OBVIOUS
      <4> HIDE DEF f
      <4>15. SumFunction(f(k + 1)) = SumFunction(f(k)) + f(k + 1)[k + 1]
        BY <4>11, <4>12, <4>14, SumOfNext
      <4>16. Size(w) = SumFunction(f(l))
        BY <4>1, <4>4, <4>5, <4>10, <4>13, <4>15
      <4> QED
        BY <4>1, <4>5, <4>9, <4>16
    <3> HIDE DEF OK
    <3> QED
      BY <2>4, <3>1
  <2> HIDE DEF K
  <2>5. 0..n \subseteq K
    BY <2>3, <2>4, StepByStep
  <2>6. n - 1 \in 0..n /\ n - 1 < n /\ (n - 1) + 1 = n
    BY <2>2
  <2>7. n - 1 \in K
    BY <2>5, <2>6
  <2> HIDE DEF OK
  <2>8. OK(n)
    BY <2>6, <2>7 DEF K
  <2>9. g[n] \in Seq(Token(V))
    BY <2>1, <2>2 DEF Joins
  <2> QED
    BY <1>1, <2>1, <2>8, <2>9 DEF OK
<1> QED
  BY <1>4, <1>5

-----------------------------------------------------------------------------
(* The packets: each is as long as it says, and read as it was written.    *)

\* The values of flags: of the first byte, of a filter, of CONNECT.
FlagValues ==
  {Flag(p, l)[2] : p \in ConnectPackets \union OtherPackets, l \in {V4, V5}}
    \union SubscribeOptions \union {ConnectFlags(p) : p \in ConnectPackets}

\* What encode writes of p at level l is as long as it says, and decode reads
\* p out of it at the levels ms.
Formatted(V, p, l, ms) ==
  /\ Flag(p, l) \in {"flag"} \X V
  /\ Encoding(p, l).size \in Nat
  /\ Encoding(p, l).body \in Seq(Token(V))
  /\ Size(Encoding(p, l).body) = Encoding(p, l).size
  /\ \A m \in ms : Decode(Flag(p, l)[2], Encoding(p, l).body, m) = Seen(p, l)
  /\ Seen(p, l).type = p.type

\* The first byte of a packet says its type and its low bits.
LEMMA FlagIsFlag ==
  ASSUME NEW p \in ConnectPackets \union OtherPackets, NEW l \in {V4, V5}
  PROVE  /\ Flag(p, l) \in {"flag"} \X FlagValues
         /\ Flag(p, l)[2].type = p.type /\ Flag(p, l)[2].low = Encoding(p, l).low
<1>1. /\ Flag(p, l) = <<"flag", Flag(p, l)[2]>>
      /\ Flag(p, l)[2].type = p.type /\ Flag(p, l)[2].low = Encoding(p, l).low
  BY DEF Flag
<1>2. Flag(p, l)[2] \in FlagValues
  BY DEF FlagValues
<1> QED
  BY <1>1, <1>2

\* Properties whose lengths are counted as they are written fit their table.
LEMMA CountedFits ==
  ASSUME NEW lengths, NEW ps \in PropertySets(lengths), Counted(lengths, ps)
  PROVE  Fits(lengths, ps)
<1>1. IsFiniteSet(ps) /\ ps \subseteq (DOMAIN lengths) \X Nat
  BY DEF PropertySets
<1>2. \A q \in ps : q[2] \in Nat
  BY <1>1
<1> QED
  BY <1>1, <1>2 DEF Fits, Countable, CountedRight, Counted

\* The sizes of the tokens that are fields of packets.
LEMMA KindSizes ==
  ASSUME NEW n
  PROVE  /\ TokenSize(<<"u8", n>>) = 1 /\ TokenSize(<<"u16", n>>) = 2
         /\ TokenSize(<<"str", n>>) = 2 + n /\ TokenSize(<<"raw", n>>) = n
         /\ TokenSize(<<"flags", n>>) = 1
BY DEF TokenSize

\* What fits two bytes is a number.
LEMMA U16IsNat == U16 \subseteq Nat
BY DEF U16

\* A packet identifier, properties, and what follows them.
IdAndProperties(V, level, reads, ps, size, n, post, body) ==
  /\ body \in Seq(Token(V)) /\ size \in Nat /\ Size(post) \in Nat
  /\ Size(body) = 2 + size + Size(post)
  /\ At(body, 1, "u16") /\ body[1][2] = n
  /\ Split(level, reads, Tail(body)) = SplitOk(level, ps, post)

\* A body that begins with a packet identifier, as most do.
LEMMA IdLaid ==
  ASSUME NEW V, NEW lengths, NEW writes, NEW reads, NEW ps,
         TablesAgree(lengths, writes, reads),
         NEW level \in {V4, V5}, level = V5 => Fits(lengths, ps),
         NEW n \in Nat, NEW post \in Seq(Token(V)),
         NEW body, InThree(<<<<"u16", n>>>>, WithLength(level, lengths, writes, ps), post, body)
  PROVE  IdAndProperties(V, level, reads, ps, WithLengthSize(level, lengths, ps), n, post, body)
<1>1. PICK t, pre : t = <<"u16", n>> /\ pre = <<t>>
  OBVIOUS
<1>2. t \in Token(V) /\ pre \in Seq(Token(V)) /\ Len(pre) = 1 /\ pre[1] = t
  BY <1>1 DEF Token
<1>3. Size(pre) = 2
  BY <1>1, <1>2, SizeOfOne, KindSizes
<1>4. InThree(pre, WithLength(level, lengths, writes, ps), post, body)
  BY <1>1
<1>5. Laid(V, level, reads, ps, WithLengthSize(level, lengths, ps), pre, post, body)
  BY <1>2, <1>4, BodyLaid
<1>6. PICK size : size = WithLengthSize(level, lengths, ps)
  OBVIOUS
<1>7. /\ body \in Seq(Token(V)) /\ size \in Nat
      /\ Size(body) = 2 + size + Size(post)
      /\ 1 \in DOMAIN body /\ body[1] = t
      /\ Split(level, reads, From(body, 2)) = SplitOk(level, ps, post)
  BY <1>2, <1>3, <1>5, <1>6 DEF Laid
<1>8. Tail(body) = From(body, 2)
  BY <1>7, TailIsFrom
<1>9. Size(post) \in Nat
  BY SizeOfSome
<1>10. At(body, 1, "u16") /\ body[1][2] = n
  <2>1. t[1] = "u16" /\ t[2] = n
    BY <1>1
  <2> QED
    BY <1>7, <2>1 DEF At
<1> QED
  BY <1>6, <1>7, <1>8, <1>9, <1>10 DEF IdAndProperties

\* One byte for each code.
LEMMA CodesAreBytes ==
  ASSUME NEW V, NEW cs \in Seq(Nat)
  PROVE  /\ Codes(cs) \in Seq(Token(V)) /\ Size(Codes(cs)) = Len(cs)
         /\ CodesIn(Codes(cs)) = cs
         /\ \A codes : (\A i \in DOMAIN cs : cs[i] \in codes) => CodesReadable(Codes(cs), codes)
<1>1. PICK n \in Nat : n = Len(cs) /\ DOMAIN cs = 1..n
  OBVIOUS
<1>2. PICK ts : ts = Codes(cs)
  OBVIOUS
<1>3. ts = [i \in 1..n |-> <<"u8", cs[i]>>]
  BY <1>1, <1>2 DEF Codes
<1>4. ASSUME NEW i \in 1..n PROVE ts[i] = <<"u8", cs[i]>> /\ ts[i] \in Token(V) /\ TokenSize(ts[i]) = 1
  <2>1. cs[i] \in Nat
    BY <1>1
  <2> QED
    BY <1>3, <2>1, KindSizes DEF Token
<1>5. ts \in Seq(Token(V)) /\ Len(ts) = n /\ DOMAIN ts = 1..n
  <2>1. ts \in [1..n -> Token(V)]
    BY <1>3, <1>4
  <2> QED
    BY <2>1
<1>6. PICK z : z = Sizes(ts)
  OBVIOUS
<1>7. z[0] = 0 /\ \A i \in 1..n : z[i] = z[i - 1] + TokenSize(ts[i])
  BY <1>5, <1>6, SizesRecursion
<1> DEFINE K == {m \in Nat : m <= n => z[m] = m}
<1>8. 0 \in K
  BY <1>7
<1>9. ASSUME NEW m \in 0..n, m \in K, m < n PROVE m + 1 \in K
  <2>1. m + 1 \in 1..n /\ (m + 1) - 1 = m /\ z[m] = m
    BY <1>9
  <2> QED
    BY <1>4, <1>7, <2>1
<1> HIDE DEF K
<1>10. 0..n \subseteq K
  BY <1>8, <1>9, StepByStep
<1>11. n \in K
  BY <1>10
<1>12. Size(ts) = n
  BY <1>5, <1>6, <1>11 DEF Size, K
<1>13. CodesIn(ts) = cs
  <2>1. CodesIn(ts) = [i \in 1..n |-> ts[i][2]]
    BY <1>5 DEF CodesIn
  <2>2. cs = [i \in 1..n |-> cs[i]]
    BY <1>1
  <2> QED
    BY <1>4, <2>1, <2>2
<1>14. ASSUME NEW codes, \A i \in DOMAIN cs : cs[i] \in codes PROVE CodesReadable(ts, codes)
  BY <1>1, <1>4, <1>5, <1>14 DEF CodesReadable, At
<1> QED
  BY <1>1, <1>2, <1>5, <1>12, <1>13, <1>14

\* SUBACK: length, encoder and decoder agree at both levels; at V4 the reason
\* codes are those of V4.
LEMMA SubAckFormatted ==
  ASSUME NEW p \in SubAckPackets, NEW l \in {V4, V5}, l = V5 => Counted(SubAckLengths, p.properties)
  PROVE  Formatted(FlagValues, p, l, {l})
<1>1. /\ p.type = "SUBACK" /\ p.packet_id \in PacketIds
      /\ p.properties \in PropertySets(SubAckLengths) /\ p.reason_codes \in Seq(SubscribeReasonCodes)
  BY DEF SubAckPackets
<1>2. PICK n, ps, rs : n = p.packet_id /\ ps = p.properties /\ rs = p.reason_codes
  OBVIOUS
<1>3. p = [type |-> "SUBACK", packet_id |-> n, properties |-> ps, reason_codes |-> rs]
  BY <1>2 DEF SubAckPackets
<1>4. n \in Nat
  <2>1. n \in PacketIds
    BY <1>1, <1>2
  <2> QED
    BY ONLY <2>1 DEF PacketIds
<1>5. PICK k \in Nat : k = Len(rs) /\ DOMAIN rs = 1..k
  BY <1>1, <1>2
<1>6. \A i \in 1..k : rs[i] \in SubscribeReasonCodes
  BY <1>1, <1>2, <1>5, ElementOfSeq
<1>7. PICK cs : cs = [i \in DOMAIN p.reason_codes |->
                       IF l = V4 THEN SubscribeReasonCodeV4(p.reason_codes[i])
                       ELSE p.reason_codes[i]]
  OBVIOUS
<1>8. cs = [i \in 1..k |-> IF l = V4 THEN SubscribeReasonCodeV4(rs[i]) ELSE rs[i]]
  BY <1>2, <1>5, <1>7
<1>9. PICK codes : codes = IF l = V4 THEN {0, 1, 2, 128} ELSE SubscribeReasonCodes
  OBVIOUS
<1>10. ASSUME NEW i \in 1..k PROVE cs[i] \in Nat /\ cs[i] \in codes
  BY <1>6, <1>8, <1>9 DEF SubscribeReasonCodes, SubscribeReasonCodeV4
<1>11. cs \in Seq(Nat) /\ DOMAIN cs = 1..k /\ Len(cs) = k
  <2>1. cs \in [1..k -> Nat]
    BY <1>8, <1>10
  <2> QED
    BY <2>1
<1>12. PICK post : post = Codes(cs)
  OBVIOUS
<1>13. /\ post \in Seq(Token(FlagValues)) /\ Size(post) = k
       /\ CodesIn(post) = cs /\ CodesReadable(post, codes)
  BY <1>10, <1>11, <1>12, CodesAreBytes
<1>14. PICK body : body = Encoding(p, l).body
  OBVIOUS
<1>15. /\ InThree(<<<<"u16", n>>>>, WithLength(l, SubAckLengths, SubAckWrites, ps), post, body)
       /\ Encoding(p, l).size = 2 + WithLengthSize(l, SubAckLengths, ps) + k
  BY <1>1, <1>2, <1>5, <1>7, <1>12, <1>14 DEF Encoding, SubAckEncoding, SubAckLength, InThree
<1>16. IdAndProperties(FlagValues, l, SubAckReads, ps, WithLengthSize(l, SubAckLengths, ps), n, post, body)
  <2>1. l = V5 => Fits(SubAckLengths, ps)
    BY <1>1, <1>2, CountedFits
  <2> QED
    BY <1>4, <1>13, <1>15, <2>1, SubAckTablesAgree, IdLaid
<1>17. PICK size : size = WithLengthSize(l, SubAckLengths, ps)
  OBVIOUS
<1>18. /\ body \in Seq(Token(FlagValues)) /\ size \in Nat /\ Size(body) = 2 + size + k
       /\ At(body, 1, "u16") /\ body[1][2] = n
       /\ Split(l, SubAckReads, Tail(body)) = SplitOk(l, ps, post)
  BY <1>13, <1>16, <1>17 DEF IdAndProperties
<1>19. SubAckDecoded(body, l) = [type |-> "SUBACK", packet_id |-> n,
                                 properties |-> IF l = V4 THEN {} ELSE ps, reason_codes |-> cs]
  <2>1. PICK split : split = Split(l, SubAckReads, Tail(body))
    OBVIOUS
  <2>2. split.ok /\ split.properties = (IF l = V4 THEN {} ELSE ps) /\ split.rest = post
    <3>1. split = SplitOk(l, ps, post)
      BY <1>18, <2>1
    <3> QED
      BY ONLY <3>1 DEF SplitOk
  <2>3. CodesReadable(split.rest, codes) /\ CodesIn(split.rest) = cs
    BY <1>13, <2>2
  <2> QED
    BY <1>9, <1>18, <2>1, <2>2, <2>3 DEF SubAckDecoded
<1>20. Seen(p, l) = [type |-> "SUBACK", packet_id |-> n,
                     properties |-> IF l = V4 THEN {} ELSE ps, reason_codes |-> cs]
  <2>1. CASE l = V5
    <3>1. rs = [i \in 1..k |-> rs[i]] /\ l # V4
      BY <1>1, <1>2, <1>5, <2>1 DEF V4, V5
    <3>2. cs = rs
      BY <1>8, <3>1
    <3> QED
      BY <1>3, <2>1, <3>1, <3>2 DEF Seen
  <2>2. CASE l = V4
    <3>1. cs = [i \in DOMAIN rs |-> IF rs[i] < 128 THEN rs[i] ELSE 128]
      <4>1. \A i \in 1..k : SubscribeReasonCodeV4(rs[i]) = IF rs[i] < 128 THEN rs[i] ELSE 128
        BY <1>6 DEF SubscribeReasonCodes, SubscribeReasonCodeV4
      <4> QED
        BY <1>5, <1>8, <2>2, <4>1
    <3>2. Bare(p) = [type |-> "SUBACK", packet_id |-> n, properties |-> {}, reason_codes |-> rs]
      BY <1>3 DEF Bare
    <3>3. Seen(p, l) = [Bare(p) EXCEPT !.reason_codes =
                          [i \in DOMAIN @ |-> IF @[i] < 128 THEN @[i] ELSE 128]]
      BY <1>3, <2>2 DEF Seen, V4, V5
    <3> QED
      BY <2>2, <3>1, <3>2, <3>3
  <2> QED
    BY <2>1, <2>2
<1>21. p \in ConnectPackets \union OtherPackets
  BY DEF OtherPackets
<1>22. Decode(Flag(p, l)[2], body, l) = SubAckDecoded(body, l)
  BY <1>1, <1>21, FlagIsFlag DEF Decode
<1>23. Flag(p, l) \in {"flag"} \X FlagValues
  BY <1>21, FlagIsFlag
<1> QED
  BY <1>1, <1>14, <1>15, <1>17, <1>18, <1>19, <1>20, <1>22, <1>23 DEF Formatted

\* UNSUBACK: length, encoder and decoder agree at both levels; at V4 the
\* reason codes are left out.
LEMMA UnsubAckFormatted ==
  ASSUME NEW p \in UnsubAckPackets, NEW l \in {V4, V5}, l = V5 => Counted(UnsubAckLengths, p.properties)
  PROVE  Formatted(FlagValues, p, l, {l})
<1>1. /\ p.type = "UNSUBACK" /\ p.packet_id \in PacketIds
      /\ p.properties \in PropertySets(UnsubAckLengths) /\ p.reason_codes \in Seq(UnsubAckReasonCodes)
  BY DEF UnsubAckPackets
<1>2. PICK n, ps, rs : n = p.packet_id /\ ps = p.properties /\ rs = p.reason_codes
  OBVIOUS
<1>3. p = [type |-> "UNSUBACK", packet_id |-> n, properties |-> ps, reason_codes |-> rs]
  BY <1>2 DEF UnsubAckPackets
<1>4. n \in Nat
  <2>1. n \in PacketIds
    BY <1>1, <1>2
  <2> QED
    BY ONLY <2>1 DEF PacketIds
<1>5. \A i \in DOMAIN rs : rs[i] \in UnsubAckReasonCodes
  BY <1>1, <1>2, ElementOfSeq
<1>6. PICK cs : cs = IF l = V5 THEN rs ELSE <<>>
  OBVIOUS
<1>7. cs \in Seq(Nat) /\ Len(cs) = (IF l = V5 THEN Len(rs) ELSE 0)
  <2>1. PICK k \in Nat : k = Len(rs) /\ DOMAIN rs = 1..k
    BY <1>1, <1>2
  <2>2. \A i \in 1..k : rs[i] \in Nat
    BY <1>5, <2>1 DEF UnsubAckReasonCodes
  <2>3. rs = [i \in 1..k |-> rs[i]]
    BY <1>1, <1>2, <2>1
  <2>4. rs \in Seq(Nat)
    BY <2>2, <2>3
  <2> QED
    BY <1>6, <2>4
<1>8. \A i \in DOMAIN cs : cs[i] \in UnsubAckReasonCodes
  BY <1>5, <1>6
<1>9. PICK post : post = IF l = V5 THEN Codes(p.reason_codes) ELSE <<>>
  OBVIOUS
<1>10. post = Codes(cs)
  BY <1>2, <1>6, <1>9 DEF Codes
<1>11. /\ post \in Seq(Token(FlagValues)) /\ Size(post) = Len(cs)
       /\ CodesIn(post) = cs /\ CodesReadable(post, UnsubAckReasonCodes)
  BY <1>7, <1>8, <1>10, CodesAreBytes
<1>12. PICK body : body = Encoding(p, l).body
  OBVIOUS
<1>13. /\ InThree(<<<<"u16", n>>>>, WithLength(l, UnsubAckLengths, UnsubAckWrites, ps), post, body)
       /\ Encoding(p, l).size = 2 + WithLengthSize(l, UnsubAckLengths, ps) + Len(cs)
  BY <1>1, <1>2, <1>7, <1>9, <1>12 DEF Encoding, UnsubAckEncoding, UnsubAckLength, InThree
<1>14. IdAndProperties(FlagValues, l, UnsubAckReads, ps, WithLengthSize(l, UnsubAckLengths, ps), n, post, body)
  <2>1. l = V5 => Fits(UnsubAckLengths, ps)
    BY <1>1, <1>2, CountedFits
  <2> QED
    BY <1>4, <1>11, <1>13, <2>1, UnsubAckTablesAgree, IdLaid
<1>15. PICK size : size = WithLengthSize(l, UnsubAckLengths, ps)
  OBVIOUS
<1>16. /\ body \in Seq(Token(FlagValues)) /\ size \in Nat /\ Size(body) = 2 + size + Len(cs)
       /\ Len(cs) \in Nat
       /\ At(body, 1, "u16") /\ body[1][2] = n
       /\ Split(l, UnsubAckReads, Tail(body)) = SplitOk(l, ps, post)
  BY <1>11, <1>14, <1>15 DEF IdAndProperties
<1>17. UnsubAckDecoded(body, l) = [type |-> "UNSUBACK", packet_id |-> n,
                                   properties |-> IF l = V4 THEN {} ELSE ps, reason_codes |-> cs]
  <2>1. PICK split : split = Split(l, UnsubAckReads, Tail(body))
    OBVIOUS
  <2>2. split.ok /\ split.properties = (IF l = V4 THEN {} ELSE ps) /\ split.rest = post
    <3>1. split = SplitOk(l, ps, post)
      BY <1>16, <2>1
    <3> QED
      BY ONLY <3>1 DEF SplitOk
  <2>3. (IF l = V5 THEN split.rest ELSE <<>>) = post
    BY <1>9, <2>2
  <2> QED
    BY <1>11, <1>16, <2>1, <2>2, <2>3 DEF UnsubAckDecoded
<1>18. Seen(p, l) = [type |-> "UNSUBACK", packet_id |-> n,
                     properties |-> IF l = V4 THEN {} ELSE ps, reason_codes |-> cs]
  <2>1. CASE l = V5
    BY <1>3, <1>6, <2>1 DEF Seen, V4, V5
  <2>2. CASE l = V4
    <3>1. Bare(p) = [type |-> "UNSUBACK", packet_id |-> n, properties |-> {}, reason_codes |-> rs]
      BY <1>3 DEF Bare
    <3>2. Seen(p, l) = [Bare(p) EXCEPT !.reason_codes = <<>>]
      BY <1>3, <2>2 DEF Seen, V4, V5
    <3> QED
      BY <1>6, <2>2, <3>1, <3>2 DEF V4, V5
  <2> QED
    BY <2>1, <2>2
<1>19. p \in ConnectPackets \union OtherPackets
  BY DEF OtherPackets
<1>20. Decode(Flag(p, l)[2], body, l) = UnsubAckDecoded(body, l)
  BY <1>1, <1>19, FlagIsFlag DEF Decode
<1>21. Flag(p, l) \in {"flag"} \X FlagValues
  BY <1>19, FlagIsFlag
<1> QED
  BY <1>1, <1>12, <1>13, <1>15, <1>16, <1>17, <1>18, <1>20, <1>21 DEF Formatted

\* UNSUBSCRIBE: length, encoder and decoder agree at both levels.
LEMMA UnsubscribeFormatted ==
  ASSUME NEW p \in UnsubscribePackets, NEW l \in {V4, V5},
         l = V5 => Counted(UnsubscribeLengths, p.properties)
  PROVE  Formatted(FlagValues, p, l, {l})
<1>1. /\ p.type = "UNSUBSCRIBE" /\ p.packet_id \in PacketIds
      /\ p.properties \in PropertySets(UnsubscribeLengths) /\ p.filters \in Seq(U16)
  BY DEF UnsubscribePackets
<1>2. PICK n, ps, fs : n = p.packet_id /\ ps = p.properties /\ fs = p.filters
  OBVIOUS
<1>3. p = [type |-> "UNSUBSCRIBE", packet_id |-> n, properties |-> ps, filters |-> fs]
  BY <1>2 DEF UnsubscribePackets
<1>4. n \in Nat
  <2>1. n \in PacketIds
    BY <1>1, <1>2
  <2> QED
    BY ONLY <2>1 DEF PacketIds
<1>5. PICK k \in Nat : k = Len(fs) /\ DOMAIN fs = 1..k
  BY <1>1, <1>2
<1>6. \A i \in 1..k : fs[i] \in Nat
  <2>1. \A i \in 1..k : fs[i] \in U16
    BY <1>1, <1>2, <1>5, ElementOfSeq
  <2> QED
    BY <2>1, U16IsNat
<1>7. PICK post : post = [i \in 1..k |-> <<"str", fs[i]>>]
  OBVIOUS
<1>8. \A i \in 1..k : post[i] = <<"str", fs[i]>> /\ post[i] \in Token(FlagValues)
  BY <1>6, <1>7 DEF Token
<1>9. post \in Seq(Token(FlagValues)) /\ Len(post) = k /\ DOMAIN post = 1..k
  <2>1. post \in [1..k -> Token(FlagValues)]
    BY <1>7, <1>8
  <2> QED
    BY <2>1
<1>10. Size(post) = SumFunction([i \in 1..k |-> 2 + fs[i]])
  <2>1. Size(post) = SumFunction([i \in 1..Len(post) |-> TokenSize(post[i])])
    BY <1>9, SizeIsSum
  <2>2. [i \in 1..Len(post) |-> TokenSize(post[i])] = [i \in 1..k |-> 2 + fs[i]]
    BY <1>8, <1>9, KindSizes
  <2> QED
    BY <2>1, <2>2
<1>11. CodesIn(post) = fs /\ \A i \in DOMAIN post : At(post, i, "str")
  <2>1. CodesIn(post) = [i \in 1..k |-> post[i][2]]
    BY <1>9 DEF CodesIn
  <2>2. fs = [i \in 1..k |-> fs[i]]
    BY <1>1, <1>2, <1>5
  <2> QED
    BY <1>8, <1>9, <2>1, <2>2 DEF At
<1>12. PICK body : body = Encoding(p, l).body
  OBVIOUS
<1>13. /\ InThree(<<<<"u16", n>>>>, WithLength(l, UnsubscribeLengths, UnsubscribeWrites, ps), post, body)
       /\ Encoding(p, l).size = 2 + WithLengthSize(l, UnsubscribeLengths, ps) + Size(post)
  <2>1. p.filters = fs /\ DOMAIN p.filters = 1..k
    BY <1>2, <1>5
  <2>2. Encoding(p, l) = UnsubscribeEncoding(p, l)
    BY <1>1 DEF Encoding
  <2>3. post = [i \in DOMAIN p.filters |-> <<"str", p.filters[i]>>]
    BY <1>7, <2>1
  <2>4. Size(post) = SumFunction([i \in DOMAIN p.filters |-> 2 + p.filters[i]])
    BY <1>10, <2>1
  <2> QED
    BY <1>2, <1>12, <2>2, <2>3, <2>4 DEF UnsubscribeEncoding, UnsubscribeLength, InThree
<1>14. IdAndProperties(FlagValues, l, UnsubscribeReads, ps, WithLengthSize(l, UnsubscribeLengths, ps), n, post, body)
  <2>1. l = V5 => Fits(UnsubscribeLengths, ps)
    BY <1>1, <1>2, CountedFits
  <2> QED
    BY <1>4, <1>9, <1>13, <2>1, UnsubscribeTablesAgree, IdLaid
<1>15. PICK size : size = WithLengthSize(l, UnsubscribeLengths, ps)
  OBVIOUS
<1>16. /\ body \in Seq(Token(FlagValues)) /\ size \in Nat /\ Size(body) = 2 + size + Size(post)
       /\ Size(post) \in Nat
       /\ At(body, 1, "u16") /\ body[1][2] = n
       /\ Split(l, UnsubscribeReads, Tail(body)) = SplitOk(l, ps, post)
  BY <1>14, <1>15 DEF IdAndProperties
<1>17. UnsubscribeDecoded(2, body, l) = [type |-> "UNSUBSCRIBE", packet_id |-> n,
                                         properties |-> IF l = V4 THEN {} ELSE ps, filters |-> fs]
  <2>1. PICK split : split = Split(l, UnsubscribeReads, Tail(body))
    OBVIOUS
  <2>2. split.ok /\ split.properties = (IF l = V4 THEN {} ELSE ps) /\ split.rest = post
    <3>1. split = SplitOk(l, ps, post)
      BY <1>16, <2>1
    <3> QED
      BY ONLY <3>1 DEF SplitOk
  <2> QED
    BY <1>11, <1>16, <2>1, <2>2 DEF UnsubscribeDecoded
<1>18. Seen(p, l) = [type |-> "UNSUBSCRIBE", packet_id |-> n,
                     properties |-> IF l = V4 THEN {} ELSE ps, filters |-> fs]
  BY <1>3 DEF Seen, Bare, V4, V5
<1>19. p \in ConnectPackets \union OtherPackets
  BY DEF OtherPackets
<1>20. Encoding(p, l).low = 2
  BY <1>1 DEF Encoding, UnsubscribeEncoding
<1>21. Decode(Flag(p, l)[2], body, l) = UnsubscribeDecoded(2, body, l)
  BY <1>1, <1>19, <1>20, FlagIsFlag DEF Decode
<1>22. Flag(p, l) \in {"flag"} \X FlagValues
  BY <1>19, FlagIsFlag
<1> QED
  BY <1>1, <1>12, <1>13, <1>15, <1>16, <1>17, <1>18, <1>21, <1>22 DEF Formatted

\* SUBSCRIBE: length, encoder and decoder agree at both levels; at V4 a
\* filter has its QoS only.
LEMMA SubscribeFormatted ==
  ASSUME NEW p \in SubscribePackets, NEW l \in {V4, V5},
         l = V5 => Counted(SubscribeLengths, p.properties)
  PROVE  Formatted(FlagValues, p, l, {l})
<1>1. /\ p.type = "SUBSCRIBE" /\ p.packet_id \in PacketIds
      /\ p.properties \in PropertySets(SubscribeLengths)
      /\ p.filters \in Seq([path : U16, options : SubscribeOptions])
  BY DEF SubscribePackets
<1>2. PICK n, ps, fs : n = p.packet_id /\ ps = p.properties /\ fs = p.filters
  OBVIOUS
<1>3. p = [type |-> "SUBSCRIBE", packet_id |-> n, properties |-> ps, filters |-> fs]
  BY <1>2 DEF SubscribePackets
<1>4. n \in Nat
  <2>1. n \in PacketIds
    BY <1>1, <1>2
  <2> QED
    BY ONLY <2>1 DEF PacketIds
<1>5. PICK k \in Nat : k = Len(fs) /\ DOMAIN fs = 1..k
  BY <1>1, <1>2
<1>6. \A i \in 1..k : fs[i] \in [path : U16, options : SubscribeOptions]
  BY <1>1, <1>2, <1>5, ElementOfSeq
<1>7. \A i \in 1..k : fs[i].path \in Nat /\ fs[i].options \in SubscribeOptions
  BY <1>6, U16IsNat
<1>8. PICK os : os = [i \in 1..k |-> IF l = V4 THEN V4Options(fs[i].options.qos) ELSE fs[i].options]
  OBVIOUS
<1>9. ASSUME NEW i \in 1..k PROVE os[i] \in SubscribeOptions /\ (l = V4 => os[i] = V4Options(os[i].qos))
  <2>1. V4Options(fs[i].options.qos) \in SubscribeOptions
    BY <1>7 DEF V4Options, SubscribeOptions
  <2>2. l = V4 => V4Options(os[i].qos) = os[i]
    BY <1>8 DEF V4Options
  <2> QED
    BY <1>7, <1>8, <2>1, <2>2
<1>10. PICK x : x = [i \in 1..k |-> <<<<"str", fs[i].path>>, <<"flags", os[i]>>>>]
  OBVIOUS
<1>11. ASSUME NEW i \in 1..k
       PROVE  /\ x[i] \in Seq(Token(FlagValues)) /\ Len(x[i]) = 2
              /\ Size(x[i]) = 2 + fs[i].path + 1
              /\ x[i][1] = <<"str", fs[i].path>> /\ x[i][2] = <<"flags", os[i]>>
  <2>1. PICK a, b : a = <<"str", fs[i].path>> /\ b = <<"flags", os[i]>>
    OBVIOUS
  <2>2. a \in Token(FlagValues)
    BY <1>7, <2>1 DEF Token
  <2>3. b \in Token(FlagValues)
    BY <1>9, <2>1 DEF Token, FlagValues
  <2>4. TokenSize(a) = 2 + fs[i].path /\ TokenSize(b) = 1
    BY <2>1, KindSizes
  <2>5. <<a, b>> \in Seq(Token(FlagValues)) /\ Size(<<a, b>>) = TokenSize(a) + TokenSize(b)
    BY <2>2, <2>3, SizeOfTwo
  <2>6. x[i] = <<a, b>>
    BY <1>10, <2>1
  <2> QED
    BY <2>1, <2>4, <2>5, <2>6
<1>12. x \in Seq(Seq(Token(FlagValues))) /\ Len(x) = k
  <2>1. x \in [1..k -> Seq(Token(FlagValues))]
    BY <1>10, <1>11
  <2> QED
    BY <2>1
<1>13. PICK post : post = FlattenSeq(x)
  OBVIOUS
<1>14. /\ post \in Seq(Token(FlagValues)) /\ Alternates(x, post, k)
       /\ Size(post) = SumFunction([i \in 1..k |-> Size(x[i])])
  <2>1. \A i \in 1..Len(x) : Len(x[i]) = 2
    BY <1>11, <1>12
  <2>2. /\ FlattenSeq(x) \in Seq(Token(FlagValues)) /\ Alternates(x, FlattenSeq(x), Len(x))
        /\ Size(FlattenSeq(x)) = SumFunction([i \in 1..Len(x) |-> Size(x[i])])
    BY <1>12, <2>1, PairsFlattened
  <2> QED
    BY <1>12, <1>13, <2>2
<1>15. Size(post) = SumFunction([i \in 1..k |-> 2 + fs[i].path + 1])
  <2>1. [i \in 1..k |-> Size(x[i])] = [i \in 1..k |-> 2 + fs[i].path + 1]
    BY <1>11
  <2> QED
    BY <1>14, <2>1
<1>16. /\ Len(post) = 2 * k /\ DOMAIN post = 1..(2 * k)
       /\ \A i \in 1..k : /\ post[2 * i - 1] = <<"str", fs[i].path>>
                          /\ post[2 * i] = <<"flags", os[i]>>
  <2>1. /\ Len(post) = 2 * k
        /\ \A i \in 1..k : post[2 * i - 1] = x[i][1] /\ post[2 * i] = x[i][2]
    BY <1>14 DEF Alternates
  <2>2. DOMAIN post = 1..(2 * k)
    BY <1>14, <2>1
  <2> QED
    BY <1>11, <2>1, <2>2
<1>17. FiltersReadable(post, l)
  <2>1. ASSUME NEW j \in 1..(2 * k)
        PROVE  /\ At(post, j, IF j % 2 = 1 THEN "str" ELSE "flags")
               /\ l = V4 /\ j % 2 = 0 => post[j][2] = V4Options(post[j][2].qos)
    <3>1. CASE j % 2 = 1
      <4>1. PICK i \in 1..k : j = 2 * i - 1
        <5>1. (j + 1) \div 2 \in 1..k /\ j = 2 * ((j + 1) \div 2) - 1
          BY <3>1
        <5> QED
          BY <5>1
      <4>2. post[j][1] = "str"
        <5>1. post[2 * i - 1] = <<"str", fs[i].path>>
          BY <1>16
        <5> QED
          BY <4>1, <5>1
      <4> QED
        BY <1>16, <3>1, <4>2 DEF At
    <3>2. CASE j % 2 # 1
      <4>1. PICK i \in 1..k : j = 2 * i
        <5>1. j \div 2 \in 1..k /\ j = 2 * (j \div 2)
          BY <3>2
        <5> QED
          BY <5>1
      <4>2. post[j][1] = "flags" /\ post[j][2] = os[i]
        BY <1>16, <4>1
      <4> QED
        BY <1>9, <1>16, <3>2, <4>2 DEF At
    <3> QED
      BY <3>1, <3>2
  <2>2. Len(post) % 2 = 0
    BY <1>16
  <2> QED
    BY <1>16, <2>1, <2>2 DEF FiltersReadable
<1>18. PICK gs : gs = [i \in 1..k |-> [path |-> fs[i].path, options |-> os[i]]]
  OBVIOUS
<1>19. [i \in 1..(Len(post) \div 2) |-> [path |-> post[2 * i - 1][2], options |-> post[2 * i][2]]] = gs
  <2>1. Len(post) \div 2 = k
    BY <1>16
  <2>2. \A i \in 1..k : post[2 * i - 1][2] = fs[i].path /\ post[2 * i][2] = os[i]
    BY <1>16
  <2> QED
    BY <1>18, <2>1, <2>2
<1>20. PICK body : body = Encoding(p, l).body
  OBVIOUS
<1>21. /\ InThree(<<<<"u16", n>>>>, WithLength(l, SubscribeLengths, SubscribeWrites, ps), post, body)
       /\ Encoding(p, l).size = 2 + WithLengthSize(l, SubscribeLengths, ps) + Size(post)
  <2>1. p.filters = fs /\ DOMAIN p.filters = 1..k
    BY <1>2, <1>5
  <2>2. Encoding(p, l) = SubscribeEncoding(p, l)
    BY <1>1 DEF Encoding
  <2>3. x = [i \in DOMAIN p.filters |-> FilterEncoding(p.filters[i], l)]
    BY <1>8, <1>10, <2>1 DEF FilterEncoding
  <2>4. post = FlattenSeq([i \in DOMAIN p.filters |-> FilterEncoding(p.filters[i], l)])
    BY <1>13, <2>3
  <2>5. Size(post) = SumFunction([i \in DOMAIN p.filters |-> 2 + p.filters[i].path + 1])
    BY <1>15, <2>1
  <2> QED
    BY <1>2, <1>20, <2>2, <2>4, <2>5 DEF SubscribeEncoding, SubscribeLength, InThree
<1>22. IdAndProperties(FlagValues, l, SubscribeReads, ps, WithLengthSize(l, SubscribeLengths, ps), n, post, body)
  <2>1. l = V5 => Fits(SubscribeLengths, ps)
    BY <1>1, <1>2, CountedFits
  <2> QED
    BY <1>4, <1>14, <1>21, <2>1, SubscribeTablesAgree, IdLaid
<1>23. PICK size : size = WithLengthSize(l, SubscribeLengths, ps)
  OBVIOUS
<1>24. /\ body \in Seq(Token(FlagValues)) /\ size \in Nat /\ Size(body) = 2 + size + Size(post)
       /\ Size(post) \in Nat
       /\ At(body, 1, "u16") /\ body[1][2] = n
       /\ Split(l, SubscribeReads, Tail(body)) = SplitOk(l, ps, post)
  BY <1>22, <1>23 DEF IdAndProperties
<1>25. SubscribeDecoded(2, body, l) = [type |-> "SUBSCRIBE", packet_id |-> n,
                                       properties |-> IF l = V4 THEN {} ELSE ps, filters |-> gs]
  <2>1. PICK split : split = Split(l, SubscribeReads, Tail(body))
    OBVIOUS
  <2>2. split.ok /\ split.properties = (IF l = V4 THEN {} ELSE ps) /\ split.rest = post
    <3>1. split = SplitOk(l, ps, post)
      BY <1>24, <2>1
    <3> QED
      BY ONLY <3>1 DEF SplitOk
  <2> QED
    BY <1>17, <1>19, <1>24, <2>1, <2>2 DEF SubscribeDecoded
<1>26. Seen(p, l) = [type |-> "SUBSCRIBE", packet_id |-> n,
                     properties |-> IF l = V4 THEN {} ELSE ps, filters |-> gs]
  <2>1. CASE l = V5
    <3>1. fs = [i \in 1..k |-> fs[i]] /\ l # V4
      BY <1>1, <1>2, <1>5, <2>1 DEF V4, V5
    <3>2. \A i \in 1..k : fs[i] = [path |-> fs[i].path, options |-> fs[i].options]
      BY <1>6
    <3>3. gs = fs
      BY <1>8, <1>18, <3>1, <3>2
    <3> QED
      BY <1>3, <2>1, <3>1, <3>3 DEF Seen
  <2>2. CASE l = V4
    <3>1. gs = [i \in DOMAIN fs |-> SeenOptions(fs[i])]
      BY <1>5, <1>8, <1>18, <2>2 DEF SeenOptions
    <3>2. Bare(p) = [type |-> "SUBSCRIBE", packet_id |-> n, properties |-> {}, filters |-> fs]
      BY <1>3 DEF Bare
    <3>3. Seen(p, l) = [Bare(p) EXCEPT !.filters = [i \in DOMAIN @ |-> SeenOptions(@[i])]]
      BY <1>3, <2>2 DEF Seen, V4, V5
    <3> QED
      BY <2>2, <3>1, <3>2, <3>3
  <2> QED
    BY <2>1, <2>2
<1>27. p \in ConnectPackets \union OtherPackets
  BY DEF OtherPackets
<1>28. Encoding(p, l).low = 2
  BY <1>1 DEF Encoding, SubscribeEncoding
<1>29. Decode(Flag(p, l)[2], body, l) = SubscribeDecoded(2, body, l)
  BY <1>1, <1>27, <1>28, FlagIsFlag DEF Decode
<1>30. Flag(p, l) \in {"flag"} \X FlagValues
  BY <1>27, FlagIsFlag
<1> QED
  BY <1>1, <1>20, <1>21, <1>23, <1>24, <1>25, <1>26, <1>29, <1>30 DEF Formatted

\* PINGREQ and PINGRESP are two bytes at both levels.
LEMMA PingFormatted ==
  ASSUME NEW p \in PingPackets, NEW l \in {V4, V5}
  PROVE  Formatted(FlagValues, p, l, {l})
<1>1. p.type \in {"PINGREQ", "PINGRESP"} /\ p = [type |-> p.type]
  BY DEF PingPackets
<1>2. Encoding(p, l) = [low |-> 0, size |-> 0, body |-> <<>>]
  BY <1>1 DEF Encoding
<1>3. Seen(p, l) = p
  BY <1>1 DEF Seen, Bare
<1>4. p \in ConnectPackets \union OtherPackets
  BY DEF OtherPackets
<1>5. Flag(p, l) \in {"flag"} \X FlagValues /\ Flag(p, l)[2].type = p.type
  BY <1>4, FlagIsFlag
<1>6. Decode(Flag(p, l)[2], <<>>, l) = p
  BY <1>1, <1>5 DEF Decode
<1>7. Encoding(p, l).size = 0 /\ Encoding(p, l).body = <<>> /\ <<>> \in Seq(Token(FlagValues))
  BY <1>2
<1> QED
  BY <1>3, <1>5, <1>6, <1>7, SizeOfNone DEF Formatted

\* Properties are never split off nothing.
LEMMA SplitNeedsSome ==
  ASSUME NEW reads, NEW ps, NEW r, NEW ts, Split(V5, reads, ts) = SplitOk(V5, ps, r)
  PROVE  ts # <<>>
<1>1. SUFFICES ASSUME ts = <<>> PROVE FALSE
  OBVIOUS
<1>2. ~At(ts, 1, "len")
  BY <1>1 DEF At
<1>3. Split(V5, reads, ts) = [ok |-> FALSE]
  BY <1>2 DEF Split, V4, V5
<1>4. Split(V5, reads, ts).ok = TRUE
  BY DEF SplitOk
<1> QED
  BY <1>3, <1>4

\* One byte and properties.
LEMMA DisconnectFormatted ==
  ASSUME NEW p \in DisconnectPackets, NEW l \in {V4, V5},
         l = V5 => Counted(DisconnectLengths, p.properties)
  PROVE  Formatted(FlagValues, p, l, {l})
<1>1. /\ p.type = "DISCONNECT" /\ p.reason_code \in DisconnectReasonCodes
      /\ p.properties \in PropertySets(DisconnectLengths)
  BY DEF DisconnectPackets
<1>2. PICK c, ps : c = p.reason_code /\ ps = p.properties
  OBVIOUS
<1>3. p = [type |-> "DISCONNECT", reason_code |-> c, properties |-> ps]
  BY <1>2 DEF DisconnectPackets
<1>4. c \in Nat
  <2>1. c \in DisconnectReasonCodes
    BY <1>1, <1>2
  <2> QED
    BY ONLY <2>1 DEF DisconnectReasonCodes
<1>5. PICK body, size : body = Encoding(p, l).body /\ size = Encoding(p, l).size
  OBVIOUS
<1>6. PICK t : t = <<"u8", c>>
  OBVIOUS
<1>7. t \in Token(FlagValues) /\ <<t>> \in Seq(Token(FlagValues)) /\ <<>> \in Seq(Token(FlagValues))
  BY <1>4, <1>6 DEF Token
<1>8. Size(<<t>>) = 1
  BY <1>6, <1>7, SizeOfOne, KindSizes
<1> DEFINE Packet(k, qs) == [type |-> "DISCONNECT", reason_code |-> k, properties |-> qs]
           Good == /\ size \in Nat /\ body \in Seq(Token(FlagValues)) /\ Size(body) = size
                   /\ DisconnectDecoded(body, l) = (IF l = V4 THEN Packet(0, {}) ELSE p)
<1>9. /\ body = (IF l = V5 /\ (c # 0 \/ ps # {}) THEN <<t>> ELSE <<>>)
                \o (IF l = V5 /\ ps # {}
                    THEN WithLength(V5, DisconnectLengths, DisconnectWrites, ps) ELSE <<>>)
      /\ size = DisconnectLength(p, l)
  BY <1>1, <1>2, <1>5, <1>6 DEF Encoding, DisconnectEncoding
<1>10. ASSUME l = V4 \/ (c = 0 /\ ps = {}) PROVE Good
  <2>1. body = <<>> /\ size = 0
    BY <1>2, <1>9, <1>10, ConcatEmptySeq DEF DisconnectLength, V4, V5
  <2>2. DisconnectDecoded(<<>>, l) = Packet(0, {})
    BY DEF DisconnectDecoded
  <2>3. l # V4 => p = Packet(0, {})
    BY <1>3, <1>10
  <2> QED
    BY <1>7, <1>10, <2>1, <2>2, <2>3, SizeOfNone
<1>11. ASSUME l = V5 /\ c # 0 /\ ps = {} PROVE Good
  <2>1. body = <<t>> /\ size = 1 /\ l # V4
    BY <1>2, <1>7, <1>9, <1>11, ConcatEmptySeq DEF DisconnectLength, V4, V5
  <2>2. At(<<t>>, 1, "u8") /\ <<t>>[1][2] = c /\ Len(<<t>>) = 1 /\ <<t>> # <<>>
    BY <1>6 DEF At
  <2>3. c \in DisconnectReasonCodes
    BY <1>1, <1>2
  <2>4. DisconnectDecoded(<<t>>, l) = Packet(c, {})
    BY <1>11, <2>2, <2>3 DEF DisconnectDecoded
  <2> QED
    BY <1>3, <1>7, <1>8, <1>11, <2>1, <2>4
<1>12. ASSUME l = V5 /\ ps # {} PROVE Good
  <2>1. PICK w : w = WithLength(V5, DisconnectLengths, DisconnectWrites, ps)
    OBVIOUS
  <2>2. body = <<t>> \o w /\ size = 1 + WithLengthSize(V5, DisconnectLengths, ps) /\ l # V4
    BY <1>2, <1>9, <1>12, <2>1 DEF DisconnectLength, V4, V5
  <2>3. Fits(DisconnectLengths, ps)
    BY <1>1, <1>2, <1>12, CountedFits
  <2>4. V5 \in {V4, V5}
    OBVIOUS
  <2>5. w \in Seq(Token(FlagValues))
    BY <1>7, <2>1, <2>3, <2>4, DisconnectTablesAgree, WithLengthIsSplit
  <2>6. InThree(<<t>>, w, <<>>, body)
    <3>1. <<t>> \o w \in Seq(Token(FlagValues))
      BY <1>7, <2>5, FirstToken
    <3>2. (<<t>> \o w) \o <<>> = <<t>> \o w
      BY <3>1, ConcatEmptySeq
    <3> QED
      BY <2>2, <3>2 DEF InThree
  <2>7. Laid(FlagValues, V5, DisconnectReads, ps, WithLengthSize(V5, DisconnectLengths, ps), <<t>>, <<>>, body)
    BY <1>7, <2>1, <2>3, <2>4, <2>6, DisconnectTablesAgree, BodyLaid
  <2>8. Len(<<t>>) = 1 /\ <<t>>[1] = t
    OBVIOUS
  <2>9. /\ body \in Seq(Token(FlagValues)) /\ size \in Nat /\ Size(body) = size
        /\ 1 \in DOMAIN body /\ body[1] = t
        /\ Split(V5, DisconnectReads, From(body, 2)) = SplitOk(V5, ps, <<>>)
    <3>1. PICK z : z = WithLengthSize(V5, DisconnectLengths, ps)
      OBVIOUS
    <3>2. /\ body \in Seq(Token(FlagValues)) /\ z \in Nat /\ Size(body) = Size(<<t>>) + z + Size(<<>>)
          /\ 1 \in DOMAIN body /\ body[1] = t
          /\ Split(V5, DisconnectReads, From(body, 2)) = SplitOk(V5, ps, <<>>)
      BY <2>7, <2>8, <3>1 DEF Laid
    <3> QED
      BY <1>8, <2>2, <3>1, <3>2, SizeOfNone
  <2>10. Tail(body) = From(body, 2) /\ body # <<>>
    BY <2>9, TailIsFrom
  <2>11. Len(body) > 1
    <3>1. Tail(body) # <<>>
      BY <2>9, <2>10, SplitNeedsSome
    <3>2. Len(Tail(body)) = Len(body) - 1 /\ Tail(body) \in Seq(Token(FlagValues)) /\ Len(body) \in Nat
      BY <2>9, <2>10, HeadTailProperties
    <3> QED
      BY <3>1, <3>2, EmptySeq
  <2>12. PICK split : split = Split(V5, DisconnectReads, Tail(body))
    OBVIOUS
  <2>13. split.ok /\ split.properties = ps
    <3>1. split = SplitOk(V5, ps, <<>>)
      BY <2>9, <2>10, <2>12
    <3> QED
      BY ONLY <3>1 DEF SplitOk, V4, V5
  <2>14. At(body, 1, "u8") /\ body[1][2] = c /\ c \in DisconnectReasonCodes
    BY <1>1, <1>2, <1>6, <2>9 DEF At
  <2>15. DisconnectDecoded(body, l) = Packet(c, ps)
    BY <1>12, <2>10, <2>11, <2>12, <2>13, <2>14 DEF DisconnectDecoded
  <2> QED
    BY <1>3, <2>2, <2>9, <2>15
<1>13. Good
  BY <1>10, <1>11, <1>12
<1>14. Seen(p, l) = IF l = V4 THEN Packet(0, {}) ELSE p
  <2>1. CASE l = V5
    BY <2>1 DEF Seen, V4, V5
  <2>2. CASE l = V4
    <3>1. Bare(p) = Packet(c, {})
      BY <1>3 DEF Bare
    <3>2. Seen(p, l) = [Bare(p) EXCEPT !.reason_code = 0]
      BY <1>3, <2>2 DEF Seen, V4, V5
    <3> QED
      BY <2>2, <3>1, <3>2
  <2> QED
    BY <2>1, <2>2
<1>15. p \in ConnectPackets \union OtherPackets
  BY DEF OtherPackets
<1>16. Decode(Flag(p, l)[2], body, l) = DisconnectDecoded(body, l)
  BY <1>1, <1>15, FlagIsFlag DEF Decode
<1>17. Flag(p, l) \in {"flag"} \X FlagValues
  BY <1>15, FlagIsFlag
<1>18. Seen(p, l).type = p.type
  BY <1>1, <1>14
<1> QED
  BY <1>5, <1>13, <1>14, <1>16, <1>17, <1>18 DEF Formatted

AckPacket(type, n, c, ps) == [type |-> type, packet_id |-> n, reason_code |-> c, properties |-> ps]
AckRight(type, codes, p, l) ==
  /\ AckHeaderLength(p, l) \in Nat
  /\ AckBody(p, l) \in Seq(Token(FlagValues)) /\ Size(AckBody(p, l)) = AckHeaderLength(p, l)
  /\ AckDecoded(type, codes, AckBody(p, l), l)
       = IF l = V4 THEN AckPacket(type, p.packet_id, 0, {}) ELSE p

\* PUBACK, PUBREC, PUBREL and PUBCOMP are written alike: whether reason code
\* and properties are there can be told from where the packet ends.
LEMMA AckIsRight ==
  ASSUME NEW type, NEW codes, codes \subseteq Nat, 0 \in codes,
         NEW p \in AckPackets(type, codes), NEW l \in {V4, V5},
         l = V5 => Counted(AckLengths, p.properties)
  PROVE  AckRight(type, codes, p, l)
<1>1. /\ p.packet_id \in PacketIds /\ p.reason_code \in codes
      /\ p.properties \in PropertySets(AckLengths)
  BY DEF AckPackets
<1>2. PICK n, c, ps : n = p.packet_id /\ c = p.reason_code /\ ps = p.properties
  OBVIOUS
<1>3. p = AckPacket(type, n, c, ps)
  BY <1>2 DEF AckPackets, AckPacket
<1>4. n \in Nat /\ c \in Nat /\ c \in codes
  <2>1. n \in PacketIds
    BY <1>1, <1>2
  <2>2. n \in Nat
    BY ONLY <2>1 DEF PacketIds
  <2> QED
    BY <1>1, <1>2, <2>2
<1>5. PICK t, u : t = <<"u16", n>> /\ u = <<"u8", c>>
  OBVIOUS
<1>6. t \in Token(FlagValues) /\ u \in Token(FlagValues)
  BY <1>4, <1>5 DEF Token
<1>7. TokenSize(t) = 2 /\ TokenSize(u) = 1
  BY <1>5, KindSizes
<1>8. PICK body, size : body = AckBody(p, l) /\ size = AckHeaderLength(p, l)
  OBVIOUS
<1>9. /\ body = (<<t>> \o (IF l = V5 /\ (c # 0 \/ ps # {}) THEN <<u>> ELSE <<>>))
                 \o (IF l = V5 /\ ps # {} THEN WithLength(V5, AckLengths, AckWrites, ps) ELSE <<>>)
      /\ size = IF l = V4 THEN 2 ELSE IF ps # {} THEN 2 + 1 + WithLengthSize(V5, AckLengths, ps)
                ELSE IF c = 0 THEN 2 ELSE 3
  BY <1>2, <1>5, <1>8 DEF AckBody, AckHeaderLength
<1> DEFINE Good == /\ size \in Nat /\ body \in Seq(Token(FlagValues)) /\ Size(body) = size
                   /\ AckDecoded(type, codes, body, l)
                        = (IF l = V4 THEN AckPacket(type, n, 0, {}) ELSE p)
<1>10. <<>> \in Seq(Token(FlagValues)) /\ <<t>> \in Seq(Token(FlagValues))
  BY <1>6
<1>11. <<t, u>> \in Seq(Token(FlagValues)) /\ Size(<<t, u>>) = 3 /\ Size(<<t>>) = 2
  BY <1>6, <1>7, SizeOfOne, SizeOfTwo
<1>12. ReadIn(From(<<>>, 2)) = {}
  <2>1. From(<<>>, 2) = <<>>
    BY DEF From
  <2>2. DOMAIN <<>> = {}
    OBVIOUS
  <2> QED
    BY <2>1, <2>2 DEF ReadIn
<1>13. ASSUME l = V4 \/ (c = 0 /\ ps = {}) PROVE Good
  <2>1. body = <<t>> /\ size = 2
    <3>0. ~(l = V5 /\ (c # 0 \/ ps # {})) /\ ~(l = V5 /\ ps # {}) /\ (l = V4 \/ (ps = {} /\ c = 0))
      BY <1>13 DEF V4, V5
    <3>1. body = (<<t>> \o <<>>) \o <<>> /\ size = 2
      <4>1. body = (<<t>> \o <<>>) \o <<>>
        BY ONLY <1>9, <3>0
      <4>2. size = 2
        BY ONLY <1>9, <3>0
      <4> QED
        BY <4>1, <4>2
    <3>2. <<t>> \o <<>> = <<t>>
      BY <1>10, ConcatEmptySeq
    <3> QED
      BY <3>1, <3>2
  <2>2. At(<<t>>, 1, "u16") /\ <<t>>[1][2] = n /\ Len(<<t>>) = 1
    BY <1>5 DEF At
  <2>3. From(<<t>>, 3) = <<>>
    BY <1>10 DEF From
  <2>4. AckDecoded(type, codes, <<t>>, l) = AckPacket(type, n, 0, {})
    <3>1. (IF l = V5 /\ Len(<<t>>) > 1 THEN <<t>>[2] ELSE <<"u8", 0>>) = <<"u8", 0>>
      BY <2>2
    <3>2. (IF l = V5 THEN From(<<t>>, 3) ELSE <<>>) = <<>>
      BY <2>3
    <3>3. <<"u8", 0>>[1] = "u8" /\ <<"u8", 0>>[2] = 0
      OBVIOUS
    <3> QED
      BY <1>12, <2>2, <3>1, <3>2, <3>3 DEF AckDecoded, AckPacket
  <2>5. l # V4 => p = AckPacket(type, n, 0, {})
    BY <1>3, <1>13
  <2> QED
    BY <1>10, <1>11, <2>1, <2>4, <2>5
<1>14. ASSUME l = V5, c # 0, ps = {} PROVE Good
  <2>1. body = <<t, u>> /\ size = 3 /\ l # V4
    <3>1. <<t>> \o <<u>> = <<t, u>>
      BY <1>6, PairIsConcat
    <3>2. body = (<<t>> \o <<u>>) \o <<>> /\ size = 3 /\ l # V4
      BY <1>9, <1>14 DEF V4, V5
    <3>3. <<t, u>> \o <<>> = <<t, u>>
      BY <1>11, ConcatEmptySeq
    <3> QED
      BY <3>1, <3>2, <3>3
  <2>2. /\ At(<<t, u>>, 1, "u16") /\ <<t, u>>[1][2] = n /\ Len(<<t, u>>) = 2
        /\ <<t, u>>[2] = u /\ u[1] = "u8" /\ u[2] = c
    BY <1>5 DEF At
  <2>3. From(<<t, u>>, 3) = <<>>
    BY <1>11 DEF From
  <2>4. AckDecoded(type, codes, <<t, u>>, l) = AckPacket(type, n, c, {})
    <3>1. (IF l = V5 /\ Len(<<t, u>>) > 1 THEN <<t, u>>[2] ELSE <<"u8", 0>>) = u
      BY <1>14, <2>2
    <3>2. (IF l = V5 THEN From(<<t, u>>, 3) ELSE <<>>) = <<>>
      BY <2>3
    <3> QED
      BY <1>4, <1>12, <2>2, <3>1, <3>2 DEF AckDecoded, AckPacket
  <2> QED
    BY <1>3, <1>11, <1>14, <2>1, <2>4
<1>15. ASSUME l = V5, ps # {} PROVE Good
  <2>1. PICK w, k, z : w = Written(AckWrites, ps) /\ k = BytesLength(AckLengths, ps) /\ z = <<"len", k>>
    OBVIOUS
  <2>2. Fits(AckLengths, ps)
    BY <1>1, <1>2, <1>15, CountedFits
  <2>3. Tells(FlagValues, AckLengths, AckReads, w, ps)
    BY <2>1, <2>2, TellsWritten, AckTablesAgree DEF Fits
  <2>4. w \in Seq(Token(FlagValues)) /\ Size(w) = k /\ Readable(AckReads, w) /\ ReadIn(w) = ps
    BY <2>1, <2>3 DEF Tells
  <2>5. k \in Nat
    BY <2>4, SizeOfSome
  <2>6. z \in Token(FlagValues) /\ z[1] = "len" /\ z[2] = k
    BY <2>1, <2>5 DEF Token
  <2>7. PICK rest : rest = <<z>> \o w
    OBVIOUS
  <2>8. WithLength(V5, AckLengths, AckWrites, ps) = rest
    BY <2>1, <2>7 DEF WithLength, V4, V5
  <2>9. V5 \in {V4, V5} /\ l # V4
    BY <1>15 DEF V4, V5
  <2>10. /\ rest \in Seq(Token(FlagValues)) /\ Size(rest) = WithLengthSize(V5, AckLengths, ps)
         /\ WithLengthSize(V5, AckLengths, ps) \in Nat
    BY <1>10, <2>2, <2>8, <2>9, AckTablesAgree, WithLengthIsSplit
  <2>11. body = <<t, u>> \o rest
    <3>1. <<t>> \o <<u>> = <<t, u>>
      BY <1>6, PairIsConcat
    <3> QED
      BY <1>9, <1>15, <2>8, <3>1
  <2>12. size = 3 + WithLengthSize(V5, AckLengths, ps)
    BY <1>9, <1>15, <2>9, <2>10
  <2>13. body \in Seq(Token(FlagValues)) /\ Size(body) = size
    <3>1. Size(<<t, u>> \o rest) = Size(<<t, u>>) + Size(rest)
      BY <1>11, <2>10, SizeOfConcat
    <3>2. <<t, u>> \o rest \in Seq(Token(FlagValues))
      BY <1>11, <2>10, ConcatProperties
    <3> QED
      BY <1>11, <2>10, <2>11, <2>12, <3>1, <3>2
  <2>14. PICK pre : pre = <<t, u>>
    OBVIOUS
  <2>15. pre \in Seq(Token(FlagValues)) /\ Len(pre) = 2 /\ pre[1] = t /\ pre[2] = u
    BY <1>11, <2>14
  <2>16. From(body, 3) = rest
    <3>1. From(pre \o rest, Len(pre) + 1) = rest
      BY <2>10, <2>15, PartsOfConcat
    <3> QED
      BY <2>11, <2>14, <2>15, <3>1
  <2>17. /\ Len(body) > 1 /\ 1 \in DOMAIN body /\ body[1] = t /\ body[2] = u
    <3>1. PICK m \in Nat : m = Len(rest)
      BY <2>10
    <3>2. /\ Len(pre \o rest) = Len(pre) + Len(rest)
          /\ \A i \in 1..(Len(pre) + Len(rest)) :
               (pre \o rest)[i] = IF i <= Len(pre) THEN pre[i] ELSE rest[i - Len(pre)]
      BY <2>10, <2>15, ConcatProperties
    <3>3. Len(body) = 2 + m /\ \A i \in 1..(2 + m) : body[i] = IF i <= 2 THEN pre[i] ELSE rest[i - 2]
      BY <2>11, <2>14, <2>15, <3>1, <3>2
    <3>4. DOMAIN body = 1..(2 + m)
      BY <2>13, <3>3
    <3>5. body[1] = pre[1] /\ body[2] = pre[2]
      BY <3>3
    <3> QED
      BY <2>15, <3>3, <3>4, <3>5
  <2>18. /\ 1 \in DOMAIN rest /\ rest[1] = z /\ From(rest, 2) = w
    <3>1. <<z>> \in Seq(Token(FlagValues)) /\ Len(<<z>>) = 1
      BY <2>6
    <3>2. From(<<z>> \o w, Len(<<z>>) + 1) = w
      BY <2>4, <3>1, PartsOfConcat
    <3>3. Head(rest) = z /\ rest # <<>>
      BY <2>4, <2>6, <2>7, FirstToken
    <3>4. 1 \in DOMAIN rest /\ rest[1] = z
      BY <2>10, <3>3
    <3> QED
      BY <2>7, <3>1, <3>2, <3>4
  <2>19. AckDecoded(type, codes, body, l) = AckPacket(type, n, c, ps)
    <3>1. (IF l = V5 /\ Len(body) > 1 THEN body[2] ELSE <<"u8", 0>>) = u
      BY <1>15, <2>17
    <3>2. (IF l = V5 THEN From(body, 3) ELSE <<>>) = rest
      BY <1>15, <2>16
    <3>3. At(body, 1, "u16") /\ body[1][2] = n /\ u[1] = "u8" /\ u[2] = c
      BY <1>5, <2>17 DEF At
    <3>4. At(rest, 1, "len") /\ rest[1][2] = k
      BY <2>6, <2>18 DEF At
    <3>5. Size(w) >= k
      BY <2>4, <2>5
    <3> QED
      BY <1>4, <2>4, <2>18, <3>1, <3>2, <3>3, <3>4, <3>5 DEF AckDecoded, AckPacket
  <2> QED
    BY <1>3, <2>9, <2>10, <2>12, <2>13, <2>19
<1>16. Good
  BY <1>13, <1>14, <1>15
<1> QED
  BY <1>2, <1>8, <1>16 DEF AckRight

\* The four acknowledgements: length, encoder and decoder agree at both
\* levels.
LEMMA AckFormatted ==
  ASSUME NEW p \in AnyAckPackets, NEW l \in {V4, V5}, l = V5 => Counted(AckLengths, p.properties)
  PROVE  Formatted(FlagValues, p, l, {l})
<1>1. PICK type, codes :
        /\ <<type, codes>> \in {<<"PUBACK", PubAckReasonCodes>>, <<"PUBREC", PubRecReasonCodes>>,
                                <<"PUBREL", PubRelReasonCodes>>, <<"PUBCOMP", PubCompReasonCodes>>}
        /\ p \in AckPackets(type, codes)
  BY DEF AnyAckPackets
<1>2. codes \subseteq Nat /\ 0 \in codes
  BY <1>1 DEF PubAckReasonCodes, PubRecReasonCodes, PubRelReasonCodes, PubCompReasonCodes
<1>3. AckRight(type, codes, p, l)
  BY <1>1, <1>2, AckIsRight
<1>4. p.type = type /\ p = AckPacket(type, p.packet_id, p.reason_code, p.properties)
  BY <1>1 DEF AckPackets, AckPacket
<1>5. Encoding(p, l).size = AckHeaderLength(p, l) /\ Encoding(p, l).body = AckBody(p, l)
  BY <1>1, <1>4 DEF Encoding, PubAckEncoding, PubRecEncoding, PubRelEncoding, PubCompEncoding, AckEncoding
<1>6. type = "PUBREL" => Encoding(p, l).low = 2
  BY <1>4 DEF Encoding, PubRelEncoding, AckEncoding
<1>7. p \in ConnectPackets \union OtherPackets
  BY DEF OtherPackets
<1>8. /\ Flag(p, l) \in {"flag"} \X FlagValues /\ Flag(p, l)[2].type = type
      /\ Flag(p, l)[2].low = Encoding(p, l).low
  BY <1>4, <1>7, FlagIsFlag
<1>9. Decode(Flag(p, l)[2], AckBody(p, l), l) = AckDecoded(type, codes, AckBody(p, l), l)
  BY <1>1, <1>6, <1>8 DEF Decode, PubAckDecoded, PubRecDecoded, PubRelDecoded, PubCompDecoded
<1>10. Seen(p, l) = IF l = V4 THEN AckPacket(type, p.packet_id, 0, {}) ELSE p
  <2>1. CASE l = V5
    BY <2>1 DEF Seen, V4, V5
  <2>2. CASE l = V4
    <3>1. Bare(p) = AckPacket(type, p.packet_id, p.reason_code, {})
      BY <1>1, <1>4 DEF Bare, AckPacket
    <3>2. Seen(p, l) = [Bare(p) EXCEPT !.reason_code = 0]
      BY <1>1, <1>4, <2>2 DEF Seen, V4, V5
    <3> QED
      BY <2>2, <3>1, <3>2 DEF AckPacket
  <2> QED
    BY <2>1, <2>2
<1>11. Seen(p, l).type = p.type
  BY <1>4, <1>10 DEF AckPacket
<1> QED
  BY <1>3, <1>5, <1>8, <1>9, <1>10, <1>11 DEF Formatted, AckRight

\* CONNACK: length, encoder and decoder agree at both levels; at V4 the
\* reason code goes through that of V4.
LEMMA ConnAckFormatted ==
  ASSUME NEW p \in ConnAckPackets, NEW l \in {V4, V5}, l = V5 => Counted(ConnAckLengths, p.properties)
  PROVE  Formatted(FlagValues, p, l, {l})
<1>1. /\ p.type = "CONNACK" /\ p.session_present \in BOOLEAN /\ p.reason_code \in ConnectReasonCodes
      /\ p.properties \in PropertySets(ConnAckLengths)
  BY DEF ConnAckPackets
<1>2. PICK sp, c, ps : sp = p.session_present /\ c = p.reason_code /\ ps = p.properties
  OBVIOUS
<1>3. p = [type |-> "CONNACK", session_present |-> sp, reason_code |-> c, properties |-> ps]
  BY <1>2 DEF ConnAckPackets
<1>4. PICK s, k : s = (IF sp THEN 1 ELSE 0) /\ k = (IF l = V4 THEN ConnectReasonCodeV4(c) ELSE c)
  OBVIOUS
<1>5. PICK codes : codes = IF l = V4 THEN 0..5 ELSE ConnectReasonCodes
  OBVIOUS
<1>6. ConnectReasonCodeV4(c) \in 0..5 /\ c \in ConnectReasonCodes /\ c \in Nat
  <2>1. c \in ConnectReasonCodes
    BY <1>1, <1>2
  <2>2. c \in Nat
    BY ONLY <2>1 DEF ConnectReasonCodes
  <2>3. ConnectReasonCodeV4(c) \in 0..5
    BY ONLY <2>2 DEF ConnectReasonCodeV4
  <2> QED
    BY <2>1, <2>2, <2>3
<1>7. s \in {0, 1} /\ (s = 1) = sp /\ k \in Nat /\ k \in codes
  <2>1. s \in {0, 1} /\ (s = 1) = sp
    BY <1>1, <1>2, <1>4
  <2>2. k \in Nat /\ k \in codes
    BY <1>4, <1>5, <1>6
  <2> QED
    BY <2>1, <2>2
<1>8. PICK a, b, pre : a = <<"u8", s>> /\ b = <<"u8", k>> /\ pre = <<a, b>>
  OBVIOUS
<1>9. a \in Token(FlagValues) /\ b \in Token(FlagValues) /\ TokenSize(a) = 1 /\ TokenSize(b) = 1
  <2>1. TokenSize(a) = 1 /\ TokenSize(b) = 1
    BY <1>8, KindSizes
  <2>2. s \in Nat /\ k \in Nat
    BY <1>7
  <2>3. a \in Token(FlagValues) /\ b \in Token(FlagValues)
    BY ONLY <1>8, <2>2 DEF Token
  <2> QED
    BY <2>1, <2>3
<1>10. pre \in Seq(Token(FlagValues)) /\ Size(pre) = 2 /\ Len(pre) = 2 /\ pre[1] = a /\ pre[2] = b
  BY <1>8, <1>9, SizeOfTwo
<1>11. <<>> \in Seq(Token(FlagValues))
  OBVIOUS
<1>12. PICK body, w : body = Encoding(p, l).body /\ w = WithLength(l, ConnAckLengths, ConnAckWrites, ps)
  OBVIOUS
<1>13. body = pre \o w /\ Encoding(p, l).size = 2 + WithLengthSize(l, ConnAckLengths, ps)
  BY <1>1, <1>2, <1>4, <1>8, <1>12 DEF Encoding, ConnAckEncoding, ConnAckLength
<1>14. l = V5 => Fits(ConnAckLengths, ps)
  BY <1>1, <1>2, CountedFits
<1>15. w \in Seq(Token(FlagValues))
  BY <1>11, <1>12, <1>14, ConnAckTablesAgree, WithLengthIsSplit
<1>16. InThree(pre, w, <<>>, body)
  <2>1. pre \o w \in Seq(Token(FlagValues))
    BY <1>10, <1>15, ConcatProperties
  <2>2. (pre \o w) \o <<>> = pre \o w
    BY <2>1, ConcatEmptySeq
  <2> QED
    BY <1>13, <2>2 DEF InThree
<1>17. Laid(FlagValues, l, ConnAckReads, ps, WithLengthSize(l, ConnAckLengths, ps), pre, <<>>, body)
  BY <1>10, <1>11, <1>12, <1>14, <1>16, ConnAckTablesAgree, BodyLaid
<1>18. PICK size : size = WithLengthSize(l, ConnAckLengths, ps)
  OBVIOUS
<1>19. /\ body \in Seq(Token(FlagValues)) /\ size \in Nat /\ Size(body) = 2 + size
       /\ 1 \in DOMAIN body /\ body[1] = a /\ 2 \in DOMAIN body /\ body[2] = b
       /\ Split(l, ConnAckReads, From(body, 3)) = SplitOk(l, ps, <<>>)
  BY <1>10, <1>17, <1>18, SizeOfNone DEF Laid
<1>20. PICK r : r = IF l = V4 THEN ConnectReasonCode(k) ELSE k
  OBVIOUS
<1>21. ConnAckDecoded(body, l) = [type |-> "CONNACK", session_present |-> sp, reason_code |-> r,
                                  properties |-> IF l = V4 THEN {} ELSE ps]
  <2>1. PICK split : split = Split(l, ConnAckReads, From(body, 3))
    OBVIOUS
  <2>2. split.ok /\ split.properties = (IF l = V4 THEN {} ELSE ps)
    <3>1. split = SplitOk(l, ps, <<>>)
      BY <1>19, <2>1
    <3> QED
      BY ONLY <3>1 DEF SplitOk
  <2>3. At(body, 1, "u8") /\ body[1][2] = s /\ At(body, 2, "u8") /\ body[2][2] = k
    BY <1>8, <1>19 DEF At
  <2> QED
    BY <1>5, <1>7, <1>20, <2>1, <2>2, <2>3 DEF ConnAckDecoded
<1>22. Seen(p, l) = [type |-> "CONNACK", session_present |-> sp, reason_code |-> r,
                     properties |-> IF l = V4 THEN {} ELSE ps]
  <2>1. CASE l = V5
    BY <1>3, <1>4, <1>20, <2>1 DEF Seen, V4, V5
  <2>2. CASE l = V4
    <3>1. Bare(p) = [type |-> "CONNACK", session_present |-> sp, reason_code |-> c, properties |-> {}]
      BY <1>3 DEF Bare
    <3>2. Seen(p, l) = [Bare(p) EXCEPT !.reason_code = ConnectReasonCode(ConnectReasonCodeV4(@))]
      BY <1>3, <2>2 DEF Seen, V4, V5
    <3>3. r = ConnectReasonCode(ConnectReasonCodeV4(c))
      BY <1>4, <1>20, <2>2
    <3> QED
      BY <2>2, <3>1, <3>2, <3>3
  <2> QED
    BY <2>1, <2>2
<1>23. p \in ConnectPackets \union OtherPackets
  BY DEF OtherPackets
<1>24. Decode(Flag(p, l)[2], body, l) = ConnAckDecoded(body, l)
  BY <1>1, <1>23, FlagIsFlag DEF Decode
<1>25. Flag(p, l) \in {"flag"} \X FlagValues
  BY <1>23, FlagIsFlag
<1>26. Seen(p, l).type = p.type
  BY <1>1, <1>22
<1> QED
  BY <1>12, <1>13, <1>18, <1>19, <1>21, <1>22, <1>24, <1>25, <1>26 DEF Formatted

\* PUBLISH: length, encoder and decoder agree at both levels; the payload is
\* what is left.
LEMMA PublishFormatted ==
  ASSUME NEW p \in PublishPackets, NEW l \in {V4, V5}, l = V5 => Counted(PublishLengths, p.properties)
  PROVE  Formatted(FlagValues, p, l, {l})
<1>1. /\ p.type = "PUBLISH" /\ p.qos \in 0..2 /\ p.topic \in U16
      /\ p.packet_id \in {None} \union PacketIds /\ p.payload \in Nat
      /\ p.properties \in PropertySets(PublishLengths)
      /\ p.packet_id = None <=> p.qos = 0
      /\ p = [type |-> "PUBLISH", dup |-> p.dup, qos |-> p.qos, retain |-> p.retain, topic |-> p.topic,
              packet_id |-> p.packet_id, properties |-> p.properties, payload |-> p.payload]
  BY DEF PublishPackets
<1>2. PICK q, t, id, ps, d :
        q = p.qos /\ t = p.topic /\ id = p.packet_id /\ ps = p.properties /\ d = p.payload
  OBVIOUS
<1>3. t \in Nat /\ d \in Nat
  BY <1>1, <1>2, U16IsNat
<1>4. PICK a, b : a = <<"str", t>> /\ b = <<"u16", id>>
  OBVIOUS
<1>5. a \in Token(FlagValues) /\ TokenSize(a) = 2 + t
  BY <1>3, <1>4, KindSizes DEF Token
<1>6. PICK n, pre : n = (IF q = 0 THEN 1 ELSE 2) /\ pre = (IF q = 0 THEN <<a>> ELSE <<a, b>>)
  OBVIOUS
<1>7. /\ pre \in Seq(Token(FlagValues)) /\ Len(pre) = n /\ n \in {1, 2} /\ pre[1] = a
      /\ n = 2 => pre[2] = b
      /\ Size(pre) = 2 + t + (IF q # 0 THEN 2 ELSE 0)
  <2>1. CASE q = 0
    <3>1. <<a>> \in Seq(Token(FlagValues)) /\ Size(<<a>>) = 2 + t
      BY <1>5, SizeOfOne
    <3> QED
      BY <1>3, <1>6, <2>1, <3>1
  <2>2. CASE q # 0
    <3>1. id \in PacketIds
      BY <1>1, <1>2, <2>2
    <3>2. id \in Nat
      BY ONLY <3>1 DEF PacketIds
    <3>3. b \in Token(FlagValues) /\ TokenSize(b) = 2
      BY <1>4, <3>2, KindSizes DEF Token
    <3>4. <<a, b>> \in Seq(Token(FlagValues)) /\ Size(<<a, b>>) = (2 + t) + 2
      BY <1>5, <3>3, SizeOfTwo
    <3> QED
      BY <1>3, <1>6, <2>2, <3>4
  <2> QED
    BY <2>1, <2>2
<1>8. PICK post : post = IF d > 0 THEN <<<<"raw", d>>>> ELSE <<>>
  OBVIOUS
<1>9. post \in Seq(Token(FlagValues)) /\ Size(post) = d
  <2>1. CASE d > 0
    <3>1. PICK z : z = <<"raw", d>>
      OBVIOUS
    <3>2. z \in Token(FlagValues) /\ TokenSize(z) = d
      <4>1. d \in Nat \ {0}
        BY <1>3, <2>1
      <4>2. z \in Token(FlagValues)
        BY ONLY <3>1, <4>1 DEF Token
      <4> QED
        BY <3>1, <4>2, KindSizes
    <3>3. <<z>> \in Seq(Token(FlagValues)) /\ Size(<<z>>) = d
      BY <3>2, SizeOfOne
    <3> QED
      BY <1>8, <2>1, <3>1, <3>3
  <2>2. CASE ~(d > 0)
    BY <1>3, <1>8, <2>2, SizeOfNone
  <2> QED
    BY <2>1, <2>2
<1>10. PICK body, w : body = Encoding(p, l).body /\ w = WithLength(l, PublishLengths, PublishWrites, ps)
  OBVIOUS
<1>11. /\ body = ((<<a>> \o (IF id # None THEN <<b>> ELSE <<>>)) \o w) \o post
       /\ Encoding(p, l).size = 2 + t + (IF q # 0 THEN 2 ELSE 0) + WithLengthSize(l, PublishLengths, ps) + d
  BY <1>1, <1>2, <1>4, <1>8, <1>10 DEF Encoding, PublishEncoding, PublishLength
<1>12. pre = <<a>> \o (IF id # None THEN <<b>> ELSE <<>>)
  <2>1. CASE q = 0
    <3>1. <<a>> \o <<>> = <<a>>
      BY <1>5, ConcatEmptySeq
    <3> QED
      BY <1>1, <1>2, <1>6, <2>1, <3>1
  <2>2. CASE q # 0
    <3>1. <<a, b>> = <<a>> \o <<b>>
      <4>1. a \in {a, b} /\ b \in {a, b}
        OBVIOUS
      <4> QED
        BY <4>1, PairIsConcat
    <3> QED
      BY <1>1, <1>2, <1>6, <2>2, <3>1
  <2> QED
    BY <2>1, <2>2
<1>13. InThree(pre, w, post, body)
  BY <1>11, <1>12 DEF InThree
<1>14. l = V5 => Fits(PublishLengths, ps)
  BY <1>1, <1>2, CountedFits
<1>15. Laid(FlagValues, l, PublishReads, ps, WithLengthSize(l, PublishLengths, ps), pre, post, body)
  BY <1>7, <1>9, <1>10, <1>13, <1>14, PublishTablesAgree, BodyLaid
<1>16. PICK size : size = WithLengthSize(l, PublishLengths, ps)
  OBVIOUS
<1>17. /\ body \in Seq(Token(FlagValues)) /\ size \in Nat /\ Size(body) = Size(pre) + size + d
       /\ 1 \in DOMAIN body /\ body[1] = a /\ (n = 2 => 2 \in DOMAIN body /\ body[2] = b)
       /\ Split(l, PublishReads, From(body, n + 1)) = SplitOk(l, ps, post)
  BY <1>7, <1>9, <1>15, <1>16 DEF Laid
<1>18. PICK low : low = [dup |-> p.dup, qos |-> q, retain |-> p.retain]
  OBVIOUS
<1>19. PublishDecoded(low, body, l)
         = [type |-> "PUBLISH", dup |-> p.dup, qos |-> q, retain |-> p.retain, topic |-> t,
            packet_id |-> id, properties |-> IF l = V4 THEN {} ELSE ps, payload |-> d]
  <2>1. PICK split : split = Split(l, PublishReads, From(body, n + 1))
    OBVIOUS
  <2>2. split.ok /\ split.properties = (IF l = V4 THEN {} ELSE ps) /\ split.rest = post
    <3>1. split = SplitOk(l, ps, post)
      BY <1>17, <2>1
    <3> QED
      BY ONLY <3>1 DEF SplitOk
  <2>3. At(body, 1, "str") /\ body[1][2] = t /\ (n = 2 => At(body, 2, "u16") /\ body[2][2] = id)
    BY <1>4, <1>17 DEF At
  <2>4. n = (IF low.qos = 0 THEN 1 ELSE 2) /\ low.dup = p.dup /\ low.qos = q /\ low.retain = p.retain
    BY <1>6, <1>18
  <2>5. (IF n = 2 THEN body[2][2] ELSE None) = id
    BY <1>1, <1>2, <1>6, <2>3
  <2>6. Size(split.rest) = d
    BY <1>9, <2>2
  <2> QED
    BY <2>1, <2>2, <2>3, <2>4, <2>5, <2>6 DEF PublishDecoded
<1>20. Seen(p, l) = [type |-> "PUBLISH", dup |-> p.dup, qos |-> q, retain |-> p.retain, topic |-> t,
                     packet_id |-> id, properties |-> IF l = V4 THEN {} ELSE ps, payload |-> d]
  <2>1. CASE l = V5
    BY <1>1, <1>2, <2>1 DEF Seen, V4, V5
  <2>2. CASE l = V4
    BY <1>1, <1>2, <2>2 DEF Seen, Bare, V4, V5
  <2> QED
    BY <2>1, <2>2
<1>21. p \in ConnectPackets \union OtherPackets
  BY DEF OtherPackets
<1>22. Encoding(p, l).low = low
  BY <1>1, <1>2, <1>18 DEF Encoding, PublishEncoding
<1>23. Decode(Flag(p, l)[2], body, l) = PublishDecoded(low, body, l)
  BY <1>1, <1>21, <1>22, FlagIsFlag DEF Decode
<1>24. Flag(p, l) \in {"flag"} \X FlagValues
  BY <1>21, FlagIsFlag
<1>25. Seen(p, l).type = p.type
  BY <1>1, <1>20
<1>26. Encoding(p, l).size = Size(body) /\ Size(body) \in Nat
  <2>1. PICK e \in Nat : e = IF q # 0 THEN 2 ELSE 0
    OBVIOUS
  <2>2. Encoding(p, l).size = 2 + t + e + size + d
    BY <1>11, <1>16, <2>1
  <2>3. Size(body) = 2 + t + e + size + d /\ size \in Nat
    BY <1>7, <1>17, <2>1
  <2> QED
    BY ONLY <1>3, <2>1, <2>2, <2>3
<1> QED
  BY <1>10, <1>17, <1>19, <1>20, <1>23, <1>24, <1>25, <1>26 DEF Formatted

\* The end of CONNECT.
LoginTokens(login) ==
  (IF HasUsername(login) THEN <<<<"str", login.username>>>> ELSE <<>>)
    \o (IF HasPassword(login) THEN <<<<"str", login.password>>>> ELSE <<>>)
LoginSize(login) ==
  (IF HasUsername(login) THEN 2 + login.username ELSE 0)
    + (IF HasPassword(login) THEN 2 + login.password ELSE 0)
LoginReads(login, ts) ==
  \A flags : flags.username = HasUsername(login) /\ flags.password = HasPassword(login)
               => ReadLogin(flags, ts) = [ok |-> TRUE, login |-> login]

\* A login with a user name is read as it was written, with or without a
\* password.
LEMMA LoginIsRead ==
  ASSUME NEW V, NEW login \in {None} \union LoginPackets, login # None => login.username > 0
  PROVE  /\ LoginTokens(login) \in Seq(Token(V)) /\ Size(LoginTokens(login)) = LoginSize(login)
         /\ LoginSize(login) \in Nat
         /\ LoginReads(login, LoginTokens(login))
<1> DEFINE Names2(flags) == {k \in {"username", "password"} : flags[k]}
<1>1. <<>> \in Seq(Token(V))
  OBVIOUS
<1>2. CASE login = None
  <2>1. ~HasUsername(login) /\ ~HasPassword(login)
    BY <1>2 DEF HasUsername, HasPassword
  <2>2. LoginTokens(login) = <<>> /\ LoginSize(login) = 0
    BY <1>1, <2>1, ConcatEmptySeq DEF LoginTokens, LoginSize
  <2>3. ASSUME NEW flags, flags.username = FALSE, flags.password = FALSE
        PROVE  ReadLogin(flags, <<>>) = [ok |-> TRUE, login |-> None]
    <3>1. Names2(flags) = {}
      BY <2>3
    <3>2. Cardinality(Names2(flags)) = 0
      BY <3>1, FS_EmptySet
    <3>3. ~\E i \in 1..0 : ~At(<<>>, i, "str")
      OBVIOUS
    <3> QED
      BY <2>3, <3>2, <3>3 DEF ReadLogin
  <2>4. HasUsername(login) = FALSE /\ HasPassword(login) = FALSE
    BY <1>2 DEF HasUsername, HasPassword
  <2>5. LoginReads(login, <<>>)
    BY <1>2, <2>3, <2>4 DEF LoginReads
  <2> QED
    BY <1>1, <2>2, <2>5, SizeOfNone
<1>3. CASE login # None
  <2>1. login \in LoginPackets /\ login.username \in Nat /\ login.password \in Nat /\ login.username > 0
    BY <1>3, U16IsNat DEF LoginPackets
  <2>2. PICK u, w : u = login.username /\ w = login.password
    OBVIOUS
  <2>3. login = [username |-> u, password |-> w] /\ u \in Nat /\ w \in Nat /\ u > 0
    BY <2>1, <2>2 DEF LoginPackets
  <2>4. PICK a, b : a = <<"str", u>> /\ b = <<"str", w>>
    OBVIOUS
  <2>5. a \in Token(V) /\ b \in Token(V)
    BY <2>3, <2>4 DEF Token
  <2>6. TokenSize(a) = 2 + u /\ TokenSize(b) = 2 + w
    BY <2>4, KindSizes
  <2>7. HasUsername(login) = TRUE
    BY <1>3, <2>1 DEF HasUsername
  <2>8. CASE w = 0
    <3>1. HasPassword(login) = FALSE
      BY <2>2, <2>8 DEF HasPassword
    <3>2. LoginTokens(login) = <<a>> /\ LoginSize(login) = 2 + u
      <4>1. <<a>> \o <<>> = <<a>>
        BY <2>5, ConcatEmptySeq
      <4>2. LoginTokens(login) = <<a>> \o <<>>
        BY <2>2, <2>4, <2>7, <3>1 DEF LoginTokens
      <4>3. LoginSize(login) = 2 + u
        BY <2>2, <2>3, <2>7, <3>1 DEF LoginSize
      <4> QED
        BY <4>1, <4>2, <4>3
    <3>3. <<a>> \in Seq(Token(V)) /\ Size(<<a>>) = 2 + u
      BY <2>5, <2>6, SizeOfOne
    <3>4. ASSUME NEW flags, flags.username = TRUE, flags.password = FALSE
          PROVE  ReadLogin(flags, <<a>>) = [ok |-> TRUE, login |-> login]
      <4>1. Names2(flags) = {"username"}
        BY <3>4
      <4>2. Cardinality(Names2(flags)) = 1
        BY <4>1, FS_Singleton
      <4>3. At(<<a>>, 1, "str") /\ <<a>>[1][2] = u
        BY <2>4 DEF At
      <4>4. ~\E i \in 1..1 : ~At(<<a>>, i, "str")
        BY <4>3
      <4> QED
        BY <2>3, <2>8, <3>4, <4>2, <4>3, <4>4 DEF ReadLogin
    <3>5. LoginReads(login, <<a>>)
      BY <2>7, <3>1, <3>4 DEF LoginReads
    <3>6. LoginSize(login) \in Nat
      BY ONLY <2>3, <3>2
    <3> QED
      BY ONLY <3>2, <3>3, <3>5, <3>6
  <2>9. CASE w > 0
    <3>1. HasPassword(login) = TRUE
      BY <1>3, <2>2, <2>9 DEF HasPassword
    <3>2. LoginTokens(login) = <<a, b>> /\ LoginSize(login) = (2 + u) + (2 + w)
      <4>1. <<a, b>> = <<a>> \o <<b>>
        BY <2>5, PairIsConcat
      <4>2. LoginTokens(login) = <<a>> \o <<b>>
        BY <2>2, <2>4, <2>7, <3>1 DEF LoginTokens
      <4>3. LoginSize(login) = (2 + u) + (2 + w)
        BY <2>2, <2>3, <2>7, <3>1 DEF LoginSize
      <4> QED
        BY <4>1, <4>2, <4>3
    <3>3. <<a, b>> \in Seq(Token(V)) /\ Size(<<a, b>>) = (2 + u) + (2 + w)
      BY <2>5, <2>6, SizeOfTwo
    <3>4. ASSUME NEW flags, flags.username = TRUE, flags.password = TRUE
          PROVE  ReadLogin(flags, <<a, b>>) = [ok |-> TRUE, login |-> login]
      <4>1. Names2(flags) = {"username"} \union {"password"}
        BY <3>4
      <4>2. IsFiniteSet({"username"}) /\ Cardinality({"username"}) = 1
        BY FS_Singleton
      <4>3. "password" \notin {"username"}
        OBVIOUS
      <4>4. Cardinality({"username"} \union {"password"}) = 2
        BY <4>2, <4>3, FS_AddElement
      <4>5. At(<<a, b>>, 1, "str") /\ <<a, b>>[1][2] = u /\ At(<<a, b>>, 2, "str") /\ <<a, b>>[2][2] = w
        BY <2>4 DEF At
      <4>6. ~\E i \in 1..2 : ~At(<<a, b>>, i, "str")
        BY <4>5
      <4>7. Cardinality(Names2(flags)) = 2
        BY <4>1, <4>4
      <4> QED
        BY <2>3, <3>4, <4>5, <4>6, <4>7 DEF ReadLogin
    <3>5. LoginReads(login, <<a, b>>)
      BY <2>7, <3>1, <3>4 DEF LoginReads
    <3>6. LoginSize(login) \in Nat
      BY ONLY <2>3, <3>2
    <3> QED
      BY ONLY <3>2, <3>3, <3>5, <3>6
  <2> QED
    BY <2>3, <2>8, <2>9
<1> QED
  BY <1>2, <1>3

\* A will of level V5.
WillTokens(will) ==
  WithLength(V5, WillLengths, WillWrites, will.properties)
    \o <<<<"str", will.topic>>, <<"str", will.payload>>>>
WillReadIn(will, r, ts) ==
  ReadWill(V5, ts) = [ok |-> TRUE, properties |-> will.properties, topic |-> will.topic,
                      payload |-> will.payload, rest |-> r]

\* A will of V5 is read as it was written, and takes the bytes of its
\* properties, its topic and its payload.
LEMMA WillIsRead ==
  ASSUME NEW V, NEW will \in WillPackets, Counted(WillLengths, will.properties),
         NEW r \in Seq(Token(V))
  PROVE  /\ WillTokens(will) \in Seq(Token(V))
         /\ Size(WillTokens(will))
              = WithLengthSize(V5, WillLengths, will.properties) + 2 + will.topic + 2 + will.payload
         /\ WithLengthSize(V5, WillLengths, will.properties) \in Nat
         /\ WillReadIn(will, r, WillTokens(will) \o r)
<1>1. PICK ps, t, d : ps = will.properties /\ t = will.topic /\ d = will.payload
  OBVIOUS
<1>2. ps \in PropertySets(WillLengths) /\ t \in Nat /\ d \in Nat
  BY <1>1, U16IsNat DEF WillPackets
<1>3. Fits(WillLengths, ps) /\ V5 \in {V4, V5}
  BY <1>1, <1>2, CountedFits
<1>4. PICK a, b, m, w : /\ a = <<"str", t>> /\ b = <<"str", d>> /\ m = <<a, b>>
                        /\ w = WithLength(V5, WillLengths, WillWrites, ps)
  OBVIOUS
<1>5. a \in Token(V) /\ b \in Token(V)
  BY <1>2, <1>4 DEF Token
<1>6. TokenSize(a) = 2 + t /\ TokenSize(b) = 2 + d
  BY <1>4, KindSizes
<1>7. m \in Seq(Token(V)) /\ Size(m) = (2 + t) + (2 + d) /\ Len(m) = 2 /\ m[1] = a /\ m[2] = b
  BY <1>4, <1>5, <1>6, SizeOfTwo
<1>8. PICK u : u = m \o r
  OBVIOUS
<1>9. u \in Seq(Token(V)) /\ 1 \in DOMAIN u /\ u[1] = a /\ 2 \in DOMAIN u /\ u[2] = b /\ From(u, 3) = r
  <2>1. PICK k \in Nat : k = Len(r)
    OBVIOUS
  <2>2. /\ m \o r \in Seq(Token(V)) /\ Len(m \o r) = Len(m) + Len(r)
        /\ \A i \in 1..(Len(m) + Len(r)) : (m \o r)[i] = IF i <= Len(m) THEN m[i] ELSE r[i - Len(m)]
    BY <1>7, ConcatProperties
  <2>3. /\ u \in Seq(Token(V)) /\ Len(u) = 2 + k
        /\ \A i \in 1..(2 + k) : u[i] = IF i <= 2 THEN m[i] ELSE r[i - 2]
    BY <1>7, <1>8, <2>1, <2>2
  <2>4. u[1] = m[1] /\ u[2] = m[2] /\ DOMAIN u = 1..(2 + k)
    BY <2>3
  <2>5. From(m \o r, Len(m) + 1) = r
    BY <1>7, PartsOfConcat
  <2> QED
    BY <1>7, <1>8, <2>3, <2>4, <2>5
<1>10. /\ w \in Seq(Token(V)) /\ Size(w) = WithLengthSize(V5, WillLengths, ps)
       /\ WithLengthSize(V5, WillLengths, ps) \in Nat
       /\ SplitsOff(V5, WillReads, ps, w, u)
  BY <1>3, <1>4, <1>9, WillTablesAgree, WithLengthIsSplit
<1>11. WillTokens(will) = w \o m
  BY <1>1, <1>4 DEF WillTokens
<1>12. w \o m \in Seq(Token(V)) /\ Size(w \o m) = Size(w) + Size(m)
  BY <1>7, <1>10, SizeOfConcat, ConcatProperties
<1>13. (w \o m) \o r = w \o u
  BY <1>7, <1>8, <1>10, ConcatAssociative
<1>14. ReadWill(V5, w \o u) = [ok |-> TRUE, properties |-> ps, topic |-> t, payload |-> d, rest |-> r]
  <2>1. PICK split : split = Split(V5, WillReads, w \o u)
    OBVIOUS
  <2>2. split.ok /\ split.properties = ps /\ split.rest = u
    <3>1. split = SplitOk(V5, ps, u)
      BY <1>10, <2>1 DEF SplitsOff
    <3> QED
      BY ONLY <3>1 DEF SplitOk, V4, V5
  <2>3. At(u, 1, "str") /\ u[1][2] = t /\ At(u, 2, "str") /\ u[2][2] = d
    BY <1>4, <1>9 DEF At
  <2> QED
    BY <1>9, <2>1, <2>2, <2>3 DEF ReadWill
<1>15. WillReadIn(will, r, WillTokens(will) \o r)
  BY <1>1, <1>11, <1>13, <1>14 DEF WillReadIn
<1>16. Size(WillTokens(will)) = WithLengthSize(V5, WillLengths, ps) + 2 + t + 2 + d
  BY <1>2, <1>7, <1>10, <1>11, <1>12
<1> QED
  BY <1>1, <1>10, <1>11, <1>12, <1>15, <1>16

\* CONNECT, piece by piece.
InPieces(pre, w, c, wl, u, v, body) == body = ((((pre \o w) \o c) \o wl) \o u) \o v
After(c, wl, lg, post) == post = c \o (wl \o lg)

Reassociates(a, b, c) == (a \o b) \o c = a \o (b \o c)

\* Three pieces can be joined from either end.
LEMMA ConcatReassociates ==
  ASSUME NEW S, NEW a \in Seq(S), NEW b \in Seq(S), NEW c \in Seq(S)
  PROVE  Reassociates(a, b, c)
BY ConcatAssociative DEF Reassociates

\* The pieces of a CONNECT are what is before its properties, these, and what
\* is behind them.
LEMMA PiecesInThree ==
  ASSUME NEW S, NEW pre \in Seq(S), NEW w \in Seq(S), NEW c \in Seq(S), NEW wl \in Seq(S),
         NEW u \in Seq(S), NEW v \in Seq(S), NEW body, InPieces(pre, w, c, wl, u, v, body),
         NEW post, After(c, wl, u \o v, post)
  PROVE  InThree(pre, w, post, body) /\ post \in Seq(S)
<1>1. PICK x, y, z, lg : x = pre \o w /\ y = x \o c /\ z = y \o wl /\ lg = u \o v
  OBVIOUS
<1>2. x \in Seq(S) /\ y \in Seq(S) /\ z \in Seq(S) /\ lg \in Seq(S)
  BY <1>1, ConcatProperties
<1>3. body = z \o lg
  <2>1. body = (z \o u) \o v
    BY <1>1 DEF InPieces
  <2>2. (z \o u) \o v = z \o (u \o v)
    <3>1. z \in Seq(S) /\ u \in Seq(S) /\ v \in Seq(S)
      BY <1>2
    <3>2. Reassociates(z, u, v)
      BY <3>1, ConcatReassociates
    <3> QED
      BY <3>2 DEF Reassociates
  <2> QED
    BY <1>1, <2>1, <2>2
<1>4. PICK k : k = wl \o lg
  OBVIOUS
<1>5. k \in Seq(S)
  BY <1>2, <1>4, ConcatProperties
<1>6. z \o lg = y \o k
  <2>1. (y \o wl) \o lg = y \o (wl \o lg)
    <3>1. y \in Seq(S) /\ wl \in Seq(S) /\ lg \in Seq(S)
      BY <1>2
    <3>2. Reassociates(y, wl, lg)
      BY <3>1, ConcatReassociates
    <3> QED
      BY <3>2 DEF Reassociates
  <2> QED
    BY <1>1, <1>4, <2>1
<1>7. y \o k = x \o (c \o k)
  <2>1. (x \o c) \o k = x \o (c \o k)
    <3>1. x \in Seq(S) /\ c \in Seq(S) /\ k \in Seq(S)
      BY <1>2, <1>5
    <3>2. Reassociates(x, c, k)
      BY <3>1, ConcatReassociates
    <3> QED
      BY <3>2 DEF Reassociates
  <2> QED
    BY <1>1, <2>1
<1>8. post = c \o k
  BY <1>1, <1>4 DEF After
<1>9. c \o k \in Seq(S)
  BY <1>5, ConcatProperties
<1> QED
  BY <1>1, <1>3, <1>6, <1>7, <1>8, <1>9 DEF InThree

\* CONNECT: length, encoder and decoder agree, whatever level the decoder
\* has, if ConnectCounted.
LEMMA ConnectFormatted ==
  ASSUME NEW p \in ConnectPackets, ConnectCounted(p)
  PROVE  Formatted(FlagValues, p, p.level, {V4, V5})
<1>1. /\ p.type = "CONNECT" /\ p.level \in {V4, V5} /\ p.keep_alive \in U16 /\ p.client_id \in U16
      /\ p.will \in {None} \union WillPackets /\ p.login \in {None} \union LoginPackets
      /\ p.properties \in PropertySets(ConnectLengths)
      /\ p = [type |-> "CONNECT", level |-> p.level, keep_alive |-> p.keep_alive,
              clean_start |-> p.clean_start, client_id |-> p.client_id, will |-> p.will,
              login |-> p.login, properties |-> p.properties]
  BY DEF ConnectPackets
<1>2. PICK l, ka, id, will, login, ps :
        /\ l = p.level /\ ka = p.keep_alive /\ id = p.client_id /\ will = p.will
        /\ login = p.login /\ ps = p.properties
  OBVIOUS
<1>3. /\ l = V5 => Counted(ConnectLengths, ps)
      /\ will # None => /\ l = V5 /\ Counted(WillLengths, will.properties)
                        /\ LengthCount(BytesLength(ConnectLengths, ps))
                             = LengthCount(BytesLength(WillLengths, will.properties))
      /\ login # None => login.username > 0
  BY <1>2 DEF ConnectCounted
<1>4. ka \in Nat /\ id \in Nat /\ l \in {V4, V5} /\ l \in Nat
  <2>1. ka \in Nat /\ id \in Nat /\ l \in {V4, V5}
    BY <1>1, <1>2, U16IsNat
  <2> QED
    BY <2>1 DEF V4, V5
<1>5. PICK F : F = ConnectFlags(p)
  OBVIOUS
<1>6. /\ F \in FlagValues /\ F.clean_start = p.clean_start
      /\ F.username = HasUsername(login) /\ F.password = HasPassword(login)
      /\ F.will = IF will = None THEN None ELSE [qos |-> will.qos, retain |-> will.retain]
  <2>1. F \in FlagValues
    BY <1>5 DEF FlagValues
  <2> QED
    BY <1>2, <1>5, <2>1 DEF ConnectFlags
<1>7. PICK a, b, c, d : a = <<"str", 4>> /\ b = <<"u8", l>> /\ c = <<"flags", F>> /\ d = <<"u16", ka>>
  OBVIOUS
<1>8. a \in Token(FlagValues) /\ b \in Token(FlagValues) /\ c \in Token(FlagValues) /\ d \in Token(FlagValues)
  <2>1. 4 \in Nat
    OBVIOUS
  <2> QED
    BY <1>4, <1>6, <1>7, <2>1 DEF Token
<1>9. TokenSize(a) = 6 /\ TokenSize(b) = 1 /\ TokenSize(c) = 1 /\ TokenSize(d) = 2
  <2>1. TokenSize(a) = 2 + 4 /\ TokenSize(b) = 1 /\ TokenSize(c) = 1 /\ TokenSize(d) = 2
    BY <1>7, KindSizes
  <2> QED
    BY <2>1
<1>10. PICK pre : pre = <<a, b, c, d>>
  OBVIOUS
<1>11. /\ pre \in Seq(Token(FlagValues)) /\ Len(pre) = 4 /\ Size(pre) = 10
       /\ pre[1] = a /\ pre[2] = b /\ pre[3] = c /\ pre[4] = d
  <2>1. pre \in Seq(Token(FlagValues)) /\ Len(pre) = 4 /\ pre[1] = a /\ pre[2] = b /\ pre[3] = c /\ pre[4] = d
    BY <1>8, <1>10
  <2>2. PICK s : s = Sizes(pre)
    OBVIOUS
  <2>3. s[0] = 0 /\ \A i \in 1..4 : s[i] = s[i - 1] + TokenSize(pre[i])
    BY <2>1, <2>2, SizesRecursion
  <2>4. s[1] = s[0] + TokenSize(pre[1]) /\ s[2] = s[1] + TokenSize(pre[2])
    BY <2>3
  <2>5. s[3] = s[2] + TokenSize(pre[3]) /\ s[4] = s[3] + TokenSize(pre[4])
    BY <2>3
  <2>6. s[4] = 10
    BY <1>9, <2>1, <2>3, <2>4, <2>5
  <2> QED
    BY <2>1, <2>2, <2>6 DEF Size
<1>12. PICK t : t = <<"str", id>>
  OBVIOUS
<1>13. t \in Token(FlagValues) /\ TokenSize(t) = 2 + id /\ <<t>> \in Seq(Token(FlagValues))
  <2>1. t \in Token(FlagValues)
    BY <1>4, <1>12 DEF Token
  <2>2. TokenSize(t) = 2 + id
    BY <1>12, KindSizes
  <2>3. <<t>> \in Seq(Token(FlagValues))
    BY <2>1
  <2> QED
    BY <2>1, <2>2, <2>3
<1>14. PICK u, v, lg :
         /\ u = (IF HasUsername(login) THEN <<<<"str", login.username>>>> ELSE <<>>)
         /\ v = (IF HasPassword(login) THEN <<<<"str", login.password>>>> ELSE <<>>)
         /\ lg = u \o v
  OBVIOUS
<1>15. /\ lg \in Seq(Token(FlagValues)) /\ Size(lg) = LoginSize(login) /\ LoginSize(login) \in Nat
       /\ LoginReads(login, lg)
  <2>1. lg = LoginTokens(login)
    BY <1>14 DEF LoginTokens
  <2>2. login \in {None} \union LoginPackets
    BY <1>1, <1>2
  <2> QED
    BY <1>3, <2>1, <2>2, LoginIsRead
<1>16. u \in Seq(Token(FlagValues)) /\ v \in Seq(Token(FlagValues))
  <2>1. login # None => login.username \in Nat /\ login.password \in Nat
    BY <1>1, <1>2, U16IsNat DEF LoginPackets
  <2>2. HasUsername(login) => <<"str", login.username>> \in Token(FlagValues)
    BY <2>1 DEF HasUsername, Token
  <2>3. HasPassword(login) => <<"str", login.password>> \in Token(FlagValues)
    BY <2>1 DEF HasPassword, Token
  <2> QED
    BY <1>14, <2>2, <2>3
<1>17. PICK wl : wl = IF will = None THEN <<>> ELSE WillTokens(will)
  OBVIOUS
<1>18. ASSUME will # None
       PROVE  /\ WillTokens(will) \in Seq(Token(FlagValues))
              /\ Size(WillTokens(will)) = WillLength(p, l) /\ WillLength(p, l) \in Nat
              /\ WillReadIn(will, lg, WillTokens(will) \o lg)
  <2>1. will \in WillPackets
    BY <1>1, <1>2, <1>18
  <2>2. PICK z : z = WithLengthSize(V5, WillLengths, will.properties)
    OBVIOUS
  <2>3. /\ WillTokens(will) \in Seq(Token(FlagValues))
        /\ Size(WillTokens(will)) = z + 2 + will.topic + 2 + will.payload
        /\ z \in Nat /\ WillReadIn(will, lg, WillTokens(will) \o lg)
    BY <1>3, <1>15, <1>18, <2>1, <2>2, WillIsRead
  <2>4. will.topic \in Nat /\ will.payload \in Nat
    BY <2>1, U16IsNat DEF WillPackets
  <2>5. WillLength(p, l) = z + 2 + will.topic + 2 + will.payload
    BY <1>2, <1>3, <1>18, <2>2 DEF WillLength, WithLengthSize, V4, V5
  <2> QED
    BY <2>3, <2>4, <2>5
<1>19. wl \in Seq(Token(FlagValues)) /\ Size(wl) = WillLength(p, l) /\ WillLength(p, l) \in Nat
  <2>1. CASE will = None
    <3>1. wl = <<>> /\ WillLength(p, l) = 0 /\ <<>> \in Seq(Token(FlagValues))
      BY <1>2, <1>17, <2>1 DEF WillLength
    <3> QED
      BY <3>1, SizeOfNone
  <2>2. CASE will # None
    BY <1>17, <1>18, <2>2
  <2> QED
    BY <2>1, <2>2
<1>20. PICK w, body : w = WithLength(l, ConnectLengths, ConnectWrites, ps) /\ body = Encoding(p, l).body
  OBVIOUS
<1>21. /\ InPieces(pre, w, <<t>>, wl, u, v, body)
       /\ Encoding(p, l).size = 10 + WithLengthSize(l, ConnectLengths, ps) + 2 + id + WillLength(p, l)
                                  + (IF HasUsername(login) THEN 2 + login.username ELSE 0)
                                  + (IF HasPassword(login) THEN 2 + login.password ELSE 0)
  <2>1. Encoding(p, l) = ConnectEncoding(p, l)
    BY <1>1 DEF Encoding
  <2>2. wl = IF will = None THEN <<>>
             ELSE WithLength(l, WillLengths, WillWrites, will.properties)
                    \o <<<<"str", will.topic>>, <<"str", will.payload>>>>
    BY <1>3, <1>17 DEF WillTokens
  <2>3. InPieces(pre, w, <<t>>, wl, u, v, body)
    <3>1. pre = <<<<"str", 4>>, <<"u8", l>>, <<"flags", ConnectFlags(p)>>, <<"u16", p.keep_alive>>>>
      BY <1>2, <1>5, <1>7, <1>10
    <3>2. <<t>> = <<<<"str", p.client_id>>>>
      BY <1>2, <1>12
    <3>3. wl = IF p.will = None THEN <<>>
               ELSE WithLength(l, WillLengths, WillWrites, p.will.properties)
                      \o <<<<"str", p.will.topic>>, <<"str", p.will.payload>>>>
      BY <1>2, <2>2
    <3>4. /\ u = (IF HasUsername(p.login) THEN <<<<"str", p.login.username>>>> ELSE <<>>)
          /\ v = (IF HasPassword(p.login) THEN <<<<"str", p.login.password>>>> ELSE <<>>)
          /\ w = WithLength(l, ConnectLengths, ConnectWrites, p.properties)
          /\ body = ConnectEncoding(p, l).body
      BY <1>2, <1>14, <1>20, <2>1
    <3> QED
      BY ONLY <3>1, <3>2, <3>3, <3>4 DEF ConnectEncoding, InPieces
  <2> QED
    BY <1>2, <2>1, <2>3 DEF ConnectEncoding, ConnectLength
<1>22. PICK x, post : x = wl \o lg /\ post = <<t>> \o x
  OBVIOUS
<1>23. l = V5 => Fits(ConnectLengths, ps)
  BY <1>1, <1>2, <1>3, CountedFits
<1>24. w \in Seq(Token(FlagValues))
  <2>1. <<>> \in Seq(Token(FlagValues))
    OBVIOUS
  <2> QED
    BY <1>4, <1>20, <1>23, <2>1, ConnectTablesAgree, WithLengthIsSplit
<1>25. InThree(pre, w, post, body) /\ post \in Seq(Token(FlagValues))
  <2>1. After(<<t>>, wl, u \o v, post)
    BY <1>14, <1>22 DEF After
  <2> QED
    BY <1>11, <1>13, <1>16, <1>19, <1>21, <1>24, <2>1, PiecesInThree
<1>26. Laid(FlagValues, l, ConnectReads, ps, WithLengthSize(l, ConnectLengths, ps), pre, post, body)
  BY <1>4, <1>11, <1>20, <1>23, <1>25, ConnectTablesAgree, BodyLaid
<1>27. x \in Seq(Token(FlagValues)) /\ Size(x) = Size(wl) + Size(lg)
  BY <1>15, <1>19, <1>22, SizeOfConcat, ConcatProperties
<1>28. /\ Size(post) = TokenSize(t) + Size(x) /\ 1 \in DOMAIN post /\ post[1] = t /\ Tail(post) = x
  <2>1. Size(post) = TokenSize(t) + Size(x) /\ Head(post) = t /\ post # <<>>
    BY <1>13, <1>22, <1>27, FirstToken
  <2>2. 1 \in DOMAIN post /\ post[1] = t
    BY <1>25, <2>1
  <2>3. Tail(post) = From(post, 2)
    BY <1>25, <2>1, TailIsFrom
  <2>4. Len(<<t>>) = 1
    OBVIOUS
  <2>5. From(post, 2) = x
    <3>1. From(<<t>> \o x, Len(<<t>>) + 1) = x
      BY <1>13, <1>27, PartsOfConcat
    <3>2. From(<<t>> \o x, 2) = x
      BY ONLY <2>4, <3>1
    <3>3. post = <<t>> \o x
      BY ONLY <1>22
    <3> QED
      BY ONLY <3>2, <3>3
  <2> QED
    BY <2>1, <2>2, <2>3, <2>5
<1>29. PICK size : size = WithLengthSize(l, ConnectLengths, ps)
  OBVIOUS
<1>30. /\ body \in Seq(Token(FlagValues)) /\ size \in Nat /\ Size(body) = 10 + size + Size(post)
       /\ \A i \in 1..4 : i \in DOMAIN body /\ body[i] = pre[i]
       /\ Split(l, ConnectReads, From(body, 5)) = SplitOk(l, ps, post)
  BY <1>11, <1>26, <1>29 DEF Laid
<1>31. Encoding(p, l).size = Size(body) /\ Size(body) \in Nat
  <2>1. PICK e, f : /\ e = (IF HasUsername(login) THEN 2 + login.username ELSE 0)
                    /\ f = (IF HasPassword(login) THEN 2 + login.password ELSE 0)
    OBVIOUS
  <2>2. Encoding(p, l).size = 10 + size + 2 + id + WillLength(p, l) + e + f
    BY <1>21, <1>29, <2>1
  <2>3. LoginSize(login) = e + f
    BY <2>1 DEF LoginSize
  <2>4. e \in Nat /\ f \in Nat
    <3>1. login # None => login.username \in Nat /\ login.password \in Nat
      BY <1>1, <1>2, U16IsNat DEF LoginPackets
    <3> QED
      BY <2>1, <3>1 DEF HasUsername, HasPassword
  <2>5. PICK k \in Nat : k = WillLength(p, l)
    BY <1>19
  <2>6. Size(post) = (2 + id) + (k + (e + f))
    BY <1>13, <1>15, <1>19, <1>27, <1>28, <2>3, <2>5
  <2>7. Size(body) = 10 + size + ((2 + id) + (k + (e + f)))
    BY <1>30, <2>6
  <2>8. id \in Nat /\ size \in Nat
    BY <1>4, <1>30
  <2>9. Encoding(p, l).size = 10 + size + 2 + id + k + e + f
    BY <2>2, <2>5
  <2> QED
    BY ONLY <2>4, <2>7, <2>8, <2>9, k \in Nat
<1>32. PICK out : out = [type |-> "CONNECT", level |-> l, keep_alive |-> ka,
                         clean_start |-> p.clean_start, client_id |-> id, will |-> will,
                         login |-> login, properties |-> IF l = V4 THEN {} ELSE ps]
  OBVIOUS
<1>33. ASSUME NEW m PROVE ConnectDecoded(body, m) = out
  <2>1. /\ At(body, 1, "str") /\ body[1][2] = 4 /\ At(body, 2, "u8") /\ body[2][2] = l
        /\ At(body, 3, "flags") /\ body[3][2] = F /\ At(body, 4, "u16") /\ body[4][2] = ka
    <3>1. /\ 1 \in DOMAIN body /\ body[1] = a /\ 2 \in DOMAIN body /\ body[2] = b
          /\ 3 \in DOMAIN body /\ body[3] = c /\ 4 \in DOMAIN body /\ body[4] = d
      BY <1>11, <1>30
    <3> QED
      BY <1>7, <3>1 DEF At
  <2>2. PICK split : split = Split(l, ConnectReads, From(body, 5))
    OBVIOUS
  <2>3. split.ok /\ split.properties = (IF l = V4 THEN {} ELSE ps) /\ split.rest = post
    <3>1. split = SplitOk(l, ps, post)
      BY <1>30, <2>2
    <3> QED
      BY ONLY <3>1 DEF SplitOk
  <2>4. At(split.rest, 1, "str") /\ split.rest[1][2] = id /\ Tail(split.rest) = x
    BY <1>12, <1>28, <2>3 DEF At
  <2>5. PICK wr : wr = IF F.will = None THEN [ok |-> TRUE, rest |-> Tail(split.rest)]
                       ELSE ReadWill(l, Tail(split.rest))
    OBVIOUS
  <2>6. PICK wo : wo = IF F.will = None THEN None
                       ELSE [qos |-> F.will.qos, retain |-> F.will.retain, topic |-> wr.topic,
                             payload |-> wr.payload, properties |-> wr.properties]
    OBVIOUS
  <2>7. wr.ok /\ wr.rest = lg /\ wo = will
    <3>1. ASSUME will = None PROVE wr.ok /\ wr.rest = lg /\ wo = will
      <4>1. F.will = None
        BY <1>6, <3>1
      <4>2. x = lg
        <5>1. <<>> \o lg = lg
          BY <1>15, ConcatEmptySeq
        <5> QED
          BY <1>17, <1>22, <3>1, <5>1
      <4>3. wr = [ok |-> TRUE, rest |-> lg]
        BY <2>4, <2>5, <4>1, <4>2
      <4> QED
        BY <2>6, <3>1, <4>1, <4>3
    <3>2. ASSUME will # None PROVE wr.ok /\ wr.rest = lg /\ wo = will
      <4>1. will \in WillPackets /\ l = V5
        BY <1>1, <1>2, <1>3, <3>2
      <4>2. /\ will = [qos |-> will.qos, retain |-> will.retain, topic |-> will.topic,
                       payload |-> will.payload, properties |-> will.properties]
            /\ [qos |-> will.qos, retain |-> will.retain] \in [qos : 0..2, retain : BOOLEAN]
        BY <4>1 DEF WillPackets
      <4>3. F.will = [qos |-> will.qos, retain |-> will.retain] /\ F.will # None
        BY <1>6, <3>2, <4>2, NoneAssumption
      <4>4. ReadWill(V5, x) = [ok |-> TRUE, properties |-> will.properties, topic |-> will.topic,
                               payload |-> will.payload, rest |-> lg]
        <5>1. WillReadIn(will, lg, WillTokens(will) \o lg)
          BY <1>18, <3>2
        <5>2. x = WillTokens(will) \o lg
          BY <1>17, <1>22, <3>2
        <5> QED
          BY <5>1, <5>2 DEF WillReadIn
      <4>5. wr = [ok |-> TRUE, properties |-> will.properties, topic |-> will.topic,
                  payload |-> will.payload, rest |-> lg]
        BY <2>4, <2>5, <4>1, <4>3, <4>4
      <4>6. wr.ok /\ wr.rest = lg
        BY ONLY <4>5
      <4>7. wr.topic = will.topic /\ wr.payload = will.payload /\ wr.properties = will.properties
        BY ONLY <4>5
      <4>8. F.will.qos = will.qos /\ F.will.retain = will.retain
        BY ONLY <4>3
      <4>9. wo = will
        BY ONLY <2>6, <4>2, <4>3, <4>7, <4>8
      <4> QED
        BY <4>6, <4>9
    <3> QED
      BY <3>1, <3>2
  <2>8. ReadLogin(F, lg) = [ok |-> TRUE, login |-> login]
    BY <1>6, <1>15 DEF LoginReads
  <2>9. ReadLogin(F, wr.rest).ok /\ ReadLogin(F, wr.rest).login = login
    BY <2>7, <2>8
  <2> QED
    BY <1>4, <1>6, <1>32, <2>1, <2>2, <2>3, <2>4, <2>5, <2>6, <2>7, <2>9 DEF ConnectDecoded
<1>34. Seen(p, l) = out
  <2>1. CASE l = V5
    BY <1>1, <1>2, <1>32, <2>1 DEF Seen, V4, V5
  <2>2. CASE l = V4
    <3>1. Seen(p, l) = [p EXCEPT !.properties = {}]
      BY <1>1, <2>2 DEF Seen, Bare, V4, V5
    <3> QED
      BY <1>1, <1>2, <1>32, <2>2, <3>1
  <2> QED
    BY <1>4, <2>1, <2>2
<1>35. /\ Flag(p, l) \in {"flag"} \X FlagValues /\ Flag(p, l)[2].type = "CONNECT"
  BY <1>1, <1>4, FlagIsFlag
<1>36. \A m : Decode(Flag(p, l)[2], body, m) = ConnectDecoded(body, m)
  BY <1>35 DEF Decode
<1>37. Seen(p, l).type = p.type
  BY <1>1, <1>32, <1>34
<1>38. Formatted(FlagValues, p, l, {V4, V5})
  BY <1>20, <1>30, <1>31, <1>33, <1>34, <1>35, <1>36, <1>37 DEF Formatted
<1> QED
  BY <1>2, <1>38
===============================================================================
