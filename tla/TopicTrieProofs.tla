---------------------------- MODULE TopicTrieProofs ----------------------------
(***************************************************************************)
(* For any filters, topics, share names and clients: the trees keep the    *)
(* promise of TopicTable, have no dead branches, count right, and a walk   *)
(* over them finds what the filters say.                                   *)
(*                                                                         *)
(* Taking a node out of its parent drops what is below it, so the question *)
(* is whether anything is.  EmptyOnPath and EmptyAnywhere look at the      *)
(* nodes that are there; that a missing node holds nothing is the second   *)
(* half of the invariant.  The rest of it is the shape of the trees: the   *)
(* way to a node is there (Grown), and data and retained messages are at   *)
(* the ends of filters and topics only (AtEnds).                           *)
(*                                                                         *)
(* The walks are recursive functions.  A function that meets the recursive *)
(* equation is given, and StepByStep shows that no other does.             *)
(***************************************************************************)
EXTENDS TopicTrie, WellFoundedInduction, FiniteSetTheorems, TLAPS

Typed(d, r) ==
  /\ d \in [Places -> SUBSET Clients]
  /\ r \in [Places -> Payloads \union {None}]

NothingOutside(N, d, r) == \A n \in Places \ N : ~Holds(d, r, n)

IInv == Typed(data, retained) /\ NothingOutside(nodes, data, retained)

-----------------------------------------------------------------------------
(* Places.                                                                 *)

\* A node is on the way to itself, and a filter or topic is not the empty path.
LEMMA OwnPrefix ==
  ASSUME NEW p \in Filters \union Topics
  PROVE  p \in Prefixes(p) \ {<<>>} /\ p \in Places
<1>1. p \in Seq(STRING) /\ Len(p) > 1
  BY TrieAssumption DEF TrieAssumption
<1>2. p = SubSeq(p, 1, Len(p)) /\ Len(p) \in 0..Len(p) /\ p # <<>>
  BY <1>1
<1>3. p \in Prefixes(p) \ {<<>>}
  BY <1>2 DEF Prefixes
<1> QED
  BY <1>3 DEF Places

-----------------------------------------------------------------------------
(* Pruning.                                                                *)

\* A subtree that is dropped because its root is_empty has nothing in it:
\* what there was before is what there is after.
LEMMA PruneDropsNothing ==
  ASSUME NEW N, NEW d, NEW r, NEW gone,
         Typed(d, r), NothingOutside(N, d, r),
         \A g \in gone : \A n \in N : IsPrefix(g, n) => ~Holds(d, r, n),
         Prune(N, d, r, gone)
  PROVE  data' = d /\ retained' = r /\ IInv'
<1>1. \A n \in Places : n \notin Without(N, gone) => d[n] = {} /\ r[n] = None
  BY DEF NothingOutside, Without, Holds
<1>2. data' = d
  BY <1>1 DEF Prune, Kept, Typed
<1>3. retained' = r
  BY <1>1 DEF Prune, Kept, Typed
<1>4. NothingOutside(nodes', d, r)
  BY <1>1 DEF NothingOutside, Prune, Holds
<1> QED
  BY <1>2, <1>3, <1>4 DEF IInv, Typed, NothingOutside, Holds

\* internal_unsubscribe and internal_set_retained_message prune what is empty.
LEMMA EmptyOnPathIsEmpty ==
  ASSUME NEW N, NEW d, NEW r, NEW p
  PROVE  \A g \in EmptyOnPath(N, d, r, p) : \A n \in N : IsPrefix(g, n) => ~Holds(d, r, n)
  BY DEF EmptyOnPath

\* So does internal_unsubscribe_all.
LEMMA EmptyAnywhereIsEmpty ==
  ASSUME NEW N, NEW d, NEW r
  PROVE  \A g \in EmptyAnywhere(N, d, r) : \A n \in N : IsPrefix(g, n) => ~Holds(d, r, n)
  BY DEF EmptyAnywhere

-----------------------------------------------------------------------------
(* What each operation leaves in the trees.                                *)

\* An empty tree has nothing outside.
LEMMA InitIInv == Init => IInv
  BY DEF Init, IInv, Typed, NothingOutside, Holds

\* subscribe adds to the data of one node, and makes the node.
LEMMA SubscribeEffect ==
  ASSUME IInv, NEW f \in Filters, NEW c \in Clients, Subscribe(f, c)
  PROVE  IInv' /\ data' = [data EXCEPT ![f] = @ \union {c}] /\ retained' = retained
<1>1. f \in nodes' /\ nodes \subseteq nodes' /\ f \in Places
  BY OwnPrefix DEF Subscribe, WithPath
<1> QED
  BY <1>1 DEF Subscribe, IInv, Typed, NothingOutside, Holds

\* unsubscribe takes from the data of one node.
LEMMA UnsubscribeEffect ==
  ASSUME IInv, NEW f \in Filters, NEW c \in Clients, Unsubscribe(f, c)
  PROVE  IInv' /\ data' = [data EXCEPT ![f] = @ \ {c}] /\ retained' = retained
<1> DEFINE N == nodes \union {<<f[1]>>}
           d == [data EXCEPT ![f] = @ \ {c}]
<1>1. f \in Places
  BY OwnPrefix
<1>2. Typed(d, retained) /\ NothingOutside(N, d, retained)
  BY <1>1 DEF IInv, Typed, NothingOutside, Holds
<1>3. Prune(N, d, retained, EmptyOnPath(N, d, retained, f))
  BY DEF Unsubscribe
<1> HIDE DEF N, d
<1>4. data' = d /\ retained' = retained /\ IInv'
  BY <1>2, <1>3, EmptyOnPathIsEmpty, PruneDropsNothing
<1> QED
  BY <1>4 DEF d

\* The two looks of internal_unsubscribe_all take a client out of every node.
LEMMA LooksTakeOut ==
  ASSUME NEW c
  PROVE  AfterItself(AfterParent(data, c), c) = [n \in Places |-> data[n] \ {c}]
BY DEF AfterItself, AfterParent

\* unsubscribe_all takes one client out of every node.
LEMMA UnsubscribeAllEffect ==
  ASSUME IInv, NEW c \in Clients, UnsubscribeAll(c)
  PROVE  IInv' /\ data' = [n \in Places |-> data[n] \ {c}] /\ retained' = retained
<1> DEFINE d == [n \in Places |-> data[n] \ {c}]
<1>1. Typed(d, retained) /\ NothingOutside(nodes, d, retained)
  BY DEF IInv, Typed, NothingOutside, Holds
<1>2. Prune(nodes, d, retained, EmptyAnywhere(nodes, d, retained))
  BY LooksTakeOut DEF UnsubscribeAll
<1> HIDE DEF d
<1>3. data' = d /\ retained' = retained /\ IInv'
  BY <1>1, <1>2, EmptyAnywhereIsEmpty, PruneDropsNothing
<1> QED
  BY <1>3 DEF d

\* set_retained_message changes the message of one node.
LEMMA SetRetainedMessageEffect ==
  ASSUME IInv, NEW t \in Topics, NEW m \in Payloads \union {None}, SetRetainedMessage(t, m)
  PROVE  IInv' /\ data' = data /\ retained' = [retained EXCEPT ![t] = m]
<1> DEFINE N == WithPath(t)
           r == [retained EXCEPT ![t] = m]
<1>1. t \in Places /\ t \in N /\ nodes \subseteq N
  BY OwnPrefix DEF WithPath
<1>2. Typed(data, r) /\ NothingOutside(N, data, r)
  BY <1>1 DEF IInv, Typed, NothingOutside, Holds
<1>3. CASE m = None
  <2>1. Prune(N, data, r, EmptyOnPath(N, data, r, t))
    BY <1>3 DEF SetRetainedMessage, SetRetained
  <2> HIDE DEF N, r
  <2>2. data' = data /\ retained' = r /\ IInv'
    BY <1>2, <2>1, EmptyOnPathIsEmpty, PruneDropsNothing
  <2> QED
    BY <2>2 DEF r
<1>4. CASE m # None
  <2>1. nodes' = N /\ retained' = r /\ data' = data
    BY <1>4 DEF SetRetainedMessage, SetRetained
  <2> HIDE DEF N, r
  <2>2. IInv'
    BY <1>2, <2>1 DEF IInv, Typed, NothingOutside, Holds
  <2> QED
    BY <2>1, <2>2 DEF r
<1> QED
  BY <1>3, <1>4

\* No operation leaves anything outside the tree.
LEMMA NextIInv == IInv /\ [Next]_vars => IInv'
<1> SUFFICES ASSUME IInv, [Next]_vars PROVE IInv'
  OBVIOUS
<1>1. ASSUME NEW f \in Filters, NEW c \in Clients, Subscribe(f, c) PROVE IInv'
  BY <1>1, SubscribeEffect
<1>2. ASSUME NEW f \in Filters, NEW c \in Clients, Unsubscribe(f, c) PROVE IInv'
  BY <1>2, UnsubscribeEffect
<1>3. ASSUME NEW c \in Clients, UnsubscribeAll(c) PROVE IInv'
  BY <1>3, UnsubscribeAllEffect
<1>4. ASSUME NEW t \in Topics, NEW m \in Payloads \union {None}, SetRetainedMessage(t, m)
      PROVE IInv'
  BY <1>4, SetRetainedMessageEffect
<1>5. CASE UNCHANGED vars
  BY <1>5 DEF vars, IInv, Typed, NothingOutside, Holds
<1> QED
  BY <1>1, <1>2, <1>3, <1>4, <1>5 DEF Next

-----------------------------------------------------------------------------
(* The refinement of TopicTable.                                           *)

\* The empty trees are the empty tables.
LEMMA InitImplements == Init => Table!Init
<1> SUFFICES ASSUME Init PROVE Table!Init
  OBVIOUS
<1>1. \A p \in Filters \union Topics : p \in Places
  BY OwnPrefix
<1>2. Subscriptions = {}
  BY <1>1 DEF Init, Subscriptions
<1>3. [t \in Topics |-> retained[t]] = [t \in Topics |-> None]
  BY <1>1 DEF Init
<1> QED
  BY <1>2, <1>3 DEF Table!Init

\* Every operation on the trees is the operation of that name on the tables.
LEMMA NextImplements == IInv /\ [Next]_vars => [Table!Next]_Table!vars
<1> SUFFICES ASSUME IInv, [Next]_vars PROVE [Table!Next]_Table!vars
  OBVIOUS
<1> DEFINE R == [t \in Topics |-> retained[t]]
<1>0. \A p \in Filters \union Topics : p \in Places
  BY OwnPrefix
<1>1. ASSUME NEW f \in Filters, NEW c \in Clients, Subscribe(f, c) PROVE Table!Next
  <2>1. data' = [data EXCEPT ![f] = @ \union {c}] /\ retained' = retained
    BY <1>1, SubscribeEffect
  <2>2. Subscriptions' = Subscriptions \union {<<f, c>>}
    BY <1>0, <2>1 DEF Subscriptions, IInv, Typed
  <2> QED
    BY <2>1, <2>2 DEF Table!Next, Table!Subscribe
<1>2. ASSUME NEW f \in Filters, NEW c \in Clients, Unsubscribe(f, c) PROVE Table!Next
  <2>1. data' = [data EXCEPT ![f] = @ \ {c}] /\ retained' = retained
    BY <1>2, UnsubscribeEffect
  <2>2. Subscriptions' = Subscriptions \ {<<f, c>>}
    BY <1>0, <2>1 DEF Subscriptions, IInv, Typed
  <2> QED
    BY <2>1, <2>2 DEF Table!Next, Table!Unsubscribe
<1>3. ASSUME NEW c \in Clients, UnsubscribeAll(c) PROVE Table!Next
  <2>1. data' = [n \in Places |-> data[n] \ {c}] /\ retained' = retained
    BY <1>3, UnsubscribeAllEffect
  <2>2. Subscriptions' = {s \in Subscriptions : s[2] # c}
    BY <1>0, <2>1 DEF Subscriptions
  <2> QED
    BY <2>1, <2>2 DEF Table!Next, Table!UnsubscribeAll
<1>4. ASSUME NEW t \in Topics, NEW m \in Payloads \union {None}, SetRetainedMessage(t, m)
      PROVE Table!Next
  <2>1. data' = data /\ retained' = [retained EXCEPT ![t] = m]
    BY <1>4, SetRetainedMessageEffect
  <2>2. Subscriptions' = Subscriptions
    BY <2>1 DEF Subscriptions
  <2>3. R' = [R EXCEPT ![t] = m]
    BY <1>0, <2>1 DEF IInv, Typed
  <2> QED
    BY <2>2, <2>3 DEF Table!Next, Table!SetRetained
<1>5. CASE UNCHANGED vars
  BY <1>5 DEF vars, Subscriptions, Table!vars
<1> QED
  BY <1>1, <1>2, <1>3, <1>4, <1>5 DEF Next

\* The trees implement the tables: no operation on one filter or topic loses or
\* makes up a subscription or retained message of another (trie.rs, all
\* operations that change it).
THEOREM TrieImplementsTable == Spec => ImplementsTable
<1>1. Init => Table!Init
  BY InitImplements
<1>2. Init => IInv
  BY InitIInv
<1>3. IInv /\ [Next]_vars => IInv'
  BY NextIInv
<1>4. IInv /\ [Next]_vars => [Table!Next]_Table!vars
  BY NextImplements
<1> QED
  BY <1>1, <1>2, <1>3, <1>4, PTL DEF Spec, ImplementsTable, Table!Spec

-----------------------------------------------------------------------------
(* Induction and sequences.                                                *)

\* A nonempty set of natural numbers has a least element.
LEMMA Least ==
  ASSUME NEW T, T \subseteq Nat, T # {}
  PROVE  \E x \in T : \A y \in T : x <= y
<1> DEFINE R == OpToRel(<, Nat)
<1>1. IsWellFoundedOn(R, Nat)
  BY NatLessThanWellFounded
<1>2. R = {ss \in Nat \X Nat : ss[1] < ss[2]}
  BY DEF OpToRel
<1> HIDE DEF R
<1>3. PICK x \in T : \A y \in T : ~ (<<y, x>> \in R)
  BY <1>1, WFMin
<1>4. ASSUME NEW y \in T
      PROVE  x <= y
  <2>1. x \in Nat /\ y \in Nat
    OBVIOUS
  <2>2. <<y, x>> \in R <=> y < x
    BY <1>2, <2>1
  <2>3. ~(y < x)
    BY <1>3, <2>2
  <2> QED
    BY <2>1, <2>3
<1> QED
  BY <1>4

\* What holds of 1 and of every number after one of which it holds, holds of
\* all of them up to n.
LEMMA StepByStep ==
  ASSUME NEW K, NEW n \in Nat, 1 \in K, \A i \in 1..n : i \in K /\ i < n => i + 1 \in K
  PROVE  1..n \subseteq K
<1> SUFFICES ASSUME (1..n) \ K # {} PROVE FALSE
  OBVIOUS
<1> DEFINE T == (1..n) \ K
<1>0. T \subseteq Nat
  OBVIOUS
<1> HIDE DEF T
<1>1. PICK x \in T : \A y \in T : x <= y
  BY <1>0, Least DEF T
<1>2. x \in 1..n /\ x \notin K
  BY DEF T
<1>3. x # 1 /\ x - 1 \in 1..n /\ x - 1 < n
  BY <1>2
<1>4. x - 1 \in K
  BY <1>1, <1>2, <1>3 DEF T
<1>5. (x - 1) + 1 \in K
  BY <1>3, <1>4
<1> QED
  BY <1>2, <1>5

\* IsPrefix, segment by segment.
LEMMA PrefixElements ==
  ASSUME NEW S, NEW a \in Seq(S), NEW b \in Seq(S)
  PROVE  IsPrefix(a, b) <=> Len(a) <= Len(b) /\ \A i \in 1..Len(a) : a[i] = b[i]
<1>1. CASE Len(a) <= Len(b)
  <2> DEFINE p == SubSeq(a, 1, Len(a))
             q == SubSeq(b, 1, Len(a))
  <2>1. /\ p \in Seq(S) /\ Len(p) = Len(a) /\ \A i \in 1..Len(a) : p[i] = a[i]
        /\ q \in Seq(S) /\ Len(q) = Len(a) /\ \A i \in 1..Len(a) : q[i] = b[i]
    BY <1>1
  <2>2. IsPrefix(a, b) <=> p = q
    BY <1>1 DEF IsPrefix
  <2> HIDE DEF p, q
  <2>3. p = q <=> \A i \in 1..Len(a) : p[i] = q[i]
    BY <2>1
  <2> QED
    BY <1>1, <2>1, <2>2, <2>3
<1>2. CASE ~(Len(a) <= Len(b))
  BY <1>2 DEF IsPrefix
<1> QED
  BY <1>1, <1>2

\* The first i segments.
LEMMA FirstSegments ==
  ASSUME NEW S, NEW a \in Seq(S), NEW i \in 1..Len(a)
  PROVE  /\ SubSeq(a, 1, i) \in Seq(S) /\ Len(SubSeq(a, 1, i)) = i
         /\ \A j \in 1..i : SubSeq(a, 1, i)[j] = a[j]
  OBVIOUS

\* Filters with the same segments are the same.
LEMMA SameSegments ==
  ASSUME NEW S, NEW a \in Seq(S), NEW b \in Seq(S), Len(a) = Len(b),
         \A i \in 1..Len(a) : a[i] = b[i]
  PROVE  a = b
  OBVIOUS

-----------------------------------------------------------------------------
(* The shape of the trees.                                                 *)

Segments == STRING \union Shares \union {Main}

\* The places on the way to p.
LEMMA OnTheWay ==
  ASSUME NEW p \in Filters \union Topics
  PROVE  /\ p \in Seq(Segments) /\ Len(p) > 1 /\ p[1] \in Shares \union {Main}
         /\ Prefixes(p) \ {<<>>} = {SubSeq(p, 1, i) : i \in 1..Len(p)}
         /\ \A i \in 1..Len(p) : SubSeq(p, 1, i) \in Places
<1>1. p \in Seq(STRING) /\ Len(p) > 1 /\ p[1] \in Shares \union {Main}
  BY TrieAssumption DEF TrieAssumption
<1>2. p \in Seq(Segments)
  BY <1>1 DEF Segments
<1>3. \A i \in 0..Len(p) : SubSeq(p, 1, i) = <<>> <=> i = 0
  <2> TAKE i \in 0..Len(p)
  <2>1. Len(SubSeq(p, 1, i)) = i /\ SubSeq(p, 1, i) \in Seq(STRING)
    BY <1>1
  <2> QED
    BY <2>1
<1>4. Prefixes(p) \ {<<>>} = {SubSeq(p, 1, i) : i \in 1..Len(p)}
  BY <1>1, <1>3 DEF Prefixes
<1> QED
  BY <1>1, <1>2, <1>4 DEF Places

\* Places and roots are paths that begin with the name of a tree.
LEMMA PathShape ==
  ASSUME NEW n \in Places \union Roots
  PROVE  /\ n \in Seq(Segments) /\ Len(n) \in Nat \ {0} /\ n[1] \in Shares \union {Main}
         /\ ~IsRoot(n) => n \in Places
         /\ IsRoot(n) => n = <<n[1]>>
         /\ \A i \in 1..Len(n) : SubSeq(n, 1, i) \in Places \union Roots
<1>1. CASE n \in Places
  <2>1. PICK p \in Filters \union Topics : n \in Prefixes(p) \ {<<>>}
    BY <1>1 DEF Places
  <2>2. PICK k \in 1..Len(p) : n = SubSeq(p, 1, k)
    BY <2>1, OnTheWay
  <2>3. p \in Seq(Segments) /\ Len(p) > 1 /\ p[1] \in Shares \union {Main}
    BY OnTheWay
  <2>4. n \in Seq(Segments) /\ Len(n) = k /\ n[1] = p[1]
    BY <2>2, <2>3, FirstSegments
  <2>5. ASSUME NEW i \in 1..Len(n)
        PROVE  SubSeq(n, 1, i) \in Places
    <3>1. i \in 1..Len(p)
      BY <2>2, <2>3, <2>4
    <3>2. SubSeq(n, 1, i) = SubSeq(p, 1, i)
      BY <2>2, <2>3, <2>4, <3>1
    <3> QED
      BY <3>1, <3>2, OnTheWay
  <2>6. IsRoot(n) => n = <<n[1]>>
    BY <2>4 DEF IsRoot
  <2> QED
    BY <1>1, <2>3, <2>4, <2>5, <2>6
<1>2. CASE n \in Roots
  <2>1. PICK s \in Shares \union {Main} : n = <<s>>
    BY <1>2 DEF Roots
  <2>2. n \in Seq(Segments) /\ Len(n) = 1 /\ n[1] = s
    BY <2>1 DEF Segments
  <2>3. \A i \in 1..Len(n) : SubSeq(n, 1, i) = n
    BY <2>2
  <2> QED
    <3>1. Len(n) \in Nat \ {0} /\ IsRoot(n) /\ n = <<n[1]>>
      BY <2>1, <2>2 DEF IsRoot
    <3>2. \A i \in 1..Len(n) : SubSeq(n, 1, i) \in Places \union Roots
      BY <1>2, <2>3
    <3> QED
      BY <2>1, <2>2, <3>1, <3>2
<1> QED
  BY <1>1, <1>2

\* Nodes are where filters, topics and roots are, the way to each is there, and
\* so is the main tree.
Grown(N) ==
  /\ N \subseteq Places \union Roots
  /\ \A n \in N : \A i \in 1..Len(n) : SubSeq(n, 1, i) \in N
  /\ <<Main>> \in N

\* Prefixes of nodes, segment by segment.
LEMMA NodePrefix ==
  ASSUME NEW a \in Places \union Roots, NEW b \in Places \union Roots
  PROVE  /\ IsPrefix(a, b) <=> Len(a) <= Len(b) /\ \A i \in 1..Len(a) : a[i] = b[i]
         /\ IsPrefix(a, b) <=> Len(a) <= Len(b) /\ a = SubSeq(b, 1, Len(a))
<1>1. a \in Seq(Segments) /\ b \in Seq(Segments) /\ Len(a) \in Nat \ {0}
  BY PathShape
<1>2. IsPrefix(a, b) <=> Len(a) <= Len(b) /\ \A i \in 1..Len(a) : a[i] = b[i]
  BY <1>1, PrefixElements
<1>3. ASSUME Len(a) <= Len(b)
      PROVE  a = SubSeq(b, 1, Len(a)) <=> \A i \in 1..Len(a) : a[i] = b[i]
  <2> DEFINE s == SubSeq(b, 1, Len(a))
  <2>1. s \in Seq(Segments) /\ Len(s) = Len(a) /\ \A i \in 1..Len(a) : s[i] = b[i]
    BY <1>1, <1>3, FirstSegments
  <2> HIDE DEF s
  <2>2. a = s <=> \A i \in 1..Len(a) : a[i] = s[i]
    BY <1>1, <2>1, SameSegments
  <2> QED
    BY <2>1, <2>2 DEF s
<1> QED
  BY <1>2, <1>3

\* What is on the way to a place on the way is on the way.
LEMMA PrefixTransitive ==
  ASSUME NEW a \in Places \union Roots, NEW b \in Places \union Roots, NEW c \in Places \union Roots,
         IsPrefix(a, b), IsPrefix(b, c)
  PROVE  IsPrefix(a, c)
<1>1. Len(a) \in Nat /\ Len(b) \in Nat /\ Len(c) \in Nat
  BY PathShape
<1>2. Len(a) <= Len(b) /\ Len(b) <= Len(c)
      /\ (\A i \in 1..Len(a) : a[i] = b[i]) /\ (\A i \in 1..Len(b) : b[i] = c[i])
  BY NodePrefix
<1>3. Len(a) <= Len(c) /\ \A i \in 1..Len(a) : a[i] = c[i]
  BY <1>1, <1>2
<1> QED
  BY <1>3, NodePrefix

\* A strict descendant is below a child on the way to it.
LEMMA ChildBetween ==
  ASSUME NEW N, Grown(N), NEW n \in N, NEW m \in N, IsPrefix(n, m), m # n
  PROVE  \E k \in N : Len(k) = Len(n) + 1 /\ IsPrefix(n, k) /\ IsPrefix(k, m)
<1>1. n \in Places \union Roots /\ m \in Places \union Roots
  BY DEF Grown
<1>2. n \in Seq(Segments) /\ m \in Seq(Segments) /\ Len(n) \in Nat /\ Len(m) \in Nat
  BY <1>1, PathShape
<1>3. Len(n) <= Len(m) /\ \A i \in 1..Len(n) : n[i] = m[i]
  BY <1>1, NodePrefix
<1>4. Len(n) # Len(m)
  BY <1>2, <1>3, SameSegments
<1> DEFINE l == Len(n) + 1
           k == SubSeq(m, 1, l)
<1>5. l \in 1..Len(m)
  BY <1>2, <1>3, <1>4
<1>6. k \in N
  BY <1>5 DEF Grown
<1>7. Len(k) = l /\ \A i \in 1..l : k[i] = m[i]
  BY <1>2, <1>5, FirstSegments
<1> HIDE DEF k
<1>8. k \in Places \union Roots
  BY <1>6 DEF Grown
<1>9. IsPrefix(k, m)
  BY <1>1, <1>5, <1>7, <1>8, NodePrefix
<1>10. IsPrefix(n, k)
  <2>1. Len(n) <= Len(k) /\ \A i \in 1..Len(n) : n[i] = k[i]
    BY <1>2, <1>3, <1>7
  <2> QED
    BY <1>1, <1>8, <2>1, NodePrefix
<1> QED
  BY <1>6, <1>7, <1>9, <1>10

-----------------------------------------------------------------------------
(* No dead branches.                                                       *)

ChildrenIn(N, n) == {m \in N : Len(m) = Len(n) + 1 /\ IsPrefix(n, m)}
Dead(N, d, r, n) == ~IsRoot(n) /\ ~Holds(d, r, n) /\ ChildrenIn(N, n) = {}

\* Pruning leaves a grown tree.
LEMMA PruneGrown ==
  ASSUME NEW N, Grown(N), NEW gone, gone \subseteq N, \A g \in gone : ~IsRoot(g)
  PROVE  Grown(Without(N, gone))
<1> DEFINE M == Without(N, gone)
<1>1. M \subseteq N
  BY DEF Without
<1>2. ASSUME NEW n \in M, NEW i \in 1..Len(n)
      PROVE  SubSeq(n, 1, i) \in M
  <2> DEFINE p == SubSeq(n, 1, i)
  <2>1. p \in N /\ n \in N
    BY <1>1, <1>2 DEF Grown
  <2>2. p \in Places \union Roots /\ n \in Places \union Roots
    BY <2>1 DEF Grown
  <2>3. n \in Seq(Segments) /\ Len(n) \in Nat
    BY <2>2, PathShape
  <2>4. Len(p) = i /\ \A j \in 1..i : p[j] = n[j]
    BY <2>3, FirstSegments
  <2> HIDE DEF p
  <2>5. IsPrefix(p, n)
    BY <1>2, <2>2, <2>3, <2>4, NodePrefix
  <2>6. ASSUME NEW g \in gone
        PROVE  ~IsPrefix(g, p)
    <3>1. g \in Places \union Roots
      BY DEF Grown
    <3>2. ~IsPrefix(g, n)
      BY <1>2 DEF Without
    <3> QED
      BY <2>2, <2>5, <3>1, <3>2, PrefixTransitive
  <2>7. p \in M
    BY <2>1, <2>6 DEF Without
  <2> QED
    BY <2>7 DEF p
<1>3. <<Main>> \in M
  <2>1. <<Main>> \in N
    BY DEF Grown
  <2>2. ASSUME NEW g \in gone
        PROVE  ~IsPrefix(g, <<Main>>)
    <3>1. g \in Places \union Roots /\ <<Main>> \in Places \union Roots
      BY <2>1 DEF Grown
    <3>2. Len(g) \in Nat \ {0} /\ Len(g) # 1
      BY <3>1, PathShape DEF IsRoot
    <3>3. ~(Len(g) <= Len(<<Main>>))
      <4>1. PICK l \in Nat \ {0, 1} : l = Len(g)
        BY <3>2
      <4>2. Len(<<Main>>) = 1
        OBVIOUS
      <4> QED
        BY <4>1, <4>2
    <3> QED
      BY <3>1, <3>3, NodePrefix
  <2> QED
    BY <2>1, <2>2 DEF Without
<1> QED
  BY <1>1, <1>2, <1>3 DEF Grown

\* A child that is lost was taken out itself: what took it with it would have
\* taken its parent.
LEMMA LostChild ==
  ASSUME NEW N, Grown(N), NEW gone, gone \subseteq N, NEW n \in Without(N, gone),
         NEW m \in N, Len(m) = Len(n) + 1, IsPrefix(n, m), m \notin Without(N, gone)
  PROVE  m \in gone
<1>1. PICK g \in gone : IsPrefix(g, m)
  BY DEF Without
<1>2. n \in N /\ ~IsPrefix(g, n)
  BY DEF Without
<1>3. n \in Places \union Roots /\ m \in Places \union Roots /\ g \in Places \union Roots
  BY <1>1, <1>2 DEF Grown
<1>4. /\ n \in Seq(Segments) /\ m \in Seq(Segments) /\ g \in Seq(Segments)
      /\ Len(n) \in Nat /\ Len(m) \in Nat /\ Len(g) \in Nat
  BY <1>3, PathShape
<1>5. Len(g) <= Len(m) /\ \A i \in 1..Len(g) : g[i] = m[i]
  BY <1>1, <1>3, NodePrefix
<1>6. \A i \in 1..Len(n) : n[i] = m[i]
  BY <1>3, NodePrefix
<1>7. ~(Len(g) <= Len(n))
  <2> SUFFICES ASSUME Len(g) <= Len(n) PROVE FALSE
    OBVIOUS
  <2>1. \A i \in 1..Len(g) : g[i] = n[i]
    BY <1>4, <1>5, <1>6
  <2> QED
    BY <1>2, <1>3, <2>1, NodePrefix
<1>8. g = m
  BY <1>4, <1>5, <1>7, SameSegments
<1> QED
  BY <1>1, <1>8

\* is_empty on the way back: if only nodes on the way to p could be dead before,
\* none is dead after.
LEMMA NoneDeadOnPath ==
  ASSUME NEW N, Grown(N), NEW d, NEW r, NEW p \in Places,
         \A n \in N : Dead(N, d, r, n) => IsPrefix(n, p)
  PROVE  LET M == Without(N, EmptyOnPath(N, d, r, p)) IN \A n \in M : ~Dead(M, d, r, n)
<1> DEFINE gone == EmptyOnPath(N, d, r, p)
           M == Without(N, gone)
<1> SUFFICES ASSUME NEW n \in M, Dead(M, d, r, n) PROVE FALSE
  OBVIOUS
<1>2. n \in N /\ n \in Places \union Roots
  BY DEF Without, Grown
<1>3. gone \subseteq N
  BY DEF EmptyOnPath
<1>4. ~IsRoot(n) /\ ~Holds(d, r, n) /\ ChildrenIn(M, n) = {}
  BY DEF Dead
<1>5. IsPrefix(n, n)
  BY <1>2, NodePrefix, PathShape
<1>6. n \notin gone
  BY <1>5 DEF Without
<1> HIDE DEF gone
<1>7. \A k \in ChildrenIn(N, n) : k \in gone
  <2> TAKE k \in ChildrenIn(N, n)
  <2>1. k \in N /\ Len(k) = Len(n) + 1 /\ IsPrefix(n, k)
    BY DEF ChildrenIn
  <2>2. k \notin M
    BY <1>4, <2>1 DEF ChildrenIn
  <2> QED
    BY <1>3, <2>1, <2>2, LostChild
<1>8. IsPrefix(n, p)
  <2>1. CASE ChildrenIn(N, n) = {}
    <3>1. Dead(N, d, r, n)
      BY <1>4, <2>1 DEF Dead
    <3> QED
      BY <1>2, <3>1
  <2>2. CASE ChildrenIn(N, n) # {}
    <3>1. PICK k \in ChildrenIn(N, n) : k \in gone
      BY <1>7, <2>2
    <3>2. k \in N /\ IsPrefix(n, k) /\ IsPrefix(k, p)
      BY <3>1 DEF ChildrenIn, gone, EmptyOnPath
    <3>3. k \in Places \union Roots
      BY <3>2 DEF Grown
    <3> QED
      BY <1>2, <3>2, <3>3, PrefixTransitive
  <2> QED
    BY <2>1, <2>2
<1>9. \A m \in N : IsPrefix(n, m) => IsPrefix(m, p) /\ ~Holds(d, r, m)
  <2> TAKE m \in N
  <2> HAVE IsPrefix(n, m)
  <2>1. CASE m = n
    BY <1>4, <1>8, <2>1
  <2>2. CASE m # n
    <3>1. PICK k \in N : Len(k) = Len(n) + 1 /\ IsPrefix(n, k) /\ IsPrefix(k, m)
      BY <1>2, <2>2, ChildBetween
    <3>2. k \in gone
      BY <1>7, <3>1 DEF ChildrenIn
    <3> QED
      BY <3>1, <3>2 DEF gone, EmptyOnPath
  <2> QED
    BY <2>1, <2>2
<1>10. n \in gone
  BY <1>2, <1>4, <1>8, <1>9 DEF gone, EmptyOnPath
<1> QED
  BY <1>6, <1>10

\* The same for unsubscribe_all, which looks everywhere.
LEMMA NoneDeadAnywhere ==
  ASSUME NEW N, Grown(N), NEW d, NEW r
  PROVE  LET M == Without(N, EmptyAnywhere(N, d, r)) IN \A n \in M : ~Dead(M, d, r, n)
<1> DEFINE gone == EmptyAnywhere(N, d, r)
           M == Without(N, gone)
<1> SUFFICES ASSUME NEW n \in M, Dead(M, d, r, n) PROVE FALSE
  OBVIOUS
<1>1. n \in N /\ n \in Places \union Roots
  BY DEF Without, Grown
<1>2. gone \subseteq N
  BY DEF EmptyAnywhere
<1>3. ~IsRoot(n) /\ ~Holds(d, r, n) /\ ChildrenIn(M, n) = {}
  BY DEF Dead
<1>4. IsPrefix(n, n)
  BY <1>1, NodePrefix, PathShape
<1>5. n \notin gone
  BY <1>4 DEF Without
<1> HIDE DEF gone
<1>6. \A m \in N : IsPrefix(n, m) => ~Holds(d, r, m)
  <2> TAKE m \in N
  <2> HAVE IsPrefix(n, m)
  <2>1. CASE m = n
    BY <1>3, <2>1
  <2>2. CASE m # n
    <3>1. PICK k \in N : Len(k) = Len(n) + 1 /\ IsPrefix(n, k) /\ IsPrefix(k, m)
      BY <1>1, <2>2, ChildBetween
    <3>2. k \notin M
      BY <1>3, <3>1 DEF ChildrenIn
    <3>3. k \in gone
      BY <1>2, <3>1, <3>2, LostChild
    <3> QED
      BY <3>1, <3>3 DEF gone, EmptyAnywhere
  <2> QED
    BY <2>1, <2>2
<1>7. n \in gone
  BY <1>1, <1>3, <1>6 DEF gone, EmptyAnywhere
<1> QED
  BY <1>5, <1>7

\* The way to a place is a branch.
LEMMA PathGrown ==
  ASSUME NEW N, Grown(N), NEW p \in Filters \union Topics
  PROVE  /\ Grown(N \union (Prefixes(p) \ {<<>>}))
         /\ \A n \in (Prefixes(p) \ {<<>>}) :
              /\ IsPrefix(n, p)
              /\ n = p \/ ChildrenIn(N \union (Prefixes(p) \ {<<>>}), n) # {}
<1> DEFINE way == Prefixes(p) \ {<<>>}
           M == N \union way
<1>1. way = {SubSeq(p, 1, i) : i \in 1..Len(p)} /\ p \in Seq(Segments) /\ Len(p) \in Nat
      /\ (\A i \in 1..Len(p) : SubSeq(p, 1, i) \in Places) /\ p \in Places
  BY OnTheWay, OwnPrefix
<1> HIDE DEF way
<1>2. \A i \in 1..Len(p) : /\ Len(SubSeq(p, 1, i)) = i
                           /\ \A j \in 1..i : SubSeq(SubSeq(p, 1, i), 1, j) = SubSeq(p, 1, j)
  BY <1>1
<1>3. \A n \in way : \A i \in 1..Len(n) : SubSeq(n, 1, i) \in way
  <2> TAKE n \in way
  <2>1. PICK k \in 1..Len(p) : n = SubSeq(p, 1, k)
    BY <1>1
  <2> TAKE i \in 1..Len(n)
  <2>2. i \in 1..Len(p) /\ SubSeq(n, 1, i) = SubSeq(p, 1, i)
    BY <1>1, <1>2, <2>1
  <2> QED
    BY <1>1, <2>2
<1>4. Grown(M)
  BY <1>1, <1>3 DEF Grown
<1>5. ASSUME NEW n \in way
      PROVE  IsPrefix(n, p) /\ (n = p \/ ChildrenIn(M, n) # {})
  <2>1. PICK k \in 1..Len(p) : n = SubSeq(p, 1, k)
    BY <1>1
  <2>2. Len(n) = k /\ n \in Places
    BY <1>1, <1>2, <2>1
  <2>3. IsPrefix(n, p)
    <3>1. n = SubSeq(p, 1, Len(n)) /\ Len(n) <= Len(p)
      BY <1>1, <2>1, <2>2
    <3>2. n \in Places \union Roots /\ p \in Places \union Roots
      BY <1>1, <2>2
    <3> QED
      BY <3>1, <3>2, NodePrefix
  <2>4. CASE k = Len(p)
    <3>1. n = p
      BY <1>1, <2>1, <2>4
    <3> QED
      BY <2>3, <3>1
  <2>5. CASE k # Len(p)
    <3> DEFINE c == SubSeq(p, 1, k + 1)
    <3>1. k + 1 \in 1..Len(p)
      BY <1>1, <2>5
    <3>2. Len(c) = k + 1 /\ c \in way /\ c \in Places /\ SubSeq(c, 1, k) = n
      BY <1>1, <1>2, <2>1, <3>1
    <3> HIDE DEF c
    <3>3. IsPrefix(n, c)
      BY <2>2, <3>2, NodePrefix
    <3>4. c \in ChildrenIn(M, n)
      BY <2>2, <3>2, <3>3 DEF ChildrenIn
    <3> QED
      BY <2>3, <3>4
  <2> QED
    BY <2>4, <2>5
<1> QED
  BY <1>4, <1>5 DEF way

\* A root is the whole way to itself.
LEMMA WayToRoot ==
  ASSUME NEW s \in Shares \union {Main}
  PROVE  <<s>> \in Roots /\ Len(<<s>>) = 1 /\ \A i \in 1..Len(<<s>>) : SubSeq(<<s>>, 1, i) = <<s>>
<1> DEFINE q == <<s>>
<1>1. q \in Roots /\ q \in Seq(Segments) /\ Len(q) = 1
  BY DEF Roots, Segments
<1> HIDE DEF q
<1>2. ASSUME NEW i \in 1..Len(q)
      PROVE  SubSeq(q, 1, i) = q
  <2>1. i = Len(q)
    BY <1>1
  <2>2. SubSeq(q, 1, i) \in Seq(Segments) /\ Len(SubSeq(q, 1, i)) = i
        /\ \A j \in 1..i : SubSeq(q, 1, i)[j] = q[j]
    BY <1>1, FirstSegments
  <2> QED
    BY <1>1, <2>1, <2>2, SameSegments
<1> QED
  BY <1>1, <1>2 DEF q

\* A share name's tree begins as its root.
LEMMA RootGrown ==
  ASSUME NEW N, Grown(N), NEW s \in Shares \union {Main}
  PROVE  Grown(N \union {<<s>>})
BY WayToRoot DEF Grown

\* Data is where filters end, retained messages where topics do.
AtEnds ==
  /\ \A n \in Places : data[n] # {} => n \in Filters
  /\ \A n \in Places : retained[n] # None => n \in Topics

TreeInv == IInv /\ AtEnds /\ Grown(nodes) /\ NoDeadBranches

\* NoDeadBranches, node by node.
LEMMA NoDeadBranchesByNode ==
  NoDeadBranches <=> \A n \in nodes : ~Dead(nodes, data, retained, n)
BY DEF NoDeadBranches, Dead, Children, ChildrenIn

\* In a larger tree, a node that was there is no deader.
LEMMA DeadBefore ==
  ASSUME NEW N, NEW M, N \subseteq M, NEW d, NEW r, NEW n, Dead(M, d, r, n)
  PROVE  Dead(N, d, r, n)
BY DEF Dead, ChildrenIn

\* The end of an operation that prunes what is empty on the way to p: the data
\* and retained messages of p alone may have changed.
LEMMA PruneOnPathKeeps ==
  ASSUME NoDeadBranches, NEW N, Grown(N), nodes \subseteq N, NEW d, NEW r, NEW p \in Places,
         \A n \in N \ nodes : IsRoot(n) \/ IsPrefix(n, p),
         \A n \in Places : n # p => d[n] = data[n] /\ r[n] = retained[n],
         nodes' = Without(N, EmptyOnPath(N, d, r, p)), data' = d, retained' = r
  PROVE  Grown(nodes)' /\ NoDeadBranches'
<1> DEFINE gone == EmptyOnPath(N, d, r, p)
<1>1. ASSUME NEW n \in N, Dead(N, d, r, n)
      PROVE  IsPrefix(n, p)
  <2>1. n \in Places /\ p \in Places /\ ~IsRoot(n)
    BY <1>1, PathShape DEF Dead, Grown
  <2>2. CASE n \in nodes /\ n # p
    <3>1. Dead(nodes, d, r, n)
      BY <1>1, DeadBefore
    <3>2. Dead(nodes, data, retained, n)
      BY <2>1, <2>2, <3>1 DEF Dead, Holds
    <3> QED
      BY <2>2, <3>2, NoDeadBranchesByNode
  <2>3. CASE n = p
    BY <2>1, <2>3, NodePrefix, PathShape
  <2> QED
    BY <2>1, <2>2, <2>3
<1>2. \A n \in nodes' : ~Dead(nodes', d, r, n)
  BY <1>1, NoneDeadOnPath
<1>3. Grown(nodes')
  <2>1. gone \subseteq N /\ \A g \in gone : ~IsRoot(g)
    BY DEF EmptyOnPath
  <2> HIDE DEF gone
  <2> QED
    BY <2>1, PruneGrown DEF gone
<1>4. NoDeadBranches'
  BY <1>2 DEF NoDeadBranches, Dead, Children, ChildrenIn
<1> QED
  BY <1>3, <1>4

\* subscribe makes the way to its node, and something at its end.
LEMMA SubscribeKeepsTree ==
  ASSUME TreeInv, NEW f \in Filters, NEW c \in Clients, Subscribe(f, c)
  PROVE  TreeInv'
<1>1. IInv' /\ data' = [data EXCEPT ![f] = @ \union {c}] /\ retained' = retained
  BY SubscribeEffect DEF TreeInv
<1>2. f \in Places /\ data \in [Places -> SUBSET Clients]
  BY OwnPrefix DEF TreeInv, IInv, Typed
<1>3. nodes' = nodes \union (Prefixes(f) \ {<<>>})
  BY DEF Subscribe, WithPath
<1>4. Grown(nodes)'
  <2>1. Grown(nodes')
    BY <1>3, PathGrown DEF TreeInv
  <2> QED
    BY <2>1
<1>5. AtEnds'
  BY <1>1, <1>2 DEF TreeInv, AtEnds
<1>6. ASSUME NEW n \in nodes', Dead(nodes', data', retained', n)
      PROVE  FALSE
  <2>1. n \in Places
    BY <1>4, <1>6, PathShape DEF Dead, Grown
  <2>2. n # f
    BY <1>1, <1>2, <1>6 DEF Dead, Holds
  <2>3. n \notin Prefixes(f) \ {<<>>}
    BY <1>3, <1>6, <2>2, PathGrown DEF TreeInv, Dead
  <2>4. n \in nodes
    BY <1>3, <2>3
  <2>5. Dead(nodes, data', retained', n)
    BY <1>3, <1>6, DeadBefore
  <2>6. Dead(nodes, data, retained, n)
    BY <1>1, <1>2, <2>1, <2>2, <2>5 DEF Dead, Holds
  <2> QED
    BY <2>4, <2>6, NoDeadBranchesByNode DEF TreeInv
<1>7. NoDeadBranches'
  BY <1>6 DEF NoDeadBranches, Dead, Children, ChildrenIn
<1> QED
  BY <1>1, <1>4, <1>5, <1>7 DEF TreeInv

\* unsubscribe takes out what is_empty says of the nodes on the way back.
LEMMA UnsubscribeKeepsTree ==
  ASSUME TreeInv, NEW f \in Filters, NEW c \in Clients, Unsubscribe(f, c)
  PROVE  TreeInv'
<1> DEFINE N == nodes \union {<<f[1]>>}
           d == [data EXCEPT ![f] = @ \ {c}]
<1>1. IInv' /\ data' = d /\ retained' = retained
  BY UnsubscribeEffect DEF TreeInv
<1>2. f \in Places /\ f[1] \in Shares \union {Main} /\ data \in [Places -> SUBSET Clients]
  BY OwnPrefix, OnTheWay DEF TreeInv, IInv, Typed
<1>3. nodes' = Without(N, EmptyOnPath(N, d, retained, f))
  BY DEF Unsubscribe, Prune
<1>4. Grown(N) /\ nodes \subseteq N
  BY <1>2, RootGrown DEF TreeInv
<1>5. \A n \in N \ nodes : IsRoot(n)
  BY DEF IsRoot
<1>6. \A n \in Places : n # f => d[n] = data[n]
  BY <1>2
<1>7. AtEnds'
  BY <1>1, <1>2 DEF TreeInv, AtEnds
<1> HIDE DEF N, d
<1>8. Grown(nodes)' /\ NoDeadBranches'
  BY <1>1, <1>2, <1>3, <1>4, <1>5, <1>6, PruneOnPathKeeps DEF TreeInv
<1> QED
  BY <1>1, <1>7, <1>8 DEF TreeInv

\* unsubscribe_all does so all over the tree.
LEMMA UnsubscribeAllKeepsTree ==
  ASSUME TreeInv, NEW c \in Clients, UnsubscribeAll(c)
  PROVE  TreeInv'
<1> DEFINE d == [n \in Places |-> data[n] \ {c}]
           gone == EmptyAnywhere(nodes, d, retained)
<1>1. IInv' /\ data' = d /\ retained' = retained
  BY UnsubscribeAllEffect DEF TreeInv
<1>2. nodes' = Without(nodes, gone)
  BY LooksTakeOut DEF UnsubscribeAll, Prune
<1>3. AtEnds'
  BY <1>1 DEF TreeInv, AtEnds
<1>4. gone \subseteq nodes /\ \A g \in gone : ~IsRoot(g)
  BY DEF EmptyAnywhere
<1> HIDE DEF d
<1>5. \A n \in nodes' : ~Dead(nodes', d, retained, n)
  BY <1>2, NoneDeadAnywhere DEF TreeInv
<1>6. NoDeadBranches'
  BY <1>1, <1>5 DEF NoDeadBranches, Dead, Children, ChildrenIn
<1> HIDE DEF gone
<1>7. Grown(nodes')
  BY <1>2, <1>4, PruneGrown DEF TreeInv
<1> QED
  BY <1>1, <1>3, <1>6, <1>7 DEF TreeInv

\* set_retained_message grows or prunes the main tree.
LEMMA SetRetainedMessageKeepsTree ==
  ASSUME TreeInv, NEW t \in Topics, NEW m \in Payloads \union {None}, SetRetainedMessage(t, m)
  PROVE  TreeInv'
<1> DEFINE way == Prefixes(t) \ {<<>>}
           N == WithPath(t)
           r == [retained EXCEPT ![t] = m]
<1>1. IInv' /\ data' = data /\ retained' = r
  BY SetRetainedMessageEffect DEF TreeInv
<1>2. t \in Places /\ retained \in [Places -> Payloads \union {None}]
  BY OwnPrefix DEF TreeInv, IInv, Typed
<1>3. N = nodes \union way /\ nodes \subseteq N
  BY DEF WithPath
<1>4. AtEnds'
  BY <1>1, <1>2 DEF TreeInv, AtEnds
<1>5. \A n \in Places : n # t => r[n] = retained[n]
  BY <1>2
<1>6. r[t] = m
  BY <1>2
<1>7. CASE m = None
  <2>1. nodes' = Without(N, EmptyOnPath(N, data, r, t))
    BY <1>7 DEF SetRetainedMessage, SetRetained, Prune
  <2> HIDE DEF N, r, way
  <2>2. Grown(N) /\ \A n \in way : IsPrefix(n, t)
    BY <1>3, PathGrown DEF TreeInv, way
  <2>3. Grown(nodes)' /\ NoDeadBranches'
    BY <1>1, <1>2, <1>3, <1>5, <2>1, <2>2, PruneOnPathKeeps DEF TreeInv
  <2> QED
    BY <1>1, <1>4, <2>3 DEF TreeInv
<1>8. CASE m # None
  <2>1. nodes' = N
    BY <1>8 DEF SetRetainedMessage, SetRetained
  <2> HIDE DEF N, r
  <2>2. Grown(nodes')
    BY <1>3, <2>1, PathGrown DEF TreeInv
  <2>3. ASSUME NEW n \in nodes', Dead(nodes', data, r, n)
        PROVE  FALSE
    <3>1. n \in Places
      BY <2>2, <2>3, PathShape DEF Dead, Grown
    <3>2. n # t
      BY <1>6, <1>8, <2>3 DEF Dead, Holds
    <3>3. n \notin way
      BY <1>3, <2>1, <2>3, <3>2, PathGrown DEF TreeInv, Dead
    <3>4. n \in nodes
      BY <1>3, <2>1, <3>3
    <3>5. Dead(nodes, data, r, n)
      BY <1>3, <2>1, <2>3, DeadBefore
    <3>6. Dead(nodes, data, retained, n)
      BY <1>5, <3>1, <3>2, <3>5 DEF Dead, Holds
    <3> QED
      BY <3>4, <3>6, NoDeadBranchesByNode DEF TreeInv
  <2>4. NoDeadBranches'
    BY <1>1, <2>3 DEF NoDeadBranches, Dead, Children, ChildrenIn
  <2> QED
    BY <1>1, <1>4, <2>2, <2>4 DEF TreeInv
<1> QED
  BY <1>7, <1>8

\* Every operation keeps the trees alive.
LEMMA NextKeepsTree == TreeInv /\ [Next]_vars => TreeInv'
<1> SUFFICES ASSUME TreeInv, [Next]_vars PROVE TreeInv'
  OBVIOUS
<1>1. CASE UNCHANGED vars
  <2>1. nodes' = nodes /\ data' = data /\ retained' = retained
    BY <1>1 DEF vars
  <2>2. IInv'
    BY <2>1 DEF TreeInv, IInv, Typed, NothingOutside, Holds
  <2>3. AtEnds'
    BY <2>1 DEF TreeInv, AtEnds
  <2>4. NoDeadBranches'
    BY <2>1 DEF TreeInv, NoDeadBranches, Holds, Children
  <2> QED
    BY <2>1, <2>2, <2>3, <2>4 DEF TreeInv, Grown
<1> QED
  BY <1>1, SubscribeKeepsTree, UnsubscribeKeepsTree, UnsubscribeAllKeepsTree,
     SetRetainedMessageKeepsTree DEF Next

\* An empty tree has no branches.
LEMMA InitTree == Init => TreeInv
<1> SUFFICES ASSUME Init PROVE TreeInv
  OBVIOUS
<1>1. Grown({<<Main>>})
  BY WayToRoot DEF Grown
<1>2. AtEnds
  BY DEF Init, AtEnds
<1>3. NoDeadBranches
  BY DEF Init, NoDeadBranches, IsRoot
<1> QED
  BY <1>1, <1>2, <1>3, InitIInv DEF Init, TreeInv

\* TreeInv is an invariant.
LEMMA InductiveTree == Spec => []TreeInv
BY InitTree, NextKeepsTree, PTL DEF Spec

\* A node goes when the last thing below it goes: is_empty on the way back from
\* a filter or topic, and in the walk of unsubscribe_all, leaves no branch with
\* nothing at its end, and neither does any order of the operations.
THEOREM BranchesAlive == Spec => []NoDeadBranches
<1>1. TreeInv => NoDeadBranches
  BY DEF TreeInv
<1> QED
  BY <1>1, InductiveTree, PTL

-----------------------------------------------------------------------------
(* The counters.                                                           *)

\* The filters, clients and topics of a server are as many as its memory holds,
\* so that usize counts them.
Countable ==
  /\ IsFiniteSet(Filters) /\ IsFiniteSet(Clients) /\ IsFiniteSet(Topics)
  /\ Cardinality(Filters \X Clients) < UsizeSize
  /\ Cardinality(Topics) < UsizeSize

RetainedAt(r) == {n \in Places : r[n] # None}

CountInv ==
  /\ TreeInv
  /\ subscribersCount = Cardinality(Subscriptions)
  /\ retainedCount = Cardinality(RetainedAt(retained))

\* A number of usize is not changed by the wrap-around.
LEMMA ModSmall ==
  ASSUME NEW x \in 0..(UsizeSize - 1)
  PROVE  x % UsizeSize = x
  BY TrieAssumption DEF TrieAssumption

\* The number of subscriptions is a value of usize.
LEMMA SubscriptionsCounted ==
  ASSUME Countable, NEW S, S \subseteq Filters \X Clients
  PROVE  IsFiniteSet(S) /\ Cardinality(S) \in 0..(UsizeSize - 1)
<1>1. IsFiniteSet(Filters \X Clients)
  BY FS_Product DEF Countable
<1>2. IsFiniteSet(S) /\ Cardinality(S) <= Cardinality(Filters \X Clients)
  BY <1>1, FS_Subset
<1>3. Cardinality(S) \in Nat /\ Cardinality(Filters \X Clients) \in Nat
  BY <1>1, <1>2, FS_CardinalityType
<1> QED
  BY <1>2, <1>3, TrieAssumption DEF Countable, TrieAssumption

\* So is the number of retained messages.
LEMMA MessagesCounted ==
  ASSUME Countable, NEW S, S \subseteq Topics
  PROVE  IsFiniteSet(S) /\ Cardinality(S) \in 0..(UsizeSize - 1)
<1>1. IsFiniteSet(S) /\ Cardinality(S) <= Cardinality(Topics)
  BY FS_Subset DEF Countable
<1>2. Cardinality(S) \in Nat /\ Cardinality(Topics) \in Nat
  BY <1>1, FS_CardinalityType DEF Countable
<1> QED
  BY <1>1, <1>2, TrieAssumption DEF Countable, TrieAssumption

\* A client's entries in the trees are its subscriptions.
LEMMA EntriesOfClient ==
  ASSUME Countable, TreeInv, NEW c \in Clients
  PROVE  Cardinality({n \in Places : c \in data[n]}) =
           Cardinality({s \in Subscriptions : s[2] = c})
<1> DEFINE E == {n \in Places : c \in data[n]}
           S == {s \in Subscriptions : s[2] = c}
           g == [n \in E |-> <<n, c>>]
<1>1. E \subseteq Filters
  BY DEF TreeInv, AtEnds
<1>2. \A n \in E : <<n, c>> \in S
  BY <1>1 DEF Subscriptions
<1>3. \A s \in S : s[1] \in E /\ s = <<s[1], c>>
  BY OwnPrefix DEF Subscriptions
<1> HIDE DEF E, S
<1>4. g \in Bijection(E, S)
  <2>1. g \in [E -> S]
    BY <1>2
  <2>2. \A a, b \in E : g[a] = g[b] => a = b
    OBVIOUS
  <2>3. \A s \in S : \E n \in E : g[n] = s
    BY <1>3
  <2> QED
    BY <2>1, <2>2, <2>3 DEF Bijection, Injection, Surjection, IsInjective
<1>5. IsFiniteSet(E)
  BY <1>1, FS_Subset DEF Countable
<1>6. Cardinality(E) = Cardinality(S)
  BY <1>4, <1>5, FS_Bijection DEF ExistsBijection
<1> QED
  BY <1>6 DEF E, S

\* subscribe counts a subscription that was not there.
LEMMA SubscribeCounts ==
  ASSUME Countable, CountInv, NEW f \in Filters, NEW c \in Clients, Subscribe(f, c)
  PROVE  CountInv'
<1>1. data' = [data EXCEPT ![f] = @ \union {c}] /\ retained' = retained
  BY SubscribeEffect DEF CountInv, TreeInv
<1>2. Subscriptions' = Subscriptions \union {<<f, c>>}
  BY <1>1, OwnPrefix DEF Subscriptions, CountInv, TreeInv, IInv, Typed
<1>3. c \in data[f] <=> <<f, c>> \in Subscriptions
  BY DEF Subscriptions
<1>4. Subscriptions \subseteq Filters \X Clients /\ Subscriptions' \subseteq Filters \X Clients
  BY DEF Subscriptions
<1>5. Cardinality(Subscriptions') =
        Cardinality(Subscriptions) + (IF c \in data[f] THEN 0 ELSE 1)
  <2>1. IsFiniteSet(Subscriptions) /\ Cardinality(Subscriptions) \in Nat
    BY <1>4, SubscriptionsCounted, FS_CardinalityType
  <2> DEFINE S == Subscriptions
             x == <<f, c>>
  <2>2. Cardinality(S \union {x}) = IF x \in S THEN Cardinality(S) ELSE Cardinality(S) + 1
    BY <2>1, FS_AddElement
  <2> QED
    BY <1>2, <1>3, <2>1, <2>2
<1>6. Cardinality(Subscriptions') \in 0..(UsizeSize - 1)
  BY <1>4, SubscriptionsCounted
<1>7. subscribersCount' = Cardinality(Subscriptions')
  BY <1>5, <1>6, ModSmall DEF Subscribe, CountWith, CountInv
<1>8. TreeInv'
  BY SubscribeKeepsTree DEF CountInv
<1>9. retainedCount' = retainedCount
  BY DEF Subscribe
<1> QED
  BY <1>1, <1>7, <1>8, <1>9 DEF CountInv, RetainedAt

\* unsubscribe takes one off for a subscription that was.
LEMMA UnsubscribeCounts ==
  ASSUME Countable, CountInv, NEW f \in Filters, NEW c \in Clients, Unsubscribe(f, c)
  PROVE  CountInv'
<1>1. data' = [data EXCEPT ![f] = @ \ {c}] /\ retained' = retained
  BY UnsubscribeEffect DEF CountInv, TreeInv
<1>2. Subscriptions' = Subscriptions \ {<<f, c>>}
  BY <1>1, OwnPrefix DEF Subscriptions, CountInv, TreeInv, IInv, Typed
<1>3. c \in data[f] <=> <<f, c>> \in Subscriptions
  BY DEF Subscriptions
<1>4. Subscriptions \subseteq Filters \X Clients /\ Subscriptions' \subseteq Filters \X Clients
  BY DEF Subscriptions
<1>5. Cardinality(Subscriptions') =
        Cardinality(Subscriptions) - (IF c \in data[f] THEN 1 ELSE 0)
  <2>1. IsFiniteSet(Subscriptions) /\ Cardinality(Subscriptions) \in Nat
    BY <1>4, SubscriptionsCounted, FS_CardinalityType
  <2> DEFINE S == Subscriptions
             x == <<f, c>>
  <2>2. Cardinality(S \ {x}) = IF x \in S THEN Cardinality(S) - 1 ELSE Cardinality(S)
    BY <2>1, FS_RemoveElement
  <2> QED
    BY <1>2, <1>3, <2>1, <2>2
<1>6. Cardinality(Subscriptions') \in 0..(UsizeSize - 1)
  BY <1>4, SubscriptionsCounted
<1>7. subscribersCount' = Cardinality(Subscriptions')
  BY <1>5, <1>6, ModSmall DEF Unsubscribe, CountInv
<1>8. TreeInv'
  BY UnsubscribeKeepsTree DEF CountInv
<1>9. retainedCount' = retainedCount
  BY DEF Unsubscribe
<1> QED
  BY <1>1, <1>7, <1>8, <1>9 DEF CountInv, RetainedAt

\* The two looks of internal_unsubscribe_all find each entry of the client
\* once: entries are at the ends of filters, which are no roots, so the look
\* from the parent finds them all and the second look none.
LEMMA LooksFindOnce ==
  ASSUME Countable, CountInv, NEW c \in Clients
  PROVE  Cardinality(FoundByParent(data, c)) + Cardinality(FoundByItself(AfterParent(data, c), c))
           = Cardinality({n \in Places : c \in data[n]})
<1>1. \A n \in Places : c \in data[n] => ~IsRoot(n)
  <2>1. \A n \in Places : c \in data[n] => n \in Filters
    BY DEF CountInv, TreeInv, AtEnds
  <2>2. ASSUME NEW f \in Filters PROVE Len(f) # 1
    <3>1. f \in Seq(STRING) /\ Len(f) > 1
      BY TrieAssumption DEF TrieAssumption
    <3>2. PICK l \in Nat : l = Len(f) /\ l > 1
      BY <3>1
    <3> QED
      BY <3>2
  <2> QED
    BY <2>1, <2>2 DEF IsRoot
<1>2. FoundByParent(data, c) = {n \in Places : c \in data[n]}
  BY <1>1 DEF FoundByParent
<1>3. FoundByItself(AfterParent(data, c), c) = {}
  BY <1>1 DEF FoundByItself, AfterParent
<1>4. IsFiniteSet({n \in Places : c \in data[n]})
  <2>1. {n \in Places : c \in data[n]} \subseteq Filters
    BY DEF CountInv, TreeInv, AtEnds
  <2> QED
    BY <2>1, FS_Subset DEF Countable
<1>5. Cardinality({n \in Places : c \in data[n]}) \in Nat
  BY <1>4, FS_CardinalityType
<1> QED
  BY <1>2, <1>3, <1>5, FS_EmptySet

\* unsubscribe_all takes off each subscription of the client once.
LEMMA UnsubscribeAllCounts ==
  ASSUME Countable, CountInv, NEW c \in Clients, UnsubscribeAll(c)
  PROVE  CountInv'
<1> DEFINE S == Subscriptions
           T == {s \in S : s[2] = c}
<1>1. data' = [n \in Places |-> data[n] \ {c}] /\ retained' = retained
  BY UnsubscribeAllEffect DEF CountInv, TreeInv
<1>2. Subscriptions' = S \ T
  BY <1>1, OwnPrefix DEF Subscriptions
<1>3. S \subseteq Filters \X Clients /\ Subscriptions' \subseteq Filters \X Clients /\ T \subseteq S
  BY DEF Subscriptions
<1>4. Cardinality({n \in Places : c \in data[n]}) = Cardinality(T)
  BY EntriesOfClient DEF CountInv
<1>10. subscribersCount' = (subscribersCount - Cardinality(T)) % UsizeSize
  BY <1>4, LooksFindOnce DEF UnsubscribeAll
<1> HIDE DEF S, T
<1>5. Cardinality(S \ T) = Cardinality(S) - Cardinality(T)
  <2>1. IsFiniteSet(S) /\ S \intersect T = T
    BY <1>3, SubscriptionsCounted
  <2> QED
    BY <2>1, FS_Difference
<1>6. Cardinality(Subscriptions') \in 0..(UsizeSize - 1)
  BY <1>3, SubscriptionsCounted
<1>7. subscribersCount' = Cardinality(Subscriptions')
  BY <1>2, <1>5, <1>6, <1>10, ModSmall DEF CountInv, S
<1>8. TreeInv'
  BY UnsubscribeAllKeepsTree DEF CountInv
<1>9. retainedCount' = retainedCount
  BY DEF UnsubscribeAll
<1> QED
  BY <1>1, <1>7, <1>8, <1>9 DEF CountInv, RetainedAt

\* set_retained_message counts a message where there was none, and takes one
\* off where there was.
LEMMA SetRetainedMessageCounts ==
  ASSUME Countable, CountInv, NEW t \in Topics, NEW m \in Payloads \union {None},
         SetRetainedMessage(t, m)
  PROVE  CountInv'
<1> DEFINE R == RetainedAt(retained)
           Q == RetainedAt(retained')
<1>1. data' = data /\ retained' = [retained EXCEPT ![t] = m] /\ TreeInv'
  BY SetRetainedMessageEffect, SetRetainedMessageKeepsTree DEF CountInv, TreeInv
<1>2. t \in Places /\ retained \in [Places -> Payloads \union {None}]
  BY OwnPrefix DEF CountInv, TreeInv, IInv, Typed
<1>3. R \subseteq Topics
  BY DEF CountInv, TreeInv, AtEnds, RetainedAt
<1>4. Q \subseteq Topics
  BY <1>1 DEF TreeInv, AtEnds, RetainedAt
<1>5. t \in R <=> retained[t] # None
  BY <1>2 DEF RetainedAt
<1>6. (m = None => Q = R \ {t}) /\ (m # None => Q = R \union {t})
  BY <1>1, <1>2 DEF RetainedAt
<1>7. IsFiniteSet(R) /\ Cardinality(R) \in Nat /\ retainedCount = Cardinality(R)
  BY <1>3, MessagesCounted, FS_CardinalityType DEF CountInv
<1>8. Cardinality(Q) \in 0..(UsizeSize - 1)
  BY <1>4, MessagesCounted
<1> HIDE DEF R, Q
<1>9. /\ Cardinality(R \union {t}) = IF t \in R THEN Cardinality(R) ELSE Cardinality(R) + 1
      /\ Cardinality(R \ {t}) = IF t \in R THEN Cardinality(R) - 1 ELSE Cardinality(R)
  BY <1>7, FS_AddElement, FS_RemoveElement
<1>10. retainedCount' = Cardinality(Q)
  <2>1. CASE retained[t] = None /\ m # None
    <3>1. retainedCount' = (retainedCount + 1) % UsizeSize
      BY <2>1 DEF SetRetainedMessage, CountRetained
    <3>2. Cardinality(Q) = retainedCount + 1
      BY <1>5, <1>6, <1>7, <1>9, <2>1
    <3> QED
      BY <1>8, <3>1, <3>2, ModSmall
  <2>2. CASE retained[t] # None /\ m = None
    <3>1. retainedCount' = (retainedCount - 1) % UsizeSize
      BY <2>2 DEF SetRetainedMessage, CountRetained
    <3>2. Cardinality(Q) = retainedCount - 1
      BY <1>5, <1>6, <1>7, <1>9, <2>2
    <3> QED
      BY <1>8, <3>1, <3>2, ModSmall
  <2>3. CASE (retained[t] = None) = (m = None)
    <3>1. retainedCount' = retainedCount
      BY <2>3 DEF SetRetainedMessage, CountRetained
    <3>2. Cardinality(Q) = retainedCount
      BY <1>5, <1>6, <1>7, <1>9, <2>3
    <3> QED
      BY <3>1, <3>2
  <2> QED
    BY <2>1, <2>2, <2>3
<1>11. subscribersCount' = subscribersCount /\ Subscriptions' = Subscriptions
  BY <1>1 DEF SetRetainedMessage, Subscriptions
<1> QED
  BY <1>1, <1>10, <1>11 DEF CountInv, Q

\* An empty tree has nothing to count.
LEMMA InitCounts == Init => CountInv
<1> SUFFICES ASSUME Init PROVE CountInv
  OBVIOUS
<1>1. Subscriptions = {} /\ RetainedAt(retained) = {}
  BY OwnPrefix DEF Init, Subscriptions, RetainedAt
<1> QED
  BY <1>1, InitTree, FS_EmptySet DEF Init, CountInv

\* Every operation keeps the counters.
LEMMA NextCounts == Countable /\ CountInv /\ [Next]_vars => CountInv'
<1> SUFFICES ASSUME Countable, CountInv, [Next]_vars PROVE CountInv'
  OBVIOUS
<1>1. CASE UNCHANGED vars
  <2>1. TreeInv'
    BY <1>1, NextKeepsTree DEF CountInv
  <2> QED
    BY <1>1, <2>1 DEF vars, CountInv, Subscriptions, RetainedAt
<1> QED
  BY <1>1, SubscribeCounts, UnsubscribeCounts, UnsubscribeAllCounts,
     SetRetainedMessageCounts DEF Next

\* subscribers_count and retained_messages_count never drift from what is in
\* the trees: subscribing again, replacing a message, unsubscribing what was
\* not there and unsubscribe_all of several entries all count right.
THEOREM CountersExact ==
  ASSUME Countable
  PROVE  Spec => []CountsExact
<1>1. CountInv => CountsExact
  BY DEF CountInv, CountsExact, RetainedAt
<1>2. CountInv /\ [Next]_vars => CountInv'
  BY NextCounts
<1> QED
  BY <1>1, <1>2, InitCounts, PTL DEF Spec

-----------------------------------------------------------------------------
(* Walking the tree.                                                       *)

\* The nodes one segment below those of A.
Below(A) == UNION {Children(n) : n \in A}

\* A node's parent is a node, and it is its child.
LEMMA ChildOfParent ==
  ASSUME Grown(nodes), NEW m \in nodes, NEW i \in Nat \ {0}, Len(m) = i + 1
  PROVE  /\ SubSeq(m, 1, i) \in nodes /\ Len(SubSeq(m, 1, i)) = i
         /\ \A j \in 1..i : SubSeq(m, 1, i)[j] = m[j]
         /\ \A n \in nodes : m \in Children(n) <=> n = SubSeq(m, 1, i)
<1> DEFINE p == SubSeq(m, 1, i)
<1>1. nodes \subseteq Places \union Roots
  BY DEF Grown
<1>2. m \in Seq(Segments) /\ i \in 1..Len(m)
  BY <1>1, PathShape
<1>3. p \in nodes
  BY <1>2 DEF Grown
<1>4. Len(p) = i /\ \A j \in 1..i : p[j] = m[j]
  BY <1>2, FirstSegments
<1>5. ASSUME NEW n \in nodes
      PROVE  m \in Children(n) <=> n = p
  <2>1. Len(n) \in Nat \ {0}
    BY <1>1, PathShape
  <2>2. m \in Children(n) <=> Len(n) = i /\ IsPrefix(n, m)
    BY <2>1 DEF Children
  <2>3. IsPrefix(n, m) <=> Len(n) <= Len(m) /\ n = SubSeq(m, 1, Len(n))
    BY <1>1, NodePrefix
  <2>4. n = p => Len(n) = i
    BY <1>4
  <2> HIDE DEF p
  <2>5. Len(n) = i => (IsPrefix(n, m) <=> n = p)
    BY <2>3 DEF p
  <2> QED
    BY <2>2, <2>4, <2>5
<1> QED
  BY <1>3, <1>4, <1>5

\* Its parent is the only node a node can be found from.
LEMMA FoundFromParent ==
  ASSUME Grown(nodes), NEW i \in Nat \ {0}, NEW A, A \subseteq nodes, \A n \in A : Len(n) = i, NEW m
  PROVE  m \in Below(A) <=> m \in nodes /\ Len(m) = i + 1 /\ SubSeq(m, 1, i) \in A
<1>1. ASSUME m \in Below(A)
      PROVE  m \in nodes /\ Len(m) = i + 1 /\ SubSeq(m, 1, i) \in A
  <2>1. PICK n \in A : m \in Children(n)
    BY <1>1 DEF Below
  <2>2. n \in nodes /\ m \in nodes /\ Len(m) = i + 1
    BY <2>1 DEF Children
  <2> QED
    BY <2>1, <2>2, ChildOfParent
<1>2. ASSUME m \in nodes, Len(m) = i + 1, SubSeq(m, 1, i) \in A
      PROVE  m \in Below(A)
  <2> DEFINE p == SubSeq(m, 1, i)
  <2>1. p \in nodes /\ (\A n \in nodes : m \in Children(n) <=> n = p)
    BY <1>2, ChildOfParent
  <2> HIDE DEF p
  <2>2. m \in Children(p)
    BY <2>1
  <2> QED
    BY <1>2, <2>2 DEF Below, p
<1> QED
  BY <1>1, <1>2

\* The nodes of a tree whose first i segments match the topic's.
OnWalk(root, t, i) ==
  {m \in nodes : Len(m) = i /\ m[1] = root[1] /\ \A j \in 2..i : m[j] \in {"+", t[j]}}

\* The walk begins at the root, if the tree is there.
LEMMA WalkBegins ==
  ASSUME Grown(nodes), NEW root \in Roots, NEW t
  PROVE  OnWalk(root, t, 1) = {root} \intersect nodes
<1>1. root \in Places \union Roots
  OBVIOUS
<1>2. PICK s \in Shares \union {Main} : root = <<s>>
  BY DEF Roots
<1>3. Len(root) = 1 /\ root[1] = s
  BY <1>2
<1>4. \A m \in nodes : Len(m) = 1 => m = <<m[1]>>
  BY PathShape DEF Grown, IsRoot
<1>5. \A m \in nodes : Len(m) = 1 /\ m[1] = root[1] <=> m = root
  BY <1>2, <1>3, <1>4
<1> QED
  BY <1>5 DEF OnWalk

\* A step of the walk: from the nodes that match i segments to those that match
\* one more.
LEMMA WalkContinues ==
  ASSUME Grown(nodes), NEW root \in Roots, NEW t, NEW i \in Nat \ {0}
  PROVE  OnWalk(root, t, i + 1) = {m \in Below(OnWalk(root, t, i)) : Last(m) \in {"+", t[i + 1]}}
<1>1. OnWalk(root, t, i) \subseteq nodes /\ \A n \in OnWalk(root, t, i) : Len(n) = i
  BY DEF OnWalk
<1>2. ASSUME NEW m \in nodes, Len(m) = i + 1
      PROVE  m \in OnWalk(root, t, i + 1) <=>
               SubSeq(m, 1, i) \in OnWalk(root, t, i) /\ Last(m) \in {"+", t[i + 1]}
  <2> DEFINE p == SubSeq(m, 1, i)
  <2>1. p \in nodes /\ Len(p) = i /\ \A j \in 1..i : p[j] = m[j]
    BY <1>2, ChildOfParent
  <2> HIDE DEF p
  <2>2. p \in OnWalk(root, t, i) <=> m[1] = root[1] /\ \A j \in 2..i : m[j] \in {"+", t[j]}
    BY <2>1 DEF OnWalk
  <2>3. Last(m) = m[i + 1]
    BY <1>2 DEF Last
  <2>4. (\A j \in 2..(i + 1) : m[j] \in {"+", t[j]}) <=>
          (\A j \in 2..i : m[j] \in {"+", t[j]}) /\ m[i + 1] \in {"+", t[i + 1]}
    OBVIOUS
  <2>5. m \in OnWalk(root, t, i + 1) <=>
          m[1] = root[1] /\ \A j \in 2..(i + 1) : m[j] \in {"+", t[j]}
    BY <1>2 DEF OnWalk
  <2> QED
    BY <2>2, <2>3, <2>4, <2>5 DEF p
<1>3. \A m : m \in OnWalk(root, t, i + 1) => m \in nodes /\ Len(m) = i + 1
  BY DEF OnWalk
<1>4. \A m : m \in Below(OnWalk(root, t, i)) <=>
               m \in nodes /\ Len(m) = i + 1 /\ SubSeq(m, 1, i) \in OnWalk(root, t, i)
  BY <1>1, FoundFromParent
<1> QED
  BY <1>2, <1>3, <1>4

\* The recursion of internal_matches comes to the nodes whose segments match.
LEMMA VisitedExactly ==
  ASSUME Grown(nodes), NEW root \in Roots, NEW t \in Topics
  PROVE  Visited(root, t) = [i \in 1..Len(t) |-> OnWalk(root, t, i)]
<1> DEFINE F(f) == [i \in 1..Len(t) |->
                      IF i = 1 THEN {root} \intersect nodes
                      ELSE {m \in UNION {Children(n) : n \in f[i - 1]} : Last(m) \in {"+", t[i]}}]
           G == [i \in 1..Len(t) |-> OnWalk(root, t, i)]
<1>1. Visited(root, t) = CHOOSE f : f = F(f)
  BY DEF Visited
<1>2. Len(t) \in Nat /\ 1 \in 1..Len(t)
  BY OnTheWay
<1>3. \A i \in 1..Len(t) : i # 1 => i - 1 \in 1..Len(t) /\ i - 1 \in Nat \ {0} /\ (i - 1) + 1 = i
  BY <1>2
<1>4. G = F(G)
  <2>1. ASSUME NEW i \in 1..Len(t)
        PROVE  OnWalk(root, t, i) = F(G)[i]
    <3>1. CASE i = 1
      BY <3>1, WalkBegins
    <3>2. CASE i # 1
      <4>1. G[i - 1] = OnWalk(root, t, i - 1)
        BY <1>3, <3>2
      <4>2. OnWalk(root, t, i) = {m \in Below(OnWalk(root, t, i - 1)) : Last(m) \in {"+", t[i]}}
        BY <1>3, <3>2, WalkContinues
      <4> HIDE DEF G
      <4> QED
        BY <3>2, <4>1, <4>2 DEF Below
    <3> QED
      BY <3>1, <3>2
  <2> QED
    BY <2>1
<1>5. ASSUME NEW f, f = F(f)
      PROVE  f = G
  <2> DEFINE K == {i \in 1..Len(t) : f[i] = G[i]}
  <2>1. 1 \in K
    <3>1. f[1] = {root} \intersect nodes
      BY <1>2, <1>5
    <3> QED
      BY <1>2, <3>1, WalkBegins
  <2>2. ASSUME NEW i \in 1..Len(t), i \in K, i < Len(t)
        PROVE  i + 1 \in K
    <3>1. i + 1 \in 1..Len(t) /\ i + 1 # 1 /\ (i + 1) - 1 = i /\ i \in Nat \ {0}
      BY <1>2, <2>2
    <3>2. f[i + 1] = {m \in UNION {Children(n) : n \in f[i]} : Last(m) \in {"+", t[i + 1]}}
      BY <1>5, <3>1
    <3>3. f[i] = OnWalk(root, t, i)
      BY <2>2
    <3>4. f[i + 1] = OnWalk(root, t, i + 1)
      BY <3>1, <3>2, <3>3, WalkContinues DEF Below
    <3> QED
      BY <3>1, <3>4
  <2> HIDE DEF K
  <2>3. 1..Len(t) \subseteq K
    BY <1>2, <2>1, <2>2, StepByStep
  <2>4. \A i \in 1..Len(t) : f[i] = G[i]
    BY <2>3 DEF K
  <2>5. f = [i \in 1..Len(t) |-> f[i]]
    BY <1>5
  <2> QED
    BY <2>4, <2>5
<1> HIDE DEF F, G
<1>6. (CHOOSE f : f = F(f)) = G
  <2>1. \E f : f = F(f)
    BY <1>4
  <2>2. (CHOOSE f : f = F(f)) = F(CHOOSE f : f = F(f))
    BY <2>1
  <2> QED
    BY <1>5, <2>2
<1> QED
  BY <1>1, <1>6 DEF G

\* What is found by name at the end of the walk, and by "#" on the way.
LEMMA MatchesExactly ==
  ASSUME Grown(nodes), NEW root \in Roots, NEW t \in Topics, NEW m
  PROVE  m \in Matches(root, t) <=>
           /\ m \in nodes
           /\ \/ m \in OnWalk(root, t, Len(t))
              \/ /\ Len(m) \in 2..Len(t) /\ Last(m) = "#" /\ m[1] = root[1]
                 /\ \A j \in 2..(Len(m) - 1) : m[j] \in {"+", t[j]}
<1> DEFINE at == Visited(root, t)
           L == 1..(Len(t) - 1)
           A == UNION {at[i] : i \in L}
<1>1. Len(t) \in Nat /\ Len(t) \in 1..Len(t)
  BY OnTheWay
<1>2. \A i \in 1..Len(t) : at[i] = OnWalk(root, t, i)
  BY VisitedExactly
<1>3. at[Len(t)] = OnWalk(root, t, Len(t))
  BY <1>1, <1>2
<1>4. \A n : n \in A <=> \E i \in L : n \in OnWalk(root, t, i)
  BY <1>1, <1>2
<1>5. m \in Matches(root, t) <=>
        m \in OnWalk(root, t, Len(t)) \/ (Last(m) = "#" /\ \E n \in A : m \in Children(n))
  BY <1>3 DEF Matches
<1> HIDE DEF at, A
<1>6. (\E n \in A : m \in Children(n)) <=> \E i \in L : m \in Below(OnWalk(root, t, i))
  BY <1>4 DEF Below
<1>7. ASSUME NEW i \in L
      PROVE  m \in Below(OnWalk(root, t, i)) <=>
               /\ m \in nodes /\ Len(m) = i + 1 /\ m[1] = root[1]
               /\ \A j \in 2..i : m[j] \in {"+", t[j]}
  <2>1. i \in Nat \ {0}
    BY <1>1
  <2>2. OnWalk(root, t, i) \subseteq nodes /\ \A n \in OnWalk(root, t, i) : Len(n) = i
    BY DEF OnWalk
  <2>3. m \in Below(OnWalk(root, t, i)) <=>
          m \in nodes /\ Len(m) = i + 1 /\ SubSeq(m, 1, i) \in OnWalk(root, t, i)
    BY <2>1, <2>2, FoundFromParent
  <2>4. ASSUME m \in nodes, Len(m) = i + 1
        PROVE  SubSeq(m, 1, i) \in OnWalk(root, t, i) <=>
                 m[1] = root[1] /\ \A j \in 2..i : m[j] \in {"+", t[j]}
    <3> DEFINE p == SubSeq(m, 1, i)
    <3>1. p \in nodes /\ Len(p) = i /\ \A j \in 1..i : p[j] = m[j]
      BY <2>1, <2>4, ChildOfParent
    <3> HIDE DEF p
    <3>2. p \in OnWalk(root, t, i) <=> m[1] = root[1] /\ \A j \in 2..i : m[j] \in {"+", t[j]}
      BY <2>1, <3>1 DEF OnWalk
    <3> QED
      BY <3>2 DEF p
  <2> QED
    BY <2>3, <2>4
<1>8. m \in nodes => Len(m) \in Nat
  BY PathShape DEF Grown
<1>9. (\E i \in L : m \in Below(OnWalk(root, t, i))) <=>
        /\ m \in nodes /\ Len(m) \in 2..Len(t) /\ m[1] = root[1]
        /\ \A j \in 2..(Len(m) - 1) : m[j] \in {"+", t[j]}
  <2>1. ASSUME NEW i \in L, m \in Below(OnWalk(root, t, i))
        PROVE  /\ m \in nodes /\ Len(m) \in 2..Len(t) /\ m[1] = root[1]
               /\ \A j \in 2..(Len(m) - 1) : m[j] \in {"+", t[j]}
    <3>1. m \in nodes /\ Len(m) = i + 1 /\ m[1] = root[1] /\ \A j \in 2..i : m[j] \in {"+", t[j]}
      BY <1>7, <2>1
    <3>2. Len(m) \in 2..Len(t) /\ Len(m) - 1 = i
      BY <1>1, <3>1
    <3> QED
      BY <3>1, <3>2
  <2>2. ASSUME m \in nodes, Len(m) \in 2..Len(t), m[1] = root[1],
               \A j \in 2..(Len(m) - 1) : m[j] \in {"+", t[j]}
        PROVE  \E i \in L : m \in Below(OnWalk(root, t, i))
    <3> DEFINE k == Len(m) - 1
    <3>1. k \in L /\ Len(m) = k + 1
      BY <1>1, <2>2
    <3>2. m \in Below(OnWalk(root, t, k))
      BY <1>7, <2>2, <3>1
    <3> QED
      BY <3>1, <3>2
  <2> QED
    BY <2>1, <2>2
<1>10. m \in OnWalk(root, t, Len(t)) => m \in nodes
  BY DEF OnWalk
<1> HIDE DEF L
<1> QED
  BY <1>5, <1>6, <1>9, <1>10

\* Covers, without Fixed.
LEMMA CoversExactly ==
  ASSUME NEW f \in Filters, NEW t \in Topics
  PROVE  /\ Last(f) # "#" =>
              (Covers(f, t) <=> Len(f) = Len(t) /\ \A j \in 2..Len(f) : f[j] \in {"+", t[j]})
         /\ Last(f) = "#" =>
              (Covers(f, t) <=>
                 Len(f) - 1 <= Len(t) /\ \A j \in 2..(Len(f) - 1) : f[j] \in {"+", t[j]})
<1>1. f \in Seq(STRING) /\ Len(f) \in Nat /\ Len(f) > 1 /\ Len(t) \in Nat
  BY TrieAssumption DEF TrieAssumption
<1>2. CASE Last(f) # "#"
  BY <1>1, <1>2 DEF Covers, Fixed
<1>3. CASE Last(f) = "#"
  <2>1. Fixed(f) = Front(f) /\ Len(Front(f)) = Len(f) - 1
    BY <1>1, <1>3 DEF Fixed, Front
  <2> QED
    BY <1>3, <2>1 DEF Covers
<1> QED
  BY <1>2, <1>3

\* For a filter there is a node of, the walk and the definition of filters agree.
LEMMA WalkAgrees ==
  ASSUME Grown(nodes), NEW root \in Roots, NEW t \in Topics, NEW f \in Filters, f \in nodes
  PROVE  f \in Matches(root, t) <=>
           f[1] = root[1] /\ Covers(f, t) /\ ~ParentLevel(f, t)
<1>1. Len(f) \in Nat /\ Len(f) > 1 /\ Last(f) = f[Len(f)] /\ Len(t) \in Nat
  BY TrieAssumption DEF TrieAssumption, Last
<1>2. \A j \in 1..Len(t) : t[j] \notin {"+", "#"}
  BY TrieAssumption DEF TrieAssumption
<1>3. f \in OnWalk(root, t, Len(t)) <=>
        Len(f) = Len(t) /\ f[1] = root[1] /\ \A j \in 2..Len(t) : f[j] \in {"+", t[j]}
  BY DEF OnWalk
<1>4. CASE Last(f) # "#"
  BY <1>1, <1>3, <1>4, MatchesExactly, CoversExactly DEF ParentLevel
<1>5. CASE Last(f) = "#"
  <2>1. f \notin OnWalk(root, t, Len(t))
    <3> SUFFICES ASSUME f \in OnWalk(root, t, Len(t)) PROVE FALSE
      OBVIOUS
    <3>1. Len(t) \in 2..Len(t) /\ Len(t) \in 1..Len(t) /\ Len(f) = Len(t)
      BY <1>1, <1>3
    <3>2. f[Len(t)] \in {"+", t[Len(t)]} /\ f[Len(t)] = "#"
      BY <1>1, <1>3, <1>5, <3>1
    <3> QED
      BY <1>2, <3>1, <3>2
  <2>2. f \in Matches(root, t) <=>
          /\ Len(f) \in 2..Len(t) /\ f[1] = root[1]
          /\ \A j \in 2..(Len(f) - 1) : f[j] \in {"+", t[j]}
    BY <1>5, <2>1, MatchesExactly
  <2>3. Covers(f, t) <=> Len(f) - 1 <= Len(t) /\ \A j \in 2..(Len(f) - 1) : f[j] \in {"+", t[j]}
    BY <1>5, CoversExactly
  <2>4. ParentLevel(f, t) <=> Len(f) = Len(t) + 1
    BY <1>5 DEF ParentLevel
  <2>5. Len(f) \in 2..Len(t) <=> Len(f) - 1 <= Len(t) /\ Len(f) # Len(t) + 1
    BY <1>1
  <2> QED
    BY <2>2, <2>3, <2>4, <2>5
<1> QED
  BY <1>4, <1>5

\* What is found has data of a filter only.
LEMMA FoundIsPlace ==
  ASSUME Grown(nodes), NEW root \in Roots, NEW t \in Topics, NEW m \in Matches(root, t)
  PROVE  m \in Places
<1>1. m \in nodes /\ (Len(m) = Len(t) \/ Len(m) \in 2..Len(t))
  BY MatchesExactly DEF OnWalk
<1>2. Len(t) \in Nat /\ Len(t) > 1
  BY OnTheWay
<1>3. Len(m) # 1
  <2>1. PICK k \in Nat : k = Len(t) /\ k > 1
    BY <1>2
  <2>2. CASE Len(m) = Len(t)
    BY <2>1, <2>2
  <2>3. CASE Len(m) \in 2..Len(t)
    <3>1. PICK l \in 2..k : l = Len(m)
      BY <2>1, <2>3
    <3> QED
      BY <3>1
  <2> QED
    BY <1>1, <2>2, <2>3
<1> QED
  BY <1>1, <1>3, PathShape DEF Grown, IsRoot

\* The walk for a topic finds the filters that cover it.
LEMMA TreeRoutes == TreeInv => RoutesExact
<1> SUFFICES ASSUME TreeInv, NEW t \in Topics, NEW root \in Roots
             PROVE  Receivers(root, t) =
                      {s \in Subscriptions :
                         s[1][1] = root[1] /\ Covers(s[1], t) /\ ~ParentLevel(s[1], t)}
  BY DEF RoutesExact
<1>1. Grown(nodes)
  BY DEF TreeInv
<1>2. ASSUME NEW s \in Receivers(root, t)
      PROVE  s \in Subscriptions /\ s[1][1] = root[1] /\ Covers(s[1], t) /\ ~ParentLevel(s[1], t)
  <2>1. s \in Matches(root, t) \X Clients /\ s[2] \in data[s[1]]
    BY DEF Receivers
  <2>2. s[1] \in Matches(root, t) /\ s[1] \in Places /\ s[1] \in nodes
    BY <1>1, <2>1, FoundIsPlace, MatchesExactly
  <2>3. s[1] \in Filters
    BY <2>1, <2>2 DEF TreeInv, AtEnds
  <2> QED
    BY <1>1, <2>1, <2>2, <2>3, WalkAgrees DEF Subscriptions
<1>3. ASSUME NEW s \in Subscriptions, s[1][1] = root[1], Covers(s[1], t), ~ParentLevel(s[1], t)
      PROVE  s \in Receivers(root, t)
  <2>1. s \in Filters \X Clients /\ s[2] \in data[s[1]]
    BY DEF Subscriptions
  <2>2. s[1] \in Places
    BY <2>1, OwnPrefix
  <2>3. s[1] \in nodes
    BY <2>1, <2>2 DEF TreeInv, IInv, NothingOutside, Holds
  <2>4. s[1] \in Matches(root, t)
    BY <1>1, <1>3, <2>1, <2>3, WalkAgrees
  <2> QED
    BY <2>1, <2>4 DEF Receivers
<1> QED
  BY <1>2, <1>3

\* A message reaches exactly the subscriptions whose filter covers its topic,
\* but those to "#" right below it: the recursion of internal_matches over
\* named_children, plus_child and hash_child misses none and takes no other,
\* in the main tree and in the tree of every share name, after any operations.
THEOREM RoutingExact == Spec => []RoutesExact
BY TreeRoutes, InductiveTree, PTL

-----------------------------------------------------------------------------
(* Looking for retained messages.                                          *)

\* The nodes a filter comes to after i segments, none of them "#".
OnReplay(f, i) ==
  {m \in nodes : /\ Len(m) = i /\ m[1] = Main
                 /\ \A j \in 2..i : m[j] \notin {"+", "#"} /\ f[j] \in {"+", m[j]}}

\* "#" is the last segment of a filter, if it is one.
HashLast == \A f \in Filters : \A i \in 1..(Len(f) - 1) : f[i] # "#"

\* The replay goes on to the children that the next segment of the filter
\* covers.
LEMMA ReplayContinues ==
  ASSUME Grown(nodes), NEW f, NEW i \in Nat \ {0}
  PROVE  OnReplay(f, i + 1) =
           {m \in Below(OnReplay(f, i)) : Named(m) /\ f[i + 1] \in {"+", Last(m)}}
<1>1. OnReplay(f, i) \subseteq nodes /\ \A n \in OnReplay(f, i) : Len(n) = i
  BY DEF OnReplay
<1>2. ASSUME NEW m \in nodes, Len(m) = i + 1
      PROVE  m \in OnReplay(f, i + 1) <=>
               SubSeq(m, 1, i) \in OnReplay(f, i) /\ Named(m) /\ f[i + 1] \in {"+", Last(m)}
  <2> DEFINE p == SubSeq(m, 1, i)
             Q(j) == m[j] \notin {"+", "#"} /\ f[j] \in {"+", m[j]}
  <2>1. p \in nodes /\ Len(p) = i /\ \A j \in 1..i : p[j] = m[j]
    BY <1>2, ChildOfParent
  <2> HIDE DEF p
  <2>2. p \in OnReplay(f, i) <=> m[1] = Main /\ \A j \in 2..i : Q(j)
    BY <2>1 DEF OnReplay
  <2>3. Named(m) /\ f[i + 1] \in {"+", Last(m)} <=> Q(i + 1)
    BY <1>2 DEF Last, Named
  <2>4. m \in OnReplay(f, i + 1) <=> m[1] = Main /\ \A j \in 2..(i + 1) : Q(j)
    BY <1>2 DEF OnReplay
  <2> HIDE DEF Q
  <2>5. (\A j \in 2..(i + 1) : Q(j)) <=> (\A j \in 2..i : Q(j)) /\ Q(i + 1)
    OBVIOUS
  <2> QED
    BY <2>2, <2>3, <2>4, <2>5 DEF p
<1>3. \A m : m \in OnReplay(f, i + 1) => m \in nodes /\ Len(m) = i + 1
  BY DEF OnReplay
<1>4. \A m : m \in Below(OnReplay(f, i)) <=>
               m \in nodes /\ Len(m) = i + 1 /\ SubSeq(m, 1, i) \in OnReplay(f, i)
  BY <1>1, FoundFromParent
<1> QED
  BY <1>2, <1>3, <1>4

\* The replay begins at the root of the main tree.
LEMMA ReplayBegins ==
  ASSUME Grown(nodes), NEW f
  PROVE  OnReplay(f, 1) = {<<Main>>}
<1>1. <<Main>> \in nodes /\ Len(<<Main>>) = 1 /\ <<Main>>[1] = Main
  BY DEF Grown
<1>2. \A m \in nodes : Len(m) = 1 => m = <<m[1]>>
  BY PathShape DEF Grown, IsRoot
<1> QED
  BY <1>1, <1>2 DEF OnReplay

\* Segment i of a filter leads from the nodes in A to these.
ReplayStep(f, i, A) ==
  IF f[i] = "#" THEN UNION {NamedBelow(n) : n \in A}
                ELSE {m \in Below(A) : Named(m) /\ f[i] \in {"+", Last(m)}}

\* The nodes a filter comes to at its end.
AtEndOf(f) ==
  IF Last(f) = "#" THEN UNION {NamedBelow(n) : n \in OnReplay(f, Len(f) - 1)}
                   ELSE OnReplay(f, Len(f))

\* The recursion of internal_matches_retained_messages comes to those.
LEMMA ReplayedExactly ==
  ASSUME Grown(nodes), HashLast, NEW f \in Filters
  PROVE  MatchesRetained(f) = {n \in AtEndOf(f) : n \in Places /\ retained[n] # None}
<1> DEFINE l == Len(f)
           F(g) == [i \in 1..Len(f) |->
                      IF i = 1 THEN {<<Main>>}
                      ELSE IF \E j \in 2..(i - 1) : f[j] = "#" THEN g[i - 1]
                      ELSE IF f[i] = "#" THEN UNION {NamedBelow(n) : n \in g[i - 1]}
                      ELSE {m \in UNION {Children(n) : n \in g[i - 1]} :
                              Named(m) /\ f[i] \in {"+", Last(m)}}]
           G == [i \in 1..Len(f) |-> IF i = Len(f) THEN AtEndOf(f) ELSE OnReplay(f, i)]
           R(g) == {n \in g[Len(f)] : n \in Places /\ retained[n] # None}
<1>1. MatchesRetained(f) = R(CHOOSE g : g = F(g))
  BY DEF MatchesRetained
<1>2. l \in Nat /\ l > 1 /\ 1 \in 1..l /\ l \in 1..l /\ Last(f) = f[l]
  BY TrieAssumption DEF TrieAssumption, Last
<1>3. \A i \in 1..l : ~ \E j \in 2..(i - 1) : f[j] = "#"
  BY <1>2 DEF HashLast
<1>4. \A i \in 1..(l - 1) : f[i] # "#"
  BY DEF HashLast
<1> HIDE DEF l
<1>5. ASSUME NEW g, NEW i \in 1..l
      PROVE  F(g)[i] = IF i = 1 THEN {<<Main>>} ELSE ReplayStep(f, i, g[i - 1])
  BY <1>3 DEF l, Below, ReplayStep
<1>6. G[1] = {<<Main>>} /\ \A i \in 1..(l - 1) : G[i] = OnReplay(f, i)
  BY <1>2, ReplayBegins DEF l
<1>7. ASSUME NEW i \in 1..l, i # 1
      PROVE  G[i] = ReplayStep(f, i, OnReplay(f, i - 1))
  <2>1. PICK k \in Nat \ {0} : k = i - 1 /\ i = k + 1
    BY <1>2, <1>7
  <2>2. f[i] # "#" => OnReplay(f, i) = ReplayStep(f, i, OnReplay(f, i - 1))
    BY <2>1, ReplayContinues DEF ReplayStep
  <2>3. CASE i = l
    <3>1. G[i] = AtEndOf(f)
      BY <2>3 DEF l
    <3> HIDE DEF G
    <3> QED
      BY <1>2, <2>2, <2>3, <3>1 DEF AtEndOf, ReplayStep, l
  <2>4. CASE i # l
    <3>1. i \in 1..(l - 1)
      BY <1>2, <2>4
    <3>2. G[i] = OnReplay(f, i) /\ f[i] # "#"
      BY <1>4, <1>6, <3>1
    <3> HIDE DEF G
    <3> QED
      BY <2>2, <3>2
  <2> QED
    BY <2>3, <2>4
<1>9. G = F(G)
  <2>1. ASSUME NEW i \in 1..l
        PROVE  G[i] = F(G)[i]
    <3> HIDE DEF F, G
    <3>1. CASE i = 1
      BY <1>5, <1>6, <3>1
    <3>2. CASE i # 1
      <4>1. i - 1 \in 1..(l - 1)
        BY <1>2, <3>2
      <4>2. G[i - 1] = OnReplay(f, i - 1)
        BY <1>6, <4>1
      <4> QED
        BY <1>5, <1>7, <3>2, <4>2
    <3> QED
      BY <3>1, <3>2
  <2>2. G = [i \in 1..l |-> G[i]] /\ F(G) = [i \in 1..l |-> F(G)[i]]
    BY DEF l
  <2> HIDE DEF F, G
  <2> QED
    BY <2>1, <2>2
<1>10. ASSUME NEW g, g = F(g)
       PROVE  g = G
  <2>2. \A i \in 1..l : g[i] = F(g)[i]
    BY <1>10
  <2>3. g = [i \in 1..l |-> g[i]]
    BY <1>10 DEF l
  <2>4. G = [i \in 1..l |-> G[i]]
    BY DEF l
  <2> HIDE DEF F, G
  <2> DEFINE K == {i \in 1..l : g[i] = G[i]}
  <2>5. 1 \in K
    BY <1>2, <1>5, <1>6, <2>2
  <2>6. ASSUME NEW i \in 1..l, i \in K, i < l
        PROVE  i + 1 \in K
    <3>1. i + 1 \in 1..l /\ i + 1 # 1 /\ (i + 1) - 1 = i /\ i \in 1..(l - 1)
      BY <1>2, <2>6
    <3>2. g[i] = OnReplay(f, i)
      BY <1>6, <2>6, <3>1
    <3>3. g[i + 1] = F(g)[i + 1]
      BY <2>2, <3>1
    <3>4. g[i + 1] = G[i + 1]
      BY <1>5, <1>7, <3>1, <3>2, <3>3
    <3> QED
      BY <3>1, <3>4
  <2> HIDE DEF K
  <2>7. 1..l \subseteq K
    BY <1>2, <2>5, <2>6, StepByStep
  <2>8. \A i \in 1..l : g[i] = G[i]
    BY <2>7 DEF K
  <2> QED
    BY <2>3, <2>4, <2>8
<1>11. G[l] = AtEndOf(f)
  BY <1>2 DEF l
<1> HIDE DEF F, G
<1>12. (CHOOSE g : g = F(g)) = G
  <2>1. \E g : g = F(g)
    BY <1>9
  <2>2. (CHOOSE g : g = F(g)) = F(CHOOSE g : g = F(g))
    BY <2>1
  <2> QED
    BY <1>10, <2>2
<1> QED
  BY <1>1, <1>11, <1>12 DEF l

\* A retained message is at the end of the walk exactly if the filter covers it.
LEMMA EndCovers ==
  ASSUME Grown(nodes), HashLast, NEW f \in Filters, f[1] = Main, NEW t \in Topics, t \in nodes
  PROVE  t \in AtEndOf(f) <=> Covers(f, t)
<1>1. Len(f) \in Nat /\ Len(f) > 1 /\ Last(f) = f[Len(f)]
  BY TrieAssumption DEF TrieAssumption, Last
<1>2. Len(t) \in Nat /\ Len(t) > 1 /\ t[1] = Main /\ \A j \in 1..Len(t) : t[j] \notin {"+", "#"}
  BY TrieAssumption DEF TrieAssumption
<1>3. CASE Last(f) # "#"
  <2>1. t \in AtEndOf(f) <=> Len(t) = Len(f) /\ \A j \in 2..Len(f) : f[j] \in {"+", t[j]}
    BY <1>1, <1>2, <1>3 DEF AtEndOf, OnReplay
  <2> QED
    BY <1>1, <1>2, <1>3, <2>1, CoversExactly
<1>4. CASE Last(f) = "#"
  <2> DEFINE k == Len(f) - 1
  <2>1. k \in Nat \ {0} /\ Len(f) = k + 1
    BY <1>1
  <2> HIDE DEF k
  <2>2. t \in AtEndOf(f) <=> \E n \in OnReplay(f, k) : t \in NamedBelow(n)
    BY <1>4 DEF AtEndOf, k
  <2>3. ASSUME NEW n \in OnReplay(f, k), t \in NamedBelow(n)
        PROVE  k <= Len(t) /\ \A j \in 2..k : f[j] \in {"+", t[j]}
    <3>1. n \in nodes /\ Len(n) = k /\ (\A j \in 2..k : f[j] \in {"+", n[j]}) /\ IsPrefix(n, t)
      BY <2>3 DEF OnReplay, NamedBelow
    <3>2. k <= Len(t) /\ \A j \in 1..k : n[j] = t[j]
      BY <3>1, NodePrefix DEF Grown
    <3> QED
      BY <2>1, <3>1, <3>2
  <2>4. ASSUME k <= Len(t), \A j \in 2..k : f[j] \in {"+", t[j]}
        PROVE  \E n \in OnReplay(f, k) : t \in NamedBelow(n)
    <3> DEFINE n == SubSeq(t, 1, k)
    <3>1. t \in Seq(Segments) /\ k \in 1..Len(t)
      BY <1>2, <2>1, <2>4, OnTheWay
    <3>2. n \in nodes
      BY <3>1 DEF Grown
    <3>3. Len(n) = k /\ \A j \in 1..k : n[j] = t[j]
      BY <3>1, FirstSegments
    <3> HIDE DEF n
    <3>4. IsPrefix(n, t)
      BY <2>4, <3>2, <3>3, NodePrefix DEF Grown
    <3>5. n \in OnReplay(f, k)
      BY <1>2, <2>1, <2>4, <3>1, <3>2, <3>3 DEF OnReplay
    <3>6. t \in NamedBelow(n)
      BY <1>2, <2>1, <3>3, <3>4 DEF NamedBelow
    <3> QED
      BY <3>5, <3>6
  <2>5. Covers(f, t) <=> k <= Len(t) /\ \A j \in 2..k : f[j] \in {"+", t[j]}
    BY <1>4, CoversExactly DEF k
  <2> QED
    BY <2>2, <2>3, <2>4, <2>5
<1> QED
  BY <1>3, <1>4

\* The replay for a filter finds the topics it covers.
LEMMA TreeReplays ==
  ASSUME HashLast, TreeInv
  PROVE  ReplaysExact
<1> SUFFICES ASSUME NEW f \in Filters, f[1] = Main
             PROVE  MatchesRetained(f) = {t \in Topics : retained[t] # None /\ Covers(f, t)}
  BY DEF ReplaysExact
<1>1. Grown(nodes)
  BY DEF TreeInv
<1>2. MatchesRetained(f) = {n \in AtEndOf(f) : n \in Places /\ retained[n] # None}
  BY <1>1, ReplayedExactly
<1>3. \A n \in Places : retained[n] # None => n \in Topics /\ n \in nodes
  BY DEF TreeInv, AtEnds, IInv, NothingOutside, Holds
<1>4. \A t \in Topics : t \in Places
  BY OwnPrefix
<1>5. \A t \in Topics : t \in nodes => (t \in AtEndOf(f) <=> Covers(f, t))
  BY <1>1, EndCovers
<1> QED
  BY <1>2, <1>3, <1>4, <1>5

\* A new subscription is sent exactly the retained messages its filter covers,
\* and a message reaches exactly the subscriptions that cover it: both
\* recursions over the trees find what the definition of filters says, after
\* any operations.
THEOREM WalkingExact ==
  ASSUME HashLast
  PROVE  Spec => []WalksExact
<1>1. TreeInv => WalksExact
  BY TreeRoutes, TreeReplays DEF WalksExact
<1> QED
  BY <1>1, InductiveTree, PTL

-----------------------------------------------------------------------------
(* Types.                                                                  *)

TypeInv == CountInv /\ retainedBytes \in 0..(UsizeSize - 1)

\* Counters that count what is there are a usize.
LEMMA TypeInvIsTyped ==
  ASSUME Countable, TypeInv
  PROVE  TypeOK
<1>1. nodes \subseteq Places \union Roots /\ Typed(data, retained)
  BY DEF TypeInv, CountInv, TreeInv, IInv, Grown
<1>2. Subscriptions \subseteq Filters \X Clients /\ RetainedAt(retained) \subseteq Topics
  BY DEF Subscriptions, TypeInv, CountInv, TreeInv, AtEnds, RetainedAt
<1>3. /\ Cardinality(Subscriptions) \in Nat /\ Cardinality(Filters \X Clients) \in Nat
      /\ Cardinality(Subscriptions) <= Cardinality(Filters \X Clients)
  <2>1. IsFiniteSet(Filters \X Clients)
    BY FS_Product DEF Countable
  <2> QED
    BY <1>2, <2>1, FS_Subset, FS_CardinalityType
<1>4. /\ Cardinality(RetainedAt(retained)) \in Nat /\ Cardinality(Topics) \in Nat
      /\ Cardinality(RetainedAt(retained)) <= Cardinality(Topics)
  BY <1>2, FS_Subset, FS_CardinalityType DEF Countable
<1>5. subscribersCount \in 0..Cardinality(Filters \X Clients) /\ retainedCount \in 0..Cardinality(Topics)
  BY <1>3, <1>4 DEF TypeInv, CountInv
<1> QED
  BY <1>1, <1>5 DEF TypeOK, TypeInv, Typed

\* Every change of retained_messages_bytes wraps.
LEMMA BytesTyped ==
  ASSUME TypeInv, [Next]_vars
  PROVE  retainedBytes' \in 0..(UsizeSize - 1)
<1>1. ASSUME NEW t \in Topics, NEW m \in Payloads \union {None}, SetRetainedMessage(t, m)
      PROVE  retainedBytes' \in 0..(UsizeSize - 1)
  <2>1. retained[t] \in Payloads \union {None} /\ Payloads \subseteq Int
    BY OwnPrefix, TrieAssumption DEF TypeInv, CountInv, TreeInv, IInv, Typed, TrieAssumption
  <2>2. \A x \in Int : x % UsizeSize \in 0..(UsizeSize - 1)
    BY TrieAssumption DEF TrieAssumption
  <2>3. CASE retained[t] = None /\ m # None
    <3>1. retainedBytes' = (retainedBytes + m) % UsizeSize /\ retainedBytes + m \in Int
      BY <1>1, <2>1, <2>3 DEF SetRetainedMessage, CountRetained, TypeInv
    <3> QED
      BY <2>2, <3>1
  <2>4. CASE retained[t] # None /\ m = None
    <3>1. retainedBytes' = (retainedBytes - retained[t]) % UsizeSize
      BY <1>1, <2>4 DEF SetRetainedMessage, CountRetained
    <3>2. PICK old \in Int : old = retained[t]
      BY <2>1, <2>4
    <3>3. retainedBytes \in Int
      BY TrieAssumption DEF TypeInv, TrieAssumption
    <3> QED
      BY <2>2, <3>1, <3>2, <3>3
  <2>5. CASE (retained[t] = None) = (m = None)
    BY <1>1, <2>5 DEF SetRetainedMessage, CountRetained, TypeInv
  <2> QED
    BY <2>3, <2>4, <2>5
<1>2. ASSUME retainedBytes' = retainedBytes
      PROVE  retainedBytes' \in 0..(UsizeSize - 1)
  BY <1>2 DEF TypeInv
<1> QED
  BY <1>1, <1>2 DEF Next, Subscribe, Unsubscribe, UnsubscribeAll, vars

\* Nodes are made at places only, and neither counter of entries passes below 0
\* or above the number of entries there can be.
THEOREM TypeCorrect ==
  ASSUME Countable
  PROVE  Spec => []TypeOK
<1>1. Init => TypeInv
  BY InitCounts, TrieAssumption DEF TypeInv, Init, TrieAssumption
<1>2. TypeInv /\ [Next]_vars => TypeInv'
  BY NextCounts, BytesTyped DEF TypeInv
<1>3. TypeInv => TypeOK
  BY TypeInvIsTyped
<1> QED
  BY <1>1, <1>2, <1>3, PTL DEF Spec
=============================================================================
