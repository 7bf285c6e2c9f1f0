--------------------------- MODULE RouterOnceProofs ---------------------------
(***************************************************************************)
(* Router: a message is delivered at most once to a client by each of the  *)
(* two walks over the tree, and each share name sends it to one client; no *)
(* subscriber is behind the retained message of a topic.                   *)
(*                                                                         *)
(* A message that can still be delivered is in one place: with the task    *)
(* that awaits plugins for it or in uncompleted_messages.  It has then not *)
(* been delivered (OnceInv), so that what deliver adds is all there is:    *)
(* one copy for the direct subscriptions of a client, one for its shared   *)
(* ones, the latter for the share names that have drawn it.                *)
(*                                                                         *)
(* A retained message belongs to the publication with its number as long   *)
(* as that is pending (OneRetained): its delivery reaches those who have   *)
(* subscribed by then, and who subscribes later is sent it by subscribe.   *)
(***************************************************************************)
EXTENDS RouterProofs

-----------------------------------------------------------------------------
(* The invariant.                                                          *)

Walks == {"direct", "shared"}

Undelivered(n) == \A c \in Clients, w \in Walks : copies[c][n][w] = 0

Served(n) == \A c \in Clients, w \in Walks : copies[c][n][w] <= 1

Publishing(c) == task[c].at = "publishing"
Holding(c) == held[c] # None

\* What can still be delivered has not been.
StillToDeliver ==
  /\ \A n \in Messages : n > published => Undelivered(n)
  /\ \A c \in Clients : Publishing(c) => task[c].msg.n <= published /\ Undelivered(task[c].msg.n)
  /\ \A c \in Clients : Holding(c) => held[c].n <= published /\ Undelivered(held[c].n)

InOnePlace ==
  /\ \A c, d \in Clients : c # d /\ Publishing(c) /\ Publishing(d) => task[c].msg.n # task[d].msg.n
  /\ \A c, d \in Clients : c # d /\ Holding(c) /\ Holding(d) => held[c].n # held[d].n
  /\ \A c, d \in Clients : Publishing(c) /\ Holding(d) => task[c].msg.n # held[d].n

OnceInv == StillToDeliver /\ InOnePlace /\ \A n \in Messages : Served(n)

-----------------------------------------------------------------------------
(* What the operations of Storage add to the copies of a message.          *)

\* The copy of a walk, if there is one, is the only one (add_message).
LEMMA CopyForOne ==
  ASSUME NEW m \in Message, NEW c \in Clients, NEW F, NEW way
  PROVE  LET q == CopyFor(m, c, F, way) IN
         /\ Len(q) \in {0, 1} /\ q \in Seq({CopyOf(m, c, F, way)})
         /\ Len(q) = 1 => F # {} /\ q[1].n = m.n /\ q[1].way = way
<1>1. CopyOf(m, c, F, way).n = m.n /\ CopyOf(m, c, F, way).way = way
  BY CopyFields DEF CopyOf
<1>2. CASE F = {}
  BY <1>2 DEF CopyFor
<1>3. CASE F # {}
  <2> DEFINE x == CopyOf(m, c, F, way)
  <2>1. CopyFor(m, c, F, way) = <<x>> /\ x.n = m.n /\ x.way = way
    BY <1>1, <1>3 DEF CopyFor
  <2> HIDE DEF x
  <2>2. Len(<<x>>) = 1 /\ <<x>> \in Seq({x}) /\ <<x>>[1] = x
    OBVIOUS
  <2>3. CopyOf(m, c, F, way) = x
    BY DEF x
  <2> QED
    BY <1>3, <2>1, <2>2, <2>3
<1> QED
  BY <1>2, <1>3

CopiesIn(q, n, way) == {i \in DOMAIN q : q[i].n = n /\ q[i].way = way}

AtMostOne(q, n, way) == /\ Len(q) \in {0, 1}
                        /\ Len(q) = 1 => q[1].n = n /\ q[1].way = way

\* Of two such walks, one after the other, each gives at most one copy.
LEMMA TwoWalks ==
  ASSUME NEW S, NEW d \in Seq(S), NEW s \in Seq(S), NEW n, NEW k,
         AtMostOne(d, n, "direct"), AtMostOne(s, n, "shared")
  PROVE  /\ k # n => \A w \in Walks : Cardinality(CopiesIn(d \o s, k, w)) = 0
         /\ \A w \in Walks : Cardinality(CopiesIn(d \o s, k, w)) \in {0, 1}
<1> DEFINE q == d \o s
           At(w) == CopiesIn(q, k, w)
<1>1. /\ DOMAIN q = 1..(Len(d) + Len(s))
      /\ \A i \in DOMAIN q : IF i <= Len(d) THEN i = 1 /\ Len(d) = 1 /\ q[i] = d[1]
                                            ELSE i = Len(d) + 1 /\ Len(s) = 1 /\ q[i] = s[1]
  BY DEF AtMostOne
<1> HIDE DEF q
<1>2. k # n => \A w \in Walks : At(w) = {}
  BY <1>1 DEF CopiesIn, AtMostOne
<1>3. At("direct") \subseteq {1} /\ At("shared") \subseteq {Len(d) + 1}
  BY <1>1 DEF CopiesIn, AtMostOne
<1> HIDE DEF At
<1>5. ASSUME NEW T, NEW x, T \subseteq {x}
      PROVE  Cardinality(T) \in {0, 1} /\ (T = {} => Cardinality(T) = 0)
             /\ (Cardinality(T) > 0 => T # {})
  <2>1. T = {} \/ T = {x}
    BY <1>5
  <2>2. Cardinality({}) = 0 /\ Cardinality({x}) = 1
    BY FS_EmptySet, FS_Singleton
  <2>3. CASE T = {}
    BY <2>2, <2>3
  <2>4. CASE T = {x}
    <3>1. T # {}
      BY <2>4
    <3> QED
      BY <2>2, <2>4, <3>1
  <2> QED
    BY <2>1, <2>3, <2>4
<1>6. \A w \in Walks : Cardinality(At(w)) \in {0, 1}
  BY <1>3, <1>5 DEF Walks
<1>8. k # n => \A w \in Walks : Cardinality(At(w)) = 0
  BY <1>2, FS_EmptySet
<1> QED
  BY <1>6, <1>8 DEF At, q

\* deliver: at most one copy more by each walk.
LEMMA DeliverCounts ==
  ASSUME TypeOK, NEW m \in Message, Deliver(m)
  PROVE  \A c \in Clients, n \in Messages :
           /\ n # m.n => \A w \in Walks : copies'[c][n][w] = copies[c][n][w]
           /\ \A w \in Walks : copies'[c][n][w] \in {copies[c][n][w], copies[c][n][w] + 1}
<1>0. copies \in [Clients -> [Messages -> [Ways -> Nat]]] /\ Walks \subseteq Ways
  BY DEF TypeOK, Walks, Ways
<1>1. CASE UNCHANGED <<queue, copies>>
  BY <1>1
<1>2. CASE ~UNCHANGED <<queue, copies>>
  <2>1. PICK pick \in [Groups(m) -> Clients] :
          Enqueue([c \in Clients |->
            CopyFor(m, c, Direct(m, c), "direct") \o CopyFor(m, c, Shared(m, c, pick), "shared")])
    BY <1>2 DEF Deliver
  <2> DEFINE d(c) == CopyFor(m, c, Direct(m, c), "direct")
             s(c) == CopyFor(m, c, Shared(m, c, pick), "shared")
             At(c, n, w) == CopiesIn(d(c) \o s(c), n, w)
  <2>3. ASSUME NEW c \in Clients, NEW n \in Messages, NEW w \in Walks
        PROVE  copies'[c][n][w] = copies[c][n][w] + Cardinality(At(c, n, w))
    BY <1>0, <2>1 DEF Enqueue, CopiesIn
  <2>5. ASSUME NEW c \in Clients, NEW n \in Messages
        PROVE  /\ n # m.n => \A w \in Walks : Cardinality(At(c, n, w)) = 0
               /\ \A w \in Walks : Cardinality(At(c, n, w)) \in {0, 1}
    <3> DEFINE D == d(c)
               E == s(c)
               S == {CopyOf(m, c, Direct(m, c), "direct"), CopyOf(m, c, Shared(m, c, pick), "shared")}
    <3>1. /\ D \in Seq({CopyOf(m, c, Direct(m, c), "direct")}) /\ Len(D) \in {0, 1}
          /\ Len(D) = 1 => D[1].n = m.n /\ D[1].way = "direct"
      BY CopyForOne
    <3>2. /\ E \in Seq({CopyOf(m, c, Shared(m, c, pick), "shared")}) /\ Len(E) \in {0, 1}
          /\ Len(E) = 1 => E[1].n = m.n /\ E[1].way = "shared"
      BY CopyForOne
    <3> HIDE DEF D, E
    <3>3. D \in Seq(S) /\ E \in Seq(S)
      BY <3>1, <3>2
    <3> HIDE DEF S
    <3>4. /\ n # m.n => \A w \in Walks : Cardinality(CopiesIn(D \o E, n, w)) = 0
          /\ \A w \in Walks : Cardinality(CopiesIn(D \o E, n, w)) \in {0, 1}
      <4>1. AtMostOne(D, m.n, "direct") /\ AtMostOne(E, m.n, "shared")
        BY <3>1, <3>2 DEF AtMostOne
      <4> QED
        BY <3>3, <4>1, TwoWalks
    <3>5. \A w : At(c, n, w) = CopiesIn(D \o E, n, w)
      BY DEF D, E
    <3> HIDE DEF At
    <3> QED
      BY <3>4, <3>5
  <2> HIDE DEF At
  <2>6. ASSUME NEW c \in Clients, NEW n \in Messages
        PROVE /\ n # m.n => \A w \in Walks : copies'[c][n][w] = copies[c][n][w]
              /\ \A w \in Walks : copies'[c][n][w] \in {copies[c][n][w], copies[c][n][w] + 1}
    <3>1. \A w \in Walks : copies[c][n][w] \in Nat
                           /\ copies'[c][n][w] = copies[c][n][w] + Cardinality(At(c, n, w))
      BY <1>0, <2>3
    <3> QED
      BY <3>1, <2>5 DEF Walks
  <2> QED
    BY <2>6
<1> QED
  BY <1>1, <1>2

\* subscribe queues no copies of deliver's kinds.
LEMMA StoreCounts ==
  ASSUME TypeOK, NEW c \in Clients, NEW r \in Requests, r.filter \in Filters, Store(c, r)
  PROVE  \A d \in Clients, n \in Messages, w \in Walks : copies'[d][n][w] = copies[d][n][w]
<1> DEFINE copy(t) == Copy(retained[t], {r.filter}, {ItemOf(r)}, "replay")
           new(order) == [d \in Clients |->
             IF d # c THEN <<>> ELSE [i \in DOMAIN order |-> copy(order[i])]]
<1>1. PICK order \in [1..Cardinality(Replayed(c, r)) -> Replayed(c, r)] : Enqueue(new(order))
  BY DEF Store
<1>2. \A t \in Replayed(c, r) : copy(t).way = "replay"
  <2> TAKE t \in Replayed(c, r)
  <2>1. retained[t] \in Message
    BY DEF Replayed, TypeOK, Maybe
  <2> QED
    BY <2>1, CopyFields
<1> HIDE DEF copy
<1>3. ASSUME NEW d \in Clients, NEW i \in DOMAIN new(order)[d]
      PROVE  new(order)[d][i].way = "replay"
  <2>1. d = c /\ i \in DOMAIN order /\ order[i] \in Replayed(c, r)
    BY <1>3
  <2> QED
    BY <1>2, <2>1
<1>4. ASSUME NEW d \in Clients, NEW n \in Messages, NEW w \in Walks
      PROVE  copies'[d][n][w] = copies[d][n][w]
  <2> DEFINE added == {i \in DOMAIN new(order)[d] :
                         new(order)[d][i].n = n /\ new(order)[d][i].way = w}
  <2>1. added = {}
    BY <1>3 DEF Walks
  <2>2. copies'[d][n][w] = copies[d][n][w] + Cardinality(added)
    <3> HIDE DEF new
    <3> QED
      BY <1>1 DEF Enqueue, Walks, Ways
  <2>3. copies[d][n][w] \in Nat
    BY DEF TypeOK, Walks, Ways
  <2> HIDE DEF added
  <2>4. Cardinality(added) = 0
    BY <2>1, FS_EmptySet
  <2> QED
    BY <2>2, <2>3, <2>4
<1> QED
  BY <1>4

-----------------------------------------------------------------------------
(* Every step keeps the invariant.                                         *)

\* The number of messages is a number.
LEMMA Counted == ASSUME IInv PROVE TypeOK /\ published \in Nat
<1>1. TypeOK
  BY DEF IInv
<1>2. published \in 0..MaxMessages
  BY <1>1 DEF TypeOK
<1> QED
  BY <1>1, <1>2, Bounds

\* Nothing is published and nothing delivered: messages are still to deliver
\* only where they were, a session that is dropped forgets its copies.
LEMMA NothingDelivered ==
  ASSUME IInv, OnceInv, published' = published,
         \A c \in Clients : Publishing(c)' => task'[c] = task[c],
         \A c \in Clients : Holding(c)' => held'[c] = held[c],
         \A c \in Clients, n \in Messages, w \in Walks : copies'[c][n][w] \in {copies[c][n][w], 0}
  PROVE  OnceInv'
<1>1. \A n \in Messages : Undelivered(n) => Undelivered(n)'
  BY DEF Undelivered
<1>2. \A c \in Clients : /\ Publishing(c)' => Publishing(c) /\ task[c].msg.n \in Messages
                         /\ Holding(c)' => Holding(c) /\ held[c].n \in Messages
  <2> TAKE c \in Clients
  <2>1. Publishing(c) => task[c].msg \in Message
    BY TaskCases DEF IInv, Publishing
  <2>2. Holding(c) => held[c] \in Message
    BY DEF IInv, TypeOK, Maybe, Holding
  <2>3. Publishing(c)' => Publishing(c)
    BY DEF Publishing
  <2>4. Holding(c)' => Holding(c)
    BY DEF Holding
  <2> QED
    BY <2>1, <2>2, <2>3, <2>4 DEF Message
<1>3. StillToDeliver'
  BY <1>1, <1>2 DEF OnceInv, StillToDeliver
<1>4. InOnePlace'
  BY <1>2 DEF OnceInv, InOnePlace
<1>5. ASSUME NEW n \in Messages
      PROVE  Served(n)'
  <2>1. \A c \in Clients, w \in Walks : copies[c][n][w] <= 1 /\ copies[c][n][w] \in Nat
    BY DEF OnceInv, Served, IInv, TypeOK, Walks, Ways
  <2> QED
    BY <2>1 DEF Served
<1> QED
  BY <1>3, <1>4, <1>5 DEF OnceInv

\* A message that has not been delivered is, and is then in no place.
LEMMA DeliverOnce ==
  ASSUME IInv, OnceInv, NEW m \in Message, Undelivered(m.n), Deliver(m),
         published' = published \/ published' = published + 1, m.n <= published',
         \A c \in Clients : Publishing(c)' => Publishing(c) /\ task'[c] = task[c] /\ task[c].msg.n # m.n,
         \A c \in Clients : Holding(c)' => Holding(c) /\ held'[c] = held[c] /\ held[c].n # m.n
  PROVE  OnceInv'
<1>0. TypeOK /\ published \in Nat /\ m.n \in Messages
  BY Counted DEF Message
<1>1. \A c \in Clients, n \in Messages :
        /\ n # m.n => \A w \in Walks : copies'[c][n][w] = copies[c][n][w]
        /\ \A w \in Walks : copies'[c][n][w] \in {copies[c][n][w], copies[c][n][w] + 1}
  BY <1>0, DeliverCounts
<1>2. \A n \in Messages : n # m.n /\ Undelivered(n) =>
        \A c \in Clients, w \in Walks : copies'[c][n][w] = 0
  BY <1>1 DEF Undelivered
<1>3. \A c \in Clients : /\ Publishing(c) => task[c].msg.n \in Messages
                         /\ Holding(c) => held[c].n \in Messages
  <2> TAKE c \in Clients
  <2>1. Publishing(c) => task[c].msg \in Message
    BY TaskCases DEF IInv, Publishing
  <2>2. Holding(c) => held[c] \in Message
    BY DEF IInv, TypeOK, Maybe, Holding
  <2> QED
    BY <2>1, <2>2 DEF Message
<1>4. StillToDeliver'
  <2>1. \A n \in Messages : n > published' => n > published /\ n # m.n
    BY <1>0, Bounds DEF Messages
  <2>2. \A n \in Messages : n <= published => n <= published'
    BY <1>0, Bounds DEF Messages
  <2>3. \A n \in Messages : n > published' => Undelivered(n)'
    BY <1>2, <2>1 DEF OnceInv, StillToDeliver, Undelivered
  <2>4. ASSUME NEW c \in Clients, Publishing(c)'
        PROVE  (task[c].msg.n <= published /\ Undelivered(task[c].msg.n))'
    <3>1. /\ task'[c] = task[c] /\ task[c].msg.n # m.n /\ task[c].msg.n \in Messages
          /\ task[c].msg.n <= published /\ Undelivered(task[c].msg.n)
      BY <1>3, <2>4 DEF OnceInv, StillToDeliver
    <3> QED
      BY <1>2, <2>2, <3>1 DEF Undelivered
  <2>5. ASSUME NEW c \in Clients, Holding(c)'
        PROVE  (held[c].n <= published /\ Undelivered(held[c].n))'
    <3>1. /\ held'[c] = held[c] /\ held[c].n # m.n /\ held[c].n \in Messages
          /\ held[c].n <= published /\ Undelivered(held[c].n)
      BY <1>3, <2>5 DEF OnceInv, StillToDeliver
    <3> QED
      BY <1>2, <2>2, <3>1 DEF Undelivered
  <2> QED
    BY <2>3, <2>4, <2>5 DEF StillToDeliver
<1>5. InOnePlace'
  BY DEF OnceInv, InOnePlace
<1>6. ASSUME NEW n \in Messages
      PROVE  Served(n)'
  <2>1. CASE n # m.n
    BY <1>1, <2>1 DEF OnceInv, Served
  <2>2. CASE n = m.n
    <3>1. \A c \in Clients, w \in Walks : copies'[c][n][w] \in {0, 1}
      BY <1>1, <2>2 DEF Undelivered
    <3> QED
      BY <3>1 DEF Served
  <2> QED
    BY <2>1, <2>2
<1> QED
  BY <1>4, <1>5, <1>6 DEF OnceInv

\* A PUBLISH that is accepted begins a message nobody has (handle_publish).
LEMMA HandlePublishOnce ==
  ASSUME IInv, OnceInv, NEW c \in Clients, NEW p \in PublishPackets, HandlePublish(c, p)
  PROVE  OnceInv'
<1>0. TypeOK /\ published \in Nat
  BY Counted
<1>1. copies' = copies /\ task \in [Clients -> Task] /\ held \in [Clients -> Maybe(Message)]
  BY <1>0 DEF HandlePublish, TypeOK
<1>2. \A n \in Messages, d \in Clients, w \in Walks : copies[d][n][w] \in {copies[d][n][w], 0}
  OBVIOUS
<1>3. CASE Leave(c) /\ published' = published
  <2>1. \A d \in Clients : (Publishing(d)' => task'[d] = task[d]) /\ (Holding(d)' => held'[d] = held[d])
    BY <1>1, <1>3 DEF Leave, Publishing, Holding, Gone
  <2> QED
    BY <1>1, <1>2, <1>3, <2>1, NothingDelivered
<1>4. CASE ~Refused(c, p)
  <2> DEFINE m == NewMessage(published + 1, c, p, Rewrite[TopicOf(c, p)])
             new == [at |-> "publishing", msg |-> m]
  <2>1. task' = [task EXCEPT ![c] = new] /\ published' = published + 1 /\ held' = held
        /\ published < MaxMessages
    BY <1>4 DEF HandlePublish
  <2>2. new.msg.n = published + 1
    BY DEF NewMessage
  <2> HIDE DEF new
  <2>3. /\ task'[c].msg.n = published + 1
        /\ \A d \in Clients : d # c => task'[d] = task[d]
    BY <1>1, <2>1, <2>2
  <2>4. published + 1 \in Messages
    BY <1>0, <2>1, Bounds DEF Messages
  <2>5. \A n \in Messages : Undelivered(n) => Undelivered(n)'
    BY <1>1 DEF Undelivered
  <2>6. \A d \in Clients : /\ Publishing(d) => task[d].msg.n \in Messages /\ task[d].msg.n <= published
                           /\ Holding(d) => held[d].n \in Messages /\ held[d].n <= published
    <3> TAKE d \in Clients
    <3>1. Publishing(d) => task[d].msg \in Message
      BY <1>0, TaskCases DEF Publishing
    <3>2. Holding(d) => held[d] \in Message
      BY <1>1 DEF Maybe, Holding
    <3> QED
      BY <3>1, <3>2 DEF Message, OnceInv, StillToDeliver
  <2>7. \A n \in Messages : n > published + 1 => n > published
    BY <1>0, Bounds DEF Messages
  <2>8. StillToDeliver'
    <3>1. \A n \in Messages : n > published' => Undelivered(n)'
      BY <2>1, <2>5, <2>7 DEF OnceInv, StillToDeliver
    <3>2. ASSUME NEW d \in Clients, Publishing(d)'
          PROVE  (task[d].msg.n <= published /\ Undelivered(task[d].msg.n))'
      <4>1. CASE d = c
        <5>1. Undelivered(published + 1)
          BY <1>0, <2>4 DEF OnceInv, StillToDeliver
        <5> QED
          BY <1>0, <1>1, <2>1, <2>3, <4>1, <5>1 DEF Undelivered
      <4>2. CASE d # c
        <5>1. Publishing(d) /\ task'[d] = task[d]
          BY <2>3, <3>2, <4>2 DEF Publishing
        <5>2. task[d].msg.n <= published + 1 /\ Undelivered(task[d].msg.n)
          BY <1>0, <2>6, <5>1, Bounds DEF OnceInv, StillToDeliver, Messages
        <5> QED
          BY <1>1, <2>1, <5>1, <5>2 DEF Undelivered
      <4> QED
        BY <4>1, <4>2
    <3>3. ASSUME NEW d \in Clients, Holding(d)'
          PROVE  (held[d].n <= published /\ Undelivered(held[d].n))'
      <4>1. Holding(d)
        BY <2>1, <3>3 DEF Holding
      <4>2. held[d].n <= published + 1 /\ Undelivered(held[d].n)
        BY <1>0, <2>6, <4>1, Bounds DEF OnceInv, StillToDeliver, Messages
      <4> QED
        BY <1>1, <2>1, <4>2 DEF Undelivered
    <3> QED
      BY <3>1, <3>2, <3>3 DEF StillToDeliver
  <2>9. InOnePlace'
    <3>1. \A d \in Clients : /\ Publishing(d) => task[d].msg.n # published + 1
                             /\ Holding(d) => held[d].n # published + 1
      BY <1>0, <2>6, Bounds DEF Messages
    <3>2. \A d \in Clients : Holding(d)' <=> Holding(d)
      BY <2>1 DEF Holding
    <3>3. \A d \in Clients : d # c => (Publishing(d)' <=> Publishing(d))
      BY <2>3 DEF Publishing
    <3> QED
      BY <2>1, <2>3, <3>1, <3>2, <3>3 DEF OnceInv, InOnePlace
  <2>10. \A n \in Messages : Served(n)'
    BY <1>1 DEF OnceInv, Served
  <2> QED
    BY <2>8, <2>9, <2>10 DEF OnceInv
<1> QED
  BY <1>3, <1>4 DEF HandlePublish

\* The rest of handle_publish: the message is delivered, or moves to
\* uncompleted_messages, or goes with the connection.
LEMMA DoPublishOnce ==
  ASSUME IInv, OnceInv, NEW c \in Clients, DoPublish(c)
  PROVE  OnceInv'
<1> DEFINE m == task[c].msg
<1>0. TypeOK /\ task \in [Clients -> Task] /\ held \in [Clients -> Maybe(Message)]
      /\ published' = published /\ Publishing(c)
  BY DEF IInv, TypeOK, DoPublish, Publishing
<1>1. m \in Message /\ Undelivered(m.n) /\ m.n <= published
  BY <1>0, TaskCases DEF OnceInv, StillToDeliver, Publishing
<1>2. \A d \in Clients : /\ d # c /\ Publishing(d) => task[d].msg.n # m.n
                         /\ Holding(d) => held[d].n # m.n
  BY <1>0 DEF OnceInv, InOnePlace
<1>3. Idle.at # "publishing" /\ Gone.at # "publishing"
  BY DEF Idle, Gone
<1>4. CASE Deliver(m) /\ task' = [task EXCEPT ![c] = Idle] /\ UNCHANGED <<alias, held, wire>>
  <2>1. \A d \in Clients : Publishing(d)' => Publishing(d) /\ task'[d] = task[d] /\ task[d].msg.n # m.n
    BY <1>0, <1>2, <1>3, <1>4 DEF Publishing
  <2>2. \A d \in Clients : Holding(d)' => Holding(d) /\ held'[d] = held[d] /\ held[d].n # m.n
    BY <1>2, <1>4 DEF Holding
  <2> HIDE DEF m
  <2> QED
    BY <1>0, <1>1, <1>4, <2>1, <2>2, DeliverOnce
<1>5. CASE /\ held' = [held EXCEPT ![c] = m] /\ task' = [task EXCEPT ![c] = Idle]
           /\ UNCHANGED <<queue, copies, alias, wire>>
  <2>1. /\ held'[c] = m /\ \A d \in Clients : d # c => held'[d] = held[d]
        /\ task'[c] = Idle /\ \A d \in Clients : d # c => task'[d] = task[d]
    BY <1>0, <1>5
  <2>2. /\ ~Publishing(c)' /\ \A d \in Clients : d # c => (Publishing(d)' <=> Publishing(d))
        /\ \A d \in Clients : d # c => (Holding(d)' <=> Holding(d))
    BY <1>3, <2>1 DEF Publishing, Holding
  <2> HIDE DEF m
  <2>3. StillToDeliver'
    <3>1. \A n : Undelivered(n) => Undelivered(n)'
      BY <1>5 DEF Undelivered
    <3>2. \A n \in Messages : n > published' => Undelivered(n)'
      BY <1>0, <3>1 DEF OnceInv, StillToDeliver
    <3>3. ASSUME NEW d \in Clients, Publishing(d)'
          PROVE  (task[d].msg.n <= published /\ Undelivered(task[d].msg.n))'
      <4>1. task'[d] = task[d] /\ task[d].msg.n <= published /\ Undelivered(task[d].msg.n)
        BY <2>1, <2>2, <3>3 DEF OnceInv, StillToDeliver
      <4> QED
        BY <1>0, <1>5, <4>1 DEF Undelivered
    <3>4. ASSUME NEW d \in Clients, Holding(d)'
          PROVE  (held[d].n <= published /\ Undelivered(held[d].n))'
      <4>1. held'[d].n <= published /\ (held'[d] = m \/ (held'[d] = held[d] /\ Undelivered(held[d].n)))
        BY <1>1, <2>1, <2>2, <3>4 DEF OnceInv, StillToDeliver
      <4> QED
        BY <1>0, <1>1, <1>5, <4>1 DEF Undelivered
    <3> QED
      BY <3>2, <3>3, <3>4 DEF StillToDeliver
  <2>4. InOnePlace'
    BY <1>2, <2>1, <2>2 DEF OnceInv, InOnePlace
  <2>5. \A n \in Messages : Served(n)'
    BY <1>5 DEF OnceInv, Served
  <2> QED
    BY <2>3, <2>4, <2>5 DEF OnceInv
<1>6. CASE Leave(c) /\ UNCHANGED <<queue, copies>>
  <2>1. \A d \in Clients : (Publishing(d)' => task'[d] = task[d]) /\ (Holding(d)' => held'[d] = held[d])
    BY <1>0, <1>3, <1>6 DEF Leave, Publishing, Holding
  <2> QED
    BY <1>0, <1>6, <2>1, NothingDelivered
<1> QED
  BY <1>4, <1>5, <1>6 DEF DoPublish

\* handle_pub_rel: the message it takes out is delivered.
LEMMA HandlePubRelOnce ==
  ASSUME IInv, OnceInv, NEW c \in Clients, HandlePubRel(c)
  PROVE  OnceInv'
<1> DEFINE m == held[c]
<1>0. TypeOK /\ held \in [Clients -> Maybe(Message)] /\ published' = published /\ Holding(c)
      /\ task' = task /\ held' = [held EXCEPT ![c] = None] /\ Deliver(m)
  BY DEF IInv, TypeOK, HandlePubRel, Holding
<1>1. m \in Message /\ Undelivered(m.n) /\ m.n <= published
  BY <1>0 DEF OnceInv, StillToDeliver, Holding, Maybe
<1>2. \A d \in Clients : Publishing(d)' => Publishing(d) /\ task'[d] = task[d] /\ task[d].msg.n # m.n
  BY <1>0 DEF OnceInv, InOnePlace, Publishing
<1>3. \A d \in Clients : Holding(d)' => Holding(d) /\ held'[d] = held[d] /\ held[d].n # m.n
  BY <1>0 DEF OnceInv, InOnePlace, Holding
<1> HIDE DEF m
<1> QED
  BY <1>0, <1>1, <1>2, <1>3, DeliverOnce

\* The timer delivers a will as the message it makes of it.
LEMMA SendLastWillOnce ==
  ASSUME IInv, OnceInv, NEW c \in Clients, SendLastWill(c)
  PROVE  OnceInv'
<1> DEFINE w == lastWill[c]
           new == NewMessage(published + 1, c, w, w.topic)
           m == [new EXCEPT !.from = None]
<1>0. TypeOK /\ published \in Nat
  BY Counted
<1>1. published + 1 \in Messages /\ published' = published + 1 /\ Deliver(m)
      /\ task' = task /\ held' = held
  BY <1>0, Bounds DEF SendLastWill, Messages, connVars
<1>2. new \in Message
  <2>1. w \in Publish(Topics)
    BY <1>0, RouterAssumption DEF RouterAssumption, SendLastWill, TypeOK, Maybe
  <2>2. w.topic \in Topics /\ now \in 0..MaxTime
    BY <1>0, <2>1 DEF Publish, TypeOK
  <2> QED
    BY <1>1, <2>1, <2>2, NewMessageTyped
<1>3. new.n = published + 1
  BY DEF NewMessage
<1> HIDE DEF new
<1>4. m \in Message /\ m.n = published + 1
  BY <1>2, <1>3 DEF Message, Maybe
<1> HIDE DEF m
<1>5. Undelivered(m.n)
  BY <1>0, <1>1, <1>4 DEF OnceInv, StillToDeliver
<1>6. \A d \in Clients : /\ Publishing(d) => task[d].msg.n # m.n
                         /\ Holding(d) => held[d].n # m.n
  <2> TAKE d \in Clients
  <2>1. Publishing(d) => task[d].msg.n \in Messages /\ task[d].msg.n <= published
    BY <1>0, TaskCases DEF OnceInv, StillToDeliver, Publishing, Message
  <2>2. Holding(d) => held[d].n \in Messages /\ held[d].n <= published
    <3>1. Holding(d) => held[d] \in Message
      BY <1>0 DEF TypeOK, Maybe, Holding
    <3> QED
      BY <3>1 DEF OnceInv, StillToDeliver, Message
  <2> QED
    BY <1>0, <1>4, <2>1, <2>2, Bounds DEF Messages
<1>7. \A d \in Clients : Publishing(d)' => Publishing(d) /\ task'[d] = task[d] /\ task[d].msg.n # m.n
  BY <1>1, <1>6 DEF Publishing
<1>8. \A d \in Clients : Holding(d)' => Holding(d) /\ held'[d] = held[d] /\ held[d].n # m.n
  BY <1>1, <1>6 DEF Holding
<1>9. m.n <= published'
  BY <1>0, <1>1, <1>4, Bounds DEF Messages
<1> QED
  BY <1>1, <1>4, <1>5, <1>7, <1>8, <1>9, DeliverOnce

\* The other steps publish and deliver nothing; subscribe replays, which is
\* not counted here.
LEMMA OtherStepOnce ==
  ASSUME IInv, OnceInv, NEW c \in Clients,
         \/ \E clean \in BOOLEAN, w \in Maybe(Wills) : Connect(c, clean, w)
         \/ ProxySubscribe(c) \/ SubscribeFilter(c) \/ SendSubAck(c) \/ HandleNotified(c)
         \/ ConnectionLost(c) \/ (\E rs \in SubscribePackets : HandleSubscribe(c, rs))
         \/ \E f \in Filters : HandleUnsubscribe(c, f)
  PROVE  OnceInv'
<1>0. TypeOK /\ task \in [Clients -> Task] /\ held \in [Clients -> Maybe(Message)]
      /\ copies \in [Clients -> [Messages -> [Ways -> Nat]]]
  BY DEF IInv, TypeOK
<1> DEFINE left == task[c].left
           Same == \A d \in Clients, n \in Messages, w \in Walks :
                     copies'[d][n][w] \in {copies[d][n][w], 0}
           Tasks == \A d \in Clients : Publishing(d)' => task'[d] = task[d]
           Helds == \A d \in Clients : Holding(d)' => held'[d] = held[d]
<1>1. Idle.at # "publishing" /\ Gone.at # "publishing"
  BY DEF Idle, Gone
<1>2. ASSUME NEW new, new.at # "publishing", task' = [task EXCEPT ![c] = new]
      PROVE  Tasks
  BY <1>0, <1>2 DEF Publishing
<1>3. ASSUME held' = held PROVE Helds
  BY <1>3
<1>4. ASSUME copies' = copies PROVE Same
  BY <1>4
<1>5. ASSUME Leave(c) PROVE Tasks /\ Helds
  BY <1>0, <1>1, <1>5 DEF Leave, Publishing, Holding
<1>6. ASSUME NEW r \in Requests, r.filter \in Filters, Store(c, r)
      PROVE  Same
  BY <1>0, <1>6, StoreCounts
<1>7. ASSUME task[c].at \in {"subscribing", "proxying"}
      PROVE  /\ task[c] \in [at : {"subscribing", "proxying"}, left : Seq(Requests),
                            codes : [Filters -> Maybe(0..2)]]
             /\ left # <<>> => Head(left) \in Requests
  <2>1. /\ task[c] \in [at : {"subscribing", "proxying"}, left : Seq(Requests),
                       codes : [Filters -> Maybe(0..2)]]
        /\ left \in Seq(Requests)
    BY <1>0, <1>7, TaskCases
  <2> HIDE DEF left
  <2> QED
    BY <2>1
<1>8. ASSUME NEW clean \in BOOLEAN, NEW w \in Maybe(Wills), Connect(c, clean, w)
      PROVE  Same /\ Tasks /\ Helds
  <2>1. /\ copies' = copies \/ copies' = [copies EXCEPT ![c] = NoCopies]
        /\ held' = held
        /\ \/ task' = [task EXCEPT ![c] = Idle]
           \/ task' = [task EXCEPT ![c] = [at |-> "proxying", left |-> Proxies, codes |-> NoItems]]
    BY <1>8 DEF Connect
  <2>2. Same
    BY <1>0, <2>1 DEF NoCopies, Walks, Ways
  <2>3. Tasks
    BY <1>0, <1>1, <2>1 DEF Publishing
  <2> QED
    BY <1>3, <2>1, <2>2, <2>3
<1>9. ASSUME ProxySubscribe(c)
      PROVE  Same /\ Tasks /\ Helds
  <2>1. /\ held' = held /\ task[c].at = "proxying"
        /\ \/ copies' = copies
           \/ left # <<>> /\ Head(left).filter \notin InvalidFilters /\ Store(c, Head(left))
        /\ \/ task' = [task EXCEPT ![c] = Idle]
           \/ task' = [task EXCEPT ![c].left = Tail(@)]
    BY <1>9 DEF ProxySubscribe
  <2>2. Same
    <3>1. CASE copies' = copies
      BY <1>4, <3>1
    <3>2. CASE left # <<>> /\ Head(left).filter \notin InvalidFilters /\ Store(c, Head(left))
      <4>1. Head(left) \in Requests /\ Head(left).filter \in Filters
        BY <1>7, <2>1, <3>2 DEF Requests
      <4> QED
        BY <1>6, <3>2, <4>1
    <3> QED
      BY <2>1, <3>1, <3>2
  <2>3. Tasks
    <3>1. ASSUME task' = [task EXCEPT ![c].left = Tail(@)]
          PROVE  task'[c].at # "publishing" /\ \A d \in Clients : d # c => task'[d] = task[d]
      BY <1>0, <1>7, <2>1, <3>1
    <3> QED
      BY <1>1, <1>2, <2>1, <3>1 DEF Publishing
  <2> QED
    BY <1>3, <2>1, <2>2, <2>3
<1>10. ASSUME SubscribeFilter(c)
       PROVE  Same /\ Tasks /\ Helds
  <2> DEFINE r == Head(left)
             rest == [task[c] EXCEPT !.left = Tail(@)]
             more == [rest EXCEPT !.codes[r.filter] = Lower(r.qos, MaximumQos)]
  <2>1. left # <<>> /\ task[c].at = "subscribing"
    BY <1>10 DEF SubscribeFilter
  <2>2. rest.at # "publishing" /\ more.at # "publishing"
    BY <1>7, <2>1
  <2>3. \/ Leave(c) /\ copies' = copies
        \/ Accepted(r) /\ Store(c, r) /\ task' = [task EXCEPT ![c] = more] /\ held' = held
        \/ task' = [task EXCEPT ![c] = rest] /\ copies' = copies /\ held' = held
    BY <1>10 DEF SubscribeFilter
  <2> HIDE DEF rest, more
  <2>4. CASE Accepted(r) /\ Store(c, r) /\ task' = [task EXCEPT ![c] = more] /\ held' = held
    <3>1. r \in Requests /\ r.filter \in Filters
      BY <1>7, <2>1, <2>4 DEF Accepted, Requests
    <3> HIDE DEF r
    <3> QED
      BY <1>2, <1>3, <1>6, <2>2, <2>4, <3>1
  <2> QED
    BY <1>2, <1>3, <1>4, <1>5, <2>2, <2>3, <2>4
<1>11. ASSUME SendSubAck(c) \/ (\E rs \in SubscribePackets : HandleSubscribe(c, rs))
       PROVE  Same /\ Tasks /\ Helds
  <2>1. /\ copies' = copies /\ held' = held
        /\ \/ task' = [task EXCEPT ![c] = Idle]
           \/ \E rs \in SubscribePackets :
                task' = [task EXCEPT ![c] = [at |-> "subscribing", left |-> rs, codes |-> NoItems]]
    BY <1>11 DEF SendSubAck, HandleSubscribe
  <2>2. Tasks
    BY <1>0, <1>1, <2>1 DEF Publishing
  <2> QED
    BY <1>3, <1>4, <2>1, <2>2
<1>12. ASSUME HandleNotified(c) \/ ConnectionLost(c) \/ (\E f \in Filters : HandleUnsubscribe(c, f))
       PROVE  Same /\ Tasks /\ Helds
  <2>1. copies' = copies /\ (Leave(c) \/ (task' = task /\ held' = held))
    BY <1>12 DEF HandleNotified, ConnectionLost, HandleUnsubscribe, modelVars, connVars
  <2> QED
    BY <1>4, <1>5, <2>1
<1>13. Same /\ Tasks /\ Helds
  BY <1>8, <1>9, <1>10, <1>11, <1>12
<1>14. published' = published
  BY DEF Connect, ProxySubscribe, SubscribeFilter, SendSubAck, HandleNotified, ConnectionLost,
         HandleSubscribe, HandleUnsubscribe, modelVars
<1> QED
  BY <1>13, <1>14, NothingDelivered

\* Every step keeps it.
LEMMA NextKeepsOnce ==
  ASSUME IInv, OnceInv, [Next]_vars
  PROVE  OnceInv'
<1>1. CASE UNCHANGED vars \/ Tick
  <2>1. UNCHANGED <<published, task, held, copies>>
    BY <1>1 DEF vars, Tick, connVars, modelVars
  <2> QED
    BY <2>1, NothingDelivered
<1>2. CASE \E c \in Clients : DoPublish(c) \/ HandlePubRel(c) \/ SendLastWill(c)
  BY <1>2, DoPublishOnce, HandlePubRelOnce, SendLastWillOnce
<1>3. CASE \E c \in Clients, p \in PublishPackets : HandlePublish(c, p)
  BY <1>3, HandlePublishOnce
<1>4. CASE \E c \in Clients :
             \/ \E clean \in BOOLEAN, w \in Maybe(Wills) : Connect(c, clean, w)
             \/ ProxySubscribe(c) \/ SubscribeFilter(c) \/ SendSubAck(c) \/ HandleNotified(c)
             \/ ConnectionLost(c) \/ (\E rs \in SubscribePackets : HandleSubscribe(c, rs))
             \/ \E f \in Filters : HandleUnsubscribe(c, f)
  BY <1>4, OtherStepOnce
<1> QED
  BY <1>1, <1>2, <1>3, <1>4 DEF Next

-----------------------------------------------------------------------------
(* The theorem.                                                            *)

\* What is new in a queue is what add_message put there.
LEMMA OnlyNew ==
  ASSUME TypeOK, NEW new, Enqueue(new), NEW c \in Clients, NEW S, new[c] \in Seq(S)
  PROVE  NewCopies(c) \subseteq S
<1> DEFINE old == queue[c]
           more == new[c]
<1>1. old \in Seq(Message) /\ more \in Seq(S) /\ queue'[c] = old \o more
  BY DEF TypeOK, Enqueue
<1>2. NewCopies(c) = {queue'[c][i] : i \in (Len(old) + 1)..Len(queue'[c])}
  BY DEF NewCopies
<1> HIDE DEF old, more
<1>3. /\ Len(queue'[c]) = Len(old) + Len(more) /\ Len(old) \in Nat /\ Len(more) \in Nat
      /\ \A i \in 1..(Len(old) + Len(more)) : i > Len(old) => queue'[c][i] = more[i - Len(old)]
  BY <1>1
<1>4. ASSUME NEW i \in (Len(old) + 1)..(Len(old) + Len(more))
      PROVE  queue'[c][i] \in S
  <2>1. i - Len(old) \in 1..Len(more) /\ queue'[c][i] = more[i - Len(old)]
    BY <1>3
  <2> QED
    BY <1>1, <2>1
<1> QED
  BY <1>2, <1>3, <1>4

\* deliver: the copy of the second walk is for share names that drew the client,
\* each of which drew one.
LEMMA DrawnForNames ==
  ASSUME TypeOK, NEW m \in Message, Deliver(m)
  PROVE  \E pick \in [Groups(m) -> Clients] :
           \A c \in Clients : \A x \in NewCopies(c) : x.way = "shared" =>
             x.n = m.n /\ \A f \in x.ids : pick[Share[f]] = c
<1>1. CASE UNCHANGED <<queue, copies>>
  <2>1. \A c \in Clients : NewCopies(c) = {}
    BY <1>1, NothingNew
  <2>2. PICK pick : pick \in [Groups(m) -> Clients]
    <3>1. \A s \in Groups(m) : \E c \in Clients : TRUE
      BY DEF Groups, Group
    <3>2. [s \in Groups(m) |-> CHOOSE c \in Clients : TRUE] \in [Groups(m) -> Clients]
      BY <3>1
    <3> QED
      BY <3>2
  <2> QED
    BY <2>1, <2>2
<1>2. CASE ~UNCHANGED <<queue, copies>>
  <2>1. PICK pick \in [Groups(m) -> Clients] :
          Enqueue([c \in Clients |->
            CopyFor(m, c, Direct(m, c), "direct") \o CopyFor(m, c, Shared(m, c, pick), "shared")])
    BY <1>2 DEF Deliver
  <2> DEFINE new == [c \in Clients |->
               CopyFor(m, c, Direct(m, c), "direct") \o CopyFor(m, c, Shared(m, c, pick), "shared")]
  <2>2. ASSUME NEW c \in Clients, NEW x \in NewCopies(c), x.way = "shared"
        PROVE  x.n = m.n /\ \A f \in x.ids : pick[Share[f]] = c
    <3> DEFINE D == CopyFor(m, c, Direct(m, c), "direct")
               E == CopyFor(m, c, Shared(m, c, pick), "shared")
               y == CopyOf(m, c, Direct(m, c), "direct")
               z == CopyOf(m, c, Shared(m, c, pick), "shared")
    <3>1. D \in Seq({y}) /\ E \in Seq({z})
      BY CopyForOne
    <3>2. y.way = "direct" /\ z.n = m.n /\ z.ids = Shared(m, c, pick)
      BY CopyFields DEF CopyOf
    <3>3. new[c] = D \o E /\ Enqueue(new)
      BY <2>1
    <3> HIDE DEF D, E, y, z, new
    <3>4. D \o E \in Seq({y, z})
      BY <3>1
    <3>5. NewCopies(c) \subseteq {y, z}
      BY <3>3, <3>4, OnlyNew
    <3>6. x = z
      BY <2>2, <3>2, <3>5
    <3> QED
      BY <3>2, <3>6 DEF Shared
  <2> QED
    BY <2>2
<1> QED
  BY <1>1, <1>2

\* A copy for share names comes from the delivery of a message that had not
\* been delivered.
LEMMA SharedAtOnce ==
  ASSUME IInv, OnceInv, [Next]_vars, NEW c \in Clients, NEW x \in NewCopies(c), x.way = "shared"
  PROVE  \E m \in Message : Deliver(m) /\ Undelivered(m.n)
<1>0. queue'[c] # queue[c] /\ TypeOK
  BY NothingNew DEF IInv
<1>1. DeliverStep
  <2>1. ASSUME ReplayedNow(c, x) PROVE FALSE
    <3>1. PICK r \in Requests, m \in Message : x = Copy(m, {r.filter}, {ItemOf(r)}, "replay")
      BY <2>1 DEF ReplayedNow
    <3> QED
      BY <1>0, <3>1, CopyFields
  <2> QED
    BY <2>1, TwoSources
<1>2. ASSUME NEW d \in Clients, DoPublish(d)
      PROVE  \E m \in Message : Deliver(m) /\ Undelivered(m.n)
  <2>1. Deliver(task[d].msg) /\ Publishing(d)
    BY <1>0, <1>2 DEF DoPublish, Publishing
  <2>2. task[d].msg \in Message /\ Undelivered(task[d].msg.n)
    BY <1>0, <2>1, TaskCases DEF OnceInv, StillToDeliver, Publishing
  <2> QED
    BY <2>1, <2>2
<1>3. ASSUME NEW d \in Clients, HandlePubRel(d)
      PROVE  \E m \in Message : Deliver(m) /\ Undelivered(m.n)
  <2>1. Deliver(held[d]) /\ Holding(d)
    BY <1>3 DEF HandlePubRel, Holding
  <2>2. held[d] \in Message /\ Undelivered(held[d].n)
    BY <1>0, <2>1 DEF OnceInv, StillToDeliver, Holding, TypeOK, Maybe
  <2> QED
    BY <2>1, <2>2
<1>4. ASSUME NEW d \in Clients, SendLastWill(d)
      PROVE  \E m \in Message : Deliver(m) /\ Undelivered(m.n)
  <2> DEFINE w == lastWill[d]
             new == NewMessage(published + 1, d, w, w.topic)
             m == [new EXCEPT !.from = None]
  <2>1. published \in Nat /\ published + 1 \in Messages /\ Deliver(m)
    BY <1>4, Counted, Bounds DEF SendLastWill, Messages
  <2>2. new \in Message /\ new.n = published + 1
    <3>1. w \in Publish(Topics)
      BY <1>0, <1>4, RouterAssumption DEF RouterAssumption, SendLastWill, TypeOK, Maybe
    <3>2. w.topic \in Topics /\ now \in 0..MaxTime
      BY <1>0, <3>1 DEF Publish, TypeOK
    <3> QED
      BY <2>1, <3>1, <3>2, NewMessageTyped DEF NewMessage
  <2> HIDE DEF new
  <2>3. m \in Message /\ m.n = published + 1
    BY <2>2 DEF Message, Maybe
  <2>4. Undelivered(published + 1)
    BY <2>1 DEF OnceInv, StillToDeliver
  <2> HIDE DEF m
  <2> QED
    BY <2>1, <2>3, <2>4
<1> QED
  BY <1>1, <1>2, <1>3, <1>4 DEF DeliverStep

\* At first nothing is published.
LEMMA OnceAtFirst == Init => OnceInv
<1> SUFFICES ASSUME Init PROVE OnceInv
  OBVIOUS
<1>1. \A c \in Clients : ~Publishing(c) /\ ~Holding(c)
  BY DEF Init, Publishing, Holding, Gone
<1>2. \A n \in Messages, c \in Clients, w \in Walks : copies[c][n][w] = 0
  BY DEF Init, NoCopies, Walks, Ways
<1>3. StillToDeliver
  BY <1>1, <1>2 DEF StillToDeliver, Undelivered
<1>4. InOnePlace
  BY <1>1 DEF InOnePlace
<1>5. \A n \in Messages : Served(n)
  BY <1>2 DEF Served
<1> QED
  BY <1>3, <1>4, <1>5 DEF OnceInv

\* No client is sent a message twice for subscriptions that overlap, and none of
\* the share names sends it to two clients, however many names there are and
\* whatever clients have subscribed to several: for any clients and filters and
\* under every interleaving of their tasks (deliver, handle_publish,
\* handle_pub_rel, send_last_will).
THEOREM DeliveredOncePerWalk == Spec => ServedOnce
<1>1. Init => OnceInv
  BY OnceAtFirst
<1>2. IInv /\ OnceInv /\ [Next]_vars => OnceInv'
  BY NextKeepsOnce
<1>3. ASSUME IInv, OnceInv, [Next]_vars, NEW n \in Messages
      PROVE  /\ \A c \in Clients, w \in {"direct", "shared"} : copies'[c][n][w] <= 1
             /\ (\E s \in ShareNames, c \in Clients : SentFor(s, n, c)) =>
                  \A c \in Clients : copies[c][n]["shared"] = 0
             /\ \A s \in ShareNames, c, d \in Clients :
                  SentFor(s, n, c) /\ SentFor(s, n, d) => c = d
  <2>1. \A c \in Clients, w \in {"direct", "shared"} : copies'[c][n][w] <= 1
    BY <1>2, <1>3 DEF OnceInv, Served, Walks
  <2>2. ASSUME NEW s \in ShareNames, NEW c \in Clients, SentFor(s, n, c)
        PROVE  /\ \A d \in Clients : copies[d][n]["shared"] = 0
               /\ \A d \in Clients : SentFor(s, n, d) => c = d
    <3>1. PICK x \in NewCopies(c) : x.n = n /\ x.way = "shared" /\ \E f \in x.ids : Share[f] = s
      BY <2>2 DEF SentFor
    <3>2. PICK m \in Message : Deliver(m) /\ Undelivered(m.n)
      BY <1>3, <3>1, SharedAtOnce
    <3>3. PICK pick \in [Groups(m) -> Clients] :
            \A d \in Clients : \A y \in NewCopies(d) : y.way = "shared" =>
              y.n = m.n /\ \A f \in y.ids : pick[Share[f]] = d
      BY <1>3, <3>2, DrawnForNames DEF IInv
    <3>4. n = m.n /\ pick[s] = c
      BY <3>1, <3>3
    <3>5. \A d \in Clients : SentFor(s, n, d) => pick[s] = d
      BY <3>3 DEF SentFor
    <3> QED
      BY <3>2, <3>4, <3>5 DEF Undelivered, Walks
  <2> QED
    BY <2>1, <2>2
<1>4. IInv /\ OnceInv /\ [Next]_vars =>
        [\A n \in Messages :
           /\ \A c \in Clients, w \in {"direct", "shared"} : copies'[c][n][w] <= 1
           /\ (\E s \in ShareNames, c \in Clients : SentFor(s, n, c)) =>
                \A c \in Clients : copies[c][n]["shared"] = 0
           /\ \A s \in ShareNames, c, d \in Clients :
                SentFor(s, n, c) /\ SentFor(s, n, d) => c = d]_vars
  BY <1>3
<1> QED
  BY <1>1, <1>2, <1>4, Inductive, PTL DEF Spec, ServedOnce

-----------------------------------------------------------------------------
(* No subscriber is behind the retained message.                           *)

\* The requests clients send and the ones that are configured.
Sent == UNION {{rs[i] : i \in DOMAIN rs} : rs \in SubscribePackets \union {Proxies}}

\* Who asks for the retained messages of new subscriptions only has not asked
\* for none before with the same filter, nor for none of its own: what it then
\* missed is not sent later.
RequestsAgree ==
  \A r, s \in Sent :
    /\ r.filter = s.filter /\ r.filter \in Filters /\ Share[r.filter] = None
    /\ r.retainHandling = "new"
    => s.retainHandling # "never" /\ (s.noLocal => r.noLocal)

\* Subscriptions are what was asked for, and so is what is left to subscribe.
LeftSent ==
  \A c \in Clients : task[c].at \in {"subscribing", "proxying"} =>
    \A i \in DOMAIN task[c].left : task[c].left[i] \in Sent
AsSent ==
  /\ \A c \in Clients, f \in Filters : subscriptions[c][f] # None =>
       \E r \in Sent : r.filter = f /\ subscriptions[c][f] = ItemOf(r)
  /\ LeftSent

\* A retained message has been published, and is the one with its number.
OneRetained ==
  \A t \in Topics : retained[t] # None =>
    /\ retained[t].topic = t /\ retained[t].n <= published
    /\ \A c \in Clients : Publishing(c) /\ task[c].msg.n = retained[t].n => task[c].msg = retained[t]

\* The subscriptions that must have the retained message: those that always
\* ask for it and, if requests agree, those that ask for it when they are new.
Entitles(item) ==
  \/ item.retainHandling = "every"
  \/ RequestsAgree /\ item.retainHandling # "never"
Entitled(c, t) ==
  \E f \in Covering[t] :
    /\ Share[f] = None /\ subscriptions[c][f] # None
    /\ Entitles(subscriptions[c][f])
    /\ ~(subscriptions[c][f].noLocal /\ retained[t].by = c)

\* What is due has been queued.
Due(c, t) ==
  /\ retained[t] # None /\ retained[t].as < 2
  /\ ~IsExpired(retained[t]) /\ ~Pending(retained[t])
  /\ Entitled(c, t)
Has(c, n) == \E w \in {"direct", "replay"} : copies[c][n][w] > 0

UpToDate == \A c \in Clients, t \in Topics : Due(c, t) => Has(c, retained[t].n)

UpInv == AsSent /\ OneRetained /\ UpToDate

\* The same in the next state, after a step that retains nothing.
LEMMA UpToDateNext ==
  ASSUME retained' = retained,
         \A c \in Clients, t \in Topics :
           Due(c, t)' => \E w \in {"direct", "replay"} : copies'[c][retained[t].n][w] > 0
  PROVE  UpToDate'
<1> SUFFICES ASSUME NEW c \in Clients, NEW t \in Topics, Due(c, t)'
             PROVE  \E w \in {"direct", "replay"} : copies'[c][retained'[t].n][w] > 0
  BY DEF UpToDate, Has
<1> QED
  OBVIOUS

-----------------------------------------------------------------------------
(* Copies only become more, and those that are queued are counted.         *)

\* add_message, for one client.
LEMMA MoreCopies ==
  ASSUME TypeOK, NEW new, Enqueue(new), NEW c \in Clients, NEW S, new[c] \in Seq(S),
         NEW n \in Messages, NEW w \in Ways
  PROVE  /\ copies'[c][n][w] >= copies[c][n][w]
         /\ (\E i \in DOMAIN new[c] : new[c][i].n = n /\ new[c][i].way = w) => copies'[c][n][w] > 0
<1> DEFINE q == new[c]
           at == CopiesIn(q, n, w)
<1>1. copies[c][n][w] \in Nat
  BY DEF TypeOK
<1>2. copies'[c][n][w] = copies[c][n][w] + Cardinality(at)
  BY DEF Enqueue, CopiesIn
<1>3. DOMAIN q = 1..Len(q) /\ Len(q) \in Nat
  OBVIOUS
<1>4. (\E i \in DOMAIN q : q[i].n = n /\ q[i].way = w) => at # {}
  BY DEF CopiesIn
<1> HIDE DEF q
<1>5. IsFiniteSet(at)
  <2>1. IsFiniteSet(DOMAIN q)
    BY <1>3, FS_Interval
  <2>2. at \subseteq DOMAIN q
    BY DEF CopiesIn
  <2> QED
    BY <2>1, <2>2, FS_Subset
<1> HIDE DEF at
<1>6. Cardinality(at) \in Nat /\ (at # {} => Cardinality(at) # 0)
  BY <1>5, FS_CardinalityType, FS_EmptySet
<1>7. copies'[c][n][w] >= copies[c][n][w] /\ (at # {} => copies'[c][n][w] > 0)
  BY <1>1, <1>2, <1>6
<1> QED
  BY <1>4, <1>7 DEF q

\* deliver: what is in time reaches every client with a direct subscription.
LEMMA DeliverReaches ==
  ASSUME TypeOK, NEW m \in Message, Deliver(m), NEW c \in Clients, NEW n \in Messages
  PROVE  /\ \A w \in Ways : copies'[c][n][w] >= copies[c][n][w]
         /\ ~IsExpired(m) /\ Direct(m, c) # {} => copies'[c][m.n]["direct"] > 0
<1>1. CASE IsExpired(m) /\ UNCHANGED <<queue, copies>>
  <2>1. \A w \in Ways : copies[c][n][w] \in Nat
    BY DEF TypeOK
  <2> QED
    BY <1>1, <2>1
<1>2. CASE ~IsExpired(m) /\ ~(IsExpired(m) /\ UNCHANGED <<queue, copies>>)
  <2>1. PICK pick \in [Groups(m) -> Clients] :
          Enqueue([d \in Clients |->
            CopyFor(m, d, Direct(m, d), "direct") \o CopyFor(m, d, Shared(m, d, pick), "shared")])
    BY <1>2 DEF Deliver
  <2> DEFINE new == [d \in Clients |->
               CopyFor(m, d, Direct(m, d), "direct") \o CopyFor(m, d, Shared(m, d, pick), "shared")]
             D == CopyFor(m, c, Direct(m, c), "direct")
             E == CopyFor(m, c, Shared(m, c, pick), "shared")
             S == {CopyOf(m, c, Direct(m, c), "direct"), CopyOf(m, c, Shared(m, c, pick), "shared")}
  <2>2. /\ D \in Seq({CopyOf(m, c, Direct(m, c), "direct")}) /\ Len(D) \in {0, 1}
        /\ Len(D) = 1 => D[1].n = m.n /\ D[1].way = "direct"
    BY CopyForOne
  <2>3. E \in Seq({CopyOf(m, c, Shared(m, c, pick), "shared")})
    BY CopyForOne
  <2>4. new[c] = D \o E /\ Enqueue(new)
    BY <2>1
  <2>5. Direct(m, c) # {} => Len(D) = 1
    BY DEF CopyFor
  <2> HIDE DEF new, D, E
  <2>6. D \in Seq(S) /\ E \in Seq(S)
    BY <2>2, <2>3
  <2> HIDE DEF S
  <2>7. new[c] \in Seq(S)
    BY <2>4, <2>6
  <2>8. \A w \in Ways : copies'[c][n][w] >= copies[c][n][w]
    BY <2>4, <2>7, MoreCopies
  <2>9. ASSUME Direct(m, c) # {}
        PROVE  copies'[c][m.n]["direct"] > 0
    <3>1. Len(D) = 1 /\ D[1].n = m.n /\ D[1].way = "direct"
      BY <2>2, <2>5, <2>9
    <3>2. 1 \in DOMAIN (D \o E) /\ (D \o E)[1] = D[1]
      <4>1. Len(E) \in Nat /\ DOMAIN (D \o E) = 1..(Len(D) + Len(E))
        BY <2>6
      <4>2. \A i \in 1..(Len(D) + Len(E)) : i <= Len(D) => (D \o E)[i] = D[i]
        BY <2>6
      <4>3. 1 \in 1..(Len(D) + Len(E)) /\ 1 <= Len(D)
        BY <3>1, <4>1
      <4> QED
        BY <4>1, <4>2, <4>3
    <3>3. \E i \in DOMAIN new[c] : new[c][i].n = m.n /\ new[c][i].way = "direct"
      BY <2>4, <3>1, <3>2
    <3>4. m.n \in Messages /\ "direct" \in Ways
      BY DEF Message, Ways
    <3> QED
      BY <2>4, <2>7, <3>3, <3>4, MoreCopies
  <2> QED
    BY <2>8, <2>9
<1> QED
  BY <1>1, <1>2 DEF Deliver

\* subscribe: what it replays reaches the client that subscribes.
LEMMA StoreReaches ==
  ASSUME TypeOK, NEW c \in Clients, NEW r \in Requests, r.filter \in Filters, Store(c, r)
  PROVE  /\ \A d \in Clients, n \in Messages, w \in Ways : copies'[d][n][w] >= copies[d][n][w]
         /\ \A t \in Replayed(c, r) : copies'[c][retained[t].n]["replay"] > 0
<1> DEFINE copy(t) == Copy(retained[t], {r.filter}, {ItemOf(r)}, "replay")
           K == Cardinality(Replayed(c, r))
<1>1. \A t \in Replayed(c, r) : copy(t).way = "replay" /\ copy(t).n = retained[t].n
                                /\ retained[t].n \in Messages
  <2> TAKE t \in Replayed(c, r)
  <2>1. retained[t] \in Message
    BY DEF Replayed, TypeOK, Maybe
  <2> QED
    BY <2>1, CopyFields DEF Message
<1>2. K \in Nat
  <2>1. Replayed(c, r) \subseteq Topics
    BY DEF Replayed
  <2> QED
    BY <2>1, RouterAssumption, FS_Subset, FS_CardinalityType DEF RouterAssumption
<1> HIDE DEF copy, K
<1>3. PICK order \in [1..K -> Replayed(c, r)] :
        /\ \A t \in Replayed(c, r) : \E i \in DOMAIN order : order[i] = t
        /\ Enqueue([d \in Clients |-> IF d # c THEN <<>> ELSE [i \in DOMAIN order |-> copy(order[i])]])
  BY DEF Store, K, copy
<1> DEFINE all == [i \in DOMAIN order |-> copy(order[i])]
           new == [d \in Clients |-> IF d # c THEN <<>> ELSE all]
           S == {copy(t) : t \in Replayed(c, r)}
<1>4. all \in Seq(S)
  <2>1. all \in [1..K -> S]
    OBVIOUS
  <2> HIDE DEF all, S
  <2> QED
    BY <1>2, <2>1
<1>5. DOMAIN all = DOMAIN order /\ \A i \in DOMAIN order : all[i] = copy(order[i])
  OBVIOUS
<1>6. Enqueue(new)
  BY <1>3
<1> HIDE DEF all, S
<1>7. \A d \in Clients : new[d] \in Seq(S)
  <2>1. <<>> \in Seq(S)
    OBVIOUS
  <2> QED
    BY <1>4, <2>1
<1>8. new[c] = all
  OBVIOUS
<1> HIDE DEF new
<1>9. \A d \in Clients, n \in Messages, w \in Ways : copies'[d][n][w] >= copies[d][n][w]
  BY <1>6, <1>7, MoreCopies
<1>10. ASSUME NEW t \in Replayed(c, r)
       PROVE  copies'[c][retained[t].n]["replay"] > 0
  <2>1. PICK i \in DOMAIN order : order[i] = t
    BY <1>3
  <2>2. i \in DOMAIN new[c] /\ new[c][i].n = retained[t].n /\ new[c][i].way = "replay"
    BY <1>1, <1>5, <1>8, <2>1
  <2>3. retained[t].n \in Messages /\ "replay" \in Ways
    BY <1>1 DEF Ways
  <2> QED
    BY <1>6, <1>7, <2>2, <2>3, MoreCopies
<1> QED
  BY <1>9, <1>10

-----------------------------------------------------------------------------
(* Every step keeps it.                                                    *)

\* No publication begins or ends.
PublishingKept ==
  \A d \in Clients : /\ Publishing(d) => task'[d] = task[d]
                     /\ Publishing(d)' => task'[d] = task[d]

\* A task of another kind takes the place of one.
LEMMA NewTask ==
  ASSUME TypeOK, LeftSent, NEW c \in Clients, ~Publishing(c), NEW new, new.at # "publishing",
         new.at \in {"subscribing", "proxying"} => \A i \in DOMAIN new.left : new.left[i] \in Sent,
         task' = [task EXCEPT ![c] = new]
  PROVE  PublishingKept /\ LeftSent'
<1>1. task'[c] = new /\ \A d \in Clients : d # c => task'[d] = task[d]
  BY DEF TypeOK
<1>2. PublishingKept
  BY <1>1 DEF PublishingKept, Publishing
<1>3. LeftSent'
  BY <1>1 DEF LeftSent
<1> QED
  BY <1>2, <1>3

\* The connection ends, between two handlers or in a SUBSCRIBE.
LEMMA LeaveTask ==
  ASSUME TypeOK, LeftSent, NEW c \in Clients, ~Publishing(c), Leave(c)
  PROVE  PublishingKept /\ LeftSent'
BY NewTask DEF Leave, Gone

\* As long as no message is retained and no publication ends, who is owed a
\* retained message was owed it before, if it had the subscription.
LEMMA DueBefore ==
  ASSUME TypeOK, retained' = retained, now' \in {now, now + 1}, PublishingKept,
         NEW c \in Clients, NEW t \in Topics, Due(c, t)'
  PROVE  /\ retained[t] # None /\ retained[t].as < 2
         /\ ~IsExpired(retained[t]) /\ ~Pending(retained[t])
         /\ Entitled(c, t)'
<1>1. retained[t] # None /\ retained[t].as < 2 /\ Entitled(c, t)'
  BY DEF Due
<1>2. ~IsExpired(retained[t])'
  BY DEF Due
<1>3. ~IsExpired(retained[t])
  <2>1. retained[t] \in Message /\ now \in Nat
    BY <1>1, Bounds DEF TypeOK, Maybe
  <2>2. retained[t].interval # None => retained[t].interval \in Nat
    BY <2>1 DEF Message, Maybe
  <2>3. retained[t].created \in Nat
    BY <2>1, Bounds DEF Message
  <2> DEFINE i == retained[t].interval
             k == retained[t].created
  <2>4. ~(i # None /\ k + i <= now')
    BY <1>2 DEF IsExpired
  <2> HIDE DEF i, k
  <2>5. ~(i # None /\ k + i <= now)
    BY <2>1, <2>2, <2>3, <2>4 DEF i, k
  <2> QED
    BY <2>5 DEF IsExpired, i, k
<1>4. ~Pending(retained[t])
  <2>1. ~\E d \in Clients : task'[d].at = "publishing" /\ task'[d].msg.n = retained[t].n
    BY DEF Due, Pending
  <2> QED
    BY <2>1 DEF Pending, PublishingKept, Publishing
<1> QED
  BY <1>1, <1>3, <1>4

\* The retained messages stay what they are, and those that publish too.
LEMMA OneRetainedKept ==
  ASSUME TypeOK, OneRetained, retained' = retained, published' \in {published, published + 1},
         \A d \in Clients : Publishing(d)' => task'[d] = task[d]
  PROVE  OneRetained'
<1> SUFFICES ASSUME NEW t \in Topics, retained[t] # None
             PROVE  /\ retained[t].topic = t /\ retained[t].n <= published'
                    /\ \A d \in Clients : Publishing(d)' /\ task'[d].msg.n = retained[t].n =>
                         task'[d].msg = retained[t]
  BY DEF OneRetained
<1>1. retained[t] \in Message /\ published \in Nat
  BY Bounds DEF TypeOK, Maybe
<1>2. retained[t].n \in Nat
  BY <1>1, Bounds DEF Message, Messages
<1>3. retained[t].topic = t /\ retained[t].n <= published
  BY DEF OneRetained
<1>4. retained[t].n <= published'
  BY <1>1, <1>2, <1>3
<1>5. \A d \in Clients : Publishing(d)' => Publishing(d)
  BY DEF Publishing
<1> QED
  BY <1>3, <1>4, <1>5 DEF OneRetained

\* Steps that retain nothing, subscribe nobody and end no publication.
LEMMA QuietUp ==
  ASSUME IInv, UpInv, TypeOK', retained' = retained, now' \in {now, now + 1}, PublishingKept, LeftSent',
         published' \in {published, published + 1},
         \A c \in Clients :
           /\ \A f \in Filters : subscriptions'[c][f] \in {None, subscriptions[c][f]}
           /\ \/ \A f \in Filters : subscriptions'[c][f] = None
              \/ \A n \in Messages, w \in Ways : copies'[c][n][w] >= copies[c][n][w]
  PROVE  UpInv'
<1>0. TypeOK /\ TypeOK'
  BY DEF IInv
<1>1. AsSent'
  BY DEF UpInv, AsSent
<1>2. OneRetained'
  BY <1>0, OneRetainedKept DEF UpInv, PublishingKept
<1>3. ASSUME NEW c \in Clients, NEW t \in Topics, Due(c, t)'
      PROVE  \E w \in {"direct", "replay"} : copies'[c][retained[t].n][w] > 0
  <2>1. /\ retained[t] # None /\ retained[t].as < 2
        /\ ~IsExpired(retained[t]) /\ ~Pending(retained[t])
        /\ Entitled(c, t)'
    BY <1>0, <1>3, DueBefore
  <2>2. PICK f \in Covering[t] :
          /\ Share[f] = None /\ subscriptions'[c][f] # None
          /\ Entitles(subscriptions'[c][f])
          /\ ~(subscriptions'[c][f].noLocal /\ retained[t].by = c)
    BY <2>1 DEF Entitled
  <2>3. f \in Filters
    BY RouterAssumption DEF RouterAssumption
  <2>4. Due(c, t)
    BY <2>1, <2>2, <2>3 DEF Due, Entitled
  <2>5. PICK w \in {"direct", "replay"} : copies[c][retained[t].n][w] > 0
    BY <2>4 DEF UpInv, UpToDate, Has
  <2>6. retained[t].n \in Messages /\ w \in Ways
    BY <1>0, <2>1 DEF TypeOK, Maybe, Message, Ways
  <2>7. copies'[c][retained[t].n][w] >= copies[c][retained[t].n][w]
    BY <2>2, <2>3, <2>6
  <2>8. copies[c][retained[t].n][w] \in Nat
    BY <1>0, <2>6 DEF TypeOK
  <2>9. copies'[c][retained[t].n][w] \in Nat
    BY <1>0, <2>6 DEF TypeOK
  <2> QED
    BY <2>5, <2>7, <2>8, <2>9
<1>4. UpToDate'
  BY <1>3, UpToDateNext
<1> QED
  BY <1>1, <1>2, <1>4 DEF UpInv
\* subscribe: what was retained before is replayed, or has been delivered.
LEMMA StoreUp ==
  ASSUME IInv, UpInv, TypeOK', UNCHANGED <<retained, now, published>>,
         PublishingKept, LeftSent',
         NEW c \in Clients, NEW r \in Requests, r \in Sent, r.filter \in Filters, Store(c, r)
  PROVE  UpInv'
<1>0. TypeOK /\ TypeOK'
  BY DEF IInv
<1>1. \A d \in Clients, f \in Filters :
        subscriptions'[d][f] = IF d = c /\ f = r.filter THEN ItemOf(r) ELSE subscriptions[d][f]
  BY <1>0 DEF Store, TypeOK
<1>2. AsSent'
  BY <1>1 DEF UpInv, AsSent
<1>3. OneRetained'
  BY <1>0, OneRetainedKept DEF UpInv, PublishingKept
<1>4. /\ \A d \in Clients, n \in Messages, w \in Ways : copies'[d][n][w] >= copies[d][n][w]
      /\ \A t \in Replayed(c, r) : copies'[c][retained[t].n]["replay"] > 0
  BY <1>0, StoreReaches
<1>5. ASSUME NEW d \in Clients, NEW t \in Topics, Due(d, t)'
      PROVE  \E w \in {"direct", "replay"} : copies'[d][retained[t].n][w] > 0
  <2>1. /\ retained[t] # None /\ retained[t].as < 2
        /\ ~IsExpired(retained[t]) /\ ~Pending(retained[t])
        /\ Entitled(d, t)'
    BY <1>0, <1>5, DueBefore
  <2>2. PICK f \in Covering[t] :
          /\ Share[f] = None /\ subscriptions'[d][f] # None
          /\ Entitles(subscriptions'[d][f])
          /\ ~(subscriptions'[d][f].noLocal /\ retained[t].by = d)
    BY <2>1 DEF Entitled
  <2>3. f \in Filters
    BY RouterAssumption DEF RouterAssumption
  <2>4. ASSUME Entitled(d, t)
        PROVE  \E w \in {"direct", "replay"} : copies'[d][retained[t].n][w] > 0
    <3>1. Due(d, t)
      BY <2>1, <2>4 DEF Due
    <3>2. PICK w \in {"direct", "replay"} : copies[d][retained[t].n][w] > 0
      BY <3>1 DEF UpInv, UpToDate, Has
    <3>3. retained[t].n \in Messages /\ w \in Ways
      BY <1>0, <2>1 DEF TypeOK, Maybe, Message, Ways
    <3>4. copies'[d][retained[t].n][w] >= copies[d][retained[t].n][w]
      BY <1>4, <3>3
    <3>5. copies[d][retained[t].n][w] \in Nat /\ copies'[d][retained[t].n][w] \in Nat
      BY <1>0, <3>3 DEF TypeOK
    <3> QED
      BY <3>2, <3>4, <3>5
  <2>5. CASE ~(d = c /\ f = r.filter)
    <3>1. subscriptions'[d][f] = subscriptions[d][f]
      BY <1>1, <2>3, <2>5
    <3> QED
      BY <2>2, <2>4, <3>1 DEF Entitled
  <2>6. CASE d = c /\ f = r.filter
    <3>1. subscriptions'[d][f] = ItemOf(r)
      BY <1>1, <2>3, <2>6
    <3>2. /\ r.retainHandling = "every" \/ (RequestsAgree /\ r.retainHandling # "never")
          /\ ~(r.noLocal /\ retained[t].by = d)
      BY <2>2, <3>1 DEF ItemOf, Entitles
    <3>3. CASE PublishRetain(c, r)
      <4>1. retained[t].from = retained[t].by
        BY <2>1 DEF IInv, OriginalsKept, Original
      <4>2. t \in Replayed(c, r)
        BY <2>1, <2>2, <2>6, <3>2, <3>3, <4>1 DEF Replayed
      <4> QED
        BY <1>4, <2>6, <4>2
    <3>4. CASE ~PublishRetain(c, r)
      <4>1. RequestsAgree /\ r.retainHandling = "new" /\ subscriptions[c][f] # None
        BY <2>6, <3>2, <3>4 DEF PublishRetain, Requests
      <4>2. PICK s \in Sent : s.filter = f /\ subscriptions[c][f] = ItemOf(s)
        BY <2>3, <4>1 DEF UpInv, AsSent
      <4>3. s.retainHandling # "never" /\ (s.noLocal => r.noLocal)
        BY <2>2, <2>6, <4>1, <4>2 DEF RequestsAgree
      <4>4. Entitles(subscriptions[c][f]) /\ ~(subscriptions[c][f].noLocal /\ retained[t].by = c)
        BY <2>6, <3>2, <4>1, <4>2, <4>3 DEF ItemOf, Entitles
      <4>5. Entitled(d, t)
        BY <2>2, <2>6, <4>1, <4>4 DEF Entitled
      <4> QED
        BY <2>4, <4>5
    <3> QED
      BY <3>3, <3>4
  <2> QED
    BY <2>5, <2>6
<1>6. UpToDate'
  BY <1>5, UpToDateNext
<1> QED
  BY <1>2, <1>3, <1>6 DEF UpInv

\* A message that awaits plugins has a number that was given out.
LEMMA PublishedBefore ==
  ASSUME TypeOK, OnceInv, NEW d \in Clients, Publishing(d)
  PROVE  task[d].msg.n # published + 1
<1>1. task[d].msg.n \in Nat /\ published \in Nat
  <2>1. task[d].msg \in Message
    BY TaskCases DEF Publishing
  <2>2. task[d].msg.n \in Nat
    BY <2>1, Bounds DEF Message, Messages
  <2> QED
    BY <2>2, Bounds DEF TypeOK
<1>2. task[d].msg.n <= published
  BY DEF OnceInv, StillToDeliver
<1> QED
  BY <1>1, <1>2

\* handle_publish: the message is retained before it is delivered, and until
\* then it is pending.
LEMMA HandlePublishUp ==
  ASSUME IInv, OnceInv, UpInv, TypeOK', NEW c \in Clients, NEW p \in PublishPackets, HandlePublish(c, p)
  PROVE  UpInv'
<1>0. TypeOK /\ TypeOK' /\ published \in Nat /\ ~Publishing(c) /\ LeftSent
  BY Counted DEF HandlePublish, Publishing, Idle, UpInv, AsSent
<1>1. UNCHANGED <<subscriptions, copies, now>>
  BY DEF HandlePublish
<1>2. \A d \in Clients, n \in Messages, w \in Ways : copies'[d][n][w] >= copies[d][n][w]
  BY <1>0, <1>1 DEF TypeOK
<1>3. CASE Leave(c) /\ UNCHANGED <<retained, published>>
  <2>1. PublishingKept /\ LeftSent'
    BY <1>0, <1>3, LeaveTask
  <2> QED
    BY <1>0, <1>1, <1>2, <1>3, <2>1, QuietUp
<1>4. CASE ~Refused(c, p)
  <2> DEFINE m == NewMessage(published + 1, c, p, Rewrite[TopicOf(c, p)])
             new == [at |-> "publishing", msg |-> m]
  <2>1. /\ task' = [task EXCEPT ![c] = new] /\ published' = published + 1
        /\ retained' = IF m.retain THEN Retained(m) ELSE retained
    BY <1>4 DEF HandlePublish
  <2>2. new.at = "publishing" /\ new.msg = m /\ m.n = published + 1
    BY DEF NewMessage
  <2> HIDE DEF m
  <2>3. /\ task'[c] = new /\ Publishing(c)'
        /\ \A d \in Clients : d # c => task'[d] = task[d]
    BY <1>0, <2>1, <2>2 DEF TypeOK, Publishing
  <2> HIDE DEF new
  <2>4. \A t \in Topics : \/ retained'[t] = retained[t]
                          \/ retained'[t] = None
                          \/ retained'[t] = m /\ m.topic = t
    BY <1>0, <2>1 DEF Retained, TypeOK
  <2>5. \A t \in Topics : retained[t] # None => /\ retained[t].n \in Nat /\ retained[t].n <= published
                                                /\ retained[t].n # published + 1
    <3> TAKE t \in Topics
    <3> HAVE retained[t] # None
    <3>1. retained[t].n \in Nat
      BY <1>0, Bounds DEF TypeOK, Maybe, Message, Messages
    <3>2. retained[t].n <= published
      BY DEF UpInv, OneRetained
    <3> QED
      BY <1>0, <3>1, <3>2
  <2>6. AsSent'
    <3>1. LeftSent'
      BY <1>0, <2>2, <2>3 DEF LeftSent
    <3> QED
      BY <1>1, <3>1 DEF UpInv, AsSent
  <2>7. OneRetained'
    <3> SUFFICES ASSUME NEW t \in Topics, retained'[t] # None
                 PROVE  /\ retained'[t].topic = t /\ retained'[t].n <= published'
                        /\ \A d \in Clients : Publishing(d)' /\ task'[d].msg.n = retained'[t].n =>
                             task'[d].msg = retained'[t]
      BY DEF OneRetained
    <3>1. CASE retained'[t] = retained[t]
      <4>1. retained[t].topic = t /\ retained[t].n <= published + 1
        BY <1>0, <2>5, <3>1 DEF UpInv, OneRetained
      <4>2. ASSUME NEW d \in Clients, Publishing(d)', task'[d].msg.n = retained[t].n
            PROVE  task'[d].msg = retained[t]
        <5>1. d # c
          BY <2>2, <2>3, <2>5, <3>1, <4>2
        <5>2. task'[d] = task[d] /\ Publishing(d)
          BY <2>3, <4>2, <5>1 DEF Publishing
        <5> QED
          BY <3>1, <4>2, <5>2 DEF UpInv, OneRetained
      <4> QED
        BY <2>1, <3>1, <4>1, <4>2
    <3>2. CASE retained'[t] = m /\ m.topic = t
      <4>1. ASSUME NEW d \in Clients, Publishing(d)', task'[d].msg.n = published + 1
            PROVE  task'[d].msg = m
        <5>1. CASE d = c
          BY <2>2, <2>3, <5>1
        <5>2. CASE d # c
          <6>1. task'[d] = task[d] /\ Publishing(d)
            BY <2>3, <4>1, <5>2 DEF Publishing
          <6> QED
            BY <1>0, <4>1, <6>1, PublishedBefore
        <5> QED
          BY <5>1, <5>2
      <4> QED
        BY <1>0, <2>1, <2>2, <3>2, <4>1
    <3> QED
      BY <2>4, <3>1, <3>2
  <2>8. ASSUME NEW d \in Clients, NEW t \in Topics, Due(d, t)'
        PROVE  retained'[t] = retained[t] /\ Due(d, t)
    <3>1. /\ retained'[t] # None /\ retained'[t].as < 2
          /\ ~\E e \in Clients : task'[e].at = "publishing" /\ task'[e].msg.n = retained'[t].n
      BY <2>8 DEF Due, Pending
    <3>2. retained'[t] # m
      BY <2>2, <2>3, <3>1 DEF Publishing
    <3>3. retained'[t] = retained[t]
      BY <2>4, <3>1, <3>2
    <3>4. ~Pending(retained[t])
      <4> SUFFICES ASSUME NEW e \in Clients, task[e].at = "publishing", task[e].msg.n = retained[t].n
                   PROVE  FALSE
        BY DEF Pending
      <4>1. e # c
        BY <1>0 DEF Publishing
      <4> QED
        BY <2>3, <3>1, <3>3, <4>1
    <3>5. ~IsExpired(retained[t])
      BY <1>1, <2>8, <3>3 DEF Due, IsExpired
    <3>6. Entitled(d, t)
      BY <1>1, <2>8, <3>3 DEF Due, Entitled
    <3> QED
      BY <3>1, <3>3, <3>4, <3>5, <3>6 DEF Due
  <2>9. UpToDate'
    <3> SUFFICES ASSUME NEW d \in Clients, NEW t \in Topics, Due(d, t)'
                 PROVE  \E w \in {"direct", "replay"} : copies'[d][retained'[t].n][w] > 0
      BY DEF UpToDate, Has
    <3>1. retained'[t] = retained[t] /\ Due(d, t)
      BY <2>8
    <3>2. Has(d, retained[t].n)
      BY <3>1 DEF UpInv, UpToDate
    <3> QED
      BY <1>1, <3>1, <3>2 DEF Has
  <2> QED
    BY <2>6, <2>7, <2>9 DEF UpInv
<1> QED
  BY <1>3, <1>4 DEF HandlePublish
\* The rest of handle_publish: a retained message that is no longer pending
\* has been delivered to those that want it, unless it expired or was QoS 2.
LEMMA DoPublishUp ==
  ASSUME IInv, OnceInv, UpInv, TypeOK', NEW c \in Clients, DoPublish(c)
  PROVE  UpInv'
<1> DEFINE m == task[c].msg
<1>0. /\ TypeOK /\ TypeOK' /\ LeftSent /\ Publishing(c) /\ task \in [Clients -> Task]
      /\ UNCHANGED <<subscriptions, retained, now, published>>
  BY DEF IInv, UpInv, AsSent, DoPublish, Publishing, TypeOK
<1>1. m \in Message /\ Original(m)
  BY <1>0, TaskCases DEF Publishing, IInv, OriginalsKept
<1>2. /\ \/ m.qos < 2 /\ Deliver(m)
         \/ m.qos = 2 /\ UNCHANGED <<queue, copies>>
      /\ task' = [task EXCEPT ![c] = Idle] \/ task' = [task EXCEPT ![c] = Gone]
  BY DEF DoPublish, Leave
<1>3. /\ task'[c].at \in {"idle", "gone"}
      /\ \A d \in Clients : d # c => task'[d] = task[d]
  BY <1>0, <1>2 DEF Idle, Gone
<1> HIDE DEF m
<1>4. \A d \in Clients, n \in Messages, w \in Ways : copies'[d][n][w] >= copies[d][n][w]
  <2>1. CASE Deliver(m)
    BY <1>0, <1>1, <2>1, DeliverReaches
  <2>2. CASE UNCHANGED copies
    BY <1>0, <2>2 DEF TypeOK
  <2> QED
    BY <1>2, <2>1, <2>2
<1>5. AsSent'
  <2>1. LeftSent'
    BY <1>0, <1>3 DEF LeftSent
  <2> QED
    BY <1>0, <2>1 DEF UpInv, AsSent
<1>6. OneRetained'
  <2>1. \A d \in Clients : Publishing(d)' => task'[d] = task[d]
    BY <1>3 DEF Publishing
  <2> QED
    BY <1>0, <2>1, OneRetainedKept DEF UpInv
<1>7. ASSUME NEW d \in Clients, NEW t \in Topics, Due(d, t)'
      PROVE  \E w \in {"direct", "replay"} : copies'[d][retained[t].n][w] > 0
  <2>1. /\ retained[t] # None /\ retained[t].as < 2 /\ Entitled(d, t) /\ ~IsExpired(retained[t])
        /\ ~\E e \in Clients : task'[e].at = "publishing" /\ task'[e].msg.n = retained[t].n
    BY <1>0, <1>7 DEF Due, Pending, Entitled, IsExpired
  <2>2. retained[t] \in Message /\ retained[t].n \in Messages
    BY <1>0, <2>1 DEF TypeOK, Maybe, Message
  <2>3. \A w \in {"direct", "replay"} : /\ copies[d][retained[t].n][w] \in Nat
                                       /\ copies'[d][retained[t].n][w] \in Nat
                                       /\ copies'[d][retained[t].n][w] >= copies[d][retained[t].n][w]
    <3>1. /\ copies \in [Clients -> [Messages -> [Ways -> Nat]]]
          /\ copies' \in [Clients -> [Messages -> [Ways -> Nat]]]
          /\ {"direct", "replay"} \subseteq Ways
      BY <1>0 DEF TypeOK, Ways
    <3> QED
      BY <1>4, <2>2, <3>1
  <2>4. CASE Pending(retained[t])
    <3>1. PICK e \in Clients : task[e].at = "publishing" /\ task[e].msg.n = retained[t].n
      BY <2>4 DEF Pending
    <3>2. e = c
      BY <1>3, <2>1, <3>1
    <3>3. m = retained[t]
      BY <1>0, <2>1, <3>1, <3>2 DEF UpInv, OneRetained, m
    <3>4. m.topic = t
      BY <2>1, <3>3 DEF UpInv, OneRetained
    <3>5. Deliver(m) /\ ~IsExpired(m)
      BY <1>1, <1>2, <2>1, <3>3 DEF Original
    <3>6. Direct(m, d) # {}
      <4>1. PICK f \in Covering[t] :
              /\ Share[f] = None /\ subscriptions[d][f] # None
              /\ ~(subscriptions[d][f].noLocal /\ m.by = d)
        BY <2>1, <3>3 DEF Entitled
      <4>2. m.from = m.by
        BY <1>1 DEF Original
      <4>3. f \in Direct(m, d)
        BY <3>4, <4>1, <4>2 DEF Direct, Matching
      <4> QED
        BY <4>3
    <3>7. copies'[d][m.n]["direct"] > 0
      BY <1>0, <1>1, <2>2, <3>3, <3>5, <3>6, DeliverReaches
    <3> QED
      BY <3>3, <3>7
  <2>5. CASE ~Pending(retained[t])
    <3>1. Due(d, t)
      BY <2>1, <2>5 DEF Due
    <3>2. PICK w \in {"direct", "replay"} : copies[d][retained[t].n][w] > 0
      BY <3>1 DEF UpInv, UpToDate, Has
    <3> QED
      BY <2>3, <3>2
  <2> QED
    BY <2>4, <2>5
<1>8. UpToDate'
  BY <1>0, <1>7, UpToDateNext
<1> QED
  BY <1>5, <1>6, <1>8 DEF UpInv

\* The steps of a SUBSCRIBE and of the configured subscriptions.
LEMMA SubscribeUp ==
  ASSUME IInv, UpInv, TypeOK', NEW c \in Clients,
         SubscribeFilter(c) \/ ProxySubscribe(c)
  PROVE  UpInv'
<1> DEFINE left == task[c].left
           r == Head(left)
           rest == [task[c] EXCEPT !.left = Tail(@)]
           more == [rest EXCEPT !.codes[r.filter] = Lower(r.qos, MaximumQos)]
<1>0. /\ TypeOK /\ TypeOK' /\ LeftSent /\ UNCHANGED <<retained, now, published>>
      /\ task[c].at \in {"subscribing", "proxying"} /\ ~Publishing(c)
  BY DEF IInv, UpInv, AsSent, SubscribeFilter, ProxySubscribe, Publishing
<1>1. \/ Leave(c) /\ UNCHANGED <<subscriptions, copies>>
      \/ task' = [task EXCEPT ![c] = Idle] /\ UNCHANGED <<subscriptions, copies>>
      \/ /\ left # <<>>
         /\ \/ task' = [task EXCEPT ![c] = rest]
            \/ task' = [task EXCEPT ![c] = more]
         /\ \/ UNCHANGED <<subscriptions, copies>>
            \/ Store(c, r) /\ r.filter \notin InvalidFilters
  BY DEF SubscribeFilter, ProxySubscribe, Accepted
<1>2. task[c] \in [at : {"subscribing", "proxying"}, left : Seq(Requests),
                   codes : [Filters -> Maybe(0..2)]]
  BY <1>0, TaskCases
<1>3. ASSUME UNCHANGED <<subscriptions, copies>>, PublishingKept, LeftSent'
      PROVE  UpInv'
  <2>1. \A d \in Clients, n \in Messages, w \in Ways : copies'[d][n][w] >= copies[d][n][w]
    BY <1>0, <1>3 DEF TypeOK
  <2> QED
    BY <1>0, <1>3, <2>1, QuietUp
<1>4. CASE Leave(c) /\ UNCHANGED <<subscriptions, copies>>
  BY <1>0, <1>3, <1>4, LeaveTask
<1>5. CASE task' = [task EXCEPT ![c] = Idle] /\ UNCHANGED <<subscriptions, copies>>
  <2>1. PublishingKept /\ LeftSent'
    BY <1>0, <1>5, NewTask DEF Idle
  <2> QED
    BY <1>3, <1>5, <2>1
<1>6. CASE left # <<>> /\ (task' = [task EXCEPT ![c] = rest] \/ task' = [task EXCEPT ![c] = more])
           /\ (UNCHANGED <<subscriptions, copies>> \/ (Store(c, r) /\ r.filter \notin InvalidFilters))
  <2> DEFINE q == Tail(left)
  <2>1. rest.at = task[c].at /\ rest.left = q /\ more.at = task[c].at /\ more.left = q
    BY <1>2
  <2>2. left \in Seq(Requests) /\ \A i \in DOMAIN left : left[i] \in Sent
    BY <1>0, <1>2 DEF LeftSent
  <2> HIDE DEF rest, more, left
  <2>3. r \in Requests /\ r \in Sent
    BY <1>6, <2>2
  <2>4. \A i \in DOMAIN q : q[i] \in Sent
    BY <1>6, <2>2
  <2> HIDE DEF q, r
  <2>5. PublishingKept /\ LeftSent'
    <3>1. PICK new \in {rest, more} : task' = [task EXCEPT ![c] = new]
      BY <1>6
    <3>2. new.at # "publishing" /\ \A i \in DOMAIN new.left : new.left[i] \in Sent
      BY <1>0, <2>1, <2>4, <3>1
    <3> QED
      BY <1>0, <3>1, <3>2, NewTask
  <2>6. CASE UNCHANGED <<subscriptions, copies>>
    BY <1>3, <2>5, <2>6
  <2>7. CASE Store(c, r) /\ r.filter \notin InvalidFilters
    <3>1. r.filter \in Filters
      BY <2>3, <2>7 DEF Requests
    <3> QED
      BY <1>0, <2>3, <2>5, <2>7, <3>1, StoreUp
  <2> QED
    BY <1>6, <2>6, <2>7
<1> QED
  BY <1>1, <1>4, <1>5, <1>6

\* The other steps retain nothing and subscribe nobody: copies only become
\* more, except for a session that begins anew and has no subscriptions.
LEMMA OtherStepUp ==
  ASSUME IInv, UpInv, TypeOK',
         \/ UNCHANGED vars \/ Tick
         \/ \E c \in Clients :
              \/ \E clean \in BOOLEAN, w \in Maybe(Wills) : Connect(c, clean, w)
              \/ SendSubAck(c) \/ HandlePubRel(c) \/ HandleNotified(c) \/ ConnectionLost(c)
              \/ SendLastWill(c)
              \/ \E rs \in SubscribePackets : HandleSubscribe(c, rs)
              \/ \E f \in Filters : HandleUnsubscribe(c, f)
  PROVE  UpInv'
<1> DEFINE Fewer(c) == \A f \in Filters : subscriptions'[c][f] \in {None, subscriptions[c][f]}
           None_(c) == \A f \in Filters : subscriptions'[c][f] = None
           More(c) == \A n \in Messages, w \in Ways : copies'[c][n][w] >= copies[c][n][w]
           Time == /\ retained' = retained /\ now' \in {now, now + 1}
                   /\ published' \in {published, published + 1}
           Tasks == PublishingKept /\ LeftSent'
           Queued == \A c \in Clients : Fewer(c) /\ (None_(c) \/ More(c))
<1>0. TypeOK /\ TypeOK' /\ LeftSent
  BY DEF IInv, UpInv, AsSent
<1>1. ASSUME copies' = copies, subscriptions' = subscriptions
      PROVE  Queued
  BY <1>0, <1>1 DEF TypeOK
<1>2. ASSUME NEW m \in Message, Deliver(m), subscriptions' = subscriptions
      PROVE  Queued
  BY <1>0, <1>2, DeliverReaches
<1>3. ASSUME task' = task
      PROVE  Tasks
  BY <1>0, <1>3 DEF PublishingKept, LeftSent
<1>4. ASSUME NEW c \in Clients, ~Publishing(c), task' = [task EXCEPT ![c] = Idle] \/ Leave(c)
      PROVE  Tasks
  <2>1. CASE task' = [task EXCEPT ![c] = Idle]
    BY <1>0, <1>4, <2>1, NewTask DEF Idle
  <2>2. CASE Leave(c)
    BY <1>0, <1>4, <2>2, LeaveTask
  <2> QED
    BY <1>4, <2>1, <2>2
<1>5. CASE UNCHANGED vars \/ Tick
  <2>1. Time /\ copies' = copies /\ subscriptions' = subscriptions /\ task' = task
    BY <1>5 DEF vars, Tick, storageVars, connVars, modelVars
  <2> QED
    BY <1>0, <1>1, <1>3, <2>1, QuietUp
<1>6. ASSUME NEW c \in Clients, NEW clean \in BOOLEAN, NEW w \in Maybe(Wills), Connect(c, clean, w)
      PROVE  UpInv'
  <2>1. Time /\ task[c] = Gone
    BY <1>6 DEF Connect
  <2>2. ~Publishing(c)
    BY <2>1 DEF Publishing, Gone
  <2>3. CASE task' = [task EXCEPT ![c] = Idle] /\ UNCHANGED <<subscriptions, queue, granted, copies>>
    <3>1. Queued
      BY <1>1, <2>3
    <3>2. Tasks
      BY <1>4, <2>2, <2>3
    <3> QED
      BY <1>0, <2>1, <3>1, <3>2, QuietUp
  <2>4. CASE /\ subscriptions' = [subscriptions EXCEPT ![c] = NoItems]
             /\ copies' = [copies EXCEPT ![c] = NoCopies]
             /\ task' = [task EXCEPT ![c] = [at |-> "proxying", left |-> Proxies, codes |-> NoItems]]
    <3>1. Queued
      <4>1. ASSUME NEW d \in Clients
            PROVE  Fewer(d) /\ (None_(d) \/ More(d))
        <5>1. CASE d = c
          BY <1>0, <2>4, <5>1 DEF TypeOK, NoItems
        <5>2. CASE d # c
          <6>1. subscriptions'[d] = subscriptions[d] /\ copies'[d] = copies[d]
            BY <1>0, <2>4, <5>2 DEF TypeOK
          <6> QED
            BY <1>0, <6>1 DEF TypeOK
        <5> QED
          BY <5>1, <5>2
      <4> QED
        BY <4>1
    <3>2. Tasks
      <4>1. \A i \in DOMAIN Proxies : Proxies[i] \in Sent
        BY DEF Sent
      <4> QED
        BY <1>0, <2>2, <2>4, <4>1, NewTask
    <3> QED
      BY <1>0, <2>1, <3>1, <3>2, QuietUp
  <2> QED
    BY <1>6, <2>3, <2>4 DEF Connect
<1>7. ASSUME NEW c \in Clients, HandlePubRel(c)
      PROVE  UpInv'
  <2>1. Time /\ task' = task /\ subscriptions' = subscriptions /\ Deliver(held[c])
        /\ held[c] \in Message
    BY <1>0, <1>7 DEF HandlePubRel, TypeOK, Maybe
  <2>2. Queued
    BY <1>2, <2>1
  <2>3. Tasks
    BY <1>3, <2>1
  <2> QED
    BY <1>0, <2>1, <2>2, <2>3, QuietUp
<1>8. ASSUME NEW c \in Clients, SendLastWill(c)
      PROVE  UpInv'
  <2> DEFINE w == lastWill[c]
             new == NewMessage(published + 1, c, w, w.topic)
  <2>1. Time /\ task' = task /\ subscriptions' = subscriptions
        /\ Deliver([new EXCEPT !.from = None]) /\ published < MaxMessages
    BY <1>8 DEF SendLastWill, connVars
  <2>2. new \in Message
    <3>1. w \in Publish(Topics)
      BY <1>0, <1>8, RouterAssumption DEF RouterAssumption, SendLastWill, TypeOK, Maybe
    <3>2. published + 1 \in Messages
      BY <1>0, <2>1, Bounds DEF Messages, TypeOK
    <3>3. w.topic \in Topics /\ now \in 0..MaxTime
      BY <1>0, <3>1 DEF Publish, TypeOK
    <3> QED
      BY <3>1, <3>2, <3>3, NewMessageTyped
  <2> HIDE DEF new
  <2>3. [new EXCEPT !.from = None] \in Message
    BY <2>2 DEF Message, Maybe
  <2>4. Queued
    BY <1>2, <2>1, <2>3
  <2>5. Tasks
    BY <1>3, <2>1
  <2> QED
    BY <1>0, <2>1, <2>4, <2>5, QuietUp
<1>9. ASSUME NEW c \in Clients, SendSubAck(c) \/ HandleNotified(c) \/ ConnectionLost(c)
      PROVE  UpInv'
  <2>1. Time /\ copies' = copies /\ subscriptions' = subscriptions
    BY <1>9 DEF SendSubAck, HandleNotified, ConnectionLost, storageVars, modelVars
  <2>2. ~Publishing(c)
    BY <1>9 DEF SendSubAck, HandleNotified, ConnectionLost, Publishing, Idle
  <2>3. task' = task \/ task' = [task EXCEPT ![c] = Idle] \/ Leave(c)
    BY <1>9 DEF SendSubAck, HandleNotified, ConnectionLost
  <2>4. Tasks
    BY <1>3, <1>4, <2>2, <2>3
  <2>5. Queued
    BY <1>1, <2>1
  <2> QED
    BY <1>0, <2>1, <2>4, <2>5, QuietUp
<1>10. ASSUME NEW c \in Clients, NEW rs \in SubscribePackets, HandleSubscribe(c, rs)
       PROVE  UpInv'
  <2>1. /\ Time /\ copies' = copies /\ subscriptions' = subscriptions /\ task[c] = Idle
        /\ task' = [task EXCEPT ![c] = [at |-> "subscribing", left |-> rs, codes |-> NoItems]]
    BY <1>10 DEF HandleSubscribe, storageVars
  <2>2. \A i \in DOMAIN rs : rs[i] \in Sent
    BY DEF Sent
  <2>3. ~Publishing(c)
    BY <2>1 DEF Publishing, Idle
  <2>4. Tasks
    BY <1>0, <2>1, <2>2, <2>3, NewTask
  <2>5. Queued
    BY <1>1, <2>1
  <2> QED
    BY <1>0, <2>1, <2>4, <2>5, QuietUp
<1>11. ASSUME NEW c \in Clients, NEW f \in Filters, HandleUnsubscribe(c, f)
       PROVE  UpInv'
  <2>1. /\ Time /\ copies' = copies /\ task' = task
        /\ subscriptions' = [subscriptions EXCEPT ![c][f] = None]
    BY <1>11 DEF HandleUnsubscribe, Unsubscribed, connVars
  <2>2. Queued
    BY <1>0, <2>1 DEF TypeOK
  <2>3. Tasks
    BY <1>3, <2>1
  <2> QED
    BY <1>0, <2>1, <2>2, <2>3, QuietUp
<1> QED
  BY <1>5, <1>6, <1>7, <1>8, <1>9, <1>10, <1>11

\* Every step keeps it.
LEMMA NextKeepsUp ==
  ASSUME IInv, OnceInv, UpInv, [Next]_vars
  PROVE  UpInv'
<1>1. TypeOK'
  BY NextKeeps DEF IInv
<1>2. CASE \E c \in Clients : DoPublish(c)
  BY <1>1, <1>2, DoPublishUp
<1>3. CASE \E c \in Clients, p \in PublishPackets : HandlePublish(c, p)
  BY <1>1, <1>3, HandlePublishUp
<1>4. CASE \E c \in Clients : SubscribeFilter(c) \/ ProxySubscribe(c)
  BY <1>1, <1>4, SubscribeUp
<1>5. CASE \/ UNCHANGED vars \/ Tick
           \/ \E c \in Clients :
                \/ \E clean \in BOOLEAN, w \in Maybe(Wills) : Connect(c, clean, w)
                \/ SendSubAck(c) \/ HandlePubRel(c) \/ HandleNotified(c) \/ ConnectionLost(c)
                \/ SendLastWill(c)
                \/ \E rs \in SubscribePackets : HandleSubscribe(c, rs)
                \/ \E f \in Filters : HandleUnsubscribe(c, f)
  BY <1>1, <1>5, OtherStepUp
<1> QED
  BY <1>2, <1>3, <1>4, <1>5 DEF Next

\* It holds in every reachable state.
LEMMA InductiveUp == Spec => []UpInv
<1>1. Init => UpInv
  <2> SUFFICES ASSUME Init PROVE UpInv
    OBVIOUS
  <2>1. AsSent
    BY DEF Init, AsSent, LeftSent, NoItems, Gone
  <2>2. OneRetained /\ UpToDate
    BY DEF Init, OneRetained, UpToDate, Due
  <2> QED
    BY <2>1, <2>2 DEF UpInv
<1>2. Init => OnceInv
  BY OnceAtFirst
<1>3. IInv /\ OnceInv /\ [Next]_vars => OnceInv'
  BY NextKeepsOnce
<1>4. IInv /\ OnceInv /\ UpInv /\ [Next]_vars => UpInv'
  BY NextKeepsUp
<1> QED
  BY <1>1, <1>2, <1>3, <1>4, Inductive, PTL DEF Spec

\* Whoever has a subscription that asks for the retained message every time
\* has it or gets it, whatever else is asked for and in whatever order the
\* filters of a SUBSCRIBE, the two halves of a PUBLISH and the ends of
\* connections come (subscribe, update_retained_message, deliver).
EveryUpToDate ==
  \A c \in Clients, t \in Topics, f \in Filters :
    /\ retained[t] # None /\ retained[t].as < 2
    /\ ~IsExpired(retained[t]) /\ ~Pending(retained[t])
    /\ f \in Covering[t] /\ Share[f] = None
    /\ subscriptions[c][f] # None /\ subscriptions[c][f].retainHandling = "every"
    /\ ~(subscriptions[c][f].noLocal /\ retained[t].by = c)
    => \E w \in {"direct", "replay"} : copies[c][retained[t].n][w] > 0

\* It is, whatever is awaited meanwhile (handle_publish, handle_subscribe).
THEOREM RetainedReachesEvery == Spec => []EveryUpToDate
<1>1. UpInv => EveryUpToDate
  BY DEF UpInv, UpToDate, EveryUpToDate, Due, Entitled, Entitles, Has
<1> QED
  BY <1>1, InductiveUp, PTL

\* So do those that ask for it when the subscription is new, if requests agree
\* (retain_handling in subscribe).  RequestsAgree is about what clients ask for:
\* a client that first wants none of the retained messages and then those of a
\* new subscription gets none, because for subscribe the second is not new.
THEOREM RetainedReachesSubscribers ==
  ASSUME RequestsAgree
  PROVE  Spec => []SubscribersUpToDate
<1>1. UpInv => SubscribersUpToDate
  <2> SUFFICES ASSUME UpInv, NEW c \in Clients, NEW t \in Topics,
                      retained[t] # None, retained[t].as < 2,
                      ~IsExpired(retained[t]), ~Pending(retained[t]), Wants(c, t)
               PROVE  Has(c, retained[t].n)
    BY DEF SubscribersUpToDate, Has
  <2>1. Due(c, t)
    BY DEF Due, Wants, Entitled, Entitles
  <2> QED
    BY <2>1 DEF UpInv, UpToDate
<1> QED
  BY <1>1, InductiveUp, PTL
===============================================================================
