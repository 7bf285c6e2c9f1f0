------------------------------ MODULE RouterProofs ------------------------------
(***************************************************************************)
(* Router for any clients, filters, packets and bounds: its types, the     *)
(* freshness of what is queued, the QoS of overlapping subscriptions,      *)
(* no_local, topic aliases, and its use of TopicTable.                     *)
(*                                                                         *)
(* The types need three facts about messages.  Those a handler still has   *)
(* (a task that awaits plugins, uncompleted_messages, retained messages)   *)
(* are as their publisher sent them; a message is due if and only if it    *)
(* has an interval; and what is queued was queued before it was due, so    *)
(* that the rest of an interval is a number when it is sent.  The action   *)
(* properties rest on TwoSources: whatever is new in a queue was made by   *)
(* deliver or by subscribe.                                                *)
(***************************************************************************)
EXTENDS Router, FiniteSetTheorems, TLAPS

-----------------------------------------------------------------------------
(* Messages.                                                               *)

\* A nonempty set of items has a largest QoS: add_message finds it.
LEMMA LargestQosIsLargest ==
  ASSUME NEW items, items \subseteq Items, items # {}
  PROVE  /\ LargestQos(items) \in 0..2
         /\ \A i \in items : i.qos <= LargestQos(items)
<1>1. \E i \in items : \A j \in items : j.qos <= i.qos
  <2>1. \A i \in items : i.qos \in {0, 1, 2}
    BY DEF Items
  <2>2. CASE \E i \in items : i.qos = 2
    BY <2>1, <2>2
  <2>3. CASE (\A i \in items : i.qos # 2) /\ (\E i \in items : i.qos = 1)
    BY <2>1, <2>3
  <2>4. CASE \A i \in items : i.qos = 0
    BY <2>4
  <2> QED
    BY <2>1, <2>2, <2>3, <2>4
<1> DEFINE largest == CHOOSE i \in items : \A j \in items : j.qos <= i.qos
<1>2. largest \in items /\ \A j \in items : j.qos <= largest.qos
  BY <1>1
<1>3. LargestQos(items) = largest.qos
  BY DEF LargestQos
<1> QED
  BY <1>2, <1>3 DEF Items

\* The copy of a message for some subscriptions (add_message) is a message.
LEMMA CopyTyped ==
  ASSUME NEW m \in Message, NEW F \in SUBSET Filters, NEW items, items \subseteq Items,
         items # {}, NEW way \in Ways, now \in 0..MaxTime
  PROVE  Copy(m, F, items, way) \in Message
<1>1. LargestQos(items) \in 0..2
  BY LargestQosIsLargest
<1>2. Lower(m.qos, LargestQos(items)) \in 0..2
  BY <1>1 DEF Lower, Message
<1> QED
  BY <1>2 DEF Copy, Message, Maybe

\* A message made from a PUBLISH or a will is a message.
LEMMA NewMessageTyped ==
  ASSUME NEW n \in Messages, NEW c \in Clients, NEW p, NEW Names, p \in Publish(Names),
         NEW topic \in Topics, now \in 0..MaxTime
  PROVE  NewMessage(n, c, p, topic) \in Message
<1>1. CASE p.interval = None
  BY <1>1 DEF NewMessage, Message, Maybe, Publish
<1>2. CASE p.interval # None
  <2>1. p.interval \in Nat
    BY <1>2 DEF Publish
  <2>2. now + p.interval \in Nat
    BY <2>1, RouterAssumption DEF RouterAssumption
  <2> QED
    BY <1>2, <2>1, <2>2 DEF NewMessage, Message, Maybe, Publish
<1> QED
  BY <1>1, <1>2

-----------------------------------------------------------------------------
(* Queues.                                                                 *)

\* Queueing (add_message) keeps queues of messages and counts copies.
LEMMA EnqueueTyped ==
  ASSUME TypeOK, NEW new \in [Clients -> Seq(Message)], Enqueue(new)
  PROVE  /\ queue' \in [Clients -> Seq(Message)]
         /\ copies' \in [Clients -> [Messages -> [Ways -> Nat]]]
<1> DEFINE added(c, n, w) == Cardinality({i \in DOMAIN new[c] : new[c][i].n = n /\ new[c][i].way = w})
<1>1. queue' \in [Clients -> Seq(Message)]
  BY DEF TypeOK, Enqueue
<1>2. ASSUME NEW c \in Clients, NEW n \in Messages, NEW w \in Ways
      PROVE added(c, n, w) \in Nat
  <2> DEFINE S == {i \in DOMAIN new[c] : new[c][i].n = n /\ new[c][i].way = w}
  <2>1. DOMAIN new[c] = 1..Len(new[c]) /\ Len(new[c]) \in Nat
    OBVIOUS
  <2>2. IsFiniteSet(DOMAIN new[c])
    BY <2>1, FS_Interval
  <2>3. S \subseteq DOMAIN new[c]
    OBVIOUS
  <2>4. IsFiniteSet(S)
    BY <2>2, <2>3, FS_Subset
  <2> QED
    BY <2>4, FS_CardinalityType
<1>3. copies' \in [Clients -> [Messages -> [Ways -> Nat]]]
  <2>1. copies' = [c \in Clients |-> [n \in Messages |-> [w \in Ways |-> copies[c][n][w] + added(c, n, w)]]]
    BY DEF Enqueue
  <2> HIDE DEF added
  <2> QED
    BY <2>1, <1>2 DEF TypeOK
<1> QED
  BY <1>1, <1>3

\* What is new in a queue, and what was there before it.
LEMMA EnqueueAppends ==
  ASSUME TypeOK, NEW new \in [Clients -> Seq(Message)], Enqueue(new), NEW c \in Clients
  PROVE  /\ \A m \in NewCopies(c) : \E j \in DOMAIN new[c] : m = new[c][j]
         /\ \A i \in DOMAIN queue'[c] :
              (i \in DOMAIN queue[c] /\ queue'[c][i] = queue[c][i]) \/ queue'[c][i] \in NewCopies(c)
<1> DEFINE old == queue[c]
           more == new[c]
<1>1. old \in Seq(Message) /\ more \in Seq(Message) /\ queue'[c] = old \o more
  BY DEF TypeOK, Enqueue
<1> HIDE DEF old, more
<1>2. /\ Len(queue'[c]) = Len(old) + Len(more)
      /\ \A i \in 1..(Len(old) + Len(more)) :
           queue'[c][i] = IF i <= Len(old) THEN old[i] ELSE more[i - Len(old)]
  BY <1>1
<1>3. Len(old) \in Nat /\ Len(more) \in Nat /\ DOMAIN old = 1..Len(old) /\ DOMAIN more = 1..Len(more)
      /\ DOMAIN queue'[c] = 1..(Len(old) + Len(more))
  BY <1>1, <1>2
<1>4. NewCopies(c) = {queue'[c][i] : i \in (Len(old) + 1)..(Len(old) + Len(more))}
  BY <1>2 DEF NewCopies, old
<1>5. \A m \in NewCopies(c) : \E j \in DOMAIN more : m = more[j]
  <2> TAKE m \in NewCopies(c)
  <2>1. PICK i \in (Len(old) + 1)..(Len(old) + Len(more)) : m = queue'[c][i]
    BY <1>4
  <2>2. m = more[i - Len(old)] /\ i - Len(old) \in 1..Len(more)
    BY <2>1, <1>2, <1>3
  <2> QED
    BY <2>2, <1>3
<1>6. \A i \in DOMAIN queue'[c] :
        (i \in DOMAIN old /\ queue'[c][i] = old[i]) \/ queue'[c][i] \in NewCopies(c)
  <2> TAKE i \in DOMAIN queue'[c]
  <2>1. CASE i <= Len(old)
    BY <2>1, <1>2, <1>3
  <2>2. CASE i > Len(old)
    BY <2>2, <1>3, <1>4
  <2> QED
    BY <2>1, <2>2, <1>3
<1> QED
  BY <1>5, <1>6 DEF old, more

\* The copies deliver makes for client c: of a message that is in time, for
\* subscriptions of c, none of them no_local if c is where it came from.
LEMMA DeliverNew ==
  ASSUME TypeOK, NEW m \in Message, Deliver(m)
  PROVE  /\ queue' \in [Clients -> Seq(Message)]
         /\ copies' \in [Clients -> [Messages -> [Ways -> Nat]]]
         /\ \A c \in Clients :
              /\ \A x \in NewCopies(c) : \E F \in SUBSET Filters, way \in Ways :
                   /\ x = CopyOf(m, c, F, way) /\ F # {} /\ ~IsExpired(m)
                   /\ \A f \in F : /\ subscriptions[c][f] \in Items
                                   /\ Share[f] = None /\ m.from = c => ~subscriptions[c][f].noLocal
              /\ \A i \in DOMAIN queue'[c] :
                   (i \in DOMAIN queue[c] /\ queue'[c][i] = queue[c][i])
                     \/ queue'[c][i] \in NewCopies(c)
<1>1. CASE IsExpired(m) /\ UNCHANGED <<queue, copies>>
  <2>1. \A c \in Clients : NewCopies(c) = {}
    BY <1>1 DEF NewCopies, TypeOK
  <2> QED
    BY <1>1, <2>1 DEF TypeOK
<1>2. CASE ~IsExpired(m) /\ ~(IsExpired(m) /\ UNCHANGED <<queue, copies>>)
  <2> DEFINE new(pick) == [c \in Clients |->
               CopyFor(m, c, Direct(m, c), "direct") \o CopyFor(m, c, Shared(m, c, pick), "shared")]
             Right(c, F) ==
               /\ F \subseteq Filters
               /\ \A f \in F : /\ subscriptions[c][f] \in Items
                               /\ Share[f] = None /\ m.from = c => ~subscriptions[c][f].noLocal
             Made(c, way, q) ==
               /\ q \in Seq(Message)
               /\ \A j \in DOMAIN q : \E F \in SUBSET Filters :
                    q[j] = CopyOf(m, c, F, way) /\ F # {} /\ Right(c, F)
  <2>1. PICK pick \in [Groups(m) -> Clients] : Enqueue(new(pick))
    BY <1>2 DEF Deliver
  <2>2. ASSUME NEW c \in Clients
        PROVE Right(c, Direct(m, c)) /\ Right(c, Shared(m, c, pick))
    <3>1. \A f \in Matching(c, m.topic) : f \in Filters /\ subscriptions[c][f] \in Items
      BY RouterAssumption DEF RouterAssumption, Matching, TypeOK, Maybe, Message
    <3> QED
      BY <3>1 DEF Direct, Shared
  <2>3. ASSUME NEW c \in Clients, NEW F, Right(c, F), NEW way \in Ways
        PROVE Made(c, way, CopyFor(m, c, F, way))
    <3>1. CASE F = {}
      BY <3>1 DEF CopyFor
    <3>2. CASE F # {}
      <4>1. CopyOf(m, c, F, way) \in Message
        <5>1. {subscriptions[c][f] : f \in F} \subseteq Items /\ {subscriptions[c][f] : f \in F} # {}
          BY <2>3, <3>2
        <5> QED
          BY <5>1, <2>3, CopyTyped DEF CopyOf, TypeOK
      <4>2. CopyFor(m, c, F, way) = <<CopyOf(m, c, F, way)>>
        BY <3>2 DEF CopyFor
      <4> HIDE DEF Right
      <4> QED
        BY <4>1, <4>2, <2>3, <3>2 DEF Right
    <3> QED
      BY <3>1, <3>2
  <2>4. ASSUME NEW c \in Clients
        PROVE  /\ new(pick)[c] \in Seq(Message)
               /\ \A j \in DOMAIN new(pick)[c] : \E F \in SUBSET Filters, way \in Ways :
                    new(pick)[c][j] = CopyOf(m, c, F, way) /\ F # {} /\ Right(c, F)
    <3> DEFINE d == CopyFor(m, c, Direct(m, c), "direct")
               s == CopyFor(m, c, Shared(m, c, pick), "shared")
    <3>1. Made(c, "direct", d) /\ Made(c, "shared", s)
      BY <2>2, <2>3 DEF Ways
    <3>2. new(pick)[c] = d \o s
      OBVIOUS
    <3> HIDE DEF d, s, Right, new
    <3>3. d \o s \in Seq(Message)
      BY <3>1
    <3>4. \A j \in DOMAIN (d \o s) :
            (\E i \in DOMAIN d : (d \o s)[j] = d[i]) \/ (\E i \in DOMAIN s : (d \o s)[j] = s[i])
      <4> TAKE j \in DOMAIN (d \o s)
      <4>1. j \in 1..(Len(d) + Len(s)) /\ Len(d) \in Nat /\ Len(s) \in Nat
            /\ DOMAIN d = 1..Len(d) /\ DOMAIN s = 1..Len(s)
        BY <3>1
      <4>2. CASE j <= Len(d)
        BY <4>1, <4>2, <3>1
      <4>3. CASE j > Len(d)
        <5>1. (d \o s)[j] = s[j - Len(d)] /\ j - Len(d) \in 1..Len(s)
          BY <4>1, <4>3, <3>1
        <5> QED
          BY <5>1, <4>1
      <4> QED
        BY <4>1, <4>2, <4>3
    <3> QED
      BY <3>1, <3>2, <3>3, <3>4 DEF Ways
  <2>5. new(pick) \in [Clients -> Seq(Message)]
    BY <2>4
  <2> HIDE DEF new, Right
  <2>6. PICK more \in [Clients -> Seq(Message)] :
          /\ Enqueue(more)
          /\ \A c \in Clients : \A j \in DOMAIN more[c] : \E F \in SUBSET Filters, way \in Ways :
               more[c][j] = CopyOf(m, c, F, way) /\ F # {} /\ Right(c, F)
    BY <2>1, <2>4, <2>5
  <2>7. ASSUME NEW c \in Clients
        PROVE  /\ \A x \in NewCopies(c) : \E F \in SUBSET Filters, way \in Ways :
                    x = CopyOf(m, c, F, way) /\ F # {} /\ Right(c, F)
               /\ \A i \in DOMAIN queue'[c] :
                    (i \in DOMAIN queue[c] /\ queue'[c][i] = queue[c][i])
                      \/ queue'[c][i] \in NewCopies(c)
    <3>1. \A x \in NewCopies(c) : \E j \in DOMAIN more[c] : x = more[c][j]
      BY <2>6, EnqueueAppends
    <3>2. \A i \in DOMAIN queue'[c] :
            (i \in DOMAIN queue[c] /\ queue'[c][i] = queue[c][i]) \/ queue'[c][i] \in NewCopies(c)
      BY <2>6, EnqueueAppends
    <3> QED
      BY <3>1, <3>2, <2>6
  <2>8. /\ queue' \in [Clients -> Seq(Message)]
        /\ copies' \in [Clients -> [Messages -> [Ways -> Nat]]]
    BY <2>6, EnqueueTyped
  <2>9. ASSUME NEW c \in Clients
        PROVE \A x \in NewCopies(c) : \E F \in SUBSET Filters, way \in Ways :
                   /\ x = CopyOf(m, c, F, way) /\ F # {} /\ ~IsExpired(m)
                   /\ \A f \in F : /\ subscriptions[c][f] \in Items
                                   /\ Share[f] = None /\ m.from = c => ~subscriptions[c][f].noLocal
    BY <2>7, <1>2 DEF Right
  <2> QED
    BY <2>7, <2>8, <2>9
<1> QED
  BY <1>1, <1>2 DEF Deliver

\* The copies of retained messages that subscribe makes: for the client that
\* subscribes, of messages that are in time, for the filter subscribed to.
LEMMA StoreNew ==
  ASSUME TypeOK, NEW c \in Clients, NEW r \in Requests, r.filter \in Filters, Store(c, r)
  PROVE  /\ subscriptions' \in [Clients -> [Filters -> Maybe(Items)]]
         /\ queue' \in [Clients -> Seq(Message)]
         /\ copies' \in [Clients -> [Messages -> [Ways -> Nat]]]
         /\ \A d \in Clients :
              /\ \A x \in NewCopies(d) :
                   /\ d = c
                   /\ \E t \in Replayed(c, r) :
                        x = Copy(retained[t], {r.filter}, {ItemOf(r)}, "replay")
              /\ \A i \in DOMAIN queue'[d] :
                   (i \in DOMAIN queue[d] /\ queue'[d][i] = queue[d][i])
                     \/ queue'[d][i] \in NewCopies(d)
<1> DEFINE K == Cardinality(Replayed(c, r))
           copy(t) == Copy(retained[t], {r.filter}, {ItemOf(r)}, "replay")
<1>1. ItemOf(r) \in Items
  BY DEF ItemOf, Items, Requests
<1>2. subscriptions' \in [Clients -> [Filters -> Maybe(Items)]]
  BY <1>1 DEF TypeOK, Store, Maybe
<1>3. K \in Nat
  <2>1. Replayed(c, r) \subseteq Topics
    BY DEF Replayed
  <2> QED
    BY <2>1, RouterAssumption, FS_Subset, FS_CardinalityType DEF RouterAssumption
<1>4. ASSUME NEW t \in Replayed(c, r)
      PROVE copy(t) \in Message
  <2>1. retained[t] \in Message
    BY DEF Replayed, TypeOK, Maybe
  <2>2. now \in 0..MaxTime /\ {ItemOf(r)} \subseteq Items /\ {ItemOf(r)} # {}
        /\ {r.filter} \in SUBSET Filters /\ "replay" \in Ways
    BY <1>1 DEF TypeOK, Ways
  <2> QED
    BY <2>1, <2>2, CopyTyped
<1> HIDE DEF copy, K
<1>5. PICK order \in [1..K -> Replayed(c, r)] :
        Enqueue([d \in Clients |-> IF d # c THEN <<>> ELSE [i \in DOMAIN order |-> copy(order[i])]])
  BY DEF Store, K, copy
<1>6. PICK more \in [Clients -> Seq(Message)] :
        /\ Enqueue(more)
        /\ \A d \in Clients : \A j \in DOMAIN more[d] :
             d = c /\ \E t \in Replayed(c, r) : more[d][j] = copy(t)
  <2> DEFINE all == [i \in DOMAIN order |-> copy(order[i])]
             new == [d \in Clients |-> IF d # c THEN <<>> ELSE all]
  <2>1. all \in Seq(Message)
    <3>1. all \in [1..K -> Message]
      BY <1>4
    <3> QED
      BY <3>1, <1>3
  <2>2. new \in [Clients -> Seq(Message)]
    <3> HIDE DEF all
    <3>1. <<>> \in Seq(Message)
      OBVIOUS
    <3> QED
      BY <2>1, <3>1
  <2>3. \A d \in Clients : \A j \in DOMAIN new[d] :
          d = c /\ \E t \in Replayed(c, r) : new[d][j] = copy(t)
    <3>1. \A j \in DOMAIN order : order[j] \in Replayed(c, r)
      OBVIOUS
    <3>2. \A d \in Clients : d # c => DOMAIN new[d] = {}
      OBVIOUS
    <3> QED
      BY <3>1, <3>2
  <2> QED
    BY <2>2, <2>3, <1>5
<1>7. ASSUME NEW d \in Clients
      PROVE  /\ \A x \in NewCopies(d) : d = c /\ \E t \in Replayed(c, r) : x = copy(t)
             /\ \A i \in DOMAIN queue'[d] :
                  (i \in DOMAIN queue[d] /\ queue'[d][i] = queue[d][i])
                    \/ queue'[d][i] \in NewCopies(d)
  <2>1. \A x \in NewCopies(d) : \E j \in DOMAIN more[d] : x = more[d][j]
    BY <1>6, EnqueueAppends
  <2>2. \A i \in DOMAIN queue'[d] :
          (i \in DOMAIN queue[d] /\ queue'[d][i] = queue[d][i]) \/ queue'[d][i] \in NewCopies(d)
    BY <1>6, EnqueueAppends
  <2> QED
    BY <2>1, <2>2, <1>6
<1>8. /\ queue' \in [Clients -> Seq(Message)]
      /\ copies' \in [Clients -> [Messages -> [Ways -> Nat]]]
  BY <1>6, EnqueueTyped
<1> QED
  BY <1>2, <1>7, <1>8 DEF copy

-----------------------------------------------------------------------------
(* The inductive invariant.                                                *)

\* What is published is due at the end of its interval.
Exact(m) == m.due = IF m.interval = None THEN None ELSE m.created + m.interval

\* A message as its publisher sent it: only copies lose who that was, restart
\* their time or have their QoS lowered.
Original(m) == Exact(m) /\ m.from = m.by /\ m.qos = m.as

OriginalsKept ==
  /\ \A t \in Topics : retained[t] # None => Original(retained[t])
  /\ \A c \in Clients : held[c] # None => Original(held[c])
  /\ \A c \in Clients : task[c].at = "publishing" => Original(task[c].msg)

DueWithInterval ==
  \A c \in Clients : \A i \in DOMAIN queue[c] :
    queue[c][i].interval = None <=> queue[c][i].due = None

IInv == TypeOK /\ OriginalsKept /\ DueWithInterval /\ FreshWhenQueued

\* The bounds are numbers.
LEMMA Bounds ==
  /\ MaxMessages \in Nat /\ MaxSubscribes \in Nat /\ MaxTime \in Nat
  /\ MaxConnects \in Nat /\ MaxTopicAlias \in Nat
BY RouterAssumption DEF RouterAssumption

\* The fields of a copy (add_message).
LEMMA CopyFields ==
  ASSUME NEW m \in Message, NEW F, NEW items, NEW way
  PROVE  LET x == Copy(m, F, items, way) IN
         /\ x.n = m.n /\ x.interval = m.interval /\ x.due = m.due /\ x.by = m.by /\ x.as = m.as
         /\ x.created = now /\ x.ids = F /\ x.way = way
         /\ x.qos = Lower(m.qos, LargestQos(items))
BY DEF Copy, Message

\* What a task is by its name.
LEMMA TaskCases ==
  ASSUME TypeOK, NEW c \in Clients
  PROVE  /\ task[c].at = "publishing" => task[c].msg \in Message
         /\ task[c].at \in {"subscribing", "proxying"} =>
              /\ task[c] \in [at : {"subscribing", "proxying"}, left : Seq(Requests),
                             codes : [Filters -> Maybe(0..2)]]
<1>1. task[c] \in Task
  BY DEF TypeOK
<1>2. CASE task[c] \in [at : {"gone", "idle"}]
  BY <1>2
<1>3. CASE task[c] \in [at : {"publishing"}, msg : Message]
  BY <1>3
<1>4. CASE task[c] \in [at : {"subscribing", "proxying"}, left : Seq(Requests),
                       codes : [Filters -> Maybe(0..2)]]
  BY <1>4
<1> QED
  BY <1>1, <1>2, <1>3, <1>4 DEF Task

\* A copy made in time is fresh when queued.
LEMMA CopyFresh ==
  ASSUME NEW m \in Message, Exact(m), ~IsExpired(m), now \in 0..MaxTime,
         NEW F, NEW items, NEW way
  PROVE  LET x == Copy(m, F, items, way) IN
         /\ x.interval = None <=> x.due = None
         /\ x.due # None => x.created < x.due
<1>1. CASE m.interval = None
  BY <1>1, CopyFields DEF Exact
<1>2. CASE m.interval # None
  <2>1. m.interval \in Nat /\ m.created \in Nat
    BY <1>2 DEF Message, Maybe
  <2>2. m.due = m.created + m.interval /\ m.due \in Nat /\ now < m.due
    BY <2>1, <1>2, Bounds DEF Exact, IsExpired
  <2>3. m.due # None
    BY <2>2, RouterAssumption DEF RouterAssumption
  <2> QED
    BY <2>2, <2>3, <1>2, CopyFields
<1> QED
  BY <1>1, <1>2

\* Delivering keeps what the invariant says of queues.
LEMMA DeliverKeeps ==
  ASSUME TypeOK, DueWithInterval, FreshWhenQueued, NEW m \in Message, Exact(m), Deliver(m)
  PROVE  DueWithInterval' /\ FreshWhenQueued'
<1>1. ASSUME NEW c \in Clients, NEW i \in DOMAIN queue'[c]
      PROVE  /\ queue'[c][i].interval = None <=> queue'[c][i].due = None
             /\ queue'[c][i].due # None => queue'[c][i].created < queue'[c][i].due
  <2>1. CASE i \in DOMAIN queue[c] /\ queue'[c][i] = queue[c][i]
    BY <2>1 DEF DueWithInterval, FreshWhenQueued
  <2>2. CASE queue'[c][i] \in NewCopies(c)
    <3>1. PICK F \in SUBSET Filters, way \in Ways :
            queue'[c][i] = CopyOf(m, c, F, way) /\ ~IsExpired(m)
      BY <2>2, DeliverNew
    <3> QED
      BY <3>1, CopyFresh DEF CopyOf, TypeOK
  <2> QED
    BY <2>1, <2>2, DeliverNew
<1> QED
  BY <1>1 DEF DueWithInterval, FreshWhenQueued

\* Replaying does.
LEMMA StoreKeeps ==
  ASSUME IInv, NEW c \in Clients, NEW r \in Requests, r.filter \in Filters, Store(c, r)
  PROVE  DueWithInterval' /\ FreshWhenQueued'
<1>1. ASSUME NEW d \in Clients, NEW i \in DOMAIN queue'[d]
      PROVE  /\ queue'[d][i].interval = None <=> queue'[d][i].due = None
             /\ queue'[d][i].due # None => queue'[d][i].created < queue'[d][i].due
  <2>1. CASE i \in DOMAIN queue[d] /\ queue'[d][i] = queue[d][i]
    BY <2>1 DEF IInv, DueWithInterval, FreshWhenQueued
  <2>2. CASE queue'[d][i] \in NewCopies(d)
    <3>1. PICK t \in Replayed(c, r) :
            queue'[d][i] = Copy(retained[t], {r.filter}, {ItemOf(r)}, "replay")
      BY <2>2, StoreNew DEF IInv
    <3>2. t \in Topics /\ retained[t] # None /\ ~IsExpired(retained[t])
      BY DEF Replayed
    <3>3. retained[t] \in Message /\ Exact(retained[t])
      BY <3>2 DEF IInv, TypeOK, Maybe, OriginalsKept, Original
    <3> QED
      BY <3>1, <3>2, <3>3, CopyFresh DEF IInv, TypeOK
  <2> QED
    BY <2>1, <2>2, StoreNew DEF IInv
<1> QED
  BY <1>1 DEF DueWithInterval, FreshWhenQueued

\* A connection that ends leaves nothing of its own behind.
LEMMA LeaveKeeps ==
  ASSUME IInv, NEW c \in Clients, Leave(c)
  PROVE  /\ task' \in [Clients -> Task] /\ held' \in [Clients -> Maybe(Message)]
         /\ alias' \in [Clients -> [1..MaxTopicAlias -> Maybe(Topics)]]
         /\ wire' \in [Clients -> Maybe([at : 0..MaxTime, interval : Nat, due : Nat])]
         /\ \A d \in Clients : held'[d] # None => Original(held'[d])
         /\ \A d \in Clients : task'[d].at = "publishing" => Original(task'[d].msg)
<1>1. Gone \in Task /\ Gone.at # "publishing"
  BY DEF Gone, Task
<1>2. NoAlias \in [1..MaxTopicAlias -> Maybe(Topics)]
  BY DEF NoAlias, Maybe
<1> QED
  BY <1>1, <1>2 DEF Leave, IInv, TypeOK, OriginalsKept, AliasDropped, Maybe

-----------------------------------------------------------------------------
(* Every step keeps the invariant.                                         *)

\* The message of a PUBLISH is an original.
LEMMA NewMessageOriginal ==
  ASSUME NEW n, NEW c \in Clients, NEW p, NEW topic
  PROVE  Original(NewMessage(n, c, p, topic))
BY DEF Original, Exact, NewMessage

\* handle_publish
LEMMA HandlePublishKeeps ==
  ASSUME IInv, NEW c \in Clients, NEW p \in PublishPackets, HandlePublish(c, p)
  PROVE  IInv'
<1> USE DEF IInv
<1>1. CASE Refused(c, p) /\ Leave(c) /\ UNCHANGED <<retained, published, bound>>
  <2>1. TypeOK'
    BY <1>1, LeaveKeeps DEF TypeOK, HandlePublish
  <2>2. OriginalsKept'
    BY <1>1, LeaveKeeps DEF OriginalsKept
  <2>3. DueWithInterval' /\ FreshWhenQueued'
    BY DEF HandlePublish, DueWithInterval, FreshWhenQueued
  <2> QED
    BY <2>1, <2>2, <2>3
<1>2. CASE ~Refused(c, p)
  <2> DEFINE topic == TopicOf(c, p)
             m == NewMessage(published + 1, c, p, Rewrite[topic])
  <2>1. p \in Publish(Topics \union {NoTopic} \union InvalidTopics \union Denied)
    BY RouterAssumption DEF RouterAssumption
  <2>2. p.alias # None => p.alias \in 1..MaxTopicAlias
    BY <1>2 DEF Refused
  <2>3. topic \in Topics
    <3>1. topic \notin {None} \union InvalidTopics \union Denied
      BY <1>2 DEF Refused
    <3>2. CASE p.topic # NoTopic
      BY <2>1, <3>1, <3>2 DEF TopicOf, Publish
    <3>3. CASE p.topic = NoTopic
      <4>1. topic = alias[c][p.alias] /\ p.alias \in 1..MaxTopicAlias
        BY <3>1, <3>3 DEF TopicOf
      <4>2. alias \in [Clients -> [1..MaxTopicAlias -> Maybe(Topics)]] /\ p.alias \in 1..MaxTopicAlias
        BY <4>1 DEF TypeOK
      <4>3. alias[c] \in [1..MaxTopicAlias -> Maybe(Topics)]
        BY <4>2
      <4>4. alias[c][p.alias] \in Maybe(Topics)
        BY <4>2, <4>3
      <4> QED
        BY <4>1, <4>4, <3>1 DEF Maybe
    <3> QED
      BY <3>2, <3>3
  <2>4. m \in Message /\ Original(m)
    <3>1. published + 1 \in Messages /\ Rewrite[topic] \in Topics
      BY <2>3, RouterAssumption, Bounds DEF RouterAssumption, HandlePublish, TypeOK, Messages
    <3> QED
      BY <2>1, <3>1, NewMessageTyped, NewMessageOriginal DEF TypeOK
  <2> HIDE DEF m
  <2>5. /\ alias' = IF p.alias # None THEN [alias EXCEPT ![c][p.alias] = topic] ELSE alias
        /\ retained' = IF m.retain THEN Retained(m) ELSE retained
        /\ task' = [task EXCEPT ![c] = [at |-> "publishing", msg |-> m]]
        /\ bound' = IF p.alias # None /\ p.topic # NoTopic
                    THEN [bound EXCEPT ![c][p.alias] = p.topic] ELSE bound
        /\ published' = published + 1
        /\ UNCHANGED <<held, wire>>
    BY <1>2 DEF HandlePublish, m
  <2>6. task' \in [Clients -> Task]
        /\ \A d \in Clients : task'[d].at = "publishing" => Original(task'[d].msg)
    <3>1. [at |-> "publishing", msg |-> m] \in Task
      BY <2>4 DEF Task
    <3> QED
      BY <2>4, <2>5, <3>1 DEF TypeOK, OriginalsKept
  <2>7. retained' \in [Topics -> Maybe(Message)]
        /\ \A t \in Topics : retained'[t] # None => Original(retained'[t])
    BY <2>4, <2>5 DEF TypeOK, OriginalsKept, Retained, Maybe
  <2>8. alias' \in [Clients -> [1..MaxTopicAlias -> Maybe(Topics)]]
    BY <2>2, <2>3, <2>5 DEF TypeOK, Maybe
  <2>9. bound' \in [Clients -> [1..MaxTopicAlias -> Maybe(Topics)]]
    BY <2>2, <2>3, <2>5 DEF TypeOK, Maybe, TopicOf
  <2>10. published' \in 0..MaxMessages
    BY <2>5, Bounds DEF TypeOK, HandlePublish
  <2>11. TypeOK'
    BY <2>5, <2>6, <2>7, <2>8, <2>9, <2>10 DEF TypeOK, HandlePublish
  <2>12. OriginalsKept'
    BY <2>5, <2>6, <2>7 DEF OriginalsKept
  <2>13. DueWithInterval' /\ FreshWhenQueued'
    BY DEF HandlePublish, DueWithInterval, FreshWhenQueued
  <2> QED
    BY <2>11, <2>12, <2>13
<1> QED
  BY <1>1, <1>2 DEF HandlePublish

\* The rest of handle_publish, after the plugins.
LEMMA DoPublishKeeps ==
  ASSUME IInv, NEW c \in Clients, DoPublish(c)
  PROVE  IInv'
<1> USE DEF IInv
<1> DEFINE m == task[c].msg
<1>1. m \in Message /\ Original(m) /\ Exact(m)
  BY TaskCases DEF DoPublish, OriginalsKept, Original
<1>2. Idle \in Task /\ Idle.at # "publishing"
  BY DEF Idle, Task
<1>3. CASE Deliver(m) /\ task' = [task EXCEPT ![c] = Idle] /\ UNCHANGED <<alias, held, wire>>
  <2>1. DueWithInterval' /\ FreshWhenQueued'
    BY <1>1, <1>3, DeliverKeeps
  <2>2. queue' \in [Clients -> Seq(Message)]
        /\ copies' \in [Clients -> [Messages -> [Ways -> Nat]]]
    BY <1>1, <1>3, DeliverNew
  <2>3. TypeOK'
    BY <1>2, <1>3, <2>2 DEF TypeOK, DoPublish
  <2>4. OriginalsKept'
    BY <1>2, <1>3 DEF TypeOK, OriginalsKept, DoPublish
  <2> QED
    BY <2>1, <2>3, <2>4
<1>4. CASE /\ held' = [held EXCEPT ![c] = m]
           /\ task' = [task EXCEPT ![c] = Idle]
           /\ UNCHANGED <<queue, copies, alias, wire>>
  <2>1. TypeOK'
    BY <1>1, <1>2, <1>4 DEF TypeOK, DoPublish, Maybe
  <2>2. OriginalsKept'
    BY <1>1, <1>2, <1>4 DEF TypeOK, OriginalsKept, DoPublish
  <2>3. DueWithInterval' /\ FreshWhenQueued'
    BY <1>4 DEF DueWithInterval, FreshWhenQueued
  <2> QED
    BY <2>1, <2>2, <2>3
<1>5. CASE Leave(c) /\ UNCHANGED <<queue, copies>>
  <2>1. TypeOK'
    BY <1>5, LeaveKeeps DEF TypeOK, DoPublish
  <2>2. OriginalsKept'
    BY <1>5, LeaveKeeps DEF OriginalsKept, DoPublish
  <2>3. DueWithInterval' /\ FreshWhenQueued'
    BY <1>5 DEF DueWithInterval, FreshWhenQueued
  <2> QED
    BY <2>1, <2>2, <2>3
<1> QED
  BY <1>3, <1>4, <1>5 DEF DoPublish

\* handle_pub_rel
LEMMA HandlePubRelKeeps ==
  ASSUME IInv, NEW c \in Clients, HandlePubRel(c)
  PROVE  IInv'
<1> USE DEF IInv
<1>1. held[c] \in Message /\ Exact(held[c]) /\ Deliver(held[c])
  BY DEF HandlePubRel, TypeOK, Maybe, OriginalsKept, Original
<1>2. DueWithInterval' /\ FreshWhenQueued'
  BY <1>1, DeliverKeeps
<1>3. queue' \in [Clients -> Seq(Message)]
      /\ copies' \in [Clients -> [Messages -> [Ways -> Nat]]]
  BY <1>1, DeliverNew
<1>4. TypeOK'
  BY <1>3 DEF TypeOK, HandlePubRel, Maybe
<1>5. OriginalsKept'
  BY DEF TypeOK, OriginalsKept, HandlePubRel
<1> QED
  BY <1>2, <1>4, <1>5

\* The will of a client that is gone.
LEMMA SendLastWillKeeps ==
  ASSUME IInv, NEW c \in Clients, SendLastWill(c)
  PROVE  IInv'
<1> USE DEF IInv
<1> DEFINE w == lastWill[c]
           new == NewMessage(published + 1, c, w, w.topic)
           m == [new EXCEPT !.from = None]
<1>1. w \in Publish(Topics)
  BY RouterAssumption DEF RouterAssumption, SendLastWill, TypeOK, Maybe
<1>2. new \in Message /\ Original(new)
  <2>1. published + 1 \in Messages /\ w.topic \in Topics
    BY <1>1, Bounds DEF SendLastWill, TypeOK, Messages, Publish
  <2> QED
    BY <1>1, <2>1, NewMessageTyped, NewMessageOriginal DEF TypeOK
<1>3. Deliver(m)
  BY DEF SendLastWill
<1> HIDE DEF new
<1>4. m \in Message /\ Exact(m)
  BY <1>2 DEF Message, Original, Exact, Maybe
<1> HIDE DEF m
<1>5. DueWithInterval' /\ FreshWhenQueued'
  BY <1>3, <1>4, DeliverKeeps
<1>6. queue' \in [Clients -> Seq(Message)]
      /\ copies' \in [Clients -> [Messages -> [Ways -> Nat]]]
  BY <1>3, <1>4, DeliverNew
<1>7. TypeOK'
  <2>1. lastWill' = [lastWill EXCEPT ![c] = None] /\ published' = published + 1
        /\ published < MaxMessages
        /\ UNCHANGED <<session, subscriptions, retained, connVars, now, bound, granted, subscribes,
                      connects>>
    BY DEF SendLastWill
  <2>2. published' \in 0..MaxMessages
    BY <2>1, Bounds DEF TypeOK
  <2>3. lastWill' \in [Clients -> Maybe(Wills)]
    BY <2>1 DEF TypeOK, Maybe
  <2> QED
    BY <1>6, <2>1, <2>2, <2>3 DEF TypeOK, connVars
<1>8. OriginalsKept'
  BY DEF OriginalsKept, SendLastWill, connVars
<1> QED
  BY <1>5, <1>7, <1>8

\* Nothing of messages, queues or publications changes.
LEMMA QuietStep ==
  ASSUME IInv, UNCHANGED <<retained, held, queue>>,
         \A c \in Clients : task'[c].at = "publishing" => task'[c] = task[c]
  PROVE  OriginalsKept' /\ DueWithInterval' /\ FreshWhenQueued'
<1>1. OriginalsKept'
  BY DEF IInv, OriginalsKept
<1>2. DueWithInterval' /\ FreshWhenQueued'
  BY DEF IInv, DueWithInterval, FreshWhenQueued
<1> QED
  BY <1>1, <1>2

\* handle_subscribe begins.
LEMMA HandleSubscribeKeeps ==
  ASSUME IInv, NEW c \in Clients, NEW rs \in SubscribePackets, HandleSubscribe(c, rs)
  PROVE  IInv'
<1> DEFINE new == [at |-> "subscribing", left |-> rs, codes |-> NoItems]
<1>1. task' = [task EXCEPT ![c] = new] /\ subscribes' = subscribes + 1 /\ subscribes < MaxSubscribes
      /\ UNCHANGED <<storageVars, alias, held, wire, now, bound, granted, copies, published, connects>>
  BY DEF HandleSubscribe
<1>2. new \in Task /\ new.at # "publishing"
  <2>1. rs \in Seq(Requests)
    BY RouterAssumption DEF RouterAssumption
  <2>2. NoItems \in [Filters -> Maybe(0..2)]
    BY DEF NoItems, Maybe
  <2> QED
    BY <2>1, <2>2 DEF Task
<1> HIDE DEF new
<1>3. TypeOK'
  <2>1. subscribes' \in 0..MaxSubscribes
    BY <1>1, Bounds DEF IInv, TypeOK
  <2>2. task' \in [Clients -> Task]
    BY <1>1, <1>2 DEF IInv, TypeOK
  <2> QED
    BY <1>1, <2>1, <2>2 DEF IInv, TypeOK, storageVars
<1>4. \A d \in Clients : task'[d].at = "publishing" => task'[d] = task[d]
  BY <1>1, <1>2 DEF IInv, TypeOK
<1> QED
  BY <1>1, <1>3, <1>4, QuietStep DEF IInv, storageVars

\* One filter of handle_subscribe.
LEMMA SubscribeFilterKeeps ==
  ASSUME IInv, NEW c \in Clients, SubscribeFilter(c)
  PROVE  IInv'
<1> DEFINE r == Head(task[c].left)
           rest == [task[c] EXCEPT !.left = Tail(@)]
           codes == Lower(r.qos, MaximumQos)
<1>1. /\ task[c] \in [at : {"subscribing", "proxying"}, left : Seq(Requests),
                     codes : [Filters -> Maybe(0..2)]]
      /\ task[c].left # <<>>
  BY TaskCases DEF SubscribeFilter, IInv
<1>2. r \in Requests /\ rest \in [at : {"subscribing", "proxying"}, left : Seq(Requests),
                                codes : [Filters -> Maybe(0..2)]]
  <2> DEFINE left == task[c].left
  <2>1. left \in Seq(Requests) /\ left # <<>>
    BY <1>1
  <2> HIDE DEF left
  <2>2. Head(left) \in Requests /\ Tail(left) \in Seq(Requests)
    BY <2>1
  <2>3. Tail(task[c].left) \in Seq(Requests) /\ r \in Requests
    BY <2>2 DEF left
  <2> QED
    BY <1>1, <2>3
<1>3. codes \in 0..2
  BY <1>2, RouterAssumption DEF RouterAssumption, Requests, Lower
<1>4. CASE Leave(c) /\ UNCHANGED <<subscriptions, queue, copies>>
  <2>1. TypeOK'
    BY <1>4, LeaveKeeps DEF IInv, TypeOK, SubscribeFilter
  <2>2. OriginalsKept'
    BY <1>4, LeaveKeeps DEF IInv, OriginalsKept, SubscribeFilter
  <2>3. DueWithInterval' /\ FreshWhenQueued'
    BY <1>4 DEF IInv, DueWithInterval, FreshWhenQueued
  <2> QED
    BY <2>1, <2>2, <2>3 DEF IInv
<1>5. CASE /\ Accepted(r) /\ Store(c, r)
           /\ task' = [task EXCEPT ![c] = [rest EXCEPT !.codes[r.filter] = codes]]
           /\ UNCHANGED <<alias, held, wire>>
  <2> DEFINE new == [rest EXCEPT !.codes[r.filter] = codes]
  <2>1. r.filter \in Filters
    BY <1>2, <1>5 DEF Accepted, Requests
  <2>2. new \in Task /\ new.at # "publishing"
    BY <1>2, <1>3, <2>1 DEF Task, Maybe
  <2> HIDE DEF new, r, rest, codes
  <2>3. task' = [task EXCEPT ![c] = new]
    BY <1>5 DEF new
  <2>4. /\ subscriptions' \in [Clients -> [Filters -> Maybe(Items)]]
        /\ queue' \in [Clients -> Seq(Message)]
        /\ copies' \in [Clients -> [Messages -> [Ways -> Nat]]]
    BY <1>2, <1>5, <2>1, StoreNew DEF IInv
  <2>5. TypeOK'
    BY <1>5, <2>2, <2>3, <2>4 DEF IInv, TypeOK, SubscribeFilter
  <2>6. OriginalsKept'
    BY <1>5, <2>2, <2>3 DEF IInv, TypeOK, OriginalsKept, SubscribeFilter
  <2>7. DueWithInterval' /\ FreshWhenQueued'
    BY <1>2, <1>5, <2>1, StoreKeeps
  <2> QED
    BY <2>5, <2>6, <2>7 DEF IInv
<1>6. CASE /\ task' = [task EXCEPT ![c] = rest]
           /\ UNCHANGED <<subscriptions, queue, copies, alias, held, wire>>
  <2>1. rest \in Task /\ rest.at # "publishing"
    BY <1>2 DEF Task
  <2> HIDE DEF rest
  <2>2. TypeOK'
    BY <1>6, <2>1 DEF IInv, TypeOK, SubscribeFilter
  <2>3. \A d \in Clients : task'[d].at = "publishing" => task'[d] = task[d]
    BY <1>6, <2>1 DEF IInv, TypeOK
  <2>4. UNCHANGED <<retained, held, queue>>
    BY <1>6 DEF SubscribeFilter
  <2> QED
    BY <2>2, <2>3, <2>4, QuietStep DEF IInv
<1> QED
  BY <1>4, <1>5, <1>6 DEF SubscribeFilter

\* handle_subscribe ends.
LEMMA SendSubAckKeeps ==
  ASSUME IInv, NEW c \in Clients, SendSubAck(c)
  PROVE  IInv'
<1>1. task[c].codes \in [Filters -> Maybe(0..2)]
  BY TaskCases DEF SendSubAck, IInv
<1>2. Idle \in Task /\ Idle.at # "publishing"
  BY DEF Idle, Task
<1>3. granted' \in [Clients -> [Filters -> Maybe(0..2)]]
  BY <1>1 DEF SendSubAck, IInv, TypeOK
<1>4. TypeOK'
  BY <1>2, <1>3 DEF SendSubAck, IInv, TypeOK, storageVars
<1>5. \A d \in Clients : task'[d].at = "publishing" => task'[d] = task[d]
  BY <1>2 DEF SendSubAck, IInv, TypeOK
<1> QED
  BY <1>4, <1>5, QuietStep DEF SendSubAck, IInv, storageVars

\* handle_unsubscribe
LEMMA HandleUnsubscribeKeeps ==
  ASSUME IInv, NEW c \in Clients, NEW f \in Filters, HandleUnsubscribe(c, f)
  PROVE  IInv'
<1>1. TypeOK'
  BY DEF HandleUnsubscribe, Unsubscribed, IInv, TypeOK, Maybe, connVars
<1> QED
  BY <1>1, QuietStep DEF HandleUnsubscribe, IInv, connVars

\* CONNECT and its session.
LEMMA ConnectKeeps ==
  ASSUME IInv, NEW c \in Clients, NEW cleanStart \in BOOLEAN, NEW will \in Maybe(Wills),
         Connect(c, cleanStart, will)
  PROVE  IInv'
<1>1. /\ connects' \in 0..MaxConnects
      /\ session' \in [Clients -> BOOLEAN]
      /\ lastWill' \in [Clients -> Maybe(Wills)]
      /\ bound' \in [Clients -> [1..MaxTopicAlias -> Maybe(Topics)]]
  BY Bounds DEF Connect, IInv, TypeOK, NoAlias, Maybe
<1>2. CASE /\ task' = [task EXCEPT ![c] = Idle]
           /\ UNCHANGED <<subscriptions, queue, granted, copies>>
  <2>1. Idle \in Task /\ Idle.at # "publishing"
    BY DEF Idle, Task
  <2>2. TypeOK'
    BY <1>1, <1>2, <2>1 DEF Connect, IInv, TypeOK
  <2>3. \A d \in Clients : task'[d].at = "publishing" => task'[d] = task[d]
    BY <1>2, <2>1 DEF IInv, TypeOK
  <2> QED
    BY <1>2, <2>2, <2>3, QuietStep DEF Connect, IInv
<1>3. CASE /\ subscriptions' = [subscriptions EXCEPT ![c] = NoItems]
           /\ queue' = [queue EXCEPT ![c] = <<>>]
           /\ granted' = [granted EXCEPT ![c] = NoItems]
           /\ copies' = [copies EXCEPT ![c] = NoCopies]
           /\ task' = [task EXCEPT ![c] = [at |-> "proxying", left |-> Proxies, codes |-> NoItems]]
  <2> DEFINE new == [at |-> "proxying", left |-> Proxies, codes |-> NoItems]
  <2>1. /\ NoItems \in [Filters -> Maybe(Items)] /\ NoItems \in [Filters -> Maybe(0..2)]
        /\ NoCopies \in [Messages -> [Ways -> Nat]] /\ <<>> \in Seq(Message)
    BY DEF NoItems, NoCopies, Maybe
  <2>2. new \in Task /\ new.at # "publishing"
    BY <2>1, RouterAssumption DEF RouterAssumption, Task
  <2> HIDE DEF new
  <2>3. /\ subscriptions' \in [Clients -> [Filters -> Maybe(Items)]]
        /\ queue' \in [Clients -> Seq(Message)]
        /\ granted' \in [Clients -> [Filters -> Maybe(0..2)]]
        /\ copies' \in [Clients -> [Messages -> [Ways -> Nat]]]
    BY <1>3, <2>1 DEF IInv, TypeOK
  <2>4. task' = [task EXCEPT ![c] = new]
    BY <1>3 DEF new
  <2>5. TypeOK'
    BY <1>1, <2>2, <2>3, <2>4 DEF Connect, IInv, TypeOK
  <2>6. OriginalsKept'
    BY <2>2, <2>4 DEF Connect, IInv, TypeOK, OriginalsKept
  <2>7. DueWithInterval' /\ FreshWhenQueued'
    BY <1>3 DEF IInv, TypeOK, DueWithInterval, FreshWhenQueued
  <2> QED
    BY <2>5, <2>6, <2>7 DEF IInv
<1> QED
  BY <1>2, <1>3 DEF Connect

\* The configured subscriptions of a session.
LEMMA ProxySubscribeKeeps ==
  ASSUME IInv, NEW c \in Clients, ProxySubscribe(c)
  PROVE  IInv'
<1> DEFINE left == task[c].left
           rest == [task[c] EXCEPT !.left = Tail(@)]
<1>1. task[c] \in [at : {"subscribing", "proxying"}, left : Seq(Requests),
                  codes : [Filters -> Maybe(0..2)]]
  BY TaskCases DEF ProxySubscribe, IInv
<1>2. CASE left = <<>> /\ task' = [task EXCEPT ![c] = Idle] /\ UNCHANGED <<subscriptions, queue, copies>>
  <2>1. Idle \in Task /\ Idle.at # "publishing"
    BY DEF Idle, Task
  <2>2. TypeOK'
    BY <1>2, <2>1 DEF ProxySubscribe, IInv, TypeOK
  <2>3. \A d \in Clients : task'[d].at = "publishing" => task'[d] = task[d]
    BY <1>2, <2>1 DEF IInv, TypeOK
  <2> QED
    BY <1>2, <2>2, <2>3, QuietStep DEF ProxySubscribe, IInv
<1>3. CASE /\ left # <<>>
           /\ IF Head(left).filter \in InvalidFilters
              THEN UNCHANGED <<subscriptions, queue, copies>> ELSE Store(c, Head(left))
           /\ task' = [task EXCEPT ![c] = rest]
  <2>1. left \in Seq(Requests)
    BY <1>1
  <2>2. Head(left) \in Requests /\ Tail(left) \in Seq(Requests)
    <3> HIDE DEF left
    <3> QED
      BY <1>3, <2>1
  <2>3. rest \in Task /\ rest.at # "publishing"
    BY <1>1, <2>2 DEF Task
  <2> HIDE DEF left, rest
  <2>4. CASE Head(left).filter \in InvalidFilters
    <3>1. TypeOK'
      BY <1>3, <2>3, <2>4 DEF ProxySubscribe, IInv, TypeOK
    <3>2. \A d \in Clients : task'[d].at = "publishing" => task'[d] = task[d]
      BY <1>3, <2>3 DEF IInv, TypeOK
    <3> QED
      BY <1>3, <2>4, <3>1, <3>2, QuietStep DEF ProxySubscribe, IInv
  <2>5. CASE Head(left).filter \notin InvalidFilters
    <3>1. Head(left).filter \in Filters /\ Store(c, Head(left))
      BY <1>3, <2>2, <2>5 DEF Requests
    <3>2. /\ subscriptions' \in [Clients -> [Filters -> Maybe(Items)]]
          /\ queue' \in [Clients -> Seq(Message)]
          /\ copies' \in [Clients -> [Messages -> [Ways -> Nat]]]
      BY <2>2, <3>1, StoreNew DEF IInv
    <3>3. TypeOK'
      BY <1>3, <2>3, <3>2 DEF ProxySubscribe, IInv, TypeOK
    <3>4. OriginalsKept'
      BY <1>3, <2>3 DEF ProxySubscribe, IInv, TypeOK, OriginalsKept
    <3>5. DueWithInterval' /\ FreshWhenQueued'
      BY <2>2, <3>1, StoreKeeps
    <3> QED
      BY <3>3, <3>4, <3>5 DEF IInv
  <2> QED
    BY <2>4, <2>5
<1>4. \/ left = <<>> /\ task' = [task EXCEPT ![c] = Idle] /\ UNCHANGED <<subscriptions, queue, copies>>
      \/ /\ left # <<>>
         /\ IF Head(left).filter \in InvalidFilters
            THEN UNCHANGED <<subscriptions, queue, copies>> ELSE Store(c, Head(left))
         /\ task' = [task EXCEPT ![c] = rest]
  <2>1. [task EXCEPT ![c].left = Tail(@)] = [task EXCEPT ![c] = rest]
    BY DEF IInv, TypeOK
  <2> QED
    BY <2>1 DEF ProxySubscribe
<1> QED
  BY <1>2, <1>3, <1>4

\* The end of a connection.
LEMMA ConnectionLostKeeps ==
  ASSUME IInv, NEW c \in Clients, ConnectionLost(c)
  PROVE  IInv'
<1>1. TypeOK'
  BY LeaveKeeps DEF ConnectionLost, IInv, TypeOK, storageVars, modelVars
<1>2. OriginalsKept'
  BY LeaveKeeps DEF ConnectionLost, IInv, OriginalsKept, storageVars
<1>3. DueWithInterval' /\ FreshWhenQueued'
  BY DEF ConnectionLost, IInv, DueWithInterval, FreshWhenQueued, storageVars
<1> QED
  BY <1>1, <1>2, <1>3 DEF IInv

\* A message goes out; what is left of its interval is a number (is_expired
\* is asked first).
LEMMA HandleNotifiedKeeps ==
  ASSUME IInv, NEW c \in Clients, HandleNotified(c)
  PROVE  IInv'
<1> DEFINE q == queue[c]
           m == Head(q)
           left == m.created + m.interval - now
<1>1. q \in Seq(Message) /\ q # <<>>
  BY DEF HandleNotified, IInv, TypeOK
<1>2. /\ \A i \in DOMAIN q : q[i].interval = None <=> q[i].due = None
      /\ \A i \in DOMAIN q : q[i].due # None => q[i].created < q[i].due
  BY DEF IInv, DueWithInterval, FreshWhenQueued
<1>3. m \in Message /\ (m.interval = None <=> m.due = None)
  <2> HIDE DEF q
  <2>1. 1 \in DOMAIN q /\ Head(q) = q[1]
    BY <1>1
  <2> QED
    BY <1>1, <1>2, <2>1
<1>4. /\ Tail(q) \in Seq(Message)
      /\ \A i \in DOMAIN Tail(q) : i + 1 \in DOMAIN q /\ Tail(q)[i] = q[i + 1]
  <2> HIDE DEF q
  <2> QED
    BY <1>1
<1>5. queue' = [queue EXCEPT ![c] = Tail(q)]
  BY DEF HandleNotified
<1>6. wire' \in [Clients -> Maybe([at : 0..MaxTime, interval : Nat, due : Nat])]
  <2> DEFINE sent == [at |-> now, interval |-> left, due |-> m.due]
  <2>1. ASSUME ~IsExpired(m), m.interval # None
        PROVE sent \in [at : 0..MaxTime, interval : Nat, due : Nat]
    <3>1. m.interval \in Nat /\ m.created \in Nat /\ m.due \in Nat /\ now \in 0..MaxTime
      BY <1>3, <2>1, Bounds DEF Message, Maybe, IInv, TypeOK
    <3>2. left \in Nat
      BY <2>1, <3>1, Bounds DEF IsExpired
    <3> QED
      BY <3>1, <3>2
  <2>2. wire' = [wire EXCEPT ![c] = IF IsExpired(m) THEN wire[c] ELSE IF m.interval = None THEN None ELSE sent]
    BY DEF HandleNotified
  <2> HIDE DEF sent, m
  <2> QED
    BY <2>1, <2>2 DEF IInv, TypeOK, Maybe
<1> HIDE DEF q
<1>7. TypeOK'
  BY <1>4, <1>5, <1>6 DEF HandleNotified, IInv, TypeOK, modelVars
<1>8. OriginalsKept'
  BY DEF HandleNotified, IInv, OriginalsKept
<1>9. DueWithInterval' /\ FreshWhenQueued'
  <2>1. ASSUME NEW d \in Clients, NEW i \in DOMAIN queue'[d]
        PROVE  /\ queue'[d][i].interval = None <=> queue'[d][i].due = None
               /\ queue'[d][i].due # None => queue'[d][i].created < queue'[d][i].due
    <3>1. CASE d = c
      <4>1. queue'[c] = Tail(q)
        BY <1>5 DEF IInv, TypeOK
      <4> QED
        BY <3>1, <4>1, <1>2, <1>4
    <3>2. CASE d # c
      <4>1. queue'[d] = queue[d]
        BY <3>2, <1>5 DEF IInv, TypeOK
      <4> QED
        BY <4>1 DEF IInv, DueWithInterval, FreshWhenQueued
    <3> QED
      BY <3>1, <3>2
  <2> QED
    BY <2>1 DEF DueWithInterval, FreshWhenQueued
<1> QED
  BY <1>7, <1>8, <1>9 DEF IInv

\* The clock.
LEMMA TickKeeps ==
  ASSUME IInv, Tick
  PROVE  IInv'
<1>1. now' \in 0..MaxTime /\ UNCHANGED <<storageVars, connVars, modelVars>>
  BY Bounds DEF Tick, IInv, TypeOK
<1>2. TypeOK'
  BY <1>1 DEF IInv, TypeOK, storageVars, connVars, modelVars
<1> QED
  BY <1>1, <1>2, QuietStep DEF IInv, storageVars, connVars

\* Every step keeps the invariant, and it holds at the start.
LEMMA NextKeeps ==
  ASSUME IInv, [Next]_vars
  PROVE  IInv'
<1>1. CASE UNCHANGED vars
  <2>1. TypeOK'
    BY <1>1 DEF IInv, TypeOK, vars, storageVars, connVars, modelVars
  <2> QED
    BY <1>1, <2>1, QuietStep DEF IInv, vars, storageVars, connVars
<1>2. CASE \E c \in Clients, clean \in BOOLEAN, w \in Maybe(Wills) : Connect(c, clean, w)
  BY <1>2, ConnectKeeps
<1>3. CASE \E c \in Clients :
             ProxySubscribe(c) \/ SubscribeFilter(c) \/ SendSubAck(c) \/ DoPublish(c)
               \/ HandlePubRel(c) \/ HandleNotified(c) \/ ConnectionLost(c) \/ SendLastWill(c)
  BY <1>3, ProxySubscribeKeeps, SubscribeFilterKeeps, SendSubAckKeeps, DoPublishKeeps,
     HandlePubRelKeeps, HandleNotifiedKeeps, ConnectionLostKeeps, SendLastWillKeeps
<1>4. CASE \E c \in Clients, p \in PublishPackets : HandlePublish(c, p)
  BY <1>4, HandlePublishKeeps
<1>5. CASE \E c \in Clients, rs \in SubscribePackets : HandleSubscribe(c, rs)
  BY <1>5, HandleSubscribeKeeps
<1>6. CASE \E c \in Clients, f \in Filters : HandleUnsubscribe(c, f)
  BY <1>6, HandleUnsubscribeKeeps
<1>7. CASE Tick
  BY <1>7, TickKeeps
<1> QED
  BY <1>1, <1>2, <1>3, <1>4, <1>5, <1>6, <1>7 DEF Next

\* The broker starts in it.
LEMMA InitHolds == Init => IInv
<1> SUFFICES ASSUME Init PROVE IInv
  OBVIOUS
<1>1. /\ NoItems \in [Filters -> Maybe(Items)] /\ NoItems \in [Filters -> Maybe(0..2)]
      /\ NoCopies \in [Messages -> [Ways -> Nat]] /\ <<>> \in Seq(Message)
      /\ NoAlias \in [1..MaxTopicAlias -> Maybe(Topics)] /\ Gone \in Task /\ Gone.at # "publishing"
  BY DEF NoItems, NoCopies, NoAlias, Gone, Task, Maybe
<1>2. TypeOK
  BY <1>1, Bounds DEF Init, TypeOK, Maybe
<1>3. OriginalsKept
  BY <1>1 DEF Init, OriginalsKept
<1>4. DueWithInterval /\ FreshWhenQueued
  BY DEF Init, DueWithInterval, FreshWhenQueued
<1> QED
  BY <1>2, <1>3, <1>4 DEF IInv

\* It holds throughout.
LEMMA Inductive == Spec => []IInv
<1>1. IInv /\ [Next]_vars => IInv'
  BY NextKeeps
<1> QED
  BY InitHolds, <1>1, PTL DEF Spec

\* Every variable keeps its type, for every set of clients, filters and
\* packets: what is routed is always a message, what is sent on has an interval
\* that is not negative (is_expired and to_publish_and_update_expiry_interval).
THEOREM TypeCorrect == Spec => []TypeOK
<1>1. IInv => TypeOK
  BY DEF IInv
<1> QED
  BY <1>1, Inductive, PTL

\* Nothing is queued after its time, neither delivered nor replayed (deliver,
\* subscribe).
THEOREM NothingStale == Spec => []FreshWhenQueued
<1>1. IInv => FreshWhenQueued
  BY DEF IInv
<1> QED
  BY <1>1, Inductive, PTL

-----------------------------------------------------------------------------
(* Where copies come from.                                                 *)

\* x was made by deliver from a published message or a will.
Delivered(c, x) ==
  /\ subscriptions' = subscriptions
  /\ \E m \in Message, F \in SUBSET Filters, way \in Ways :
       /\ x = CopyOf(m, c, F, way) /\ F # {}
       /\ m.qos = m.as /\ (m.from = m.by \/ Wills # {})
       /\ \A f \in F : /\ subscriptions[c][f] \in Items
                       /\ Share[f] = None /\ m.from = c => ~subscriptions[c][f].noLocal

\* x was made by subscribe from a retained message.
ReplayedNow(c, x) ==
  \E r \in Requests, m \in Message :
    /\ r.filter \in Filters
    /\ subscriptions' = [subscriptions EXCEPT ![c][r.filter] = ItemOf(r)]
    /\ x = Copy(m, {r.filter}, {ItemOf(r)}, "replay")
    /\ Original(m) /\ ~(r.noLocal /\ m.from = c)

\* A queue that does not grow has nothing new.
LEMMA NothingNew ==
  ASSUME TypeOK, NEW c \in Clients,
         \/ queue'[c] \in {queue[c], <<>>}
         \/ queue[c] # <<>> /\ queue'[c] = Tail(queue[c])
  PROVE  NewCopies(c) = {}
<1>1. queue[c] \in Seq(Message)
  BY DEF TypeOK
<1>2. Len(queue'[c]) \in Nat /\ Len(queue[c]) \in Nat /\ Len(queue'[c]) <= Len(queue[c])
  <2>1. CASE queue'[c] \in {queue[c], <<>>}
    BY <1>1, <2>1
  <2>2. CASE queue[c] # <<>> /\ queue'[c] = Tail(queue[c])
    <3> DEFINE q == queue[c]
    <3>1. q \in Seq(Message) /\ q # <<>>
      BY <1>1, <2>2
    <3> HIDE DEF q
    <3>2. Len(Tail(q)) = Len(q) - 1 /\ Len(q) \in Nat /\ Len(q) > 0
      BY <3>1
    <3>3. queue'[c] = Tail(q) /\ queue[c] = q
      BY <2>2 DEF q
    <3> QED
      BY <3>2, <3>3
  <2> QED
    BY <2>1, <2>2
<1>3. (Len(queue[c]) + 1)..Len(queue'[c]) = {}
  BY <1>2
<1> QED
  BY <1>3 DEF NewCopies

\* What deliver queues is delivered.
LEMMA FromDeliver ==
  ASSUME TypeOK, NEW m \in Message, Deliver(m), subscriptions' = subscriptions,
         m.qos = m.as, m.from = m.by \/ Wills # {}, NEW c \in Clients, NEW x \in NewCopies(c)
  PROVE  Delivered(c, x)
<1>1. PICK F \in SUBSET Filters, way \in Ways :
        /\ x = CopyOf(m, c, F, way) /\ F # {} /\ ~IsExpired(m)
        /\ \A f \in F : /\ subscriptions[c][f] \in Items
                        /\ Share[f] = None /\ m.from = c => ~subscriptions[c][f].noLocal
  BY DeliverNew
<1> QED
  BY <1>1 DEF Delivered

\* What subscribe queues is replayed.
LEMMA FromStore ==
  ASSUME IInv, NEW c \in Clients, NEW r \in Requests, r.filter \in Filters, Store(c, r),
         NEW d \in Clients, NEW x \in NewCopies(d)
  PROVE  ReplayedNow(d, x)
<1>1. d = c /\ \E t \in Replayed(c, r) : x = Copy(retained[t], {r.filter}, {ItemOf(r)}, "replay")
  BY StoreNew DEF IInv
<1>2. PICK t \in Replayed(c, r) : x = Copy(retained[t], {r.filter}, {ItemOf(r)}, "replay")
  BY <1>1
<1>3. retained[t] \in Message /\ Original(retained[t]) /\ ~(r.noLocal /\ retained[t].from = c)
  BY DEF Replayed, IInv, TypeOK, Maybe, OriginalsKept
<1> QED
  BY <1>1, <1>2, <1>3 DEF ReplayedNow, Store

\* The steps that deliver.
DeliverStep == \E c \in Clients : DoPublish(c) \/ HandlePubRel(c) \/ SendLastWill(c)

\* There is no third way into a queue.
LEMMA TwoSources ==
  ASSUME IInv, [Next]_vars, NEW c \in Clients, NEW x \in NewCopies(c)
  PROVE  (Delivered(c, x) /\ DeliverStep) \/ ReplayedNow(c, x)
<1>0. queue'[c] # queue[c] /\ queue'[c] # <<>> /\ TypeOK
  BY NothingNew DEF IInv
<1> USE DEF DeliverStep
<1>1. CASE \E d \in Clients, clean \in BOOLEAN, w \in Maybe(Wills) : Connect(d, clean, w)
  BY <1>0, <1>1 DEF Connect, TypeOK
<1>2. ASSUME NEW d \in Clients, ProxySubscribe(d)
      PROVE  ReplayedNow(c, x)
  <2>1. /\ task[d] \in [at : {"subscribing", "proxying"}, left : Seq(Requests),
                       codes : [Filters -> Maybe(0..2)]]
    BY <1>2, TaskCases DEF ProxySubscribe, IInv
  <2>2. task[d].left # <<>> /\ Store(d, Head(task[d].left)) /\ Head(task[d].left).filter \notin InvalidFilters
    BY <1>0, <1>2 DEF ProxySubscribe
  <2>3. Head(task[d].left) \in Requests
    <3> DEFINE left == task[d].left
    <3>1. left \in Seq(Requests) /\ left # <<>>
      BY <2>1, <2>2
    <3> HIDE DEF left
    <3>2. Head(left) \in Requests
      BY <3>1
    <3> QED
      BY <3>2 DEF left
  <2> QED
    BY <2>2, <2>3, FromStore DEF Requests
<1>3. ASSUME NEW d \in Clients, SubscribeFilter(d)
      PROVE  ReplayedNow(c, x)
  <2>1. /\ task[d] \in [at : {"subscribing", "proxying"}, left : Seq(Requests),
                       codes : [Filters -> Maybe(0..2)]]
    BY <1>3, TaskCases DEF SubscribeFilter, IInv
  <2>2. task[d].left # <<>> /\ Store(d, Head(task[d].left)) /\ Accepted(Head(task[d].left))
    BY <1>0, <1>3 DEF SubscribeFilter
  <2>3. Head(task[d].left) \in Requests
    <3> DEFINE left == task[d].left
    <3>1. left \in Seq(Requests) /\ left # <<>>
      BY <2>1, <2>2
    <3> HIDE DEF left
    <3>2. Head(left) \in Requests
      BY <3>1
    <3> QED
      BY <3>2 DEF left
  <2> QED
    BY <2>2, <2>3, FromStore DEF Requests, Accepted
<1>4. ASSUME NEW d \in Clients, DoPublish(d)
      PROVE  Delivered(c, x)
  <2>1. Deliver(task[d].msg) /\ subscriptions' = subscriptions
    BY <1>0, <1>4 DEF DoPublish
  <2>2. task[d].msg \in Message /\ Original(task[d].msg)
    BY <1>4, TaskCases DEF DoPublish, IInv, OriginalsKept
  <2> QED
    BY <1>0, <2>1, <2>2, FromDeliver DEF Original
<1>5. ASSUME NEW d \in Clients, HandlePubRel(d)
      PROVE  Delivered(c, x)
  <2>1. Deliver(held[d]) /\ subscriptions' = subscriptions
    BY <1>5 DEF HandlePubRel
  <2>2. held[d] \in Message /\ Original(held[d])
    BY <1>5 DEF HandlePubRel, IInv, TypeOK, Maybe, OriginalsKept
  <2> QED
    BY <1>0, <2>1, <2>2, FromDeliver DEF Original
<1>6. ASSUME NEW d \in Clients, SendLastWill(d)
      PROVE  Delivered(c, x)
  <2> DEFINE w == lastWill[d]
             new == NewMessage(published + 1, d, w, w.topic)
             m == [new EXCEPT !.from = None]
  <2>1. w \in Wills /\ w \in Publish(Topics)
    BY <1>6, RouterAssumption DEF RouterAssumption, SendLastWill, IInv, TypeOK, Maybe
  <2>2. new \in Message /\ Original(new)
    <3>1. published + 1 \in Messages /\ w.topic \in Topics
      BY <1>6, <2>1, Bounds DEF SendLastWill, IInv, TypeOK, Messages, Publish
    <3> QED
      BY <2>1, <3>1, NewMessageTyped, NewMessageOriginal DEF IInv, TypeOK
  <2>3. Deliver(m) /\ subscriptions' = subscriptions
    BY <1>6 DEF SendLastWill
  <2> HIDE DEF new
  <2>4. m \in Message /\ m.qos = m.as
    BY <2>2 DEF Message, Original, Maybe
  <2> HIDE DEF m
  <2> QED
    BY <1>0, <2>1, <2>3, <2>4, FromDeliver
<1>7. CASE \E d \in Clients : HandleNotified(d)
  <2>1. PICK d \in Clients : HandleNotified(d)
    BY <1>7
  <2>2. queue[c] # <<>> /\ queue'[c] = Tail(queue[c])
    BY <1>0, <2>1 DEF HandleNotified, TypeOK
  <2> QED
    BY <1>0, <2>2, NothingNew
<1>8. CASE \/ UNCHANGED vars \/ Tick
           \/ \E d \in Clients : SendSubAck(d) \/ ConnectionLost(d)
           \/ \E d \in Clients, p \in PublishPackets : HandlePublish(d, p)
           \/ \E d \in Clients, rs \in SubscribePackets : HandleSubscribe(d, rs)
           \/ \E d \in Clients, f \in Filters : HandleUnsubscribe(d, f)
  <2>1. queue' = queue
    BY <1>8 DEF vars, storageVars, Tick, SendSubAck, ConnectionLost, HandlePublish, HandleSubscribe,
                HandleUnsubscribe
  <2> QED
    BY <1>0, <2>1
<1> QED
  BY <1>1, <1>2, <1>3, <1>4, <1>5, <1>6, <1>7, <1>8 DEF Next

-----------------------------------------------------------------------------
(* What a copy says and whom it goes to.                                   *)

\* A copy of overlapping subscriptions has the best QoS of them all (comment
\* on add_message), with as many subscriptions overlapping as there may be.
THEOREM BestQos == Spec => OverlapRespected
<1>1. ASSUME IInv, [Next]_vars, NEW c \in Clients, NEW x \in NewCopies(c), NEW f \in x.ids
      PROVE  Lower(x.as, subscriptions'[c][f].qos) <= x.qos
  <2>1. CASE Delivered(c, x)
    <3>1. PICK m \in Message, F \in SUBSET Filters, way \in Ways :
            /\ x = CopyOf(m, c, F, way) /\ F # {} /\ m.qos = m.as
            /\ \A g \in F : subscriptions[c][g] \in Items
      BY <2>1 DEF Delivered
    <3> DEFINE items == {subscriptions[c][g] : g \in F}
    <3>2. x = Copy(m, F, items, way)
      BY <3>1 DEF CopyOf
    <3>3. x.ids = F /\ x.as = m.as /\ x.qos = Lower(m.qos, LargestQos(items))
      BY <3>2, CopyFields
    <3>4. subscriptions[c][f] \in items /\ items \subseteq Items /\ items # {}
      BY <1>1, <3>1, <3>3
    <3>5. subscriptions[c][f].qos <= LargestQos(items) /\ LargestQos(items) \in 0..2
          /\ subscriptions[c][f].qos \in 0..2 /\ m.qos \in 0..2
      BY <3>4, LargestQosIsLargest DEF Items, Message
    <3>6. subscriptions' = subscriptions
      BY <2>1 DEF Delivered
    <3> HIDE DEF items
    <3> QED
      BY <3>1, <3>3, <3>5, <3>6 DEF Lower
  <2>2. CASE ReplayedNow(c, x)
    <3>1. PICK r \in Requests, m \in Message :
            /\ r.filter \in Filters
            /\ subscriptions' = [subscriptions EXCEPT ![c][r.filter] = ItemOf(r)]
            /\ x = Copy(m, {r.filter}, {ItemOf(r)}, "replay")
            /\ Original(m)
      BY <2>2 DEF ReplayedNow
    <3>2. x.ids = {r.filter} /\ x.as = m.as /\ x.qos = Lower(m.qos, LargestQos({ItemOf(r)}))
      BY <3>1, CopyFields
    <3>3. subscriptions'[c][f] = ItemOf(r)
      <4>1. f = r.filter
        BY <1>1, <3>2
      <4>2. subscriptions \in [Clients -> [Filters -> Maybe(Items)]]
        BY <1>1 DEF IInv, TypeOK
      <4>3. subscriptions'[c] = [subscriptions[c] EXCEPT ![r.filter] = ItemOf(r)]
        BY <3>1, <4>2
      <4> QED
        BY <3>1, <4>1, <4>2, <4>3
    <3>4. ItemOf(r) \in Items
      BY DEF ItemOf, Items, Requests
    <3>5. ItemOf(r).qos <= LargestQos({ItemOf(r)}) /\ LargestQos({ItemOf(r)}) \in 0..2
          /\ ItemOf(r).qos \in 0..2
      BY <3>4, LargestQosIsLargest DEF Items
    <3>6. m.qos \in 0..2 /\ m.qos = m.as
      BY <3>1 DEF Message, Original
    <3> QED
      BY <3>2, <3>3, <3>5, <3>6 DEF Lower
  <2> QED
    BY <1>1, <2>1, <2>2, TwoSources
<1>2. IInv /\ [Next]_vars =>
        [\A c \in Clients : \A m \in NewCopies(c) : \A f \in m.ids :
           Lower(m.as, subscriptions'[c][f].qos) <= m.qos]_vars
  BY <1>1
<1> QED
  BY <1>2, Inductive, PTL DEF Spec, OverlapRespected

\* Where there are no wills, nothing comes back to its publisher by a no_local
\* subscription (deliver, subscribe): only a will has lost its publisher.
THEOREM NothingBack == Wills = {} => (Spec => NoLocalKept)
<1> SUFFICES ASSUME Wills = {} PROVE Spec => NoLocalKept
  OBVIOUS
<1>1. ASSUME IInv, [Next]_vars, NEW c \in Clients, NEW x \in NewCopies(c), NEW f \in x.ids,
             x.by = c, Share[f] = None
      PROVE  ~subscriptions'[c][f].noLocal
  <2>1. CASE Delivered(c, x)
    <3>1. PICK m \in Message, F \in SUBSET Filters, way \in Ways :
            /\ x = CopyOf(m, c, F, way) /\ m.from = m.by
            /\ \A g \in F : Share[g] = None /\ m.from = c => ~subscriptions[c][g].noLocal
      BY <2>1 DEF Delivered
    <3>2. x.ids = F /\ x.by = m.by
      BY <3>1, CopyFields DEF CopyOf
    <3>3. subscriptions' = subscriptions
      BY <2>1 DEF Delivered
    <3> QED
      BY <1>1, <3>1, <3>2, <3>3
  <2>2. CASE ReplayedNow(c, x)
    <3>1. PICK r \in Requests, m \in Message :
            /\ r.filter \in Filters
            /\ subscriptions' = [subscriptions EXCEPT ![c][r.filter] = ItemOf(r)]
            /\ x = Copy(m, {r.filter}, {ItemOf(r)}, "replay")
            /\ Original(m) /\ ~(r.noLocal /\ m.from = c)
      BY <2>2 DEF ReplayedNow
    <3>2. x.ids = {r.filter} /\ x.by = m.by
      BY <3>1, CopyFields
    <3>3. subscriptions'[c][f] = ItemOf(r)
      <4>1. f = r.filter
        BY <1>1, <3>2
      <4>2. subscriptions \in [Clients -> [Filters -> Maybe(Items)]]
        BY <1>1 DEF IInv, TypeOK
      <4>3. subscriptions'[c] = [subscriptions[c] EXCEPT ![r.filter] = ItemOf(r)]
        BY <3>1, <4>2
      <4> QED
        BY <3>1, <4>1, <4>2, <4>3
    <3>4. m.from = c
      BY <1>1, <3>1, <3>2 DEF Original
    <3> QED
      BY <3>1, <3>3, <3>4 DEF ItemOf
  <2> QED
    BY <1>1, <2>1, <2>2, TwoSources
<1>2. IInv /\ [Next]_vars =>
        [\A c \in Clients : \A m \in NewCopies(c) : \A f \in m.ids :
           m.by = c /\ Share[f] = None => ~subscriptions'[c][f].noLocal]_vars
  BY <1>1
<1> QED
  BY <1>2, Inductive, PTL DEF Spec, NoLocalKept

-----------------------------------------------------------------------------
(* Topic aliases.                                                          *)

\* A task that is gone has dropped its aliases.
AliasInv ==
  /\ AliasOfThisConnection
  /\ \A c \in Clients : task[c] = Gone => alias[c] = NoAlias

\* Every step keeps it; only a PUBLISH that names its topic binds.
LEMMA AliasStep ==
  ASSUME IInv, AliasInv, [Next]_vars
  PROVE  AliasInv'
<1> USE DEF AliasInv, AliasOfThisConnection
<1>0. TypeOK
  BY DEF IInv
<1>1. ASSUME NEW c \in Clients, Leave(c), bound' = bound
      PROVE  AliasInv'
  BY <1>0, <1>1 DEF Leave, AliasDropped, TypeOK
<1>2. ASSUME NEW c \in Clients, NEW clean \in BOOLEAN, NEW w \in Maybe(Wills), Connect(c, clean, w)
      PROVE  AliasInv'
  <2>1. /\ task[c] = Gone /\ alias' = alias /\ bound' = [bound EXCEPT ![c] = NoAlias]
        /\ \A d \in Clients \ {c} : task'[d] = task[d]
        /\ task'[c] # Gone
    BY <1>0, <1>2 DEF Connect, TypeOK, Gone, Idle
  <2> QED
    BY <1>0, <2>1 DEF TypeOK
<1>3. ASSUME NEW c \in Clients, NEW p \in PublishPackets, HandlePublish(c, p)
      PROVE  AliasInv'
  <2>1. CASE Refused(c, p)
    BY <1>1, <1>3, <2>1 DEF HandlePublish
  <2>2. CASE ~Refused(c, p)
    <3>1. /\ alias' = IF p.alias # None THEN [alias EXCEPT ![c][p.alias] = TopicOf(c, p)] ELSE alias
          /\ bound' = IF p.alias # None /\ p.topic # NoTopic
                      THEN [bound EXCEPT ![c][p.alias] = p.topic] ELSE bound
          /\ task[c] = Idle /\ task'[c].at = "publishing"
          /\ \A d \in Clients \ {c} : task'[d] = task[d]
      BY <1>0, <1>3, <2>2 DEF HandlePublish, TypeOK
    <3>2. task[c] # Gone /\ task'[c] # Gone
      BY <3>1 DEF Gone, Idle
    <3>3. alias'[c] = bound'[c]
      <4>1. CASE p.alias = None
        BY <3>1, <3>2, <4>1
      <4>2. CASE p.alias # None /\ p.topic # NoTopic
        <5>1. TopicOf(c, p) = p.topic
          BY <4>2 DEF TopicOf
        <5>2. alias'[c] = [alias[c] EXCEPT ![p.alias] = p.topic]
              /\ bound'[c] = [bound[c] EXCEPT ![p.alias] = p.topic]
          BY <1>0, <3>1, <4>2, <5>1 DEF TypeOK
        <5> QED
          BY <3>2, <5>2
      <4>3. CASE p.alias # None /\ p.topic = NoTopic
        <5>1. p.alias \in 1..MaxTopicAlias
          BY <2>2, <4>3 DEF Refused
        <5>2. TopicOf(c, p) = alias[c][p.alias]
          BY <4>3, <5>1 DEF TopicOf
        <5>3. alias'[c] = [alias[c] EXCEPT ![p.alias] = alias[c][p.alias]]
          BY <1>0, <3>1, <4>3, <5>2 DEF TypeOK
        <5>4. alias'[c] = alias[c]
          BY <1>0, <5>3 DEF TypeOK
        <5> QED
          BY <3>1, <3>2, <4>3, <5>4
      <4> QED
        BY <4>1, <4>2, <4>3
    <3>4. \A d \in Clients \ {c} : alias'[d] = alias[d] /\ bound'[d] = bound[d]
      BY <1>0, <3>1 DEF TypeOK
    <3> QED
      BY <3>1, <3>2, <3>3, <3>4
  <2> QED
    BY <2>1, <2>2
<1>4. ASSUME NEW c \in Clients, UNCHANGED <<alias, bound>>, task[c] # Gone, task'[c] # Gone,
             \A d \in Clients \ {c} : task'[d] = task[d]
      PROVE  AliasInv'
  BY <1>4
<1>5. CASE \E c \in Clients : ConnectionLost(c)
  BY <1>1, <1>5 DEF ConnectionLost, modelVars
<1>6. ASSUME NEW c \in Clients,
             ProxySubscribe(c) \/ SubscribeFilter(c) \/ SendSubAck(c) \/ DoPublish(c)
      PROVE  AliasInv'
  <2>1. CASE Leave(c)
    BY <1>1, <1>6, <2>1 DEF ProxySubscribe, SubscribeFilter, SendSubAck, DoPublish
  <2>2. CASE ~Leave(c)
    <3>1. UNCHANGED <<alias, bound>> /\ task[c].at \in {"proxying", "subscribing", "publishing"}
      BY <1>6, <2>2 DEF ProxySubscribe, SubscribeFilter, SendSubAck, DoPublish
    <3>2. task'[c].at \in {"proxying", "subscribing", "idle"}
      <4>1. task[c] \in Task /\ task \in [Clients -> Task]
        BY <1>0 DEF TypeOK
      <4>2. task[c].at \in {"proxying", "subscribing"} =>
              task[c] \in [at : {"subscribing", "proxying"}, left : Seq(Requests),
                          codes : [Filters -> Maybe(0..2)]]
        BY <1>0, TaskCases
      <4>3. CASE ProxySubscribe(c)
        BY <4>1, <4>2, <4>3 DEF ProxySubscribe, Idle
      <4>4. CASE SubscribeFilter(c)
        <5> DEFINE r == Head(task[c].left)
                   rest == [task[c] EXCEPT !.left = Tail(@)]
        <5>1. \/ task' = [task EXCEPT ![c] = [rest EXCEPT !.codes[r.filter] = Lower(r.qos, MaximumQos)]]
              \/ task' = [task EXCEPT ![c] = rest]
          BY <2>2, <4>4 DEF SubscribeFilter
        <5>2. rest.at = task[c].at /\ [rest EXCEPT !.codes[r.filter] = Lower(r.qos, MaximumQos)].at = rest.at
          BY <3>1, <4>2, <4>4 DEF SubscribeFilter
        <5> HIDE DEF rest, r
        <5>3. task[c].at = "subscribing"
          BY <4>4 DEF SubscribeFilter
        <5> QED
          BY <4>1, <5>1, <5>2, <5>3
      <4>5. CASE SendSubAck(c)
        BY <4>1, <4>5 DEF SendSubAck, Idle
      <4>6. CASE DoPublish(c)
        BY <2>2, <4>1, <4>6 DEF DoPublish, Idle
      <4> QED
        BY <1>6, <4>3, <4>4, <4>5, <4>6
    <3>3. \A d \in Clients \ {c} : task'[d] = task[d]
      BY <1>0, <1>6, <2>2 DEF ProxySubscribe, SubscribeFilter, SendSubAck, DoPublish, TypeOK
    <3> QED
      BY <1>4, <3>1, <3>2, <3>3 DEF Gone
  <2> QED
    BY <2>1, <2>2
<1>7. ASSUME NEW c \in Clients, NEW rs \in SubscribePackets, HandleSubscribe(c, rs)
      PROVE  AliasInv'
  BY <1>0, <1>4, <1>7 DEF HandleSubscribe, TypeOK, Gone, Idle
<1>8. CASE \/ UNCHANGED vars \/ Tick
           \/ \E c \in Clients : HandlePubRel(c) \/ HandleNotified(c) \/ SendLastWill(c)
           \/ \E c \in Clients, f \in Filters : HandleUnsubscribe(c, f)
  <2>1. UNCHANGED <<alias, bound, task>>
    BY <1>8 DEF vars, storageVars, connVars, modelVars, Tick, HandlePubRel, HandleNotified,
                SendLastWill, HandleUnsubscribe
  <2> QED
    BY <2>1
<1> QED
  BY <1>2, <1>3, <1>5, <1>6, <1>7, <1>8 DEF Next

\* An alias means what the client itself bound it to on this connection, for
\* every Topic Alias Maximum (handle_publish and the fields of Connection).
THEOREM AliasesOfOneConnection == Spec => []AliasOfThisConnection
<1>1. Init => AliasInv
  BY DEF Init, AliasInv, AliasOfThisConnection
<1>2. IInv /\ AliasInv /\ [Next]_vars => AliasInv'
  BY AliasStep
<1>3. AliasInv => AliasOfThisConnection
  BY DEF AliasInv
<1> QED
  BY <1>1, <1>2, <1>3, Inductive, PTL DEF Spec

-----------------------------------------------------------------------------
(* The table of subscriptions and retained messages.                       *)

Subscribed == {s \in Filters \X Clients : subscriptions[s[2]][s[1]] # None}
RetainedNumbers == [t \in Topics |-> IF retained[t] = None THEN None ELSE retained[t].n]

\* Storing an item adds a pair, taking it away removes one.
LEMMA OneItem ==
  ASSUME TypeOK, NEW c \in Clients, NEW f \in Filters, NEW v,
         subscriptions' = [subscriptions EXCEPT ![c][f] = v]
  PROVE  /\ v # None => Subscribed' = Subscribed \union {<<f, c>>}
         /\ v = None => Subscribed' = Subscribed \ {<<f, c>>}
<1>1. ASSUME NEW g \in Filters, NEW d \in Clients
      PROVE subscriptions'[d][g] = IF g = f /\ d = c THEN v ELSE subscriptions[d][g]
  BY DEF TypeOK
<1>2. \A s \in Filters \X Clients :
        s = <<f, c>> <=> s[1] = f /\ s[2] = c
  OBVIOUS
<1>3. \A s \in Filters \X Clients :
        subscriptions'[s[2]][s[1]] = IF s = <<f, c>> THEN v ELSE subscriptions[s[2]][s[1]]
  BY <1>1, <1>2
<1> QED
  BY <1>3 DEF Subscribed

\* Storage::subscribe is the table's.
LEMMA StoreSubscribes ==
  ASSUME TypeOK, NEW c \in Clients, NEW r \in Requests, r.filter \in Filters, Store(c, r),
         retained' = retained
  PROVE  Table!Subscribe(r.filter, c)
<1>1. ItemOf(r) # None
  BY RouterAssumption DEF RouterAssumption, ItemOf, Items, Requests
<1>2. Subscribed' = Subscribed \union {<<r.filter, c>>}
  BY <1>1, OneItem DEF Store
<1> QED
  BY <1>2 DEF Table!Subscribe, Subscribed

\* Every step is one of the table or leaves it alone.
LEMMA TableStep ==
  ASSUME IInv, [Next]_vars
  PROVE  [Table!Next]_(Table!vars)
<1>0. TypeOK
  BY DEF IInv
<1> USE DEF Table!Next
<1>1. ASSUME NEW c \in Clients, NEW clean \in BOOLEAN, NEW w \in Maybe(Wills), Connect(c, clean, w)
      PROVE  [Table!Next]_(Table!vars)
  <2>1. CASE subscriptions' = subscriptions
    BY <1>1, <2>1 DEF Connect, Table!vars
  <2>2. CASE subscriptions' = [subscriptions EXCEPT ![c] = NoItems]
    <3>1. \A s \in Filters \X Clients :
            subscriptions'[s[2]][s[1]] = IF s[2] = c THEN None ELSE subscriptions[s[2]][s[1]]
      BY <1>0, <2>2 DEF TypeOK, NoItems
    <3>2. Subscribed' = {s \in Subscribed : s[2] # c}
      BY <3>1 DEF Subscribed
    <3>3. Table!UnsubscribeAll(c)
      BY <1>1, <3>2 DEF Table!UnsubscribeAll, Subscribed, Connect
    <3> QED
      BY <3>3
  <2> QED
    BY <1>1, <2>1, <2>2 DEF Connect
<1>2. ASSUME NEW c \in Clients, ProxySubscribe(c)
      PROVE  [Table!Next]_(Table!vars)
  <2>1. CASE subscriptions' = subscriptions
    BY <1>2, <2>1 DEF ProxySubscribe, Table!vars
  <2>2. CASE subscriptions' # subscriptions
    <3> DEFINE left == task[c].left
    <3>1. left \in Seq(Requests)
      BY <1>0, <1>2, TaskCases DEF ProxySubscribe
    <3>2. left # <<>> /\ Store(c, Head(left)) /\ Head(left).filter \notin InvalidFilters
          /\ retained' = retained
      BY <1>2, <2>2 DEF ProxySubscribe
    <3> HIDE DEF left
    <3>3. Head(left) \in Requests
      BY <3>1, <3>2
    <3>4. Head(left).filter \in Filters
      BY <3>2, <3>3 DEF Requests
    <3> QED
      BY <1>0, <3>2, <3>3, <3>4, StoreSubscribes
  <2> QED
    BY <2>1, <2>2
<1>3. ASSUME NEW c \in Clients, SubscribeFilter(c)
      PROVE  [Table!Next]_(Table!vars)
  <2>1. CASE subscriptions' = subscriptions
    BY <1>3, <2>1 DEF SubscribeFilter, Table!vars
  <2>2. CASE subscriptions' # subscriptions
    <3> DEFINE left == task[c].left
    <3>1. left \in Seq(Requests)
      BY <1>0, <1>3, TaskCases DEF SubscribeFilter
    <3>2. left # <<>> /\ Store(c, Head(left)) /\ Accepted(Head(left)) /\ retained' = retained
      BY <1>3, <2>2 DEF SubscribeFilter
    <3> HIDE DEF left
    <3>3. Head(left) \in Requests
      BY <3>1, <3>2
    <3>4. Head(left).filter \in Filters
      BY <3>2, <3>3 DEF Requests, Accepted
    <3> QED
      BY <1>0, <3>2, <3>3, <3>4, StoreSubscribes
  <2> QED
    BY <2>1, <2>2
<1>4. ASSUME NEW c \in Clients, NEW f \in Filters, HandleUnsubscribe(c, f)
      PROVE  [Table!Next]_(Table!vars)
  <2>1. Subscribed' = Subscribed \ {<<f, c>>}
    BY <1>0, <1>4, OneItem DEF HandleUnsubscribe, Unsubscribed
  <2>2. Table!Unsubscribe(f, c)
    BY <1>4, <2>1 DEF Table!Unsubscribe, Subscribed, HandleUnsubscribe
  <2> QED
    BY <2>2
<1>5. ASSUME NEW c \in Clients, NEW p \in PublishPackets, HandlePublish(c, p)
      PROVE  [Table!Next]_(Table!vars)
  <2>1. CASE retained' = retained
    BY <1>5, <2>1 DEF HandlePublish, Table!vars
  <2>2. CASE retained' # retained
    <3>1. IInv'
      BY <1>5, HandlePublishKeeps
    <3>2. PICK m : retained' = Retained(m)
      BY <1>5, <2>2 DEF HandlePublish
    <3>3. m.topic \in Topics
      BY <1>0, <2>2, <3>2 DEF Retained, TypeOK
    <3> DEFINE new == RetainedNumbers'[m.topic]
    <3>4. \A t \in Topics \ {m.topic} : retained'[t] = retained[t]
      BY <1>0, <3>2, <3>3 DEF Retained, TypeOK
    <3>5. RetainedNumbers' = [RetainedNumbers EXCEPT ![m.topic] = new]
      BY <3>3, <3>4 DEF RetainedNumbers
    <3>6. new \in Messages \union {None}
      <4>1. retained'[m.topic] \in Maybe(Message)
        BY <3>1, <3>3 DEF IInv, TypeOK
      <4> QED
        BY <3>3, <4>1 DEF RetainedNumbers, Maybe, Message
    <3>7. subscriptions' = subscriptions
      BY <1>5 DEF HandlePublish
    <3> HIDE DEF new
    <3>8. PICK x \in Messages \union {None} : RetainedNumbers' = [RetainedNumbers EXCEPT ![m.topic] = x]
      BY <3>5, <3>6
    <3>9. Table!SetRetained(m.topic, x)
      BY <3>7, <3>8 DEF Table!SetRetained, RetainedNumbers
    <3>10. \E t \in Topics : Table!SetRetained(t, x)
      BY <3>3, <3>9
    <3> QED
      BY <3>10
  <2> QED
    BY <2>1, <2>2
<1>6. CASE \/ UNCHANGED vars \/ Tick
           \/ \E c \in Clients : \/ SendSubAck(c) \/ DoPublish(c) \/ HandlePubRel(c)
                                \/ HandleNotified(c) \/ ConnectionLost(c) \/ SendLastWill(c)
           \/ \E c \in Clients, rs \in SubscribePackets : HandleSubscribe(c, rs)
  <2>1. UNCHANGED <<subscriptions, retained>>
    BY <1>6 DEF vars, storageVars, Tick, SendSubAck, DoPublish, HandlePubRel, HandleNotified,
                ConnectionLost, SendLastWill, HandleSubscribe
  <2> QED
    BY <2>1 DEF Table!vars
<1> QED
  BY <1>1, <1>2, <1>3, <1>4, <1>5, <1>6 DEF Next

\* Storage uses its tries through the four operations of TopicTable, one in a
\* step: what is proved of TopicTrie against that table is what the router
\* relies on (subscribe, unsubscribe, create_session, update_retained_message).
THEOREM RouterUsesTable == Spec => UsesTopicTable
<1>1. Init => Table!Init
  <2> SUFFICES ASSUME Init PROVE Table!Init
    OBVIOUS
  <2>1. \A s \in Filters \X Clients : subscriptions[s[2]][s[1]] = None
    BY DEF Init, NoItems
  <2> QED
    BY <2>1 DEF Init, Table!Init
<1>2. IInv /\ [Next]_vars => [Table!Next]_(Table!vars)
  BY TableStep
<1> QED
  BY <1>1, <1>2, Inductive, PTL DEF Spec, UsesTopicTable, Table!Spec
===============================================================================
