-------------------------------- MODULE Router --------------------------------
(***************************************************************************)
(* Who gets which message: SUBSCRIBE and UNSUBSCRIBE, the way of a PUBLISH *)
(* from its validation through the retained messages to the queues of the  *)
(* subscribers, and the expiry of messages on that way.                    *)
(*                                                                         *)
(* Storage's methods run under its lock and are one step each.  Handlers   *)
(* await plugins between them, so that the tasks of several connections    *)
(* interleave there: between the retained message and the delivery of a    *)
(* PUBLISH, and between the filters of a SUBSCRIBE.  Which filters cover a *)
(* topic is given; TopicTrie is the structure that finds them.             *)
(***************************************************************************)
EXTENDS Integers, Sequences, FiniteSets

CONSTANTS
  Clients,
  Filters,          \* filters that parse_filter accepts
  InvalidFilters,   \* filters that it does not
  WildcardFilters,  \* filters with + or #
  Share,            \* Share[f]: the share name of f, None if it has none
  Topics,
  Covering,         \* Covering[t]: the filters that match topic t
  InvalidTopics,    \* topics that begin with $ or hold a wildcard
  SubscribePackets, \* the SUBSCRIBE packets clients send, sequences of Requests
  PublishPackets,   \* the PUBLISH packets clients send
  Wills,            \* the last wills clients have
  Proxies,          \* ServiceConfig.subscriptions
  Rewrite,          \* Rewrite[t]: what ServiceState::rewrite makes of topic t
  MaximumQos, WildcardAvailable, RetainAvailable, MaxTopicAlias, \* ServiceConfig
  Denied,           \* filters and topics that a plugin's check_acl denies
  MaxMessages,      \* bound on the messages published
  MaxSubscribes,    \* bound on the SUBSCRIBE packets sent
  MaxTime,          \* bound on the clock
  MaxConnects,      \* bound on the connections made
  None

Requests ==
  [filter : Filters \union InvalidFilters, qos : 0..2, noLocal : BOOLEAN,
   retainAsPublished : BOOLEAN, retainHandling : {"every", "new", "never"}]
Items == [qos : 0..2, noLocal : BOOLEAN, retainAsPublished : BOOLEAN,
          retainHandling : {"every", "new", "never"}]
NoTopic == "" \* a PUBLISH that leaves its topic to the alias
Publish(Names) ==
  [topic : Names, alias : Nat \union {None}, qos : 0..2, retain : BOOLEAN, empty : BOOLEAN,
   interval : Nat \union {None}]

ASSUME RouterAssumption ==
  /\ Filters \intersect InvalidFilters = {}
  /\ Share \in [Filters -> STRING \union {None}]
  /\ IsFiniteSet(Filters) /\ IsFiniteSet(Topics)
  /\ Covering \in [Topics -> SUBSET Filters]
  /\ Rewrite \in [Topics -> Topics]
  /\ NoTopic \notin Topics
  /\ SubscribePackets \subseteq Seq(Requests)
  /\ PublishPackets \subseteq Publish(Topics \union {NoTopic} \union InvalidTopics \union Denied)
  /\ Wills \subseteq Publish(Topics)
  /\ Proxies \in Seq(Requests)
  /\ MaximumQos \in 0..2
  /\ \A n \in {MaxMessages, MaxSubscribes, MaxTime, MaxConnects, MaxTopicAlias} : n \in Nat
  /\ None \notin Nat \union Items

VARIABLES
  \* Storage
  session,       \* session[c]: StorageInner.sessions has one of client c
  subscriptions, \* subscriptions[c][f]: FilterItem of client c at filter f
  retained,      \* retained[t]: the retained message of topic t
  queue,         \* queue[c]: Session.queue
  lastWill,      \* lastWill[c]: Session.last_will
  \* connections
  task,          \* task[c]: what the connection of client c is doing
  alias,         \* alias[c]: Connection.topic_alias
  held,          \* held[c]: the message in uncompleted_messages
  wire,          \* wire[c]: when the last PUBLISH to client c with an expiry interval
                 \* was sent, the interval in it, and the end of the one it came with
  now,           \* SystemTime::now
  \* bookkeeping of the model
  bound,         \* bound[c][a]: topic client c last sent with alias a on this connection
  granted,       \* granted[c][f]: QoS in the last SUBACK, None without one
  copies,        \* copies[c][n][w]: copies of message n queued for c by way w
  published, subscribes, connects

storageVars == <<session, subscriptions, retained, queue, lastWill>>
connVars    == <<task, alias, held, wire>>
modelVars   == <<bound, granted, copies, published, subscribes, connects>>
vars == <<storageVars, connVars, now, modelVars>>

-----------------------------------------------------------------------------
Ways == {"direct", "shared", "replay"}
Messages == 1..MaxMessages
Maybe(S) == S \union {None}

\* message n of client from; empty: without payload; created: created_at;
\* ids: the filters whose subscription identifiers go out with it.  For the
\* properties: by, who published it; as, at which QoS; due, when it expires as
\* published; way, how it was queued.
Message ==
  [n : Messages, from : Maybe(Clients), topic : Topics, qos : 0..2, retain : BOOLEAN,
   empty : BOOLEAN, interval : Maybe(Nat), created : 0..MaxTime, ids : SUBSET Filters,
   by : Clients, as : 0..2, due : Maybe(Nat), way : Maybe(Ways)]

Task ==
  [at : {"gone", "idle"}]
    \union [at : {"publishing"}, msg : Message]
    \union [at : {"subscribing", "proxying"}, left : Seq(Requests), codes : [Filters -> Maybe(0..2)]]
Gone == [at |-> "gone"]
Idle == [at |-> "idle"]

TypeOK ==
  /\ session \in [Clients -> BOOLEAN]
  /\ subscriptions \in [Clients -> [Filters -> Maybe(Items)]]
  /\ retained \in [Topics -> Maybe(Message)]
  /\ queue \in [Clients -> Seq(Message)]
  /\ lastWill \in [Clients -> Maybe(Wills)]
  /\ task \in [Clients -> Task]
  /\ alias \in [Clients -> [1..MaxTopicAlias -> Maybe(Topics)]]
  /\ held \in [Clients -> Maybe(Message)]
  /\ wire \in [Clients -> Maybe([at : 0..MaxTime, interval : Nat, due : Nat])]
  /\ now \in 0..MaxTime
  /\ bound \in [Clients -> [1..MaxTopicAlias -> Maybe(Topics)]]
  /\ granted \in [Clients -> [Filters -> Maybe(0..2)]]
  /\ copies \in [Clients -> [Messages -> [Ways -> Nat]]]
  /\ published \in 0..MaxMessages /\ subscribes \in 0..MaxSubscribes
  /\ connects \in 0..MaxConnects

NoItems == [f \in Filters |-> None]
NoAlias == [a \in 1..MaxTopicAlias |-> None]
NoCopies == [n \in Messages |-> [w \in Ways |-> 0]]

Init ==
  /\ session = [c \in Clients |-> FALSE]
  /\ subscriptions = [c \in Clients |-> NoItems]
  /\ retained = [t \in Topics |-> None]
  /\ queue = [c \in Clients |-> <<>>]
  /\ lastWill = [c \in Clients |-> None]
  /\ task = [c \in Clients |-> Gone]
  /\ alias = [c \in Clients |-> NoAlias]
  /\ held = [c \in Clients |-> None] /\ wire = [c \in Clients |-> None]
  /\ now = 0
  /\ bound = [c \in Clients |-> NoAlias]
  /\ granted = [c \in Clients |-> NoItems]
  /\ copies = [c \in Clients |-> NoCopies]
  /\ published = 0 /\ subscribes = 0 /\ connects = 0

-----------------------------------------------------------------------------
(* Messages and queues.                                                    *)

\* Definitions whose name begins with Bug are faults seeded to show that the
\* properties below notice them; no other definition uses them.

\* The fields of Connection go with it.
BugAliasKept(c) == alias
AliasDropped(c) == [alias EXCEPT ![c] = NoAlias]

Leave(c) ==
  /\ task' = [task EXCEPT ![c] = Gone]
  /\ alias' = AliasDropped(c)
  /\ held' = [held EXCEPT ![c] = None]
  /\ wire' = [wire EXCEPT ![c] = None]

BugNeverExpired(m) == FALSE
IsExpired(m) == m.interval # None /\ m.created + m.interval <= now

\* Session.add_message: one copy for all of the items, made anew.  It forgets
\* who published the message, and its time begins again.
BugFirstQos(items) == (CHOOSE i \in items : TRUE).qos
LargestQos(items) == (CHOOSE i \in items : \A j \in items : j.qos <= i.qos).qos

Lower(a, b) == IF a < b THEN a ELSE b

Copy(m, F, items, way) ==
  [m EXCEPT !.from = None, !.created = now, !.ids = F, !.way = way,
            !.qos = Lower(m.qos, LargestQos(items)),
            !.retain = m.retain /\ \A i \in items : i.retainAsPublished]

\* Subscriptions of client c that match topic t.
Matching(c, t) == {f \in Covering[t] : subscriptions[c][f] # None}

BugEchoed(m, c) == {f \in Matching(c, m.topic) : Share[f] = None}
Direct(m, c) ==
  {f \in Matching(c, m.topic) :
     Share[f] = None /\ ~(subscriptions[c][f].noLocal /\ m.from = c)}

\* The clients that share name s could send message m to, and the names that
\* have some.
Group(m, s) == {c \in Clients : \E f \in Matching(c, m.topic) : Share[f] = s}
Groups(m) == {s \in {Share[f] : f \in Covering[m.topic]} : s # None /\ Group(m, s) # {}}

\* pick[s]: the client drawn for share name s.
BugWholeGroup(m, c, pick) == {f \in Matching(c, m.topic) : Share[f] # None}
Shared(m, c, pick) == {f \in Matching(c, m.topic) : Share[f] # None /\ pick[Share[f]] = c}

\* At most one copy from each of the two walks over the tree.
CopyOf(m, c, F, way) == Copy(m, F, {subscriptions[c][f] : f \in F}, way)
CopyFor(m, c, F, way) == IF F = {} THEN <<>> ELSE <<CopyOf(m, c, F, way)>>

\* new[c] is appended to the queue of client c.
Enqueue(new) ==
  /\ queue' = [c \in Clients |-> queue[c] \o new[c]]
  /\ copies' = [c \in Clients |-> [n \in Messages |-> [w \in Ways |->
        copies[c][n][w] + Cardinality({i \in DOMAIN new[c] : new[c][i].n = n /\ new[c][i].way = w})]]]

\* StorageInner::deliver
Deliver(m) ==
  \/ /\ IsExpired(m)
     /\ UNCHANGED <<queue, copies>>
  \/ /\ ~IsExpired(m)
     /\ \E pick \in [Groups(m) -> Clients] :
          /\ \A s \in Groups(m) : pick[s] \in Group(m, s)
          /\ Enqueue([c \in Clients |->
               CopyFor(m, c, Direct(m, c), "direct") \o CopyFor(m, c, Shared(m, c, pick), "shared")])

-----------------------------------------------------------------------------
(* PUBLISH.                                                                *)

\* The topic of a PUBLISH, by its alias if it has none.
TopicOf(c, p) ==
  IF p.topic # NoTopic THEN p.topic
  ELSE IF p.alias \in 1..MaxTopicAlias THEN alias[c][p.alias]
  ELSE None

\* What handle_publish throws a client out for.
Refused(c, p) ==
  \/ p.alias # None /\ p.alias \notin 1..MaxTopicAlias
  \/ TopicOf(c, p) \in {None} \union InvalidTopics \union Denied
  \/ p.retain /\ ~RetainAvailable

NewMessage(n, c, p, topic) ==
  [n |-> n, from |-> c, topic |-> topic, qos |-> p.qos, retain |-> p.retain,
   empty |-> p.empty, interval |-> p.interval, created |-> now, ids |-> {},
   by |-> c, as |-> p.qos, way |-> None,
   due |-> IF p.interval = None THEN None ELSE now + p.interval]

\* update_retained_message: an empty message deletes.
Retained(m) == [retained EXCEPT ![m.topic] = IF m.empty THEN None ELSE m]

HandlePublish(c, p) ==
  /\ task[c] = Idle
  /\ published < MaxMessages
  /\ \/ /\ Refused(c, p)
        /\ Leave(c)
        /\ UNCHANGED <<retained, published, bound>>
     \/ /\ ~Refused(c, p)
        /\ alias' = IF p.alias # None
                    THEN [alias EXCEPT ![c][p.alias] = TopicOf(c, p)] ELSE alias
        /\ LET m == NewMessage(published + 1, c, p, Rewrite[TopicOf(c, p)]) IN
             /\ retained' = IF m.retain THEN Retained(m) ELSE retained
             /\ task' = [task EXCEPT ![c] = [at |-> "publishing", msg |-> m]]
        /\ bound' = IF p.alias # None /\ p.topic # NoTopic
                    THEN [bound EXCEPT ![c][p.alias] = p.topic] ELSE bound
        /\ published' = published + 1
        /\ UNCHANGED <<held, wire>>
  /\ UNCHANGED <<session, subscriptions, queue, lastWill, now, granted, copies,
                 subscribes, connects>>

\* After the plugins' on_message_publish.  The receive quota is one message:
\* InboundFlow has the exchange in full.
DoPublish(c) ==
  /\ task[c].at = "publishing"
  /\ LET m == task[c].msg IN
     \/ /\ m.qos < 2
        /\ Deliver(m)
        /\ task' = [task EXCEPT ![c] = Idle]
        /\ UNCHANGED <<alias, held, wire>>
     \/ /\ m.qos = 2 /\ held[c] = None
        /\ held' = [held EXCEPT ![c] = m]
        /\ task' = [task EXCEPT ![c] = Idle]
        /\ UNCHANGED <<queue, copies, alias, wire>>
     \/ /\ m.qos = 2 /\ held[c] # None
        /\ Leave(c)
        /\ UNCHANGED <<queue, copies>>
  /\ UNCHANGED <<session, subscriptions, retained, lastWill, now, bound, granted, published,
                 subscribes, connects>>

\* handle_pub_rel
HandlePubRel(c) ==
  /\ task[c] = Idle /\ held[c] # None
  /\ Deliver(held[c])
  /\ held' = [held EXCEPT ![c] = None]
  /\ UNCHANGED <<session, subscriptions, retained, lastWill, task, alias, wire, now, bound, granted,
                 published, subscribes, connects>>

\* The timer publishes the will of a client that is gone: a message of nobody.
\* Its retain flag goes with it, but the message is not retained.
SendLastWill(c) ==
  /\ task[c] = Gone /\ lastWill[c] # None
  /\ published < MaxMessages
  /\ Deliver([NewMessage(published + 1, c, lastWill[c], lastWill[c].topic) EXCEPT !.from = None])
  /\ lastWill' = [lastWill EXCEPT ![c] = None]
  /\ published' = published + 1
  /\ UNCHANGED <<session, subscriptions, retained, connVars, now, bound, granted, subscribes, connects>>

-----------------------------------------------------------------------------
(* SUBSCRIBE and UNSUBSCRIBE.                                              *)

ItemOf(r) == [qos |-> r.qos, noLocal |-> r.noLocal, retainAsPublished |-> r.retainAsPublished,
              retainHandling |-> r.retainHandling]

\* The retained messages a subscription is sent.
BugOnlyNew(c, r) == subscriptions[c][r.filter] = None /\ r.retainHandling = "new"
PublishRetain(c, r) ==
  \/ r.retainHandling = "every"
  \/ r.retainHandling = "new" /\ subscriptions[c][r.filter] = None

Replayed(c, r) ==
  {t \in Topics :
     /\ Share[r.filter] = None /\ PublishRetain(c, r)
     /\ r.filter \in Covering[t] /\ retained[t] # None
     /\ ~IsExpired(retained[t])
     /\ ~(r.noLocal /\ retained[t].from = c)}

\* Storage::subscribe
Store(c, r) ==
  /\ subscriptions' = [subscriptions EXCEPT ![c][r.filter] = ItemOf(r)]
  /\ \E order \in [1..Cardinality(Replayed(c, r)) -> Replayed(c, r)] :
       /\ \A t \in Replayed(c, r) : \E i \in DOMAIN order : order[i] = t
       /\ Enqueue([d \in Clients |->
            IF d # c THEN <<>>
            ELSE [i \in DOMAIN order |->
                    Copy(retained[order[i]], {r.filter}, {ItemOf(r)}, "replay")]])

HandleSubscribe(c, rs) ==
  /\ task[c] = Idle
  /\ subscribes < MaxSubscribes
  /\ subscribes' = subscribes + 1
  /\ task' = [task EXCEPT ![c] = [at |-> "subscribing", left |-> rs, codes |-> NoItems]]
  /\ UNCHANGED <<storageVars, alias, held, wire, now, bound, granted, copies, published, connects>>

\* One filter of a SUBSCRIBE, after the plugins' check_acl.
ThrowsOut(r) ==
  /\ r.filter \notin InvalidFilters
  /\ \/ Share[r.filter] # None /\ r.noLocal
     \/ r.filter \in Denied /\ (WildcardAvailable \/ r.filter \notin WildcardFilters)
Accepted(r) ==
  /\ r.filter \notin InvalidFilters /\ ~ThrowsOut(r)
  /\ WildcardAvailable \/ r.filter \notin WildcardFilters

SubscribeFilter(c) ==
  /\ task[c].at = "subscribing" /\ task[c].left # <<>>
  /\ LET r == Head(task[c].left)
         rest == [task[c] EXCEPT !.left = Tail(@)]
     IN
     \/ /\ ThrowsOut(r)
        /\ Leave(c)
        /\ UNCHANGED <<subscriptions, queue, copies>>
     \/ /\ Accepted(r)
        /\ Store(c, r)
        /\ task' = [task EXCEPT ![c] =
             [rest EXCEPT !.codes[r.filter] = Lower(r.qos, MaximumQos)]]
        /\ UNCHANGED <<alias, held, wire>>
     \/ /\ ~ThrowsOut(r) /\ ~Accepted(r)
        /\ task' = [task EXCEPT ![c] = rest]
        /\ UNCHANGED <<subscriptions, queue, copies, alias, held, wire>>
  /\ UNCHANGED <<session, retained, lastWill, now, bound, granted, published, subscribes, connects>>

SendSubAck(c) ==
  /\ task[c].at = "subscribing" /\ task[c].left = <<>>
  /\ LET codes == task[c].codes
     IN granted' = [granted EXCEPT ![c] =
          [f \in Filters |-> IF codes[f] # None THEN codes[f] ELSE granted[c][f]]]
  /\ task' = [task EXCEPT ![c] = Idle]
  /\ UNCHANGED <<storageVars, alias, held, wire, now, bound, copies, published, subscribes, connects>>

\* UNSUBSCRIBE of one filter, with its UNSUBACK.
BugNodeRemoved(c, f) == [d \in Clients |-> [subscriptions[d] EXCEPT ![f] = None]]
Unsubscribed(c, f) == [subscriptions EXCEPT ![c][f] = None]

HandleUnsubscribe(c, f) ==
  /\ task[c] = Idle
  /\ subscriptions' = Unsubscribed(c, f)
  /\ granted' = [granted EXCEPT ![c][f] = None]
  /\ UNCHANGED <<session, retained, queue, lastWill, connVars, now, bound, copies, published, subscribes, connects>>

-----------------------------------------------------------------------------
(* Connections.                                                            *)

\* create_session: with Clean Start an old session goes, its subscriptions too.
Connect(c, cleanStart, will) ==
  /\ task[c] = Gone
  /\ connects < MaxConnects
  /\ connects' = connects + 1
  /\ session' = [session EXCEPT ![c] = TRUE]
  /\ lastWill' = [lastWill EXCEPT ![c] = will]
  /\ bound' = [bound EXCEPT ![c] = NoAlias]
  /\ \/ /\ session[c] /\ ~cleanStart
        /\ task' = [task EXCEPT ![c] = Idle]
        /\ UNCHANGED <<subscriptions, queue, granted, copies>>
     \/ /\ ~session[c] \/ cleanStart
        /\ subscriptions' = [subscriptions EXCEPT ![c] = NoItems]
        /\ queue' = [queue EXCEPT ![c] = <<>>]
        /\ granted' = [granted EXCEPT ![c] = NoItems]
        /\ copies' = [copies EXCEPT ![c] = NoCopies]
        /\ task' = [task EXCEPT ![c] = [at |-> "proxying", left |-> Proxies, codes |-> NoItems]]
  /\ UNCHANGED <<retained, alias, held, wire, now, published, subscribes>>

\* The configured subscriptions of a new session: no check applies to them.
ProxySubscribe(c) ==
  /\ task[c].at = "proxying"
  /\ \/ /\ task[c].left = <<>>
        /\ task' = [task EXCEPT ![c] = Idle]
        /\ UNCHANGED <<subscriptions, queue, copies>>
     \/ /\ task[c].left # <<>>
        /\ IF Head(task[c].left).filter \in InvalidFilters
           THEN UNCHANGED <<subscriptions, queue, copies>>
           ELSE Store(c, Head(task[c].left))
        /\ task' = [task EXCEPT ![c].left = Tail(@)]
  /\ UNCHANGED <<session, retained, lastWill, alias, held, wire, now, bound, granted, published,
                 subscribes, connects>>

\* The select! loop ends between two handlers.
ConnectionLost(c) ==
  /\ task[c] = Idle
  /\ Leave(c)
  /\ UNCHANGED <<storageVars, now, modelVars>>

\* handle_notified, which leaves out what is_expired, and delive for the message
\* at the front of the queue; its interval becomes what is left of it.
HandleNotified(c) ==
  /\ task[c] = Idle /\ queue[c] # <<>>
  /\ LET m == Head(queue[c])
         left == m.created + m.interval - now
     IN wire' = [wire EXCEPT ![c] = IF IsExpired(m) THEN @
                                    ELSE IF m.interval = None THEN None
                                    ELSE [at |-> now, interval |-> left, due |-> m.due]]
  /\ queue' = [queue EXCEPT ![c] = Tail(@)]
  /\ UNCHANGED <<session, subscriptions, retained, lastWill, task, alias, held, now, modelVars>>

Tick ==
  /\ now < MaxTime
  /\ now' = now + 1
  /\ UNCHANGED <<storageVars, connVars, modelVars>>

-----------------------------------------------------------------------------
Next ==
  \/ \E c \in Clients, clean \in BOOLEAN, w \in Maybe(Wills) : Connect(c, clean, w)
  \/ \E c \in Clients :
       ProxySubscribe(c) \/ SubscribeFilter(c) \/ SendSubAck(c) \/ DoPublish(c)
         \/ HandlePubRel(c) \/ HandleNotified(c) \/ ConnectionLost(c)
         \/ SendLastWill(c)
  \/ \E c \in Clients, p \in PublishPackets : HandlePublish(c, p)
  \/ \E c \in Clients, rs \in SubscribePackets : HandleSubscribe(c, rs)
  \/ \E c \in Clients, f \in Filters : HandleUnsubscribe(c, f)
  \/ Tick

Spec == Init /\ [][Next]_vars

-----------------------------------------------------------------------------
(* Properties.                                                             *)

\* A subscriber is never behind the retained message: whatever order a
\* PUBLISH with retain and a SUBSCRIBE come in, the message is either replayed
\* or delivered, because it is retained before it is delivered
\* (update_retained_message, deliver, subscribe).  A QoS 2 message is retained
\* at PUBLISH and may never be released.
Pending(m) ==
  \E d \in Clients : task[d].at = "publishing" /\ task[d].msg.n = m.n
Wants(c, t) ==
  \E f \in Covering[t] :
    /\ Share[f] = None /\ subscriptions[c][f] # None
    /\ subscriptions[c][f].retainHandling # "never"
    /\ ~(subscriptions[c][f].noLocal /\ retained[t].by = c)
SubscribersUpToDate ==
  \A c \in Clients, t \in Topics :
    /\ retained[t] # None /\ retained[t].as < 2
    /\ ~IsExpired(retained[t]) /\ ~Pending(retained[t])
    /\ Wants(c, t)
    => \E w \in {"direct", "replay"} : copies[c][retained[t].n][w] > 0

\* The aliases of a connection are what the client has sent on it: none of an
\* earlier connection, and none of a PUBLISH with only the alias
\* (handle_publish, client_loop).
AliasOfThisConnection ==
  \A c \in Clients : task[c] # Gone => alias[c] = bound[c]

\* Nothing is queued for anybody once the time its publisher gave it is over,
\* be it delivered, released by a late PUBREL or replayed (is_expired in
\* deliver and subscribe).
FreshWhenQueued ==
  \A c \in Clients : \A i \in DOMAIN queue[c] :
    queue[c][i].due # None => queue[c][i].created < queue[c][i].due

NewCopies(c) == {queue'[c][i] : i \in (Len(queue[c]) + 1)..Len(queue'[c])}

\* Overlapping subscriptions share one copy of a published message and the
\* share names of a client another; no share name gets a message to two of its
\* clients, for what the names send of it is queued in one step, and in that
\* step each of them for one client (deliver with its comment on MQTT-3.3.4-4,
\* matches_shared).
ShareNames == {Share[f] : f \in Filters} \ {None}
SentFor(s, n, c) ==
  \E m \in NewCopies(c) : m.n = n /\ m.way = "shared" /\ \E f \in m.ids : Share[f] = s
ServedOnce ==
  [][\A n \in Messages :
       /\ \A c \in Clients, w \in {"direct", "shared"} : copies'[c][n][w] <= 1
       /\ (\E s \in ShareNames, c \in Clients : SentFor(s, n, c)) =>
            \A c \in Clients : copies[c][n]["shared"] = 0
       /\ \A s \in ShareNames, c, d \in Clients :
            SentFor(s, n, c) /\ SentFor(s, n, d) => c = d]_vars

\* A copy carries the best QoS of all the subscriptions it stands for: "the
\* Server MUST deliver the message to the Client respecting the maximum QoS of
\* all the matching subscriptions" (add_message).
OverlapRespected ==
  [][\A c \in Clients : \A m \in NewCopies(c) : \A f \in m.ids :
       Lower(m.as, subscriptions'[c][f].qos) <= m.qos]_vars

\* "If no local is true, Application Messages MUST NOT be forwarded to a
\* connection with a ClientID equal to the ClientID of the publishing
\* connection" (deliver and subscribe), for every way to the queue.
NoLocalKept ==
  [][\A c \in Clients : \A m \in NewCopies(c) : \A f \in m.ids :
       m.by = c /\ Share[f] = None => ~subscriptions'[c][f].noLocal]_vars

\* Nothing is queued at a QoS above what SUBACK granted (handle_subscribe).
GrantKept ==
  [][\A c \in Clients : \A m \in NewCopies(c) :
       (\A f \in m.ids : granted[c][f] # None) => \E f \in m.ids : m.qos <= granted[c][f]]_vars

\* The expiry interval a message is sent with ends no later than the one it
\* was published with (to_publish_and_update_expiry_interval).
IntervalRunsOn ==
  \A c \in Clients :
    wire[c] # None => wire[c].at + wire[c].interval <= wire[c].due

\* Storage uses the trie through the operations of TopicTable, one a step.
Table == INSTANCE TopicTable WITH
  Payloads      <- Messages,
  subscriptions <- {s \in Filters \X Clients : subscriptions[s[2]][s[1]] # None},
  retained      <- [t \in Topics |-> IF retained[t] = None THEN None ELSE retained[t].n]
UsesTopicTable == Table!Spec
=============================================================================
