# rsmqtt in TLA+

A TLA+ model of the broker half of `rsmqtt` (`libs/service` and `libs/codec`), TLC
configurations that check it on small instances, and TLAPS proofs of the safety properties
that hold whatever the schedule.

## The system

One `client_loop` task per network connection, one timer task, and two shared
structures: the `connections` map of `ServiceState` (an async `RwLock`) and the session
table of `Storage` (`parking_lot` locks). Tasks talk to each other only through
these, through the control channel in the `connections` map, and through the `Notify`
of a session.

| Component | State | Operations | Interacts with | What is hard |
|---|---|---|---|---|
| Connection task, lifecycle (`client_loop.rs`) | fields of `Connection`, phase of the task | CONNECT, DISCONNECT, takeover, exits of the `select!` loop, cleanup | `connections` map, session table | two locks taken one after the other; cleanup of one task against the CONNECT of the next |
| Session table and timer (`storage.rs`, `state.rs`) | sessions, two `BTreeSet`s of deadlines | `create_session`, `disconnect_session`, `update_sessions`, `remove_session` | every task, timer every 100 ms | deadlines in two places; wills and sessions due in the same tick |
| Outbound flow (`client_loop.rs`, `storage.rs`, `packet_id_allocator.rs`) | queue and in-flight packets of the session; quota, identifiers and QoS 2 states of the connection | `next_messages`, `delive`, `handle_notified`, PUBACK, PUBREC, PUBCOMP, resend on CONNECT | publishers' tasks through `Notify`, the client | half of the state survives a reconnect, half does not; one lost wake-up stalls the client |
| Inbound flow (`client_loop.rs`) | `uncompleted_messages`, `receive_in_quota` | PUBLISH at QoS 0, 1, 2, PUBREL | storage (`deliver`), the client | quota and map must move together; both vanish with the connection |
| Subscriptions and routing (`client_loop.rs`, `storage.rs`, `message.rs`, `filter_util.rs`) | subscriptions per filter, queues, topic aliases of a connection | SUBSCRIBE, UNSUBSCRIBE, the way of a PUBLISH, `deliver`, `add_message`, replay, expiry | topic trie, session queues, plugins | handlers await plugins between one call of the storage and the next; overlapping subscriptions merged at the subscriber |
| Topic trie (`trie.rs`) | prefix trees with wildcard nodes, subscription and retained counters | `subscribe`, `unsubscribe`, `unsubscribe_all`, `set_retained_message`, `matches`, `matches_shared`, `matches_retained_messages` | routing, retained messages | pruning of nodes several filters and topics share, overlapping `#` and `+`, counters kept apart from the tree |
| Metrics (`metrics.rs`, `sys_topics.rs`) | atomic counters | counters, periodic snapshot | all tasks | two sources read without a common lock |
| Framing (`codec.rs`, `reader.rs`, `writer.rs`) | decoder buffer and state, write buffer | decode, encode | the network | fragmentation, error part-way through an encode |
| Packet formats (`libs/codec`, one file per packet) | none | encode, the length computed before it, decode | framing | the three are written by hand for every packet and every set of properties and must agree |
| Configuration, rewrite, plugins, listeners, HTTP API, tools | none, or I/O only | | | |

`PROJECT.json` lists every component with its status and, under `hazards`, the places in
this code that a test hardly reaches, each with the properties that look there.

What makes each component correct:

- lifecycle: one connection serves a client id; a session in use is not taken away;
  the map names a task that was not told to go, or nobody; a takeover is learned;
- session table: no deadline gets lost; a will is published at most once, not before
  its connection is lost, and not later than its session ends;
- outbound flow: Receive Maximum respected, nothing above QoS 0 lost, QoS 2 exactly
  once, order kept, distinct identifiers, a conforming client is never thrown out,
  no message stays behind;
- inbound flow: `receive_max` respected, at most once at QoS 2, delivered before it is
  acknowledged as finished, every release answered;
- routing: one copy however many filters match, one client per share name, the best QoS
  of the overlap, nothing back to a `no_local` publisher, nothing after its time, no
  subscriber behind the retained message, aliases that end with their connection;
- framing and formats: what is decoded is what was encoded, nothing encoded is refused, an
  end is clean exactly between two packets;
- topic trie: no operation on one filter or topic touches another, no dead branches,
  exact counters, a message reaches the filters that cover its topic and no other.

## Modules

| Module | Models |
|---|---|
| `SessionLifecycle` | tasks × `connections` map × session table × timer, for one or more client ids |
| `SessionContract` | what the session table promises, without tasks, locks and clocks |
| `MCLifecycle` | symmetry for TLC |
| `OutboundFlow` | one session and the connections that serve it in turn, sending |
| `InboundFlow` | one client id and its connections in turn, receiving |
| `TopicTrie` | the trees of subscriptions and retained messages, node by node, and the walks over them |
| `TopicTable` | what the trees promise: a flat table of subscriptions and one of retained messages |
| `MCTopicTrie` | filters, topics and symmetry for TLC |
| `Router` | SUBSCRIBE, UNSUBSCRIBE, the way of a PUBLISH and of a will to the queues, replay and expiry; several connections whose handlers interleave |
| `MCRouter` | filters, packets and symmetry for TLC |
| `Packets` | for each of the fourteen packets what encode writes, the length it computes, what decode reads |
| `Framing` | one direction of a connection, from the encode of one `Codec` to the decode of the other |
| `MCFraming` | packets for TLC |
| `SessionLifecycleProofs`, `OutboundFlowProofs`, `InboundFlowProofs`, `TopicTrieProofs`, `RouterProofs`, `RouterOnceProofs`, `PacketsProofs`, `FramingProofs` | theorems and proofs |

The parts meet at named places. `SessionLifecycle` decides which task serves a session and
`OutboundFlow` and `InboundFlow` are what happens while it does; `Router` fills the queues that
`OutboundFlow` empties, and uses the tables that `TopicTrie` implements (`UsesTopicTable`, by
INSTANCE of `TopicTable`); `Framing` is the channel the flows take for granted: what comes out
is what went in, in order, or the connection is over.

Definitions whose name starts with `Bug` are seeded faults: each replaces the definition
next to it in a mutation run to show that a property notices the fault. Nothing else uses
them.

### SessionLifecycle

A task is identified with the network connection it serves. `pc` follows it through the
points where it gives up a lock: `open`, then (CONNECT, under the `connections` lock)
`handshake`, then (`create_session`, under the storage lock) `session`, then (CONNACK)
`ready`, then `closing`, then (map entry erased) `unmapped`, then (`disconnect_session`)
`done`. From `ready` it goes to `sending` while a send waits for the socket (`SendWaits`,
`SendReturns`: `send_packet` has no timeout), and in `session` it stands in the send of the
CONNACK; in both it polls no branch of its `select!`. The DISCONNECT that tells a client of a
takeover may still be on its way when the task is `done`: nothing shared happens after it.
`panicked` is a task that died in `sessions.get(client_id).unwrap()`: it runs no
cleanup. Each of these is one action of the same name as the function; anything another
task does can come between two of them, exactly where the code awaits or takes the next
lock.

`owner` is `ServiceState.connections`, `takeover[k]` a `SessionTakenOver` in the control
channel of `k`. A session records whose `Notify` and whose will it holds (`last_will` by
the connection whose CONNECT carried it) and the two keys it has in the timeout sets.
`update_sessions` is one action because it holds the storage lock throughout; it pops the
wills before the sessions. Publishing the will is the counter `published`. Time is in seconds
and `Tick` is independent of everything else.

`Spec` lets everything interleave. `CalmSpec` adds two assumptions about the schedule: the
next CONNECT of a client id is processed when its other tasks are not between two locks,
and a task that was taken over reads its control channel before anything else. Nothing in
the code guarantees either; `CalmSpec` is the schedule the takeover protocol is written for,
and the properties checked under it are what breaks as soon as the schedule is different
(see Findings).

`SessionContract` has sessions that are absent, live or detached, with at most one will.
Under `CalmSpec` the session table refines it (`ImplementsContract`, by INSTANCE with the
phase computed from `notify` and `removeKey`): only a detached session loses anything to
the timer, its will is published before or together with its end, and never twice.

### OutboundFlow

`queue`, `inflight` and `permit` (the `Notify`) are the session's and survive;
`quota`, `nextPid` and `qos2` are the connection's and start afresh in `Reconnect`, which
also sends every packet in flight again. `HandleNotified` takes as many messages as there
are credits into `batch`; `DeliveSends` sends one at a time, because `delive` awaits its
send and publishers go on queueing meanwhile. While a batch is out the task reads nothing.
`receive_out_quota` is a `usize`: arithmetic is modulo `UsizeSize`, as in a release build
(a debug build would panic where it wraps). `PidAfter` is the allocator with its wrap.

The client is the environment: it follows MQTT, answers in order, keeps the identifiers of
QoS 2 messages until they are released, and may refuse a QoS 2 message if `MayRefuse`. One that
names no Receive Maximum, as every V4 client, leaves the broker `usize::MAX` credits, which is
`UsizeSize - 1` among the `ReceiveMaxes`; what the properties can say of it is limited by
`IdsSuffice`.

### InboundFlow

`quota` and `uncompleted` are `receive_in_quota` and `uncompleted_messages`. Every handler is
one action with its answer; `Reply` has the second outcome that the answer cannot be
sent, in which case what the handler did before stays done. The client follows MQTT, or
up to `MaxRogue` times sends anything: identifiers in use, more than the Receive Maximum, PUBREL for
anything, PUBREL with an error code; `rogue` counts them, and a client conforms as long as
it is 0.

### TopicTrie

A node is named by its place: the tree it is in (the main one or that of a share name),
then the segments on the way to it. `nodes` are the ones there are, `data` and `retained`
their fields; `hash_child`, `plus_child` and `named_children` are the children whose last
segment is `#`, `+` or a name. Setting a child to `None` drops everything below it, which
is what `Prune` does with a set of nodes; `EmptyOnPath` and `EmptyAnywhere` are that set,
which the code finds on its way back from the end of a filter and in its walk over the
whole tree. `UnsubscribeAll` counts what each of the two looks at a node finds: the one from its
parent (`AfterParent`) and the one in the call for the node itself (`AfterItself`). `Storage` holds its lock throughout, so an operation is one action. A retained
message is known by its length, the counters are modulo `UsizeSize`.

`Visited`, `Matches` and `MatchesRetained` are the walks, by recursive functions over the
segments; `Covers` is what they are compared with, a filter against a topic segment by
segment with no tree. `TopicTable` is refined with the two tables read off the trees.

### Router

A method of `Storage` runs under its lock and is one step. What a handler does between two of
them it does with plugins awaited in between, and there other connections go on:
`HandlePublish` validates, resolves the alias and replaces the retained message, `DoPublish`
(after `on_message_publish`) delivers a message or holds it for its PUBREL; a SUBSCRIBE stores
one filter in each `SubscribeFilter` (after `check_acl`) and answers in `SendSubAck`. A
refusal throws the client out (`Leave`) and keeps what was done before it.

Which filters cover a topic is the parameter `Covering`: finding them is the business of
`TopicTrie` (`WalksExact`). What `rewrite` makes of a topic, which names a plugin denies and the
fields of `ServiceConfig` are parameters as well. `Deliver` follows the two walks of
`StorageInner::deliver`: the subscriptions without a share name of a client give one copy, the
groups that drew it another; the draw of `rand` is a choice. `Copy` is `add_message`: a new
message, whose publisher is forgotten and whose time begins again. `Message` has, next to the
code's fields, what the properties need to know of where a copy came from: `by`, `as`, `due`, `way`.

### Packets and Framing

A packet is a sequence of tokens, each a kind and a value, with the number of bytes the code
writes for it; a string, a binary, a payload is its length. For each packet `Packets` has what
`encode` writes in its order, the length that is computed for it beforehand from a second list of
its fields and properties, and what `decode` reads from a third. They are three texts in the
code and three here; where they differ `Framing` shows it. A body in which a field
would end within another counts as malformed; the one length that is read from bytes of another
kind is computed from them (`LengthValue`). At level V4 the fields that
level does not have are left out (`Seen`).

`Framing` has the loop of `Codec::decode` step by step: flag, remaining length, body, with any
number of bytes of `ReadSizes` arriving between two steps, so that a packet is cut at every place
and several arrive at once. A call of `decode` that is dropped by `select!` loses nothing because the
state is in the `Codec`; that is why each turn of the loop can be a step of its own. `Encode` has both
refusals and what they leave in `write_buf`: the first byte of the packet. After a refusal the
connection ends with a DISCONNECT behind that byte (`SayGoodbye`, an answer to a packet) or
without one (`Close`, a message from the queue). `decode` reads the DISCONNECT's own first byte,
224, as a length that goes on: 96, or 224 at V5. The connection can be lost with bytes on the way.

### What is abstracted

- A message is a number, a client id a model value; topics, payloads, properties, logging
  are left out but for what `Router` has of them. The client's Maximum Packet Size is left out of
  `OutboundFlow` (a refused packet is one of its failing sends); message expiry, validation,
  topic aliases, ACL, rewriting and the retained message are in `Router` and not in the flows. A CONNECT that is refused touches no shared state and is left out.
- The network loses what is under way when a connection ends and otherwise keeps order:
  it is TCP.
- `TopicTrie` knows who subscribed, not with which options; whether a retained message is
  replayed on a second SUBSCRIBE is the router's.
- `Router` has a receive quota of one QoS 2 message and sends from a queue without quota;
  sessions in it do not expire (`SessionLifecycle` has that), a will can be published at any
  time after its connection is gone. A client connects when its former task is gone: a takeover while
  that task is inside a handler is not in `Router`. What it would add is the steps of a handler whose
  session another task serves, which are calls of `Storage` by client id like any other.
- In `Packets` the bits of the flags bytes are values, UTF-8 is not checked, and a string is at
  most 65535 bytes long.
- In `SessionLifecycle` a task that runs into a missing session panics in one step
  (`ServeWithoutSession`), for any packet that leads to an unwrap.

## What is checked

`CHECK_DEADLOCK FALSE` is in every configuration: clock, messages and reconnects are
bounded and tasks that are done stay done, so every behaviour really ends.

| Run | Question | Bounds |
|---|---|---|
| `lifecycle_race` | under every interleaving: deadlines indexed, map current, wills at most once; and fairly scheduled: a takeover is learned unless the task stands in a send for ever, a will whose deadline passes leaves its session | 1 client id, 2 connections, intervals and delays 0 and 1, time to 3. Two connections are enough for a cleanup to meet a CONNECT at every point; the four safety properties are proved for any number |
| `lifecycle_calm` | on the calm schedule: single owner, served session kept, wills only after loss and not lost by expiry, contract refined | 2 client ids, 3 connections, so that a session is taken over twice or two sessions expire in the same tick; time to 2 is enough for a delay of 1 to pass |
| `outbound_qos1` | at QoS 0 and 1 across reconnects: nothing lost, order kept, client kept | 4 messages, Receive Maximum 1, 2 or none (`usize::MAX` = 15) per connection, 2 reconnects: the second connection may have less credit than the first left in flight |
| `outbound_qos2` | at QoS 2 on one connection: exactly once and all arrive if the client names a Receive Maximum; distinct identifiers while no more is in flight than there are | 5 messages over 3 identifiers, so that the allocator wraps; Receive Maximum 1 to 3 or none: without one all 5 can be in flight and identifiers are given out twice |
| `outbound_any` | everything mixed, with refusals, failing sends and reconnects: credits stay within the Receive Maximum | 4 messages, 3 identifiers, 2 reconnects, Receive Maximum 1, 2 or none; 16 values of usize (a wrapped credit is far above any Receive Maximum) |
| `inbound` | as long as the client conforms it is kept, at most once, delivered before finished, held until released, released is answered; whatever it sends, held messages and credits stay within `receive_max` | 3 messages and identifiers, `receive_max` 2, so that the quota is exhausted and identifiers are used again; 1 reconnect, 1 packet that fits nothing, 2 packets under way in each direction |
| `topic_trie` | pruning loses nothing and leaves nothing behind, counters exact, walks against the definition of a filter, flat table refined | 2 clients; 5 filters: on one path (`a`, `a/b`, `a/#`), across it (`+/b`) and in the tree of a share name (`a/+`), so that a node is shared by filters, by clients and by two topics with retained messages of length 1 and 2; every order of operations, no depth bound |
| `router_overlap` | overlapping, shared and configured subscriptions while messages are published: one copy per walk, one client for each share name, best QoS, `no_local`, aliases; the use of the tables | 2 clients, 2 connections made, 2 messages, 2 SUBSCRIBE packets of two filters; 4 filters that all cover one topic, two of them shared under different names, so that one client or two are drawn; another topic is rewritten to it; 1 alias; a packet for each refusal; Maximum QoS 1 under subscriptions of QoS 2 |
| `router_retained` | retained messages that are replaced, deleted and expire, and wills, while clients subscribe between the two steps of a PUBLISH: nobody is behind the retained message, nothing is queued after its time | 2 clients, 2 messages with an interval of 1, time to 2: a message expires before, between and after the steps, and so does one held for its PUBREL |
| `framing` | every packet at both levels, cut in every place: decoded as sent, nothing refused, ends clean | 2 packets one after the other out of some 30, with every property there is; Maximum Packet Size 155, which one of them meets exactly and one exceeds; reads of 1 and of 256 bytes |

`lifecycle_panic` and `framing_v4_will` each look for the violation of one property; see
Findings. `framing` asks for no liveness: `EndIsClean` takes its place, because a `decode`
that waits for more than a packet has would run into the end and take it for a cut. The type
invariant of `InboundFlow` is proved and not in a run.

### Fairness

- Lifecycle: weak fairness for every task, the timer and the clock. The executor polls
  every woken task; a task that can go on stays able to until it does. What the network does
  (a CONNECT arriving, a connection ending) has no fairness. `Task(k)` includes reading the
  control channel; for that branch of `select!` the fairness is strong, because `select!` begins
  with a branch drawn at random and one that is ready time and again is taken at last. No send has
  fairness (`Socket`): a client that stops reading holds its task in `send_packet` for ever
  (`client_loop.rs:86`). So `TakeoverCompletes` has the condition that the task is out of its sends
  time and again. A plugin is assumed to answer.
- Outbound: strong fairness for the branches of `select!`, which polls its branches in
  random order, so a branch that is ready again and again is taken at last; weak fairness for
  the rest of a batch, which nothing can disable, and for the client, which answers.
- Inbound: weak fairness for the task (it has only the one branch), and for a client that
  reads its answers and comes back.

## Findings

| Run | What the code does |
|---|---|
| `lifecycle_panic` | A connection that ends on its own before it reads `SessionTakenOver` runs its cleanup under the client id it has lost (`client_loop.rs:1170`). `disconnect_session` gives the session its successor serves an expiry deadline, the timer removes the session, and the successor panics at its next `unwrap` (`storage.rs:388`) |
| `framing_v4_will` | `Connect::decode` reads a remaining length in front of a will's properties at every level (`connect.rs:385`), and MQTT 3.1.1 sends none, as `Connect::encode` knows: a client of that level that has a will cannot connect, or its topic and message are cut in the wrong place |

### Known limits

These follow from the same definitions; each was seen with TLC after the change it names, to a
copy of the configuration.

Lifecycle:

- `SPECIFICATION Spec` in `MCLifecycleCalm.cfg`: `SingleOwner` fails. The cleanup removes the
  map entry by client id, also when it names the successor; a third CONNECT then tells nobody.
- `NormalDisconnectDropsWill` in `MCLifecycleCalm.cfg` fails. A DISCONNECT with
  NormalDisconnection clears `Connection.last_will`, which nothing reads
  (`client_loop.rs:930`); the will in the session is armed and published.
- `connectionCount >= 0` and `connectionCount <= Cardinality({c \in Clients : Present(c)})` in
  `MCLifecycleCalm.cfg` both fail. A connection whose CONNACK could not be sent was not
  counted and its cleanup counts down (`client_loop.rs:367`); the code's counter is a usize.
  Two connections of a client are counted during a takeover while there is one session, and the
  snapshot subtracts one from the other on usize (`metrics.rs:282`).

- `SPECIFICATION Spec` in `MCLifecycleCalm.cfg`: `LiveSessionKept` fails. Two CONNECTs of a client
  can create their sessions in the other order than they took the map entry (`client_loop.rs:338`).
- `TakeoverCompletes` without its condition on `InSend` in `MCLifecycleRace.cfg` fails: a task
  whose client stops reading stands in a send and reads neither its control channel nor the
  keep-alive timer, and the connection taken over stays open.
- `\A key \in removeTimeouts : key.timeout = sessions[key.client].removeKey` in
  `MCLifecycleCalm.cfg` with `SPECIFICATION Spec` fails (on `CalmSpec` it is proved, `Dated`). Two
  cleanups after one another leave two keys in the set and one in the session (`storage.rs:269`);
  the other one ends whatever session the client has when it is due. `DeadlinesIndexed` looks at
  the keys the sessions name.
- A task that panicked leaves its entry in the connections map until the next CONNECT of its client id
  (`RouteIsCurrent` allows for it): that CONNECT tells a channel that nobody reads.

Outbound:

- `ExactlyOnce` without the condition `IdsSuffice` in `OutboundQos2.cfg` fails, and so does
  `PacketIdsDistinct` without its condition on the length of `inflight`. A client without Receive
  Maximum is sent everything that is queued (`client_loop.rs:205`), and with more in flight than there
  are identifiers (65535 in the code) `PacketIdAllocator::take` gives out one that is in use.
- `QosLevels = {1, 2}` in `OutboundQos2.cfg`: `ConformingClientKept` fails. Acknowledgements are
  compared with the front of the in-flight queue only (`storage.rs:425`), and a QoS 2
  exchange keeps its packet there until PUBCOMP.
- `MayDrop = TRUE`, `MaxReconnects = 1` in `OutboundQos2.cfg`: `ConformingClientKept` and
  `ExactlyOnce` fail. A connection that resumes a session starts at identifier 1 and with no
  QoS 2 states (`client_loop.rs:1054`) while the session's packets are in flight: a new
  message reuses an identifier the client still holds and is taken for a duplicate, or the
  PUBREC of a resent packet is a protocol error.
- `MaySendFail = TRUE` in `OutboundQos1.cfg`: `AtLeastOnce` fails. The rest of a popped batch
  is dropped when one send fails (`client_loop.rs:961`).
- `QosLevels = {1}`, `ReceiveMaxes = {1}` in `OutboundQos2.cfg`: `EventuallyReceived` fails. At
  quota 0 the `Notify` permit is consumed without effect (`client_loop.rs:631`), and
  `handle_pub_ack` gives the credit back without looking at the queue: the next message waits
  for a later one.

Inbound:

- `FinishedMeansDelivered` in `InboundFlow.cfg` (with `MaxMessages = 1`, `MaxRogue = 0`) fails. A
  QoS 2 message acknowledged with PUBREC is forgotten with the connection
  (`client_loop.rs:1055`); the PUBREL that follows is answered PUBCOMP and the message never
  delivered.
- The disjunct for `rogue > 0` taken out of `HeldUntilReleased`: it fails. A PUBLISH that is refused
  with PacketIdentifierInUse has already replaced the message (`client_loop.rs:575`), and a PUBREL with
  an error code drops it.

Topic trie:

- `BytesExact` in `MCTopicTrie.cfg` fails. Replacing a retained message changes no counter
  (`trie.rs:387`), so its removal subtracts another length than was added.

Router:

- `GrantKept` in `RouterOverlap.cfg` fails. SUBACK grants the QoS up to Maximum QoS, the subscription
  is stored with the one asked for (`client_loop.rs:857`).
- `Wills <- MCWills` in `RouterOverlap.cfg`: `NoLocalKept` fails. A will is a message of nobody.
- `IntervalRunsOn` in `RouterRetained.cfg`, with an interval of 2 in `RetainedPublishes`, fails. A
  copy's time begins when it is queued (`storage.rs:79`), so a message replayed after a second is
  sent with its whole interval again.

What reading the code for the models showed, and the models have by definition; nothing the
repository says contradicts it:

- `internal_matches` looks for `#` only at nodes above the end of a topic (`trie.rs:121`): a
  subscription to `a/#` gets no message on `a`, while `matches_retained_messages` does replay the
  retained message of `a` to it. `WalksExact` states it with `ParentLevel`.
- `parse_filter` accepts `a/#/b`, and the replay takes everything below `a` when it meets the `#`
  (`trie.rs:309`). The filters of `MCTopicTrie` have none of these.
- The tree of a share name stays when its last subscription goes, and `unsubscribe` makes one for a
  name nobody subscribed to (`trie.rs:222`); `NoDeadBranches` leaves the roots out.
- The retained message is replaced before quota and identifier are looked at
  (`client_loop.rs:533`): a refused PUBLISH replaces it, and so does a QoS 2 message lost before its
  PUBREL, which leaves its subscribers behind (`SubscribersUpToDate` leaves QoS 2 out). The
  retain flag of a will is sent on, the message is not retained.
- A SUBSCRIBE thrown out at one of its filters leaves the earlier ones subscribed, without SUBACK.
- The Session Expiry Interval of a DISCONNECT is not held to the server's maximum as that of
  CONNECT is (`client_loop.rs:933`). PUBREC and PUBREL with an error code give no credit back
  (`client_loop.rs:664`, `client_loop.rs:718`).
- Lengths: 16383 and 2097151 are counted a byte longer than they are written, and 268435455, which
  can be written, is refused (`writer.rs:70`); a packet of the limit's size is refused unless it is a PUBLISH, and
  decode compares the limit with the remaining length, not with the packet. The length of a
  will's properties in CONNECT is counted by the length of CONNECT's own. Acknowledgements are decoded without
  splitting off their properties. A login without a user name is not sent.
- A packet that encode gives up on leaves its first byte in `write_buf`, and the DISCONNECT that
  follows goes out behind it (`codec.rs:108`). The receiver reads the DISCONNECT's first byte as a
  length, waits for a body and takes an orderly end for a cut (UnexpectedEof), or refuses the length
  (PacketTooLarge). `NothingRefused` and `EndIsClean` leave this one packet out; what was sent before it
  is decoded all the same.
- `Error::internal_error` calls itself without end (`error.rs:29`); `client_loop.rs:314` is a way there.

## What is proved

For every value of the constants that satisfies the named assumptions
(`LifecycleAssumption`, `OutboundAssumption`, `InboundAssumption`, `TrieAssumption`,
`RouterAssumption`, `FramingAssumption`, `NoneAssumption`: ranges of the parameters and of the packets in them, finiteness of the sets
of clients, connections, identifiers, filters or topics, and that `Null`/`None` is nothing else). Each proof follows the same path: an inductive invariant
`IInv`, `InitIInv`, one lemma per action, `NextIInv`, and PTL.

- `SessionLifecycleProofs`: `NoDeadlineLost`, `RoutesCurrent`, `WillsAtMostOnce`,
  `TypeCorrect`, for any number of clients and tasks under every interleaving.
  `IInv = Types /\ Routes /\ DeadlinesIndexed /\ Wills`. `RouteIsCurrent` (the entry
  names a task not told and not past its cleanup, or one that panicked) needs to know that
  only a task which can still read its control channel has something in it. `WillAtMostOnce`
  needs that a will still in a session belongs to a connection of that client that is past
  `create_session` and has not been published, so that two sessions never hold the same will.
  The types need `Wills` too: a will deadline is computed from a delay that must be there.
- The same module, on the calm schedule (`CalmSpec`): `OneOwner`, `LiveSessionsKept`,
  `WillsOnlyAfterLoss`, `NoWillLost` and `TableImplementsContract`, the refinement of
  `SessionContract`. `CalmInv = IInv /\ Turns /\ Held /\ Dated`. `Turns`: a task that was told is
  `ready` and has not moved, at most one task of a client is active, and the map names it. `Held`:
  the session of a task that holds it is there, wakes it and has no deadline; a will in a session belongs
  to that task or to one that is through. `Dated`: a deadline in a set is the one its session
  names, and the will's is not later than the session's, so the tick that ends a session
  publishes its will. Without the schedule `OneOwner` is false (see Known limits), so the assumption is needed.
- `OutboundFlowProofs`: `CreditsBounded`, `BatchesPaid`, `TypeCorrect`.
  `IInv = TypeOK /\ NetOK /\ BatchPaid /\ DownIsEmpty /\ WithinReceiveMax`. The bound alone is
  not inductive: `delive` spends a credit without looking, so a batch must be paid for
  while it goes out.
  `FirstPacketIdsDistinct` and `FirstExactlyOnce` (`ExactlyOnce`, `AtLeastOnce`, `InOrder`) are about the
  first connection of a session, where the identifiers in flight are the last ones the
  allocator gave out (`Contiguous`), through any number of its wraps; more than one connection breaks
  them, as Known limits says. Nothing is assumed of the Receive Maximum: identifiers are distinct while
  no more is in flight than there are, and `IdsSuffice`, which holds of every client that names a
  Receive Maximum (it is a u16), is proved to keep it so; `FirstExactlyOnce` is for those clients. What must not
  be lost needs that no send fails while the connection lasts (a failing one drops the rest of its batch).
  `LowInOrder`, `LowClientKept` and `LowAtLeastOnce` are about QoS 0 and 1 over any number of
  connections: `LowInv` orders what is in flight, on its way, in the batch and in the queue
  (`FlightRow`, `ClientRow`, `WaitRow`), matches the acknowledgements on their way with the front of what is
  in flight (`Acks`), and says of every packet that may come again that nothing has overtaken it (`Safe`).
- `InboundFlowProofs`: `HeldBounded`, `TypeCorrect`.
  `IInv = TypeOK /\ HeldWithinReceiveMax /\ SenderHasMessage`. The quota can be typed only
  together with the bound (a credit comes back only for an entry removed), and
  a client that sends again must still know what.
- The same module: `DeliveredOnce`, `FinishedDelivered`, `KeptUntilReleased`, `NotThrownOut`, for any number of
  lost connections, as long as the client keeps to the protocol (`rogue = 0`).
  `CInv = (rogue = 0 => Conforms)`: at most one packet of an identifier's exchange is on its way, in
  either direction (`OneAtATime`), and what that packet is fixes what the client and
  `uncompleted_messages` say of the identifier (`ToServerInStep`, `ToClientInStep`). So a PUBLISH
  finds no entry, and the PUBREL that delivers finds the client past the point where it
  would send the message again (`NotYet`, `OneSender`). That a finished message was delivered
  holds on the first connection only: `uncompleted_messages` goes with its connection.
  `KeptUntilReleased` is about every step: an entry goes only with the PUBREL that delivers it, with the
  connection, or by a packet of its identifier from a client that has broken the protocol.
  `NotThrownOut` adds `Credits` and `Window`: what the broker holds is part of what the client
  counts, so the quota is not 0 when a PUBLISH comes. It is for MQTT 5; with V4 a PUBREL sent again
  on a new connection finds no entry and is a ProtocolError (`handle_pub_rel`).
- `TopicTrieProofs`, for any filters, topics and share names: `TrieImplementsTable`, the refinement
  of `TopicTable`. `IInv = Typed /\ NothingOutside`: a node that is missing holds nothing, so that a
  subtree the code drops because its root `is_empty` had nothing anywhere below (`PruneDropsNothing`);
  with that each operation has the effect on `data` and `retained` its table has.
  `BranchesAlive`: `TreeInv` adds that the way to a node is there (`Grown`) and what
  ends where (`AtEnds`); a node that has nothing after pruning had something before, or a child, and a child
  that went was taken out itself (`LostChild`). `LooksTakeOut` and `LooksFindOnce` say that the two looks of
  `unsubscribe_all` take every subscription of the client out and count each once. `CountersExact` and `TypeCorrect` assume that the filters, clients and
  topics are finitely many and that `usize` can count them (`Countable`: they are in memory).
  `RoutingExact` and `WalkingExact`: the walks find what `Covers` says. The walks are recursive functions, so
  a function that meets the recursive equation is given (`OnWalk`, `OnReplay`) and `StepByStep` shows that there is
  no other. `WalkingExact` assumes `HashLast`, that filters have `#` at their end only, which `parse_filter`
  does not ask for (see Known limits: a filter `a/#/b` replays what it never routes); routing needs no such assumption.
- `RouterProofs`: `TypeCorrect`, `NothingStale`, `BestQos`, `NothingBack` (without wills),
  `AliasesOfOneConnection`, `RouterUsesTable`.
  `IInv = TypeOK /\ OriginalsKept /\ DueWithInterval /\ FreshWhenQueued`: a message waiting for
  plugins, for its PUBREL or as retained message still has its own time, so that when it is
  queued `is_expired` decides by the publisher's interval; and only because nothing is queued after
  its time is the rest of an interval a number when it is sent, which `TypeOK` says. The action
  properties use `TwoSources`: whatever is new in a queue was made by `Deliver` or by `Store`.
- `RouterOnceProofs`: `DeliveredOncePerWalk`. `OnceInv`: a message that can still be delivered is in
  one place, with the task that awaits plugins for it or in `uncompleted_messages`
  (`InOnePlace`), and has no copies yet (`StillToDeliver`), so that what one `deliver` adds is all
  there ever is. A step that delivers gives nothing but new copies (`OnlyNew`), those for a share name to
  the client it drew (`DrawnForNames`), and those of all share names at once (`SharedAtOnce`): so
  no name serves a second client, however many names draw the same one.
  `RetainedReachesEvery` and `RetainedReachesSubscribers`: `UpToDate` says of every subscriber that is due
  a retained message that it has a copy, that a PUBLISH whose second half is to come will bring it,
  or that the replay is to come. The second needs `RequestsAgree`: a client that asks for a filter with
  Retain Handling 2 (never) and later with 1 (if new) is sent nothing, because the subscription is not
  new the second time. The requests of `router_retained` agree.
- `PacketsProofs`: `LengthSizesAgree`, `NeverCountedShort`, for every length, and for each of the
  fourteen packets, whatever its fields and properties are, that the length computed is that of what encode
  writes and that decode reads the packet back (`Formatted`, one lemma for each packet).
  Tokens tell a set of properties (`Tells`) if they are as many bytes as `bytes_length` says and are read
  as that set; this holds of one property if the three tables of its kind agree (`TablesAgree`) and
  is kept when tokens are joined, so it holds of every set.
- `FramingProofs`: `WhatIsSentIsDecoded` (`DecodedAsSent`), `WhatIsSentIsAccepted` (`NothingRefused`),
  `EndIsBetweenPackets` (`EndIsClean`), for all packets, any limit, any sizes of the reads and any number
  of packets; TLC sees two packets of a few hundred bytes. Both exceptions behind a refused
  packet are in the statements. The invariant names the packets that
  were sent and what is on its way from each of them on; the decoder is before the first byte, the length or
  the body of the next one, and the rest of it is what comes next.
  The hypothesis is `PacketsWellCounted`, that the lengths in the packets are counted as they are
  written. It leaves out just what Findings and Known limits say of the codec: no length of 16383 or 2097151 among or of
  the properties, no will with V4, no will whose properties have a length of another size than those
  of CONNECT, no login without a user name. `MCFraming` checks (`MCAssumption`) that the packets of
  `framing` satisfy it and those of `framing_v4_will`, where `NothingRefused` fails, do not. `FramingAssumption`
  says what the packets are (`ConnectPackets`, `OtherPackets`: the types of the code, field by
  field) and that their sizes can be written, which `write_remaining_length` checks.

Induction over numbers is by a least counterexample: `Least` in `TopicTrieProofs` and `PacketsProofs` gets it from
`NatLessThanWellFounded` and `WFMin`, which take no operator as a parameter.

Only model-checked: all liveness (fairness is outside what the prover handles), and of `OutboundFlow` what goes beyond the theorems above: `ConformingClientKept` with QoS 2 on
the first connection.

## Not modelled

- Metrics and `$SYS` topics (`metrics.rs`, `sys_topics.rs`): counters nothing in the broker reads back.
  `connection_count`, which follows the connections, is in `SessionLifecycle`; see Known limits.
- The regular expressions of `rewrite.rs`, the configuration and the plugins: stateless, and parameters
  of `Router`. `basic-auth` and `oso-acl` are calls of other libraries.
- Listeners, WebSocket transport and HTTP API (`rsmqttd`): accept loops and I/O; the models begin where
  they hand a stream to `client_loop`.
- Password file tool: a sequential command line. Client library and benchmark: commented out
  of the workspace and not compiling against the codec. Test harness.

## Plan

Left to do, in this order:

1. The composition of lifecycle and outbound flow: a handover while the old task is still
   sending, and a message above the client's Maximum Packet Size, which is in flight before encode
   refuses it (`client_loop.rs:97`) and so ends every connection that resumes the session.
2. `Metrics`: the counters against the snapshot published from them.
3. Theorems: `ConformingClientKept` with QoS 2 on the first connection.
