------------------------------- MODULE TopicTrie -------------------------------
(***************************************************************************)
(* The tree of topic segments that routes messages: subscriptions of the   *)
(* main tree and of one tree per share name, and the retained messages.    *)
(*                                                                         *)
(* A node is named by its place: the tree it is in, then the segments on   *)
(* the way to it.  hash_child and plus_child are the children "#" and "+", *)
(* every other child is in named_children.  Taking a child out of its      *)
(* parent drops everything below it.  Storage calls each operation under   *)
(* its lock, so each is one step.                                          *)
(***************************************************************************)
EXTENDS Integers, SequencesExt

CONSTANTS
  Clients,   \* client identifiers
  Main,      \* Trie.root
  Shares,    \* share names
  Filters,   \* places of the filters clients subscribe to
  Topics,    \* places of the topics messages are retained for
  Payloads,  \* retained messages, known by their length
  UsizeSize, \* number of values of usize
  None       \* Rust's None

Places == UNION {Prefixes(p) \ {<<>>} : p \in Filters \union Topics}
Roots  == {<<s>> : s \in Shares \union {Main}}

ASSUME TrieAssumption ==
  /\ \A f \in Filters : f \in Seq(STRING) /\ Len(f) > 1 /\ f[1] \in Shares \union {Main}
  /\ \A t \in Topics : t \in Seq(STRING) /\ Len(t) > 1 /\ t[1] = Main
  /\ \A t \in Topics : \A i \in DOMAIN t : t[i] \notin {"+", "#"}
  /\ Payloads \subseteq 1..(UsizeSize - 1)
  /\ UsizeSize \in Nat \ {0}
  /\ None \notin Payloads

VARIABLES
  nodes,              \* the nodes there are
  data,               \* data[n]: clients in Node.data
  retained,           \* retained[n]: Node.retained_message
  subscribersCount,   \* Trie.subscribers_count
  retainedCount,      \* Trie.retained_messages_count
  retainedBytes       \* Trie.retained_messages_bytes

vars == <<nodes, data, retained, subscribersCount, retainedCount, retainedBytes>>

-----------------------------------------------------------------------------
\* Nodes are made at places only, and neither counter of entries wraps below 0
\* or counts more entries than there can be.
TypeOK ==
  /\ nodes \subseteq Places \union Roots
  /\ data \in [Places -> SUBSET Clients]
  /\ retained \in [Places -> Payloads \union {None}]
  /\ subscribersCount \in 0..Cardinality(Filters \X Clients)
  /\ retainedCount \in 0..Cardinality(Topics)
  /\ retainedBytes \in 0..(UsizeSize - 1)

Init ==
  /\ nodes = {<<Main>>}
  /\ data = [n \in Places |-> {}]
  /\ retained = [n \in Places |-> None]
  /\ subscribersCount = 0 /\ retainedCount = 0 /\ retainedBytes = 0

\* Definitions whose name begins with Bug are faults seeded to show that the
\* properties below notice them; no other definition uses them.

\* The nodes on the way to place p, made where they are missing.
WithPath(p) == nodes \union (Prefixes(p) \ {<<>>})

IsRoot(n) == Len(n) = 1

\* Node.is_empty, as far as the node's own fields go.
Holds(d, r, n) == d[n] # {} \/ r[n] # None

\* A child that is_empty is taken out of its parent on the way back from
\* place p: below it only nodes on that way, and nothing in any of them.
BugChildrenForgotten(N, d, r, p) ==
  {n \in N : ~IsRoot(n) /\ n = p /\ ~Holds(d, r, n)}
BugLeafOnly(N, d, r, p) ==
  {n \in N : n = p /\ ~Holds(d, r, n) /\ ~ \E m \in N : IsStrictPrefix(n, m)}
EmptyOnPath(N, d, r, p) ==
  {n \in N : /\ ~IsRoot(n)
             /\ IsPrefix(n, p)
             /\ \A m \in N : IsPrefix(n, m) => IsPrefix(m, p) /\ ~Holds(d, r, m)}

\* A child that is_empty is taken out of its parent anywhere in the trees.
EmptyAnywhere(N, d, r) ==
  {n \in N : ~IsRoot(n) /\ \A m \in N : IsPrefix(n, m) => ~Holds(d, r, m)}

\* The nodes that are left, and what is left in them, when gone and everything
\* below is dropped.
Without(N, gone) == {n \in N : ~ \E g \in gone : IsPrefix(g, n)}
Kept(f, N, none) == [n \in Places |-> IF n \in N THEN f[n] ELSE none]

Prune(N, d, r, gone) ==
  /\ nodes' = Without(N, gone)
  /\ data' = Kept(d, Without(N, gone), {})
  /\ retained' = Kept(r, Without(N, gone), None)

-----------------------------------------------------------------------------
(* Subscriptions.                                                          *)

\* subscribers_count counts what is new.
CountWith(f, c) == subscribersCount + (IF c \in data[f] THEN 0 ELSE 1)

Subscribe(f, c) ==
  /\ nodes' = WithPath(f)
  /\ data' = [data EXCEPT ![f] = @ \union {c}]
  /\ subscribersCount' = CountWith(f, c) % UsizeSize
  /\ UNCHANGED <<retained, retainedCount, retainedBytes>>

\* A share name's tree is made when it is not there.  Nothing is in data of a
\* node that is missing: the walk then only turns back.
Unsubscribe(f, c) ==
  LET N == nodes \union {<<f[1]>>}
      d == [data EXCEPT ![f] = @ \ {c}]
  IN
  /\ Prune(N, d, retained, EmptyOnPath(N, d, retained, f))
  /\ subscribersCount' = (subscribersCount - (IF c \in data[f] THEN 1 ELSE 0)) % UsizeSize
  /\ UNCHANGED <<retainedCount, retainedBytes>>

\* internal_unsubscribe_all looks at a node twice, from its parent and then in
\* the call for the node itself; at the root of a tree only there.  Each look
\* counts what it takes out.
BugLeftByParent(d, c) == d
AfterParent(d, c) == [n \in Places |-> IF IsRoot(n) THEN d[n] ELSE d[n] \ {c}]
AfterItself(d, c) == [n \in Places |-> d[n] \ {c}]
FoundByParent(d, c) == {n \in Places : ~IsRoot(n) /\ c \in d[n]}
FoundByItself(d, c) == {n \in Places : c \in d[n]}

UnsubscribeAll(c) ==
  LET mid   == AfterParent(data, c)
      d     == AfterItself(mid, c)
      count == Cardinality(FoundByParent(data, c)) + Cardinality(FoundByItself(mid, c))
  IN
  /\ Prune(nodes, d, retained, EmptyAnywhere(nodes, d, retained))
  /\ subscribersCount' = (subscribersCount - count) % UsizeSize
  /\ UNCHANGED <<retainedCount, retainedBytes>>

-----------------------------------------------------------------------------
(* Retained messages.                                                      *)

\* The way to t is made even if there is nothing to delete.
SetRetained(t, m) ==
  LET N == WithPath(t)
      r == [retained EXCEPT ![t] = m]
  IN
  IF m = None THEN Prune(N, data, r, EmptyOnPath(N, data, r, t))
              ELSE nodes' = N /\ retained' = r /\ UNCHANGED data

\* Replacing a message changes neither counter.
CountRetained(t, m) ==
  LET old == retained[t] IN
  \/ /\ old = None /\ m # None
     /\ retainedCount' = (retainedCount + 1) % UsizeSize
     /\ retainedBytes' = (retainedBytes + m) % UsizeSize
  \/ /\ old # None /\ m = None
     /\ retainedCount' = (retainedCount - 1) % UsizeSize
     /\ retainedBytes' = (retainedBytes - old) % UsizeSize
  \/ /\ (old = None) = (m = None)
     /\ UNCHANGED <<retainedCount, retainedBytes>>

SetRetainedMessage(t, m) ==
  /\ SetRetained(t, m)
  /\ CountRetained(t, m)
  /\ UNCHANGED subscribersCount

-----------------------------------------------------------------------------
Next ==
  \/ \E f \in Filters, c \in Clients : Subscribe(f, c) \/ Unsubscribe(f, c)
  \/ \E c \in Clients : UnsubscribeAll(c)
  \/ \E t \in Topics, m \in Payloads \union {None} : SetRetainedMessage(t, m)

Spec == Init /\ [][Next]_vars

-----------------------------------------------------------------------------
(* Walking the tree.                                                       *)

Children(n) == {m \in nodes : Len(m) = Len(n) + 1 /\ IsPrefix(n, m)}

\* The nodes internal_matches comes to after i segments of topic t.
BugPlusForgotten(root, t) ==
  LET at[i \in 1..Len(t)] ==
        IF i = 1 THEN {root} \intersect nodes
        ELSE {m \in UNION {Children(n) : n \in at[i - 1]} : Last(m) = t[i]}
  IN at
Visited(root, t) ==
  LET at[i \in 1..Len(t)] ==
        IF i = 1 THEN {root} \intersect nodes
        ELSE {m \in UNION {Children(n) : n \in at[i - 1]} : Last(m) \in {"+", t[i]}}
  IN at

\* Every node with children on the way adds its hash_child, the end of the
\* topic adds the node itself.
Matches(root, t) ==
  LET at == Visited(root, t) IN
  at[Len(t)] \union
    {m \in UNION {Children(n) : n \in UNION {at[i] : i \in 1..(Len(t) - 1)}} : Last(m) = "#"}

\* matches, and what matches_shared chooses from.
Receivers(root, t) == {s \in Matches(root, t) \X Clients : s[2] \in data[s[1]]}

Named(n) == Last(n) \notin {"+", "#"}

\* internal_matches_retained_messages_all: the node and all its descendants
\* by name.
BugNotTheNode(n) ==
  {m \in nodes : IsStrictPrefix(n, m) /\ \A i \in (Len(n) + 1)..Len(m) : m[i] \notin {"+", "#"}}
NamedBelow(n) ==
  {m \in nodes : IsPrefix(n, m) /\ \A i \in (Len(n) + 1)..Len(m) : m[i] \notin {"+", "#"}}

\* A "#" takes everything below; segments that follow it are not looked at.
MatchesRetained(f) ==
  LET at[i \in 1..Len(f)] ==
        IF i = 1 THEN {<<Main>>}
        ELSE IF \E j \in 2..(i - 1) : f[j] = "#" THEN at[i - 1]
        ELSE IF f[i] = "#" THEN UNION {NamedBelow(n) : n \in at[i - 1]}
        ELSE {m \in UNION {Children(n) : n \in at[i - 1]} :
                Named(m) /\ f[i] \in {"+", Last(m)}}
  IN {n \in at[Len(f)] : n \in Places /\ retained[n] # None}

-----------------------------------------------------------------------------
(* Topic filters, by their definition.                                     *)

\* The segments before a final "#", or all of them.
Fixed(f) == IF Last(f) = "#" THEN Front(f) ELSE f

Covers(f, t) ==
  /\ Len(Fixed(f)) <= Len(t) /\ (Last(f) # "#" => Len(f) = Len(t))
  /\ \A i \in 2..Len(Fixed(f)) : f[i] \in {"+", t[i]}

\* "a/#" and the topic "a"
ParentLevel(f, t) == Last(f) = "#" /\ Len(f) = Len(t) + 1

-----------------------------------------------------------------------------
Subscriptions == {s \in Filters \X Clients : s[2] \in data[s[1]]}

\* The trees keep the promise of TopicTable: pruning drops no subscription and
\* no retained message of another place (internal_unsubscribe,
\* internal_unsubscribe_all, internal_set_retained_message).
Table == INSTANCE TopicTable WITH
  subscriptions <- Subscriptions,
  retained      <- [t \in Topics |-> retained[t]]

ImplementsTable == Table!Spec

\* No branch of a tree is left behind with nothing at its end: nodes go when
\* the last thing below them goes (is_empty on the way back).
NoDeadBranches ==
  \A n \in nodes : IsRoot(n) \/ Holds(data, retained, n) \/ Children(n) # {}

\* subscribers_count and retained_messages_count are what is in the trees,
\* however often a filter is subscribed again or a message replaced.
CountsExact ==
  /\ subscribersCount = Cardinality(Subscriptions)
  /\ retainedCount = Cardinality({n \in Places : retained[n] # None})

\* A message reaches exactly the subscriptions whose filter covers its topic,
\* but those to "#" right below the topic (matches, matches_shared).
RoutesExact ==
  \A t \in Topics, root \in Roots :
    Receivers(root, t) =
      {s \in Subscriptions :
         s[1][1] = root[1] /\ Covers(s[1], t) /\ ~ParentLevel(s[1], t)}

\* A new subscription is sent exactly the retained messages its filter covers
\* (matches_retained_messages).
ReplaysExact ==
  \A f \in Filters :
    f[1] = Main => MatchesRetained(f) = {t \in Topics : retained[t] # None /\ Covers(f, t)}

\* What a walk over the trees finds is what their filters say.
WalksExact == RoutesExact /\ ReplaysExact

\* retained_messages_bytes is the size of the retained messages
\* (set_retained_message).  No configuration checks it: replacing a message
\* leaves the size of the first.
BytesExact ==
  retainedBytes = SumFunctionOnSet(retained, {n \in Places : retained[n] # None}) % UsizeSize
=============================================================================
