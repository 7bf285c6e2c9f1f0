------------------------------ MODULE TopicTable ------------------------------
(***************************************************************************)
(* What the topic trie promises: a table of subscriptions and a table of   *)
(* retained messages, with none of the nodes that hold them.               *)
(*                                                                         *)
(* A place is a sequence: the tree it is in (the main one or that of a     *)
(* share name), then the segments of a filter or a topic.                  *)
(***************************************************************************)
CONSTANTS Clients, Filters, Topics, Payloads, None

VARIABLES
  subscriptions, \* pairs of a filter and a client
  retained       \* retained[t]: the message of topic t, None if there is none

vars == <<subscriptions, retained>>

Init ==
  /\ subscriptions = {}
  /\ retained = [t \in Topics |-> None]

Subscribe(f, c) ==
  /\ subscriptions' = subscriptions \union {<<f, c>>}
  /\ UNCHANGED retained

Unsubscribe(f, c) ==
  /\ subscriptions' = subscriptions \ {<<f, c>>}
  /\ UNCHANGED retained

UnsubscribeAll(c) ==
  /\ subscriptions' = {s \in subscriptions : s[2] # c}
  /\ UNCHANGED retained

SetRetained(t, m) ==
  /\ retained' = [retained EXCEPT ![t] = m]
  /\ UNCHANGED subscriptions

Next ==
  \/ \E f \in Filters, c \in Clients : Subscribe(f, c) \/ Unsubscribe(f, c)
  \/ \E c \in Clients : UnsubscribeAll(c)
  \/ \E t \in Topics, m \in Payloads \union {None} : SetRetained(t, m)

Spec == Init /\ [][Next]_vars
=============================================================================
