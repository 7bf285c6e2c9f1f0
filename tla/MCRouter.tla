------------------------------- MODULE MCRouter -------------------------------
EXTENDS Router, TLC

MCFilters == {"a/1", "a/+", "$share/g/a/1"}
MCShare == [f \in MCFilters |-> IF f = "$share/g/a/1" THEN "g" ELSE None]
MCTopics == {"a/1"}
MCRewrite == [t \in MCTopics |-> t]
MCCovering == [t \in MCTopics |-> MCFilters]

Request(f, q, nl, rap, rh) ==
  [filter |-> f, qos |-> q, noLocal |-> nl, retainAsPublished |-> rap, retainHandling |-> rh]
Packet(t, a, q, r, e, i) ==
  [topic |-> t, alias |-> a, qos |-> q, retain |-> r, empty |-> e, interval |-> i]

\* Two share names, for which one client or two can be drawn.
OverlapFilters == MCFilters \union {"$share/h/a/1"}
OverlapShare ==
  [f \in OverlapFilters |->
     CASE f = "$share/g/a/1" -> "g" [] f = "$share/h/a/1" -> "h" [] OTHER -> None]

\* Overlapping subscriptions, some of them shared, one of them not for what the
\* client publishes itself; a SUBSCRIBE of two filters; one with an invalid filter
\* that fails half-way, at no_local for a shared subscription.
OverlapSubscribes ==
  {<<Request("a/1", 0, FALSE, FALSE, "never"), Request("a/+", 2, TRUE, TRUE, "never")>>,
   <<Request("$share/g/a/1", 1, FALSE, TRUE, "every"), Request("$share", 0, FALSE, FALSE, "new"),
     Request("$share/h/a/1", 1, TRUE, FALSE, "every")>>}

\* An alias is bound and used.  The others are refused: for the alias, the
\* topic, the plugin, the retain flag.
OverlapPublishes ==
  {Packet("b", 1, 1, FALSE, FALSE, None), Packet(NoTopic, 1, 2, FALSE, FALSE, None),
   Packet("a/1", 2, 0, FALSE, FALSE, None), Packet("$SYS", None, 0, FALSE, FALSE, None),
   Packet("denied", None, 0, FALSE, FALSE, None), Packet("a/1", None, 0, TRUE, FALSE, None)}

\* Retained messages that expire, and the removal of one.
RetainedSubscribes ==
  {<<Request("a/1", 1, FALSE, FALSE, "every")>>, <<Request("a/+", 1, TRUE, TRUE, "new")>>}
RetainedPublishes ==
  {Packet("a/1", None, 1, TRUE, FALSE, 1), Packet("a/1", None, 2, TRUE, TRUE, 1)}

\* Topic b is rewritten.
OverlapTopics == {"a/1", "b"}
OverlapRewrite == [t \in OverlapTopics |-> "a/1"]
OverlapCovering == [t \in OverlapTopics |-> IF t = "a/1" THEN OverlapFilters ELSE {}]

MCWills == {Packet("a/1", None, 0, FALSE, FALSE, None)}
MCProxies ==
  <<Request("$share/h/a/1", 1, FALSE, FALSE, "every"), Request("$share", 0, FALSE, FALSE, "every")>>
NoProxies == <<>>

Symm == Permutations(Clients)
=============================================================================
