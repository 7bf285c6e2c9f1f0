----------------------------- MODULE MCTopicTrie -----------------------------
EXTENDS TopicTrie

\* Filters that share nodes with each other and with topics, at two depths.
MCFilters ==
  {<<"root", "a">>, <<"root", "a", "b">>, <<"root", "a", "#">>, <<"root", "+", "b">>,
   <<"share", "a", "+">>}

MCTopics == {<<"root", "a">>, <<"root", "a", "b">>}

Symm == Permutations(Clients)
=============================================================================
