------------------------------ MODULE MCSystem ------------------------------
(***************************************************************************)
(* Instances of System for TLC: what a process may be told on its command  *)
(* line. One client process executes one kind of command.                  *)
(***************************************************************************)
EXTENDS System, TLC

CONSTANTS news, sport, hello

Sub(name) == [command |-> "subscribe", topicName |-> name]
Pub(name) == [command |-> "publish", topicName |-> name, message |-> hello]
List == [command |-> "listTopics"]
Status(name) == [command |-> "getTopicStatus", topicName |-> name]

Subscribers == {<<Sub(news), Sub(sport)>>, <<Sub(sport), Sub(news)>>}

OneSubscriber == {<<Sub(news)>>}

\* One of each kind of command; test.py:18 names a topic twice.
AllCommands ==
  {<<Sub(news), Sub(news)>>, <<Pub(news)>>, <<List>>, <<Status(news)>>}

Symmetry ==
  Permutations(Proc) \cup Permutations(HostPort) \cup Permutations(TopicPtr)
    \cup Permutations(ConnPtr)
=============================================================================
