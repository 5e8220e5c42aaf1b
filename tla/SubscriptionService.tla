------------------------ MODULE SubscriptionService ------------------------
(***************************************************************************)
(* What the publisher server does, seen from its clients: no objects, no   *)
(* pointers, no timestamps. A topic exists for exactly as long as somebody *)
(* is subscribed to it, and holds the last message published while it did. *)
(* An unsubscribe ends one subscription of the topic; which client it is   *)
(* that loses it, the service does not say.                                *)
(***************************************************************************)
EXTENDS FiniteSets

CONSTANTS Client, TopicName, Message, NoMessage

VARIABLES
  up,        \* the server accepts requests
  subs,      \* pairs of a client and a topic it is subscribed to
  latest,    \* the message each topic holds
  reply,     \* the last reply: the command, its status and what it lists
  delivered  \* the messages sent by the last step

serviceVars == <<up, subs, latest, reply, delivered>>

Topics == {s[2] : s \in subs}

Subscribers(name) == {client \in Client : <<client, name>> \in subs}

Reply(command, status, content) ==
  [command |-> command, statusCode |-> status, content |-> content]

NoReply == Reply("none", "none", {})

ServiceInit ==
  /\ up = FALSE
  /\ subs = {}
  /\ latest = [name \in TopicName |-> NoMessage]
  /\ reply = NoReply
  /\ delivered = {}

Up ==
  /\ ~ up
  /\ up' = TRUE
  /\ reply' = NoReply
  /\ delivered' = {}
  /\ UNCHANGED <<subs, latest>>

\* The server stops or crashes, and forgets everything.
Down ==
  /\ up
  /\ up' = FALSE
  /\ subs' = {}
  /\ latest' = [name \in TopicName |-> NoMessage]
  /\ reply' = NoReply
  /\ delivered' = {}

Quiet == reply' = NoReply /\ delivered' = {} /\ UNCHANGED <<up, subs, latest>>

Answer(command, status, content) ==
  /\ up
  /\ reply' = Reply(command, status, content)
  /\ delivered' = {}
  /\ UNCHANGED up

Subscribe(client, name) ==
  /\ Answer("subscribe",
            IF <<client, name>> \in subs THEN "failed" ELSE "success", {})
  /\ subs' = subs \cup {<<client, name>>}
  /\ UNCHANGED latest

Unsubscribe(name) ==
  /\ name \in Topics
  /\ Answer("unsubscribe", "success", {})
  /\ \E client \in Subscribers(name) :
       /\ subs' = subs \ {<<client, name>>}
       /\ latest' = IF Subscribers(name) = {client}
                    THEN [latest EXCEPT ![name] = NoMessage] ELSE latest

Publish(name, message) ==
  /\ name \in Topics
  /\ Answer("publish", "success", {})
  /\ latest' = [latest EXCEPT ![name] = message]
  /\ UNCHANGED subs

NoSuchTopic(command, name) ==
  /\ name \notin Topics
  /\ Answer(command, "invalidParameter", {})
  /\ UNCHANGED <<subs, latest>>

ListTopics ==
  Answer("listTopics", "success", Topics) /\ UNCHANGED <<subs, latest>>

TopicStatus(name) ==
  /\ name \in Topics
  /\ Answer("getTopicStatus", "success", Subscribers(name))
  /\ UNCHANGED <<subs, latest>>

\* The heartbeat: some topics send what they hold to all their subscribers.
Deliver ==
  /\ up
  /\ \E due \in SUBSET Topics :
       delivered' = {[to |-> s[1], topicName |-> s[2], message |-> latest[s[2]]] :
                      s \in {r \in subs : r[2] \in due /\ latest[r[2]] # NoMessage}}
  /\ reply' = NoReply
  /\ UNCHANGED <<up, subs, latest>>

ServiceNext ==
  \/ Up \/ Down \/ Quiet \/ ListTopics \/ Deliver
  \/ \E name \in TopicName :
       \/ Unsubscribe(name)
       \/ TopicStatus(name)
       \/ \E client \in Client : Subscribe(client, name)
       \/ \E message \in Message : Publish(name, message)
       \/ \E command \in {"unsubscribe", "publish", "getTopicStatus"} :
            NoSuchTopic(command, name)

ServiceSpec == ServiceInit /\ [][ServiceNext]_serviceVars
=============================================================================
