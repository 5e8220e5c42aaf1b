-------------------------- MODULE ServerRefinement --------------------------
(***************************************************************************)
(* The server implements SubscriptionService: its objects and pointers are *)
(* one way to keep a relation of clients and topic names.                  *)
(***************************************************************************)
EXTENDS Server

\* The message that the topic called name holds, if there is one.
latestOf(name) ==
  IF findTopic(name) = NullPtr THEN NoMessage
  ELSE topicHeap[findTopic(name)].message

Service == INSTANCE SubscriptionService WITH
  up        <- process = "running",
  subs      <- Subscriptions,
  latest    <- [name \in TopicName |-> latestOf(name)],
  reply     <- [command |-> response.command,
                statusCode |-> response.statusCode,
                content |-> response.content],
  delivered <- {[to |-> d.to, topicName |-> d.topicName, message |-> d.message] :
                 d \in sent}

(* Every behaviour of the server is one of the service. In particular an   *)
(* unsubscribe request that succeeds ends exactly one subscription of the  *)
(* topic named, a topic is listed if and only if somebody is subscribed to *)
(* it, a new subscription never meets a message published before the topic *)
(* was last without subscribers, and a reply tells what the registry       *)
(* held when it was made (server.cpp:179-441).                             *)
ImplementsService == Service!ServiceSpec
=============================================================================
