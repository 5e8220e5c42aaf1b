------------------------------- MODULE System -------------------------------
(***************************************************************************)
(* The publisher server and the processes of client.exe together. A client *)
(* binds 127.0.0.1 (client.cpp:55), so all of them are on one host, at the *)
(* address Loopback. The server handles the requests it has been sent in   *)
(* any order, since each has a thread of its own; requests outlive clients *)
(* that have given up on them, and end with the server process, as does    *)
(* its registry. Delivery of messages is left to ServerDelivery.           *)
(***************************************************************************)
EXTENDS Server, ClientProcess

CONSTANT Loopback

ASSUME SystemAssumption ==
  /\ Loopback \in Address
  /\ HostPort \subseteq Port
  /\ \A line \in CommandLine : \A r \in Range(line) :
       /\ r.command \in {"subscribe", "publish", "getTopicStatus"} =>
            r.topicName \in TopicName
       /\ r.command = "publish" => r.message \in Message

systemVars == <<vars, clientVars>>

SystemInit == Init /\ ClientInit

listening == process = "running"

-----------------------------------------------------------------------------
ClientStep(p) == ClientNext(p, listening) /\ UNCHANGED vars

\* The switch of handleApproachingClient, on a request from port q.
dispatch(r, q) ==
  LET client == [address |-> Loopback, port |-> q]
  IN  \/ r.command = "subscribe" /\ handleSubscribeRequest(client, r.topicName)
      \/ r.command = "unsubscribe" /\ handleUnsubscribeRequest(client, r.topicName)
      \/ r.command = "listTopics" /\ handleListTopics
      \/ r.command = "getTopicStatus" /\ handleGetTopicStatus(r.topicName)
      \/ r.command = "publish" /\ handlePublishRequest(r.topicName, r.message)

\* Replies that were sent can be received when the server is gone.
Answered == {c \in connections : c.stage = "answered"}

\* What becomes of the connections when the handler of c has replied.
afterReply(c) ==
  (connections \ {c}) \cup
    {d \in {[c EXCEPT !.stage = "answered"]} : WaitsFor(c.proc, c)}

handleApproachingClient ==
  \E c \in connections :
    /\ c.stage = "sent"
    /\ dispatch(c.request, c.port)
    /\ connections' = IF process' = "crashed" THEN Answered ELSE afterReply(c)
    /\ UNCHANGED <<pc, hasSubscribeCommand, todo, subscribedTopics, port,
                   serial, messageThreadRunning, messageThread>>

ServerStops ==
  /\ Stop
  /\ connections' = Answered
  /\ UNCHANGED <<pc, hasSubscribeCommand, todo, subscribedTopics, port, serial,
                 messageThreadRunning, messageThread>>

\* What the server does on its own.
ServerAlone ==
  (Start \/ Tick \/ checkTopicTimeouts) /\ UNCHANGED clientVars

SystemNext ==
  \/ \E p \in Proc : ClientStep(p)
  \/ handleApproachingClient
  \/ ServerStops
  \/ ServerAlone

SystemSpec == SystemInit /\ [][SystemNext]_systemVars

(* Each thread of a client goes on: the calls that could block its main    *)
(* thread, connect and recv, return, recv after 30 seconds at the latest;  *)
(* recvfrom of the message thread returns after 5. Nothing is assumed of   *)
(* the server, which may be stopped, or never handle a request.            *)
FairSystemSpec ==
  /\ SystemSpec
  /\ \A p \in Proc :
       /\ WF_systemVars(Main(p, listening) /\ UNCHANGED vars)
       /\ WF_systemVars(handleMessages(p) /\ UNCHANGED vars)

-----------------------------------------------------------------------------
(* Properties.                                                             *)

\* The process believes to be subscribed, or is just about to.
Holds(p, name) ==
  \/ name \in Range(subscribedTopics[p])
  \/ \E c \in connections : /\ c.proc = p
                            /\ c.request.command = "subscribe"
                            /\ c.request.topicName = name

(* No subscription outlives all who could end it: a topic has no more      *)
(* subscribers than there are processes that hold it, although an          *)
(* unsubscribe removes whoever came first (topic.cpp:88), the server       *)
(* forgets everything when it stops, and ports are used again. Without     *)
(* faults, and if no process names a topic twice.                          *)
NoExcessSubscriptions ==
  \A name \in TopicName :
    Cardinality({s \in Subscriptions : s[2] = name})
      <= Cardinality({p \in Proc : Holds(p, name)})

Gone(p) == pc[p] \in {"new", "exited"}

(* What client.h:42 says of the destructor, that it unsubscribes from all  *)
(* subscribed topics: when all clients are gone and no request is under    *)
(* way, the server has no subscription left.                               *)
LeavesNothing ==
  (\A p \in Proc : Gone(p)) /\ connections = {} => Subscriptions = {}

(* Whatever the server and the network do, a client executes its commands  *)
(* and, once it was told to, ends: no loop and no thread of it waits for   *)
(* something that may never come (client.cpp:86, 94, 178, 247).            *)
ClientEnds ==
  \A p \in Proc :
    pc[p] \notin {"new", "enter"} ~> pc[p] \in {"enter", "exited", "killed"}
=============================================================================
