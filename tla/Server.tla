------------------------------- MODULE Server -------------------------------
(***************************************************************************)
(* The publisher server (src/server/server.cpp): the registry of topics    *)
(* and client connections, the five request handlers and the heartbeat     *)
(* thread. Each handler, and each pass of the heartbeat over the topics,   *)
(* runs from its first to its last access of the registry under the mutex  *)
(* mtx, so each is one action; handler threads may be scheduled in any     *)
(* order, so any request may be the next one handled.                      *)
(*                                                                         *)
(* Objects live on the heap: topicHeap and connHeap are functions from the *)
(* live pointers to the objects, apart from the two vectors of pointers    *)
(* that the Server keeps. The order of these vectors decides nothing but   *)
(* the layout of a reply, so they are sets; a subscriberList is a sequence.*)
(*                                                                         *)
(* The mutex does not stop the clock: seconds may begin at any point of a  *)
(* critical section, so each reads the clock wherever the code calls time. *)
(***************************************************************************)
EXTENDS Topic, FiniteSets

CONSTANTS
  Address, Port,     \* what identifies a subscriber
  TopicName, Message,\* what requests name; both are non-empty strings
  TopicPtr, ConnPtr, \* heap cells of Topic and ClientConnection objects
  NullPtr,
  topicTimeout,      \* seconds, from --topic-timeout
  MaxTime            \* bound of the clock

ASSUME ServerAssumption ==
  /\ NullPtr \notin TopicPtr \cup ConnPtr
  /\ NoMessage \notin Message
  /\ topicTimeout \in Int
  /\ MaxTime \in Nat

VARIABLES
  process,           \* what the operating system sees of the server
  topics,            \* pointers in the vector topics
  topicHeap,         \* the live Topic objects
  clientConnections, \* pointers in the vector clientConnections
  connHeap,          \* the live ClientConnection objects
  now,               \* time(nullptr)
  response,          \* the reply of the last request handled
  sent               \* the datagrams sent by the last step

registry == <<topics, topicHeap, clientConnections, connHeap>>
vars == <<process, registry, now, response, sent>>

Client == [address : Address, port : Port]

Statuscode == {"success", "failed", "invalidParameter", "internalError"}

CommandIdentifiers ==
  {"subscribe", "unsubscribe", "publish", "listTopics", "getTopicStatus"}

TopicObject ==
  [topicName : TopicName, message : Message \cup {NoMessage},
   messageTimestamp : Int, subscriberList : Seq(ConnPtr),
   timeoutTimestamp : Int]

\* A reply; content lists the topic names or the subscribers it carries.
Response(command, status, content) ==
  [command |-> command, statusCode |-> status, content |-> content,
   messageTimestamp |-> 0]

NoResponse == Response("none", "none", {})

-----------------------------------------------------------------------------
(* Heap cells and look-ups. A look-up yields NullPtr when nothing matches. *)

store(heap, p, object) ==
  [q \in DOMAIN heap \cup {p} |-> IF q = p THEN object ELSE heap[q]]

free(heap, p) == Restrict(heap, DOMAIN heap \ {p})

findTopic(name) ==
  LET found == {p \in topics : topicHeap[p].topicName = name}
  IN  IF found = {} THEN NullPtr ELSE CHOOSE p \in found : TRUE

findConnection(client) ==
  LET found == {p \in clientConnections : connHeap[p] = client}
  IN  IF found = {} THEN NullPtr ELSE CHOOSE p \in found : TRUE

\* A plausible bug of the next one: a failed allocation goes unnoticed.
topicCellUnchecked(name) == {findTopic(name)}

\* The topic found, or a cell that new Topic(name) may be given.
topicCell(name) ==
  IF findTopic(name) # NullPtr
  THEN {findTopic(name)} ELSE TopicPtr \ DOMAIN topicHeap

\* The connection found, or a cell that new ClientConnection may be given.
connectionCell(client) ==
  IF findConnection(client) # NullPtr
  THEN {findConnection(client)} ELSE ConnPtr \ DOMAIN connHeap

-----------------------------------------------------------------------------
(* The clock.                                                              *)

\* Seconds that begin in a critical section, if any.
TimePasses == now' \in now..MaxTime

\* Two calls of time in a critical section, one after the other.
Readings == {r \in (now..now') \X (now..now') : r[1] <= r[2]}

-----------------------------------------------------------------------------
Init ==
  /\ process = "stopped"
  /\ topics = {}
  /\ topicHeap = [p \in {} |-> {}]
  /\ clientConnections = {}
  /\ connHeap = [p \in {} |-> {}]
  /\ now = 0
  /\ response = NoResponse
  /\ sent = {}

\* The process is gone, and its memory with it.
Exit(how) ==
  /\ process' = how
  /\ topics' = {}
  /\ topicHeap' = [p \in {} |-> {}]
  /\ clientConnections' = {}
  /\ connHeap' = [p \in {} |-> {}]
  /\ response' = NoResponse
  /\ sent' = {}
  /\ TimePasses

\* main creates the Server; the constructor starts the threads.
Start ==
  /\ process # "running"
  /\ process' = "running"
  /\ response' = NoResponse
  /\ sent' = {}
  /\ UNCHANGED <<registry, now>>

\* The accept loop never ends: the process is stopped by a signal.
Stop == process = "running" /\ Exit("stopped")

Tick ==
  /\ now < MaxTime
  /\ now' = now + 1
  /\ sent' = {}
  /\ response' = NoResponse
  /\ UNCHANGED <<process, registry>>

-----------------------------------------------------------------------------
\* The Topic object found in cell t, or what new Topic(name) puts there.
topicObject(name, t) ==
  IF findTopic(name) = NullPtr
  THEN {NewTopic(name, r[1], r[2]) : r \in Readings} ELSE {topicHeap[t]}

handleSubscribeRequest(client, name) ==
  /\ process = "running"
  /\ TimePasses
  /\ \E t \in topicCell(name), c \in connectionCell(client) :
     \E topic \in topicObject(name, t) :
       LET heap  == IF findConnection(client) = NullPtr
                    THEN store(connHeap, c, client) ELSE connHeap
           known == hasClient(topic, heap, client)
       IN  /\ topics' = topics \cup {t}
           /\ clientConnections' = clientConnections \cup {c}
           /\ connHeap' = heap
           /\ topicHeap' = store(topicHeap, t, subscribe(topic, heap, c))
           /\ response' = Response("subscribe",
                                   IF known THEN "failed" ELSE "success", {})
  /\ sent' = {}
  /\ UNCHANGED process

\* Plausible bugs of the next two: a client counts as gone with its first
\* topic; a topic stays listed when its last subscriber has left.
isSubscribedNever(heap, ptrs, client) == FALSE
keepEmptyTopic(t, left) == topics

isSubscribedToOtherTopic(heap, ptrs, client) ==
  \E p \in ptrs : hasClient(heap[p], connHeap, client)

\* The vector topics after unsubscribe left topic t with the record left.
topicsAfter(t, left) ==
  IF left.subscriberList = <<>> THEN topics \ {t} ELSE topics

(* After Topic::unsubscribe the handler deletes an emptied topic, and then *)
(* the caller's connection when no topic that is left lists the caller.    *)
(* It asks this of the caller's connection even when there is none.        *)
unsubscribeFrom(t, client, c) ==
  LET left       == unsubscribe(topicHeap[t], c)
      topicsLeft == topicsAfter(t, left)
      heapLeft   == IF t \in topicsLeft
                    THEN store(topicHeap, t, left) ELSE free(topicHeap, t)
      drop       == ~ isSubscribedToOtherTopic(heapLeft, topicsLeft, client)
  IN  IF c = NullPtr /\ topicsLeft # {}
      THEN Exit("crashed")   \* getAddress() of a null pointer
      ELSE /\ topics' = topicsLeft
           /\ topicHeap' = heapLeft
           /\ clientConnections' =
                IF drop THEN clientConnections \ {c} ELSE clientConnections
           /\ connHeap' = IF drop THEN free(connHeap, c) ELSE connHeap
           /\ response' = Response("unsubscribe", "success", {})
           /\ sent' = {}
           /\ TimePasses
           /\ UNCHANGED process

handleUnsubscribeRequest(client, name) ==
  /\ process = "running"
  /\ LET t == findTopic(name)
     IN  IF t = NullPtr \/ topicHeap[t].subscriberList = <<>>
         THEN /\ response' = Response("unsubscribe",
                   IF t = NullPtr THEN "invalidParameter" ELSE "failed", {})
              /\ sent' = {}
              /\ TimePasses
              /\ UNCHANGED <<process, registry>>
         ELSE unsubscribeFrom(t, client, findConnection(client))

handlePublishRequest(name, message) ==
  /\ process = "running"
  /\ TimePasses
  /\ LET t == findTopic(name)
     IN  IF t = NullPtr
         THEN /\ response' = Response("publish", "invalidParameter", {})
              /\ UNCHANGED topicHeap
         ELSE /\ response' = Response("publish", "success", {})
              /\ \E r \in Readings :
                   topicHeap' = store(topicHeap, t,
                     setMessage(topicHeap[t], message, r[1], r[2]))
  /\ sent' = {}
  /\ UNCHANGED <<process, topics, clientConnections, connHeap>>

handleListTopics ==
  /\ process = "running"
  /\ response' = Response("listTopics", "success",
                          {topicHeap[p].topicName : p \in topics})
  /\ sent' = {}
  /\ TimePasses
  /\ UNCHANGED <<process, registry>>

handleGetTopicStatus(name) ==
  /\ process = "running"
  /\ LET t == findTopic(name)
     IN  response' = IF t = NullPtr
           THEN Response("getTopicStatus", "invalidParameter", {})
           ELSE [Response("getTopicStatus", "success",
                  {connHeap[p] : p \in Range(topicHeap[t].subscriberList)})
                    EXCEPT !.messageTimestamp = topicHeap[t].messageTimestamp]
  /\ sent' = {}
  /\ TimePasses
  /\ UNCHANGED <<process, registry>>

\* A plausible bug of the next one: a topic is due a second late.
timedOutLate(t, time) == topicHeap[t].timeoutTimestamp < time

\* The test a pass of the heartbeat makes of every topic.
timedOut(t, time) == topicHeap[t].timeoutTimestamp <= time

\* A plausible bug of the next one: the timeout is set, but not advanced.
nextTimeoutNow(time) == time

nextTimeout(time) == time + topicTimeout

(* A pass of the heartbeat publishes the topics due, and gives them their  *)
(* next timeout. It reads the clock once when it checks a topic, and again *)
(* after it has published it: reading[t] is the two of t. It takes topics  *)
(* one by one, and those that are not due were checked at some time, too,  *)
(* for which the beginning of the pass is as good as any.                  *)
pass(due, reading) ==
  /\ process = "running"
  /\ {t \in topics : timedOut(t, now)} \subseteq due
  /\ \A t \in due : timedOut(t, reading[t][1])
  /\ \A s, t \in due :
       s = t \/ reading[s][2] <= reading[t][1] \/ reading[t][2] <= reading[s][1]
  /\ sent' = UNION {publishMessage(topicHeap[t], connHeap) : t \in due}
  /\ topicHeap' = [t \in DOMAIN topicHeap |->
       IF t \in due
       THEN [topicHeap[t] EXCEPT !.timeoutTimestamp = nextTimeout(reading[t][2])]
       ELSE topicHeap[t]]
  /\ response' = NoResponse
  /\ UNCHANGED <<process, topics, clientConnections, connHeap>>

checkTopicTimeouts ==
  /\ TimePasses
  /\ \E due \in SUBSET topics : \E reading \in [due -> Readings] :
       pass(due, reading)

-----------------------------------------------------------------------------
Background == Start \/ Stop \/ Tick

\* The requests that name no message.
Request ==
  \/ handleListTopics
  \/ \E name \in TopicName :
       \/ handleGetTopicStatus(name)
       \/ \E client \in Client : handleSubscribeRequest(client, name)
       \/ \E client \in Client : handleUnsubscribeRequest(client, name)

Publish ==
  \E name \in TopicName, message \in Message :
    handlePublishRequest(name, message)

Next == Background \/ Request \/ Publish \/ checkTopicTimeouts

Spec == Init /\ [][Next]_vars

-----------------------------------------------------------------------------
(* Properties.                                                             *)

\* The types of the variables.
TypeOK ==
  /\ process \in {"stopped", "running", "crashed"}
  /\ topics \subseteq TopicPtr
  /\ DOMAIN topicHeap \subseteq TopicPtr
  /\ topicHeap \in [DOMAIN topicHeap -> TopicObject]
  /\ clientConnections \subseteq ConnPtr
  /\ DOMAIN connHeap \subseteq ConnPtr
  /\ connHeap \in [DOMAIN connHeap -> Client]
  /\ now \in Int
  /\ response.command \in CommandIdentifiers \cup {"none"}
  /\ response.statusCode \in Statuscode \cup {"none"}
  /\ sent \subseteq [to : Client, topicName : TopicName, message : Message,
                     messageTimestamp : Int]

(* No use after free and no leak: the two vectors hold exactly the live    *)
(* objects, and every pointer in a subscriberList is one of a live         *)
(* ClientConnection. handleUnsubscribeRequest deletes a connection after   *)
(* looking for its address and port, not for the pointer, in the topics    *)
(* left, and Topic::unsubscribe may just have removed another client.      *)
MemorySafety ==
  /\ topics = DOMAIN topicHeap
  /\ clientConnections = DOMAIN connHeap
  /\ \A t \in topics :
       Range(topicHeap[t].subscriberList) \subseteq clientConnections

(* Look-ups by name and by address and port are unambiguous, and no topic  *)
(* sends a client the same message twice: at most one Topic has a name, at *)
(* most one ClientConnection an address and port, and a subscriberList     *)
(* lists no connection twice.                                              *)
UniqueRegistration ==
  /\ \A s, t \in topics :
       topicHeap[s].topicName = topicHeap[t].topicName => s = t
  /\ \A c, d \in clientConnections : connHeap[c] = connHeap[d] => c = d
  /\ \A t \in topics : IsInjective(topicHeap[t].subscriberList)

(* Between two critical sections no topic is without subscribers; so an    *)
(* unsubscribe request for an existing topic is never answered failed.     *)
NoEmptyTopic ==
  /\ \A t \in topics : topicHeap[t].subscriberList # <<>>
  /\ ~ (response.command = "unsubscribe" /\ response.statusCode = "failed")

\* Who is subscribed to what.
Subscriptions ==
  UNION {{<<connHeap[p], topicHeap[t].topicName>> :
           p \in Range(topicHeap[t].subscriberList)} : t \in topics}

(* What server.h:84 says of handleUnsubscribeRequest: on success the       *)
(* client that asked is no longer subscribed to the topic.                 *)
UnsubscribeRemovesCaller ==
  [][\A client \in Client, name \in TopicName :
       /\ handleUnsubscribeRequest(client, name)
       /\ response'.statusCode = "success"
       => <<client, name>> \notin Subscriptions']_vars

\* What the README says under Error handling: the program will not crash.
NeverCrashes == process # "crashed"

=============================================================================
