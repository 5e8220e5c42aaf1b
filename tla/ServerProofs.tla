---------------------------- MODULE ServerProofs ----------------------------
(***************************************************************************)
(* Proofs about Server, for any number of clients, topics and heap cells.  *)
(* None of TypeOK, MemorySafety, UniqueRegistration and NoEmptyTopic is    *)
(* inductive alone: the address and port of a datagram have a type because *)
(* the pointers in a list are live; they stay live when a connection is    *)
(* deleted because equal connections are the same pointer; and replies to  *)
(* unsubscribe depend on lists not being empty. IInv is their conjunction, *)
(* sorted by the variables it speaks of.                                   *)
(*                                                                         *)
(* The second part is the proof that Server implements SubscriptionService.*)
(* It rests on IInv: a topic name stands for one topic, a client for one   *)
(* connection, and every topic has a subscriber, so that looking a topic up*)
(* in the heap is the same as asking the relation of the service.          *)
(***************************************************************************)
EXTENDS ServerRefinement, VectorProofs

-----------------------------------------------------------------------------
(* The invariant of the four variables of the registry alone.              *)
ValidTopic(topic, connections) ==
  /\ topic \in TopicObject
  /\ Range(topic.subscriberList) \subseteq connections
  /\ IsInjective(topic.subscriberList)
  /\ topic.subscriberList # <<>>

ValidRegistry ==
  /\ topics \subseteq TopicPtr
  /\ topics = DOMAIN topicHeap
  /\ topicHeap \in [topics -> TopicObject]
  /\ clientConnections \subseteq ConnPtr
  /\ clientConnections = DOMAIN connHeap
  /\ connHeap \in [clientConnections -> Client]
  /\ \A t \in topics : ValidTopic(topicHeap[t], clientConnections)
  /\ \A s, t \in topics : topicHeap[s].topicName = topicHeap[t].topicName => s = t
  /\ \A c, d \in clientConnections : connHeap[c] = connHeap[d] => c = d

ValidRest ==
  /\ process \in {"stopped", "running", "crashed"}
  /\ now \in Int
  /\ response.command \in CommandIdentifiers \cup {"none"}
  /\ response.statusCode \in Statuscode \cup {"none"}
  /\ ~ (response.command = "unsubscribe" /\ response.statusCode = "failed")
  /\ sent \subseteq [to : Client, topicName : TopicName, message : Message,
                     messageTimestamp : Int]

IInv == ValidRegistry /\ ValidRest

-----------------------------------------------------------------------------
(* Look-ups.                                                               *)

(* The search for a topic yields the topic of that name or nothing.        *)
LEMMA findTopicResult ==
  ASSUME IInv, NEW name
  PROVE  /\ findTopic(name) = NullPtr => \A p \in topics : topicHeap[p].topicName # name
         /\ findTopic(name) # NullPtr => /\ findTopic(name) \in topics
                                         /\ topicHeap[findTopic(name)].topicName = name
<1> DEFINE found == {p \in topics : topicHeap[p].topicName = name}
<1>1. CASE found = {}
  BY <1>1 DEF findTopic
<1>2. CASE found # {}
  <2>1. findTopic(name) = CHOOSE p \in found : TRUE
    BY <1>2 DEF findTopic
  <2>2. findTopic(name) \in found
    BY <1>2, <2>1
  <2>3. NullPtr \notin topics
    BY ServerAssumption DEF IInv, ValidRegistry
  <2> QED
    BY <2>2, <2>3
<1> QED
  BY <1>1, <1>2

(* The search for a connection yields that of the client or nothing.       *)
LEMMA findConnectionResult ==
  ASSUME IInv, NEW client
  PROVE  /\ findConnection(client) = NullPtr =>
              \A p \in clientConnections : connHeap[p] # client
         /\ findConnection(client) # NullPtr =>
              /\ findConnection(client) \in clientConnections
              /\ connHeap[findConnection(client)] = client
<1> DEFINE found == {p \in clientConnections : connHeap[p] = client}
<1>1. CASE found = {}
  BY <1>1 DEF findConnection
<1>2. CASE found # {}
  <2>1. findConnection(client) = CHOOSE p \in found : TRUE
    BY <1>2 DEF findConnection
  <2>2. findConnection(client) \in found
    BY <1>2, <2>1
  <2>3. NullPtr \notin clientConnections
    BY ServerAssumption DEF IInv, ValidRegistry
  <2> QED
    BY <2>2, <2>3
<1> QED
  BY <1>1, <1>2

-----------------------------------------------------------------------------
(* The clock.                                                              *)

(* The seconds that begin in a critical section set no clock back.         *)
LEMMA TimePassesResult ==
  ASSUME IInv, TimePasses
  PROVE  now \in Int /\ now' \in Int /\ now <= now'
BY ServerAssumption DEF TimePasses, IInv, ValidRest

(* Two readings of the clock are times between the beginning and the end.  *)
LEMMA ReadingsResult ==
  ASSUME IInv, TimePasses, NEW r \in Readings
  PROVE  /\ r[1] \in Int /\ r[2] \in Int
         /\ now <= r[1] /\ r[1] <= r[2] /\ r[2] <= now'
BY TimePassesResult DEF Readings

(* The Topic that a subscribe request finds or makes.                      *)
LEMMA topicObjectResult ==
  ASSUME IInv, TimePasses, NEW name \in TopicName, NEW t \in topicCell(name),
         NEW topic \in topicObject(name, t)
  PROVE  /\ t \in TopicPtr
         /\ topic \in TopicObject
         /\ topic.topicName = name
         /\ findTopic(name) = NullPtr =>
              /\ t \notin topics
              /\ topic.message = NoMessage
              /\ topic.subscriberList = <<>>
         /\ findTopic(name) # NullPtr =>
              /\ t = findTopic(name)
              /\ t \in topics
              /\ topic = topicHeap[t]
<1>1. CASE findTopic(name) = NullPtr
  <2>1. t \in TopicPtr \ topics
    BY <1>1 DEF topicCell, IInv, ValidRegistry
  <2>2. PICK r \in Readings : topic = NewTopic(name, r[1], r[2])
    BY <1>1 DEF topicObject
  <2>3. r[1] \in Int /\ r[2] \in Int
    BY ReadingsResult
  <2>4. <<>> \in Seq(ConnPtr) /\ NoMessage \in Message \cup {NoMessage}
    OBVIOUS
  <2> QED
    BY <1>1, <2>1, <2>2, <2>3, <2>4 DEF NewTopic, TopicObject
<1>2. CASE findTopic(name) # NullPtr
  <2>1. t = findTopic(name) /\ topic = topicHeap[t]
    BY <1>2 DEF topicCell, topicObject
  <2> QED
    BY <1>2, <2>1, findTopicResult DEF IInv, ValidRegistry
<1> QED
  BY <1>1, <1>2

-----------------------------------------------------------------------------
(* The methods of Topic.                                                   *)

(* The list that subscribe returns, whether or not it had the client.      *)
LEMMA subscribeResult ==
  ASSUME NEW topic \in TopicObject, NEW C \in SUBSET ConnPtr, NEW c \in ConnPtr,
         NEW heap \in [C \cup {c} -> Client],
         Range(topic.subscriberList) \subseteq C,
         IsInjective(topic.subscriberList)
  PROVE  /\ ValidTopic(subscribe(topic, heap, c), C \cup {c})
         /\ subscribe(topic, heap, c).topicName = topic.topicName
<1> DEFINE list == topic.subscriberList
<1>1. list \in Seq(ConnPtr)
  BY DEF TopicObject
<1>2. CASE hasClient(topic, heap, heap[c])
  <2>1. list # <<>>
    BY <1>1, <1>2 DEF hasClient
  <2> QED
    BY <1>2, <2>1 DEF subscribe, ValidTopic
<1>3. CASE ~ hasClient(topic, heap, heap[c])
  <2>1. c \notin Range(list)
    BY <1>1, <1>3 DEF hasClient, Range
  <2>2. /\ Append(list, c) \in Seq(ConnPtr)
        /\ Range(Append(list, c)) \subseteq C \cup {c}
        /\ IsInjective(Append(list, c))
    BY <1>1, <2>1, AppendElements
  <2>3. Append(list, c) # <<>>
    BY <1>1
  <2>4. subscribe(topic, heap, c) =
          [topic EXCEPT !.subscriberList = Append(list, c)]
    BY <1>3 DEF subscribe
  <2>5. /\ subscribe(topic, heap, c) \in TopicObject
        /\ subscribe(topic, heap, c).subscriberList = Append(list, c)
        /\ subscribe(topic, heap, c).topicName = topic.topicName
    BY <2>2, <2>4 DEF TopicObject
  <2> QED
    BY <2>2, <2>3, <2>5 DEF ValidTopic
<1> QED
  BY <1>2, <1>3

(* The list that unsubscribe returns: one entry of a valid list is gone.   *)
LEMMA unsubscribeResult ==
  ASSUME NEW topic \in TopicObject, NEW C, ValidTopic(topic, C), NEW pointer
  PROVE  LET left == unsubscribe(topic, pointer)
         IN  /\ left \in TopicObject
             /\ Range(left.subscriberList) \subseteq Range(topic.subscriberList)
             /\ IsInjective(left.subscriberList)
             /\ left.topicName = topic.topicName
<1> DEFINE list == topic.subscriberList
           rest == eraseRemove(list, Head(list))
<1>1. list \in Seq(ConnPtr)
  BY DEF TopicObject
<1>2. /\ rest \in Seq(ConnPtr)
      /\ Range(rest) \subseteq Range(list)
      /\ IsInjective(rest)
  BY <1>1, eraseRemoveElements DEF ValidTopic
<1> HIDE DEF rest
<1>3. unsubscribe(topic, pointer) = [topic EXCEPT !.subscriberList = rest]
  BY DEF unsubscribe, rest
<1> QED
  BY <1>2, <1>3 DEF TopicObject

(* A datagram goes to a client that the topic lists.                       *)
LEMMA publishMessageResult ==
  ASSUME NEW topic \in TopicObject, NEW C, NEW heap \in [C -> Client],
         Range(topic.subscriberList) \subseteq C
  PROVE  publishMessage(topic, heap) \subseteq
           [to : Client, topicName : TopicName, message : Message,
            messageTimestamp : Int]
BY DEF publishMessage, SendMessage, TopicObject

-----------------------------------------------------------------------------
(* One lemma per action.                                                   *)

(* A process that is gone has no registry.                                 *)
LEMMA ExitStep ==
  ASSUME IInv, NEW how \in {"stopped", "crashed"}, Exit(how)
  PROVE  IInv'
<1>1. topics' = {} /\ clientConnections' = {} /\ DOMAIN topicHeap' = {}
      /\ DOMAIN connHeap' = {}
  BY DEF Exit
<1>2. topicHeap' \in [topics' -> TopicObject] /\ connHeap' \in [clientConnections' -> Client]
  BY DEF Exit
<1>3. ValidRegistry'
  BY <1>1, <1>2 DEF ValidRegistry
<1>4. ValidRest'
  BY TimePassesResult DEF Exit, IInv, ValidRest, NoResponse, Response
<1> QED
  BY <1>3, <1>4 DEF IInv

(* Requests that only read the registry.                                   *)
LEMMA ReadStep ==
  ASSUME IInv, UNCHANGED <<process, registry>>, TimePasses, sent' = {},
         response'.command \in CommandIdentifiers \cup {"none"},
         response'.statusCode \in Statuscode \cup {"none"},
         ~ (response'.command = "unsubscribe" /\ response'.statusCode = "failed")
  PROVE  IInv'
<1>1. ValidRegistry'
  BY DEF IInv, ValidRegistry, registry
<1>2. ValidRest'
  BY TimePassesResult DEF IInv, ValidRest
<1> QED
  BY <1>1, <1>2 DEF IInv

LEMMA SubscribeStep ==
  ASSUME IInv, NEW client \in Client, NEW name \in TopicName,
         handleSubscribeRequest(client, name)
  PROVE  IInv'
<1> DEFINE heapWith(c) == IF findConnection(client) = NullPtr
                          THEN store(connHeap, c, client) ELSE connHeap
<1>0. PICK t \in topicCell(name), c \in connectionCell(client) :
        \E topic \in topicObject(name, t) :
          /\ topics' = topics \cup {t}
          /\ clientConnections' = clientConnections \cup {c}
          /\ connHeap' = heapWith(c)
          /\ topicHeap' = store(topicHeap, t, subscribe(topic, heapWith(c), c))
          /\ response' = Response("subscribe",
               IF hasClient(topic, heapWith(c), client) THEN "failed" ELSE "success", {})
  BY DEF handleSubscribeRequest
<1>1. PICK topic \in topicObject(name, t) :
        /\ topics' = topics \cup {t}
        /\ clientConnections' = clientConnections \cup {c}
        /\ connHeap' = heapWith(c)
        /\ topicHeap' = store(topicHeap, t, subscribe(topic, heapWith(c), c))
        /\ response' = Response("subscribe",
             IF hasClient(topic, heapWith(c), client) THEN "failed" ELSE "success", {})
  BY <1>0
<1>2. sent' = {} /\ UNCHANGED process /\ TimePasses
  BY DEF handleSubscribeRequest
<1> DEFINE heap == heapWith(c)
           new  == subscribe(topic, heap, c)
<1>3. /\ t \in TopicPtr
      /\ topic \in TopicObject
      /\ topic.topicName = name
      /\ Range(topic.subscriberList) \subseteq clientConnections
      /\ IsInjective(topic.subscriberList)
      /\ \A p \in topics \ {t} : topicHeap[p].topicName # name
  <2>1. CASE findTopic(name) = NullPtr
    <3>1. Range(<<>>) = {} /\ IsInjective(<<>>)
      BY DEF Range, IsInjective
    <3> QED
      BY <1>2, <2>1, <3>1, findTopicResult, topicObjectResult
  <2>2. CASE findTopic(name) # NullPtr
    <3>1. /\ t \in topics /\ topicHeap[t].topicName = name
          /\ topic = topicHeap[t] /\ topic \in TopicObject
      BY <1>2, <2>2, findTopicResult, topicObjectResult
    <3>2. ValidTopic(topic, clientConnections)
      BY <3>1 DEF IInv, ValidRegistry
    <3>3. t \in TopicPtr /\ \A p \in topics \ {t} : topicHeap[p].topicName # name
      BY <3>1 DEF IInv, ValidRegistry
    <3> QED
      BY <3>1, <3>2, <3>3 DEF ValidTopic
  <2> QED
    BY <2>1, <2>2
<1>4. /\ c \in ConnPtr
      /\ heap \in [clientConnections \cup {c} -> Client]
      /\ heap[c] = client
      /\ \A d \in clientConnections \ {c} : heap[d] = connHeap[d] /\ heap[d] # client
  <2>0. connHeap \in [clientConnections -> Client]
    BY DEF IInv, ValidRegistry
  <2>1. CASE findConnection(client) = NullPtr
    <3>1. c \in ConnPtr \ clientConnections
      BY <2>1 DEF connectionCell, IInv, ValidRegistry
    <3>2. heap = store(connHeap, c, client)
      BY <2>1
    <3>3. /\ store(connHeap, c, client) \in [clientConnections \cup {c} -> Client]
          /\ store(connHeap, c, client)[c] = client
          /\ \A d \in clientConnections \ {c} :
               store(connHeap, c, client)[d] = connHeap[d]
      BY <2>0 DEF store
    <3>4. \A d \in clientConnections : connHeap[d] # client
      BY <2>1, findConnectionResult
    <3> HIDE DEF heap
    <3> QED
      BY <3>1, <3>2, <3>3, <3>4
  <2>2. CASE findConnection(client) # NullPtr
    <3>1. c \in clientConnections /\ connHeap[c] = client
      BY <2>2, findConnectionResult DEF connectionCell
    <3>2. heap = connHeap /\ clientConnections \cup {c} = clientConnections
      BY <2>2, <3>1
    <3> QED
      BY <2>0, <3>1, <3>2 DEF IInv, ValidRegistry
  <2> QED
    BY <2>1, <2>2
<1> HIDE DEF heapWith
<1>5. ValidTopic(new, clientConnections') /\ new.topicName = name
  <2>1. clientConnections \in SUBSET ConnPtr
    BY DEF IInv, ValidRegistry
  <2> QED
    BY <1>1, <1>3, <1>4, <2>1, subscribeResult
<1> HIDE DEF new
<1>6. /\ topicHeap' \in [topics' -> TopicObject]
      /\ topicHeap'[t] = new
      /\ \A p \in topics \ {t} : topicHeap'[p] = topicHeap[p]
  <2>1. topicHeap \in [topics -> TopicObject] /\ new \in TopicObject
    BY <1>5 DEF IInv, ValidRegistry, ValidTopic
  <2>2. topicHeap' = store(topicHeap, t, new) /\ topics' = topics \cup {t}
    BY <1>1 DEF new
  <2>3. /\ store(topicHeap, t, new) \in [topics \cup {t} -> TopicObject]
        /\ store(topicHeap, t, new)[t] = new
        /\ \A p \in topics \ {t} : store(topicHeap, t, new)[p] = topicHeap[p]
    BY <2>1 DEF store
  <2> QED
    BY <2>2, <2>3
<1>7. ASSUME NEW p \in topics' PROVE ValidTopic(topicHeap[p], clientConnections)'
  <2>1. CASE p = t
    BY <1>5, <1>6, <2>1
  <2>2. CASE p # t
    <3>1. p \in topics /\ topicHeap'[p] = topicHeap[p]
      BY <1>1, <1>6, <2>2
    <3>2. ValidTopic(topicHeap[p], clientConnections)
      BY <3>1 DEF IInv, ValidRegistry
    <3>3. clientConnections \subseteq clientConnections'
      BY <1>1
    <3> QED
      BY <3>1, <3>2, <3>3 DEF ValidTopic
  <2> QED
    BY <2>1, <2>2
<1>8. ASSUME NEW p \in topics', NEW q \in topics',
             topicHeap'[p].topicName = topicHeap'[q].topicName
      PROVE  p = q
  BY <1>1, <1>3, <1>5, <1>6, <1>8 DEF IInv, ValidRegistry
<1>9. ASSUME NEW d \in clientConnections', NEW e \in clientConnections',
             connHeap'[d] = connHeap'[e]
      PROVE  d = e
  BY <1>1, <1>4, <1>9 DEF IInv, ValidRegistry
<1>10. ValidRegistry'
  BY <1>1, <1>3, <1>4, <1>6, <1>7, <1>8, <1>9 DEF IInv, ValidRegistry
<1>11. ValidRest'
  BY <1>1, <1>2, TimePassesResult
     DEF IInv, ValidRest, Response, Statuscode, CommandIdentifiers
<1> QED
  BY <1>10, <1>11 DEF IInv

(* The registry after Topic::unsubscribe and the deletion of an emptied    *)
(* topic, whichever connection asked.                                      *)
LEMMA topicsLeftResult ==
  ASSUME IInv, NEW t \in topics, NEW c
  PROVE  LET left       == unsubscribe(topicHeap[t], c)
             topicsLeft == topicsAfter(t, left)
             heapLeft   == IF t \in topicsLeft
                           THEN store(topicHeap, t, left) ELSE free(topicHeap, t)
         IN  /\ topicsLeft \subseteq topics
             /\ heapLeft \in [topicsLeft -> TopicObject]
             /\ \A p \in topicsLeft :
                  /\ ValidTopic(heapLeft[p], clientConnections)
                  /\ heapLeft[p].topicName = topicHeap[p].topicName
<1> DEFINE left       == unsubscribe(topicHeap[t], c)
           topicsLeft == topicsAfter(t, left)
           heapLeft   == IF t \in topicsLeft
                         THEN store(topicHeap, t, left) ELSE free(topicHeap, t)
<1>1. /\ topicHeap \in [topics -> TopicObject]
      /\ \A p \in topics : ValidTopic(topicHeap[p], clientConnections)
  BY DEF IInv, ValidRegistry
<1>2. /\ left \in TopicObject
      /\ Range(left.subscriberList) \subseteq clientConnections
      /\ IsInjective(left.subscriberList)
      /\ left.topicName = topicHeap[t].topicName
  <2>1. topicHeap[t] \in TopicObject /\ ValidTopic(topicHeap[t], clientConnections)
    BY <1>1
  <2>2. Range(topicHeap[t].subscriberList) \subseteq clientConnections
    BY <2>1 DEF ValidTopic
  <2> QED
    BY <2>1, <2>2, unsubscribeResult
<1> HIDE DEF left
<1>3. CASE left.subscriberList = <<>>
  <2>1. topicsLeft = topics \ {t} /\ heapLeft = free(topicHeap, t)
    BY <1>3 DEF topicsAfter
  <2>2. /\ free(topicHeap, t) \in [topics \ {t} -> TopicObject]
        /\ \A p \in topics \ {t} : free(topicHeap, t)[p] = topicHeap[p]
    BY <1>1 DEF free, Restrict
  <2> HIDE DEF topicsLeft, heapLeft
  <2> QED
    BY <1>1, <2>1, <2>2 DEF topicsLeft, heapLeft, left
<1>4. CASE left.subscriberList # <<>>
  <2>1. topicsLeft = topics /\ heapLeft = store(topicHeap, t, left)
    BY <1>4 DEF topicsAfter
  <2>2. /\ store(topicHeap, t, left) \in [topics -> TopicObject]
        /\ store(topicHeap, t, left)[t] = left
        /\ \A p \in topics \ {t} : store(topicHeap, t, left)[p] = topicHeap[p]
    BY <1>1, <1>2 DEF store
  <2>3. ValidTopic(left, clientConnections)
    BY <1>2, <1>4 DEF ValidTopic
  <2>4. /\ topicsLeft \subseteq topics
        /\ heapLeft \in [topicsLeft -> TopicObject]
        /\ \A p \in topicsLeft : /\ ValidTopic(heapLeft[p], clientConnections)
                                /\ heapLeft[p].topicName = topicHeap[p].topicName
    <3> HIDE DEF topicsLeft, heapLeft
    <3> QED
      BY <1>1, <1>2, <2>1, <2>2, <2>3
  <2> QED
    BY <2>4 DEF left
<1> QED
  BY <1>3, <1>4

LEMMA UnsubscribeStep ==
  ASSUME IInv, NEW client \in Client, NEW name \in TopicName,
         handleUnsubscribeRequest(client, name)
  PROVE  IInv'
<1> DEFINE t == findTopic(name)
           c == findConnection(client)
<1>1. CASE t = NullPtr \/ topicHeap[t].subscriberList = <<>>
  <2>1. /\ response' = Response("unsubscribe",
             IF t = NullPtr THEN "invalidParameter" ELSE "failed", {})
        /\ sent' = {}
        /\ TimePasses
        /\ UNCHANGED <<process, registry>>
    BY <1>1 DEF handleUnsubscribeRequest
  <2>2. t = NullPtr
    BY <1>1, findTopicResult DEF IInv, ValidRegistry, ValidTopic
  <2>3. response'.command = "unsubscribe" /\ response'.statusCode = "invalidParameter"
    BY <2>1, <2>2 DEF Response
  <2> QED
    BY <2>1, <2>3, ReadStep DEF CommandIdentifiers, Statuscode
<1>2. CASE ~ (t = NullPtr \/ topicHeap[t].subscriberList = <<>>)
  <2> DEFINE left       == unsubscribe(topicHeap[t], c)
             topicsLeft == topicsAfter(t, left)
             heapLeft   == IF t \in topicsLeft
                           THEN store(topicHeap, t, left) ELSE free(topicHeap, t)
             drop == ~ isSubscribedToOtherTopic(heapLeft, topicsLeft, client)
  <2>1. unsubscribeFrom(t, client, c)
    BY <1>2 DEF handleUnsubscribeRequest
  <2>2. t \in topics
    BY <1>2, findTopicResult
  <2>3. CASE c = NullPtr /\ topicsLeft # {}
    <3>1. Exit("crashed")
      BY <2>1, <2>3 DEF unsubscribeFrom
    <3> QED
      BY <3>1, ExitStep
  <2>4. CASE ~ (c = NullPtr /\ topicsLeft # {})
    <3>1. /\ topics' = topicsLeft
          /\ topicHeap' = heapLeft
          /\ clientConnections' =
               IF drop THEN clientConnections \ {c} ELSE clientConnections
          /\ connHeap' = IF drop THEN free(connHeap, c) ELSE connHeap
          /\ response' = Response("unsubscribe", "success", {})
          /\ sent' = {}
          /\ TimePasses
          /\ UNCHANGED process
      BY <2>1, <2>4 DEF unsubscribeFrom
    <3>2. /\ topicsLeft \subseteq topics
          /\ heapLeft \in [topicsLeft -> TopicObject]
          /\ \A p \in topicsLeft :
               /\ ValidTopic(heapLeft[p], clientConnections)
               /\ heapLeft[p].topicName = topicHeap[p].topicName
      BY <2>2, topicsLeftResult
    <3> HIDE DEF heapLeft, topicsLeft, t
    <3>3. ASSUME drop, NEW p \in topicsLeft
          PROVE  c \notin Range(heapLeft[p].subscriberList)
      <4>1. connHeap[c] = client
        BY <2>4, findConnectionResult
      <4> QED
        BY <3>3, <4>1 DEF isSubscribedToOtherTopic, hasClient, Range
    <3>4. ASSUME NEW p \in topics' PROVE ValidTopic(topicHeap[p], clientConnections)'
      <4>1. p \in topicsLeft /\ ValidTopic(heapLeft[p], clientConnections)
        BY <3>1, <3>2
      <4>2. Range(heapLeft[p].subscriberList) \subseteq clientConnections'
        BY <3>1, <3>3, <4>1 DEF ValidTopic
      <4> QED
        BY <3>1, <4>1, <4>2 DEF ValidTopic
    <3>5. /\ clientConnections' \subseteq clientConnections
          /\ connHeap' \in [clientConnections' -> Client]
          /\ \A d \in clientConnections' : connHeap'[d] = connHeap[d]
      <4>1. connHeap \in [clientConnections -> Client]
        BY DEF IInv, ValidRegistry
      <4>2. /\ free(connHeap, c) \in [clientConnections \ {c} -> Client]
            /\ \A d \in clientConnections \ {c} : free(connHeap, c)[d] = connHeap[d]
        BY <4>1 DEF free, Restrict
      <4> HIDE DEF drop, c
      <4> QED
        BY <3>1, <4>1, <4>2
    <3>6. ASSUME NEW p \in topics', NEW q \in topics',
                 topicHeap'[p].topicName = topicHeap'[q].topicName
          PROVE  p = q
      BY <3>1, <3>2, <3>6 DEF IInv, ValidRegistry
    <3>7. ASSUME NEW d \in clientConnections', NEW e \in clientConnections',
                 connHeap'[d] = connHeap'[e]
          PROVE  d = e
      BY <3>5, <3>7 DEF IInv, ValidRegistry
    <3>8. ValidRegistry'
      BY <3>1, <3>2, <3>4, <3>5, <3>6, <3>7 DEF IInv, ValidRegistry
    <3>9. ValidRest'
      BY <3>1, TimePassesResult
         DEF IInv, ValidRest, Response, Statuscode, CommandIdentifiers
    <3> QED
      BY <3>8, <3>9 DEF IInv
  <2> QED
    BY <2>3, <2>4
<1> QED
  BY <1>1, <1>2

LEMMA PublishStep ==
  ASSUME IInv, NEW name \in TopicName, NEW message \in Message,
         handlePublishRequest(name, message)
  PROVE  IInv'
<1> DEFINE t == findTopic(name)
<1>1. CASE t = NullPtr
  BY <1>1, ReadStep
     DEF handlePublishRequest, registry, Response, CommandIdentifiers, Statuscode
<1>2. CASE t # NullPtr
  <2>0. PICK r \in Readings :
          topicHeap' = store(topicHeap, t, setMessage(topicHeap[t], message, r[1], r[2]))
    BY <1>2 DEF handlePublishRequest
  <2> DEFINE new == setMessage(topicHeap[t], message, r[1], r[2])
  <2>1. /\ response' = Response("publish", "success", {})
        /\ topicHeap' = store(topicHeap, t, new)
        /\ sent' = {}
        /\ TimePasses
        /\ UNCHANGED <<process, topics, clientConnections, connHeap>>
    BY <1>2, <2>0 DEF handlePublishRequest
  <2>2. /\ t \in topics
        /\ topicHeap \in [topics -> TopicObject]
        /\ \A p \in topics : ValidTopic(topicHeap[p], clientConnections)
    BY <1>2, findTopicResult DEF IInv, ValidRegistry
  <2>3. /\ new \in TopicObject
        /\ new.topicName = topicHeap[t].topicName
        /\ new.subscriberList = topicHeap[t].subscriberList
    BY <2>1, <2>2, ReadingsResult DEF setMessage, TopicObject
  <2> HIDE DEF new, t
  <2>4. /\ topicHeap' \in [topics -> TopicObject]
        /\ topicHeap'[t] = new
        /\ \A p \in topics \ {t} : topicHeap'[p] = topicHeap[p]
    BY <2>1, <2>2, <2>3 DEF store
  <2>5. \A p \in topics : /\ ValidTopic(topicHeap'[p], clientConnections)
                         /\ topicHeap'[p].topicName = topicHeap[p].topicName
    BY <2>2, <2>3, <2>4 DEF ValidTopic
  <2>6. ValidRegistry'
    BY <2>1, <2>4, <2>5 DEF IInv, ValidRegistry
  <2>7. ValidRest'
    BY <2>1, TimePassesResult
       DEF IInv, ValidRest, Response, Statuscode, CommandIdentifiers
  <2> QED
    BY <2>6, <2>7 DEF IInv
<1> QED
  BY <1>1, <1>2

(* The topics that a pass publishes, and when it looks at them.            *)
LEMMA PassTopics ==
  ASSUME IInv, checkTopicTimeouts
  PROVE  \E due \in SUBSET topics : \E reading \in [due -> Readings] :
           pass(due, reading)
BY DEF checkTopicTimeouts

(* What a pass does to a topic.                                            *)
LEMMA PassResult ==
  ASSUME IInv, TimePasses, NEW due \in SUBSET topics,
         NEW reading \in [due -> Readings], pass(due, reading), NEW t \in topics
  PROVE  /\ topicHeap'[t] \in TopicObject
         /\ topicHeap'[t].topicName = topicHeap[t].topicName
         /\ topicHeap'[t].message = topicHeap[t].message
         /\ topicHeap'[t].subscriberList = topicHeap[t].subscriberList
         /\ t \in due => topicHeap'[t].timeoutTimestamp = reading[t][2] + topicTimeout
         /\ t \notin due => topicHeap'[t] = topicHeap[t]
<1>1. topicHeap \in [topics -> TopicObject] /\ topicHeap[t] \in TopicObject
  BY DEF IInv, ValidRegistry
<1>2. topicHeap'[t] = IF t \in due
        THEN [topicHeap[t] EXCEPT !.timeoutTimestamp = nextTimeout(reading[t][2])]
        ELSE topicHeap[t]
  BY <1>1 DEF pass
<1>3. CASE t \in due
  <2>1. reading[t][2] + topicTimeout \in Int
    BY <1>3, ReadingsResult, ServerAssumption
  <2> QED
    BY <1>1, <1>2, <1>3, <2>1 DEF TopicObject, nextTimeout
<1> QED
  BY <1>1, <1>2, <1>3

LEMMA HeartbeatStep ==
  ASSUME IInv, checkTopicTimeouts
  PROVE  IInv'
<1>0. PICK due \in SUBSET topics : \E reading \in [due -> Readings] :
        pass(due, reading)
  BY PassTopics
<1>0a. PICK reading \in [due -> Readings] : pass(due, reading)
  BY <1>0
<1>0b. TimePasses
  BY DEF checkTopicTimeouts
<1>1. /\ topicHeap \in [topics -> TopicObject]
      /\ connHeap \in [clientConnections -> Client]
      /\ \A p \in topics : ValidTopic(topicHeap[p], clientConnections)
  BY DEF IInv, ValidRegistry
<1>2. /\ UNCHANGED <<process, topics, clientConnections, connHeap>>
      /\ response' = NoResponse
  BY <1>0a DEF pass
<1>3. ASSUME NEW p \in topics
      PROVE  /\ topicHeap'[p] \in TopicObject
             /\ topicHeap'[p].topicName = topicHeap[p].topicName
             /\ topicHeap'[p].subscriberList = topicHeap[p].subscriberList
  BY <1>0a, <1>0b, PassResult
<1>4. topicHeap' \in [topics -> TopicObject]
  <2>1. topicHeap' = [p \in topics |-> topicHeap'[p]]
    BY <1>0a, <1>1 DEF pass
  <2> QED
    BY <1>3, <2>1
<1>5. \A p \in topics : ValidTopic(topicHeap'[p], clientConnections)
  BY <1>1, <1>3 DEF ValidTopic
<1>6. ValidRegistry'
  BY <1>2, <1>3, <1>4, <1>5 DEF IInv, ValidRegistry
<1>7. sent' \subseteq [to : Client, topicName : TopicName, message : Message,
                      messageTimestamp : Int]
  <2>1. ASSUME NEW p \in topics
        PROVE  publishMessage(topicHeap[p], connHeap) \subseteq
                 [to : Client, topicName : TopicName, message : Message,
                  messageTimestamp : Int]
    <3>1. topicHeap[p] \in TopicObject
      BY <1>1
    <3>2. Range(topicHeap[p].subscriberList) \subseteq clientConnections
      BY <1>1 DEF ValidTopic
    <3> QED
      BY <1>1, <3>1, <3>2, publishMessageResult
  <2> QED
    BY <1>0a, <2>1 DEF pass
<1>8. ValidRest'
  BY <1>0b, <1>2, <1>7, TimePassesResult DEF IInv, ValidRest, NoResponse, Response
<1> QED
  BY <1>6, <1>8 DEF IInv

-----------------------------------------------------------------------------
(* The theorems.                                                           *)

(* The server starts with an empty registry.                               *)
LEMMA InitIInv == Init => IInv
<1>1. ASSUME Init PROVE ValidRegistry
  <2>1. /\ topics = {} /\ clientConnections = {}
        /\ DOMAIN topicHeap = {} /\ DOMAIN connHeap = {}
        /\ topicHeap \in [{} -> TopicObject] /\ connHeap \in [{} -> Client]
    BY <1>1 DEF Init
  <2> QED
    BY <2>1 DEF ValidRegistry
<1>2. ASSUME Init PROVE ValidRest
  BY <1>2 DEF Init, ValidRest, NoResponse, Response
<1> QED
  BY <1>1, <1>2 DEF IInv

(* Every step of the server preserves the invariant.                       *)
LEMMA NextIInv == IInv /\ [Next]_vars => IInv'
<1> SUFFICES ASSUME IInv, [Next]_vars PROVE IInv'
  OBVIOUS
<1>1. CASE UNCHANGED vars
  BY <1>1 DEF vars, registry, IInv, ValidRegistry, ValidRest, ValidTopic
<1>2. CASE Start
  <2>1. ValidRegistry'
    BY <1>2 DEF Start, registry, IInv, ValidRegistry
  <2>2. ValidRest'
    BY <1>2 DEF Start, IInv, ValidRest, NoResponse, Response
  <2> QED
    BY <2>1, <2>2 DEF IInv
<1>3. CASE Stop
  BY <1>3, ExitStep DEF Stop
<1>4. CASE Tick
  <2>1. ValidRegistry'
    BY <1>4 DEF Tick, registry, IInv, ValidRegistry
  <2>2. ValidRest'
    BY <1>4 DEF Tick, IInv, ValidRest, NoResponse, Response
  <2> QED
    BY <2>1, <2>2 DEF IInv
<1>5. CASE handleListTopics
  BY <1>5, ReadStep DEF handleListTopics, Response, CommandIdentifiers, Statuscode
<1>6. ASSUME NEW name \in TopicName, handleGetTopicStatus(name) PROVE IInv'
  <2>1. /\ response'.command = "getTopicStatus"
        /\ response'.statusCode \in Statuscode
    BY <1>6 DEF handleGetTopicStatus, Response, Statuscode
  <2> QED
    BY <1>6, <2>1, ReadStep DEF handleGetTopicStatus, CommandIdentifiers
<1>7. CASE checkTopicTimeouts
  BY <1>7, HeartbeatStep
<1> QED
  BY <1>1, <1>2, <1>3, <1>4, <1>5, <1>6, <1>7, SubscribeStep, UnsubscribeStep,
     PublishStep
     DEF Next, Background, Request, Publish

(* The invariant has the four properties that the runs check.              *)
LEMMA IInvProperties ==
  IInv => TypeOK /\ MemorySafety /\ UniqueRegistration /\ NoEmptyTopic
BY DEF IInv, ValidRegistry, ValidRest, ValidTopic,
       TypeOK, MemorySafety, UniqueRegistration, NoEmptyTopic

(* The inductive invariant holds in every reachable state.                 *)
LEMMA AlwaysIInv == Spec => []IInv
BY InitIInv, NextIInv, PTL DEF Spec

(* The variables of Server have their types.                               *)
THEOREM TypeCorrect == Spec => []TypeOK
<1>1. IInv => TypeOK
  BY IInvProperties
<1> QED
  BY <1>1, AlwaysIInv, PTL

(* No request, in any order, leaves a dangling pointer or loses an object: *)
(* the delete of a connection (server.cpp:303-308) is safe although it     *)
(* looks the client up by address and port, and although Topic::unsubscribe*)
(* may have removed another client.                                        *)
THEOREM MemorySafe == Spec => []MemorySafety
<1>1. IInv => MemorySafety
  BY IInvProperties
<1> QED
  BY <1>1, AlwaysIInv, PTL

(* No two topics share a name, no two connections a client, and no client  *)
(* is listed twice by a topic (server.cpp:187-222, topic.cpp:74-83).       *)
THEOREM RegistrationUnique == Spec => []UniqueRegistration
<1>1. IInv => UniqueRegistration
  BY IInvProperties
<1> QED
  BY <1>1, AlwaysIInv, PTL

(* Outside the critical sections every topic has a subscriber, so the      *)
(* branch of server.cpp:279-284 is never taken.                            *)
THEOREM TopicsSubscribed == Spec => []NoEmptyTopic
<1>1. IInv => NoEmptyTopic
  BY IInvProperties
<1> QED
  BY <1>1, AlwaysIInv, PTL

-----------------------------------------------------------------------------
(* The refinement of SubscriptionService.                                  *)

(* What the pointers of the registry say is what the relation says.        *)
Readable ==
  /\ Subscriptions \subseteq Client \X TopicName
  /\ Service!Topics = {topicHeap[t].topicName : t \in topics}
  /\ \A t \in topics :
       /\ latestOf(topicHeap[t].topicName) = topicHeap[t].message
       /\ Service!Subscribers(topicHeap[t].topicName) =
            {connHeap[p] : p \in Range(topicHeap[t].subscriberList)}
  /\ \A name : (\A t \in topics : topicHeap[t].topicName # name)
                  => latestOf(name) = NoMessage

LEMMA PairElement ==
  ASSUME NEW client, NEW name
  PROVE  <<client, name>> \in Subscriptions <=>
           \E t \in topics : /\ topicHeap[t].topicName = name
                             /\ \E p \in Range(topicHeap[t].subscriberList) :
                                  connHeap[p] = client
BY DEF Subscriptions

LEMMA RegistryReadable == IInv => Readable
<1> SUFFICES ASSUME IInv PROVE Readable
  OBVIOUS
<1>1. /\ topicHeap \in [topics -> TopicObject]
      /\ connHeap \in [clientConnections -> Client]
      /\ \A t \in topics : ValidTopic(topicHeap[t], clientConnections)
      /\ \A s, t \in topics : topicHeap[s].topicName = topicHeap[t].topicName => s = t
      /\ NullPtr \notin topics
  BY ServerAssumption DEF IInv, ValidRegistry
<1>2. ASSUME NEW t \in topics
      PROVE  /\ topicHeap[t].topicName \in TopicName
             /\ \A p \in Range(topicHeap[t].subscriberList) : connHeap[p] \in Client
             /\ \E p : p \in Range(topicHeap[t].subscriberList)
  <2> DEFINE list == topicHeap[t].subscriberList
  <2>1. /\ topicHeap[t].topicName \in TopicName
        /\ list \in Seq(ConnPtr)
        /\ list # <<>>
        /\ Range(list) \subseteq clientConnections
    BY <1>1 DEF ValidTopic, TopicObject
  <2>2. 1 \in DOMAIN list
    BY <2>1
  <2>3. list[1] \in Range(list)
    BY <2>2 DEF Range
  <2> QED
    BY <1>1, <2>1, <2>3
<1>3. Subscriptions \subseteq Client \X TopicName
  BY <1>2 DEF Subscriptions
<1>4. Service!Topics = {topicHeap[t].topicName : t \in topics}
  <2>1. Service!Topics = {s[2] : s \in Subscriptions}
    BY DEF Service!Topics
  <2>2. ASSUME NEW s \in Subscriptions
        PROVE  \E t \in topics : s[2] = topicHeap[t].topicName
    BY DEF Subscriptions
  <2>3. ASSUME NEW t \in topics
        PROVE  \E s \in Subscriptions : s[2] = topicHeap[t].topicName
    <3>1. PICK p \in Range(topicHeap[t].subscriberList) : TRUE
      BY <1>2
    <3>2. <<connHeap[p], topicHeap[t].topicName>> \in Subscriptions
      BY DEF Subscriptions
    <3> QED
      BY <3>2
  <2> QED
    BY <2>1, <2>2, <2>3
<1>5. ASSUME NEW t \in topics
      PROVE  /\ latestOf(topicHeap[t].topicName) = topicHeap[t].message
             /\ Service!Subscribers(topicHeap[t].topicName) =
                  {connHeap[p] : p \in Range(topicHeap[t].subscriberList)}
  <2> DEFINE name == topicHeap[t].topicName
  <2>1. findTopic(name) = t
    BY <1>1, findTopicResult
  <2>2. latestOf(name) = topicHeap[t].message
    BY <1>1, <2>1 DEF latestOf
  <2>3. Service!Subscribers(name) = {client \in Client : <<client, name>> \in Subscriptions}
    BY DEF Service!Subscribers
  <2>4. ASSUME NEW client \in Client
        PROVE  <<client, name>> \in Subscriptions <=>
                 \E p \in Range(topicHeap[t].subscriberList) : connHeap[p] = client
    BY <1>1, PairElement
  <2> QED
    BY <1>2, <2>2, <2>3, <2>4
<1>6. ASSUME NEW name, \A t \in topics : topicHeap[t].topicName # name
      PROVE  latestOf(name) = NoMessage
  BY <1>6, findTopicResult DEF latestOf
<1> QED
  BY <1>3, <1>4, <1>5, <1>6 DEF Readable

LEMMA NextReadable == IInv' => Readable'
BY RegistryReadable, PTL

-----------------------------------------------------------------------------
(* A handler touches at most the topic named: the rest of the registry     *)
(* reads as before.                                                        *)
OnlyTopic(t, name) ==
  /\ topics' \ {t} = topics \ {t}
  /\ \A s \in topics \ {t} :
       /\ topicHeap'[s] = topicHeap[s]
       /\ \A p \in Range(topicHeap[s].subscriberList) : connHeap'[p] = connHeap[p]
  /\ t \in topics => topicHeap[t].topicName = name
  /\ t \in topics' => topicHeap'[t].topicName = name

LEMMA OtherTopics ==
  ASSUME IInv, IInv', NEW t, NEW name, OnlyTopic(t, name),
         NEW other, other # name
  PROVE  /\ latestOf(other)' = latestOf(other)
         /\ \A client : <<client, other>> \in Subscriptions' <=>
                        <<client, other>> \in Subscriptions
<1>1. Readable /\ Readable'
  BY RegistryReadable, NextReadable
<1>2. ASSUME NEW s
      PROVE  /\ s \in topics /\ topicHeap[s].topicName = other <=>
                  s \in topics' /\ topicHeap'[s].topicName = other
             /\ s \in topics /\ topicHeap[s].topicName = other =>
                  /\ topicHeap'[s] = topicHeap[s]
                  /\ \A p \in Range(topicHeap[s].subscriberList) :
                       connHeap'[p] = connHeap[p]
  BY DEF OnlyTopic
<1>3. latestOf(other)' = latestOf(other)
  <2>1. CASE \E s \in topics : topicHeap[s].topicName = other
    <3>1. PICK s \in topics : topicHeap[s].topicName = other
      BY <2>1
    <3>2. s \in topics' /\ topicHeap'[s] = topicHeap[s]
      BY <1>2, <3>1
    <3>3. latestOf(other) = topicHeap[s].message
      BY <1>1, <3>1 DEF Readable
    <3>4. latestOf(other)' = topicHeap'[s].message
      BY <1>1, <3>1, <3>2 DEF Readable
    <3> QED
      BY <3>2, <3>3, <3>4
  <2>2. CASE \A s \in topics : topicHeap[s].topicName # other
    <3>1. \A s \in topics' : topicHeap'[s].topicName # other
      BY <1>2, <2>2
    <3>2. latestOf(other) = NoMessage
      BY <1>1, <2>2 DEF Readable
    <3>3. latestOf(other)' = NoMessage
      BY <1>1, <3>1 DEF Readable
    <3> QED
      BY <3>2, <3>3
  <2> QED
    BY <2>1, <2>2
<1>4. ASSUME NEW client
      PROVE  <<client, other>> \in Subscriptions' <=>
             <<client, other>> \in Subscriptions
  BY <1>2 DEF Subscriptions
<1> QED
  BY <1>3, <1>4

-----------------------------------------------------------------------------
(* One lemma per action: the step of the service that it implements.       *)

LEMMA ExitIsDown ==
  ASSUME IInv, process = "running", NEW how \in {"stopped", "crashed"}, Exit(how)
  PROVE  Service!Down
<1>1. topics' = {} /\ process' = how /\ response' = NoResponse /\ sent' = {}
  BY DEF Exit
<1>2. Subscriptions' = {}
  BY <1>1 DEF Subscriptions
<1>3. \A name : latestOf(name)' = NoMessage
  BY <1>1 DEF latestOf, findTopic
<1> QED
  BY <1>1, <1>2, <1>3
     DEF Service!Down, Service!NoReply, Service!Reply, NoResponse, Response

(* A step that leaves the registry alone leaves the service's state alone. *)
LEMMA RegistryKept ==
  ASSUME UNCHANGED registry
  PROVE  Subscriptions' = Subscriptions /\ \A name : latestOf(name)' = latestOf(name)
BY DEF registry, Subscriptions, latestOf, findTopic

(* The reply to a request is that of the service.                          *)
LEMMA AnswerGiven ==
  ASSUME NEW command, NEW status, NEW content,
         process = "running", UNCHANGED process, sent' = {},
         response'.command = command, response'.statusCode = status,
         response'.content = content
  PROVE  Service!Answer(command, status, content)
BY DEF Service!Answer, Service!Reply

LEMMA StartIsUp ==
  ASSUME Start
  PROVE  Service!Up
<1>1. /\ process # "running" /\ process' = "running"
      /\ response' = NoResponse /\ sent' = {} /\ UNCHANGED registry
  BY DEF Start
<1> QED
  BY <1>1, RegistryKept
     DEF Service!Up, Service!NoReply, Service!Reply, NoResponse, Response

LEMMA TickIsQuiet ==
  ASSUME Tick
  PROVE  Service!Quiet
<1>1. response' = NoResponse /\ sent' = {} /\ UNCHANGED <<process, registry>>
  BY DEF Tick
<1> QED
  BY <1>1, RegistryKept
     DEF Service!Quiet, Service!NoReply, Service!Reply, NoResponse, Response

LEMMA ListTopicsIsListTopics ==
  ASSUME IInv, handleListTopics
  PROVE  Service!ListTopics
<1>1. /\ process = "running" /\ sent' = {} /\ UNCHANGED <<process, registry>>
      /\ response' = Response("listTopics", "success",
                              {topicHeap[p].topicName : p \in topics})
  BY DEF handleListTopics
<1>2. Service!Topics = {topicHeap[p].topicName : p \in topics}
  BY RegistryReadable DEF Readable
<1> QED
  BY <1>1, <1>2, RegistryKept
     DEF Service!ListTopics, Service!Answer, Service!Reply, Response

(* A request for a topic that does not exist.                              *)
LEMMA NotFound ==
  ASSUME IInv, NEW name \in TopicName, findTopic(name) = NullPtr,
         NEW command, process = "running", sent' = {},
         UNCHANGED <<process, registry>>,
         response' = Response(command, "invalidParameter", {})
  PROVE  Service!NoSuchTopic(command, name)
<1>1. Service!Topics = {topicHeap[p].topicName : p \in topics}
  BY RegistryReadable DEF Readable
<1>2. name \notin Service!Topics
  BY <1>1, findTopicResult
<1> QED
  BY <1>2, RegistryKept
     DEF Service!NoSuchTopic, Service!Answer, Service!Reply, Response

LEMMA StatusIsStatus ==
  ASSUME IInv, NEW name \in TopicName, handleGetTopicStatus(name)
  PROVE  \/ Service!TopicStatus(name)
         \/ Service!NoSuchTopic("getTopicStatus", name)
<1> DEFINE t == findTopic(name)
<1>1. process = "running" /\ sent' = {} /\ UNCHANGED <<process, registry>>
  BY DEF handleGetTopicStatus
<1>2. CASE t = NullPtr
  BY <1>1, <1>2, NotFound DEF handleGetTopicStatus
<1>3. CASE t # NullPtr
  <2>1. t \in topics /\ topicHeap[t].topicName = name
    BY <1>3, findTopicResult
  <2>2. /\ response'.command = "getTopicStatus"
        /\ response'.statusCode = "success"
        /\ response'.content = {connHeap[p] : p \in Range(topicHeap[t].subscriberList)}
    BY <1>3 DEF handleGetTopicStatus, Response
  <2> HIDE DEF t
  <2>3. /\ name \in Service!Topics
        /\ response'.content = Service!Subscribers(name)
    BY <2>1, <2>2, RegistryReadable DEF Readable
  <2> QED
    BY <1>1, <2>2, <2>3, RegistryKept
       DEF Service!TopicStatus, Service!Answer, Service!Reply
<1> QED
  BY <1>2, <1>3

LEMMA SubscribeIsSubscribe ==
  ASSUME IInv, IInv', NEW client \in Client, NEW name \in TopicName,
         handleSubscribeRequest(client, name)
  PROVE  Service!Subscribe(client, name)
<1>0. /\ topicHeap \in [topics -> TopicObject]
      /\ connHeap \in [clientConnections -> Client]
      /\ \A t \in topics :
           /\ topicHeap[t].subscriberList \in Seq(ConnPtr)
           /\ Range(topicHeap[t].subscriberList) \subseteq clientConnections
      /\ \A r, s \in topics : topicHeap[r].topicName = topicHeap[s].topicName => r = s
  BY DEF IInv, ValidRegistry, ValidTopic, TopicObject
<1> DEFINE heapWith(c) == IF findConnection(client) = NullPtr
                          THEN store(connHeap, c, client) ELSE connHeap
<1>1a. PICK t \in topicCell(name), c \in connectionCell(client) :
         \E topic \in topicObject(name, t) :
           /\ topics' = topics \cup {t}
           /\ connHeap' = heapWith(c)
           /\ topicHeap' = store(topicHeap, t, subscribe(topic, heapWith(c), c))
           /\ response' = Response("subscribe",
                IF hasClient(topic, heapWith(c), client) THEN "failed" ELSE "success", {})
  BY DEF handleSubscribeRequest
<1>1. PICK topic \in topicObject(name, t) :
        /\ topics' = topics \cup {t}
        /\ connHeap' = heapWith(c)
        /\ topicHeap' = store(topicHeap, t, subscribe(topic, heapWith(c), c))
        /\ response' = Response("subscribe",
             IF hasClient(topic, heapWith(c), client) THEN "failed" ELSE "success", {})
  BY <1>1a
<1>2. process = "running" /\ sent' = {} /\ UNCHANGED process /\ TimePasses
  BY DEF handleSubscribeRequest
<1> DEFINE known == hasClient(topic, heapWith(c), client)
           new   == subscribe(topic, heapWith(c), c)
           list  == topic.subscriberList
<1>3. /\ connHeap'[c] = client
      /\ \A p \in clientConnections : connHeap'[p] = connHeap[p]
  <2>1. CASE findConnection(client) = NullPtr
    <3>1. c \notin clientConnections
      BY <2>1 DEF connectionCell, IInv, ValidRegistry
    <3>2. connHeap' = store(connHeap, c, client)
      BY <1>1, <2>1
    <3> QED
      BY <1>0, <3>1, <3>2 DEF store
  <2>2. CASE findConnection(client) # NullPtr
    <3>1. connHeap[c] = client
      BY <2>2, findConnectionResult DEF connectionCell
    <3> QED
      BY <1>1, <2>2, <3>1
  <2> QED
    BY <2>1, <2>2
<1>4. /\ topic.topicName = name
      /\ list \in Seq(ConnPtr)
      /\ Range(list) \subseteq clientConnections
      /\ topic.message = latestOf(name)
      /\ topic = [topic EXCEPT !.subscriberList = list]
      /\ \A s \in topics : topicHeap[s].topicName = name <=> s = t /\ t \in topics
      /\ t \in topics => topic = topicHeap[t]
      /\ t \notin topics => list = <<>>
      /\ topic \in TopicObject
  <2>1. CASE findTopic(name) = NullPtr
    <3>1. /\ t \notin topics
          /\ topic \in TopicObject
          /\ topic.topicName = name
          /\ topic.message = NoMessage
          /\ topic.subscriberList = <<>>
      BY <1>2, <2>1, topicObjectResult
    <3>2. latestOf(name) = NoMessage /\ \A s \in topics : topicHeap[s].topicName # name
      BY <2>1, findTopicResult DEF latestOf
    <3>3. <<>> \in Seq(ConnPtr) /\ Range(<<>>) = {}
      BY DEF Range
    <3> QED
      BY <3>1, <3>2, <3>3 DEF TopicObject
  <2>2. CASE findTopic(name) # NullPtr
    <3>1. /\ t = findTopic(name) /\ t \in topics /\ topicHeap[t].topicName = name
          /\ topic = topicHeap[t] /\ topic \in TopicObject
      BY <1>2, <2>2, findTopicResult, topicObjectResult
    <3>2. latestOf(name) = topicHeap[t].message
      BY <2>2, <3>1 DEF latestOf
    <3> QED
      BY <1>0, <3>1, <3>2 DEF TopicObject
  <2> QED
    BY <2>1, <2>2
<1>5. connHeap' = heapWith(c)
  BY <1>1
<1>5a. /\ response'.command = "subscribe"
       /\ response'.statusCode = IF known THEN "failed" ELSE "success"
       /\ response'.content = {}
  BY <1>1 DEF Response
<1>5b. topicHeap' = store(topicHeap, t, new) /\ topics' = topics \cup {t}
  BY <1>1
<1> HIDE DEF heapWith
<1>6. known <=> \E p \in Range(list) : connHeap[p] = client
  BY <1>3, <1>4, <1>5 DEF hasClient, Range
<1>7. known <=> <<client, name>> \in Subscriptions
  <2>1. CASE t \in topics
    BY <1>4, <1>6, <2>1, PairElement
  <2>2. CASE t \notin topics
    <3>1. ~ known
      BY <1>4, <2>2 DEF hasClient
    <3> QED
      BY <1>4, <2>2, <3>1, PairElement
  <2> QED
    BY <2>1, <2>2
<1>8. /\ new.topicName = name
      /\ new.message = latestOf(name)
      /\ \A p : p \in Range(new.subscriberList) <=>
                 p \in Range(list) \/ (p = c /\ ~ known)
  <2>1. heapWith(c)[c] = client /\ c \in ConnPtr
    BY <1>3, <1>5 DEF connectionCell, IInv, ValidRegistry, findConnection
  <2>2. CASE known
    BY <1>4, <2>1, <2>2 DEF subscribe
  <2>3. CASE ~ known
    <3>1. new = [topic EXCEPT !.subscriberList = Append(list, c)]
      BY <2>1, <2>3 DEF subscribe
    <3>2. Range(Append(list, c)) = Range(list) \cup {c}
      BY <1>4, <2>1, AppendElements
    <3> HIDE DEF known, new
    <3>3. /\ new.topicName = topic.topicName
          /\ new.message = topic.message
          /\ new.subscriberList = Append(list, c)
      BY <1>4, <3>1 DEF TopicObject
    <3> QED
      BY <1>4, <2>3, <3>2, <3>3
  <2> QED
    BY <2>2, <2>3
<1> HIDE DEF known, new, list
<1>9. /\ topicHeap'[t] = new
       /\ \A s \in topics \ {t} : topicHeap'[s] = topicHeap[s]
  BY <1>0, <1>5b DEF store
<1>10. OnlyTopic(t, name)
  BY <1>0, <1>3, <1>4, <1>8, <1>5b, <1>9 DEF OnlyTopic
<1>11. ASSUME NEW n PROVE latestOf(n)' = latestOf(n)
  <2>1. CASE n = name
    <3>1. t \in topics' /\ topicHeap'[t].topicName = name
      BY <1>8, <1>5b, <1>9
    <3>2. latestOf(name)' = topicHeap'[t].message
      BY <3>1, NextReadable DEF Readable
    <3> QED
      BY <1>8, <1>9, <2>1, <3>2
  <2> QED
    BY <1>10, <2>1, OtherTopics
<1>12. ASSUME NEW x, NEW n
       PROVE  <<x, n>> \in Subscriptions' <=>
                <<x, n>> \in Subscriptions \cup {<<client, name>>}
  <2>1. CASE n = name
    <3>1. <<x, n>> \in Subscriptions' <=>
            \E p \in Range(new.subscriberList) : connHeap'[p] = x
      <4>1. \A s \in topics' : topicHeap'[s].topicName = name <=> s = t
        BY <1>4, <1>8, <1>5b, <1>9
      <4>2. <<x, n>> \in Subscriptions' <=>
              \E s \in topics' :
                 /\ topicHeap'[s].topicName = n
                 /\ \E p \in Range(topicHeap'[s].subscriberList) : connHeap'[p] = x
        BY DEF Subscriptions
      <4> QED
        BY <1>5b, <1>9, <2>1, <4>1, <4>2
    <3>2. <<x, n>> \in Subscriptions <=>
            \E p \in Range(list) : connHeap[p] = x
      <4>1. CASE t \in topics
        BY <1>4, <2>1, <4>1, PairElement DEF list
      <4>2. CASE t \notin topics
        <5>1. Range(list) = {}
          BY <1>4, <4>2 DEF list, Range
        <5> QED
          BY <1>4, <2>1, <4>2, <5>1, PairElement
      <4> QED
        BY <4>1, <4>2
    <3>3. (\E p \in Range(new.subscriberList) : connHeap'[p] = x) <=>
            (\E p \in Range(list) : connHeap[p] = x) \/ (x = client /\ ~ known)
      BY <1>3, <1>4, <1>8 DEF list
    <3>4. known => <<client, name>> \in Subscriptions
      BY <1>7
    <3> QED
      BY <2>1, <3>1, <3>2, <3>3, <3>4
  <2>2. CASE n # name
    BY <1>10, <2>2, OtherTopics
  <2> QED
    BY <2>1, <2>2
<1>13. Subscriptions' = Subscriptions \cup {<<client, name>>}
  <2>1. Subscriptions \subseteq Client \X TopicName
        /\ Subscriptions' \subseteq Client \X TopicName
    BY RegistryReadable, NextReadable DEF Readable
  <2> QED
    BY <1>12, <2>1
<1>14. Service!Answer("subscribe",
         IF <<client, name>> \in Subscriptions THEN "failed" ELSE "success", {})
  BY <1>2, <1>5a, <1>7, AnswerGiven
<1> QED
  BY <1>11, <1>13, <1>14 DEF Service!Subscribe

(* A pair of the relation is a subscription to a topic of that name, and a *)
(* subscription of a client: two relations are compared pair by pair.      *)
LEMMA PairsDecide ==
  ASSUME IInv, IInv', NEW Rest,
         \A x, n : <<x, n>> \in Subscriptions' <=>
                   <<x, n>> \in Subscriptions /\ <<x, n>> \notin Rest
  PROVE  Subscriptions' = Subscriptions \ Rest
<1>1. /\ Subscriptions \subseteq Client \X TopicName
      /\ Subscriptions' \subseteq Client \X TopicName
  BY RegistryReadable, NextReadable DEF Readable
<1> QED
  BY <1>1

LEMMA PublishIsPublish ==
  ASSUME IInv, IInv', NEW name \in TopicName, NEW message \in Message,
         handlePublishRequest(name, message)
  PROVE  \/ Service!Publish(name, message)
         \/ Service!NoSuchTopic("publish", name)
<1> DEFINE t == findTopic(name)
<1>1. /\ process = "running"
      /\ sent' = {}
      /\ UNCHANGED <<process, topics, clientConnections, connHeap>>
  BY DEF handlePublishRequest
<1>2. CASE t = NullPtr
  BY <1>1, <1>2, NotFound DEF handlePublishRequest, registry
<1>3. CASE t # NullPtr
  <2>0. PICK r \in Readings :
          topicHeap' = store(topicHeap, t, setMessage(topicHeap[t], message, r[1], r[2]))
    BY <1>3 DEF handlePublishRequest
  <2> DEFINE new == setMessage(topicHeap[t], message, r[1], r[2])
  <2>1. /\ response' = Response("publish", "success", {})
        /\ topicHeap' = store(topicHeap, t, new)
    BY <1>3, <2>0 DEF handlePublishRequest
  <2>2. t \in topics /\ topicHeap[t].topicName = name
    BY <1>3, findTopicResult
  <2>3. /\ topicHeap \in [topics -> TopicObject]
        /\ topicHeap[t] \in TopicObject
    BY <2>2 DEF IInv, ValidRegistry
  <2>4. /\ new.topicName = name
        /\ new.message = message
        /\ new.subscriberList = topicHeap[t].subscriberList
    BY <2>2, <2>3 DEF setMessage, TopicObject
  <2> HIDE DEF t, new
  <2>5. /\ topicHeap'[t] = new
        /\ \A s \in topics \ {t} : topicHeap'[s] = topicHeap[s]
    BY <2>1, <2>2, <2>3 DEF store
  <2>6. OnlyTopic(t, name)
    BY <1>1, <2>2, <2>4, <2>5 DEF OnlyTopic
  <2>7. latestOf(name)' = message
    BY <1>1, <2>2, <2>4, <2>5, NextReadable DEF Readable
  <2>8. \A n : n # name => latestOf(n)' = latestOf(n)
    BY <2>6, OtherTopics
  <2>9. Subscriptions' = Subscriptions
    <3>1. ASSUME NEW x, NEW n
          PROVE  <<x, n>> \in Subscriptions' <=>
                   <<x, n>> \in Subscriptions /\ <<x, n>> \notin {}
      BY <1>1, <2>2, <2>4, <2>5 DEF Subscriptions
    <3>2. Subscriptions' = Subscriptions \ {}
      BY <3>1, PairsDecide
    <3> QED
      BY <3>2
  <2>10. name \in Service!Topics
    BY <2>2, RegistryReadable DEF Readable
  <2>11. Service!Answer("publish", "success", {})
    BY <1>1, <2>1, AnswerGiven DEF Response
  <2> QED
    BY <2>7, <2>8, <2>9, <2>10, <2>11 DEF Service!Publish
<1> QED
  BY <1>2, <1>3

LEMMA UnsubscribeIsUnsubscribe ==
  ASSUME IInv, IInv', NEW client \in Client, NEW name \in TopicName,
         handleUnsubscribeRequest(client, name)
  PROVE  \/ Service!Unsubscribe(name)
         \/ Service!NoSuchTopic("unsubscribe", name)
         \/ Service!Down
<1> DEFINE t    == findTopic(name)
           c    == findConnection(client)
           left == unsubscribe(topicHeap[t], c)
           list == topicHeap[t].subscriberList
           gone == connHeap[Head(list)]
<1>1. process = "running"
  BY DEF handleUnsubscribeRequest
<1>2. CASE t = NullPtr
  BY <1>1, <1>2, NotFound DEF handleUnsubscribeRequest
<1>3. CASE t # NullPtr
  <2>1. /\ t \in topics
        /\ topicHeap[t].topicName = name
        /\ topicHeap \in [topics -> TopicObject]
        /\ connHeap \in [clientConnections -> Client]
        /\ ValidTopic(topicHeap[t], clientConnections)
    BY <1>3, findTopicResult DEF IInv, ValidRegistry
  <2>2. /\ list \in Seq(ConnPtr)
        /\ list # <<>>
        /\ Range(list) \subseteq clientConnections
        /\ topicHeap[t] \in TopicObject
    BY <2>1 DEF ValidTopic, TopicObject
  <2>3. unsubscribeFrom(t, client, c)
    BY <1>3, <2>2 DEF handleUnsubscribeRequest
  <2>4. CASE Exit("crashed")
    BY <1>1, <2>4, ExitIsDown
  <2>5. CASE ~ Exit("crashed")
    <3> DEFINE topicsLeft == topicsAfter(t, left)
               heapLeft   == IF t \in topicsLeft
                             THEN store(topicHeap, t, left) ELSE free(topicHeap, t)
    <3>1. /\ topics' = topicsLeft
          /\ topicHeap' = heapLeft
          /\ connHeap' \in {connHeap, free(connHeap, c)}
          /\ response' = Response("unsubscribe", "success", {})
          /\ sent' = {}
          /\ UNCHANGED process
      BY <2>3, <2>5 DEF unsubscribeFrom
    <3>2. /\ Range(left.subscriberList) = Range(list) \ {Head(list)}
          /\ left.subscriberList \in Seq(ConnPtr)
          /\ left.topicName = name
          /\ left.message = topicHeap[t].message
      <4> DEFINE rest == eraseRemove(list, Head(list))
      <4>1. rest \in Seq(ConnPtr) /\ Range(rest) = Range(list) \ {Head(list)}
        BY <2>2, eraseRemoveElements
      <4> HIDE DEF rest
      <4>2. left = [topicHeap[t] EXCEPT !.subscriberList = rest]
        BY DEF unsubscribe, rest
      <4> QED
        BY <2>1, <2>2, <4>1, <4>2 DEF TopicObject
    <3> HIDE DEF t, c, left
    <3>3. /\ topics' \subseteq topics
          /\ topics \ {t} = topics' \ {t}
          /\ t \in topics' <=> left.subscriberList # <<>>
          /\ t \in topics' => topicHeap'[t] = left
          /\ \A s \in topics \ {t} : topicHeap'[s] = topicHeap[s]
      BY <2>1, <3>1 DEF topicsAfter, store, free, Restrict
    <3>4. \A p \in clientConnections' : connHeap'[p] = connHeap[p]
      <4>1. DOMAIN connHeap' = clientConnections'
        BY DEF IInv, ValidRegistry
      <4> QED
        BY <2>1, <3>1, <4>1 DEF free, Restrict
    <3>5. /\ \A s \in topics' :
               Range(topicHeap'[s].subscriberList) \subseteq clientConnections'
          /\ \A s \in topics : topicHeap[s].topicName = name => s = t
      BY <2>1 DEF IInv, ValidRegistry, ValidTopic
    <3>6. OnlyTopic(t, name)
      BY <2>1, <3>2, <3>3, <3>4, <3>5 DEF OnlyTopic
    <3>7. Head(list) \in Range(list) /\ gone \in Client
      BY <2>1, <2>2 DEF Range
    <3>8. ASSUME NEW x
          PROVE  <<x, name>> \in Subscriptions' <=>
                   <<x, name>> \in Subscriptions /\ x # gone
      <4>1. <<x, name>> \in Subscriptions' <=>
              \E p \in Range(left.subscriberList) : connHeap[p] = x
        <5>1. <<x, name>> \in Subscriptions' <=>
                \E s \in topics' :
                   /\ topicHeap'[s].topicName = name
                   /\ \E p \in Range(topicHeap'[s].subscriberList) : connHeap'[p] = x
          BY DEF Subscriptions
        <5>2. \A s \in topics' : topicHeap'[s].topicName = name <=> s = t
          BY <2>1, <3>2, <3>3, <3>5
        <5>3. CASE t \in topics'
          BY <3>3, <3>4, <3>5, <5>1, <5>2, <5>3
        <5>4. CASE t \notin topics'
          BY <3>3, <5>1, <5>2, <5>4 DEF Range
        <5> QED
          BY <5>3, <5>4
      <4>2. <<x, name>> \in Subscriptions <=> \E p \in Range(list) : connHeap[p] = x
        BY <2>1, <3>5, PairElement
      <4>3. \A p, q \in Range(list) : connHeap[p] = connHeap[q] => p = q
        BY <2>2 DEF IInv, ValidRegistry
      <4> QED
        BY <3>2, <3>7, <4>1, <4>2, <4>3
    <3>9. Subscriptions' = Subscriptions \ {<<gone, name>>}
      <4>1. ASSUME NEW x, NEW n
            PROVE  <<x, n>> \in Subscriptions' <=>
                     <<x, n>> \in Subscriptions /\ <<x, n>> \notin {<<gone, name>>}
        BY <3>6, <3>8, OtherTopics
      <4> HIDE DEF gone
      <4> QED
        BY <4>1, PairsDecide
    <3>10. /\ gone \in Service!Subscribers(name)
           /\ Service!Subscribers(name) = {connHeap[p] : p \in Range(list)}
           /\ name \in Service!Topics
      BY <2>1, <3>7, RegistryReadable DEF Readable
    <3>11. \A n : n # name => latestOf(n)' = latestOf(n)
      BY <3>6, OtherTopics
    <3>12. Service!Subscribers(name) = {gone} <=> left.subscriberList = <<>>
      <4>1. left.subscriberList = <<>> <=> Range(left.subscriberList) = {}
        <5>1. ASSUME left.subscriberList # <<>>
              PROVE  left.subscriberList[1] \in Range(left.subscriberList)
          <6>1. 1 \in DOMAIN left.subscriberList
            BY <3>2, <5>1
          <6> QED
            BY <6>1 DEF Range
        <5>2. Range(<<>>) = {}
          BY DEF Range
        <5> QED
          BY <5>1, <5>2
      <4>2. \A p, q \in Range(list) : connHeap[p] = connHeap[q] => p = q
        BY <2>2 DEF IInv, ValidRegistry
      <4>3. Service!Subscribers(name) = {gone} <=> Range(list) = {Head(list)}
        BY <3>7, <3>10, <4>2
      <4> QED
        BY <3>2, <3>7, <4>1, <4>3
    <3>13. latestOf(name)' =
             IF Service!Subscribers(name) = {gone} THEN NoMessage ELSE latestOf(name)
      <4>1. CASE left.subscriberList = <<>>
        <5>1. \A s \in topics' : topicHeap'[s].topicName # name
          BY <3>3, <3>5, <4>1
        <5>2. latestOf(name)' = NoMessage
          BY <5>1, NextReadable DEF Readable
        <5> QED
          BY <3>12, <4>1, <5>2
      <4>2. CASE left.subscriberList # <<>>
        <5>1. t \in topics' /\ topicHeap'[t].topicName = name
          BY <3>2, <3>3, <4>2
        <5>2. latestOf(name)' = topicHeap'[t].message
          BY <5>1, NextReadable DEF Readable
        <5>3. latestOf(name) = topicHeap[t].message
          BY <2>1, RegistryReadable DEF Readable
        <5> QED
          BY <3>2, <3>3, <3>12, <4>2, <5>1, <5>2, <5>3
      <4> QED
        BY <4>1, <4>2
    <3>14. Service!Answer("unsubscribe", "success", {})
      BY <1>1, <3>1, AnswerGiven DEF Response
    <3> HIDE DEF gone
    <3> QED
      BY <3>9, <3>10, <3>11, <3>13, <3>14 DEF Service!Unsubscribe
  <2> QED
    BY <2>4, <2>5
<1> QED
  BY <1>2, <1>3

LEMMA PassIsDeliver ==
  ASSUME IInv, IInv', checkTopicTimeouts
  PROVE  Service!Deliver
<1>0. PICK due \in SUBSET topics : \E reading \in [due -> Readings] :
        pass(due, reading)
  BY PassTopics
<1>0a. PICK reading \in [due -> Readings] : pass(due, reading)
  BY <1>0
<1>0b. TimePasses
  BY DEF checkTopicTimeouts
<1>1. /\ process = "running"
      /\ UNCHANGED <<process, topics, connHeap>>
      /\ response' = NoResponse
      /\ sent' = UNION {publishMessage(topicHeap[t], connHeap) : t \in due}
  BY <1>0a DEF pass
<1>2. /\ topicHeap \in [topics -> TopicObject]
      /\ \A r, s \in topics : topicHeap[r].topicName = topicHeap[s].topicName => r = s
  BY DEF IInv, ValidRegistry
<1>3. ASSUME NEW t \in topics
      PROVE  /\ topicHeap'[t].topicName = topicHeap[t].topicName
             /\ topicHeap'[t].message = topicHeap[t].message
             /\ topicHeap'[t].subscriberList = topicHeap[t].subscriberList
  BY <1>0a, <1>0b, PassResult
<1>4. Subscriptions' = Subscriptions
  <2>1. ASSUME NEW x, NEW n
        PROVE  <<x, n>> \in Subscriptions' <=>
                 <<x, n>> \in Subscriptions /\ <<x, n>> \notin {}
    BY <1>1, <1>3 DEF Subscriptions
  <2>2. Subscriptions' = Subscriptions \ {}
    BY <2>1, PairsDecide
  <2> QED
    BY <2>2
<1>5. ASSUME NEW n PROVE latestOf(n)' = latestOf(n)
  <2>1. CASE \E t \in topics : topicHeap[t].topicName = n
    <3>1. PICK t \in topics : topicHeap[t].topicName = n
      BY <2>1
    <3>2. latestOf(n) = topicHeap[t].message
      BY <3>1, RegistryReadable DEF Readable
    <3>3. latestOf(n)' = topicHeap'[t].message
      BY <1>1, <1>3, <3>1, NextReadable DEF Readable
    <3> QED
      BY <1>3, <3>2, <3>3
  <2>2. CASE \A t \in topics : topicHeap[t].topicName # n
    <3>1. latestOf(n) = NoMessage
      BY <2>2, RegistryReadable DEF Readable
    <3>2. latestOf(n)' = NoMessage
      BY <1>1, <1>3, <2>2, NextReadable DEF Readable
    <3> QED
      BY <3>1, <3>2
  <2> QED
    BY <2>1, <2>2
<1> DEFINE dueNames == {topicHeap[t].topicName : t \in due}
           latest == [n \in TopicName |-> latestOf(n)]
           datagram(s) == [to |-> s[1], topicName |-> s[2], message |-> latest[s[2]]]
           delivery(d) == [to |-> d.to, topicName |-> d.topicName, message |-> d.message]
<1>6. dueNames \subseteq Service!Topics
  BY RegistryReadable DEF Readable
<1>7. ASSUME NEW d \in sent'
      PROVE  \E s \in Subscriptions : /\ s[2] \in dueNames
                                      /\ latest[s[2]] # NoMessage
                                      /\ delivery(d) = datagram(s)
  <2>1. PICK t \in due : d \in publishMessage(topicHeap[t], connHeap)
    BY <1>1
  <2>2. topicHeap[t].message # NoMessage
    BY <2>1 DEF publishMessage
  <2>3. PICK p \in Range(topicHeap[t].subscriberList) :
          d = SendMessage(connHeap[p], topicHeap[t].topicName,
                          topicHeap[t].message, topicHeap[t].messageTimestamp)
    BY <2>1 DEF publishMessage
  <2>4. <<connHeap[p], topicHeap[t].topicName>> \in Subscriptions
    BY DEF Subscriptions
  <2>5. latest[topicHeap[t].topicName] = topicHeap[t].message
    BY <1>2, RegistryReadable DEF Readable, TopicObject
  <2>6. /\ d.to = connHeap[p]
        /\ d.topicName = topicHeap[t].topicName
        /\ d.message = topicHeap[t].message
    BY <2>3 DEF SendMessage
  <2> QED
    BY <2>1, <2>2, <2>4, <2>5, <2>6
<1>8. ASSUME NEW s \in Subscriptions, s[2] \in dueNames, latest[s[2]] # NoMessage
      PROVE  \E d \in sent' : delivery(d) = datagram(s)
  <2>0. PICK t \in topics : \E p \in Range(topicHeap[t].subscriberList) :
          s = <<connHeap[p], topicHeap[t].topicName>>
    BY DEF Subscriptions
  <2>1. PICK p \in Range(topicHeap[t].subscriberList) :
          s = <<connHeap[p], topicHeap[t].topicName>>
    BY <2>0
  <2>2. t \in due
    BY <1>2, <1>8, <2>1
  <2>3. latest[s[2]] = topicHeap[t].message
    BY <1>2, <2>1, RegistryReadable DEF Readable, TopicObject
  <2> DEFINE d == SendMessage(connHeap[p], topicHeap[t].topicName,
                              topicHeap[t].message, topicHeap[t].messageTimestamp)
  <2>4. d \in publishMessage(topicHeap[t], connHeap)
    BY <1>8, <2>3 DEF publishMessage
  <2>5. d.to = s[1] /\ d.topicName = s[2] /\ d.message = latest[s[2]]
    BY <2>1, <2>3 DEF SendMessage
  <2> HIDE DEF d
  <2>6. d \in sent'
    BY <1>1, <2>2, <2>4
  <2> QED
    BY <2>5, <2>6
<1>9. {delivery(d) : d \in sent'} =
        {datagram(s) : s \in {r \in Subscriptions : /\ r[2] \in dueNames
                                                   /\ latest[r[2]] # NoMessage}}
  <2> HIDE DEF datagram, delivery, latest, dueNames
  <2> QED
    BY <1>7, <1>8
<1>10. response' = NoResponse /\ process = "running" /\ UNCHANGED process
  BY <1>1
<1> QED
  BY <1>4, <1>5, <1>6, <1>9, <1>10
     DEF Service!Deliver, Service!NoReply, Service!Reply, NoResponse, Response

-----------------------------------------------------------------------------
(* The theorem.                                                            *)

LEMMA InitRefines == Init => Service!ServiceInit
<1> SUFFICES ASSUME Init PROVE Service!ServiceInit
  OBVIOUS
<1>1. topics = {} /\ process = "stopped" /\ response = NoResponse /\ sent = {}
  BY DEF Init
<1>2. Subscriptions = {} /\ \A n : latestOf(n) = NoMessage
  BY <1>1 DEF Subscriptions, latestOf, findTopic
<1> QED
  BY <1>1, <1>2
     DEF Service!ServiceInit, Service!NoReply, Service!Reply, NoResponse, Response

LEMMA NextRefines ==
  IInv /\ IInv' /\ [Next]_vars => [Service!ServiceNext]_(Service!serviceVars)
<1> SUFFICES ASSUME IInv, IInv', [Next]_vars
             PROVE  Service!ServiceNext \/ UNCHANGED Service!serviceVars
  OBVIOUS
<1>1. CASE UNCHANGED vars
  BY <1>1, RegistryKept DEF vars, registry, Service!serviceVars
<1>2. CASE Background
  BY <1>2, StartIsUp, ExitIsDown, TickIsQuiet
     DEF Background, Stop, Service!ServiceNext
<1>3. CASE Request
  BY <1>3, ListTopicsIsListTopics, StatusIsStatus, SubscribeIsSubscribe,
     UnsubscribeIsUnsubscribe
     DEF Request, Service!ServiceNext
<1>4. CASE Publish
  BY <1>4, PublishIsPublish DEF Publish, Service!ServiceNext
<1>5. CASE checkTopicTimeouts
  BY <1>5, PassIsDeliver DEF Service!ServiceNext
<1> QED
  BY <1>1, <1>2, <1>3, <1>4, <1>5 DEF Next

(* Every behaviour of the server is one of the service: an unsubscribe     *)
(* that succeeds ends exactly one subscription of the topic named, a topic *)
(* is listed if and only if somebody is subscribed to it, a pass of the    *)
(* heartbeat sends the latest message of whole topics, and a reply tells   *)
(* what the registry held (server.cpp:143-441).                            *)
THEOREM ServerImplementsService == Spec => ImplementsService
BY InitRefines, NextRefines, AlwaysIInv, PTL
   DEF Spec, ImplementsService, Service!ServiceSpec
=============================================================================
