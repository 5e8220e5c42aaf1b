------------------------ MODULE ServerDeliveryProofs ------------------------
(***************************************************************************)
(* Proofs about ServerDelivery, for any number of clients, topics and      *)
(* messages and any timeout. OwedIsDue is preserved because the requests   *)
(* that come in between leave the message and the due time of a topic      *)
(* alone (TopicKept), and because a topic name stands for one topic        *)
(* (IInv). The spacing of the heartbeat is an action property: it needs    *)
(* that the due time of a topic is at least topicTimeout after its message *)
(* was last sent (SentIsSpaced).                                           *)
(***************************************************************************)
EXTENDS ServerDelivery, ServerProofs

(* What was sent last was not sent in the future, its topic exists, and it *)
(* is not due again before topicTimeout seconds have gone by.              *)
SentIsSpaced ==
  \A name \in TopicName :
    \/ lastSent[name] = Never
    \/ /\ lastSent[name][2] <= now
       /\ \E t \in topics :
            /\ topicHeap[t].topicName = name
            /\ topicHeap[t].timeoutTimestamp >= lastSent[name][2] + topicTimeout

DInv ==
  /\ IInv
  /\ owed \subseteq Debt
  /\ lastSent \in [TopicName -> (Int \X Int) \cup {Never}]
  /\ OwedIsDue
  /\ SentIsSpaced

-----------------------------------------------------------------------------
(* Every step but publish requests and passes of the heartbeat: topics may *)
(* go, and new ones come under names that had none; the others keep what   *)
(* is sent, and when.                                                      *)
TopicKept(t) ==
  \/ /\ t \in topics
     /\ topicHeap'[t].topicName = topicHeap[t].topicName
     /\ topicHeap'[t].message = topicHeap[t].message
     /\ topicHeap'[t].timeoutTimestamp = topicHeap[t].timeoutTimestamp
  \/ \A s \in topics : topicHeap[s].topicName # topicHeap'[t].topicName

LEMMA SubscribeKeepsTopics ==
  ASSUME IInv, NEW client \in Client, NEW name \in TopicName,
         handleSubscribeRequest(client, name)
  PROVE  \A t \in topics' : TopicKept(t)
<1> DEFINE heap(c) == IF findConnection(client) = NullPtr
                      THEN store(connHeap, c, client) ELSE connHeap
<1>1. PICK t \in topicCell(name), c \in connectionCell(client) :
        \E topic \in topicObject(name, t) :
          /\ topics' = topics \cup {t}
          /\ topicHeap' = store(topicHeap, t, subscribe(topic, heap(c), c))
  BY DEF handleSubscribeRequest
<1>2. PICK topic \in topicObject(name, t) :
        topicHeap' = store(topicHeap, t, subscribe(topic, heap(c), c))
  BY <1>1
<1>2a. TimePasses
  BY DEF handleSubscribeRequest
<1>3. /\ topics = DOMAIN topicHeap
      /\ topicHeap \in [topics -> TopicObject]
  BY DEF IInv, ValidRegistry
<1>4. \A s \in topics \ {t} : topicHeap'[s] = topicHeap[s]
  BY <1>2, <1>3 DEF store
<1>5. /\ topicHeap'[t] = subscribe(topic, heap(c), c)
      /\ topic \in TopicObject
      /\ topic.topicName = name
  BY <1>2, <1>2a, topicObjectResult DEF store
<1> HIDE DEF heap
<1>6. CASE findTopic(name) = NullPtr
  <2>1. topicHeap'[t].topicName = name
    BY <1>5 DEF subscribe, TopicObject
  <2>2. \A s \in topics : topicHeap[s].topicName # name
    BY <1>6, findTopicResult
  <2> QED
    BY <1>1, <1>4, <2>1, <2>2 DEF TopicKept
<1>7. CASE findTopic(name) # NullPtr
  <2>1. t \in topics /\ topic = topicHeap[t]
    BY <1>2a, <1>7, topicObjectResult
  <2>2. /\ topicHeap'[t].topicName = topicHeap[t].topicName
        /\ topicHeap'[t].message = topicHeap[t].message
        /\ topicHeap'[t].timeoutTimestamp = topicHeap[t].timeoutTimestamp
    BY <1>5, <2>1 DEF subscribe, TopicObject
  <2> QED
    BY <1>1, <1>4, <2>1, <2>2 DEF TopicKept
<1> QED
  BY <1>6, <1>7

LEMMA UnsubscribeKeepsTopics ==
  ASSUME IInv, NEW client \in Client, NEW name \in TopicName,
         handleUnsubscribeRequest(client, name)
  PROVE  \A t \in topics' : TopicKept(t)
<1> DEFINE t    == findTopic(name)
           c    == findConnection(client)
           left == unsubscribe(topicHeap[t], c)
<1>1. /\ topics = DOMAIN topicHeap
      /\ topicHeap \in [topics -> TopicObject]
  BY DEF IInv, ValidRegistry
<1>2. CASE UNCHANGED <<topics, topicHeap>>
  BY <1>2 DEF TopicKept
<1>3. CASE topics' = {}
  BY <1>3
<1>4. CASE /\ t \in topics
           /\ topics' = topicsAfter(t, left)
           /\ topicHeap' = IF t \in topics' THEN store(topicHeap, t, left)
                                            ELSE free(topicHeap, t)
  <2>1. topicHeap[t] \in TopicObject
    BY <1>1, <1>4
  <2>2. /\ left.topicName = topicHeap[t].topicName
        /\ left.message = topicHeap[t].message
        /\ left.timeoutTimestamp = topicHeap[t].timeoutTimestamp
    BY <2>1 DEF unsubscribe, TopicObject
  <2> HIDE DEF t, left
  <2>3. topics' \subseteq topics /\ (t \notin topics' => topics' = topics \ {t})
    BY <1>4 DEF topicsAfter
  <2>4. ASSUME NEW s \in topics', s # t PROVE topicHeap'[s] = topicHeap[s]
    BY <1>1, <1>4, <2>3, <2>4 DEF store, free, Restrict
  <2>5. t \in topics' => topicHeap'[t] = left
    BY <1>4 DEF store
  <2> QED
    BY <2>2, <2>3, <2>4, <2>5 DEF TopicKept
<1>5. \/ UNCHANGED <<topics, topicHeap>>
      \/ topics' = {}
      \/ /\ t \in topics
         /\ topics' = topicsAfter(t, left)
         /\ topicHeap' = IF t \in topics' THEN store(topicHeap, t, left)
                                          ELSE free(topicHeap, t)
  <2>1. CASE t = NullPtr \/ topicHeap[t].subscriberList = <<>>
    BY <2>1 DEF handleUnsubscribeRequest, registry
  <2>2. CASE ~ (t = NullPtr \/ topicHeap[t].subscriberList = <<>>)
    <3>1. t \in topics
      BY <2>2, findTopicResult
    <3>2. unsubscribeFrom(t, client, c)
      BY <2>2 DEF handleUnsubscribeRequest
    <3> HIDE DEF t, c
    <3> QED
      BY <3>1, <3>2 DEF unsubscribeFrom, Exit
  <2> QED
    BY <2>1, <2>2
<1> QED
  BY <1>2, <1>3, <1>4, <1>5

(* The same of all steps but publish requests and passes of the heartbeat, *)
(* which send nothing and never set the clock back.                        *)
LEMMA OtherStep ==
  ASSUME IInv, Background \/ Request
  PROVE  /\ sent' = {}
         /\ now' >= now
         /\ \A t \in topics' : TopicKept(t)
<1>1. CASE Start \/ Tick
  <2>1. sent' = {} /\ UNCHANGED <<topics, topicHeap>> /\ now' \in {now, now + 1}
    BY <1>1 DEF Start, Tick, registry
  <2> QED
    BY <2>1 DEF TopicKept, IInv, ValidRest
<1>1a. CASE handleListTopics \/ \E name \in TopicName : handleGetTopicStatus(name)
  <2>1. sent' = {} /\ UNCHANGED <<topics, topicHeap>> /\ TimePasses
    BY <1>1a DEF handleListTopics, handleGetTopicStatus, registry
  <2> QED
    BY <2>1, TimePassesResult DEF TopicKept
<1>2. CASE Stop
  BY <1>2, TimePassesResult DEF Stop, Exit
<1>3. ASSUME NEW name \in TopicName, NEW client \in Client,
             handleSubscribeRequest(client, name)
      PROVE  sent' = {} /\ now' >= now /\ \A t \in topics' : TopicKept(t)
  <2>1. sent' = {} /\ now' >= now
    BY <1>3, TimePassesResult DEF handleSubscribeRequest
  <2> QED
    BY <1>3, <2>1, SubscribeKeepsTopics
<1>4. ASSUME NEW name \in TopicName, NEW client \in Client,
             handleUnsubscribeRequest(client, name)
      PROVE  sent' = {} /\ now' >= now /\ \A t \in topics' : TopicKept(t)
  <2>1. sent' = {} /\ TimePasses
    BY <1>4 DEF handleUnsubscribeRequest, unsubscribeFrom, Exit
  <2> QED
    BY <1>4, <2>1, UnsubscribeKeepsTopics, TimePassesResult
<1> QED
  BY <1>1, <1>1a, <1>2, <1>3, <1>4 DEF Background, Request

-----------------------------------------------------------------------------
(* One lemma per action. That of IInv is in ServerProofs.                  *)

LEMMA DeliveryOtherStep ==
  ASSUME DInv, IInv', DeliveryOther
  PROVE  DInv'
<1>1. /\ sent' = {}
      /\ now' >= now /\ now \in Int /\ now' \in Int
      /\ \A t \in topics' : TopicKept(t)
  BY OtherStep DEF DInv, DeliveryOther, IInv, ValidRest
<1>2. /\ topicHeap \in [topics -> TopicObject]
      /\ topicHeap' \in [topics' -> TopicObject]
      /\ \A s, t \in topics : topicHeap[s].topicName = topicHeap[t].topicName => s = t
  BY DEF DInv, IInv, ValidRegistry
<1>3. owed' \subseteq Debt
  BY DEF DInv, DeliveryOther, Settle
<1>4. lastSent' \in [TopicName -> (Int \X Int) \cup {Never}]
  BY DEF DInv, DeliveryOther, Forget
<1>5. ASSUME NEW o \in owed'
      PROVE  \E t \in topics' :
               /\ topicHeap'[t].topicName = o.topicName
               /\ topicHeap'[t].message = o.message
               /\ topicHeap'[t].timeoutTimestamp <= now'
               /\ \E p \in Range(topicHeap'[t].subscriberList) : connHeap'[p] = o.to
  <2>1. o \in owed /\ <<o.to, o.topicName>> \in Subscriptions'
    BY DEF DeliveryOther, Settle
  <2>2. PICK t \in topics' :
          /\ topicHeap'[t].topicName = o.topicName
          /\ \E p \in Range(topicHeap'[t].subscriberList) : connHeap'[p] = o.to
    BY <2>1 DEF Subscriptions
  <2>3. PICK s \in topics : /\ topicHeap[s].topicName = o.topicName
                            /\ topicHeap[s].message = o.message
                            /\ topicHeap[s].timeoutTimestamp <= now
    BY <2>1 DEF DInv, OwedIsDue, timedOut
  <2>4. t \in topics /\ t = s
    BY <1>1, <1>2, <2>2, <2>3 DEF TopicKept
  <2>5. /\ topicHeap'[t].message = o.message
        /\ topicHeap'[t].timeoutTimestamp = topicHeap[s].timeoutTimestamp
    BY <1>1, <2>2, <2>3, <2>4 DEF TopicKept
  <2>6. topicHeap[s].timeoutTimestamp \in Int
    BY <1>2 DEF TopicObject
  <2>7. topicHeap'[t].timeoutTimestamp <= now'
    BY <1>1, <2>3, <2>5, <2>6
  <2> QED
    BY <2>2, <2>5, <2>7
<1>6. ASSUME NEW name \in TopicName, lastSent'[name] # Never
      PROVE  /\ lastSent'[name][2] <= now'
             /\ \E t \in topics' :
                  /\ topicHeap'[t].topicName = name
                  /\ topicHeap'[t].timeoutTimestamp >= lastSent'[name][2] + topicTimeout
  <2>1. lastSent'[name] = lastSent[name] /\ subscribersOf(name)' # {}
    BY <1>6 DEF DeliveryOther, Forget
  <2>2. PICK t \in topics' : topicHeap'[t].topicName = name
    BY <2>1 DEF subscribersOf, Subscriptions
  <2>3. PICK s \in topics :
          /\ topicHeap[s].topicName = name
          /\ topicHeap[s].timeoutTimestamp >= lastSent[name][2] + topicTimeout
    BY <1>6, <2>1 DEF DInv, SentIsSpaced
  <2>4. t \in topics /\ t = s
    BY <1>1, <1>2, <2>2, <2>3 DEF TopicKept
  <2>5. topicHeap'[t].timeoutTimestamp = topicHeap[s].timeoutTimestamp
    BY <1>1, <2>2, <2>3, <2>4 DEF TopicKept
  <2>6. lastSent[name][2] \in Int /\ lastSent[name][2] <= now
    BY <1>6, <2>1 DEF DInv, SentIsSpaced
  <2> QED
    BY <1>1, <2>1, <2>2, <2>3, <2>4, <2>5, <2>6
<1>7. OwedIsDue'
  BY <1>5 DEF OwedIsDue, timedOut
<1>8. SentIsSpaced'
  BY <1>6 DEF SentIsSpaced
<1> QED
  BY <1>3, <1>4, <1>7, <1>8 DEF DInv

LEMMA DeliveryPublishStep ==
  ASSUME DInv, IInv', DeliveryPublish
  PROVE  DInv'
<1>1. PICK name \in TopicName, message \in Message :
        /\ handlePublishRequest(name, message)
        /\ IF response'.statusCode = "success"
           THEN /\ owed' = {o \in owed : o.topicName # name}
                     \cup {[to |-> client, topicName |-> name, message |-> message] :
                             client \in subscribersOf(name)}
                /\ lastSent' = [lastSent EXCEPT ![name] = Never]
           ELSE UNCHANGED <<owed, lastSent>>
  BY DEF DeliveryPublish
<1> DEFINE t == findTopic(name)
<1>2. /\ topicHeap \in [topics -> TopicObject]
      /\ now \in Int
      /\ \A r, s \in topics : topicHeap[r].topicName = topicHeap[s].topicName => r = s
  BY DEF DInv, IInv, ValidRegistry, ValidRest
<1>3. /\ UNCHANGED <<topics, connHeap>>
      /\ TimePasses
      /\ now' \in Int /\ now <= now'
  BY <1>1, TimePassesResult DEF handlePublishRequest, DInv
<1>4. CASE t = NullPtr
  <2>1. UNCHANGED topicHeap /\ response'.statusCode = "invalidParameter"
    BY <1>1, <1>4 DEF handlePublishRequest, Response
  <2>2. UNCHANGED <<owed, lastSent>>
    BY <1>1, <2>1
  <2>3. OwedIsDue'
    <3>1. \A s \in topics : topicHeap[s].timeoutTimestamp <= now
                             => topicHeap[s].timeoutTimestamp <= now'
      BY <1>2, <1>3 DEF TopicObject
    <3> QED
      BY <1>3, <2>1, <2>2, <3>1 DEF DInv, OwedIsDue, timedOut
  <2>4. SentIsSpaced'
    <3>1. ASSUME NEW n \in TopicName, lastSent[n] # Never
          PROVE  /\ lastSent[n][2] <= now'
                 /\ \E s \in topics :
                      /\ topicHeap[s].topicName = n
                      /\ topicHeap[s].timeoutTimestamp >= lastSent[n][2] + topicTimeout
      <4>1. lastSent[n][2] \in Int /\ lastSent[n][2] <= now
        BY <3>1 DEF DInv, SentIsSpaced
      <4>2. lastSent[n][2] <= now'
        BY <1>2, <1>3, <4>1
      <4> QED
        BY <3>1, <4>2 DEF DInv, SentIsSpaced
    <3> QED
      BY <1>3, <2>1, <2>2, <3>1 DEF SentIsSpaced
  <2> QED
    BY <1>3, <2>2, <2>3, <2>4 DEF DInv
<1>5. CASE t # NullPtr
  <2>0. PICK r \in Readings :
          topicHeap' = store(topicHeap, t, setMessage(topicHeap[t], message, r[1], r[2]))
    BY <1>1, <1>5 DEF handlePublishRequest
  <2> DEFINE new == setMessage(topicHeap[t], message, r[1], r[2])
  <2>1. /\ topicHeap' = store(topicHeap, t, new)
        /\ response'.statusCode = "success"
    BY <1>1, <1>5, <2>0 DEF handlePublishRequest, Response
  <2>2. /\ owed' = {o \in owed : o.topicName # name}
              \cup {[to |-> client, topicName |-> name, message |-> message] :
                      client \in subscribersOf(name)}
        /\ lastSent' = [lastSent EXCEPT ![name] = Never]
    BY <1>1, <2>1
  <2>3. t \in topics /\ topicHeap[t].topicName = name
    BY <1>5, findTopicResult DEF DInv
  <2>4. /\ new.topicName = name
        /\ new.message = message
        /\ new.timeoutTimestamp \in Int
        /\ new.timeoutTimestamp <= now'
        /\ new.subscriberList = topicHeap[t].subscriberList
    BY <1>2, <1>3, <2>3, ReadingsResult DEF setMessage, TopicObject, DInv
  <2> HIDE DEF t, new
  <2>5. /\ topicHeap'[t] = new
        /\ \A s \in topics \ {t} : topicHeap'[s] = topicHeap[s]
    BY <1>2, <2>1, <2>3 DEF store
  <2>6. owed' \subseteq Debt
    <3>1. owed \subseteq Debt
      BY DEF DInv
    <3>2. ASSUME NEW client \in Client
          PROVE  [to |-> client, topicName |-> name, message |-> message] \in Debt
      BY DEF Debt
    <3>3. subscribersOf(name) \subseteq Client
      BY DEF subscribersOf
    <3> QED
      BY <2>2, <3>1, <3>2, <3>3
  <2>7. lastSent' \in [TopicName -> (Int \X Int) \cup {Never}]
    BY <2>2 DEF DInv
  <2>8. ASSUME NEW o \in owed'
        PROVE  \E s \in topics :
                 /\ topicHeap'[s].topicName = o.topicName
                 /\ topicHeap'[s].message = o.message
                 /\ topicHeap'[s].timeoutTimestamp <= now'
                 /\ \E p \in Range(topicHeap'[s].subscriberList) : connHeap[p] = o.to
    <3>1. CASE o \in owed /\ o.topicName # name
      <4>1. PICK s \in topics :
              /\ topicHeap[s].topicName = o.topicName
              /\ topicHeap[s].message = o.message
              /\ topicHeap[s].timeoutTimestamp <= now
              /\ \E p \in Range(topicHeap[s].subscriberList) : connHeap[p] = o.to
        BY <3>1 DEF DInv, OwedIsDue, timedOut
      <4>2. topicHeap'[s] = topicHeap[s]
        BY <2>3, <2>5, <3>1, <4>1
      <4>3. topicHeap[s].timeoutTimestamp <= now'
        BY <1>2, <1>3, <4>1 DEF TopicObject
      <4> QED
        BY <4>1, <4>2, <4>3
    <3>2. CASE \E client \in subscribersOf(name) :
                 o = [to |-> client, topicName |-> name, message |-> message]
      <4>1. PICK client \in subscribersOf(name) :
              o = [to |-> client, topicName |-> name, message |-> message]
        BY <3>2
      <4>2. PICK s \in topics :
              /\ topicHeap[s].topicName = name
              /\ \E p \in Range(topicHeap[s].subscriberList) : connHeap[p] = client
        BY <4>1 DEF subscribersOf, Subscriptions
      <4>3. s = t
        BY <1>2, <2>3, <4>2
      <4> QED
        BY <1>2, <2>3, <2>4, <2>5, <4>1, <4>2, <4>3
    <3> QED
      BY <2>2, <3>1, <3>2
  <2>9. ASSUME NEW n \in TopicName, lastSent'[n] # Never
        PROVE  /\ lastSent'[n][2] <= now'
               /\ \E s \in topics :
                    /\ topicHeap'[s].topicName = n
                    /\ topicHeap'[s].timeoutTimestamp >= lastSent'[n][2] + topicTimeout
    <3>1. n # name /\ lastSent'[n] = lastSent[n]
      BY <2>2, <2>9 DEF DInv
    <3>2. PICK s \in topics :
            /\ lastSent[n][2] <= now
            /\ topicHeap[s].topicName = n
            /\ topicHeap[s].timeoutTimestamp >= lastSent[n][2] + topicTimeout
      BY <2>9, <3>1 DEF DInv, SentIsSpaced
    <3>3. topicHeap'[s] = topicHeap[s]
      BY <2>3, <2>5, <3>1, <3>2
    <3>4. lastSent[n][2] \in Int
      BY <2>9, <3>1 DEF DInv
    <3> QED
      BY <1>2, <1>3, <3>1, <3>2, <3>3, <3>4
  <2>10. OwedIsDue'
    BY <1>3, <2>8 DEF OwedIsDue, timedOut
  <2>11. SentIsSpaced'
    BY <1>3, <2>9 DEF SentIsSpaced
  <2> QED
    BY <2>6, <2>7, <2>10, <2>11 DEF DInv
<1> QED
  BY <1>4, <1>5

(* Everything owed is handed over in a pass.                               *)
LEMMA PassSettles ==
  ASSUME DInv, checkTopicTimeouts, NEW o \in owed
  PROVE  HandedOver(o)
<1>1. PICK due \in SUBSET topics : \E reading \in [due -> Readings] :
        pass(due, reading)
  BY PassTopics DEF DInv
<1>2. PICK t \in topics :
        /\ topicHeap[t].topicName = o.topicName
        /\ topicHeap[t].message = o.message
        /\ timedOut(t, now)
        /\ \E p \in Range(topicHeap[t].subscriberList) : connHeap[p] = o.to
  BY DEF DInv, OwedIsDue
<1>3. PICK p \in Range(topicHeap[t].subscriberList) : connHeap[p] = o.to
  BY <1>2
<1>4. topicHeap[t].message # NoMessage
  BY <1>2, ServerAssumption DEF DInv, Debt
<1> DEFINE d == SendMessage(connHeap[p], topicHeap[t].topicName,
                            topicHeap[t].message, topicHeap[t].messageTimestamp)
<1>5. d \in publishMessage(topicHeap[t], connHeap)
  BY <1>3, <1>4 DEF publishMessage
<1>6. d.to = o.to /\ d.topicName = o.topicName /\ d.message = o.message
  BY <1>2, <1>3 DEF SendMessage
<1> HIDE DEF d
<1>7. d \in sent'
  BY <1>1, <1>2, <1>5 DEF pass
<1> QED
  BY <1>6, <1>7 DEF HandedOver

(* A datagram of a pass belongs to a topic that was due, and had a message.*)
LEMMA PassSends ==
  ASSUME NEW due \in SUBSET topics, NEW reading \in [due -> Readings],
         pass(due, reading), NEW d \in sent'
  PROVE  Sends(due, d.topicName) # {}
<1>1. PICK t \in due : d \in publishMessage(topicHeap[t], connHeap)
  BY DEF pass
<1> QED
  BY <1>1 DEF publishMessage, SendMessage, Sends

LEMMA DeliveryHeartbeatStep ==
  ASSUME DInv, IInv', DeliveryHeartbeat
  PROVE  DInv'
<1>1. PICK due \in SUBSET topics : \E reading \in [due -> Readings] :
        /\ pass(due, reading)
        /\ lastSent' = [n \in TopicName |->
             IF Sends(due, n) = {} THEN lastSent[n]
             ELSE reading[CHOOSE t \in Sends(due, n) : TRUE]]
  BY DEF DeliveryHeartbeat
<1>2. PICK reading \in [due -> Readings] :
        /\ pass(due, reading)
        /\ lastSent' = [n \in TopicName |->
             IF Sends(due, n) = {} THEN lastSent[n]
             ELSE reading[CHOOSE t \in Sends(due, n) : TRUE]]
  BY <1>1
<1>3. /\ TimePasses
      /\ checkTopicTimeouts
      /\ IInv
      /\ UNCHANGED topics
  BY <1>2 DEF DeliveryHeartbeat, checkTopicTimeouts, pass, DInv
<1>4. owed' = {}
  BY <1>3, PassSettles DEF DeliveryHeartbeat, Settle
<1>5. ASSUME NEW n \in TopicName, Sends(due, n) # {}
      PROVE  \E t \in due : /\ topicHeap[t].topicName = n
                            /\ lastSent'[n] = reading[t]
  <2> DEFINE t == CHOOSE t \in Sends(due, n) : TRUE
  <2>1. t \in Sends(due, n)
    BY <1>5
  <2>2. lastSent'[n] = reading[t]
    BY <1>2, <1>5
  <2> QED
    BY <2>1, <2>2 DEF Sends
<1>6. lastSent' \in [TopicName -> (Int \X Int) \cup {Never}]
  <2>1. Readings \subseteq Int \X Int
    BY <1>3, ReadingsResult DEF Readings
  <2>2. \A n \in TopicName : lastSent'[n] \in (Int \X Int) \cup {Never}
    BY <1>2, <1>5, <2>1 DEF DInv
  <2> QED
    BY <1>2, <2>2
<1>7. ASSUME NEW n \in TopicName, lastSent'[n] # Never
      PROVE  /\ lastSent'[n][2] <= now'
             /\ \E t \in topics :
                  /\ topicHeap'[t].topicName = n
                  /\ topicHeap'[t].timeoutTimestamp >= lastSent'[n][2] + topicTimeout
  <2>0. now \in Int /\ now' \in Int /\ now <= now'
    BY <1>3, TimePassesResult
  <2>1. CASE Sends(due, n) # {}
    <3>1. PICK t \in due : topicHeap[t].topicName = n /\ lastSent'[n] = reading[t]
      BY <1>5, <2>1
    <3>2. /\ topicHeap'[t].topicName = n
          /\ topicHeap'[t].timeoutTimestamp = reading[t][2] + topicTimeout
      BY <1>2, <1>3, <3>1, PassResult
    <3>3. reading[t][2] \in Int /\ reading[t][2] <= now'
      BY <1>3, ReadingsResult
    <3> QED
      BY <3>1, <3>2, <3>3, ServerAssumption
  <2>2. CASE Sends(due, n) = {}
    <3>1. lastSent'[n] = lastSent[n]
      BY <1>2, <2>2
    <3>2. PICK t \in topics :
            /\ lastSent[n][2] <= now
            /\ topicHeap[t].topicName = n
            /\ topicHeap[t].timeoutTimestamp >= lastSent[n][2] + topicTimeout
      BY <1>7, <3>1 DEF DInv, SentIsSpaced
    <3>2a. lastSent[n][2] \in Int
      BY <1>7, <3>1 DEF DInv
    <3>3. CASE t \notin due
      <4>1. topicHeap'[t] = topicHeap[t]
        BY <1>2, <1>3, <3>3, PassResult
      <4> QED
        BY <2>0, <3>1, <3>2, <3>2a, <4>1
    <3>4. CASE t \in due
      <4>1. /\ topicHeap'[t].topicName = n
            /\ topicHeap'[t].timeoutTimestamp = reading[t][2] + topicTimeout
        BY <1>2, <1>3, <3>2, <3>4, PassResult
      <4>2. reading[t][2] \in Int /\ now <= reading[t][2]
        <5>1. reading[t] \in Readings
          BY <3>4
        <5>2. /\ reading[t][1] \in Int /\ reading[t][2] \in Int
              /\ now <= reading[t][1] /\ reading[t][1] <= reading[t][2]
          BY <1>3, <5>1, ReadingsResult
        <5> QED
          BY <2>0, <5>2
      <4>3. reading[t][2] + topicTimeout >= lastSent[n][2] + topicTimeout
        BY <2>0, <3>2, <3>2a, <4>2, ServerAssumption
      <4> QED
        BY <2>0, <3>1, <3>2, <3>2a, <4>1, <4>3
    <3> QED
      BY <3>3, <3>4
  <2> QED
    BY <2>1, <2>2
<1>8. SentIsSpaced'
  BY <1>3, <1>7 DEF SentIsSpaced
<1> QED
  BY <1>4, <1>6, <1>8 DEF DInv, OwedIsDue

-----------------------------------------------------------------------------
(* The theorems.                                                           *)

(* Each step of this specification is one of Server.                       *)
LEMMA DeliveryRefines == [DeliveryNext]_deliveryVars => [Next]_vars
BY DEF DeliveryNext, DeliveryOther, DeliveryPublish, DeliveryHeartbeat,
       checkTopicTimeouts, Next,
       Publish, deliveryVars

LEMMA InitDInv == DeliveryInit => DInv
<1> SUFFICES ASSUME DeliveryInit PROVE DInv
  OBVIOUS
<1>1. IInv
  BY InitIInv DEF DeliveryInit
<1> QED
  BY <1>1 DEF DeliveryInit, DInv, OwedIsDue, SentIsSpaced

LEMMA NextDInv == DInv /\ [DeliveryNext]_deliveryVars => DInv'
<1> SUFFICES ASSUME DInv, [DeliveryNext]_deliveryVars PROVE DInv'
  OBVIOUS
<1>1. IInv'
  BY DeliveryRefines, NextIInv DEF DInv
<1>2. CASE UNCHANGED deliveryVars
  BY <1>1, <1>2 DEF deliveryVars, vars, registry, DInv, OwedIsDue, SentIsSpaced,
                    timedOut
<1> QED
  BY <1>1, <1>2, DeliveryOtherStep, DeliveryPublishStep, DeliveryHeartbeatStep
     DEF DeliveryNext

LEMMA AlwaysDInv == DeliverySpec => []DInv
BY InitDInv, NextDInv, PTL DEF DeliverySpec

(* Whatever is requested between a publish and the next pass, what is owed *)
(* to a subscriber is what its topic holds, and the topic is due           *)
(* (topic.cpp:61-67 against server.cpp:148).                               *)
THEOREM OwedStaysDue == DeliverySpec => []OwedIsDue
<1>1. DInv => OwedIsDue
  BY DEF DInv
<1> QED
  BY <1>1, AlwaysDInv, PTL

(* No other step could be a pass of the heartbeat that leaves a debt: the  *)
(* replies tell requests from it, and it would have sent something.        *)
LEMMA OthersSendNothing ==
  ASSUME DInv, DeliveryOther \/ DeliveryPublish
  PROVE  sent' = {}
<1>1. CASE DeliveryOther
  BY <1>1, OtherStep DEF DeliveryOther, DInv
<1>2. CASE DeliveryPublish
  BY <1>2 DEF DeliveryPublish, handlePublishRequest
<1> QED
  BY <1>1, <1>2

(* No pass of the heartbeat leaves a debt (server.cpp:145-155).            *)
THEOREM PassesSettle == DeliverySpec => PassSettlesAll
<1>1. DInv /\ [DeliveryNext]_deliveryVars
        => [checkTopicTimeouts => owed' = {}]_deliveryVars
  <2> SUFFICES ASSUME DInv, DeliveryNext, checkTopicTimeouts
               PROVE  owed' = {}
    OBVIOUS
  <2>1. \A o \in owed : HandedOver(o)
    BY PassSettles
  <2>2. CASE DeliveryPublish
    <3>1. PICK name \in TopicName, message \in Message :
            handlePublishRequest(name, message)
      BY <2>2 DEF DeliveryPublish
    <3>2. response'.command = "publish"
      BY <3>1 DEF handlePublishRequest, Response
    <3>3. response'.command = "none"
      BY DEF checkTopicTimeouts, pass, NoResponse, Response
    <3> QED
      BY <3>2, <3>3
  <2>3. CASE DeliveryOther \/ DeliveryHeartbeat
    BY <2>1, <2>3 DEF DeliveryOther, DeliveryHeartbeat, Settle
  <2> QED
    BY <2>2, <2>3 DEF DeliveryNext
<1> QED
  BY <1>1, AlwaysDInv, PTL DEF DeliverySpec, PassSettlesAll

(* However many clients join, leave or ask in between, a message is not    *)
(* repeated before topicTimeout seconds have gone by (server.cpp:148-154). *)
THEOREM HeartbeatsSpaced == DeliverySpec => HeartbeatSpacing
<1> DEFINE Spaced ==
      \A d \in sent' :
        \/ lastSent[d.topicName] = Never
        \/ lastSent'[d.topicName][1] >= lastSent[d.topicName][2] + topicTimeout
<1>1. DInv /\ [DeliveryNext]_deliveryVars => [Spaced]_deliveryVars
  <2> SUFFICES ASSUME DInv, DeliveryNext PROVE Spaced
    OBVIOUS
  <2>1. CASE ~ DeliveryHeartbeat
    BY <2>1, OthersSendNothing DEF DeliveryNext
  <2>2. CASE DeliveryHeartbeat
    <3>1. SUFFICES ASSUME NEW d \in sent', lastSent[d.topicName] # Never
                   PROVE  lastSent'[d.topicName][1]
                            >= lastSent[d.topicName][2] + topicTimeout
      OBVIOUS
    <3> DEFINE n == d.topicName
    <3>2. PICK due \in SUBSET topics : \E reading \in [due -> Readings] :
            /\ pass(due, reading)
            /\ lastSent' = [m \in TopicName |->
                 IF Sends(due, m) = {} THEN lastSent[m]
                 ELSE reading[CHOOSE t \in Sends(due, m) : TRUE]]
      BY <2>2 DEF DeliveryHeartbeat
    <3>3. PICK reading \in [due -> Readings] :
            /\ pass(due, reading)
            /\ lastSent' = [m \in TopicName |->
                 IF Sends(due, m) = {} THEN lastSent[m]
                 ELSE reading[CHOOSE t \in Sends(due, m) : TRUE]]
      BY <3>2
    <3>4. /\ IInv /\ TimePasses
          /\ topicTimeout \in Int
          /\ topicHeap \in [topics -> TopicObject]
          /\ \A r, s \in topics :
               topicHeap[r].topicName = topicHeap[s].topicName => r = s
      BY <2>2, ServerAssumption DEF DInv, IInv, ValidRegistry, DeliveryHeartbeat
    <3> DEFINE t == CHOOSE t \in Sends(due, n) : TRUE
    <3>5. t \in Sends(due, n)
      BY <3>3, PassSends
    <3>6. t \in due /\ topicHeap[t].topicName = n
      BY <3>5 DEF Sends
    <3>7. n \in TopicName /\ topicHeap[t].timeoutTimestamp \in Int
      BY <3>4, <3>6 DEF TopicObject
    <3>8. lastSent'[n] = reading[t]
      BY <3>3, <3>5, <3>7
    <3> HIDE DEF t
    <3>9. PICK s \in topics :
            /\ topicHeap[s].topicName = n
            /\ topicHeap[s].timeoutTimestamp >= lastSent[n][2] + topicTimeout
      BY <3>1, <3>7 DEF DInv, SentIsSpaced
    <3>10. s = t /\ lastSent[n][2] \in Int
      BY <3>1, <3>4, <3>6, <3>7, <3>9 DEF DInv
    <3>11. reading[t][1] \in Int /\ topicHeap[t].timeoutTimestamp <= reading[t][1]
      BY <3>3, <3>4, <3>6, ReadingsResult DEF pass, timedOut
    <3> QED
      BY <3>4, <3>7, <3>8, <3>9, <3>10, <3>11
  <2> QED
    BY <2>1, <2>2
<1> QED
  BY <1>1, AlwaysDInv, PTL DEF DeliverySpec, HeartbeatSpacing
=============================================================================
