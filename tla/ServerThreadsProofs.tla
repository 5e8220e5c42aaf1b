------------------------ MODULE ServerThreadsProofs ------------------------
(***************************************************************************)
(* Proofs about ServerThreads, for any number of threads, clients, topics  *)
(* and heap cells. The mutex is the key: whoever holds it is inside its    *)
(* critical section and all others are outside of theirs, where they have  *)
(* no pointers into the registry (HandlerInv). So a step of the holder has *)
(* to be looked at with regard to the holder alone (HandlerFrame).         *)
(***************************************************************************)
EXTENDS ServerThreads, ServerProofs

Inside == {"find", "connection", "list", "topic"}

Places == {"none", "recv", "lock", "send", "asleep", "pass"} \cup Inside

Pointers == [topicPtr : TopicPtr \cup {NullPtr},
             clientConnectionPtr : ConnPtr \cup {NullPtr}]

(* What the memory is at any time: unlike in ValidRegistry, the list of a  *)
(* topic may be empty in the middle of a handler.                          *)
ValidHeap ==
  /\ topics \subseteq TopicPtr
  /\ topics = DOMAIN topicHeap
  /\ topicHeap \in [topics -> TopicObject]
  /\ clientConnections \subseteq ConnPtr
  /\ clientConnections = DOMAIN connHeap
  /\ connHeap \in [clientConnections -> Client]
  /\ \A t \in topics :
       /\ Range(topicHeap[t].subscriberList) \subseteq clientConnections
       /\ IsInjective(topicHeap[t].subscriberList)
  /\ \A s, t \in topics : topicHeap[s].topicName = topicHeap[t].topicName => s = t
  /\ \A c, d \in clientConnections : connHeap[c] = connHeap[d] => c = d

(* A handler thread has the mutex exactly inside, pointers only there, and *)
(* what it uses next is alive. An unsubscribe keeps the connection of its  *)
(* own client, if there is one.                                            *)
HandlerInv(th) ==
  /\ place[th] \in {"none", "recv", "lock", "send"} \cup Inside
  /\ place[th] # "none" => process = "running"
  /\ mtx = th <=> place[th] \in Inside
  /\ place[th] \in Inside => request[th] \in Requests
  /\ place[th] \notin Inside => local[th] = NoPointers
  /\ place[th] = "find" => local[th] = NoPointers
  /\ place[th] \in {"connection", "list"} =>
       request[th].command \in {"subscribe", "unsubscribe"}
  /\ local[th].topicPtr \in topics \cup {NullPtr}
  /\ local[th].clientConnectionPtr \in clientConnections \cup {NullPtr}
  /\ place[th] \in {"list", "topic"} \/ At(th, "subscribe", "connection") =>
       local[th].topicPtr \in topics
  /\ At(th, "subscribe", "list") =>
       /\ local[th].clientConnectionPtr \in clientConnections
       /\ connHeap[local[th].clientConnectionPtr] = request[th].client
  /\ /\ request[th].command = "unsubscribe"
     /\ local[th].clientConnectionPtr # NullPtr
     => connHeap[local[th].clientConnectionPtr] = request[th].client

HeartbeatInv ==
  /\ place[Heartbeat] \in {"asleep", "pass"}
  /\ place[Heartbeat] = "pass" => process = "running"
  /\ mtx = Heartbeat <=> place[Heartbeat] = "pass"
  /\ visit \subseteq topics
  /\ place[Heartbeat] = "asleep" => visit = {} /\ outbox = {}

ThreadsTypeOK ==
  /\ mtx \in Thread \cup {Heartbeat, NoThread}
  /\ place \in [Thread \cup {Heartbeat} -> Places]
  /\ request \in [Thread -> Requests \cup {NoRequest}]
  /\ local \in [Thread -> Pointers]

\* No critical section began later than now.
ClockInv ==
  /\ now \in Int /\ since \in Int
  /\ since <= now /\ now <= MaxTime

MInv ==
  /\ ThreadsTypeOK
  /\ ClockInv
  /\ ValidHeap
  /\ HeartbeatInv
  /\ \A th \in Thread : HandlerInv(th)

-----------------------------------------------------------------------------
(* The clock.                                                              *)

\* What any step does: seconds may begin, and a critical section, too.
ClockMoves == now' \in now..MaxTime /\ since' \in {since, now'}

LEMMA ClockStep ==
  ASSUME MInv, ClockMoves
  PROVE  ClockInv' /\ now <= now'
<1>1. now \in Int /\ since \in Int /\ since <= now /\ MaxTime \in Int
  BY ServerAssumption DEF MInv, ClockInv
<1> QED
  BY <1>1 DEF ClockMoves, ClockInv

LEMMA SomeTimePasses ==
  ASSUME MInv, TimePasses \/ UNCHANGED now \/ (now < MaxTime /\ now' = now + 1),
         since' \in {since, now'}
  PROVE  ClockMoves
<1>1. now \in Int /\ now <= MaxTime /\ MaxTime \in Int
  BY ServerAssumption DEF MInv, ClockInv
<1> QED
  BY <1>1 DEF ClockMoves, TimePasses

(* The steps that change neither clock nor history, and those that do.     *)
LEMMA NextClockMoves ==
  ASSUME MInv, [ThreadsNext]_threadVars
  PROVE  ClockMoves
<1>1. CASE UNCHANGED threadVars
  BY <1>1, SomeTimePasses DEF threadVars, vars, historyVars
<1>2. ASSUME NEW th \in Thread, Connection(th) PROVE ClockMoves
  <2>1. CASE Lock(th)
    BY <2>1, SomeTimePasses DEF Lock, vars
  <2>2. CASE Accept(th) \/ Receive(th) \/ ReceiveFails(th) \/ Send(th)
    BY <2>2, SomeTimePasses
       DEF Accept, Receive, ReceiveFails, Send, Close, Outside, vars, historyVars
  <2> QED
    BY <1>2, <2>1, <2>2 DEF Connection
<1>3. ASSUME NEW th \in Thread, Critical(th) PROVE ClockMoves
  <2>1. CASE \/ FindOrCreateTopic(th) \/ FindOrCreateConnection(th) \/ LookUp(th)
             \/ RemoveFromList(th) \/ DeleteTopic(th)
             \/ FindTopic(th, "publish") \/ FindTopic(th, "getTopicStatus")
    BY <2>1, SomeTimePasses
       DEF FindOrCreateTopic, FindOrCreateConnection, LookUp, RemoveFromList,
           DeleteTopic, FindTopic, Step, Refuse, Return, historyVars
  <2>2. CASE AddToList(th) \/ SetMessage(th) \/ ReadStatus(th) \/ ListTopics(th)
    BY <2>2, SomeTimePasses DEF AddToList, SetMessage, ReadStatus, ListTopics, Return
  <2>3. CASE DeleteConnection(th)
    BY <2>3, SomeTimePasses DEF DeleteConnection, ProcessEnds, Exit, Return
  <2> QED
    BY <1>3, <2>1, <2>2, <2>3 DEF Critical
<1>4. CASE HeartbeatLocks \/ Pass
  BY <1>4, SomeTimePasses
     DEF HeartbeatLocks, Pass, Visit, HeartbeatUnlocks, vars, historyVars
<1>5. CASE Environment
  BY <1>5, SomeTimePasses
     DEF Environment, Start, ProcessEnds, Exit, SecondBegins, Tick, historyVars
<1> QED
  BY <1>1, <1>2, <1>3, <1>4, <1>5 DEF ThreadsNext

-----------------------------------------------------------------------------
(* Look-ups and updates of a heap.                                         *)

LEMMA LookUpTopic ==
  ASSUME ValidHeap, NEW name
  PROVE  /\ findTopic(name) = NullPtr => \A p \in topics : topicHeap[p].topicName # name
         /\ findTopic(name) # NullPtr => /\ findTopic(name) \in topics
                                         /\ topicHeap[findTopic(name)].topicName = name
<1> DEFINE found == {p \in topics : topicHeap[p].topicName = name}
<1>1. CASE found = {}
  BY <1>1 DEF findTopic
<1>2. CASE found # {}
  <2>1. findTopic(name) = CHOOSE p \in found : TRUE
    BY <1>2 DEF findTopic
  <2>2. findTopic(name) \in found
    BY <1>2, <2>1
  <2>3. NullPtr \notin topics
    BY ServerAssumption DEF ValidHeap
  <2> QED
    BY <2>2, <2>3
<1> QED
  BY <1>1, <1>2

LEMMA LookUpConnection ==
  ASSUME ValidHeap, NEW client
  PROVE  /\ findConnection(client) = NullPtr =>
              \A p \in clientConnections : connHeap[p] # client
         /\ findConnection(client) # NullPtr =>
              /\ findConnection(client) \in clientConnections
              /\ connHeap[findConnection(client)] = client
<1> DEFINE found == {p \in clientConnections : connHeap[p] = client}
<1>1. CASE found = {}
  BY <1>1 DEF findConnection
<1>2. CASE found # {}
  <2>1. findConnection(client) = CHOOSE p \in found : TRUE
    BY <1>2 DEF findConnection
  <2>2. findConnection(client) \in found
    BY <1>2, <2>1
  <2>3. NullPtr \notin clientConnections
    BY ServerAssumption DEF ValidHeap
  <2> QED
    BY <2>2, <2>3
<1> QED
  BY <1>1, <1>2

(* A topic object is replaced by one of the same name and with a list that *)
(* is as good.                                                             *)
LEMMA ReplaceTopic ==
  ASSUME ValidHeap, UNCHANGED <<topics, clientConnections, connHeap>>,
         NEW t \in topics, NEW new \in TopicObject,
         new.topicName = topicHeap[t].topicName,
         Range(new.subscriberList) \subseteq clientConnections,
         IsInjective(new.subscriberList),
         topicHeap' = store(topicHeap, t, new)
  PROVE  ValidHeap'
<1>1. /\ topicHeap' \in [topics -> TopicObject]
      /\ topicHeap'[t] = new
      /\ \A s \in topics \ {t} : topicHeap'[s] = topicHeap[s]
  BY DEF ValidHeap, store
<1>2. \A s \in topics :
        /\ Range(topicHeap'[s].subscriberList) \subseteq clientConnections
        /\ IsInjective(topicHeap'[s].subscriberList)
        /\ topicHeap'[s].topicName = topicHeap[s].topicName
  BY <1>1 DEF ValidHeap
<1> QED
  BY <1>1, <1>2 DEF ValidHeap

-----------------------------------------------------------------------------
(* Steps of the thread that holds the mutex.                               *)

LEMMA HolderIsInside ==
  ASSUME MInv, NEW th \in Thread, NEW command, NEW where \in Inside,
         At(th, command, where)
  PROVE  /\ mtx = th
         /\ process = "running"
         /\ request[th] \in Requests
         /\ request[th].command = command
         /\ place[th] = where
BY DEF At, MInv, HandlerInv, Inside

(* The others are outside, and stay as they are.                           *)
LEMMA HandlerFrame ==
  ASSUME MInv, NEW th \in Thread, mtx = th, mtx' \in {th, NoThread},
         NEW where \in Places, NEW pointers \in Pointers,
         place' = [place EXCEPT ![th] = where],
         local' = [local EXCEPT ![th] = pointers],
         request' \in [Thread -> Requests \cup {NoRequest}],
         UNCHANGED <<process, heartbeatVars>>, ClockMoves,
         ValidHeap', HandlerInv(th)'
  PROVE  MInv'
<1>1. /\ th # Heartbeat /\ th # NoThread /\ Heartbeat # NoThread
      /\ \A other \in Thread : other # Heartbeat /\ other # NoThread
  BY ThreadAssumption
<1>2. ThreadsTypeOK'
  BY DEF MInv, ThreadsTypeOK
<1>3. HeartbeatInv'
  <2>1. /\ place[Heartbeat] = "asleep" /\ visit = {} /\ outbox = {}
    BY <1>1 DEF MInv, HeartbeatInv
  <2>2. place'[Heartbeat] = place[Heartbeat]
    BY <1>1 DEF MInv, ThreadsTypeOK
  <2> QED
    BY <1>1, <2>1, <2>2 DEF HeartbeatInv, heartbeatVars
<1>4. ClockInv'
  BY ClockStep
<1>5. ASSUME NEW other \in Thread, other # th
      PROVE  HandlerInv(other)'
  <2>1. /\ HandlerInv(other)
        /\ place[other] \notin Inside
        /\ local[other] = NoPointers
        /\ mtx # other
    BY <1>5 DEF MInv, HandlerInv
  <2>2. /\ place'[other] = place[other]
        /\ local'[other] = local[other]
    BY <1>5 DEF MInv, ThreadsTypeOK
  <2>3. mtx' # other
    BY <1>1, <1>5
  <2> QED
    BY <2>1, <2>2, <2>3 DEF HandlerInv, NoPointers, At, Inside
<1> QED
  BY <1>2, <1>3, <1>4, <1>5 DEF MInv

LEMMA ReturnFrame ==
  ASSUME MInv, NEW th \in Thread, mtx = th, NEW early, NEW made,
         Return(th, early, made), ClockMoves, ValidHeap'
  PROVE  MInv'
<1>1. /\ mtx' = NoThread
      /\ place' = [place EXCEPT ![th] = "send"]
      /\ local' = [local EXCEPT ![th] = NoPointers]
      /\ request' = [request EXCEPT ![th] = NoRequest]
      /\ UNCHANGED <<process, heartbeatVars>>
  BY DEF Return, release, goto
<1>2. request' \in [Thread -> Requests \cup {NoRequest}]
  BY <1>1 DEF MInv, ThreadsTypeOK
<1>3. NoPointers \in Pointers
  BY DEF NoPointers, Pointers
<1>4. place'[th] = "send" /\ local'[th] = NoPointers
  BY <1>1 DEF MInv, ThreadsTypeOK
<1>5. process = "running"
  BY DEF MInv, HandlerInv, Inside
<1>6. HandlerInv(th)'
  BY <1>1, <1>4, <1>5, ThreadAssumption DEF HandlerInv, Inside, NoPointers, At
<1>7. "send" \in Places /\ mtx' \in {th, NoThread}
  BY <1>1 DEF Places
<1> HIDE DEF NoPointers
<1> QED
  BY <1>1, <1>2, <1>3, <1>6, <1>7, HandlerFrame

LEMMA RefuseFrame ==
  ASSUME MInv, NEW th \in Thread, mtx = th, NEW made, Refuse(th, made), ClockMoves
  PROVE  MInv'
<1>1. ValidHeap'
  BY DEF Refuse, MInv, ValidHeap, registry
<1> QED
  BY <1>1, ReturnFrame DEF Refuse

(* A step inside a handler after which its pointers are t and c.           *)
LEMMA StepFrame ==
  ASSUME MInv, NEW th \in Thread, mtx = th, NEW where \in Inside, where # "find",
         NEW t \in topics' \cup {NullPtr}, NEW c \in clientConnections' \cup {NullPtr},
         Step(th, where, t, c), ClockMoves, ValidHeap',
         where \in {"connection", "list"} =>
           request[th].command \in {"subscribe", "unsubscribe"},
         where \in {"list", "topic"} => t \in topics',
         where = "connection" /\ request[th].command = "subscribe" => t \in topics',
         where = "list" /\ request[th].command = "subscribe" =>
           c \in clientConnections' /\ connHeap'[c] = request[th].client,
         request[th].command = "unsubscribe" /\ c # NullPtr =>
           connHeap'[c] = request[th].client
  PROVE  MInv'
<1> DEFINE pointers == [topicPtr |-> t, clientConnectionPtr |-> c]
<1>1. /\ place' = [place EXCEPT ![th] = where]
      /\ local' = [local EXCEPT ![th] = pointers]
      /\ UNCHANGED <<process, mtx, request, heartbeatVars>>
  BY DEF Step, goto
<1>2. pointers \in Pointers
  BY DEF Pointers, ValidHeap
<1>3. /\ place'[th] = where
      /\ local'[th] = pointers
      /\ local'[th].topicPtr = t
      /\ local'[th].clientConnectionPtr = c
  BY <1>1 DEF MInv, ThreadsTypeOK
<1>4. process = "running" /\ request[th] \in Requests
  BY DEF MInv, HandlerInv, Inside
<1> HIDE DEF pointers
<1>5. HandlerInv(th)'
  BY <1>1, <1>3, <1>4 DEF HandlerInv, Inside, At
<1>6. request' \in [Thread -> Requests \cup {NoRequest}]
  BY <1>1 DEF MInv, ThreadsTypeOK
<1>7. where \in Places
  BY DEF Places
<1> QED
  BY <1>1, <1>2, <1>5, <1>6, <1>7, HandlerFrame

-----------------------------------------------------------------------------
(* One lemma per step of a handler.                                        *)

LEMMA FindOrCreateTopicStep ==
  ASSUME MInv, NEW th \in Thread, FindOrCreateTopic(th), ClockMoves
  PROVE  MInv'
<1> DEFINE name == request[th].topicName
<1>1. /\ mtx = th
      /\ request[th] \in Requests
      /\ request[th].command = "subscribe"
  BY HolderIsInside DEF FindOrCreateTopic, Inside
<1>2. name \in TopicName
  BY <1>1 DEF Requests
<1>3. PICK t \in topicCell(name) :
        /\ topics' = topics \cup {t}
        /\ topicHeap' = IF findTopic(name) = NullPtr
                        THEN store(topicHeap, t, NewTopic(name, now, now'))
                        ELSE topicHeap
        /\ Step(th, "connection", t, NullPtr)
  BY DEF FindOrCreateTopic
<1>4. UNCHANGED <<clientConnections, connHeap>>
  BY DEF FindOrCreateTopic
<1>5. ValidHeap'
  <2>1. CASE findTopic(name) = NullPtr
    <3> DEFINE new == NewTopic(name, now, now')
    <3>1. /\ t \in TopicPtr \ topics
          /\ topics = DOMAIN topicHeap
          /\ topicHeap \in [topics -> TopicObject]
      BY <2>1 DEF topicCell, MInv, ValidHeap
    <3>2. /\ new.topicName = name
          /\ new.subscriberList = <<>>
          /\ new \in TopicObject
      <4>1. /\ now \in Int /\ now' \in Int
            /\ <<>> \in Seq(ConnPtr) /\ NoMessage \in Message \cup {NoMessage}
        BY ClockStep DEF MInv, ClockInv
      <4> QED
        BY <1>2, <4>1 DEF NewTopic, TopicObject
    <3> HIDE DEF new
    <3>3. topicHeap' = store(topicHeap, t, new)
      BY <1>3, <2>1 DEF new
    <3>4. /\ topicHeap' \in [topics' -> TopicObject]
          /\ topicHeap'[t] = new
          /\ \A s \in topics : topicHeap'[s] = topicHeap[s]
      BY <1>3, <3>1, <3>2, <3>3 DEF store
    <3>5. Range(<<>>) = {} /\ IsInjective(<<>>)
      BY DEF Range, IsInjective
    <3>6. \A s \in topics' :
            /\ Range(topicHeap'[s].subscriberList) \subseteq clientConnections
            /\ IsInjective(topicHeap'[s].subscriberList)
      BY <1>3, <3>2, <3>4, <3>5 DEF MInv, ValidHeap
    <3>7. \A r, s \in topics' : topicHeap'[r].topicName = topicHeap'[s].topicName => r = s
      <4>1. \A s \in topics : topicHeap[s].topicName # name
        BY <2>1, LookUpTopic DEF MInv
      <4> QED
        BY <1>3, <3>2, <3>4, <4>1 DEF MInv, ValidHeap
    <3> QED
      BY <1>3, <1>4, <3>1, <3>4, <3>6, <3>7 DEF MInv, ValidHeap
  <2>2. CASE findTopic(name) # NullPtr
    <3>1. t \in topics
      BY <2>2, LookUpTopic DEF topicCell, MInv
    <3>2. UNCHANGED <<topics, topicHeap>>
      BY <1>3, <2>2, <3>1
    <3> QED
      BY <1>4, <3>2 DEF MInv, ValidHeap
  <2> QED
    BY <2>1, <2>2
<1> QED
  BY <1>1, <1>3, <1>5, StepFrame DEF Inside

LEMMA FindOrCreateConnectionStep ==
  ASSUME MInv, NEW th \in Thread, FindOrCreateConnection(th), ClockMoves
  PROVE  MInv'
<1> DEFINE client == request[th].client
<1>1. /\ mtx = th
      /\ request[th] \in Requests
      /\ request[th].command = "subscribe"
      /\ local[th].topicPtr \in topics
  BY HolderIsInside DEF FindOrCreateConnection, Inside, MInv, HandlerInv
<1>2. client \in Client
  BY <1>1 DEF Requests
<1>3. PICK c \in connectionCell(client) :
        /\ clientConnections' = clientConnections \cup {c}
        /\ connHeap' = store(connHeap, c, client)
        /\ Step(th, "list", local[th].topicPtr, c)
  BY DEF FindOrCreateConnection
<1>4. UNCHANGED <<topics, topicHeap>>
  BY DEF FindOrCreateConnection
<1>5. /\ c \in ConnPtr
      /\ \A d \in clientConnections \ {c} : connHeap[d] # client
  <2>1. CASE findConnection(client) = NullPtr
    BY <2>1, LookUpConnection DEF connectionCell, MInv
  <2>2. CASE findConnection(client) # NullPtr
    BY <2>2, LookUpConnection DEF connectionCell, MInv, ValidHeap
  <2> QED
    BY <2>1, <2>2
<1>6. /\ connHeap' \in [clientConnections' -> Client]
      /\ connHeap'[c] = client
      /\ \A d \in clientConnections \ {c} : connHeap'[d] = connHeap[d]
  BY <1>2, <1>3 DEF store, MInv, ValidHeap
<1>7. \A d, e \in clientConnections' : connHeap'[d] = connHeap'[e] => d = e
  BY <1>3, <1>5, <1>6 DEF MInv, ValidHeap
<1>8. ValidHeap'
  BY <1>3, <1>4, <1>5, <1>6, <1>7 DEF MInv, ValidHeap
<1> QED
  BY <1>1, <1>3, <1>4, <1>6, <1>8, StepFrame DEF Inside

LEMMA AddToListStep ==
  ASSUME MInv, NEW th \in Thread, AddToList(th), ClockMoves
  PROVE  MInv'
<1> DEFINE t == local[th].topicPtr
           c == local[th].clientConnectionPtr
           new == subscribe(topicHeap[t], connHeap, c)
           made == Response("subscribe",
                     IF hasClient(topicHeap[t], connHeap, connHeap[c])
                     THEN "failed" ELSE "success", {})
<1>1. mtx = th /\ t \in topics /\ c \in clientConnections
  BY HolderIsInside DEF AddToList, Inside, MInv, HandlerInv
<1>2. /\ topicHeap' = store(topicHeap, t, new)
      /\ Return(th, FALSE, made)
      /\ UNCHANGED <<topics, clientConnections, connHeap>>
  BY DEF AddToList
<1>3. /\ topicHeap[t] \in TopicObject
      /\ clientConnections \in SUBSET ConnPtr
      /\ c \in ConnPtr
      /\ clientConnections \cup {c} = clientConnections
      /\ connHeap \in [clientConnections \cup {c} -> Client]
      /\ Range(topicHeap[t].subscriberList) \subseteq clientConnections
      /\ IsInjective(topicHeap[t].subscriberList)
  <2>1. clientConnections \cup {c} = clientConnections
    BY <1>1
  <2> HIDE DEF t, c
  <2> QED
    BY <1>1, <2>1 DEF MInv, ValidHeap
<1>4. ValidTopic(new, clientConnections) /\ new.topicName = topicHeap[t].topicName
  <2> HIDE DEF t, c
  <2> QED
    BY <1>3, subscribeResult
<1> HIDE DEF new, made, t, c
<1>5. ValidHeap'
  BY <1>1, <1>2, <1>4, ReplaceTopic DEF ValidTopic, MInv
<1> QED
  BY <1>1, <1>2, <1>5, ReturnFrame

LEMMA LookUpStep ==
  ASSUME MInv, NEW th \in Thread, LookUp(th), ClockMoves
  PROVE  MInv'
<1> DEFINE t == findTopic(request[th].topicName)
           c == findConnection(request[th].client)
<1>1. mtx = th /\ request[th].command = "unsubscribe"
  BY HolderIsInside DEF LookUp, Inside
<1>2. CASE t = NullPtr
  BY <1>1, <1>2, RefuseFrame DEF LookUp
<1>3. CASE t # NullPtr
  <2>1. Step(th, "list", t, c) /\ UNCHANGED registry
    BY <1>3 DEF LookUp
  <2>2. t \in topics
    BY <1>3, LookUpTopic DEF MInv
  <2>3. /\ c \in clientConnections \cup {NullPtr}
        /\ c # NullPtr => connHeap[c] = request[th].client
    BY LookUpConnection DEF MInv
  <2>4. ValidHeap'
    BY <2>1 DEF MInv, ValidHeap, registry
  <2> HIDE DEF t, c
  <2>5. UNCHANGED <<topics, clientConnections, connHeap>>
    BY <2>1 DEF registry
  <2> QED
    BY <1>1, <2>1, <2>2, <2>3, <2>4, <2>5, StepFrame DEF Inside
<1> QED
  BY <1>2, <1>3

LEMMA RemoveFromListStep ==
  ASSUME MInv, NEW th \in Thread, RemoveFromList(th), ClockMoves
  PROVE  MInv'
<1> DEFINE t    == local[th].topicPtr
           c    == local[th].clientConnectionPtr
           left == unsubscribe(topicHeap[t], c)
<1>1. /\ mtx = th
      /\ request[th].command = "unsubscribe"
      /\ t \in topics
      /\ c \in clientConnections \cup {NullPtr}
      /\ c # NullPtr => connHeap[c] = request[th].client
  BY HolderIsInside DEF RemoveFromList, Inside, MInv, HandlerInv
<1>2. CASE topicHeap[t].subscriberList = <<>>
  BY <1>1, <1>2, RefuseFrame DEF RemoveFromList
<1>3. CASE topicHeap[t].subscriberList # <<>>
  <2>1. /\ topicHeap' = store(topicHeap, t, left)
        /\ Step(th, "topic", t, c)
        /\ UNCHANGED <<topics, clientConnections, connHeap>>
    BY <1>3 DEF RemoveFromList
  <2>2. topicHeap[t] \in TopicObject /\ ValidTopic(topicHeap[t], clientConnections)
    BY <1>1, <1>3 DEF MInv, ValidHeap, ValidTopic
  <2>3. /\ left \in TopicObject
        /\ Range(left.subscriberList) \subseteq clientConnections
        /\ IsInjective(left.subscriberList)
        /\ left.topicName = topicHeap[t].topicName
    BY <2>2, unsubscribeResult DEF ValidTopic
  <2> HIDE DEF t, c, left
  <2>4. ValidHeap'
    BY <1>1, <2>1, <2>3, ReplaceTopic DEF MInv
  <2> QED
    BY <1>1, <2>1, <2>4, StepFrame DEF Inside
<1> QED
  BY <1>2, <1>3

LEMMA DeleteTopicStep ==
  ASSUME MInv, NEW th \in Thread, DeleteTopic(th), ClockMoves
  PROVE  MInv'
<1> DEFINE t == local[th].topicPtr
           c == local[th].clientConnectionPtr
<1>1. /\ mtx = th
      /\ request[th].command = "unsubscribe"
      /\ t \in topics
      /\ c \in clientConnections \cup {NullPtr}
      /\ c # NullPtr => connHeap[c] = request[th].client
  BY HolderIsInside DEF DeleteTopic, Inside, MInv, HandlerInv
<1>2. /\ topics' = topicsAfter(t, topicHeap[t])
      /\ topicHeap' = IF t \in topics' THEN topicHeap ELSE free(topicHeap, t)
      /\ Step(th, "connection", NullPtr, c)
      /\ UNCHANGED <<clientConnections, connHeap>>
  BY DEF DeleteTopic
<1> HIDE DEF t, c
<1>3. ValidHeap'
  <2>1. CASE t \in topics'
    <3>1. UNCHANGED <<topics, topicHeap>>
      BY <1>1, <1>2, <2>1 DEF topicsAfter
    <3> QED
      BY <1>2, <3>1 DEF MInv, ValidHeap
  <2>2. CASE t \notin topics'
    <3>1. topics' = topics \ {t} /\ topicHeap' = free(topicHeap, t)
      BY <1>1, <1>2, <2>2 DEF topicsAfter
    <3>2. /\ topicHeap' \in [topics' -> TopicObject]
          /\ \A s \in topics' : topicHeap'[s] = topicHeap[s]
      BY <3>1 DEF free, Restrict, MInv, ValidHeap
    <3> QED
      BY <1>2, <3>1, <3>2 DEF MInv, ValidHeap
  <2> QED
    BY <2>1, <2>2
<1> QED
  BY <1>1, <1>2, <1>3, StepFrame DEF Inside

LEMMA ProcessEndsStep ==
  ASSUME MInv, NEW how, how # "running", ProcessEnds(how), ClockMoves
  PROVE  MInv'
<1>1. /\ topics' = {} /\ clientConnections' = {}
      /\ topicHeap' = [p \in {} |-> {}] /\ connHeap' = [p \in {} |-> {}]
      /\ mtx' = NoThread
      /\ request' = [th \in Thread |-> NoRequest]
      /\ local' = [th \in Thread |-> NoPointers]
      /\ visit' = {} /\ outbox' = {}
  BY DEF ProcessEnds, Exit
<1>2. /\ place' \in [Thread \cup {Heartbeat} -> Places]
      /\ place'[Heartbeat] = "asleep"
      /\ \A th \in Thread : place'[th] = "none"
  BY ThreadAssumption DEF ProcessEnds, atRest, Places
<1>3. ThreadsTypeOK'
  BY <1>1, <1>2 DEF MInv, ThreadsTypeOK, NoPointers, Pointers
<1>4. ValidHeap'
  <2>1. /\ DOMAIN topicHeap' = {} /\ DOMAIN connHeap' = {}
        /\ topicHeap' \in [{} -> TopicObject] /\ connHeap' \in [{} -> Client]
    BY <1>1
  <2> QED
    BY <1>1, <2>1 DEF ValidHeap
<1>5. HeartbeatInv'
  BY <1>1, <1>2, ThreadAssumption DEF HeartbeatInv
<1>6. ASSUME NEW th \in Thread PROVE HandlerInv(th)'
  BY <1>1, <1>2, ThreadAssumption DEF HandlerInv, At, Inside, NoPointers
<1> QED
  BY <1>3, <1>4, <1>5, <1>6, ClockStep DEF MInv

LEMMA DeleteConnectionStep ==
  ASSUME MInv, NEW th \in Thread, DeleteConnection(th), ClockMoves
  PROVE  MInv'
<1> DEFINE c    == local[th].clientConnectionPtr
           drop == ~ isSubscribedToOtherTopic(topicHeap, topics, request[th].client)
<1>1. /\ mtx = th
      /\ c \in clientConnections \cup {NullPtr}
      /\ c # NullPtr => connHeap[c] = request[th].client
  BY HolderIsInside DEF DeleteConnection, Inside, MInv, HandlerInv
<1>2. CASE c = NullPtr /\ topics # {}
  BY <1>2, ProcessEndsStep DEF DeleteConnection
<1>3. CASE ~ (c = NullPtr /\ topics # {})
  <2>1. /\ clientConnections' =
             IF drop THEN clientConnections \ {c} ELSE clientConnections
        /\ connHeap' = IF drop THEN free(connHeap, c) ELSE connHeap
        /\ UNCHANGED <<topics, topicHeap>>
        /\ Return(th, FALSE, Response("unsubscribe", "success", {}))
    BY <1>3 DEF DeleteConnection
  <2>2. ASSUME drop, NEW p \in topics
        PROVE  c \notin Range(topicHeap[p].subscriberList)
    BY <1>1, <1>3, <2>2 DEF isSubscribedToOtherTopic, hasClient, Range
  <2> HIDE DEF c, drop
  <2>3. /\ clientConnections' \subseteq clientConnections
        /\ connHeap' \in [clientConnections' -> Client]
        /\ \A d \in clientConnections' : connHeap'[d] = connHeap[d]
    <3>1. /\ free(connHeap, c) \in [clientConnections \ {c} -> Client]
          /\ \A d \in clientConnections \ {c} : free(connHeap, c)[d] = connHeap[d]
      BY DEF free, Restrict, MInv, ValidHeap
    <3> QED
      BY <2>1, <3>1 DEF MInv, ValidHeap
  <2>4. \A p \in topics : Range(topicHeap[p].subscriberList) \subseteq clientConnections'
    BY <2>1, <2>2 DEF MInv, ValidHeap
  <2>5. ValidHeap'
    BY <2>1, <2>3, <2>4 DEF MInv, ValidHeap
  <2> QED
    BY <1>1, <2>1, <2>5, ReturnFrame
<1> QED
  BY <1>2, <1>3

LEMMA FindTopicStep ==
  ASSUME MInv, NEW th \in Thread, NEW command \in {"publish", "getTopicStatus"},
         FindTopic(th, command), ClockMoves
  PROVE  MInv'
<1> DEFINE t == findTopic(request[th].topicName)
<1>1. mtx = th /\ request[th].command = command
  BY HolderIsInside DEF FindTopic, Inside
<1>2. CASE t = NullPtr
  BY <1>1, <1>2, RefuseFrame DEF FindTopic
<1>3. CASE t # NullPtr
  <2>1. Step(th, "topic", t, NullPtr) /\ UNCHANGED registry
    BY <1>3 DEF FindTopic
  <2>2. t \in topics /\ UNCHANGED topics
    BY <1>3, <2>1, LookUpTopic DEF MInv, registry
  <2>3. ValidHeap'
    BY <2>1 DEF MInv, ValidHeap, registry
  <2> HIDE DEF t
  <2> QED
    BY <1>1, <2>1, <2>2, <2>3, StepFrame DEF Inside
<1> QED
  BY <1>2, <1>3

LEMMA SetMessageStep ==
  ASSUME MInv, NEW th \in Thread, SetMessage(th), ClockMoves
  PROVE  MInv'
<1> DEFINE t   == local[th].topicPtr
           new == setMessage(topicHeap[t], request[th].message, now, now')
<1>1. /\ mtx = th
      /\ request[th] \in Requests
      /\ request[th].command = "publish"
      /\ t \in topics
  BY HolderIsInside DEF SetMessage, Inside, MInv, HandlerInv
<1>2. /\ topicHeap' = store(topicHeap, t, new)
      /\ UNCHANGED <<topics, clientConnections, connHeap>>
      /\ Return(th, FALSE, Response("publish", "success", {}))
  BY DEF SetMessage
<1>3. request[th].message \in Message
  BY <1>1 DEF Requests
<1>4. topicHeap[t] \in TopicObject
  BY <1>1 DEF MInv, ValidHeap
<1>5. /\ new \in TopicObject
      /\ new.topicName = topicHeap[t].topicName
      /\ new.subscriberList = topicHeap[t].subscriberList
  <2>1. now \in Int /\ now' \in Int
    BY ClockStep DEF MInv, ClockInv
  <2> HIDE DEF t
  <2> QED
    BY <1>3, <1>4, <2>1 DEF setMessage, TopicObject
<1> HIDE DEF t, new
<1>6. ValidHeap'
  BY <1>1, <1>2, <1>5, ReplaceTopic DEF MInv, ValidHeap
<1> QED
  BY <1>1, <1>2, <1>6, ReturnFrame

LEMMA ReadingStep ==
  ASSUME MInv, NEW th \in Thread, ReadStatus(th) \/ ListTopics(th), ClockMoves
  PROVE  MInv'
<1>1. PICK made : Return(th, FALSE, made)
  BY DEF ReadStatus, ListTopics
<1>2. mtx = th
  BY HolderIsInside DEF ReadStatus, ListTopics, Inside
<1>3. ValidHeap'
  BY DEF ReadStatus, ListTopics, MInv, ValidHeap, registry
<1> QED
  BY <1>1, <1>2, <1>3, ReturnFrame

LEMMA CriticalStep ==
  ASSUME MInv, NEW th \in Thread, Critical(th), ClockMoves
  PROVE  MInv'
BY FindOrCreateTopicStep, FindOrCreateConnectionStep, AddToListStep, LookUpStep,
   RemoveFromListStep, DeleteTopicStep, DeleteConnectionStep, FindTopicStep,
   SetMessageStep, ReadingStep
   DEF Critical

-----------------------------------------------------------------------------
(* Steps outside the critical sections, and of the heartbeat.              *)

(* A thread that is outside, and stays there or takes the mutex.           *)
LEMMA ConnectionStep ==
  ASSUME MInv, NEW th \in Thread, Connection(th), ClockMoves
  PROVE  MInv'
<1>1. /\ place[th] \in {"none", "recv", "lock", "send"}
      /\ process = "running"
      /\ UNCHANGED <<vars, local, heartbeatVars>>
      /\ \E where \in {"none", "recv", "lock", "send", "find"} :
            /\ place' = [place EXCEPT ![th] = where]
            /\ IF where = "find"
               THEN /\ mtx = NoThread
                    /\ mtx' = th
                    /\ \E r \in Requests : request' = [request EXCEPT ![th] = r]
               ELSE UNCHANGED <<mtx, request>>
  <2>1. CASE Lock(th)
    BY <2>1 DEF Lock, handlerMayEnter, unlocked, goto, MInv, HandlerInv
  <2>2. CASE Accept(th) \/ Receive(th) \/ ReceiveFails(th) \/ Send(th)
    BY <2>2 DEF Accept, Receive, ReceiveFails, Send, Close, Outside, goto, MInv, HandlerInv
  <2> QED
    BY <2>1, <2>2 DEF Connection
<1>2. PICK where \in {"none", "recv", "lock", "send", "find"} :
        /\ place' = [place EXCEPT ![th] = where]
        /\ IF where = "find"
           THEN /\ mtx = NoThread
                /\ mtx' = th
                /\ \E r \in Requests : request' = [request EXCEPT ![th] = r]
           ELSE UNCHANGED <<mtx, request>>
  BY <1>1
<1>3. /\ UNCHANGED <<process, local, visit, outbox>>
      /\ UNCHANGED <<topics, topicHeap, clientConnections, connHeap>>
  BY <1>1 DEF vars, registry, heartbeatVars
<1>4. /\ place'[th] = where
      /\ \A other \in (Thread \cup {Heartbeat}) \ {th} : place'[other] = place[other]
      /\ \A other \in Thread \ {th} : request'[other] = request[other]
  BY <1>2 DEF MInv, ThreadsTypeOK
<1>5. ValidHeap'
  BY <1>3 DEF MInv, ValidHeap
<1>6. ThreadsTypeOK'
  BY <1>2, <1>3 DEF MInv, ThreadsTypeOK, Places, Inside
<1>7. HeartbeatInv'
  <2>1. mtx = Heartbeat <=> mtx' = Heartbeat
    BY <1>2, ThreadAssumption
  <2>2. place'[Heartbeat] = place[Heartbeat]
    BY <1>4, ThreadAssumption
  <2> QED
    BY <1>3, <2>1, <2>2 DEF MInv, HeartbeatInv
<1>8. ASSUME NEW other \in Thread PROVE HandlerInv(other)'
  <2>1. CASE other = th
    <3>1. local[th] = NoPointers /\ mtx # th
      BY <1>1 DEF MInv, HandlerInv, Inside
    <3>2. where = "find" => request'[th] \in Requests
      BY <1>2 DEF MInv, ThreadsTypeOK
    <3>3. mtx' = th <=> where = "find"
      BY <1>2, <3>1
    <3> QED
      BY <1>1, <1>3, <1>4, <2>1, <3>1, <3>2, <3>3
         DEF HandlerInv, At, Inside, NoPointers
  <2>2. CASE other # th
    <3>1. /\ HandlerInv(other)
          /\ mtx = other <=> mtx' = other
      BY <1>2, <2>2, ThreadAssumption DEF MInv, HandlerInv
    <3> QED
      BY <1>3, <1>4, <2>2, <3>1 DEF HandlerInv, At
  <2> QED
    BY <2>1, <2>2
<1> QED
  BY <1>5, <1>6, <1>7, <1>8, ClockStep DEF MInv

(* The mutex changes hands between the heartbeat and nobody.               *)
LEMMA HeartbeatFrame ==
  ASSUME MInv, mtx \in {NoThread, Heartbeat}, mtx' \in {NoThread, Heartbeat},
         NEW where \in {"asleep", "pass"},
         place' = [place EXCEPT ![Heartbeat] = where],
         mtx' = Heartbeat <=> where = "pass",
         visit' \subseteq topics, where = "asleep" => visit' = {} /\ outbox' = {},
         process = "running",
         UNCHANGED <<process, topics, clientConnections, connHeap, request, local>>,
         ClockMoves, ValidHeap'
  PROVE  MInv'
<1>1. /\ place'[Heartbeat] = where
      /\ \A th \in Thread : place'[th] = place[th]
      /\ \A th \in Thread : th # Heartbeat /\ th # NoThread
  BY ThreadAssumption DEF MInv, ThreadsTypeOK
<1>2. ThreadsTypeOK'
  BY DEF MInv, ThreadsTypeOK, Places
<1>3. HeartbeatInv'
  BY <1>1 DEF HeartbeatInv
<1>4. ASSUME NEW th \in Thread PROVE HandlerInv(th)'
  <2>1. HandlerInv(th)
    BY DEF MInv
  <2>2. mtx # th /\ mtx' # th
    BY <1>1
  <2> QED
    BY <1>1, <2>1, <2>2 DEF HandlerInv, At
<1> QED
  BY <1>2, <1>3, <1>4, ClockStep DEF MInv

LEMMA HeartbeatLocksStep ==
  ASSUME MInv, HeartbeatLocks, ClockMoves
  PROVE  MInv'
<1>1. /\ mtx = NoThread /\ mtx' = Heartbeat
      /\ place' = [place EXCEPT ![Heartbeat] = "pass"]
      /\ process = "running"
      /\ visit' = topics
      /\ UNCHANGED <<process, topics, topicHeap, clientConnections, connHeap,
                     request, local>>
  BY DEF HeartbeatLocks, heartbeatMayPass, unlocked, goto, vars, registry
<1>2. ValidHeap'
  BY <1>1 DEF MInv, ValidHeap
<1> QED
  BY <1>1, <1>2, HeartbeatFrame

LEMMA VisitStep ==
  ASSUME MInv, Visit, ClockMoves
  PROVE  MInv'
<1>1. /\ place[Heartbeat] = "pass"
      /\ UNCHANGED <<process, topics, clientConnections, connHeap, mtx, place,
                      request, local>>
  BY DEF Visit, handlerVars
<1>2. mtx = Heartbeat /\ process = "running"
  BY <1>1 DEF MInv, HeartbeatInv
<1>3. PICK t \in visit :
        /\ visit' = visit \ {t}
        /\ IF timedOut(t, now)
           THEN topicHeap' =
                  [topicHeap EXCEPT ![t].timeoutTimestamp = nextTimeout(now')]
           ELSE UNCHANGED topicHeap
  BY DEF Visit
<1>4. t \in topics /\ visit' \subseteq topics
  BY <1>3 DEF MInv, HeartbeatInv
<1>5. ValidHeap'
  <2>1. CASE timedOut(t, now)
    <3> DEFINE new == [topicHeap[t] EXCEPT !.timeoutTimestamp = nextTimeout(now')]
    <3>1. topicHeap[t] \in TopicObject /\ nextTimeout(now') \in Int
      BY <1>4, ServerAssumption, ClockStep DEF MInv, ValidHeap, ClockInv, nextTimeout
    <3>2. /\ new \in TopicObject
          /\ new.topicName = topicHeap[t].topicName
          /\ new.subscriberList = topicHeap[t].subscriberList
      BY <3>1 DEF TopicObject
    <3>3. topicHeap' = [topicHeap EXCEPT ![t] = new]
      BY <1>3, <2>1
    <3> HIDE DEF new
    <3>4. topicHeap' = store(topicHeap, t, new)
      <4>1. DOMAIN topicHeap \cup {t} = DOMAIN topicHeap
        BY <1>4 DEF MInv, ValidHeap
      <4>2. topicHeap' = [s \in DOMAIN topicHeap |-> IF s = t THEN new ELSE topicHeap[s]]
        BY <3>3 DEF MInv, ValidHeap
      <4> QED
        BY <4>1, <4>2 DEF store
    <3> QED
      BY <1>1, <1>4, <3>2, <3>4, ReplaceTopic DEF MInv, ValidHeap
  <2>2. CASE ~ timedOut(t, now)
    BY <1>1, <1>3, <2>2 DEF MInv, ValidHeap
  <2> QED
    BY <2>1, <2>2
<1>6. place' = [place EXCEPT ![Heartbeat] = "pass"]
  BY <1>1 DEF MInv, ThreadsTypeOK
<1> QED
  BY <1>1, <1>2, <1>4, <1>5, <1>6, HeartbeatFrame

LEMMA HeartbeatUnlocksStep ==
  ASSUME MInv, HeartbeatUnlocks, ClockMoves
  PROVE  MInv'
<1>1. /\ place[Heartbeat] = "pass" /\ visit' = {} /\ outbox' = {}
      /\ mtx' = NoThread
      /\ place' = [place EXCEPT ![Heartbeat] = "asleep"]
      /\ UNCHANGED <<process, topics, topicHeap, clientConnections, connHeap,
                     request, local>>
  BY DEF HeartbeatUnlocks, goto, registry
<1>2. mtx = Heartbeat /\ process = "running"
  BY <1>1 DEF MInv, HeartbeatInv
<1>3. ValidHeap'
  BY <1>1 DEF MInv, ValidHeap
<1> QED
  BY <1>1, <1>2, <1>3, HeartbeatFrame, ThreadAssumption

LEMMA EnvironmentStep ==
  ASSUME MInv, Environment, ClockMoves
  PROVE  MInv'
<1>1. CASE ProcessEnds("stopped")
  BY <1>1, ProcessEndsStep
<1>2. CASE ~ ProcessEnds("stopped")
  <2>1. /\ UNCHANGED <<topics, topicHeap, clientConnections, connHeap>>
        /\ UNCHANGED <<mtx, place, request, local, visit, outbox>>
        /\ process' = process \/ process' = "running"
    BY <1>2 DEF Environment, Start, SecondBegins, Tick, registry, handlerVars,
                heartbeatVars
  <2>2. ThreadsTypeOK' /\ ValidHeap' /\ HeartbeatInv'
    BY <2>1 DEF MInv, ThreadsTypeOK, ValidHeap, HeartbeatInv
  <2>3. \A th \in Thread : HandlerInv(th)'
    BY <2>1 DEF MInv, HandlerInv, At
  <2> QED
    BY <2>2, <2>3, ClockStep DEF MInv
<1> QED
  BY <1>1, <1>2

-----------------------------------------------------------------------------
(* The theorems about the memory and the mutex.                            *)

LEMMA InitMInv == ThreadsInit => MInv
<1> SUFFICES ASSUME ThreadsInit PROVE MInv
  OBVIOUS
<1>1. /\ place \in [Thread \cup {Heartbeat} -> Places]
      /\ place[Heartbeat] = "asleep"
      /\ \A th \in Thread : place[th] = "none"
  BY ThreadAssumption DEF ThreadsInit, atRest, Places
<1>2. ThreadsTypeOK
  BY <1>1 DEF ThreadsInit, Init, ThreadsTypeOK, NoPointers, Pointers
<1>3. ValidHeap
  <2>1. /\ topics = {} /\ clientConnections = {}
        /\ DOMAIN topicHeap = {} /\ DOMAIN connHeap = {}
        /\ topicHeap \in [{} -> TopicObject] /\ connHeap \in [{} -> Client]
    BY DEF ThreadsInit, Init
  <2> QED
    BY <2>1 DEF ValidHeap
<1>4. HeartbeatInv
  BY <1>1, ThreadAssumption DEF ThreadsInit, Init, HeartbeatInv
<1>5. ASSUME NEW th \in Thread PROVE HandlerInv(th)
  BY <1>1, ThreadAssumption DEF ThreadsInit, HandlerInv, At, Inside, NoPointers
<1>6. ClockInv
  BY ServerAssumption DEF ThreadsInit, Init, ClockInv
<1> QED
  BY <1>2, <1>3, <1>4, <1>5, <1>6 DEF MInv

LEMMA NextMInv == MInv /\ [ThreadsNext]_threadVars => MInv'
<1> SUFFICES ASSUME MInv, [ThreadsNext]_threadVars PROVE MInv'
  OBVIOUS
<1>1. CASE UNCHANGED threadVars
  BY <1>1 DEF threadVars, vars, registry, handlerVars, heartbeatVars, historyVars,
              MInv, ThreadsTypeOK, ClockInv, ValidHeap, HeartbeatInv, HandlerInv, At
<1> QED
  BY <1>1, NextClockMoves, ConnectionStep, CriticalStep, HeartbeatLocksStep, VisitStep,
     HeartbeatUnlocksStep, EnvironmentStep
     DEF ThreadsNext, Pass

LEMMA AlwaysMInv == ThreadsSpec => []MInv
BY InitMInv, NextMInv, PTL DEF ThreadsSpec

(* At no step of any thread does a list hold a dangling pointer, or has a  *)
(* handler looked up, or the heartbeat yet to visit, what another thread   *)
(* has deleted (server.cpp:186-308).                                       *)
THEOREM PointersStayLive == ThreadsSpec => []PointersAreLive
<1>1. MInv => PointersAreLive
  BY DEF MInv, ValidHeap, HeartbeatInv, HandlerInv, PointersAreLive, MemorySafety
<1> QED
  BY <1>1, AlwaysMInv, PTL

(* Two threads are never inside at the same time, and no return of a       *)
(* handler leaves the mutex locked (server.cpp:143-160 and 179-441).       *)
THEOREM MutexExcludes == ThreadsSpec => []MutexIsHeldInside
<1>1. MInv => MutexIsHeldInside
  BY DEF MInv, HeartbeatInv, HandlerInv, MutexIsHeldInside, Inside
<1> QED
  BY <1>1, AlwaysMInv, PTL

-----------------------------------------------------------------------------
(* The refinement. The mutex makes before what other threads can know of   *)
(* the registry; what a handler has done to it since then follows from the *)
(* place the handler is at (Progress), and what a pass of the heartbeat    *)
(* has done, from the topics yet to visit (PassProgress).                  *)

topicIn(T, H, name) ==
  LET found == {p \in T : H[p].topicName = name}
  IN  IF found = {} THEN NullPtr ELSE CHOOSE p \in found : TRUE

connectionIn(C, K, client) ==
  LET found == {p \in C : K[p] = client}
  IN  IF found = {} THEN NullPtr ELSE CHOOSE p \in found : TRUE

\* What the look-ups of a handler find.
oldTopic(th) == topicIn(before[1], before[2], request[th].topicName)
oldConnection(th) == connectionIn(before[3], before[4], request[th].client)

SameTopics == topics = before[1] /\ topicHeap = before[2]
SameConnections == clientConnections = before[3] /\ connHeap = before[4]

\* Two calls of time, one after the other, since the mutex was taken.
ReadingsSince == {r \in (since..now) \X (since..now) : r[1] <= r[2]}

\* handleSubscribeRequest has its topic, and its connection.
topicReady(th) ==
  IF oldTopic(th) = NullPtr
  THEN {NewTopic(request[th].topicName, r[1], r[2]) : r \in ReadingsSince}
  ELSE {before[2][oldTopic(th)]}

TopicReady(th) ==
  LET t == local[th].topicPtr
  IN  /\ t \in IF oldTopic(th) # NullPtr
                THEN {oldTopic(th)} ELSE TopicPtr \ DOMAIN before[2]
      /\ topics = before[1] \cup {t}
      /\ topicHeap[t] \in topicReady(th)
      /\ topicHeap = IF oldTopic(th) = NullPtr
                     THEN store(before[2], t, topicHeap[t]) ELSE before[2]

ConnectionReady(th) ==
  LET c == local[th].clientConnectionPtr
  IN  /\ c \in IF oldConnection(th) # NullPtr
                THEN {oldConnection(th)} ELSE ConnPtr \ DOMAIN before[4]
      /\ clientConnections = before[3] \cup {c}
      /\ connHeap = IF oldConnection(th) = NullPtr
                    THEN store(before[4], c, request[th].client) ELSE before[4]

\* The topic of handleUnsubscribeRequest without the entry that is erased.
leftBy(th) == unsubscribe(before[2][oldTopic(th)], oldConnection(th))

Listed(th) ==
  /\ oldTopic(th) # NullPtr
  /\ before[2][oldTopic(th)].subscriberList # <<>>
  /\ local[th].clientConnectionPtr = oldConnection(th)

Progress(th) ==
  /\ place[th] = "find" => SameTopics /\ SameConnections
  /\ At(th, "subscribe", "connection") => TopicReady(th) /\ SameConnections
  /\ At(th, "subscribe", "list") => TopicReady(th) /\ ConnectionReady(th)
  /\ At(th, "unsubscribe", "list") =>
       /\ SameTopics /\ SameConnections
       /\ local[th].topicPtr = oldTopic(th)
       /\ oldTopic(th) # NullPtr
       /\ local[th].clientConnectionPtr = oldConnection(th)
  /\ At(th, "unsubscribe", "topic") =>
       /\ Listed(th) /\ SameConnections
       /\ local[th].topicPtr = oldTopic(th)
       /\ topics = before[1]
       /\ topicHeap = store(before[2], oldTopic(th), leftBy(th))
  /\ At(th, "unsubscribe", "connection") =>
       /\ Listed(th) /\ SameConnections
       /\ topics = IF leftBy(th).subscriberList = <<>>
                   THEN before[1] \ {oldTopic(th)} ELSE before[1]
       /\ topicHeap = IF oldTopic(th) \in topics
                      THEN store(before[2], oldTopic(th), leftBy(th))
                      ELSE free(before[2], oldTopic(th))
  /\ At(th, "publish", "topic") \/ At(th, "getTopicStatus", "topic") =>
       /\ SameTopics /\ SameConnections
       /\ local[th].topicPtr = oldTopic(th)
       /\ oldTopic(th) # NullPtr

\* A pass has published the topics due, with the clock read as reading says.
passed(due, reading) ==
  /\ due \cap visit = {}
  /\ \A t \in before[1] \ visit : before[2][t].timeoutTimestamp <= since => t \in due
  /\ \A t \in due : before[2][t].timeoutTimestamp <= reading[t][1]
  /\ \A s, t \in due :
       s = t \/ reading[s][2] <= reading[t][1] \/ reading[t][2] <= reading[s][1]
  /\ topicHeap = [t \in DOMAIN before[2] |->
       IF t \in due
       THEN [before[2][t] EXCEPT !.timeoutTimestamp = nextTimeout(reading[t][2])]
       ELSE before[2][t]]
  /\ outbox = UNION {publishMessage(before[2][t], before[4]) : t \in due}

PassProgress ==
  /\ topics = before[1] /\ SameConnections
  /\ \E due \in SUBSET before[1] : \E reading \in [due -> ReadingsSince] :
       passed(due, reading)

RInv ==
  /\ MInv
  /\ before = <<before[1], before[2], before[3], before[4]>>
  /\ mtx = NoThread => SameTopics /\ SameConnections /\ since = now
  /\ \A th \in Thread : mtx = th => Progress(th)
  /\ mtx = Heartbeat => PassProgress

(* The operators of Abstract that read no variable are those of Server.    *)
LEMMA SameOperators ==
  /\ \A h, p, o : Abstract!store(h, p, o) = store(h, p, o)
  /\ \A h, p : Abstract!free(h, p) = free(h, p)
  /\ \A n, x, y : Abstract!NewTopic(n, x, y) = NewTopic(n, x, y)
  /\ \A topic, h, c : Abstract!hasClient(topic, h, c) = hasClient(topic, h, c)
  /\ \A topic, h, c : Abstract!subscribe(topic, h, c) = subscribe(topic, h, c)
  /\ \A topic, c : Abstract!unsubscribe(topic, c) = unsubscribe(topic, c)
  /\ \A topic, m, x, y :
       Abstract!setMessage(topic, m, x, y) = setMessage(topic, m, x, y)
  /\ \A topic, h : Abstract!publishMessage(topic, h) = publishMessage(topic, h)
  /\ \A c, s, l : Abstract!Response(c, s, l) = Response(c, s, l)
  /\ Abstract!NoResponse = NoResponse
<1>1. \A topic, h, c : Abstract!hasClient(topic, h, c) = hasClient(topic, h, c)
  BY DEF Abstract!hasClient, hasClient
<1>2. \A topic, h, c : Abstract!subscribe(topic, h, c) = subscribe(topic, h, c)
  BY <1>1 DEF Abstract!subscribe, subscribe
<1>3. \A topic, c : Abstract!unsubscribe(topic, c) = unsubscribe(topic, c)
  BY DEF Abstract!unsubscribe, unsubscribe, Abstract!eraseRemove, eraseRemove,
         Abstract!kept, kept
<1>4. \A topic, h : Abstract!publishMessage(topic, h) = publishMessage(topic, h)
  BY DEF Abstract!publishMessage, publishMessage, Abstract!SendMessage, SendMessage,
         Abstract!Range, Range
<1>5. /\ \A h, p, o : Abstract!store(h, p, o) = store(h, p, o)
      /\ \A h, p : Abstract!free(h, p) = free(h, p)
      /\ \A n, x, y : Abstract!NewTopic(n, x, y) = NewTopic(n, x, y)
  BY DEF Abstract!store, store, Abstract!free, free, Abstract!Restrict, Restrict,
         Abstract!NewTopic, NewTopic
<1>6. /\ \A topic, m, x, y :
           Abstract!setMessage(topic, m, x, y) = setMessage(topic, m, x, y)
      /\ \A c, s, l : Abstract!Response(c, s, l) = Response(c, s, l)
      /\ Abstract!NoResponse = NoResponse
  BY DEF Abstract!setMessage, setMessage, Abstract!Response, Response,
         Abstract!NoResponse, NoResponse
<1> QED
  BY <1>1, <1>2, <1>3, <1>4, <1>5, <1>6

(* The registry of Abstract is before, whether the mutex is held or not.   *)
LEMMA AbstractLookUps ==
  ASSUME RInv
  PROVE  /\ Abstract!registry = before
         /\ \A name : Abstract!findTopic(name) = topicIn(before[1], before[2], name)
         /\ \A client :
              Abstract!findConnection(client) = connectionIn(before[3], before[4], client)
<1> DEFINE T == IF unlocked THEN topics ELSE before[1]
           H == IF unlocked THEN topicHeap ELSE before[2]
           C == IF unlocked THEN clientConnections ELSE before[3]
           K == IF unlocked THEN connHeap ELSE before[4]
<1>1. T = before[1] /\ H = before[2] /\ C = before[3] /\ K = before[4]
  BY DEF RInv, SameTopics, SameConnections, unlocked
<1>2. /\ Abstract!registry = <<T, H, C, K>>
      /\ \A name : Abstract!findTopic(name) = topicIn(T, H, name)
      /\ \A client : Abstract!findConnection(client) = connectionIn(C, K, client)
  BY DEF Abstract!registry, Abstract!findTopic, Abstract!findConnection, topicIn,
         connectionIn
<1> HIDE DEF T, H, C, K
<1> QED
  BY <1>1, <1>2 DEF RInv

(* What the handler itself finds, as long as the registry is unchanged.    *)
LEMMA HandlerLookUps ==
  /\ \A name : findTopic(name) = topicIn(topics, topicHeap, name)
  /\ \A client : findConnection(client) = connectionIn(clientConnections, connHeap, client)
BY DEF findTopic, findConnection, topicIn, connectionIn

Remembered == Abstract!registry = before

LEMMA AbstractRegistry == RInv => Remembered
BY AbstractLookUps DEF Remembered

LEMMA NextAbstractRegistry == RInv' => Remembered'
BY AbstractRegistry, PTL

(* While the mutex changes neither hands nor before, nothing happens.      *)
LEMMA StutterFrame ==
  ASSUME RInv, RInv', UNCHANGED <<before, since, process, response, sent>>
  PROVE  UNCHANGED Abstract!vars
BY AbstractRegistry, NextAbstractRegistry DEF Remembered, Abstract!vars

-----------------------------------------------------------------------------
(* Frames for RInv.                                                        *)

(* The mutex is free after the step, and before is the registry.           *)
LEMMA FreeFrame ==
  ASSUME MInv', mtx' = NoThread, before' = registry', since' = now'
  PROVE  RInv'
<1>1. NoThread # Heartbeat /\ \A th \in Thread : th # NoThread
  BY ThreadAssumption
<1> QED
  BY <1>1 DEF RInv, registry, SameTopics, SameConnections

(* A thread goes on in its critical section.                               *)
LEMMA InsideFrame ==
  ASSUME RInv, MInv', NEW th \in Thread, mtx' = th, UNCHANGED before, Progress(th)'
  PROVE  RInv'
<1>1. th # NoThread /\ th # Heartbeat
  BY ThreadAssumption
<1> QED
  BY <1>1 DEF RInv

LEMMA StepFacts ==
  ASSUME MInv, NEW th \in Thread, NEW where, NEW t, NEW c, Step(th, where, t, c)
  PROVE  /\ place'[th] = where
         /\ local'[th].topicPtr = t
         /\ local'[th].clientConnectionPtr = c
         /\ UNCHANGED <<process, response, sent, mtx, request, before, since>>
<1>1. /\ place' = [place EXCEPT ![th] = where]
      /\ local' = [local EXCEPT ![th] = [topicPtr |-> t, clientConnectionPtr |-> c]]
      /\ UNCHANGED <<process, response, sent, mtx, request, before, since>>
  BY DEF Step, goto, historyVars
<1>2. local'[th] = [topicPtr |-> t, clientConnectionPtr |-> c] /\ place'[th] = where
  BY <1>1 DEF MInv, ThreadsTypeOK
<1> QED
  BY <1>1, <1>2

(* What the holder of the mutex looks up is what it would have looked up   *)
(* when it took the mutex.                                                 *)
LEMMA OldLookUps ==
  ASSUME RInv, NEW th \in Thread
  PROVE  /\ SameTopics => findTopic(request[th].topicName) = oldTopic(th)
         /\ SameConnections => findConnection(request[th].client) = oldConnection(th)
BY HandlerLookUps DEF SameTopics, SameConnections, oldTopic, oldConnection

(* The steps of a handler but its last: nothing happens for the others.    *)
Stutters == RInv' /\ UNCHANGED Abstract!vars

LEMMA InsideStutters ==
  ASSUME RInv, MInv', NEW th \in Thread, mtx = th, NEW where, NEW t, NEW c,
         Step(th, where, t, c), Progress(th)'
  PROVE  Stutters
<1>1. UNCHANGED <<process, response, sent, mtx, before, since>>
  BY StepFacts DEF RInv
<1>2. RInv'
  BY <1>1, InsideFrame
<1> QED
  BY <1>1, <1>2, StutterFrame DEF Stutters

LEMMA TopicFoundOrCreated ==
  ASSUME RInv, MInv', ClockMoves, NEW th \in Thread, FindOrCreateTopic(th)
  PROVE  Stutters
<1> DEFINE name == request[th].topicName
<1>1. mtx = th /\ request[th].command = "subscribe" /\ place[th] = "find"
  BY HolderIsInside DEF FindOrCreateTopic, Inside, RInv
<1>2. SameTopics /\ SameConnections
  BY <1>1 DEF RInv, Progress
<1>3. PICK t \in topicCell(name) :
        /\ topics' = topics \cup {t}
        /\ topicHeap' = IF findTopic(name) = NullPtr
                        THEN store(topicHeap, t, NewTopic(name, now, now'))
                        ELSE topicHeap
        /\ Step(th, "connection", t, NullPtr)
        /\ UNCHANGED <<clientConnections, connHeap>>
  BY DEF FindOrCreateTopic
<1>4. /\ place'[th] = "connection" /\ local'[th].topicPtr = t
      /\ UNCHANGED <<request, before, since>>
  BY <1>3, StepFacts DEF RInv
<1>5. findTopic(name) = oldTopic(th)
  BY <1>2, OldLookUps
<1>6. oldTopic(th)' = oldTopic(th)
  BY <1>4 DEF oldTopic
<1>7. TopicReady(th)'
  <2>1. topicHeap'[t] \in topicReady(th)'
    <3>1. CASE oldTopic(th) = NullPtr
      <4>1. topicHeap'[t] = NewTopic(name, now, now')
        BY <1>3, <1>5, <3>1 DEF store
      <4>2. <<now, now'>> \in ReadingsSince'
        BY <1>4, ClockStep DEF RInv, MInv, ClockInv, ReadingsSince
      <4>3. NewTopic(name, now, now') \in
              {NewTopic(name, r[1], r[2]) : r \in ReadingsSince'}
        BY <4>2
      <4> QED
        BY <1>4, <1>6, <3>1, <4>1, <4>3 DEF topicReady
    <3>2. CASE oldTopic(th) # NullPtr
      BY <1>2, <1>3, <1>4, <1>5, <1>6, <3>2 DEF topicReady, topicCell, SameTopics
    <3> QED
      BY <3>1, <3>2
  <2>2. topicHeap' = IF oldTopic(th) = NullPtr
                     THEN store(before[2], t, topicHeap'[t]) ELSE before[2]
    BY <1>2, <1>3, <1>5 DEF SameTopics, store
  <2> QED
    BY <1>2, <1>3, <1>4, <1>5, <1>6, <2>1, <2>2 DEF TopicReady, SameTopics, topicCell
<1>8. Progress(th)'
  BY <1>1, <1>2, <1>3, <1>4, <1>7 DEF Progress, At, SameConnections
<1> QED
  BY <1>1, <1>3, <1>8, InsideStutters

LEMMA ConnectionFoundOrCreated ==
  ASSUME RInv, MInv', ClockMoves, NEW th \in Thread, FindOrCreateConnection(th)
  PROVE  Stutters
<1> DEFINE client == request[th].client
           topic  == local[th].topicPtr
<1>1. /\ mtx = th /\ request[th].command = "subscribe" /\ place[th] = "connection"
  BY HolderIsInside DEF FindOrCreateConnection, Inside, RInv
<1>2. TopicReady(th) /\ SameConnections
  BY <1>1 DEF RInv, Progress, At
<1>3. PICK c \in connectionCell(client) :
        /\ clientConnections' = clientConnections \cup {c}
        /\ connHeap' = store(connHeap, c, client)
        /\ Step(th, "list", topic, c)
        /\ UNCHANGED <<topics, topicHeap, now>>
  BY DEF FindOrCreateConnection
<1>4. /\ place'[th] = "list"
      /\ local'[th].topicPtr = topic
      /\ local'[th].clientConnectionPtr = c
      /\ UNCHANGED <<now, request, before, since>>
  BY <1>3, StepFacts DEF RInv
<1>5. findConnection(client) = oldConnection(th)
  BY <1>2, OldLookUps
<1>6. oldTopic(th)' = oldTopic(th) /\ oldConnection(th)' = oldConnection(th)
  BY <1>4 DEF oldTopic, oldConnection
<1>7. TopicReady(th)'
  BY <1>2, <1>3, <1>4, <1>6 DEF TopicReady, topicReady, ReadingsSince
<1>8. connHeap' = IF oldConnection(th) = NullPtr
                  THEN store(before[4], c, client) ELSE before[4]
  <2>1. CASE oldConnection(th) = NullPtr
    BY <1>2, <1>3, <2>1 DEF SameConnections
  <2>2. CASE oldConnection(th) # NullPtr
    <3>1. c \in clientConnections /\ connHeap[c] = client
      BY <1>5, <2>2, LookUpConnection DEF connectionCell, RInv, MInv
    <3>2. connHeap = [p \in DOMAIN connHeap |-> connHeap[p]]
      BY DEF RInv, MInv, ValidHeap
    <3>3. DOMAIN connHeap \cup {c} = DOMAIN connHeap
      <4>1. clientConnections = DOMAIN connHeap
        BY DEF RInv, MInv, ValidHeap
      <4> QED
        BY <3>1, <4>1
    <3>4. store(connHeap, c, client) = connHeap
      BY <3>1, <3>2, <3>3 DEF store
    <3> QED
      BY <1>2, <1>3, <2>2, <3>4 DEF SameConnections
  <2> QED
    BY <2>1, <2>2
<1>9. ConnectionReady(th)'
  BY <1>2, <1>3, <1>4, <1>5, <1>6, <1>8 DEF ConnectionReady, SameConnections, connectionCell
<1>10. Progress(th)'
  BY <1>1, <1>4, <1>7, <1>9 DEF Progress, At
<1> QED
  BY <1>1, <1>3, <1>10, InsideStutters

LEMMA LookedUp ==
  ASSUME RInv, MInv', ClockMoves, NEW th \in Thread, LookUp(th),
         findTopic(request[th].topicName) # NullPtr
  PROVE  Stutters
<1>1. mtx = th /\ request[th].command = "unsubscribe" /\ place[th] = "find"
  BY HolderIsInside DEF LookUp, Inside, RInv
<1>2. SameTopics /\ SameConnections
  BY <1>1 DEF RInv, Progress
<1>3. /\ findTopic(request[th].topicName) = oldTopic(th)
      /\ findConnection(request[th].client) = oldConnection(th)
  BY <1>2, OldLookUps
<1>4. /\ Step(th, "list", oldTopic(th), oldConnection(th))
      /\ UNCHANGED <<topics, topicHeap, clientConnections, connHeap>>
  BY <1>3 DEF LookUp, registry
<1>5. /\ place'[th] = "list"
      /\ local'[th].topicPtr = oldTopic(th)
      /\ local'[th].clientConnectionPtr = oldConnection(th)
      /\ UNCHANGED <<request, before>>
  BY <1>4, StepFacts DEF RInv
<1>6. oldTopic(th)' = oldTopic(th) /\ oldConnection(th)' = oldConnection(th)
  BY <1>5 DEF oldTopic, oldConnection
<1>7. Progress(th)'
  BY <1>1, <1>2, <1>3, <1>4, <1>5, <1>6 DEF Progress, At, SameTopics, SameConnections
<1> QED
  BY <1>1, <1>4, <1>7, InsideStutters

LEMMA RemovedFromList ==
  ASSUME RInv, MInv', ClockMoves, NEW th \in Thread, RemoveFromList(th),
         topicHeap[local[th].topicPtr].subscriberList # <<>>
  PROVE  Stutters
<1> DEFINE t == local[th].topicPtr
           c == local[th].clientConnectionPtr
<1>1. mtx = th /\ request[th].command = "unsubscribe" /\ place[th] = "list"
  BY HolderIsInside DEF RemoveFromList, Inside, RInv
<1>2. /\ SameTopics /\ SameConnections
      /\ t = oldTopic(th) /\ oldTopic(th) # NullPtr
      /\ c = oldConnection(th)
  BY <1>1 DEF RInv, Progress, At
<1>3. /\ topicHeap' = store(topicHeap, t, unsubscribe(topicHeap[t], c))
      /\ Step(th, "topic", t, c)
      /\ UNCHANGED <<topics, clientConnections, connHeap>>
  BY DEF RemoveFromList
<1>4. /\ place'[th] = "topic"
      /\ local'[th].topicPtr = t
      /\ local'[th].clientConnectionPtr = c
      /\ UNCHANGED <<request, before>>
  BY <1>3, StepFacts DEF RInv
<1>5. /\ oldTopic(th)' = oldTopic(th) /\ oldConnection(th)' = oldConnection(th)
      /\ leftBy(th)' = leftBy(th)
  BY <1>4 DEF oldTopic, oldConnection, leftBy
<1>6. Listed(th)'
  BY <1>2, <1>4, <1>5 DEF Listed, SameTopics
<1>7. topicHeap' = store(before[2], oldTopic(th), leftBy(th))
  BY <1>2, <1>3 DEF leftBy, SameTopics
<1>8. Progress(th)'
  BY <1>1, <1>2, <1>3, <1>4, <1>5, <1>6, <1>7
     DEF Progress, At, SameTopics, SameConnections
<1> QED
  BY <1>1, <1>3, <1>8, InsideStutters

LEMMA TopicDeleted ==
  ASSUME RInv, MInv', ClockMoves, NEW th \in Thread, DeleteTopic(th)
  PROVE  Stutters
<1> DEFINE t == local[th].topicPtr
           c == local[th].clientConnectionPtr
<1>1. mtx = th /\ request[th].command = "unsubscribe" /\ place[th] = "topic"
  BY HolderIsInside DEF DeleteTopic, Inside, RInv
<1>2. /\ Listed(th) /\ SameConnections
      /\ t = oldTopic(th)
      /\ topics = before[1]
      /\ topicHeap = store(before[2], t, leftBy(th))
  BY <1>1 DEF RInv, Progress, At
<1>3. /\ topics' = topicsAfter(t, topicHeap[t])
      /\ topicHeap' = IF t \in topics' THEN topicHeap ELSE free(topicHeap, t)
      /\ Step(th, "connection", NullPtr, c)
      /\ UNCHANGED <<clientConnections, connHeap>>
  BY DEF DeleteTopic
<1>4. /\ place'[th] = "connection"
      /\ local'[th].clientConnectionPtr = c
      /\ UNCHANGED <<request, before>>
  BY <1>3, StepFacts DEF RInv
<1>5. /\ oldTopic(th)' = oldTopic(th) /\ oldConnection(th)' = oldConnection(th)
      /\ leftBy(th)' = leftBy(th)
  BY <1>4 DEF oldTopic, oldConnection, leftBy
<1>6. Listed(th)'
  BY <1>2, <1>4, <1>5 DEF Listed
<1> HIDE DEF t, c
<1>7. topicHeap[t] = leftBy(th)
  BY <1>2 DEF store
<1>8. free(topicHeap, t) = free(before[2], t)
  <2>1. /\ DOMAIN topicHeap = DOMAIN before[2] \cup {t}
        /\ \A p \in DOMAIN before[2] \ {t} : topicHeap[p] = before[2][p]
    BY <1>2 DEF store
  <2>2. DOMAIN topicHeap \ {t} = DOMAIN before[2] \ {t}
    BY <2>1
  <2> QED
    BY <2>1, <2>2 DEF free, Restrict
<1>9. /\ topics' = IF leftBy(th).subscriberList = <<>>
                   THEN before[1] \ {t} ELSE before[1]
      /\ topicHeap' = IF t \in topics'
                      THEN store(before[2], t, leftBy(th)) ELSE free(before[2], t)
  BY <1>2, <1>3, <1>7, <1>8 DEF topicsAfter
<1>10. Progress(th)'
  BY <1>1, <1>2, <1>3, <1>4, <1>5, <1>6, <1>9 DEF Progress, At, SameConnections
<1> QED
  BY <1>1, <1>3, <1>10, InsideStutters

LEMMA TopicFound ==
  ASSUME RInv, MInv', NEW th \in Thread, NEW command \in {"publish", "getTopicStatus"},
         FindTopic(th, command), findTopic(request[th].topicName) # NullPtr
  PROVE  Stutters
<1>1. mtx = th /\ request[th].command = command /\ place[th] = "find"
  BY HolderIsInside DEF FindTopic, Inside, RInv
<1>2. SameTopics /\ SameConnections
  BY <1>1 DEF RInv, Progress
<1>3. findTopic(request[th].topicName) = oldTopic(th)
  BY <1>2, OldLookUps
<1>4. /\ Step(th, "topic", oldTopic(th), NullPtr)
      /\ UNCHANGED <<topics, topicHeap, clientConnections, connHeap>>
  BY <1>3 DEF FindTopic, registry
<1>5. /\ place'[th] = "topic"
      /\ local'[th].topicPtr = oldTopic(th)
      /\ UNCHANGED <<request, before>>
  BY <1>4, StepFacts DEF RInv
<1>6. oldTopic(th)' = oldTopic(th)
  BY <1>5 DEF oldTopic
<1>7. Progress(th)'
  BY <1>1, <1>2, <1>3, <1>4, <1>5, <1>6 DEF Progress, At, SameTopics, SameConnections
<1> QED
  BY <1>1, <1>4, <1>7, InsideStutters

-----------------------------------------------------------------------------
(* The last steps: the handler happens for the others.                     *)

(* The mutex is let go, and the registry is known.                         *)
LEMMA ReturnFacts ==
  ASSUME RInv, MInv', NEW th \in Thread, mtx = th, NEW early, NEW made,
         Return(th, early, made), ClockMoves
  PROVE  /\ RInv'
         /\ ~ unlocked /\ unlocked'
         /\ process = "running"
         /\ response' = made /\ sent' = {}
         /\ Abstract!TimePasses /\ UNCHANGED process
<1>1. /\ mtx' = NoThread /\ before' = registry'
      /\ response' = made /\ sent' = {}
      /\ since' = now' /\ UNCHANGED process
  BY DEF Return, release
<1>2. process = "running"
  BY DEF RInv, MInv, HandlerInv, Inside
<1>3. th # NoThread
  BY ThreadAssumption
<1>4. Abstract!TimePasses
  BY <1>1, ClockStep DEF RInv, MInv, ClockInv, Abstract!TimePasses
<1> QED
  BY <1>1, <1>2, <1>3, <1>4, FreeFrame DEF unlocked

LEMMA RefuseFacts ==
  ASSUME RInv, MInv', NEW th \in Thread, mtx = th, NEW made, Refuse(th, made),
         SameTopics, SameConnections, ClockMoves
  PROVE  UNCHANGED Abstract!registry
<1>1. registry = before
  BY DEF registry, SameTopics, SameConnections, RInv
<1>2. before' = registry' /\ registry' = registry /\ RInv'
  BY ReturnFacts DEF Refuse, Return
<1>3. Abstract!registry = before /\ Abstract!registry' = before'
  BY <1>2, AbstractRegistry, NextAbstractRegistry DEF Remembered
<1> QED
  BY <1>1, <1>2, <1>3

Happens == RInv' /\ Abstract!Next

LEMMA EndHappens ==
  ASSUME RInv, MInv', ClockMoves, NEW how, ProcessEnds(how)
  PROVE  RInv' /\ Abstract!Exit(how)
<1>1. RInv'
  BY FreeFrame DEF ProcessEnds
<1>2. Abstract!TimePasses
  <2>1. since' = now'
    BY DEF ProcessEnds
  <2> QED
    BY <2>1, ClockStep DEF RInv, MInv, ClockInv, Abstract!TimePasses
<1>3. Abstract!Exit(how)
  BY <1>2, SameOperators DEF ProcessEnds, Exit, Abstract!Exit, unlocked
<1> QED
  BY <1>1, <1>3

LEMMA NotFoundHappens ==
  ASSUME RInv, MInv', ClockMoves, NEW th \in Thread,
         \/ LookUp(th)
         \/ FindTopic(th, "publish") \/ FindTopic(th, "getTopicStatus"),
         findTopic(request[th].topicName) = NullPtr
  PROVE  Happens
<1> DEFINE r == request[th]
<1>1. /\ mtx = th /\ r \in Requests
      /\ place[th] = "find"
      /\ r.command \in {"unsubscribe", "publish", "getTopicStatus"}
  BY HolderIsInside DEF LookUp, FindTopic, Inside, RInv
<1>2. Refuse(th, Response(r.command, "invalidParameter", {}))
  BY DEF LookUp, FindTopic, At
<1>3. SameTopics /\ SameConnections
  BY <1>1 DEF RInv, Progress
<1>4. /\ RInv'
      /\ process = "running"
      /\ response' = Response(r.command, "invalidParameter", {})
      /\ sent' = {}
      /\ Abstract!TimePasses /\ UNCHANGED process
  BY <1>1, <1>2, ReturnFacts DEF Refuse
<1>5. UNCHANGED Abstract!registry
  BY <1>1, <1>2, <1>3, RefuseFacts
<1>6. Abstract!findTopic(r.topicName) = NullPtr
  BY <1>3, OldLookUps, AbstractLookUps DEF oldTopic
<1>7. response' = Abstract!Response(r.command, "invalidParameter", {})
  BY <1>4, SameOperators
<1> HIDE DEF r
<1>8. CASE r.command = "unsubscribe"
  <2>1. r.client \in Client /\ r.topicName \in TopicName
    BY <1>1, <1>8 DEF Requests
  <2>2. Abstract!handleUnsubscribeRequest(r.client, r.topicName)
    BY <1>4, <1>5, <1>6, <1>7, <1>8 DEF Abstract!handleUnsubscribeRequest
  <2> QED
    BY <1>4, <2>1, <2>2 DEF Happens, Abstract!Next, Abstract!Request, Client,
                            Abstract!Client
<1>9. CASE r.command = "publish"
  <2>1. r.message \in Message /\ r.topicName \in TopicName
    BY <1>1, <1>9 DEF Requests
  <2>2. Abstract!handlePublishRequest(r.topicName, r.message)
    BY <1>4, <1>5, <1>6, <1>7, <1>9
       DEF Abstract!handlePublishRequest, Abstract!registry
  <2> QED
    BY <1>4, <2>1, <2>2 DEF Happens, Abstract!Next, Abstract!Publish
<1>10. CASE r.command = "getTopicStatus"
  <2>1. r.topicName \in TopicName
    BY <1>1, <1>10 DEF Requests
  <2>2. Abstract!handleGetTopicStatus(r.topicName)
    BY <1>4, <1>5, <1>6, <1>7, <1>10 DEF Abstract!handleGetTopicStatus
  <2> QED
    BY <1>4, <2>1, <2>2 DEF Happens, Abstract!Next, Abstract!Request
<1> QED
  BY <1>1, <1>8, <1>9, <1>10

(* A list that is empty is left alone.                                     *)
LEMMA FailedHappens ==
  ASSUME RInv, MInv', ClockMoves, NEW th \in Thread, RemoveFromList(th),
         topicHeap[local[th].topicPtr].subscriberList = <<>>
  PROVE  Happens
<1> DEFINE r == request[th]
           t == oldTopic(th)
<1>1. /\ mtx = th /\ r \in Requests
      /\ place[th] = "list"
      /\ r.command = "unsubscribe"
  BY HolderIsInside DEF RemoveFromList, Inside, RInv
<1>2. /\ SameTopics /\ SameConnections
      /\ local[th].topicPtr = t /\ t # NullPtr
  BY <1>1 DEF RInv, Progress, At
<1>3. Refuse(th, Response("unsubscribe", "failed", {}))
  BY DEF RemoveFromList
<1>4. /\ RInv'
      /\ process = "running"
      /\ response' = Abstract!Response("unsubscribe", "failed", {})
      /\ sent' = {}
      /\ Abstract!TimePasses /\ UNCHANGED process
  BY <1>1, <1>3, ReturnFacts, SameOperators DEF Refuse
<1>5. UNCHANGED Abstract!registry
  BY <1>1, <1>2, <1>3, RefuseFacts
<1>6. /\ Abstract!findTopic(r.topicName) = t
      /\ before[2][t].subscriberList = <<>>
  BY <1>2, AbstractLookUps DEF oldTopic, SameTopics
<1>7. r.client \in Client /\ r.topicName \in TopicName
  BY <1>1 DEF Requests
<1>8. mtx # NoThread
  BY <1>1, ThreadAssumption
<1> HIDE DEF r, t
<1>9. Abstract!handleUnsubscribeRequest(r.client, r.topicName)
  BY <1>2, <1>4, <1>5, <1>6, <1>8 DEF Abstract!handleUnsubscribeRequest, unlocked
<1> QED
  BY <1>4, <1>7, <1>9 DEF Happens, Abstract!Next, Abstract!Request, Client,
                          Abstract!Client

LEMMA SubscribeHappens ==
  ASSUME RInv, MInv', ClockMoves, NEW th \in Thread, AddToList(th)
  PROVE  Happens
<1> DEFINE r == request[th]
           t == local[th].topicPtr
           c == local[th].clientConnectionPtr
           t0 == oldTopic(th)
           c0 == oldConnection(th)
           H == before[2]
           K == before[4]
           topic == topicHeap[t]
           heap  == IF c0 = NullPtr THEN store(K, c, r.client) ELSE K
           status == IF hasClient(topic, heap, r.client) THEN "failed" ELSE "success"
<1>1. /\ mtx = th /\ r \in Requests
      /\ r.command = "subscribe" /\ place[th] = "list"
  BY HolderIsInside DEF AddToList, Inside, RInv
<1>2. TopicReady(th) /\ ConnectionReady(th)
  BY <1>1 DEF RInv, Progress, At
<1>3. connHeap[c] = r.client /\ connHeap = heap
  BY <1>1, <1>2 DEF RInv, MInv, HandlerInv, At, ConnectionReady
<1>4. topic \in topicReady(th)
  BY <1>2 DEF TopicReady
<1>5. /\ topicHeap' = store(topicHeap, t, subscribe(topic, heap, c))
      /\ UNCHANGED <<topics, clientConnections, connHeap, now>>
      /\ Return(th, FALSE, Response("subscribe", status, {}))
  BY <1>3 DEF AddToList
<1> HIDE DEF topic, heap, status, r
<1>6. topicHeap' = store(H, t, subscribe(topic, heap, c))
  <2>1. \A h, x, y : store(store(h, t, x), t, y) = store(h, t, y)
    BY DEF store
  <2> QED
    BY <1>2, <1>5, <2>1 DEF TopicReady, topic
<1>7. /\ RInv' /\ ~ unlocked /\ unlocked'
      /\ process = "running"
      /\ response' = Response("subscribe", status, {}) /\ sent' = {}
      /\ Abstract!TimePasses /\ UNCHANGED process
  BY <1>1, <1>5, ReturnFacts
<1>8. /\ Abstract!findTopic(r.topicName) = t0
      /\ Abstract!findConnection(r.client) = c0
  BY AbstractLookUps DEF oldTopic, oldConnection, r
<1>9. /\ t \in Abstract!topicCell(r.topicName)
      /\ c \in Abstract!connectionCell(r.client)
  BY <1>2, <1>7, <1>8 DEF TopicReady, ConnectionReady, Abstract!topicCell,
                          Abstract!connectionCell
<1>10. /\ topics' = before[1] \cup {t}
       /\ clientConnections' = before[3] \cup {c}
       /\ connHeap' = heap
  BY <1>2, <1>3, <1>5 DEF TopicReady, ConnectionReady
<1>11. r.client \in Client /\ r.topicName \in TopicName
  BY <1>1 DEF Requests
<1>12. Abstract!handleSubscribeRequest(r.client, r.topicName)
  <2>1. heap = IF Abstract!findConnection(r.client) = NullPtr
               THEN Abstract!store(K, c, r.client) ELSE K
    BY <1>8, SameOperators DEF heap
  <2>3. topic \in Abstract!topicObject(r.topicName, t)
    <3>1. since' = now
      BY <1>5 DEF Return
    <3>2. CASE t0 = NullPtr
      <4>1. PICK reading \in ReadingsSince :
              topic = NewTopic(r.topicName, reading[1], reading[2])
        BY <1>4, <3>2 DEF topicReady, r
      <4>2. reading \in Abstract!Readings
        BY <3>1 DEF ReadingsSince, Abstract!Readings
      <4>3. topic = Abstract!NewTopic(r.topicName, reading[1], reading[2])
        BY <4>1, SameOperators
      <4> HIDE DEF t0, t
      <4> QED
        BY <1>8, <3>2, <4>2, <4>3 DEF Abstract!topicObject
    <3>3. CASE t0 # NullPtr
      <4>1. topic = H[t] /\ t = t0
        BY <1>2, <1>4, <3>3 DEF topicReady, TopicReady
      <4> HIDE DEF t0, t
      <4> QED
        BY <1>7, <1>8, <3>3, <4>1 DEF Abstract!topicObject
    <3> QED
      BY <3>2, <3>3
  <2>2. /\ topicHeap' = Abstract!store(H, t, Abstract!subscribe(topic, heap, c))
        /\ response' = Abstract!Response("subscribe",
             IF Abstract!hasClient(topic, heap, r.client) THEN "failed" ELSE "success", {})
    BY <1>6, <1>7, SameOperators DEF status
  <2> HIDE DEF t, c
  <2> QED
    BY <1>7, <1>9, <1>10, <2>1, <2>2, <2>3 DEF Abstract!handleSubscribeRequest
<1> QED
  BY <1>7, <1>11, <1>12 DEF Happens, Abstract!Next, Abstract!Request, Client,
                            Abstract!Client

LEMMA UnsubscribeHappens ==
  ASSUME RInv, MInv', ClockMoves, NEW th \in Thread, DeleteConnection(th)
  PROVE  Happens
<1> DEFINE r == request[th]
           c == local[th].clientConnectionPtr
           t0 == oldTopic(th)
           left == leftBy(th)
           T == before[1]
           H == before[2]
           drop == ~ isSubscribedToOtherTopic(topicHeap, topics, r.client)
<1>1. /\ mtx = th /\ r \in Requests /\ process = "running"
      /\ r.command = "unsubscribe" /\ place[th] = "connection"
  BY HolderIsInside DEF DeleteConnection, Inside, RInv
<1>2. /\ Listed(th) /\ SameConnections
      /\ topics = IF left.subscriberList = <<>> THEN T \ {t0} ELSE T
      /\ topicHeap = IF t0 \in topics THEN store(H, t0, left) ELSE free(H, t0)
      /\ t0 # NullPtr
      /\ H[t0].subscriberList # <<>>
      /\ c = oldConnection(th)
  BY <1>1 DEF RInv, Progress, At, Listed
<1>3. ~ unlocked
  BY <1>1, ThreadAssumption DEF unlocked
<1>4. /\ Abstract!findTopic(r.topicName) = t0
      /\ Abstract!findConnection(r.client) = c
  BY <1>2, AbstractLookUps DEF oldTopic, oldConnection
<1>5. r.client \in Client /\ r.topicName \in TopicName
  BY <1>1 DEF Requests
<1>6. SUFFICES RInv' /\ Abstract!unsubscribeFrom(t0, r.client, c)
  BY <1>1, <1>2, <1>3, <1>4, <1>5
     DEF Happens, Abstract!Next, Abstract!Request, Abstract!handleUnsubscribeRequest,
         Client, Abstract!Client
<1>7. left = Abstract!unsubscribe(H[t0], c)
  BY <1>2, SameOperators DEF leftBy
<1>8. topics = Abstract!topicsAfter(t0, left)
  BY <1>2, <1>3 DEF Abstract!topicsAfter
<1>9. topicHeap = IF t0 \in topics THEN Abstract!store(H, t0, left)
                  ELSE Abstract!free(H, t0)
  BY <1>2, SameOperators
<1>10. drop = ~ Abstract!isSubscribedToOtherTopic(topicHeap, topics, r.client)
  BY <1>2, <1>3, SameOperators
     DEF isSubscribedToOtherTopic, Abstract!isSubscribedToOtherTopic, SameConnections
<1>11. CASE c = NullPtr /\ topics # {}
  <2>1. ProcessEnds("crashed")
    BY <1>11 DEF DeleteConnection
  <2>2. RInv' /\ Abstract!Exit("crashed")
    BY <2>1, EndHappens
  <2> HIDE DEF c, left, t0
  <2> QED
    BY <1>3, <1>7, <1>8, <1>11, <2>2 DEF Abstract!unsubscribeFrom
<1>12. CASE ~ (c = NullPtr /\ topics # {})
  <2>1. /\ clientConnections' =
             IF drop THEN clientConnections \ {c} ELSE clientConnections
        /\ connHeap' = IF drop THEN free(connHeap, c) ELSE connHeap
        /\ UNCHANGED <<topics, topicHeap>>
        /\ Return(th, FALSE, Response("unsubscribe", "success", {}))
    BY <1>12 DEF DeleteConnection
  <2>2. /\ RInv' /\ unlocked'
        /\ response' = Abstract!Response("unsubscribe", "success", {})
        /\ sent' = {}
        /\ Abstract!TimePasses /\ UNCHANGED process
    BY <1>1, <2>1, ReturnFacts, SameOperators
  <2> HIDE DEF c, left, t0, drop
  <2>3. /\ clientConnections' = IF drop THEN before[3] \ {c} ELSE before[3]
        /\ connHeap' = IF drop THEN Abstract!free(before[4], c) ELSE before[4]
    BY <1>2, <2>1, SameOperators DEF SameConnections
  <2> QED
    BY <1>3, <1>7, <1>8, <1>9, <1>10, <1>12, <2>1, <2>2, <2>3
       DEF Abstract!unsubscribeFrom
<1> QED
  BY <1>11, <1>12

LEMMA PublishHappens ==
  ASSUME RInv, MInv', ClockMoves, NEW th \in Thread, SetMessage(th)
  PROVE  Happens
<1> DEFINE r == request[th]
           t == oldTopic(th)
<1>1. /\ mtx = th /\ r \in Requests /\ process = "running"
      /\ r.command = "publish" /\ place[th] = "topic"
  BY HolderIsInside DEF SetMessage, Inside, RInv
<1>2. /\ SameTopics /\ SameConnections
      /\ local[th].topicPtr = t /\ t # NullPtr
  BY <1>1 DEF RInv, Progress, At
<1>3. /\ topicHeap' = store(before[2], t, setMessage(before[2][t], r.message, now, now'))
      /\ UNCHANGED <<topics, clientConnections, connHeap>>
      /\ Return(th, FALSE, Response("publish", "success", {}))
  BY <1>2 DEF SetMessage, SameTopics
<1>4. /\ RInv' /\ ~ unlocked /\ unlocked'
      /\ response' = Abstract!Response("publish", "success", {})
      /\ sent' = {}
      /\ Abstract!TimePasses /\ UNCHANGED process
  BY <1>1, <1>3, ReturnFacts, SameOperators
<1>5. Abstract!findTopic(r.topicName) = t
  BY AbstractLookUps DEF oldTopic
<1>6. r.message \in Message /\ r.topicName \in TopicName
  BY <1>1 DEF Requests
<1> HIDE DEF r, t
<1>7. topicHeap' = Abstract!store(before[2], t,
                     Abstract!setMessage(before[2][t], r.message, now, now'))
  BY <1>3, SameOperators
<1>9. <<now, now'>> \in Abstract!Readings
  <2>1. since' = now'
    BY <1>3 DEF Return
  <2> QED
    BY <2>1, ClockStep DEF RInv, MInv, ClockInv, Abstract!Readings
<1>10. \E reading \in Abstract!Readings :
         topicHeap' = Abstract!store(before[2], t,
           Abstract!setMessage(before[2][t], r.message, reading[1], reading[2]))
  BY <1>7, <1>9
<1>8. Abstract!handlePublishRequest(r.topicName, r.message)
  BY <1>1, <1>2, <1>3, <1>4, <1>5, <1>10
     DEF Abstract!handlePublishRequest, SameTopics, SameConnections
<1> QED
  BY <1>4, <1>6, <1>8 DEF Happens, Abstract!Next, Abstract!Publish

(* A handler that reads only: what it reads is what the others know.       *)
LEMMA StatusHappens ==
  ASSUME RInv, MInv', ClockMoves, NEW th \in Thread, ReadStatus(th)
  PROVE  Happens
<1> DEFINE r == request[th]
           t == oldTopic(th)
           topic == before[2][t]
           made == [Response("getTopicStatus", "success",
                      {before[4][c] : c \in Range(topic.subscriberList)})
                        EXCEPT !.messageTimestamp = topic.messageTimestamp]
<1>1. /\ mtx = th /\ r \in Requests /\ process = "running"
      /\ r.command = "getTopicStatus" /\ place[th] = "topic"
  BY HolderIsInside DEF ReadStatus, Inside, RInv
<1>2. /\ SameTopics /\ SameConnections
      /\ local[th].topicPtr = t /\ t # NullPtr
  BY <1>1 DEF RInv, Progress, At
<1>3. Return(th, FALSE, made) /\ UNCHANGED registry
  BY <1>2 DEF ReadStatus, SameTopics, SameConnections
<1> HIDE DEF made
<1>4. /\ RInv' /\ ~ unlocked
      /\ response' = made /\ sent' = {}
      /\ Abstract!TimePasses /\ UNCHANGED process
  BY <1>1, <1>3, ReturnFacts
<1>5. UNCHANGED Abstract!registry
  <2>1. before' = registry' /\ registry = before
    BY <1>2, <1>3 DEF Return, registry, SameTopics, SameConnections, RInv
  <2> QED
    BY <1>3, <1>4, <2>1, AbstractRegistry, NextAbstractRegistry DEF Remembered
<1>6. Abstract!findTopic(r.topicName) = t
  BY AbstractLookUps DEF oldTopic
<1>7. made = [Abstract!Response("getTopicStatus", "success",
                {before[4][c] : c \in Abstract!Range(before[2][t].subscriberList)})
                   EXCEPT !.messageTimestamp = before[2][t].messageTimestamp]
  BY SameOperators DEF made, Range, Abstract!Range
<1>8. r.topicName \in TopicName
  BY <1>1 DEF Requests
<1> HIDE DEF r, t
<1>9. Abstract!handleGetTopicStatus(r.topicName)
  BY <1>1, <1>2, <1>4, <1>5, <1>6, <1>7 DEF Abstract!handleGetTopicStatus
<1> QED
  BY <1>4, <1>8, <1>9 DEF Happens, Abstract!Next, Abstract!Request

LEMMA ListHappens ==
  ASSUME RInv, MInv', ClockMoves, NEW th \in Thread, ListTopics(th)
  PROVE  Happens
<1> DEFINE made == Response("listTopics", "success",
                            {before[2][t].topicName : t \in before[1]})
<1>1. mtx = th /\ process = "running" /\ place[th] = "find"
  BY HolderIsInside DEF ListTopics, Inside, RInv
<1>2. SameTopics /\ SameConnections
  BY <1>1 DEF RInv, Progress
<1>3. Return(th, FALSE, made) /\ UNCHANGED registry
  BY <1>2 DEF ListTopics, SameTopics
<1> HIDE DEF made
<1>4. /\ RInv' /\ ~ unlocked
      /\ response' = made /\ sent' = {}
      /\ Abstract!TimePasses /\ UNCHANGED process
  BY <1>1, <1>3, ReturnFacts
<1>5. UNCHANGED Abstract!registry
  <2>1. before' = registry' /\ registry = before
    BY <1>2, <1>3 DEF Return, registry, SameTopics, SameConnections, RInv
  <2> QED
    BY <1>3, <1>4, <2>1, AbstractRegistry, NextAbstractRegistry DEF Remembered
<1>6. made = Abstract!Response("listTopics", "success",
                               {before[2][t].topicName : t \in before[1]})
  BY SameOperators DEF made
<1>7. Abstract!handleListTopics
  BY <1>1, <1>4, <1>5, <1>6 DEF Abstract!handleListTopics
<1> QED
  BY <1>4, <1>7 DEF Happens, Abstract!Next, Abstract!Request

LEMMA CriticalHappens ==
  ASSUME RInv, MInv', ClockMoves, NEW th \in Thread, Critical(th)
  PROVE  Stutters \/ Happens
BY TopicFoundOrCreated, ConnectionFoundOrCreated, SubscribeHappens, LookedUp,
   NotFoundHappens, RemovedFromList, FailedHappens, TopicDeleted,
   UnsubscribeHappens, TopicFound, PublishHappens, StatusHappens, ListHappens
   DEF Critical

-----------------------------------------------------------------------------
(* The heartbeat: a pass happens for the others when it unlocks the mutex. *)

(* The heartbeat has the mutex after the step.                             *)
LEMMA PassFrame ==
  ASSUME RInv, MInv', mtx' = Heartbeat, before' = before, PassProgress'
  PROVE  RInv'
BY ThreadAssumption DEF RInv

LEMMA LockedByHeartbeat ==
  ASSUME RInv, MInv', HeartbeatLocks
  PROVE  Stutters
<1>1. /\ mtx = NoThread /\ mtx' = Heartbeat
      /\ before' = registry /\ since' = now
      /\ place[Heartbeat] = "asleep"
      /\ visit' = topics
      /\ outbox' = outbox
      /\ UNCHANGED vars
  BY DEF HeartbeatLocks, heartbeatMayPass, unlocked
<1>2. /\ UNCHANGED <<process, topics, topicHeap, clientConnections, connHeap>>
      /\ UNCHANGED <<now, response, sent>>
  BY <1>1 DEF vars, registry
<1>3. SameTopics /\ SameConnections /\ before' = before /\ since' = since
  BY <1>1 DEF RInv, SameTopics, SameConnections, registry
<1>4. /\ outbox = {}
      /\ topicHeap = [t \in DOMAIN topicHeap |-> topicHeap[t]]
  BY <1>1 DEF RInv, MInv, HeartbeatInv, ValidHeap
<1>5. PassProgress'
  <2> DEFINE none == [t \in {} |-> <<now, now>>]
  <2>1. {} \in SUBSET before'[1] /\ none \in [{} -> ReadingsSince']
    OBVIOUS
  <2>2. passed({}, none)'
    <3>1. before'[1] \ visit' = {}
      BY <1>1, <1>3 DEF SameTopics
    <3>2. topicHeap' = [t \in DOMAIN before'[2] |-> before'[2][t]]
      BY <1>2, <1>3, <1>4 DEF SameTopics
    <3>3. outbox' = {}
      BY <1>1, <1>4
    <3> HIDE DEF none
    <3> QED
      BY <3>1, <3>2, <3>3 DEF passed
  <2>3. \E reading \in [{} -> ReadingsSince'] : passed({}, reading)'
    BY <2>1, <2>2
  <2> HIDE DEF none
  <2>4. topics' = before'[1] /\ SameConnections'
    BY <1>2, <1>3 DEF SameTopics, SameConnections
  <2> QED
    BY <2>1, <2>3, <2>4 DEF PassProgress
<1> QED
  BY <1>1, <1>2, <1>3, <1>5, PassFrame, StutterFrame DEF Stutters

(* More time has passed: what was read before, was read by now.            *)
LEMMA ReadingsGrow ==
  ASSUME MInv, ClockMoves, UNCHANGED since
  PROVE  ReadingsSince \subseteq ReadingsSince'
<1>1. now \in Int /\ now' \in Int /\ since \in Int /\ now <= now'
  BY ClockStep DEF MInv, ClockInv
<1> QED
  BY <1>1 DEF ReadingsSince

(* A topic that is not due is passed over.                                 *)
LEMMA PassedOver ==
  ASSUME RInv, ClockMoves, PassProgress, NEW t \in visit,
         ~ timedOut(t, now), visit' = visit \ {t},
         UNCHANGED <<topics, topicHeap, clientConnections, connHeap>>,
         UNCHANGED <<outbox, before, since>>
  PROVE  PassProgress'
<1>1. PICK due \in SUBSET before[1] :
        \E reading \in [due -> ReadingsSince] : passed(due, reading)
  BY DEF PassProgress
<1>2. PICK reading \in [due -> ReadingsSince] : passed(due, reading)
  BY <1>1
<1>3. t \in topics /\ topics = DOMAIN topicHeap /\ t \in DOMAIN before[2]
  BY <1>2 DEF RInv, MInv, HeartbeatInv, ValidHeap, passed
<1>4. topicHeap[t] = before[2][t]
  BY <1>2, <1>3 DEF passed
<1>5. ~ (before[2][t].timeoutTimestamp <= since)
  <2>1. topicHeap[t].timeoutTimestamp \in Int
    BY <1>3 DEF RInv, MInv, ValidHeap, TopicObject
  <2> QED
    BY <1>4, <2>1 DEF RInv, MInv, ClockInv, timedOut
<1>6. passed(due, reading)'
  BY <1>2, <1>5 DEF passed, nextTimeout
<1>7. due \in SUBSET before'[1] /\ reading \in [due -> ReadingsSince']
  BY ReadingsGrow DEF RInv
<1> QED
  BY <1>6, <1>7 DEF PassProgress, SameConnections

(* A topic that is due is published, and gets its next timeout.            *)
LEMMA PassedOn ==
  ASSUME RInv, ClockMoves, PassProgress, NEW t \in visit,
         timedOut(t, now), visit' = visit \ {t},
         outbox' = outbox \cup publishMessage(topicHeap[t], connHeap),
         topicHeap' = [topicHeap EXCEPT ![t].timeoutTimestamp = nextTimeout(now')],
         UNCHANGED <<topics, clientConnections, connHeap>>,
         UNCHANGED <<before, since>>
  PROVE  PassProgress'
<1>1. PICK due \in SUBSET before[1] :
        \E reading \in [due -> ReadingsSince] : passed(due, reading)
  BY DEF PassProgress
<1>2. PICK reading \in [due -> ReadingsSince] : passed(due, reading)
  BY <1>1
<1> DEFINE H == before[2]
           K == before[4]
           more == due \cup {t}
           later == [s \in more |-> IF s = t THEN <<now, now'>> ELSE reading[s]]
<1>3. /\ t \in topics /\ topics = DOMAIN topicHeap /\ t \in DOMAIN H
      /\ t \in before[1] /\ t \notin due
  BY <1>2 DEF RInv, MInv, HeartbeatInv, ValidHeap, passed, PassProgress
<1>4. topicHeap[t] = H[t]
  BY <1>2, <1>3 DEF passed
<1>5. /\ now \in Int /\ now' \in Int /\ since \in Int /\ since <= now /\ now <= now'
  BY ClockStep DEF RInv, MInv, ClockInv
<1>6. /\ later[t] = <<now, now'>>
      /\ \A s \in due : later[s] = reading[s]
      /\ \A s \in due : reading[s] \in ReadingsSince
  BY <1>3
<1>7. later \in [more -> ReadingsSince']
  <2>1. <<now, now'>> \in ReadingsSince'
    BY <1>5 DEF ReadingsSince
  <2>2. \A s \in due : reading[s] \in ReadingsSince'
    BY <1>6, ReadingsGrow DEF RInv
  <2> QED
    BY <2>1, <2>2
<1>8. \A s \in more : H[s].timeoutTimestamp <= later[s][1]
  BY <1>2, <1>4, <1>6 DEF passed, timedOut
<1>9. \A s \in due : reading[s][2] <= now
  BY <1>5, <1>6 DEF ReadingsSince
<1>10. topicHeap' = [s \in DOMAIN H |->
         IF s \in more
         THEN [H[s] EXCEPT !.timeoutTimestamp = nextTimeout(later[s][2])]
         ELSE H[s]]
  <2>1. topicHeap = [s \in DOMAIN H |->
         IF s \in due
         THEN [H[s] EXCEPT !.timeoutTimestamp = nextTimeout(reading[s][2])]
         ELSE H[s]]
    BY <1>2 DEF passed
  <2>2. topicHeap' = [s \in DOMAIN H |->
         IF s = t THEN [H[t] EXCEPT !.timeoutTimestamp = nextTimeout(now')]
         ELSE topicHeap[s]]
    BY <1>3, <1>4, <2>1
  <2> HIDE DEF H, later
  <2> QED
    BY <1>3, <1>6, <2>1, <2>2
<1>11. outbox' = UNION {publishMessage(H[s], K) : s \in more}
  <2>1. outbox = UNION {publishMessage(H[s], K) : s \in due}
    BY <1>2 DEF passed
  <2>2. connHeap = K
    BY DEF PassProgress, SameConnections
  <2> HIDE DEF H, K
  <2> QED
    BY <1>4, <2>1, <2>2
<1>12. \A s \in before[1] \ visit' : H[s].timeoutTimestamp <= since => s \in more
  BY <1>2 DEF passed
<1>13. \A r, s \in more :
         r = s \/ later[r][2] <= later[s][1] \/ later[s][2] <= later[r][1]
  <2>1. \A r, s \in due :
          r = s \/ later[r][2] <= later[s][1] \/ later[s][2] <= later[r][1]
    BY <1>2, <1>6 DEF passed
  <2>2. \A s \in due : later[s][2] <= later[t][1]
    BY <1>6, <1>9
  <2> HIDE DEF later
  <2> QED
    BY <2>1, <2>2
<1>14. more \cap visit' = {}
  BY <1>2 DEF passed
<1>15. PICK set, clock : set = more /\ clock = later
  OBVIOUS
<1> HIDE DEF later, more
<1>16. passed(set, clock)'
  <2>1. before'[1] = before[1] /\ before'[2] = H /\ before'[4] = K /\ since' = since
    OBVIOUS
  <2> HIDE DEF H, K
  <2>2. /\ set \cap visit' = {}
        /\ \A s \in before'[1] \ visit' :
             before'[2][s].timeoutTimestamp <= since' => s \in set
        /\ \A s \in set : before'[2][s].timeoutTimestamp <= clock[s][1]
        /\ \A r, s \in set :
             r = s \/ clock[r][2] <= clock[s][1] \/ clock[s][2] <= clock[r][1]
    BY <1>8, <1>12, <1>13, <1>14, <1>15, <2>1
  <2>3. topicHeap' = [s \in DOMAIN before'[2] |->
          IF s \in set
          THEN [before'[2][s] EXCEPT !.timeoutTimestamp = nextTimeout(clock[s][2])]
          ELSE before'[2][s]]
    BY <1>10, <1>15, <2>1
  <2>4. outbox' = UNION {publishMessage(before'[2][s], before'[4]) : s \in set}
    BY <1>11, <1>15, <2>1
  <2> QED
    BY <2>2, <2>3, <2>4 DEF passed, nextTimeout
<1>17. set \in SUBSET before'[1] /\ clock \in [set -> ReadingsSince']
  BY <1>3, <1>7, <1>15 DEF more
<1> QED
  BY <1>16, <1>17 DEF PassProgress, SameConnections

LEMMA Visited ==
  ASSUME RInv, MInv', ClockMoves, Visit
  PROVE  Stutters
<1>1. /\ place[Heartbeat] = "pass"
      /\ UNCHANGED <<process, topics, clientConnections, connHeap, response,
                     sent, mtx, before, since>>
  BY DEF Visit, historyVars
<1>2. mtx = Heartbeat
  BY <1>1 DEF RInv, MInv, HeartbeatInv
<1>3. PassProgress
  BY <1>2 DEF RInv
<1>4. PICK t \in visit :
        /\ visit' = visit \ {t}
        /\ IF timedOut(t, now)
           THEN /\ TimePasses
                /\ outbox' = outbox \cup publishMessage(topicHeap[t], connHeap)
                /\ topicHeap' =
                     [topicHeap EXCEPT ![t].timeoutTimestamp = nextTimeout(now')]
           ELSE UNCHANGED <<now, outbox, topicHeap>>
  BY DEF Visit
<1>5. PassProgress'
  <2>1. CASE timedOut(t, now)
    BY <1>1, <1>3, <1>4, <2>1, PassedOn
  <2>2. CASE ~ timedOut(t, now)
    BY <1>1, <1>3, <1>4, <2>2, PassedOver
  <2> QED
    BY <2>1, <2>2
<1> QED
  BY <1>1, <1>2, <1>5, PassFrame, StutterFrame DEF Stutters

LEMMA PassHappens ==
  ASSUME RInv, MInv', ClockMoves, HeartbeatUnlocks
  PROVE  Happens
<1>1. /\ place[Heartbeat] = "pass" /\ visit = {}
      /\ mtx' = NoThread /\ before' = registry /\ since' = now
      /\ sent' = outbox /\ response' = NoResponse
      /\ UNCHANGED <<process, topics, topicHeap, clientConnections, connHeap, now>>
  BY DEF HeartbeatUnlocks, registry
<1>2. mtx = Heartbeat /\ process = "running" /\ mtx # NoThread
  BY <1>1, ThreadAssumption DEF RInv, MInv, HeartbeatInv
<1>3. PassProgress
  BY <1>2 DEF RInv
<1>4. RInv'
  BY <1>1, FreeFrame DEF registry
<1>5. PICK due \in SUBSET before[1] :
        \E reading \in [due -> ReadingsSince] : passed(due, reading)
  BY <1>3 DEF PassProgress
<1>6. PICK reading \in [due -> ReadingsSince] : passed(due, reading)
  BY <1>5
<1>7. Abstract!TimePasses
  BY <1>1, ClockStep DEF RInv, MInv, ClockInv, Abstract!TimePasses
<1>8. reading \in [due -> Abstract!Readings]
  <2>1. Abstract!Readings = ReadingsSince
    BY <1>1 DEF Abstract!Readings, ReadingsSince
  <2> QED
    BY <2>1
<1>9. \A t, time : Abstract!timedOut(t, time) <=> before[2][t].timeoutTimestamp <= time
  BY <1>2 DEF Abstract!timedOut, unlocked
<1>10. topicHeap' = [t \in DOMAIN before[2] |->
         IF t \in due
         THEN [before[2][t] EXCEPT
                 !.timeoutTimestamp = Abstract!nextTimeout(reading[t][2])]
         ELSE before[2][t]]
  BY <1>1, <1>6 DEF passed, nextTimeout, Abstract!nextTimeout
<1>11. sent' = UNION {Abstract!publishMessage(before[2][t], before[4]) : t \in due}
  BY <1>1, <1>6, SameOperators DEF passed
<1>12. /\ {t \in before[1] : Abstract!timedOut(t, since)} \subseteq due
       /\ \A t \in due : Abstract!timedOut(t, reading[t][1])
       /\ \A s, t \in due : \/ s = t
                            \/ reading[s][2] <= reading[t][1]
                            \/ reading[t][2] <= reading[s][1]
  BY <1>1, <1>6, <1>9 DEF passed
<1>13. Abstract!pass(due, reading)
  BY <1>1, <1>2, <1>3, <1>10, <1>11, <1>12, SameOperators
     DEF Abstract!pass, unlocked, PassProgress, SameConnections
<1>14. Abstract!checkTopicTimeouts
  <2>1. due \in SUBSET (IF unlocked THEN topics ELSE before[1])
    BY <1>2 DEF unlocked
  <2> QED
    BY <1>7, <1>8, <1>13, <2>1 DEF Abstract!checkTopicTimeouts
<1> QED
  BY <1>4, <1>14 DEF Happens, Abstract!Next

-----------------------------------------------------------------------------
(* Steps outside the critical sections, and of the environment.            *)

(* Whoever is inside has got as far as it had.                             *)
LEMMA InsideGoesOn ==
  ASSUME RInv, MInv', ClockMoves,
         UNCHANGED <<topics, topicHeap, clientConnections, connHeap>>,
         UNCHANGED <<mtx, visit, outbox, before, since, request, local>>,
         \A th \in Thread : mtx = th => place'[th] = place[th],
         mtx = NoThread => UNCHANGED now
  PROVE  RInv'
<1>1. ASSUME NEW th \in Thread, mtx = th PROVE Progress(th)'
  <2>1. Progress(th) /\ place'[th] = place[th]
    BY <1>1 DEF RInv
  <2>2. \A where, command : At(th, command, where)' <=> At(th, command, where)
    BY <2>1 DEF At
  <2>3. /\ oldTopic(th)' = oldTopic(th) /\ oldConnection(th)' = oldConnection(th)
        /\ leftBy(th)' = leftBy(th)
    BY DEF oldTopic, oldConnection, leftBy
  <2>4. topicReady(th) \subseteq topicReady(th)'
    BY <2>3, ReadingsGrow DEF topicReady, RInv
  <2>5. TopicReady(th) => TopicReady(th)'
    BY <2>3, <2>4 DEF TopicReady
  <2>6. ConnectionReady(th) => ConnectionReady(th)'
    BY <2>3 DEF ConnectionReady
  <2>7. /\ Listed(th)' <=> Listed(th)
        /\ SameTopics' <=> SameTopics
        /\ SameConnections' <=> SameConnections
    BY <2>3 DEF Listed, SameTopics, SameConnections
  <2> QED
    BY <2>1, <2>2, <2>3, <2>5, <2>6, <2>7 DEF Progress
<1>2. ASSUME mtx = Heartbeat PROVE PassProgress'
  <2>1. PassProgress
    BY <1>2 DEF RInv
  <2>2. PICK due \in SUBSET before[1] :
          \E reading \in [due -> ReadingsSince] : passed(due, reading)
    BY <2>1 DEF PassProgress
  <2>3. PICK reading \in [due -> ReadingsSince] : passed(due, reading)
    BY <2>2
  <2>4. passed(due, reading)'
    BY <2>3 DEF passed, nextTimeout
  <2>5. due \in SUBSET before'[1] /\ reading \in [due -> ReadingsSince']
    BY ReadingsGrow DEF RInv
  <2> QED
    BY <2>1, <2>4, <2>5 DEF PassProgress, SameConnections
<1> QED
  BY <1>1, <1>2 DEF RInv, SameTopics, SameConnections

LEMMA OutsideStutters ==
  ASSUME RInv, MInv', ClockMoves, NEW th \in Thread,
         Accept(th) \/ Receive(th) \/ ReceiveFails(th) \/ Send(th)
  PROVE  Stutters
<1>1. /\ UNCHANGED <<process, topics, topicHeap, clientConnections, connHeap>>
      /\ UNCHANGED <<now, response, sent, mtx, visit, outbox, before, since,
                     request, local>>
      /\ \E where \in {"none", "recv", "lock", "send"} :
            place' = [place EXCEPT ![th] = where]
      /\ place[th] \in {"none", "recv", "send"}
  BY DEF Accept, Receive, ReceiveFails, Send, Close, Outside, goto, vars, registry,
         heartbeatVars, historyVars
<1>2. \A other \in Thread \ {th} : place'[other] = place[other]
  BY <1>1 DEF RInv, MInv, ThreadsTypeOK
<1>3. mtx # th
  BY <1>1 DEF RInv, MInv, HandlerInv, Inside
<1>4. RInv'
  BY <1>1, <1>2, <1>3, InsideGoesOn
<1> QED
  BY <1>1, <1>4, StutterFrame DEF Stutters

LEMMA LockedByHandler ==
  ASSUME RInv, MInv', ClockMoves, NEW th \in Thread, Lock(th)
  PROVE  Stutters
<1>1. /\ mtx = NoThread /\ mtx' = th
      /\ before' = registry /\ since' = now
      /\ place' = [place EXCEPT ![th] = "find"]
      /\ UNCHANGED vars
  BY DEF Lock, handlerMayEnter, unlocked, goto
<1>2. /\ UNCHANGED <<process, topics, topicHeap, clientConnections, connHeap>>
      /\ UNCHANGED <<now, response, sent>>
  BY <1>1 DEF vars, registry
<1>3. SameTopics /\ SameConnections /\ before' = before /\ since' = since
  BY <1>1 DEF RInv, SameTopics, SameConnections, registry
<1>4. place'[th] = "find"
  BY <1>1 DEF RInv, MInv, ThreadsTypeOK
<1>5. Progress(th)'
  BY <1>2, <1>3, <1>4 DEF Progress, At, SameTopics, SameConnections
<1> QED
  BY <1>1, <1>2, <1>3, <1>5, InsideFrame, StutterFrame DEF Stutters

(* A second that begins while the mutex is held is noticed only later.     *)
LEMMA SecondBeginsInside ==
  ASSUME RInv, MInv', ClockMoves, SecondBegins, mtx # NoThread
  PROVE  Stutters
<1>1. /\ UNCHANGED <<process, topics, topicHeap, clientConnections, connHeap>>
      /\ UNCHANGED <<response, sent, mtx, place, visit, outbox, before, since>>
      /\ UNCHANGED <<request, local>>
  BY DEF SecondBegins, unlocked, registry, handlerVars, heartbeatVars
<1>2. RInv'
  BY <1>1, InsideGoesOn
<1> QED
  BY <1>1, <1>2, StutterFrame DEF Stutters

(* Nobody is inside while the process does not run.                        *)
LEMMA StartOrTickHappens ==
  ASSUME RInv, MInv', ClockMoves,
         \/ Start /\ UNCHANGED <<mtx, handlerVars, heartbeatVars, historyVars>>
         \/ SecondBegins /\ mtx = NoThread
  PROVE  Happens
<1>1. /\ (Start /\ since' = since) \/ (Tick /\ since' = now' /\ mtx = NoThread)
      /\ UNCHANGED <<topics, topicHeap, clientConnections, connHeap>>
      /\ UNCHANGED <<mtx, before>>
  BY DEF Start, Tick, registry, unlocked, SecondBegins, historyVars
<1>2. mtx = NoThread
  BY <1>1 DEF Start, RInv, MInv, ThreadsTypeOK, HandlerInv, HeartbeatInv, Inside
<1>3. SameTopics /\ SameConnections /\ since = now
  BY <1>2 DEF RInv
<1>4. before' = registry' /\ since' = now'
  BY <1>1, <1>3 DEF SameTopics, SameConnections, registry, RInv, Start
<1>5. RInv'
  BY <1>1, <1>2, <1>4, FreeFrame
<1>6. UNCHANGED Abstract!registry
  BY <1>1, <1>5, AbstractRegistry, NextAbstractRegistry DEF Remembered
<1>7. Abstract!Start \/ Abstract!Tick
  BY <1>1, <1>3, <1>4, <1>6, SameOperators DEF Start, Tick, Abstract!Start, Abstract!Tick
<1> QED
  BY <1>5, <1>7 DEF Happens, Abstract!Next, Abstract!Background

LEMMA EnvironmentHappens ==
  ASSUME RInv, MInv', ClockMoves, Environment
  PROVE  Stutters \/ Happens
<1>1. CASE process = "running" /\ ProcessEnds("stopped")
  <2>1. RInv' /\ Abstract!Exit("stopped")
    BY <1>1, EndHappens
  <2> QED
    BY <1>1, <2>1 DEF Happens, Abstract!Next, Abstract!Background, Abstract!Stop
<1>2. CASE SecondBegins /\ mtx # NoThread
  BY <1>2, SecondBeginsInside
<1>3. CASE \/ Start /\ UNCHANGED <<mtx, handlerVars, heartbeatVars, historyVars>>
           \/ SecondBegins /\ mtx = NoThread
  BY <1>3, StartOrTickHappens
<1> QED
  BY <1>1, <1>2, <1>3 DEF Environment

LEMMA IdleStutters ==
  ASSUME RInv, MInv', ClockMoves, UNCHANGED threadVars
  PROVE  Stutters
<1>1. /\ UNCHANGED <<process, topics, topicHeap, clientConnections, connHeap>>
      /\ UNCHANGED <<now, response, sent, mtx, place, visit, outbox, before, since>>
      /\ UNCHANGED <<request, local>>
  BY DEF threadVars, vars, registry, handlerVars, heartbeatVars, historyVars
<1>2. RInv'
  BY <1>1, InsideGoesOn
<1> QED
  BY <1>1, <1>2, StutterFrame DEF Stutters

-----------------------------------------------------------------------------
(* The theorem of the refinement.                                          *)

LEMMA InitRefined == ThreadsInit => RInv /\ Abstract!Init
<1> SUFFICES ASSUME ThreadsInit PROVE RInv /\ Abstract!Init
  OBVIOUS
<1>1. mtx = NoThread /\ before = registry /\ since = now
  BY DEF ThreadsInit
<1>2. MInv /\ NoThread # Heartbeat /\ \A th \in Thread : th # NoThread
  BY InitMInv, ThreadAssumption
<1>3. RInv
  BY <1>1, <1>2 DEF RInv, registry, SameTopics, SameConnections, ThreadsInit
<1>4. Abstract!Init
  BY <1>1, SameOperators DEF ThreadsInit, Init, Abstract!Init, unlocked
<1> QED
  BY <1>3, <1>4

LEMMA NextRefined ==
  RInv /\ [ThreadsNext]_threadVars => RInv' /\ [Abstract!Next]_(Abstract!vars)
<1> SUFFICES ASSUME RInv, [ThreadsNext]_threadVars
             PROVE  Stutters \/ Happens
  BY DEF Stutters, Happens
<1>1. MInv' /\ ClockMoves
  BY NextMInv, NextClockMoves DEF RInv
<1> QED
  BY <1>1, IdleStutters, OutsideStutters, LockedByHandler, CriticalHappens,
     LockedByHeartbeat, Visited, PassHappens, EnvironmentHappens
     DEF ThreadsNext, Connection, Pass

(* The threads implement Server (server.cpp:103-180, 186-441): whatever    *)
(* they interleave, the others see each handler, and each pass of the      *)
(* heartbeat, as one step; so all that is proved of Server holds of what   *)
(* they see.                                                               *)
THEOREM ThreadsImplementServer == ThreadsSpec => ImplementsServer
BY InitRefined, NextRefined, PTL DEF ThreadsSpec, ImplementsServer, Abstract!Spec
=============================================================================
