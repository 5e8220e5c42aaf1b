--------------------------- MODULE ServerThreads ---------------------------
(***************************************************************************)
(* The threads of the server, step by step: a thread for each connection   *)
(* (handleApproachingClient) and the heartbeat thread (checkTopicTimeouts).*)
(* Between any two steps of one thread the others may run. A handler takes *)
(* the mutex before its first access of the registry and lets it go when   *)
(* it returns, by lock_guard; the heartbeat locks and unlocks by hand, and *)
(* visits the topics one by one.                                           *)
(*                                                                         *)
(* The variables of Server are used as they are, so registry is what the   *)
(* memory holds, in the middle of a critical section, too. The history     *)
(* variables before and since are the registry and the clock at the time   *)
(* the mutex was taken, for other threads can know no other while it is    *)
(* held, and what they are now when it is free.                            *)
(*                                                                         *)
(* The mutex does not stop the clock: a second may begin between any two   *)
(* steps. A step reads the clock at most twice, at its beginning, as now,  *)
(* and, when seconds may begin in between, at its end, as now'.            *)
(***************************************************************************)
EXTENDS Server

CONSTANTS
  Thread,      \* handler threads; one that is done is used again
  Heartbeat,   \* the heartbeat thread
  NoThread     \* the mutex is free

ASSUME ThreadAssumption ==
  /\ Heartbeat \notin Thread
  /\ NoThread \notin Thread \cup {Heartbeat}

VARIABLES
  mtx,      \* the thread that holds the mutex
  place,    \* where each thread is
  request,  \* what it has received
  local,    \* its topicPtr and clientConnectionPtr
  visit,    \* topics that the heartbeat has yet to visit in this pass
  outbox,   \* what it has sent in this pass
  before,   \* the registry when the mutex was taken, or when it is free
  since     \* the clock when the mutex was taken, or when it is free

handlerVars == <<place, request, local>>
heartbeatVars == <<visit, outbox>>
historyVars == <<before, since>>
threadVars == <<vars, mtx, handlerVars, heartbeatVars, historyVars>>

\* The five commands.
Requests ==
  [command : {"subscribe", "unsubscribe"}, client : Client, topicName : TopicName]
    \cup [command : {"publish"}, topicName : TopicName, message : Message]
    \cup [command : {"getTopicStatus"}, topicName : TopicName]
    \cup {[command |-> "listTopics"]}

NoRequest == [command |-> "none"]
NoPointers == [topicPtr |-> NullPtr, clientConnectionPtr |-> NullPtr]

unlocked == mtx = NoThread

\* No connection has a thread, and the heartbeat is between two passes.
atRest ==
  [th \in Thread \cup {Heartbeat} |-> IF th = Heartbeat THEN "asleep" ELSE "none"]

ThreadsInit ==
  /\ Init
  /\ mtx = NoThread
  /\ place = atRest
  /\ request = [th \in Thread |-> NoRequest]
  /\ local = [th \in Thread |-> NoPointers]
  /\ visit = {}
  /\ outbox = {}
  /\ before = registry
  /\ since = now

goto(th, where) == place' = [place EXCEPT ![th] = where]

\* Steps outside the critical sections change nothing of Server.
Outside == UNCHANGED <<vars, mtx, heartbeatVars, historyVars>>

-----------------------------------------------------------------------------
(* handleApproachingClient, up to the handler and after it.                *)

Accept(th) ==
  /\ process = "running"
  /\ place[th] = "none"
  /\ goto(th, "recv")
  /\ Outside /\ UNCHANGED <<request, local>>

\* recv and deserialize; what is not a command is answered by the catch.
Receive(th) ==
  /\ place[th] = "recv"
  /\ goto(th, "lock") \/ goto(th, "send")
  /\ Outside /\ UNCHANGED <<request, local>>

\* The thread closes its socket and ends.
Close(th) == goto(th, "none") /\ Outside /\ UNCHANGED <<request, local>>

\* The peer has closed the connection: recv fails.
ReceiveFails(th) == place[th] = "recv" /\ Close(th)

\* send, whether it succeeds or not.
Send(th) == place[th] = "send" /\ Close(th)

-----------------------------------------------------------------------------
(* The mutex.                                                              *)

\* Plausible bugs of the next three: a handler keeps only the heartbeat out,
\* and no other handler; the heartbeat keeps nobody out; an early return
\* leaves the mutex locked.
handlerMayEnterBeside == mtx # Heartbeat
heartbeatMayPassAlways == TRUE
releaseUnlessEarly(early) == IF early THEN mtx ELSE NoThread

handlerMayEnter == unlocked

heartbeatMayPass == unlocked

\* lock_guard lets the mutex go on every return, an early one or the last.
release(early) == NoThread

Lock(th) ==
  /\ place[th] = "lock"
  /\ handlerMayEnter
  /\ mtx' = th
  /\ before' = registry
  /\ since' = now
  /\ goto(th, "find")
  /\ \E r \in Requests : request' = [request EXCEPT ![th] = r]
  /\ UNCHANGED <<vars, local, heartbeatVars>>

\* The handler returns: the mutex is let go, and its Response, which is
\* response from here on, needs only be sent.
Return(th, early, made) ==
  /\ mtx' = release(early)
  /\ before' = registry'
  /\ since' = now'
  /\ goto(th, "send")
  /\ local' = [local EXCEPT ![th] = NoPointers]
  /\ request' = [request EXCEPT ![th] = NoRequest]
  /\ response' = made
  /\ sent' = {}
  /\ UNCHANGED <<process, heartbeatVars>>

\* An early return, before anything was changed.
Refuse(th, made) == UNCHANGED <<registry, now>> /\ Return(th, TRUE, made)

\* A step in the critical section after which th is at where.
Step(th, where, topicPtr, clientConnectionPtr) ==
  /\ goto(th, where)
  /\ local' = [local EXCEPT ![th] = [topicPtr |-> topicPtr,
                            clientConnectionPtr |-> clientConnectionPtr]]
  /\ UNCHANGED <<process, response, sent, mtx, request, heartbeatVars,
                 historyVars>>

\* th is at where in the handler of a command.
At(th, command, where) == place[th] = where /\ request[th].command = command

-----------------------------------------------------------------------------
(* handleSubscribeRequest.                                                 *)

FindOrCreateTopic(th) ==
  /\ At(th, "subscribe", "find")
  /\ LET name == request[th].topicName
     IN  \E t \in topicCell(name) :
           /\ topics' = topics \cup {t}
           /\ IF findTopic(name) = NullPtr
              THEN /\ TimePasses
                   /\ topicHeap' =
                        store(topicHeap, t, NewTopic(name, now, now'))
              ELSE UNCHANGED <<now, topicHeap>>
           /\ Step(th, "connection", t, NullPtr)
  /\ UNCHANGED <<clientConnections, connHeap>>

FindOrCreateConnection(th) ==
  /\ At(th, "subscribe", "connection")
  /\ \E c \in connectionCell(request[th].client) :
       /\ clientConnections' = clientConnections \cup {c}
       /\ connHeap' = store(connHeap, c, request[th].client)
       /\ Step(th, "list", local[th].topicPtr, c)
  /\ UNCHANGED <<topics, topicHeap, now>>

AddToList(th) ==
  /\ At(th, "subscribe", "list")
  /\ UNCHANGED <<topics, clientConnections, connHeap, now>>
  /\ LET t == local[th].topicPtr
         c == local[th].clientConnectionPtr
     IN  /\ topicHeap' =
              store(topicHeap, t, subscribe(topicHeap[t], connHeap, c))
         /\ Return(th, FALSE, Response("subscribe",
                IF hasClient(topicHeap[t], connHeap, connHeap[c])
                THEN "failed" ELSE "success", {}))

-----------------------------------------------------------------------------
(* handleUnsubscribeRequest.                                               *)

LookUp(th) ==
  /\ At(th, "unsubscribe", "find")
  /\ LET t == findTopic(request[th].topicName)
     IN  IF t = NullPtr
         THEN Refuse(th, Response("unsubscribe", "invalidParameter", {}))
         ELSE /\ Step(th, "list", t, findConnection(request[th].client))
              /\ UNCHANGED <<registry, now>>

RemoveFromList(th) ==
  /\ At(th, "unsubscribe", "list")
  /\ LET t == local[th].topicPtr
         c == local[th].clientConnectionPtr
     IN  IF topicHeap[t].subscriberList = <<>>
         THEN Refuse(th, Response("unsubscribe", "failed", {}))
         ELSE /\ topicHeap' = store(topicHeap, t, unsubscribe(topicHeap[t], c))
              /\ Step(th, "topic", t, c)
              /\ UNCHANGED <<topics, clientConnections, connHeap, now>>

\* From here on topicPtr, which may dangle, is used no more.
DeleteTopic(th) ==
  /\ At(th, "unsubscribe", "topic")
  /\ LET t == local[th].topicPtr
     IN  /\ topics' = topicsAfter(t, topicHeap[t])
         /\ topicHeap' = IF t \in topics' THEN topicHeap ELSE free(topicHeap, t)
  /\ Step(th, "connection", NullPtr, local[th].clientConnectionPtr)
  /\ UNCHANGED <<clientConnections, connHeap, now>>

\* The process ends, wherever its threads are.
ProcessEnds(how) ==
  /\ Exit(how)
  /\ mtx' = NoThread
  /\ place' = atRest
  /\ request' = [th \in Thread |-> NoRequest]
  /\ local' = [th \in Thread |-> NoPointers]
  /\ visit' = {}
  /\ outbox' = {}
  /\ before' = registry'
  /\ since' = now'

DeleteConnection(th) ==
  /\ At(th, "unsubscribe", "connection")
  /\ LET c == local[th].clientConnectionPtr
         drop == ~ isSubscribedToOtherTopic(topicHeap, topics, request[th].client)
     IN  IF c = NullPtr /\ topics # {}
         THEN ProcessEnds("crashed")   \* getAddress() of a null pointer
         ELSE /\ clientConnections' =
                   IF drop THEN clientConnections \ {c} ELSE clientConnections
              /\ connHeap' = IF drop THEN free(connHeap, c) ELSE connHeap
              /\ UNCHANGED <<topics, topicHeap, now>>
              /\ Return(th, FALSE, Response("unsubscribe", "success", {}))

-----------------------------------------------------------------------------
(* handlePublishRequest, handleGetTopicStatus and handleListTopics.        *)

FindTopic(th, command) ==
  /\ At(th, command, "find")
  /\ LET t == findTopic(request[th].topicName)
     IN  IF t = NullPtr
         THEN Refuse(th, Response(command, "invalidParameter", {}))
         ELSE Step(th, "topic", t, NullPtr) /\ UNCHANGED <<registry, now>>

SetMessage(th) ==
  /\ At(th, "publish", "topic")
  /\ TimePasses
  /\ LET t == local[th].topicPtr
     IN  topicHeap' = store(topicHeap, t,
                        setMessage(topicHeap[t], request[th].message, now, now'))
  /\ UNCHANGED <<topics, clientConnections, connHeap>>
  /\ Return(th, FALSE, Response("publish", "success", {}))

ReadStatus(th) ==
  /\ At(th, "getTopicStatus", "topic")
  /\ UNCHANGED <<registry, now>>
  /\ LET topic == topicHeap[local[th].topicPtr]
     IN  Return(th, FALSE,
           [Response("getTopicStatus", "success",
              {connHeap[c] : c \in Range(topic.subscriberList)})
                EXCEPT !.messageTimestamp = topic.messageTimestamp])

ListTopics(th) ==
  /\ At(th, "listTopics", "find")
  /\ UNCHANGED <<registry, now>>
  /\ Return(th, FALSE, Response("listTopics", "success",
                         {topicHeap[t].topicName : t \in topics}))

-----------------------------------------------------------------------------
(* checkTopicTimeouts.                                                     *)

HeartbeatLocks ==
  /\ process = "running"
  /\ place[Heartbeat] = "asleep"
  /\ heartbeatMayPass
  /\ mtx' = Heartbeat
  /\ before' = registry
  /\ since' = now
  /\ goto(Heartbeat, "pass")
  /\ visit' = topics
  /\ UNCHANGED <<vars, request, local, outbox>>

Visit ==
  /\ place[Heartbeat] = "pass"
  /\ \E t \in visit :
       /\ visit' = visit \ {t}
       /\ IF timedOut(t, now)
          THEN /\ TimePasses
               /\ outbox' = outbox \cup publishMessage(topicHeap[t], connHeap)
               /\ topicHeap' =
                    [topicHeap EXCEPT ![t].timeoutTimestamp = nextTimeout(now')]
          ELSE UNCHANGED <<now, outbox, topicHeap>>
  /\ UNCHANGED <<process, topics, clientConnections, connHeap, response, sent,
                 mtx, handlerVars, historyVars>>

\* The end of the loop; what was sent in it is the step of the abstract server.
HeartbeatUnlocks ==
  /\ place[Heartbeat] = "pass"
  /\ visit = {}
  /\ mtx' = NoThread
  /\ before' = registry
  /\ since' = now
  /\ goto(Heartbeat, "asleep")
  /\ sent' = outbox
  /\ outbox' = {}
  /\ response' = NoResponse
  /\ UNCHANGED <<process, registry, now, request, local, visit>>

-----------------------------------------------------------------------------
Connection(th) ==
  Accept(th) \/ Receive(th) \/ ReceiveFails(th) \/ Send(th) \/ Lock(th)

Critical(th) ==
  \/ FindOrCreateTopic(th) \/ FindOrCreateConnection(th) \/ AddToList(th)
  \/ LookUp(th) \/ RemoveFromList(th) \/ DeleteTopic(th) \/ DeleteConnection(th)
  \/ FindTopic(th, "publish") \/ SetMessage(th)
  \/ FindTopic(th, "getTopicStatus") \/ ReadStatus(th)
  \/ ListTopics(th)

Pass == Visit \/ HeartbeatUnlocks

(* A second begins, whoever holds the mutex. Outside the critical sections *)
(* it is a step of Server that everybody can see.                          *)
SecondBegins ==
  /\ IF unlocked
     THEN Tick /\ since' = now'
     ELSE /\ now < MaxTime
          /\ now' = now + 1
          /\ UNCHANGED <<process, registry, response, sent, since>>
  /\ UNCHANGED <<mtx, handlerVars, heartbeatVars, before>>

Environment ==
  \/ Start /\ UNCHANGED <<mtx, handlerVars, heartbeatVars, historyVars>>
  \/ process = "running" /\ ProcessEnds("stopped")
  \/ SecondBegins

ThreadsNext ==
  \/ \E th \in Thread : Connection(th) \/ Critical(th)
  \/ HeartbeatLocks
  \/ Pass
  \/ Environment

ThreadsSpec == ThreadsInit /\ [][ThreadsNext]_threadVars

-----------------------------------------------------------------------------
(* Properties.                                                             *)

(* In the middle of a critical section, too, both vectors own exactly the  *)
(* live objects, no list holds a dangling pointer, and what a handler has  *)
(* looked up, and what the heartbeat has yet to visit, is alive            *)
(* (server.cpp:186-308 read before and used after other threads' steps).   *)
PointersAreLive ==
  /\ MemorySafety
  /\ visit \subseteq topics
  /\ \A th \in Thread :
       /\ local[th].topicPtr \in topics \cup {NullPtr}
       /\ local[th].clientConnectionPtr \in clientConnections \cup {NullPtr}

(* The mutex is held by whoever is between its first access of the         *)
(* registry and its last, and by nobody else: two threads are never there  *)
(* at the same time, and none of the returns of a handler (server.cpp:237, *)
(* 259, 271, 310, ...) leaves the mutex behind, for which all would wait.  *)
MutexIsHeldInside ==
  /\ \A th \in Thread :
       mtx = th <=> place[th] \in {"find", "connection", "list", "topic"}
  /\ mtx = Heartbeat <=> place[Heartbeat] = "pass"

\* What the registry and the clock are to those who hold no lock.
Abstract == INSTANCE Server WITH
  topics            <- IF unlocked THEN topics ELSE before[1],
  topicHeap         <- IF unlocked THEN topicHeap ELSE before[2],
  clientConnections <- IF unlocked THEN clientConnections ELSE before[3],
  connHeap          <- IF unlocked THEN connHeap ELSE before[4],
  now               <- since

(* The mutex makes a handler, and a pass of the heartbeat, one step: the   *)
(* threads implement Server, in which each of them is an action, together  *)
(* with all that is checked and proved of Server.                          *)
ImplementsServer == Abstract!Spec
=============================================================================
