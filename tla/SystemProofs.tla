---------------------------- MODULE SystemProofs ----------------------------
(***************************************************************************)
(* Proofs about the server and its clients together, for any number of     *)
(* processes, command lines, ports and topics: types, and the loop bound   *)
(* of the destructor, whatever goes wrong outside; that the server among   *)
(* its clients is the server of ServerProofs; and, without faults, that no *)
(* subscription is left behind.                                            *)
(***************************************************************************)
EXTENDS System, ServerProofs, FiniteSetTheorems

Requests == UNION {Range(line) : line \in CommandLine}

\* The requests of a destructor.
Undo == [command : {"unsubscribe"}, topicName : TopicName]

Connection ==
  [proc : Proc, serial : Nat, port : HostPort, request : Requests \cup Undo,
   stage : {"sent", "answered"}]

Places == {"new", "command", "commandReply", "enter", "destructor",
           "destructorReply", "join", "exited", "killed"}

InReply == {"commandReply", "destructorReply"}

Over == {"new", "exited", "killed"}

(* What is left to do never exceeds the command line, and with what has    *)
(* been done, a reply that is awaited counting as half done, twice that.   *)
WithinLine(p) ==
  \E line \in CommandLine :
    /\ Len(todo[p]) + Len(subscribedTopics[p]) <= Len(line)
    /\ serial[p] + 2 * Len(todo[p]) + Len(subscribedTopics[p]) <= 2 * Len(line) + 1
    /\ pc[p] \notin InReply =>
         serial[p] + 2 * Len(todo[p]) + Len(subscribedTopics[p]) <= 2 * Len(line)

ValidState(p) ==
  /\ pc[p] \in Places
  /\ hasSubscribeCommand[p] \in BOOLEAN
  /\ todo[p] \in Seq(Requests)
  /\ subscribedTopics[p] \in Seq(TopicName)
  /\ port[p] \in HostPort \cup {NoPort}
  /\ serial[p] \in Nat
  /\ messageThreadRunning[p] \in BOOLEAN
  /\ messageThread[p] \in {"none", "receiving", "terminated"}

ValidPlace(p) ==
  /\ pc[p] = "commandReply" => todo[p] # <<>>
  /\ pc[p] = "destructorReply" => subscribedTopics[p] # <<>>
  /\ pc[p] \notin {"command", "commandReply"} => todo[p] = <<>>
  /\ pc[p] \in Over \cup {"join"} => subscribedTopics[p] = <<>>
  /\ pc[p] = "new" => serial[p] = 0
  /\ pc[p] \notin Over => port[p] \in HostPort

ValidClient(p) == ValidState(p) /\ ValidPlace(p) /\ WithinLine(p)

\* The variables of ClientProcess are functions of the processes.
Slots ==
  /\ pc = [p \in Proc |-> pc[p]]
  /\ hasSubscribeCommand = [p \in Proc |-> hasSubscribeCommand[p]]
  /\ todo = [p \in Proc |-> todo[p]]
  /\ subscribedTopics = [p \in Proc |-> subscribedTopics[p]]
  /\ port = [p \in Proc |-> port[p]]
  /\ serial = [p \in Proc |-> serial[p]]
  /\ messageThreadRunning = [p \in Proc |-> messageThreadRunning[p]]
  /\ messageThread = [p \in Proc |-> messageThread[p]]

ValidConnections ==
  /\ connections \subseteq Connection
  /\ \A c \in connections : c.serial \in 1..serial[c.proc]

CInv == Slots /\ (\A p \in Proc : ValidClient(p)) /\ ValidConnections

-----------------------------------------------------------------------------
(* Command lines.                                                          *)

LEMMA RequestKinds ==
  ASSUME NEW r \in Requests
  PROVE  /\ r.command \in Commands \ {"unsubscribe"}
         /\ r.command \in {"subscribe", "publish", "getTopicStatus"} =>
              r.topicName \in TopicName
         /\ r.command = "publish" => r.message \in Message
BY ClientAssumption, SystemAssumption DEF Requests

LEMMA LineOfRequests ==
  ASSUME NEW line \in CommandLine
  PROVE  line \in Seq(Requests) /\ Len(line) \in Nat
<1>1. line \in Seq(Range(line)) /\ Range(line) \subseteq Requests
  BY ClientAssumption DEF Requests
<1> QED
  BY <1>1

(* The first of the requests left, and the vector without it.              *)
LEMMA HeadAndTail ==
  ASSUME NEW S, NEW s \in Seq(S), s # <<>>
  PROVE  /\ Head(s) \in S /\ Head(s) \in Range(s)
         /\ Tail(s) \in Seq(S)
         /\ Len(s) \in Nat /\ Len(s) >= 1
         /\ Len(Tail(s)) = Len(s) - 1
<1>1. 1 \in DOMAIN s /\ Head(s) = s[1]
  OBVIOUS
<1> QED
  BY <1>1 DEF Range

(* A request less to make, and at most one topic more to leave.            *)
LEMMA OneCommandLess ==
  ASSUME NEW n \in Nat, NEW done \in Nat, NEW t \in Nat, NEW s \in Nat,
         NEW t2 \in Nat, NEW s2 \in Nat,
         t + s <= n, done + 2 * t + s <= 2 * n + 1, t2 = t - 1, s2 <= s + 1
  PROVE  t2 + s2 <= n /\ done + 2 * t2 + s2 <= 2 * n
OBVIOUS

LEMMA OneConnectionMore ==
  ASSUME NEW n \in Nat, NEW done \in Nat, NEW t \in Nat, NEW s \in Nat,
         done + 2 * t + s <= 2 * n
  PROVE  (done + 1) + 2 * t + s <= 2 * n + 1
OBVIOUS

LEMMA OneTopicLess ==
  ASSUME NEW n \in Nat, NEW done \in Nat, NEW t \in Nat, NEW s \in Nat,
         NEW s2 \in Nat,
         t + s <= n, done + 2 * t + s <= 2 * n + 1, s2 < s
  PROVE  t + s2 <= n /\ done + 2 * t + s2 <= 2 * n
OBVIOUS

-----------------------------------------------------------------------------
(* A step of a process changes the state of no other.                      *)

Moves(p) ==
  /\ pc' = [pc EXCEPT ![p] = pc'[p]]
  /\ hasSubscribeCommand' = [hasSubscribeCommand EXCEPT ![p] = hasSubscribeCommand'[p]]
  /\ todo' = [todo EXCEPT ![p] = todo'[p]]
  /\ subscribedTopics' = [subscribedTopics EXCEPT ![p] = subscribedTopics'[p]]
  /\ port' = [port EXCEPT ![p] = port'[p]]
  /\ serial' = [serial EXCEPT ![p] = serial'[p]]
  /\ messageThreadRunning' = [messageThreadRunning EXCEPT ![p] = messageThreadRunning'[p]]
  /\ messageThread' = [messageThread EXCEPT ![p] = messageThread'[p]]

Same(q) ==
  /\ pc'[q] = pc[q]
  /\ hasSubscribeCommand'[q] = hasSubscribeCommand[q]
  /\ todo'[q] = todo[q]
  /\ subscribedTopics'[q] = subscribedTopics[q]
  /\ port'[q] = port[q]
  /\ serial'[q] = serial[q]
  /\ messageThreadRunning'[q] = messageThreadRunning[q]
  /\ messageThread'[q] = messageThread[q]

LEMMA MovesOnly ==
  ASSUME Slots, NEW p \in Proc, Moves(p)
  PROVE  Slots' /\ \A q \in Proc \ {p} : Same(q)
<1>1. Slots'
  BY DEF Slots, Moves
<1>2. ASSUME NEW q \in Proc \ {p} PROVE Same(q)
  BY <1>2 DEF Slots, Moves, Same
<1> QED
  BY <1>1, <1>2

LEMMA ReturnedMoves ==
  ASSUME Slots, NEW p \in Proc, Returned(p)
  PROVE  /\ pc' = [pc EXCEPT ![p] = pc'[p]]
         /\ todo' = [todo EXCEPT ![p] = todo'[p]]
         /\ subscribedTopics' = [subscribedTopics EXCEPT ![p] = subscribedTopics'[p]]
<1>1. \A x : [pc EXCEPT ![p] = x][p] = x /\ [todo EXCEPT ![p] = x][p] = x
             /\ [subscribedTopics EXCEPT ![p] = x][p] = x
  BY DEF Slots
<1>2. /\ todo = [todo EXCEPT ![p] = todo[p]]
      /\ subscribedTopics = [subscribedTopics EXCEPT ![p] = subscribedTopics[p]]
  BY DEF Slots
<1>3. \E x, y, z : /\ pc' = [pc EXCEPT ![p] = x]
                   /\ todo' = [todo EXCEPT ![p] = y]
                   /\ subscribedTopics' = [subscribedTopics EXCEPT ![p] = z]
  BY <1>2 DEF Returned, goto
<1> QED
  BY <1>1, <1>3

LEMMA ClientMoves ==
  ASSUME Slots, NEW p \in Proc, NEW l, ClientNext(p, l)
  PROVE  Moves(p)
<1>1. /\ pc = [pc EXCEPT ![p] = pc[p]]
      /\ hasSubscribeCommand = [hasSubscribeCommand EXCEPT ![p] = hasSubscribeCommand[p]]
      /\ todo = [todo EXCEPT ![p] = todo[p]]
      /\ subscribedTopics = [subscribedTopics EXCEPT ![p] = subscribedTopics[p]]
      /\ port = [port EXCEPT ![p] = port[p]]
      /\ serial = [serial EXCEPT ![p] = serial[p]]
      /\ messageThreadRunning = [messageThreadRunning EXCEPT ![p] = messageThreadRunning[p]]
      /\ messageThread = [messageThread EXCEPT ![p] = messageThread[p]]
  BY DEF Slots
<1>2. \A x : /\ [pc EXCEPT ![p] = x][p] = x
             /\ [hasSubscribeCommand EXCEPT ![p] = x][p] = x
             /\ [todo EXCEPT ![p] = x][p] = x
             /\ [subscribedTopics EXCEPT ![p] = x][p] = x
             /\ [port EXCEPT ![p] = x][p] = x
             /\ [serial EXCEPT ![p] = x][p] = x
             /\ [messageThreadRunning EXCEPT ![p] = x][p] = x
             /\ [messageThread EXCEPT ![p] = x][p] = x
  BY DEF Slots
<1>3. CASE Launch(p)
  <2>1. PICK requests \in CommandLine :
          /\ todo' = [todo EXCEPT ![p] = requests]
          /\ hasSubscribeCommand' = [hasSubscribeCommand EXCEPT ![p] =
               \E i \in DOMAIN requests : requests[i].command = "subscribe"]
    BY <1>3 DEF Launch
  <2>2. PICK q \in HostPort : port' = [port EXCEPT ![p] = q]
    BY <1>3 DEF Launch
  <2>3. /\ todo' = [todo EXCEPT ![p] = todo'[p]]
        /\ hasSubscribeCommand' = [hasSubscribeCommand EXCEPT ![p] = hasSubscribeCommand'[p]]
        /\ port' = [port EXCEPT ![p] = port'[p]]
    BY <1>2, <2>1, <2>2
  <2> QED
    BY <1>1, <1>2, <1>3, <2>3 DEF Launch, goto, Moves
<1>4. CASE LaunchFails(p)
  BY <1>1, <1>2, <1>4 DEF LaunchFails, goto, Moves
<1>5. CASE Connect(p, l) /\ UNCHANGED <<messageThreadRunning, messageThread>>
  BY <1>1, <1>2, <1>5 DEF Connect, goto, Moves
<1>6. CASE ConnectFails(p, l) /\ UNCHANGED <<messageThreadRunning, messageThread>>
  BY <1>1, <1>2, <1>6, ReturnedMoves DEF ConnectFails, Moves
<1>7. CASE ReceiveReply(p) /\ UNCHANGED <<messageThreadRunning, messageThread>>
  BY <1>1, <1>2, <1>7, ReturnedMoves DEF ReceiveReply, Moves
<1>8. CASE ReceiveFails(p) /\ UNCHANGED <<messageThreadRunning, messageThread>>
  BY <1>1, <1>2, <1>8, ReturnedMoves DEF ReceiveFails, Moves
<1>9. CASE CommandsDone(p) /\ UNCHANGED <<messageThreadRunning, messageThread>>
  BY <1>1, <1>2, <1>9 DEF CommandsDone, goto, Moves
<1>10. CASE PressEnter(p)
  BY <1>1, <1>2, <1>10 DEF PressEnter, goto, Moves
<1>11. CASE ClearFlag(p)
  BY <1>1, <1>2, <1>11 DEF ClearFlag, goto, Moves
<1>12. CASE Join(p)
  BY <1>1, <1>2, <1>12 DEF Join, end, goto, Moves
<1>13. CASE handleMessages(p)
  BY <1>1, <1>2, <1>13 DEF handleMessages, mainVars, Moves
<1>14. CASE Kill(p)
  BY <1>1, <1>2, <1>14 DEF Kill, end, goto, Moves
<1> QED
  BY <1>3, <1>4, <1>5, <1>6, <1>7, <1>8, <1>9, <1>10, <1>11, <1>12, <1>13, <1>14
     DEF ClientNext, Main

-----------------------------------------------------------------------------
(* The connections after a step of a process.                              *)

LEMMA FewerConnections ==
  ASSUME ValidConnections, Slots, NEW p \in Proc, Moves(p),
         connections' \subseteq connections, serial'[p] = serial[p]
  PROVE  ValidConnections'
<1>1. \A q \in Proc : serial'[q] = serial[q]
  BY MovesOnly DEF Same
<1>2. \A c \in connections' : c \in Connection /\ c.serial \in 1..serial'[c.proc]
  BY <1>1 DEF ValidConnections, Connection
<1> QED
  BY <1>2 DEF ValidConnections

(* How a step is shown to keep within the command line.                    *)
LEMMA KeepsWithinLine ==
  ASSUME NEW p, NEW line \in CommandLine,
         serial'[p] \in Nat, Len(todo'[p]) \in Nat, Len(subscribedTopics'[p]) \in Nat,
         Len(todo'[p]) + Len(subscribedTopics'[p]) <= Len(line),
         serial'[p] + 2 * Len(todo'[p]) + Len(subscribedTopics'[p]) <= 2 * Len(line)
  PROVE  WithinLine(p)'
<1>1. Len(line) \in Nat
  BY LineOfRequests
<1>2. serial'[p] + 2 * Len(todo'[p]) + Len(subscribedTopics'[p]) <= 2 * Len(line) + 1
  BY <1>1
<1> QED
  BY <1>2 DEF WithinLine

(* A step that ends a process.                                             *)
LEMMA EndStep ==
  ASSUME CInv, NEW p \in Proc, NEW how \in {"exited", "killed"}, end(p, how),
         pc[p] \notin Over, UNCHANGED serial, Moves(p)
  PROVE  ValidClient(p)'
<1>1. Slots /\ ValidClient(p)
  BY DEF CInv
<1>2. /\ pc'[p] = how /\ port'[p] = NoPort /\ hasSubscribeCommand'[p] = FALSE
      /\ todo'[p] = <<>> /\ subscribedTopics'[p] = <<>>
      /\ messageThreadRunning'[p] = FALSE /\ messageThread'[p] = "none"
      /\ serial'[p] = serial[p]
  BY <1>1 DEF end, goto, Slots
<1>3. ValidState(p)' /\ ValidPlace(p)'
  <2>1. hasSubscribeCommand'[p] \in BOOLEAN /\ messageThreadRunning'[p] \in BOOLEAN
    BY <1>2
  <2>2. ValidState(p)'
    <3>1. serial[p] \in Nat
      BY <1>1 DEF ValidClient, ValidState
    <3>2. todo'[p] \in Seq(Requests) /\ subscribedTopics'[p] \in Seq(TopicName)
      BY <1>2
    <3> QED
      BY <1>2, <2>1, <3>1, <3>2 DEF ValidState, Places
  <2>3. ValidPlace(p)'
    BY <1>2 DEF ValidPlace, Over
  <2> QED
    BY <2>2, <2>3
<1>4. WithinLine(p)'
  <2>1. PICK line \in CommandLine :
          /\ Len(todo[p]) + Len(subscribedTopics[p]) <= Len(line)
          /\ serial[p] + 2 * Len(todo[p]) + Len(subscribedTopics[p]) <= 2 * Len(line) + 1
          /\ pc[p] \notin InReply =>
               serial[p] + 2 * Len(todo[p]) + Len(subscribedTopics[p]) <= 2 * Len(line)
    BY <1>1 DEF ValidClient, WithinLine
  <2>2. /\ Len(line) \in Nat /\ serial[p] \in Nat
        /\ Len(todo[p]) \in Nat /\ Len(subscribedTopics[p]) \in Nat
        /\ pc[p] = "commandReply" => Len(todo[p]) >= 1
        /\ pc[p] = "destructorReply" => Len(subscribedTopics[p]) >= 1
    BY <1>1, LineOfRequests DEF ValidClient, ValidState, ValidPlace
  <2>3. Len(todo'[p]) + Len(subscribedTopics'[p]) = 0
    BY <1>2
  <2>4. serial[p] <= 2 * Len(line)
    <3>1. CASE pc[p] = "commandReply"
      BY <2>1, <2>2, <3>1 DEF InReply
    <3>2. CASE pc[p] = "destructorReply"
      BY <2>1, <2>2, <3>2 DEF InReply
    <3>3. CASE pc[p] \notin InReply
      BY <2>1, <2>2, <3>3
    <3> QED
      BY <3>1, <3>2, <3>3 DEF InReply
  <2>5. /\ Len(todo'[p]) = 0 /\ Len(subscribedTopics'[p]) = 0
        /\ pc'[p] \notin InReply
    BY <1>2 DEF InReply
  <2> QED
    BY <1>2, <2>2, <2>4, <2>5 DEF WithinLine
<1> QED
  BY <1>3, <1>4 DEF ValidClient

(* A step that leaves todo, the topics and the connections alone.          *)
LEMMA PlaceStep ==
  ASSUME CInv, NEW p \in Proc, ValidState(p)', ValidPlace(p)',
         pc[p] \notin InReply,
         todo'[p] = todo[p], subscribedTopics'[p] = subscribedTopics[p],
         serial'[p] = serial[p]
  PROVE  ValidClient(p)'
<1>1. PICK line \in CommandLine :
        /\ Len(todo[p]) + Len(subscribedTopics[p]) <= Len(line)
        /\ serial[p] + 2 * Len(todo[p]) + Len(subscribedTopics[p])
             <= 2 * Len(line)
  BY DEF CInv, ValidClient, WithinLine
<1>2. Len(line) \in Nat
  BY LineOfRequests
<1>3. /\ serial[p] \in Nat
      /\ Len(todo[p]) \in Nat /\ Len(subscribedTopics[p]) \in Nat
  BY DEF CInv, ValidClient, ValidState
<1>4. WithinLine(p)'
  BY <1>1, <1>3, KeepsWithinLine
<1> QED
  BY <1>4 DEF ValidClient

LEMMA LaunchStep ==
  ASSUME CInv, NEW p \in Proc, Launch(p)
  PROVE  ValidClient(p)'
<1>1. Slots /\ ValidClient(p) /\ pc[p] = "new"
  BY DEF CInv, Launch
<1>2. /\ todo[p] = <<>> /\ subscribedTopics[p] = <<>> /\ serial[p] = 0
  BY <1>1 DEF ValidClient, ValidPlace, Over
<1>3. PICK requests \in CommandLine :
        /\ todo' = [todo EXCEPT ![p] = requests]
        /\ hasSubscribeCommand' = [hasSubscribeCommand EXCEPT ![p] =
             \E i \in DOMAIN requests : requests[i].command = "subscribe"]
  BY DEF Launch
<1>4. PICK q \in HostPort : port' = [port EXCEPT ![p] = q]
  BY DEF Launch
<1>5. requests \in Seq(Requests) /\ Len(requests) \in Nat
  BY LineOfRequests
<1>6. /\ pc'[p] = "command" /\ todo'[p] = requests /\ port'[p] \in HostPort
      /\ hasSubscribeCommand'[p] \in BOOLEAN
      /\ messageThreadRunning'[p] = TRUE /\ messageThread'[p] = "receiving"
      /\ subscribedTopics'[p] = <<>> /\ serial'[p] = 0
  BY <1>1, <1>2, <1>3, <1>4 DEF Launch, goto, Slots
<1>7. ValidState(p)' /\ ValidPlace(p)'
  <2>1. ValidState(p)'
    <3>1. messageThreadRunning'[p] \in BOOLEAN
      BY <1>6
    <3>2. todo'[p] \in Seq(Requests) /\ subscribedTopics'[p] \in Seq(TopicName)
      BY <1>5, <1>6
    <3> QED
      BY <1>6, <3>1, <3>2 DEF ValidState, Places
  <2>2. ValidPlace(p)'
    BY <1>6 DEF ValidPlace, Over
  <2> QED
    BY <2>1, <2>2
<1>8. WithinLine(p)'
  <2>1. Len(<<>>) = 0
    OBVIOUS
  <2>2. /\ Len(todo'[p]) = Len(requests) /\ Len(subscribedTopics'[p]) = 0
        /\ pc'[p] \notin InReply /\ serial'[p] = 0
    BY <1>6, <2>1 DEF InReply
  <2> QED
    BY <1>5, <2>2 DEF WithinLine
<1> QED
  BY <1>7, <1>8 DEF ValidClient

(* What the caller of sendMessage does, from either place of either loop.  *)
LEMMA ReturnedStep ==
  ASSUME CInv, NEW p \in Proc, Returned(p),
         pc[p] \in {"command", "commandReply", "destructor", "destructorReply"},
         pc[p] = "command" => todo[p] # <<>>,
         pc[p] = "destructor" => subscribedTopics[p] # <<>>,
         UNCHANGED <<hasSubscribeCommand, port, serial,
                     messageThreadRunning, messageThread>>
  PROVE  ValidClient(p)'
<1>1. Slots /\ ValidClient(p)
  BY DEF CInv
<1>2. PICK line \in CommandLine :
        /\ Len(todo[p]) + Len(subscribedTopics[p]) <= Len(line)
        /\ serial[p] + 2 * Len(todo[p]) + Len(subscribedTopics[p]) <= 2 * Len(line) + 1
        /\ pc[p] \notin InReply =>
             serial[p] + 2 * Len(todo[p]) + Len(subscribedTopics[p]) <= 2 * Len(line)
  BY <1>1 DEF ValidClient, WithinLine
<1>3. /\ Len(line) \in Nat /\ serial[p] \in Nat
      /\ todo[p] \in Seq(Requests) /\ subscribedTopics[p] \in Seq(TopicName)
      /\ Len(todo[p]) \in Nat /\ Len(subscribedTopics[p]) \in Nat
  BY <1>1, LineOfRequests DEF ValidClient, ValidState
<1>4. /\ port'[p] = port[p] /\ serial'[p] = serial[p]
      /\ hasSubscribeCommand'[p] = hasSubscribeCommand[p]
      /\ messageThreadRunning'[p] = messageThreadRunning[p]
      /\ messageThread'[p] = messageThread[p]
      /\ port[p] \in HostPort
  BY <1>1 DEF ValidClient, ValidPlace, Over
<1>5. CASE pc[p] \in {"command", "commandReply"}
  <2>1. todo[p] # <<>>
    BY <1>1, <1>5 DEF ValidClient, ValidPlace
  <2>2. /\ Head(todo[p]) \in Requests /\ Tail(todo[p]) \in Seq(Requests)
        /\ Len(Tail(todo[p])) = Len(todo[p]) - 1
    BY <1>3, <2>1, HeadAndTail
  <2>3. request(p) = Head(todo[p])
    BY <1>5 DEF request
  <2>4. pc'[p] = "command" /\ todo'[p] = Tail(todo[p])
    BY <1>1, <1>5 DEF Returned, goto, Slots
  <2>5. /\ subscribedTopics'[p] \in Seq(TopicName)
        /\ Len(subscribedTopics'[p]) \in Nat
        /\ Len(subscribedTopics'[p]) <= Len(subscribedTopics[p]) + 1
    <3>1. CASE request(p).command = "subscribe"
      <4>1. subscribedTopics'[p] =
              Append(subscribedTopics[p], request(p).topicName)
        BY <1>1, <1>5, <3>1 DEF Returned, Slots
      <4>2. request(p).topicName \in TopicName
        BY <2>2, <2>3, <3>1, RequestKinds
      <4> QED
        BY <1>3, <4>1, <4>2
    <3>2. CASE request(p).command # "subscribe"
      <4>1. subscribedTopics'[p] = subscribedTopics[p]
        BY <1>5, <3>2 DEF Returned
      <4> QED
        BY <1>3, <4>1
    <3> QED
      BY <3>1, <3>2
  <2>6. ValidState(p)' /\ ValidPlace(p)'
    BY <1>1, <1>4, <2>2, <2>4, <2>5
       DEF ValidClient, ValidState, ValidPlace, Places, Over
  <2>7. WithinLine(p)'
    <3>2. Len(todo'[p]) = Len(todo[p]) - 1 /\ Len(todo'[p]) \in Nat
      BY <2>2, <2>4
    <3>3. /\ Len(todo'[p]) + Len(subscribedTopics'[p]) <= Len(line)
          /\ serial'[p] + 2 * Len(todo'[p]) + Len(subscribedTopics'[p])
               <= 2 * Len(line)
      BY <1>2, <1>3, <1>4, <2>5, <3>2, OneCommandLess
    <3> QED
      BY <1>3, <1>4, <2>5, <3>2, <3>3, KeepsWithinLine
  <2> QED
    BY <2>6, <2>7 DEF ValidClient
<1>6. CASE pc[p] \in {"destructor", "destructorReply"}
  <2>1. subscribedTopics[p] # <<>> /\ todo[p] = <<>>
    BY <1>1, <1>6 DEF ValidClient, ValidPlace
  <2> DEFINE left == eraseRemove(subscribedTopics[p], Head(subscribedTopics[p]))
  <2>2. left \in Seq(TopicName) /\ Len(left) < Len(subscribedTopics[p])
    BY <1>3, <2>1, eraseHeadShortens
  <2>3. /\ pc'[p] = "destructor" /\ todo'[p] = todo[p]
        /\ subscribedTopics'[p] = left
    BY <1>1, <1>6 DEF Returned, goto, Slots, afterUnsubscribe
  <2> HIDE DEF left
  <2>4. ValidState(p)' /\ ValidPlace(p)'
    BY <1>1, <1>4, <2>1, <2>2, <2>3
       DEF ValidClient, ValidState, ValidPlace, Places, Over
  <2>5. WithinLine(p)'
    <3>2. Len(left) \in Nat
      BY <2>2
    <3>3. /\ Len(todo'[p]) + Len(subscribedTopics'[p]) <= Len(line)
          /\ serial'[p] + 2 * Len(todo'[p]) + Len(subscribedTopics'[p])
               <= 2 * Len(line)
      BY <1>2, <1>3, <1>4, <2>2, <2>3, <3>2, OneTopicLess
    <3> QED
      BY <1>3, <1>4, <2>3, <3>2, <3>3, KeepsWithinLine
  <2> QED
    BY <2>4, <2>5 DEF ValidClient
<1> QED
  BY <1>5, <1>6

-----------------------------------------------------------------------------
(* The steps of a process preserve the invariant.                          *)

LEMMA ConnectStep ==
  ASSUME CInv, NEW p \in Proc, NEW l, Connect(p, l), Moves(p),
         UNCHANGED <<messageThreadRunning, messageThread>>
  PROVE  ValidClient(p)' /\ ValidConnections'
<1>1. Slots /\ ValidClient(p) /\ ValidConnections
  BY DEF CInv
<1>2. \/ pc[p] = "command" /\ todo[p] # <<>> /\ pc[p] \notin InReply
      \/ pc[p] = "destructor" /\ subscribedTopics[p] # <<>> /\ pc[p] \notin InReply
  BY DEF Connect, AboutToSend, allUnsubscribed, InReply
<1>3. /\ todo[p] \in Seq(Requests) /\ subscribedTopics[p] \in Seq(TopicName)
      /\ Len(todo[p]) \in Nat /\ Len(subscribedTopics[p]) \in Nat
      /\ serial[p] \in Nat /\ port[p] \in HostPort
  BY <1>1, <1>2 DEF ValidClient, ValidState, ValidPlace, Over
<1>4. /\ pc'[p] = IF pc[p] = "command" THEN "commandReply" ELSE "destructorReply"
      /\ serial'[p] = serial[p] + 1
      /\ todo'[p] = todo[p] /\ subscribedTopics'[p] = subscribedTopics[p]
      /\ port'[p] = port[p] /\ hasSubscribeCommand'[p] = hasSubscribeCommand[p]
      /\ messageThreadRunning'[p] = messageThreadRunning[p]
      /\ messageThread'[p] = messageThread[p]
  BY <1>1 DEF Connect, goto, Slots
<1>5. ValidState(p)'
  BY <1>1, <1>3, <1>4 DEF ValidClient, ValidState, Places
<1>6. ValidPlace(p)'
  BY <1>1, <1>2, <1>3, <1>4 DEF ValidClient, ValidPlace, Over
<1>7. WithinLine(p)'
  <2>1. PICK line \in CommandLine :
          /\ Len(todo[p]) + Len(subscribedTopics[p]) <= Len(line)
          /\ serial[p] + 2 * Len(todo[p]) + Len(subscribedTopics[p])
               <= 2 * Len(line)
    BY <1>1, <1>2 DEF ValidClient, WithinLine
  <2>2. Len(line) \in Nat
    BY LineOfRequests
  <2>3. (serial[p] + 1) + 2 * Len(todo[p]) + Len(subscribedTopics[p])
          <= 2 * Len(line) + 1
    BY <1>3, <2>1, <2>2, OneConnectionMore
  <2>4. pc'[p] \in InReply
    BY <1>4 DEF InReply
  <2> QED
    BY <1>4, <2>1, <2>3, <2>4 DEF WithinLine
<1>8. ValidConnections'
  <2>1. request(p) \in Requests \cup Undo
    <3>1. CASE pc[p] = "command"
      BY <1>2, <1>3, <3>1, HeadAndTail DEF request
    <3>2. CASE pc[p] = "destructor"
      <4>1. Head(subscribedTopics[p]) \in TopicName
        BY <1>2, <1>3, <3>2, HeadAndTail
      <4> QED
        BY <3>2, <4>1 DEF request, Undo
    <3> QED
      BY <1>2, <3>1, <3>2
  <2> DEFINE new == [proc |-> p, serial |-> serial'[p], port |-> port[p],
                     request |-> request(p), stage |-> "sent"]
  <2>2. new \in Connection /\ new.serial \in 1..serial'[new.proc]
    BY <1>3, <1>4, <2>1 DEF Connection
  <2>3. connections' = connections \cup {new}
    BY DEF Connect
  <2>4. \A q \in Proc : serial[q] \in Nat /\ serial'[q] \in Nat /\ serial'[q] >= serial[q]
    <3>1. \A q \in Proc \ {p} : serial'[q] = serial[q]
      BY <1>1, MovesOnly DEF Same
    <3>2. \A q \in Proc : serial[q] \in Nat
      BY DEF CInv, ValidClient, ValidState
    <3> QED
      BY <1>4, <3>1, <3>2
  <2>5. ASSUME NEW c \in connections
        PROVE  c \in Connection /\ c.serial \in 1..serial'[c.proc]
    <3>1. c \in Connection /\ c.serial \in 1..serial[c.proc] /\ c.proc \in Proc
      BY <1>1 DEF ValidConnections, Connection
    <3> QED
      BY <2>4, <3>1
  <2> HIDE DEF new
  <2> QED
    BY <2>2, <2>3, <2>5 DEF ValidConnections
<1> QED
  BY <1>5, <1>6, <1>7, <1>8 DEF ValidClient

(* The steps that only move a process, or end its message thread.          *)
LEMMA OtherSteps ==
  ASSUME CInv, NEW p \in Proc, Moves(p),
         \/ LaunchFails(p)
         \/ CommandsDone(p) /\ UNCHANGED <<messageThreadRunning, messageThread>>
         \/ PressEnter(p) \/ ClearFlag(p) \/ handleMessages(p)
  PROVE  ValidClient(p)' /\ UNCHANGED <<serial, connections>>
<1>1. Slots /\ ValidClient(p)
  BY DEF CInv
<1>2. /\ todo'[p] = todo[p] /\ subscribedTopics'[p] = subscribedTopics[p]
      /\ port'[p] = port[p] /\ UNCHANGED <<serial, connections>>
      /\ hasSubscribeCommand'[p] = hasSubscribeCommand[p]
  BY DEF LaunchFails, CommandsDone, PressEnter, ClearFlag, handleMessages, mainVars
<1>3. /\ messageThreadRunning'[p] \in BOOLEAN
      /\ messageThread'[p] \in {"none", "receiving", "terminated"}
  <2>1. /\ messageThreadRunning[p] \in BOOLEAN
        /\ messageThread[p] \in {"none", "receiving", "terminated"}
    BY <1>1 DEF ValidClient, ValidState
  <2>2. \/ messageThreadRunning'[p] = messageThreadRunning[p]
        \/ messageThreadRunning'[p] = FALSE
    BY <1>1 DEF LaunchFails, CommandsDone, PressEnter, ClearFlag, handleMessages, Slots
  <2>3. \/ messageThread'[p] = messageThread[p]
        \/ messageThread'[p] = "terminated"
    BY <1>1 DEF LaunchFails, CommandsDone, PressEnter, ClearFlag, handleMessages, Slots
  <2>4. messageThreadRunning'[p] \in BOOLEAN
    BY <2>1, <2>2
  <2> QED
    BY <2>1, <2>3, <2>4
<1>4. /\ pc[p] \notin InReply \/ pc'[p] = pc[p]
      /\ \/ pc[p] = "new" /\ pc'[p] = "exited"
         \/ pc[p] = "command" /\ todo[p] = <<>> /\ pc'[p] \in {"enter", "destructor"}
         \/ pc[p] = "enter" /\ pc'[p] = "destructor"
         \/ pc[p] = "destructor" /\ subscribedTopics[p] = <<>> /\ pc'[p] = "join"
         \/ pc'[p] = pc[p]
  BY <1>1 DEF LaunchFails, CommandsDone, PressEnter, ClearFlag, handleMessages,
              goto, Slots, mainVars, InReply, allUnsubscribed
<1>5. ValidState(p)'
  BY <1>1, <1>2, <1>3, <1>4 DEF ValidClient, ValidState, Places
<1>6. ValidPlace(p)'
  BY <1>1, <1>2, <1>4 DEF ValidClient, ValidPlace, Over
<1>7. CASE pc[p] \notin InReply
  BY <1>2, <1>5, <1>6, <1>7, PlaceStep
<1>8. CASE pc'[p] = pc[p]
  <2>1. WithinLine(p)'
    BY <1>1, <1>2, <1>8 DEF ValidClient, WithinLine
  <2> QED
    BY <1>2, <1>5, <1>6, <2>1 DEF ValidClient
<1> QED
  BY <1>2, <1>4, <1>7, <1>8

LEMMA ClientStepCInv ==
  ASSUME CInv, NEW p \in Proc, NEW l, ClientNext(p, l)
  PROVE  CInv'
<1>1. Slots /\ ValidClient(p) /\ ValidConnections /\ Moves(p)
  BY ClientMoves DEF CInv
<1>2. Slots' /\ \A q \in Proc \ {p} : Same(q)
  BY <1>1, MovesOnly
<1>3. \A q \in Proc \ {p} : ValidClient(q)'
  <2>1. SUFFICES ASSUME NEW q \in Proc \ {p} PROVE ValidClient(q)'
    OBVIOUS
  <2>2. ValidClient(q) /\ Same(q)
    BY <1>2 DEF CInv
  <2>3. ValidState(q)'
    BY <2>2 DEF ValidClient, ValidState, Same
  <2>4. ValidPlace(q)'
    BY <2>2 DEF ValidClient, ValidPlace, Same
  <2>5. WithinLine(q)'
    BY <2>2 DEF ValidClient, WithinLine, Same
  <2> QED
    BY <2>3, <2>4, <2>5 DEF ValidClient
<1>4. ValidClient(p)' /\ ValidConnections'
  <2>1. CASE Launch(p)
    <3>1. serial'[p] = serial[p] /\ connections' \subseteq connections
      BY <2>1 DEF Launch
    <3> QED
      BY <1>1, <2>1, <3>1, LaunchStep, FewerConnections
  <2>2. CASE Connect(p, l) /\ UNCHANGED <<messageThreadRunning, messageThread>>
    BY <1>1, <2>2, ConnectStep
  <2>3. CASE \/ ConnectFails(p, l) /\ UNCHANGED <<messageThreadRunning, messageThread>>
             \/ ReceiveReply(p) /\ UNCHANGED <<messageThreadRunning, messageThread>>
             \/ ReceiveFails(p) /\ UNCHANGED <<messageThreadRunning, messageThread>>
    <3>1. /\ Returned(p)
          /\ UNCHANGED <<hasSubscribeCommand, port, serial,
                         messageThreadRunning, messageThread>>
          /\ connections' \subseteq connections
      BY <2>3 DEF ConnectFails, ReceiveReply, ReceiveFails
    <3>2. /\ pc[p] \in {"command", "commandReply", "destructor", "destructorReply"}
          /\ pc[p] = "command" => todo[p] # <<>>
          /\ pc[p] = "destructor" => subscribedTopics[p] # <<>>
      BY <2>3 DEF ConnectFails, ReceiveReply, ReceiveFails, AboutToSend,
                  allUnsubscribed, WaitsFor
    <3> QED
      BY <1>1, <3>1, <3>2, ReturnedStep, FewerConnections
  <2>4. CASE \/ LaunchFails(p)
             \/ CommandsDone(p) /\ UNCHANGED <<messageThreadRunning, messageThread>>
             \/ PressEnter(p) \/ ClearFlag(p) \/ handleMessages(p)
    BY <1>1, <2>4, OtherSteps, FewerConnections
  <2>5. CASE Join(p) \/ Kill(p)
    <3>1. /\ connections' \subseteq connections
          /\ UNCHANGED serial
          /\ pc[p] \notin Over
          /\ \E how \in {"exited", "killed"} : end(p, how)
      BY <2>5 DEF Join, Kill, Over
    <3> QED
      BY <1>1, <3>1, EndStep, FewerConnections
  <2> QED
    BY <2>1, <2>2, <2>3, <2>4, <2>5 DEF ClientNext, Main
<1> QED
  BY <1>2, <1>3, <1>4 DEF CInv

(* What the server does to connections.                                    *)
LEMMA ServerStepCInv ==
  ASSUME CInv,
         UNCHANGED <<pc, hasSubscribeCommand, todo, subscribedTopics, port,
                     serial, messageThreadRunning, messageThread>>,
         \/ connections' \subseteq connections
         \/ \E c \in connections : connections' = afterReply(c)
  PROVE  CInv'
<1>1. Slots' /\ \A p \in Proc : ValidClient(p)'
  BY DEF CInv, Slots, ValidClient, ValidState, ValidPlace, WithinLine
<1>2. ASSUME NEW c \in connections' PROVE c \in Connection /\ c.serial \in 1..serial[c.proc]
  <2>1. CASE c \in connections
    BY <2>1 DEF CInv, ValidConnections
  <2>2. CASE c \notin connections
    <3>1. PICK d \in connections : c = [d EXCEPT !.stage = "answered"]
      BY <1>2, <2>2 DEF afterReply
    <3>2. d \in Connection /\ d.serial \in 1..serial[d.proc]
      BY DEF CInv, ValidConnections
    <3> QED
      BY <3>1, <3>2 DEF Connection
  <2> QED
    BY <2>1, <2>2
<1> QED
  BY <1>1, <1>2 DEF CInv, ValidConnections

LEMMA InitCInv == SystemInit => CInv
<1> SUFFICES ASSUME ClientInit PROVE CInv
  BY DEF SystemInit
<1>1. Slots /\ ValidConnections
  BY DEF ClientInit, Slots, ValidConnections
<1>2. ASSUME NEW p \in Proc PROVE ValidClient(p)
  <2>1. /\ pc[p] = "new" /\ hasSubscribeCommand[p] = FALSE
        /\ todo[p] = <<>> /\ subscribedTopics[p] = <<>> /\ port[p] = NoPort
        /\ serial[p] = 0 /\ messageThreadRunning[p] = FALSE
        /\ messageThread[p] = "none"
    BY DEF ClientInit
  <2>2. ValidState(p)
    <3>1. hasSubscribeCommand[p] \in BOOLEAN /\ messageThreadRunning[p] \in BOOLEAN
      BY <2>1
    <3>2. todo[p] \in Seq(Requests) /\ subscribedTopics[p] \in Seq(TopicName)
      BY <2>1
    <3> QED
      BY <2>1, <3>1, <3>2 DEF ValidState, Places
  <2>3. ValidPlace(p)
    BY <2>1 DEF ValidPlace, Over
  <2>4. WithinLine(p)
    <3>1. PICK line \in CommandLine : Len(line) \in Nat
      BY ClientAssumption, LineOfRequests
    <3>2. Len(todo[p]) = 0 /\ Len(subscribedTopics[p]) = 0
      BY <2>1
    <3> QED
      BY <2>1, <3>1, <3>2 DEF WithinLine
  <2> QED
    BY <2>2, <2>3, <2>4 DEF ValidClient
<1> QED
  BY <1>1, <1>2 DEF CInv

LEMMA NextCInv == CInv /\ [SystemNext]_systemVars => CInv'
<1> SUFFICES ASSUME CInv, [SystemNext]_systemVars PROVE CInv'
  OBVIOUS
<1>1. CASE \E p \in Proc : ClientStep(p)
  BY <1>1, ClientStepCInv DEF ClientStep
<1>2. CASE handleApproachingClient
  BY <1>2, ServerStepCInv DEF handleApproachingClient, Answered
<1>3. CASE ServerStops
  BY <1>3, ServerStepCInv DEF ServerStops, Answered
<1>4. CASE ServerAlone \/ UNCHANGED systemVars
  BY <1>4, ServerStepCInv DEF ServerAlone, systemVars, clientVars, mainVars
<1> QED
  BY <1>1, <1>2, <1>3, <1>4 DEF SystemNext

LEMMA AlwaysCInv == SystemSpec => []CInv
BY InitCInv, NextCInv, PTL DEF SystemSpec

LEMMA CInvTypes == CInv => ClientTypeOK
<1> SUFFICES ASSUME CInv PROVE ClientTypeOK
  OBVIOUS
<1>1. Slots /\ ValidConnections /\ \A p \in Proc : ValidClient(p)
  BY DEF CInv
<1>2. /\ pc \in [Proc -> Places]
      /\ port \in [Proc -> HostPort \cup {NoPort}]
      /\ messageThread \in [Proc -> {"none", "receiving", "terminated"}]
  BY <1>1 DEF Slots, ValidClient, ValidState
<1>3. /\ messageThreadRunning \in [Proc -> BOOLEAN]
      /\ hasSubscribeCommand \in [Proc -> BOOLEAN]
  BY <1>1 DEF Slots, ValidClient, ValidState
<1>4. ASSUME NEW p \in Proc
      PROVE  \E requests \in CommandLine :
               /\ serial[p] \in 0..2 * Len(requests)
               /\ Len(todo[p]) + Len(subscribedTopics[p]) <= Len(requests)
  <2>1. PICK line \in CommandLine :
          /\ Len(todo[p]) + Len(subscribedTopics[p]) <= Len(line)
          /\ serial[p] + 2 * Len(todo[p]) + Len(subscribedTopics[p]) <= 2 * Len(line) + 1
          /\ pc[p] \notin InReply =>
               serial[p] + 2 * Len(todo[p]) + Len(subscribedTopics[p]) <= 2 * Len(line)
    BY <1>1 DEF ValidClient, WithinLine
  <2>2. /\ Len(line) \in Nat /\ serial[p] \in Nat
        /\ Len(todo[p]) \in Nat /\ Len(subscribedTopics[p]) \in Nat
        /\ pc[p] = "commandReply" => Len(todo[p]) >= 1
        /\ pc[p] = "destructorReply" => Len(subscribedTopics[p]) >= 1
    BY <1>1, LineOfRequests DEF ValidClient, ValidState, ValidPlace
  <2>3. serial[p] <= 2 * Len(line)
    BY <2>1, <2>2 DEF InReply
  <2>4. serial[p] \in 0..2 * Len(line)
    BY <2>2, <2>3
  <2> QED
    BY <2>1, <2>4
<1>5. ASSUME NEW c \in connections
      PROVE  /\ c.proc \in Proc
             /\ c.serial \in 1..serial[c.proc]
             /\ c.request.command \in Commands
             /\ c.stage \in {"sent", "answered"}
  <2>1. c \in Connection /\ c.serial \in 1..serial[c.proc]
    BY <1>1 DEF ValidConnections
  <2>2. c.request.command \in Commands
    <3>1. CASE c.request \in Requests
      BY <3>1, RequestKinds
    <3>2. CASE c.request \in Undo
      BY <3>2 DEF Undo, Commands
    <3> QED
      BY <2>1, <3>1, <3>2 DEF Connection
  <2> QED
    BY <2>1, <2>2 DEF Connection
<1> QED
  BY <1>2, <1>3, <1>4, <1>5 DEF ClientTypeOK, Places

(* Whatever the server and the network do, a client opens at most two      *)
(* connections for each request it was given, so the loop of its           *)
(* destructor (client.cpp:86) comes to an end.                             *)
THEOREM ClientTypeCorrect == SystemSpec => []ClientTypeOK
BY AlwaysCInv, CInvTypes, PTL

-----------------------------------------------------------------------------
(* Among its clients the server takes the steps of Server, and no other.   *)

LEMMA RequestTypes ==
  ASSUME CInv, NEW c \in connections
  PROVE  /\ [address |-> Loopback, port |-> c.port] \in Client
         /\ c.proc \in Proc
         /\ c.request.command \in {"subscribe", "unsubscribe", "publish", "getTopicStatus"}
              => c.request.topicName \in TopicName
         /\ c.request.command = "publish" => c.request.message \in Message
<1>1. c \in Connection
  BY DEF CInv, ValidConnections
<1>2. c.port \in Port /\ c.proc \in Proc /\ c.request \in Requests \cup Undo
  BY <1>1, SystemAssumption DEF Connection
<1>3. [address |-> Loopback, port |-> c.port] \in Client
  BY <1>2, SystemAssumption DEF Client
<1>4. CASE c.request \in Requests
  BY <1>2, <1>3, <1>4, RequestKinds
<1>5. CASE c.request \in Undo
  BY <1>2, <1>3, <1>5 DEF Undo
<1> QED
  BY <1>2, <1>4, <1>5

LEMMA DispatchIsRequest ==
  ASSUME CInv, NEW c \in connections, dispatch(c.request, c.port)
  PROVE  Request \/ Publish
<1> DEFINE client == [address |-> Loopback, port |-> c.port]
<1>1. client \in Client
  BY RequestTypes
<1>2. \/ c.request.command = "subscribe" /\ handleSubscribeRequest(client, c.request.topicName)
      \/ c.request.command = "unsubscribe" /\ handleUnsubscribeRequest(client, c.request.topicName)
      \/ c.request.command = "listTopics" /\ handleListTopics
      \/ c.request.command = "getTopicStatus" /\ handleGetTopicStatus(c.request.topicName)
      \/ c.request.command = "publish" /\ handlePublishRequest(c.request.topicName, c.request.message)
  BY DEF dispatch
<1> HIDE DEF client
<1> QED
  BY <1>1, <1>2, RequestTypes DEF Request, Publish

LEMMA SystemStepIsServerStep == CInv /\ [SystemNext]_systemVars => [Next]_vars
<1> SUFFICES ASSUME CInv, [SystemNext]_systemVars PROVE [Next]_vars
  OBVIOUS
<1>1. CASE \E p \in Proc : ClientStep(p)
  BY <1>1 DEF ClientStep
<1>2. CASE handleApproachingClient
  BY <1>2, DispatchIsRequest DEF handleApproachingClient, Next
<1>3. CASE ServerStops
  BY <1>3 DEF ServerStops, Next, Background
<1>4. CASE ServerAlone
  BY <1>4 DEF ServerAlone, Next, Background
<1>5. CASE UNCHANGED systemVars
  BY <1>5 DEF systemVars
<1> QED
  BY <1>1, <1>2, <1>3, <1>4, <1>5 DEF SystemNext

(* Clients send nothing that the server is not prepared for in Server:     *)
(* what is proved of Spec, memory safety above all (server.cpp:179-441),   *)
(* holds of the server that real clients use.                              *)
THEOREM SystemRunsServer == SystemSpec => Spec
<1>1. SystemInit => Init
  BY DEF SystemInit
<1> QED
  BY <1>1, AlwaysCInv, SystemStepIsServerStep, PTL DEF SystemSpec, Spec

LEMMA SystemIInv == SystemSpec => []IInv
BY SystemRunsServer, AlwaysIInv, PTL

-----------------------------------------------------------------------------
(* Without faults, and if no command line names a topic twice, a client is *)
(* never subscribed without knowing. The sets of those who are subscribed  *)
(* and of those who know cannot be compared as sets: Topic::unsubscribe    *)
(* removes the first subscriber instead of the one that asked. So they are *)
(* counted. Holds of System is too weak to be counted on: a process that   *)
(* waits for a reply Holds the topic before the server has subscribed it   *)
(* and after the server has unsubscribed it.                               *)

NamesOnce ==
  \A line \in CommandLine : \A i, j \in DOMAIN line :
    /\ line[i].command = "subscribe" /\ line[j].command = "subscribe"
    /\ line[i].topicName = line[j].topicName
    => i = j

Waiting(p, stage) == \E c \in connections : c.proc = p /\ c.stage = stage

Joining(p, name) ==
  /\ pc[p] = "commandReply"
  /\ Head(todo[p]).command = "subscribe"
  /\ Head(todo[p]).topicName = name

Leaving(p, name) ==
  pc[p] = "destructorReply" /\ name = Head(subscribedTopics[p])

\* The server has handled the subscribe of p, and not yet its unsubscribe.
Active(p, name) ==
  IF Leaving(p, name) THEN Waiting(p, "sent")
  ELSE IF Joining(p, name) THEN Waiting(p, "answered")
  ELSE name \in Range(subscribedTopics[p])

ActiveFor(name) == {p \in Proc : Active(p, name)}

SubscribedTo(name) == {s \in Subscriptions : s[2] = name}

Balanced(name) ==
  /\ IsFiniteSet(SubscribedTo(name))
  /\ Cardinality(SubscribedTo(name)) <= Cardinality(ActiveFor(name))

\* What p will subscribe to is new to it.
Fresh(p) ==
  /\ \A i \in DOMAIN todo[p] :
       todo[p][i].command = "subscribe"
         => todo[p][i].topicName \notin Range(subscribedTopics[p])
  /\ \A i, j \in DOMAIN todo[p] :
       /\ todo[p][i].command = "subscribe" /\ todo[p][j].command = "subscribe"
       /\ todo[p][i].topicName = todo[p][j].topicName
       => i = j

\* Every connection of p is the one it waits on.
Awaited(p) ==
  /\ \A c \in connections :
       c.proc = p => /\ pc[p] \in InReply
                     /\ c.serial = serial[p]
                     /\ c.request = request(p)
  /\ \A c, d \in connections : c.proc = p /\ d.proc = p => c = d

Idle == process # "running" => topics = {}

SInv ==
  /\ IInv /\ CInv /\ Idle
  /\ \A p \in Proc : Fresh(p) /\ Awaited(p)
  /\ \A name \in TopicName : Balanced(name)

-----------------------------------------------------------------------------
(* Counting.                                                               *)

LEMMA ActiveForFinite ==
  ASSUME NEW name
  PROVE  /\ IsFiniteSet(ActiveFor(name)) /\ Cardinality(ActiveFor(name)) \in Nat
         /\ IsFiniteSet(ActiveFor(name)') /\ Cardinality(ActiveFor(name)') \in Nat
<1>1. IsFiniteSet(Proc)
  BY ClientAssumption
<1>2. ActiveFor(name) \subseteq Proc /\ ActiveFor(name)' \subseteq Proc
  BY DEF ActiveFor
<1> QED
  BY <1>1, <1>2, FS_Subset, FS_CardinalityType

(* A step that takes no process away, and adds no subscription.            *)
LEMMA BalanceKept ==
  ASSUME NEW name, Balanced(name),
         SubscribedTo(name)' \subseteq SubscribedTo(name),
         ActiveFor(name) \subseteq ActiveFor(name)'
  PROVE  Balanced(name)'
<1> DEFINE S == SubscribedTo(name)
           T == SubscribedTo(name)'
           A == ActiveFor(name)
           B == ActiveFor(name)'
<1>1. /\ IsFiniteSet(S) /\ Cardinality(S) <= Cardinality(A)
      /\ T \subseteq S /\ A \subseteq B
  BY DEF Balanced
<1>2. IsFiniteSet(A) /\ IsFiniteSet(B) /\ Cardinality(A) \in Nat /\ Cardinality(B) \in Nat
  BY ActiveForFinite
<1> HIDE DEF S, T, A, B
<1>3. IsFiniteSet(T) /\ Cardinality(T) <= Cardinality(S)
  BY <1>1, FS_Subset
<1>4. Cardinality(A) <= Cardinality(B)
  BY <1>1, <1>2, FS_Subset
<1>5. Cardinality(S) \in Nat /\ Cardinality(T) \in Nat
  BY <1>1, <1>3, FS_CardinalityType
<1>6. IsFiniteSet(T) /\ Cardinality(T) <= Cardinality(B)
  BY <1>1, <1>2, <1>3, <1>4, <1>5
<1> QED
  BY <1>6 DEF Balanced, T, B

LEMMA BalancedWhenEmpty ==
  ASSUME NEW name, SubscribedTo(name)' = {}
  PROVE  Balanced(name)'
<1>1. IsFiniteSet({}) /\ Cardinality({}) = 0
  BY FS_EmptySet
<1>2. Cardinality(ActiveFor(name)') >= 0
  BY ActiveForFinite
<1> QED
  BY <1>1, <1>2 DEF Balanced

(* A subscribe adds one subscription, and the process that asked.          *)
LEMMA BalanceJoins ==
  ASSUME NEW name, Balanced(name), NEW p \in Proc, NEW s,
         SubscribedTo(name)' \subseteq SubscribedTo(name) \cup {s},
         p \notin ActiveFor(name),
         ActiveFor(name) \cup {p} \subseteq ActiveFor(name)'
  PROVE  Balanced(name)'
<1> DEFINE S == SubscribedTo(name)
           T == SubscribedTo(name)'
           A == ActiveFor(name)
           B == ActiveFor(name)'
<1>1. /\ IsFiniteSet(S) /\ Cardinality(S) <= Cardinality(A)
      /\ T \subseteq S \cup {s} /\ p \notin A /\ A \cup {p} \subseteq B
  BY DEF Balanced
<1>2. IsFiniteSet(A) /\ IsFiniteSet(B) /\ Cardinality(A) \in Nat /\ Cardinality(B) \in Nat
  BY ActiveForFinite
<1> HIDE DEF S, T, A, B
<1>3. /\ IsFiniteSet(S \cup {s}) /\ Cardinality(S) \in Nat
      /\ Cardinality(S \cup {s}) \in Nat
      /\ Cardinality(S \cup {s}) <= Cardinality(S) + 1
  <2>1. IsFiniteSet(S \cup {s}) /\ Cardinality(S) \in Nat
    BY <1>1, FS_AddElement, FS_CardinalityType
  <2>2. Cardinality(S \cup {s}) = IF s \in S THEN Cardinality(S) ELSE Cardinality(S) + 1
    BY <1>1, FS_AddElement
  <2> QED
    BY <2>1, <2>2
<1>4. IsFiniteSet(T) /\ Cardinality(T) <= Cardinality(S \cup {s})
  BY <1>1, <1>3, FS_Subset
<1>5. /\ IsFiniteSet(A \cup {p})
      /\ Cardinality(A \cup {p}) = Cardinality(A) + 1
  BY <1>1, <1>2, FS_AddElement
<1>6. Cardinality(A \cup {p}) <= Cardinality(B)
  BY <1>1, <1>2, FS_Subset
<1>7. Cardinality(T) \in Nat
  BY <1>4, FS_CardinalityType
<1>8. IsFiniteSet(T) /\ Cardinality(T) <= Cardinality(B)
  BY <1>1, <1>2, <1>3, <1>4, <1>5, <1>6, <1>7
<1> QED
  BY <1>8 DEF Balanced, T, B

(* An unsubscribe takes one subscription away, and the process that asked. *)
LEMMA BalanceLeaves ==
  ASSUME NEW name, Balanced(name), NEW p \in Proc, NEW s \in SubscribedTo(name),
         SubscribedTo(name)' \subseteq SubscribedTo(name) \ {s},
         ActiveFor(name) \ {p} \subseteq ActiveFor(name)'
  PROVE  Balanced(name)'
<1> DEFINE S == SubscribedTo(name)
           T == SubscribedTo(name)'
           A == ActiveFor(name)
           B == ActiveFor(name)'
<1>1. /\ IsFiniteSet(S) /\ Cardinality(S) <= Cardinality(A) /\ s \in S
      /\ T \subseteq S \ {s} /\ A \ {p} \subseteq B
  BY DEF Balanced
<1>2. IsFiniteSet(A) /\ IsFiniteSet(B) /\ Cardinality(A) \in Nat /\ Cardinality(B) \in Nat
  BY ActiveForFinite
<1> HIDE DEF S, T, A, B
<1>3. /\ IsFiniteSet(S \ {s}) /\ Cardinality(S) \in Nat
      /\ Cardinality(S \ {s}) = Cardinality(S) - 1
  BY <1>1, FS_RemoveElement, FS_CardinalityType
<1>4. IsFiniteSet(T) /\ Cardinality(T) <= Cardinality(S \ {s})
  BY <1>1, <1>3, FS_Subset
<1>5. /\ IsFiniteSet(A \ {p}) /\ Cardinality(A \ {p}) \in Nat
      /\ Cardinality(A \ {p}) >= Cardinality(A) - 1
  <2>1. IsFiniteSet(A \ {p}) /\ Cardinality(A \ {p}) \in Nat
    BY <1>2, FS_RemoveElement, FS_CardinalityType
  <2>2. Cardinality(A \ {p}) = IF p \in A THEN Cardinality(A) - 1 ELSE Cardinality(A)
    BY <1>2, FS_RemoveElement
  <2> QED
    BY <1>2, <2>1, <2>2
<1>6. Cardinality(A \ {p}) <= Cardinality(B)
  BY <1>1, <1>2, FS_Subset
<1>7. Cardinality(T) \in Nat
  BY <1>4, FS_CardinalityType
<1>8. IsFiniteSet(T) /\ Cardinality(T) <= Cardinality(B)
  BY <1>1, <1>2, <1>3, <1>4, <1>5, <1>6, <1>7
<1> QED
  BY <1>8 DEF Balanced, T, B

-----------------------------------------------------------------------------
(* The connections of one process.                                         *)

NoneOf(p) == \A c \in connections : c.proc # p

LEMMA NotAwaiting ==
  ASSUME NEW p, Awaited(p), pc[p] \notin InReply
  PROVE  NoneOf(p)
BY DEF Awaited, NoneOf

\* Neither the state of q nor its connections change.
Untouched(q) ==
  /\ Same(q)
  /\ \A c : c.proc = q => (c \in connections' <=> c \in connections)

LEMMA UntouchedKept ==
  ASSUME NEW q, Untouched(q), Fresh(q), Awaited(q)
  PROVE  Fresh(q)' /\ Awaited(q)'
<1>1. Fresh(q)'
  BY DEF Untouched, Same, Fresh
<1>2. request(q)' = request(q)
  BY DEF Untouched, Same, request
<1>3. Awaited(q)'
  BY <1>2 DEF Untouched, Same, Awaited
<1> QED
  BY <1>1, <1>3

LEMMA UntouchedActive ==
  ASSUME NEW q, NEW name, Untouched(q)
  PROVE  Active(q, name)' <=> Active(q, name)
<1>1. \A stage : Waiting(q, stage)' <=> Waiting(q, stage)
  BY DEF Untouched, Waiting
<1>2. /\ Leaving(q, name)' <=> Leaving(q, name)
      /\ Joining(q, name)' <=> Joining(q, name)
      /\ subscribedTopics'[q] = subscribedTopics[q]
  BY DEF Untouched, Same, Leaving, Joining
<1> QED
  BY <1>1, <1>2 DEF Active

(* A step of p touches no other process.                                   *)
LEMMA ClientTouchesNoOther ==
  ASSUME Faults = {}, CInv, NEW p \in Proc, NEW l, ClientNext(p, l),
         NEW q \in Proc \ {p}
  PROVE  Untouched(q)
<1>1. Same(q)
  BY ClientMoves, MovesOnly DEF CInv
<1>2. ~ Kill(p)
  BY DEF Kill
<1>3. CASE Connect(p, l)
  BY <1>1, <1>3 DEF Connect, Untouched
<1>4. CASE ReceiveReply(p)
  BY <1>1, <1>4 DEF ReceiveReply, WaitsFor, Untouched
<1>5. CASE ~ Connect(p, l) /\ ~ ReceiveReply(p)
  <2>1. UNCHANGED connections
    BY <1>2, <1>5 DEF ClientNext, Main, Launch, LaunchFails, ConnectFails, ReceiveFails,
                      CommandsDone, PressEnter, ClearFlag, Join, handleMessages, mainVars
  <2> QED
    BY <1>1, <2>1 DEF Untouched
<1> QED
  BY <1>3, <1>4, <1>5

-----------------------------------------------------------------------------
(* The steps of a process: what it will do stays fresh, it waits for one   *)
(* connection at most, and while the server runs it forgets no topic that  *)
(* the server has it subscribed to.                                        *)

StaysActive(p) == \A name : Active(p, name) => Active(p, name)'

\* What the steps of p need to know of it.
Known(p) == Slots /\ ValidClient(p) /\ Fresh(p) /\ Awaited(p)

LEMMA LaunchKnown ==
  ASSUME NamesOnce, NEW p \in Proc, Known(p), Launch(p)
  PROVE  Fresh(p)' /\ Awaited(p)' /\ StaysActive(p)
<1>1. /\ Slots /\ pc[p] = "new" /\ todo[p] = <<>> /\ subscribedTopics[p] = <<>>
  BY DEF Known, Launch, ValidClient, ValidPlace, Over
<1>2. NoneOf(p)
  BY <1>1, NotAwaiting DEF Known, InReply
<1>3. PICK requests \in CommandLine : todo' = [todo EXCEPT ![p] = requests]
  BY DEF Launch
<1>4. /\ todo'[p] = requests /\ subscribedTopics'[p] = <<>>
      /\ connections' = connections
  BY <1>1, <1>3 DEF Launch, Slots
<1>5. Range(<<>>) = {}
  BY DEF Range
<1>6. Fresh(p)'
  BY <1>4, <1>5 DEF NamesOnce, Fresh
<1>7. Awaited(p)'
  BY <1>2, <1>4 DEF Awaited, NoneOf
<1>8. StaysActive(p)
  BY <1>1, <1>5 DEF StaysActive, Active, Leaving, Joining
<1> QED
  BY <1>6, <1>7, <1>8

LEMMA ConnectKnown ==
  ASSUME NEW p \in Proc, Known(p), NEW l, Connect(p, l)
  PROVE  Fresh(p)' /\ Awaited(p)' /\ StaysActive(p)
<1>1. \/ pc[p] = "command" /\ todo[p] # <<>>
      \/ pc[p] = "destructor" /\ subscribedTopics[p] # <<>>
  BY DEF Connect, AboutToSend, allUnsubscribed
<1>2. NoneOf(p)
  BY <1>1, NotAwaiting DEF Known, InReply
<1>3. /\ pc'[p] = IF pc[p] = "command" THEN "commandReply" ELSE "destructorReply"
      /\ todo'[p] = todo[p] /\ subscribedTopics'[p] = subscribedTopics[p]
  BY DEF Known, Connect, goto, Slots
<1> DEFINE new == [proc |-> p, serial |-> serial'[p], port |-> port[p],
                   request |-> request(p), stage |-> "sent"]
<1>4. connections' = connections \cup {new}
  BY DEF Connect
<1>5. request(p)' = request(p)
  BY <1>1, <1>3 DEF request
<1>6. new.proc = p /\ new.serial = serial'[p] /\ new.request = request(p) /\ new.stage = "sent"
  OBVIOUS
<1> HIDE DEF new
<1>7. \A c \in connections' : c.proc = p => c = new
  BY <1>2, <1>4 DEF NoneOf
<1>8. Fresh(p)'
  BY <1>3 DEF Known, Fresh
<1>9. Awaited(p)'
  <2>1. pc'[p] \in InReply
    BY <1>3 DEF InReply
  <2> QED
    BY <1>5, <1>6, <1>7, <2>1 DEF Awaited
<1>10. Waiting(p, "sent")'
  BY <1>4, <1>6 DEF Waiting
<1>11. StaysActive(p)
  <2>1. SUFFICES ASSUME NEW name, Active(p, name) PROVE Active(p, name)'
    BY DEF StaysActive
  <2>2. name \in Range(subscribedTopics[p])
    BY <1>1, <2>1 DEF Active, Leaving, Joining
  <2>3. ~ Joining(p, name)'
    <3>1. SUFFICES ASSUME pc'[p] = "commandReply" PROVE ~ Joining(p, name)'
      BY DEF Joining
    <3>2. pc[p] = "command" /\ todo[p] # <<>> /\ todo[p] \in Seq(Requests)
      BY <1>1, <1>3, <3>1 DEF Known, ValidClient, ValidState
    <3>3. 1 \in DOMAIN todo[p] /\ Head(todo[p]) = todo[p][1]
      BY <3>2
    <3> QED
      BY <1>3, <2>2, <3>3 DEF Known, Fresh, Joining
  <2> QED
    BY <1>3, <1>10, <2>2, <2>3 DEF Active
<1> QED
  BY <1>8, <1>9, <1>11

(* What stays fresh when sendMessage returns.                              *)
LEMMA ReturnedFresh ==
  ASSUME NEW p \in Proc, Known(p), Returned(p),
         pc[p] \in {"command", "commandReply", "destructor", "destructorReply"},
         pc[p] = "command" => todo[p] # <<>>
  PROVE  Fresh(p)'
<1>1. Slots /\ ValidClient(p) /\ Fresh(p)
  BY DEF Known
<1>2. CASE pc[p] \in {"command", "commandReply"}
  <2>1. todo[p] # <<>> /\ todo[p] \in Seq(Requests) /\ subscribedTopics[p] \in Seq(TopicName)
    BY <1>1, <1>2 DEF ValidClient, ValidState, ValidPlace
  <2> DEFINE r == Head(todo[p])
  <2>2. request(p) = r /\ todo'[p] = Tail(todo[p])
    BY <1>1, <1>2 DEF request, Returned, Slots
  <2>3. \A i \in DOMAIN Tail(todo[p]) :
          /\ i + 1 \in DOMAIN todo[p] /\ i + 1 # 1 /\ i \in Nat
          /\ Tail(todo[p])[i] = todo[p][i + 1]
    BY <2>1
  <2>4. 1 \in DOMAIN todo[p] /\ r = todo[p][1] /\ r \in Requests
    BY <2>1
  <2>5. \/ subscribedTopics'[p] = subscribedTopics[p]
        \/ /\ r.command = "subscribe"
           /\ Range(subscribedTopics'[p]) = Range(subscribedTopics[p]) \cup {r.topicName}
    <3>1. CASE r.command = "subscribe"
      <4>1. subscribedTopics'[p] = Append(subscribedTopics[p], r.topicName)
        BY <1>1, <1>2, <2>2, <3>1 DEF Returned, Slots
      <4>2. r.topicName \in TopicName
        BY <2>4, <3>1, RequestKinds
      <4> QED
        BY <2>1, <3>1, <4>1, <4>2, AppendElements
    <3>2. CASE r.command # "subscribe"
      BY <1>2, <2>2, <3>2 DEF Returned
    <3> QED
      BY <3>1, <3>2
  <2> HIDE DEF r
  <2>6. ASSUME NEW i \in DOMAIN Tail(todo[p]), Tail(todo[p])[i].command = "subscribe"
        PROVE  Tail(todo[p])[i].topicName \notin Range(subscribedTopics'[p])
    <3>1. /\ i + 1 \in DOMAIN todo[p] /\ i + 1 # 1
          /\ Tail(todo[p])[i] = todo[p][i + 1]
      BY <2>3
    <3>2. todo[p][i + 1].topicName \notin Range(subscribedTopics[p])
      BY <1>1, <2>6, <3>1 DEF Fresh
    <3>3. r.command = "subscribe" => r.topicName # todo[p][i + 1].topicName
      BY <1>1, <2>4, <2>6, <3>1 DEF Fresh
    <3> QED
      BY <2>5, <3>1, <3>2, <3>3
  <2>7. ASSUME NEW i \in DOMAIN Tail(todo[p]), NEW j \in DOMAIN Tail(todo[p]),
               Tail(todo[p])[i].command = "subscribe",
               Tail(todo[p])[j].command = "subscribe",
               Tail(todo[p])[i].topicName = Tail(todo[p])[j].topicName
        PROVE  i = j
    <3>1. i + 1 = j + 1
      BY <1>1, <2>3, <2>7 DEF Fresh
    <3>2. i \in Nat /\ j \in Nat
      BY <2>3
    <3> QED
      BY <3>1, <3>2
  <2> QED
    BY <2>2, <2>6, <2>7 DEF Fresh
<1>3. CASE pc[p] \in {"destructor", "destructorReply"}
  <2>1. todo'[p] = <<>>
    BY <1>1, <1>3 DEF Returned, ValidClient, ValidPlace
  <2>2. DOMAIN <<>> = {}
    OBVIOUS
  <2> QED
    BY <2>1, <2>2 DEF Fresh
<1> QED
  BY <1>2, <1>3

(* ... and which topics are remembered: all but the one just left.         *)
LEMMA ReturnedTopics ==
  ASSUME NEW p \in Proc, Known(p), Returned(p), NEW name,
         pc[p] \in {"command", "commandReply", "destructor", "destructorReply"},
         pc[p] = "command" => todo[p] # <<>>,
         pc[p] = "destructor" => subscribedTopics[p] # <<>>
  PROVE  /\ Active(p, name)' <=> name \in Range(subscribedTopics[p])'
         /\ name \in Range(subscribedTopics[p]) /\ ~ Leaving(p, name)
              /\ pc[p] \in InReply \cup {"command"}
              => name \in Range(subscribedTopics[p])'
         /\ Joining(p, name) => name \in Range(subscribedTopics[p])'
<1>1. Slots /\ ValidClient(p)
  BY DEF Known
<1>2. pc'[p] \in {"command", "destructor"}
  BY <1>1 DEF Returned, goto, Slots
<1>3. Active(p, name)' <=> name \in Range(subscribedTopics[p])'
  BY <1>2 DEF Active, Leaving, Joining
<1>4. CASE pc[p] \in {"command", "commandReply"}
  <2>1. /\ todo[p] # <<>> /\ todo[p] \in Seq(Requests)
        /\ subscribedTopics[p] \in Seq(TopicName)
    BY <1>1, <1>4 DEF ValidClient, ValidState, ValidPlace
  <2> DEFINE r == Head(todo[p])
  <2>2. request(p) = r /\ r \in Requests
    BY <1>4, <2>1 DEF request
  <2>3. CASE r.command = "subscribe"
    <3>1. subscribedTopics'[p] = Append(subscribedTopics[p], r.topicName)
      BY <1>1, <1>4, <2>2, <2>3 DEF Returned, Slots
    <3>2. r.topicName \in TopicName
      BY <2>2, <2>3, RequestKinds
    <3>3. Range(subscribedTopics[p])' = Range(subscribedTopics[p]) \cup {r.topicName}
      BY <2>1, <3>1, <3>2, AppendElements
    <3> QED
      BY <1>3, <3>3 DEF Joining
  <2>4. CASE r.command # "subscribe"
    <3>1. subscribedTopics'[p] = subscribedTopics[p]
      BY <1>4, <2>2, <2>4 DEF Returned
    <3> QED
      BY <1>3, <2>4, <3>1 DEF Joining
  <2> QED
    BY <2>3, <2>4
<1>5. CASE pc[p] \in {"destructor", "destructorReply"}
  <2>1. subscribedTopics[p] # <<>> /\ subscribedTopics[p] \in Seq(TopicName)
    BY <1>1, <1>5 DEF ValidClient, ValidState, ValidPlace
  <2>2. subscribedTopics'[p] = eraseRemove(subscribedTopics[p], Head(subscribedTopics[p]))
    BY <1>1, <1>5 DEF Returned, Slots, afterUnsubscribe
  <2>3. Range(subscribedTopics[p])' = Range(subscribedTopics[p]) \ {Head(subscribedTopics[p])}
    BY <2>1, <2>2, eraseRemoveElements
  <2> QED
    BY <1>3, <1>5, <2>3 DEF Leaving, Joining, InReply
<1> QED
  BY <1>4, <1>5

(* Without a connection left, sendMessage returns. The request has been    *)
(* answered, or there never was a connection: the server is gone.          *)
LEMMA ReturnedKnown ==
  ASSUME NEW p \in Proc, Known(p), Returned(p), NoneOf(p)',
         pc[p] \in {"command", "commandReply", "destructor", "destructorReply"},
         pc[p] = "command" => todo[p] # <<>>,
         pc[p] = "destructor" => subscribedTopics[p] # <<>>
  PROVE  /\ Fresh(p)' /\ Awaited(p)'
         /\ pc[p] \in InReply /\ ~ Waiting(p, "sent") => StaysActive(p)
<1>1. Fresh(p)'
  BY ReturnedFresh
<1>2. Awaited(p)'
  BY DEF NoneOf, Awaited
<1>3. ASSUME pc[p] \in InReply, ~ Waiting(p, "sent"), NEW name, Active(p, name)
      PROVE  Active(p, name)'
  <2>1. ~ Leaving(p, name)
    BY <1>3 DEF Active
  <2>2. Joining(p, name) \/ name \in Range(subscribedTopics[p])
    BY <1>3, <2>1 DEF Active
  <2> QED
    BY <1>3, <2>1, <2>2, ReturnedTopics
<1> QED
  BY <1>1, <1>2, <1>3 DEF StaysActive

LEMMA ClientStepKnown ==
  ASSUME Faults = {}, NamesOnce, NEW p \in Proc, Known(p), NEW l, ClientNext(p, l)
  PROVE  Fresh(p)' /\ Awaited(p)' /\ (l => StaysActive(p))
<1>1. Slots /\ ValidClient(p) /\ Fresh(p) /\ Awaited(p)
  BY DEF Known
<1>2. ~ Kill(p)
  BY DEF Kill
<1>3. CASE Launch(p)
  BY <1>3, LaunchKnown
<1>4. CASE Connect(p, l)
  BY <1>4, ConnectKnown
<1>5. CASE ConnectFails(p, l)
  <2>1. /\ ~ l /\ Returned(p) /\ UNCHANGED connections
        /\ \/ pc[p] = "command" /\ todo[p] # <<>>
           \/ pc[p] = "destructor" /\ subscribedTopics[p] # <<>>
    BY <1>5 DEF ConnectFails, AboutToSend, allUnsubscribed
  <2>2. NoneOf(p)'
    BY <1>1, <2>1, NotAwaiting DEF InReply, NoneOf
  <2> QED
    BY <2>1, <2>2, ReturnedKnown
<1>6. CASE ReceiveReply(p)
  <2>1. PICK c \in connections : /\ WaitsFor(p, c) /\ c.stage = "answered"
                                 /\ Returned(p) /\ connections' = connections \ {c}
    BY <1>6 DEF ReceiveReply
  <2>2. pc[p] \in InReply /\ c.proc = p
    BY <2>1 DEF WaitsFor, InReply
  <2>3. \A d \in connections : d.proc = p => d = c
    BY <1>1, <2>2 DEF Awaited
  <2>4. NoneOf(p)'
    BY <2>1, <2>3 DEF NoneOf
  <2>5. ~ Waiting(p, "sent")
    BY <2>1, <2>3 DEF Waiting
  <2> QED
    BY <2>1, <2>2, <2>4, <2>5, ReturnedKnown DEF InReply
<1>7. CASE ReceiveFails(p)
  <2>1. /\ pc[p] \in InReply /\ Returned(p) /\ UNCHANGED connections
        /\ \A c \in connections : ~ WaitsFor(p, c)
    BY <1>7 DEF ReceiveFails, InReply
  <2>2. NoneOf(p)
    BY <1>1, <2>1 DEF Awaited, NoneOf, WaitsFor, InReply
  <2>3. NoneOf(p)' /\ ~ Waiting(p, "sent")
    BY <2>1, <2>2 DEF NoneOf, Waiting
  <2> QED
    BY <2>1, <2>3, ReturnedKnown DEF InReply
<1>8. CASE handleMessages(p)
  <2>1. UNCHANGED <<pc, todo, subscribedTopics, serial, connections>>
    BY <1>8 DEF handleMessages, mainVars
  <2> QED
    BY <1>1, <2>1 DEF Fresh, Awaited, request, StaysActive, Active, Leaving, Joining, Waiting
<1>9. CASE LaunchFails(p) \/ CommandsDone(p) \/ PressEnter(p) \/ ClearFlag(p) \/ Join(p)
  <2>1. /\ pc[p] \notin InReply /\ pc'[p] \notin InReply
        /\ UNCHANGED <<serial, connections>>
    BY <1>1, <1>9 DEF LaunchFails, CommandsDone, PressEnter, ClearFlag, Join, end,
                      goto, Slots, InReply
  <2>2. todo'[p] = todo[p] /\ subscribedTopics'[p] = subscribedTopics[p]
    <3>1. CASE Join(p)
      <4>1. todo[p] = <<>> /\ subscribedTopics[p] = <<>>
        BY <1>1, <3>1 DEF Join, ValidClient, ValidPlace
      <4> QED
        BY <1>1, <3>1, <4>1 DEF Join, end, Slots
    <3>2. CASE ~ Join(p)
      BY <1>9, <3>2 DEF LaunchFails, CommandsDone, PressEnter, ClearFlag
    <3> QED
      BY <3>1, <3>2
  <2>3. NoneOf(p)
    BY <1>1, <2>1, NotAwaiting
  <2>4. Awaited(p)'
    BY <2>1, <2>3 DEF NoneOf, Awaited
  <2>5. StaysActive(p)
    BY <2>1, <2>2 DEF StaysActive, Active, Leaving, Joining, InReply
  <2>6. Fresh(p)'
    BY <1>1, <2>2 DEF Fresh
  <2> QED
    BY <2>4, <2>5, <2>6
<1> QED
  BY <1>2, <1>3, <1>4, <1>5, <1>6, <1>7, <1>8, <1>9 DEF ClientNext, Main

-----------------------------------------------------------------------------
(* What a request does to the subscriptions, said by the service that the  *)
(* server implements.                                                      *)

LEMMA SubscriptionPairs ==
  ASSUME IInv, NEW s \in Subscriptions
  PROVE  s = <<s[1], s[2]>> /\ s[2] \in TopicName
<1>1. s \in Client \X TopicName
  BY RegistryReadable DEF Readable
<1> QED
  BY <1>1

(* A subscribe adds a subscription to the topic named and to no other.     *)
LEMMA SubscribeAdds ==
  ASSUME IInv, IInv', NEW client \in Client, NEW name \in TopicName,
         handleSubscribeRequest(client, name)
  PROVE  \A n : SubscribedTo(n)' \subseteq
                  SubscribedTo(n) \cup (IF n = name THEN {<<client, name>>} ELSE {})
<1>1. Subscriptions' = Subscriptions \cup {<<client, name>>}
  BY SubscribeIsSubscribe DEF Service!Subscribe
<1> QED
  BY <1>1 DEF SubscribedTo

(* An unsubscribe removes a subscription to the topic named, if there is   *)
(* one, unless the server crashes.                                         *)
LEMMA UnsubscribeRemoves ==
  ASSUME IInv, IInv', NEW client \in Client, NEW name \in TopicName,
         handleUnsubscribeRequest(client, name)
  PROVE  \/ Subscriptions' = {}
         \/ Subscriptions' = Subscriptions /\ SubscribedTo(name) = {}
         \/ \E s \in SubscribedTo(name) : Subscriptions' = Subscriptions \ {s}
<1>1. CASE Service!Unsubscribe(name)
  <2>1. PICK x \in Service!Subscribers(name) :
          Subscriptions' = Subscriptions \ {<<x, name>>}
    BY <1>1 DEF Service!Unsubscribe
  <2>2. <<x, name>> \in SubscribedTo(name)
    BY <2>1 DEF Service!Subscribers, SubscribedTo
  <2> QED
    BY <2>1, <2>2
<1>2. CASE Service!NoSuchTopic("unsubscribe", name)
  <2>1. name \notin Service!Topics /\ Subscriptions' = Subscriptions
    BY <1>2 DEF Service!NoSuchTopic
  <2>2. SubscribedTo(name) = {}
    BY <2>1 DEF SubscribedTo, Service!Topics
  <2> QED
    BY <2>1, <2>2
<1>3. CASE Service!Down
  BY <1>3 DEF Service!Down
<1> QED
  BY <1>1, <1>2, <1>3, UnsubscribeIsUnsubscribe

(* The other requests and the heartbeat leave the subscriptions alone.     *)
LEMMA OthersKeepSubscriptions ==
  ASSUME IInv, IInv',
         \/ handleListTopics
         \/ \E name \in TopicName : handleGetTopicStatus(name)
         \/ Publish
         \/ checkTopicTimeouts
         \/ Start \/ Tick
  PROVE  Subscriptions' = Subscriptions
<1>1. CASE handleListTopics \/ (\E name \in TopicName : handleGetTopicStatus(name)) \/ Start \/ Tick
  <2>1. UNCHANGED registry
    BY <1>1 DEF handleListTopics, handleGetTopicStatus, Start, Tick
  <2> QED
    BY <2>1, RegistryKept
<1>2. CASE Publish
  BY <1>2, PublishIsPublish DEF Publish, Service!Publish, Service!NoSuchTopic
<1>3. CASE checkTopicTimeouts
  BY <1>3, PassIsDeliver DEF Service!Deliver
<1> QED
  BY <1>1, <1>2, <1>3

LEMMA NextIdle ==
  ASSUME Idle, [Next]_vars
  PROVE  Idle'
<1>1. CASE UNCHANGED vars
  BY <1>1 DEF vars, registry, Idle
<1>2. CASE Background
  BY <1>2 DEF Background, Start, Stop, Tick, Exit, registry, Idle
<1>3. CASE Request \/ Publish \/ checkTopicTimeouts
  BY <1>3 DEF Request, Publish, checkTopicTimeouts, pass, handleListTopics,
              handleGetTopicStatus, handleSubscribeRequest, handleUnsubscribeRequest,
              unsubscribeFrom, handlePublishRequest, Exit, Idle
<1> QED
  BY <1>1, <1>2, <1>3 DEF Next

-----------------------------------------------------------------------------
(* The steps of the server preserve the balance.                           *)

ProcessesStay ==
  UNCHANGED <<pc, hasSubscribeCommand, todo, subscribedTopics, port, serial,
              messageThreadRunning, messageThread>>

\* The request on connection c has been answered, and its process waits.
Replied(c) ==
  connections' = (connections \ {c}) \cup {[c EXCEPT !.stage = "answered"]}

LEMMA AfterReplyIsReplied ==
  ASSUME CInv, NEW c \in connections, Awaited(c.proc), connections' = afterReply(c)
  PROVE  Replied(c)
<1>1. WaitsFor(c.proc, c)
  BY DEF Awaited, WaitsFor, InReply
<1> QED
  BY <1>1 DEF afterReply, Replied

LEMMA ConnectionsAwaited ==
  ASSUME CInv, ProcessesStay, NEW p \in Proc, Fresh(p), Awaited(p),
         \/ connections' \subseteq connections
         \/ \E c \in connections : Replied(c)
  PROVE  Fresh(p)' /\ Awaited(p)'
<1>1. Fresh(p)'
  BY DEF ProcessesStay, Fresh
<1>2. request(p)' = request(p)
  BY DEF ProcessesStay, request
<1>3. CASE connections' \subseteq connections
  BY <1>1, <1>2, <1>3 DEF ProcessesStay, Awaited
<1>4. ASSUME NEW c \in connections, Replied(c)
      PROVE  Awaited(p)'
  <2> DEFINE new == [c EXCEPT !.stage = "answered"]
  <2>1. new.proc = c.proc /\ new.serial = c.serial /\ new.request = c.request
    BY DEF CInv, ValidConnections, Connection
  <2>2. connections' = (connections \ {c}) \cup {new}
    BY <1>4 DEF Replied
  <2> HIDE DEF new
  <2> QED
    BY <1>2, <2>1, <2>2 DEF ProcessesStay, Awaited
<1> QED
  BY <1>1, <1>3, <1>4

(* The reply to one process changes nothing for the others.                *)
LEMMA RepliedTouchesNoOther ==
  ASSUME CInv, ProcessesStay, NEW c \in connections, Replied(c),
         NEW q \in Proc \ {c.proc}
  PROVE  Untouched(q)
<1>1. [c EXCEPT !.stage = "answered"].proc = c.proc
  BY DEF CInv, ValidConnections, Connection
<1> QED
  BY <1>1 DEF ProcessesStay, Replied, Untouched, Same

(* What a reply makes of the process that gets it.                         *)
LEMMA RepliedActive ==
  ASSUME CInv, ProcessesStay, NEW c \in connections, c.stage = "sent", Replied(c),
         Awaited(c.proc), NEW name
  PROVE  LET p == c.proc
         IN  /\ ~ Leaving(p, name) => (Active(p, name) => Active(p, name)')
             /\ Joining(p, name) => ~ Active(p, name) /\ Active(p, name)'
<1> DEFINE p   == c.proc
           new == [c EXCEPT !.stage = "answered"]
<1>1. new.proc = p /\ new.stage = "answered"
  BY DEF CInv, ValidConnections, Connection
<1>2. connections' = (connections \ {c}) \cup {new}
  BY DEF Replied
<1>3. \A d \in connections : d.proc = p => d = c
  BY DEF Awaited
<1>4. ~ Waiting(p, "answered") /\ Waiting(p, "answered")'
  BY <1>1, <1>2, <1>3 DEF Waiting
<1>5. /\ Leaving(p, name)' <=> Leaving(p, name)
      /\ Joining(p, name)' <=> Joining(p, name)
      /\ subscribedTopics' = subscribedTopics
  BY DEF ProcessesStay, Leaving, Joining
<1>6. Joining(p, name) => ~ Leaving(p, name)
  BY DEF Joining, Leaving
<1> HIDE DEF new
<1> QED
  BY <1>4, <1>5, <1>6 DEF Active

(* The request on connection c, handled by a server that does not crash.   *)
LEMMA HandledBalance ==
  ASSUME SInv, IInv', ProcessesStay, NEW c \in connections, c.stage = "sent",
         dispatch(c.request, c.port), Replied(c), NEW n \in TopicName
  PROVE  Balanced(n)'
<1> DEFINE p      == c.proc
           r      == c.request
           client == [address |-> Loopback, port |-> c.port]
<1>1. /\ IInv /\ CInv /\ p \in Proc /\ client \in Client
      /\ Fresh(p) /\ Awaited(p) /\ ValidClient(p) /\ Balanced(n)
  BY RequestTypes DEF SInv, CInv
<1>2. pc[p] \in InReply /\ r = request(p)
  BY <1>1 DEF Awaited
<1>3. \A q \in Proc \ {p} : Active(q, n)' <=> Active(q, n)
  BY <1>1, RepliedTouchesNoOther, UntouchedActive
<1>4. ~ Leaving(p, n) => ActiveFor(n) \subseteq ActiveFor(n)'
  BY <1>1, <1>3, RepliedActive DEF ActiveFor
<1>5. CASE pc[p] = "commandReply"
  <2>1. r \in Requests /\ r = Head(todo[p])
    BY <1>1, <1>2, <1>5, HeadAndTail DEF request, ValidClient, ValidState, ValidPlace
  <2>2. ActiveFor(n) \subseteq ActiveFor(n)'
    BY <1>4, <1>5 DEF Leaving
  <2>3. CASE r.command = "subscribe"
    <3>1. r.topicName \in TopicName /\ handleSubscribeRequest(client, r.topicName)
      BY <2>1, <2>3, RequestKinds DEF dispatch
    <3> HIDE DEF client
    <3>2. SubscribedTo(n)' \subseteq
            SubscribedTo(n) \cup (IF n = r.topicName THEN {<<client, r.topicName>>} ELSE {})
      BY <1>1, <3>1, SubscribeAdds
    <3>3. CASE n = r.topicName
      <4>1. Joining(p, n)
        BY <1>5, <2>1, <2>3, <3>3 DEF Joining
      <4>2. ~ Active(p, n) /\ Active(p, n)'
        BY <1>1, <4>1, RepliedActive
      <4>3. p \notin ActiveFor(n) /\ ActiveFor(n) \cup {p} \subseteq ActiveFor(n)'
        BY <1>1, <2>2, <4>2 DEF ActiveFor
      <4>4. SubscribedTo(n)' \subseteq SubscribedTo(n) \cup {<<client, n>>}
        BY <3>2, <3>3
      <4> HIDE DEF p
      <4> QED
        BY <1>1, <4>3, <4>4, BalanceJoins
    <3>4. CASE n # r.topicName
      <4>1. SubscribedTo(n)' \subseteq SubscribedTo(n)
        BY <3>2, <3>4
      <4> QED
        BY <1>1, <2>2, <4>1, BalanceKept
    <3> QED
      BY <3>3, <3>4
  <2>4. CASE r.command # "subscribe"
    <3>1. r.command # "unsubscribe"
      BY <2>1, RequestKinds
    <3>2. \/ handleListTopics
          \/ \E name \in TopicName : handleGetTopicStatus(name)
          \/ Publish
      <4>1. \/ handleListTopics
            \/ r.command = "getTopicStatus" /\ handleGetTopicStatus(r.topicName)
            \/ r.command = "publish" /\ handlePublishRequest(r.topicName, r.message)
        BY <2>4, <3>1 DEF dispatch
      <4> QED
        BY <1>1, <4>1, RequestTypes DEF Publish
    <3>3. Subscriptions' = Subscriptions
      BY <1>1, <3>2, OthersKeepSubscriptions
    <3>4. SubscribedTo(n)' \subseteq SubscribedTo(n)
      BY <3>3 DEF SubscribedTo
    <3> QED
      BY <1>1, <2>2, <3>4, BalanceKept
  <2> QED
    BY <2>3, <2>4
<1>6. CASE pc[p] = "destructorReply"
  <2>1. r.command = "unsubscribe" /\ r.topicName = Head(subscribedTopics[p])
    BY <1>2, <1>6 DEF request
  <2>2. r.topicName \in TopicName /\ handleUnsubscribeRequest(client, r.topicName)
    BY <1>1, <2>1, RequestTypes DEF dispatch
  <2> HIDE DEF client
  <2>3. \/ Subscriptions' = {}
        \/ Subscriptions' = Subscriptions /\ SubscribedTo(r.topicName) = {}
        \/ \E s \in SubscribedTo(r.topicName) : Subscriptions' = Subscriptions \ {s}
    BY <1>1, <2>2, UnsubscribeRemoves
  <2>4. CASE n = r.topicName
    <3>1. CASE \E s \in SubscribedTo(n) : Subscriptions' = Subscriptions \ {s}
      <4>1. PICK s \in SubscribedTo(n) : Subscriptions' = Subscriptions \ {s}
        BY <3>1
      <4>2. SubscribedTo(n)' \subseteq SubscribedTo(n) \ {s}
        BY <4>1 DEF SubscribedTo
      <4>3. ActiveFor(n) \ {p} \subseteq ActiveFor(n)'
        BY <1>3 DEF ActiveFor
      <4> HIDE DEF p
      <4> QED
        BY <1>1, <4>2, <4>3, BalanceLeaves
    <3>2. CASE \/ Subscriptions' = {}
               \/ Subscriptions' = Subscriptions /\ SubscribedTo(n) = {}
      <4>1. SubscribedTo(n)' = {}
        BY <3>2 DEF SubscribedTo
      <4> QED
        BY <4>1, BalancedWhenEmpty
    <3> QED
      BY <2>3, <2>4, <3>1, <3>2
  <2>5. CASE n # r.topicName
    <3>1. ~ Leaving(p, n)
      BY <2>1, <2>5 DEF Leaving
    <3>2. SubscribedTo(n)' \subseteq SubscribedTo(n)
      BY <2>3 DEF SubscribedTo
    <3> QED
      BY <1>1, <1>4, <3>1, <3>2, BalanceKept
  <2> QED
    BY <2>4, <2>5
<1> QED
  BY <1>2, <1>5, <1>6 DEF InReply

LEMMA IdleBalance ==
  ASSUME Idle', process' # "running", NEW n
  PROVE  Balanced(n)'
<1>1. topics' = {}
  BY DEF Idle
<1>2. SubscribedTo(n)' = {}
  BY <1>1 DEF SubscribedTo, Subscriptions
<1> QED
  BY <1>2, BalancedWhenEmpty

-----------------------------------------------------------------------------
(* Every step of the system preserves the balance.                         *)

LEMMA ClientStepSInv ==
  ASSUME Faults = {}, NamesOnce, SInv, IInv', CInv', Idle',
         NEW p \in Proc, ClientStep(p)
  PROVE  SInv'
<1>1. /\ CInv /\ ClientNext(p, listening) /\ UNCHANGED vars
      /\ \A q \in Proc : Fresh(q) /\ Awaited(q)
      /\ \A n \in TopicName : Balanced(n)
  BY DEF ClientStep, SInv
<1>2. \A q \in Proc \ {p} : Untouched(q)
  BY <1>1, ClientTouchesNoOther
<1>3. Known(p)
  BY <1>1 DEF Known, CInv
<1>4. Fresh(p)' /\ Awaited(p)' /\ (listening => StaysActive(p))
  BY <1>1, <1>3, ClientStepKnown
<1>5. \A q \in Proc : Fresh(q)' /\ Awaited(q)'
  BY <1>1, <1>2, <1>4, UntouchedKept
<1>6. ASSUME NEW n \in TopicName PROVE Balanced(n)'
  <2>1. CASE process # "running"
    BY <1>1, <2>1, IdleBalance DEF vars
  <2>2. CASE process = "running"
    <3>1. Subscriptions' = Subscriptions
      BY <1>1, RegistryKept DEF vars
    <3>2. SubscribedTo(n)' \subseteq SubscribedTo(n)
      BY <3>1 DEF SubscribedTo
    <3>3. \A q \in Proc : Active(q, n) => Active(q, n)'
      BY <1>2, <1>4, <2>2, UntouchedActive DEF listening, StaysActive
    <3>4. ActiveFor(n) \subseteq ActiveFor(n)'
      BY <3>3 DEF ActiveFor
    <3> QED
      BY <1>1, <3>2, <3>4, BalanceKept
  <2> QED
    BY <2>1, <2>2
<1> QED
  BY <1>5, <1>6 DEF SInv

LEMMA HandleSInv ==
  ASSUME SInv, IInv', CInv', Idle', handleApproachingClient
  PROVE  SInv'
<1>1. PICK c \in connections :
        /\ c.stage = "sent"
        /\ dispatch(c.request, c.port)
        /\ connections' = IF process' = "crashed" THEN Answered ELSE afterReply(c)
        /\ ProcessesStay
  BY DEF handleApproachingClient, ProcessesStay
<1>2. /\ CInv /\ c.proc \in Proc
      /\ \A q \in Proc : Fresh(q) /\ Awaited(q)
  BY RequestTypes DEF SInv
<1>3. CASE process' = "crashed"
  <2>1. connections' \subseteq connections
    BY <1>1, <1>3 DEF Answered
  <2>2. \A q \in Proc : Fresh(q)' /\ Awaited(q)'
    BY <1>1, <1>2, <2>1, ConnectionsAwaited
  <2> QED
    BY <1>3, <2>2, IdleBalance DEF SInv
<1>4. CASE process' # "crashed"
  <2>1. Replied(c)
    BY <1>1, <1>2, <1>4, AfterReplyIsReplied
  <2>2. \A q \in Proc : Fresh(q)' /\ Awaited(q)'
    BY <1>1, <1>2, <2>1, ConnectionsAwaited
  <2>3. \A n \in TopicName : Balanced(n)'
    BY <1>1, <2>1, HandledBalance
  <2> QED
    BY <2>2, <2>3 DEF SInv
<1> QED
  BY <1>3, <1>4

LEMMA ServerAloneSInv ==
  ASSUME SInv, IInv', CInv', Idle',
         ServerStops \/ ServerAlone \/ UNCHANGED systemVars
  PROVE  SInv'
<1>1. ProcessesStay /\ connections' \subseteq connections
  BY DEF ServerStops, ServerAlone, Answered, systemVars, clientVars, mainVars, ProcessesStay
<1>2. \A q \in Proc : Fresh(q)' /\ Awaited(q)'
  BY <1>1, ConnectionsAwaited DEF SInv
<1>3. CASE ServerStops
  <2>1. process' # "running"
    BY <1>3 DEF ServerStops, Stop, Exit
  <2> QED
    BY <1>2, <2>1, IdleBalance DEF SInv
<1>4. CASE ServerAlone \/ UNCHANGED systemVars
  <2>1. UNCHANGED clientVars
    BY <1>4 DEF ServerAlone, systemVars
  <2>2. UNCHANGED <<pc, todo, subscribedTopics, connections>>
    BY <2>1 DEF clientVars, mainVars
  <2>3. Subscriptions' = Subscriptions
    <3>1. CASE Start \/ Tick \/ checkTopicTimeouts
      BY <3>1, OthersKeepSubscriptions DEF SInv
    <3>2. CASE UNCHANGED systemVars
      BY <3>2, RegistryKept DEF systemVars, vars
    <3> QED
      BY <1>4, <3>1, <3>2 DEF ServerAlone
  <2>4. ASSUME NEW n \in TopicName PROVE Balanced(n)'
    <3>1. SubscribedTo(n)' \subseteq SubscribedTo(n)
      BY <2>3 DEF SubscribedTo
    <3>2. ActiveFor(n) \subseteq ActiveFor(n)'
      BY <2>2 DEF ActiveFor, Active, Leaving, Joining, Waiting
    <3> QED
      BY <3>1, <3>2, BalanceKept DEF SInv
  <2> QED
    BY <1>2, <2>4 DEF SInv
<1> QED
  BY <1>3, <1>4

LEMMA InitSInv == SystemInit => SInv
<1> SUFFICES ASSUME SystemInit PROVE SInv
  OBVIOUS
<1>1. IInv /\ CInv
  BY InitIInv, InitCInv DEF SystemInit
<1>2. topics = {} /\ connections = {} /\ todo = [p \in Proc |-> <<>>]
  BY DEF SystemInit, Init, ClientInit
<1>3. \A p \in Proc : Fresh(p) /\ Awaited(p)
  BY <1>2 DEF Fresh, Awaited
<1>4. ASSUME NEW n \in TopicName PROVE Balanced(n)
  <2>1. SubscribedTo(n) = {}
    BY <1>2 DEF SubscribedTo, Subscriptions
  <2>2. IsFiniteSet({}) /\ Cardinality({}) = 0
    BY FS_EmptySet
  <2>3. Cardinality(ActiveFor(n)) >= 0
    BY ActiveForFinite
  <2> QED
    BY <2>1, <2>2, <2>3 DEF Balanced
<1> QED
  BY <1>1, <1>2, <1>3, <1>4 DEF SInv, Idle

LEMMA NextSInv ==
  ASSUME Faults = {}, NamesOnce
  PROVE  SInv /\ [SystemNext]_systemVars => SInv'
<1> SUFFICES ASSUME SInv, [SystemNext]_systemVars PROVE SInv'
  OBVIOUS
<1>1. IInv /\ CInv /\ Idle
  BY DEF SInv
<1>2. [Next]_vars
  BY <1>1, SystemStepIsServerStep
<1>3. IInv' /\ CInv' /\ Idle'
  BY <1>1, <1>2, NextIInv, NextCInv, NextIdle
<1>4. CASE \E p \in Proc : ClientStep(p)
  BY <1>3, <1>4, ClientStepSInv
<1>5. CASE handleApproachingClient
  BY <1>3, <1>5, HandleSInv
<1>6. CASE ServerStops \/ ServerAlone \/ UNCHANGED systemVars
  BY <1>3, <1>6, ServerAloneSInv
<1> QED
  BY <1>4, <1>5, <1>6 DEF SystemNext

(* Who is subscribed and knows it Holds the topic.                         *)
LEMMA ActiveHolds ==
  ASSUME SInv, NEW p \in Proc, NEW name, Active(p, name)
  PROVE  Holds(p, name)
<1>1. ValidClient(p) /\ Awaited(p)
  BY DEF SInv, CInv
<1>2. CASE Leaving(p, name)
  <2>1. subscribedTopics[p] # <<>> /\ subscribedTopics[p] \in Seq(TopicName)
    BY <1>1, <1>2 DEF Leaving, ValidClient, ValidState, ValidPlace
  <2> QED
    BY <1>2, <2>1, HeadAndTail DEF Leaving, Holds
<1>3. CASE ~ Leaving(p, name) /\ Joining(p, name)
  <2>1. PICK c \in connections : c.proc = p
    BY <1>3 DEF Active, Waiting
  <2>2. c.request = Head(todo[p])
    BY <1>1, <1>3, <2>1 DEF Awaited, request, Joining
  <2> QED
    BY <1>3, <2>1, <2>2 DEF Joining, Holds
<1>4. CASE ~ Leaving(p, name) /\ ~ Joining(p, name)
  BY <1>4 DEF Active, Holds
<1> QED
  BY <1>2, <1>3, <1>4

LEMMA NoExcess == SInv => NoExcessSubscriptions
<1> SUFFICES ASSUME SInv, NEW name \in TopicName
             PROVE  Cardinality(SubscribedTo(name))
                      <= Cardinality({p \in Proc : Holds(p, name)})
  BY DEF NoExcessSubscriptions, SubscribedTo
<1> DEFINE H == {p \in Proc : Holds(p, name)}
<1>1. ActiveFor(name) \subseteq H
  BY ActiveHolds DEF ActiveFor
<1>2. IsFiniteSet(H)
  BY ClientAssumption, FS_Subset
<1> HIDE DEF H
<1>3. Cardinality(ActiveFor(name)) <= Cardinality(H) /\ Cardinality(H) \in Nat
  BY <1>1, <1>2, FS_Subset, FS_CardinalityType
<1>4. /\ IsFiniteSet(SubscribedTo(name))
      /\ Cardinality(SubscribedTo(name)) <= Cardinality(ActiveFor(name))
  BY DEF SInv, Balanced
<1>5. Cardinality(SubscribedTo(name)) \in Nat /\ Cardinality(ActiveFor(name)) \in Nat
  BY <1>4, FS_CardinalityType, ActiveForFinite
<1>6. Cardinality(SubscribedTo(name)) <= Cardinality(H)
  BY <1>3, <1>4, <1>5
<1> QED
  BY <1>6 DEF H

LEMMA NothingLeft == SInv => LeavesNothing
<1> SUFFICES ASSUME SInv, \A p \in Proc : Gone(p) PROVE Subscriptions = {}
  BY DEF LeavesNothing
<1>1. ASSUME NEW name \in TopicName PROVE SubscribedTo(name) = {}
  <2>1. Range(<<>>) = {}
    BY DEF Range
  <2>2. ASSUME NEW p \in Proc PROVE ~ Active(p, name)
    <3>1. pc[p] \in {"new", "exited"} /\ subscribedTopics[p] = <<>>
      BY DEF Gone, SInv, CInv, ValidClient, ValidPlace, Over
    <3> QED
      BY <2>1, <3>1 DEF Active, Leaving, Joining
  <2>3. ActiveFor(name) = {}
    BY <2>2 DEF ActiveFor
  <2>4. /\ IsFiniteSet(SubscribedTo(name))
        /\ Cardinality(SubscribedTo(name)) <= 0
    BY <2>3, FS_EmptySet DEF SInv, Balanced
  <2>5. Cardinality(SubscribedTo(name)) = 0
    BY <2>4, FS_CardinalityType
  <2> QED
    BY <2>4, <2>5, FS_EmptySet
<1>2. \A s \in Subscriptions : s[2] \in TopicName
  BY SubscriptionPairs DEF SInv
<1> QED
  BY <1>1, <1>2 DEF SubscribedTo

(* Without faults, and if no command line names a topic twice, a topic has *)
(* no more subscribers than there are processes that hold it, although     *)
(* Topic::unsubscribe removes the first subscriber, whoever asked          *)
(* (topic.cpp:88), whatever the server forgets and however often.          *)
THEOREM SubscriptionsAreHeld ==
  ASSUME Faults = {}, NamesOnce
  PROVE  SystemSpec => []NoExcessSubscriptions
BY InitSInv, NextSInv, NoExcess, PTL DEF SystemSpec

(* Under the same conditions the destructors of the clients undo together  *)
(* what they have done: when all clients are gone, no subscription is left *)
(* (client.cpp:84-92, client.h:42).                                        *)
THEOREM NothingIsLeft ==
  ASSUME Faults = {}, NamesOnce
  PROVE  SystemSpec => []LeavesNothing
BY InitSInv, NextSInv, NothingLeft, PTL DEF SystemSpec
=============================================================================
