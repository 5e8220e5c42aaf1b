--------------------------- MODULE Dissemination ---------------------------
(***************************************************************************)
(* How a message gets to the subscribers of a topic over a network that    *)
(* may lose, duplicate and reorder datagrams: nobody acknowledges one      *)
(* (src/server/clientconnection.cpp:49), and the heartbeat thread repeats  *)
(* the current message every topicTimeout seconds. The topic is that of    *)
(* Topic; of the Server and of the Client there is what concerns it.       *)
(*                                                                         *)
(* Time is relative: timeoutTimestamp is counted from now, which is 0, and *)
(* the clock going on moves it towards 0, where it stays. So no bound on   *)
(* the clock ends the behaviours. A second that begins within a step is a  *)
(* Tick after it. messageTimestamp is only printed, and not kept.          *)
(***************************************************************************)
EXTENDS Topic, Integers, FiniteSets

CONSTANTS
  Client,       \* who may subscribe
  ConnPtr,      \* cells of ClientConnection objects
  TopicName, Message,
  topicTimeout, \* seconds, from --topic-timeout
  Jumps,        \* by how many seconds the clock may be set back
  MaxSetBacks   \* bound of how often it is

ASSUME DisseminationAssumption ==
  /\ NoMessage \notin Message
  /\ topicTimeout \in Nat
  /\ Jumps \subseteq Nat
  /\ MaxSetBacks \in Nat

VARIABLES
  topic,     \* the Topic, or NoTopic
  connHeap,  \* the live ClientConnection objects
  network,   \* the datagrams on their way
  shown,     \* the message each client has printed last
  setBacks   \* how often the clock was set back

dissVars == <<topic, connHeap, network, shown, setBacks>>

NoTopic == NewTopic("", 0, 0)

name == CHOOSE n \in TopicName : TRUE

DissInit ==
  /\ topic = NoTopic
  /\ connHeap = [p \in {} |-> {}]
  /\ network = {}
  /\ shown = [s \in Client |-> NoMessage]
  /\ setBacks = 0

listed(s) == hasClient(topic, connHeap, s)

\* The connection of the client, or a cell for a new one.
connectionCell(s) ==
  LET known == {p \in DOMAIN connHeap : connHeap[p] = s}
  IN  IF known # {} THEN known ELSE ConnPtr \ DOMAIN connHeap

handleSubscribeRequest(s) ==
  /\ \E p \in connectionCell(s) :
       /\ connHeap' = [q \in DOMAIN connHeap \cup {p} |->
                         IF q = p THEN s ELSE connHeap[q]]
       /\ topic' = subscribe(IF topic = NoTopic THEN NewTopic(name, 0, 0) ELSE topic,
                             connHeap', p)
  /\ UNCHANGED <<network, shown, setBacks>>

(* Called by the destructor of the client with connection p, whose next    *)
(* process shows nothing yet. The subscriber that is removed is the first  *)
(* one; the caller's connection goes when the topic does not list it.      *)
handleUnsubscribeRequest(p) ==
  /\ p \in DOMAIN connHeap
  /\ topic # NoTopic
  /\ LET left == unsubscribe(topic, p)
         gone == ~ hasClient(left, connHeap, connHeap[p])
     IN  /\ topic' = IF left.subscriberList = <<>> THEN NoTopic ELSE left
         /\ connHeap' = IF gone THEN Restrict(connHeap, DOMAIN connHeap \ {p})
                        ELSE connHeap
  /\ shown' = [shown EXCEPT ![connHeap[p]] = NoMessage]
  /\ UNCHANGED <<network, setBacks>>

handlePublishRequest(m) ==
  /\ topic # NoTopic
  /\ topic' = setMessage(topic, m, 0, 0)
  /\ UNCHANGED <<connHeap, network, shown, setBacks>>

timedOut == topic.timeoutTimestamp <= 0

\* A plausible bug of the next one: the timeout starts anew with every pass.
timeoutAfterPassAnew == topicTimeout

timeoutAfterPass == IF timedOut THEN topicTimeout ELSE topic.timeoutTimestamp

checkTopicTimeouts ==
  /\ topic # NoTopic
  /\ topic' = [topic EXCEPT !.timeoutTimestamp = timeoutAfterPass]
  /\ network' = IF timedOut THEN network \cup publishMessage(topic, connHeap)
                ELSE network
  /\ UNCHANGED <<connHeap, shown, setBacks>>

\* A second goes by, or the clock is set back.
Tick ==
  /\ topic.timeoutTimestamp > 0
  /\ topic' = [topic EXCEPT !.timeoutTimestamp = @ - 1]
  /\ UNCHANGED <<connHeap, network, shown, setBacks>>

SetBack ==
  /\ topic # NoTopic
  /\ setBacks < MaxSetBacks
  /\ \E seconds \in Jumps :
       topic' = [topic EXCEPT !.timeoutTimestamp = @ + seconds]
  /\ setBacks' = setBacks + 1
  /\ UNCHANGED <<connHeap, network, shown>>

\* handleMessages of the client: it prints what it receives. A datagram may
\* arrive once more.
Receive(s, m) ==
  \E d \in network :
    /\ d.to = s /\ d.message = m
    /\ shown' = [shown EXCEPT ![s] = m]
    /\ network' \in {network, network \ {d}}
    /\ UNCHANGED <<topic, connHeap, setBacks>>

Lose ==
  /\ \E d \in network : network' = network \ {d}
  /\ UNCHANGED <<topic, connHeap, shown, setBacks>>

DissNext ==
  \/ \E s \in Client : handleSubscribeRequest(s)
  \/ \E p \in ConnPtr : handleUnsubscribeRequest(p)
  \/ \E m \in Message : handlePublishRequest(m)
  \/ checkTopicTimeouts \/ Tick \/ SetBack \/ Lose
  \/ \E s \in Client, m \in Message : Receive(s, m)

DissSpec == DissInit /\ [][DissNext]_dissVars

(* The heartbeat thread loops for as long as the server runs, and time     *)
(* goes on. Of the network it is assumed that it does not lose a message   *)
(* that is sent to a client over and over again every time.                *)
FairDissSpec ==
  /\ DissSpec
  /\ WF_dissVars(checkTopicTimeouts)
  /\ WF_dissVars(Tick)
  /\ \A s \in Client, m \in Message : SF_dissVars(Receive(s, m))

-----------------------------------------------------------------------------
(* Properties.                                                             *)

(* README.md:43-44: the publisher informs all subscribers about new        *)
(* messages, and repeats them. Whatever is lost or comes late, and though  *)
(* the clock be set back, who stays on the list shows the current message  *)
(* in the end, unless a new one takes its place (server.cpp:148-154,       *)
(* topic.cpp:47-59).                                                       *)
EveryoneCatchesUp ==
  \A s \in Client, m \in Message :
    (listed(s) /\ topic.message = m)
      ~> (shown[s] = m \/ ~ listed(s) \/ topic.message # m)
=============================================================================
