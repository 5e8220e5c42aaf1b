--------------------------- MODULE ServerDelivery ---------------------------
(***************************************************************************)
(* What the server owes its subscribers. The code keeps no record of it,   *)
(* so history variables do: a publish request answered success owes the    *)
(* message to everybody subscribed at that time, until the heartbeat hands *)
(* it to SendMessage, the subscription ends, or a later publish replaces   *)
(* it. The history variables constrain no step of the server.              *)
(***************************************************************************)
EXTENDS Server

CONSTANT Never   \* no message of this topic has been sent yet

VARIABLES
  owed,      \* the messages promised and not yet sent
  lastSent   \* between which readings of the clock the current message of
             \* each topic was last sent

deliveryVars == <<vars, owed, lastSent>>

Debt == [to : Client, topicName : TopicName, message : Message]

subscribersOf(name) == {client \in Client : <<client, name>> \in Subscriptions}

HandedOver(o) ==
  \E d \in sent' : /\ d.to = o.to
                   /\ d.topicName = o.topicName
                   /\ d.message = o.message

\* What is left of the debts after a step that publishes nothing.
Settle ==
  owed' = {o \in owed : /\ <<o.to, o.topicName>> \in Subscriptions'
                        /\ ~ HandedOver(o)}

DeliveryInit == Init /\ owed = {} /\ lastSent = [n \in TopicName |-> Never]

\* A topic that is deleted takes the time of its last message with it.
Forget ==
  lastSent' = [n \in TopicName |->
                 IF subscribersOf(n)' = {} THEN Never ELSE lastSent[n]]

DeliveryOther == (Background \/ Request) /\ Settle /\ Forget

DeliveryPublish ==
  \E name \in TopicName, message \in Message :
    /\ handlePublishRequest(name, message)
    /\ IF response'.statusCode = "success"
       THEN /\ owed' = {o \in owed : o.topicName # name}
                 \cup {[to |-> client, topicName |-> name, message |-> message] :
                         client \in subscribersOf(name)}
            /\ lastSent' = [lastSent EXCEPT ![name] = Never]
       ELSE UNCHANGED <<owed, lastSent>>

\* The topic called n is due, and has a message.
Sends(due, n) ==
  {t \in due : topicHeap[t].topicName = n /\ topicHeap[t].message # NoMessage}

DeliveryHeartbeat ==
  /\ TimePasses
  /\ \E due \in SUBSET topics : \E reading \in [due -> Readings] :
       /\ pass(due, reading)
       /\ lastSent' = [n \in TopicName |->
            IF Sends(due, n) = {} THEN lastSent[n]
            ELSE reading[CHOOSE t \in Sends(due, n) : TRUE]]
  /\ Settle

DeliveryNext == DeliveryOther \/ DeliveryPublish \/ DeliveryHeartbeat

DeliverySpec == DeliveryInit /\ [][DeliveryNext]_deliveryVars

-----------------------------------------------------------------------------
(* Properties.                                                             *)

(* Whatever requests come in between a publish and the next pass of the    *)
(* heartbeat, the message owed to a subscriber is the one its topic holds, *)
(* the topic is due, and the subscriber is on its list (topic.cpp:61-67    *)
(* against server.cpp:148).                                                *)
OwedIsDue ==
  \A o \in owed : \E t \in topics :
    /\ topicHeap[t].topicName = o.topicName
    /\ topicHeap[t].message = o.message
    /\ timedOut(t, now)
    /\ \E p \in Range(topicHeap[t].subscriberList) : connHeap[p] = o.to

(* One pass of the heartbeat settles every debt (server.cpp:145-155 and    *)
(* topic.cpp:55-58: no topic and no subscriber is skipped).                *)
PassSettlesAll == [][checkTopicTimeouts => owed' = {}]_deliveryVars

(* A message is repeated as a heartbeat only when topicTimeout seconds     *)
(* have gone by since it was last sent, however many clients join, leave   *)
(* or ask in between (server.cpp:148-154).                                 *)
HeartbeatSpacing ==
  [][\A d \in sent' :
       \/ lastSent[d.topicName] = Never
       \/ lastSent'[d.topicName][1]
            >= lastSent[d.topicName][2] + topicTimeout]_deliveryVars

=============================================================================
