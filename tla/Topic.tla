------------------------------- MODULE Topic -------------------------------
(***************************************************************************)
(* The Topic object of the publisher server (src/server/topic.cpp): a      *)
(* record with one field per data member, and one operator per method. A   *)
(* subscriberList holds pointers to ClientConnection objects; the methods  *)
(* that dereference them take the heap of these objects, a function from   *)
(* the live pointers to [address, port] records, as their argument heap.   *)
(***************************************************************************)
EXTENDS Vector

CONSTANT NoMessage   \* the empty string a new topic holds as its message

-----------------------------------------------------------------------------
\* The constructor; it reads the clock twice.
NewTopic(name, first, second) ==
  [topicName |-> name, message |-> NoMessage, messageTimestamp |-> first,
   subscriberList |-> <<>>, timeoutTimestamp |-> second]

\* A plausible bug of the next one: the comparison never succeeds.
hasClientNever(topic, heap, client) == FALSE

\* Clients are compared by address and port, not by pointer.
hasClient(topic, heap, client) ==
  \E i \in DOMAIN topic.subscriberList : heap[topic.subscriberList[i]] = client

subscribe(topic, heap, pointer) ==
  IF hasClient(topic, heap, heap[pointer])
  THEN topic
  ELSE [topic EXCEPT !.subscriberList = Append(@, pointer)]

\* A plausible bug of the next one: the whole list is erased.
unsubscribeAll(topic, pointer) == [topic EXCEPT !.subscriberList = <<>>]

(* The loop variable of the method shadows its parameter: the comparison   *)
(* is between each entry and itself, so the entry found is the first one,  *)
(* whoever asked, and it is that entry the method erases.                  *)
unsubscribe(topic, pointer) ==
  [topic EXCEPT !.subscriberList = eraseRemove(@, Head(@))]

\* A plausible bug of the next one: a new message waits for the next timeout.
setMessageKeepsTimeout(topic, message, first, second) ==
  [topic EXCEPT !.message = message, !.messageTimestamp = first]

\* It reads the clock twice, as the constructor does.
setMessage(topic, message, first, second) ==
  [topic EXCEPT !.message = message,
                !.messageTimestamp = first, !.timeoutTimestamp = second]

\* The datagram that ClientConnection::SendMessage hands to the network.
SendMessage(client, topicName, message, timestamp) ==
  [to |-> client, topicName |-> topicName, message |-> message,
   messageTimestamp |-> timestamp]

\* The datagrams of one call, one for each subscriber.
publishMessage(topic, heap) ==
  IF topic.message = NoMessage THEN {}
  ELSE {SendMessage(heap[p], topic.topicName,
                    topic.message, topic.messageTimestamp) :
          p \in Range(topic.subscriberList)}
=============================================================================
