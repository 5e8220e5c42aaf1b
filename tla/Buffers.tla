------------------------------ MODULE Buffers ------------------------------
(***************************************************************************)
(* How long the documents get, and whether they fit: requests, replies and *)
(* messages are each read by one call of recv or recvfrom into a buffer of *)
(* fixed size. Server and client each have their own, and documents of     *)
(* different layout go through them. The server makes a string of as many  *)
(* bytes as it received (server.cpp:31); the client takes its buffer, full *)
(* of zeros before, for a string that ends at a zero (client.cpp:185, 255),*)
(* and there is none in it once it is full.                                *)
(*                                                                         *)
(* Of a text only the numbers of its characters count: plain ones are one  *)
(* byte in JSON, a quote or backslash is written as two bytes, and a       *)
(* character outside ASCII as six, or twice six, since jsoncpp escapes it  *)
(* (emitUTF8 is false). The numbers below are the bytes that the layout itself takes.   *)
(***************************************************************************)
EXTENDS Integers, Sequences

CONSTANTS
  Names,       \* topic names
  Messages,    \* messages
  Registries,  \* the names of all topics that there may be, as sequences
  MaxSegment,  \* bytes that TCP carries at once
  Behind       \* how far the next zero may be behind the buffer of a client

ASSUME BuffersAssumption ==
  /\ Names \cup Messages \subseteq [plain : Nat, quoted : Nat, wide : Nat]
  /\ \A list \in Registries : list \in Seq([plain : Nat, quoted : Nat, wide : Nat])
  /\ MaxSegment \in Nat \ {0}
  /\ Behind \subseteq Nat

VARIABLES
  name,     \* of a topic, or NoText
  message,  \* what it holds, or NoText
  last      \* the last document on its way, and what was read of it

buffersVars == <<name, message, last>>

NoText == [plain |-> -1, quoted |-> 0, wide |-> 0]

\* BUFFER_SIZE of server.cpp and of client.cpp. A plausible bug: they differ.
smallBuffer == 1024

serverBuffer == 2048

clientBuffer == 2048

characters(t) == t.plain + t.quoted + t.wide

escaped(t) == t.plain + 2 * t.quoted + 6 * t.wide

\* What the first n of some texts take together.
total(lengths) ==
  LET upTo[n \in 0..Len(lengths)] ==
        IF n = 0 THEN 0 ELSE upTo[n - 1] + lengths[n]
  IN  upTo

sum(lengths) == total(lengths)[Len(lengths)]

\* {"arguments":{"clientPort":"12345","topicName":"..."},"command":0}
subscribeSize(topicName) == 63 + escaped(topicName)

\* {"arguments":{"message":"...","topicName":"..."},"command":2}
publishSize(topicName, text) == 55 + escaped(topicName) + escaped(text)

\* {"message":"...","messageTimestamp":1687112061,"topic":"..."}
messageSize(topicName, text) == 55 + escaped(topicName) + escaped(text)

\* {"statusCode":0,"topics":"[...,...]"}
listSize(list) ==
  30 + sum([n \in DOMAIN list |-> escaped(list[n])])
     + (IF list = <<>> THEN 0 ELSE Len(list) - 1)

\* texts are what the document is made of; got is what was received of it,
\* and string the length of the text that is parsed.
Document(kind, texts, size, got, string) ==
  [kind |-> kind, texts |-> texts, size |-> size, read |-> got, length |-> string]

whole(document) == document.read = document.size /\ document.length = document.size

smaller(a, b) == IF a <= b THEN a ELSE b

\* What one call of recv may yield: the first segment, or all there is.
receives(size, buffer) ==
  {smaller(bytes, buffer) : bytes \in {size, smaller(size, MaxSegment)}}

\* How long the string is that the client finds in its buffer: the reading
\* goes on behind a full one, and nobody knows what is there.
stringLengths(got) ==
  IF got < clientBuffer THEN {got} ELSE {got + n : n \in Behind}

BuffersInit ==
  /\ name = NoText
  /\ message = NoText
  /\ last = Document("none", <<>>, 0, 0, 0)

\* A request is carried out if the server has read all of it.
Subscribe ==
  \E topicName \in Names :
  \E got \in receives(subscribeSize(topicName), serverBuffer) :
    /\ name = NoText
    /\ last' = Document("subscribe", <<topicName>>, subscribeSize(topicName), got, got)
    /\ name' = IF whole(last') THEN topicName ELSE NoText
    /\ UNCHANGED message

Publish ==
  /\ name # NoText
  /\ \E text \in Messages : \E got \in receives(publishSize(name, text), serverBuffer) :
       /\ last' = Document("publish", <<name, text>>, publishSize(name, text), got, got)
       /\ message' = IF whole(last') THEN text ELSE message
  /\ UNCHANGED name

\* recvfrom of the client; a datagram is never cut on its way.
SendDatagram ==
  /\ message # NoText
  /\ LET size == messageSize(name, message)
         got  == smaller(size, clientBuffer)
     IN  \E string \in stringLengths(got) :
           last' = Document("message", <<name, message>>, size, got, string)
  /\ UNCHANGED <<name, message>>

\* Whatever topics there are.
ListTopics ==
  \E list \in Registries :
  \E got \in receives(listSize(list), clientBuffer) : \E string \in stringLengths(got) :
    /\ last' = Document("list", list, listSize(list), got, string)
    /\ UNCHANGED <<name, message>>

BuffersNext == Subscribe \/ Publish \/ SendDatagram \/ ListTopics

BuffersSpec == BuffersInit /\ [][BuffersNext]_buffersVars

-----------------------------------------------------------------------------
(* Properties.                                                             *)

(* What the server accepts, a client can read, but for one length: a       *)
(* message whose publish request went through the buffer of the server     *)
(* goes through that of the client, in another layout and with a timestamp *)
(* (server.cpp:15, client.cpp:21, message.cpp:27-36), unless it fills it   *)
(* to the last byte. Then the client reads on behind its buffer            *)
(* (client.cpp:178-185).                                                   *)
AcceptedMessagesFit ==
  last.kind = "message" => whole(last) \/ last.size = clientBuffer

(* README.md:80: topic name and message combined cannot exceed 1700        *)
(* characters. As far as they are plain ones, what obeys the restriction   *)
(* is read as a whole, if TCP brings it at once.                           *)
RestrictionSuffices ==
  /\ last.kind = "publish"
  /\ \A n \in {1, 2} : characters(last.texts[n]) = last.texts[n].plain
  /\ characters(last.texts[1]) + characters(last.texts[2]) <= 1700
  => whole(last)

(* README.md:42, 76: the publisher manages at least 32 topics, and         *)
(* --list-topics lists all of them. So it does if their names take no more *)
(* than 62 bytes each; a reply that was cut cannot be parsed.              *)
ListsFit ==
  /\ last.kind = "list"
  /\ Len(last.texts) <= 32
  /\ \A n \in DOMAIN last.texts : escaped(last.texts[n]) <= 62
  => whole(last)
=============================================================================
