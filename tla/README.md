# Verification of the publisher/subscriber system

This directory holds TLA+ models of the publisher server and subscriber client
of this repository, the TLC configurations that check them, and TLAPS proofs.
Paths below are relative to the repository (`src/server/...` is its source,
`README.md:43` a line of its README).

## 1. The system

One server process keeps *topics* and, for each topic, the clients subscribed
to it. Clients send requests over TCP (one connection per request, one reply);
the server sends messages to subscribed clients over UDP. A publish request only
stores the message; a *heartbeat thread* of the server sends it, and repeats the
last message of every topic each `--topic-timeout` seconds.

| Component | State | Operations | Talks to |
|---|---|---|---|
| Topic (`server/topic.cpp`) | name, message and its timestamp, list of `ClientConnection*`, timeout timestamp | subscribe, unsubscribe, hasClient, setMessage, publishMessage | ClientConnection |
| ClientConnection (`server/clientconnection.cpp`) | address, port | SendMessage | the network |
| Server registry (`server/server.cpp:179-441`) | vectors of `Topic*` and `ClientConnection*`, a mutex | the five request handlers | Topic |
| Server threads (`server.cpp:19-137`) | listening socket, one thread per request | accept, decode, handle, reply | registry, clients |
| Heartbeat (`server.cpp:139-160`) | none of its own | every second: send what is due | registry, Topic |
| Server life cycle (`server.cpp:94-118,162-177`, `server/main.cpp`) | socket, threads | construct, bind, listen, destroy | |
| Client main thread (`client/client.cpp`) | list of subscribed topics | subscribe, unsubscribe, publish, list, status; destructor | server |
| Client message thread (`client.cpp:168-203`) | UDP socket, a flag shared with the main thread | receive and print | server |
| Command lines (`*/main.cpp`) | | parse | |
| Command, Response, Message (`shared/`) | | encode, decode, validate | |

What makes each of them correct:

- **Registry.** The two vectors own exactly the live objects and every pointer in
  a list is live; look-ups are unambiguous; nobody is listed twice; a topic exists
  exactly as long as it has a subscriber; an unsubscribe removes the caller; a
  connection lives no longer than the subscriptions of its client; no request
  ends the process.
- **Heartbeat and publish.** An accepted message is sent to everybody who was
  subscribed, in whatever order other requests come in; it is repeated, but not
  too early; nothing is forgotten.
- **Threads and life cycle.** Registry steps are atomic under the mutex; the
  process ends when it cannot listen; resources are returned.
- **Client.** It ends when asked to, with or without a server; afterwards the
  server has no subscription of it; what it believes to be subscribed agrees with
  the server.
- **Encoding.** Decoding returns what was encoded; malformed requests are answered
  *internal error*.

Hard behaviours: requests of several clients in any order, between any two passes
of the heartbeat; objects found by value (address and port) but owned by pointer;
a server that crashes and comes back empty; replies later than the client's 30 s
timeout; lost UDP datagrams; sockets and threads that are never released; wall
clock time. `PROJECT.json` lists each of these under `hazards` with its line.

## 2. Modules

| Module | Models |
|---|---|
| `Topic` | the methods of `Topic` as operators on records, and `ClientConnection::SendMessage` |
| `Server` | registry on an explicit heap, the five handlers, the heartbeat, start, stop and crash |
| `ServerDelivery` | `Server` plus history variables: what is owed to whom, and when a message was last sent |
| `SubscriptionService` | abstract specification: a relation between clients and topic names |
| `ServerRefinement` | the refinement mapping from `Server` to `SubscriptionService` |
| `Vector` | the erase-remove idiom that server and client use |
| `ClientProcess` | the processes of `client.exe`: `main` from the construction of the `Client` to its destruction, the message thread, and the TCP connections of their requests |
| `System` | `Server` and `ClientProcess` together, and `handleApproachingClient` between them |
| `ServerThreads` | `Server` step by step: handler threads and heartbeat with the mutex, and the refinement mapping to `Server` |
| `ServerProcess` | constructor, accept loop, connections and destructor, within limits on descriptors and threads |
| `Dissemination` | a topic, its heartbeat, a lossy network and the message threads, in relative time |
| `ArrayNotation`, `Protocol`, `Exchange` | lists in a reply; encoding and decoding of requests, replies and messages; a request, its reply, and a message on the wire |
| `Buffers` | how long the documents get, and the buffers they are read into |
| `ClientCommandLine`, `ServerCommandLine` | the two `main` functions over their arguments |
| `VectorProofs`, `ServerProofs`, `ServerDeliveryProofs`, `ServerThreadsProofs`, `ServerProcessProofs`, `SystemProofs` | theorems and proofs about the module of that name, `ServerProofs` about `ServerRefinement` as well (section 4) |
| `WireProofs`, `CommandLineProofs` | theorems and proofs about `Exchange` and `Buffers`, and about both command lines |
| `MCWire`, `MCCommandLines` | instances for TLC of two modules each that do not depend on each other: one of the two stays in its initial state while the other is at work |
| other `MC*` | instances for TLC: symmetry sets, command lines |

`Topic` and `ClientProcess` extend `Vector`; `Server` and `Dissemination` extend `Topic`;
`ServerDelivery`, `ServerRefinement`, `ServerThreads` and `System` extend `Server`;
`Exchange` extends `Protocol`, which extends `ArrayNotation`. The others stand alone:
what the handlers do to the registry is left to `Server` there. The modules of proofs extend
what they are about, and those of which they use results: `ServerProofs`, `WireProofs` and
`CommandLineProofs` extend `VectorProofs`, and `ServerProofs` is extended by
`ServerDeliveryProofs`, `ServerThreadsProofs` and `SystemProofs`. `CommandLineProofs` is about
the two programs side by side, as `MCCommandLines` has them.

**State.** `topicHeap` and `connHeap` are functions from the live pointers to the
objects; `topics` and `clientConnections` are the pointers in the vectors of the
`Server`. Keeping heap and vectors apart is what makes leaks and dangling pointers
expressible: `new` takes any free cell (so a freed pointer may be reused), `delete`
frees one. `response` is the reply to the last request, `sent` the datagrams
of the last step, `now` is `time(nullptr)`.

**Actions.** Each handler holds the mutex from its first to its last access of the
registry, so it is one action (`handleSubscribeRequest`, ...); its disjuncts and
`IF`s are the branches and early returns of the method. A pass of the heartbeat
holds the mutex as well (`checkTopicTimeouts`). `Stop` is a signal (the accept loop
never ends by itself), `Exit("crashed")` the null dereference at
`server.cpp:296`: it reads a string object at address 0, which no build survives.

**Abstractions.** The two vectors are sets, since their order only decides the
layout of a reply; a subscriber list is a sequence, since its order decides who is
erased. A critical section reads the clock where the code does, several times if it creates a
topic, sets a message (`topic.cpp:12-16`, `64-65`) or publishes one (`server.cpp:148`, `153`), and
no mutex stops the clock: `now` may go on within an action of `Server` (`TimePasses`), and
what is read is any of the seconds between, in order (`Readings`). A datagram counts as sent when
`SendMessage` is called for it: failing sockets and the network are not in these
modules. Messages and names are model values; the empty string, which only a new
topic holds because `Command::isValid` (`command.cpp:68-78`) rejects it, is
`NoMessage`. Every `[address, port]` pair may ask for anything at any time: the
server cannot know whether a request comes from `client.exe`. Allocation failure
is left out.

`Topic::unsubscribe` is modelled as it is written: `unsubscribe(topic, pointer)`
does not look at `pointer`.

**Clients.** The state of a process is a field of functions over `Proc`: `pc` says where the
main thread is, `todo` what is left of its command line, `subscribedTopics` is the
vector of the `Client`, and the flag `messageThreadRunning` is written by the main
thread and read by the message thread. An action ends where the main thread may wait:
in `recv` (`commandReply`, `destructorReply`), at the ENTER key (`enter`), in `join`.
`Returned` is what the callers of `sendMessage` do afterwards, which is the same whether
the request was answered, refused, given up or never sent; a failed subscribe request
is recorded like a successful one (`client.cpp:109`). What a reply contains therefore
does not matter to a client, and is left out. The flag is an `atomic<bool>` (`client.h:115`).
Each process has a known command; `main` ends at once without one. `socket()` does not fail.

`connections` holds the requests under way. A client never closes a connection, and a
server thread reads and handles a request whether its client still waits or not
(`System!handleApproachingClient`). The requests that were sent are lost when the server
ends, replies that it sent are not. The parameter `Faults` says what else may happen:
`timeout`, a reply does not come within 30 seconds and the client goes on; `connect`,
`connect` or `send` fails although the server runs; `kill`, a client process ends by a
signal (none is handled). A client binds 127.0.0.1 (`client.cpp:55`) and so only gets
messages of a server on its own host: all clients of `System` are at one address,
`Loopback`, and differ by port. A port is free again when its process has ended.

**Threads.** `ServerThreads` keeps the variables of `Server` as the memory of the process
and adds where each thread is, what it has looked up (`local`) and who holds `mtx`. A
handler is cut where it goes from one object to another: find, create, append, erase,
delete. What a request asks for is chosen when its handler takes the mutex, since nothing
before depends on it. `lock_guard` lets the mutex go on every return (`Return`, `Refuse`); the heartbeat
visits the topics one by one. The clock goes on whoever holds the mutex (`SecondBegins`), also
between two topics of a pass, and between two readings of one step (`TimePasses`). To those who
do not hold the mutex registry and clock are what they
were when it was taken: the history variables `before` and `since` keep that for the refinement
mapping. A handler that makes its reply, or the heartbeat that unlocks, is the step of
`Server`; all others are stutters.

**Process.** `ServerProcess` has the descriptor table of the process, from which `socket`
and `accept` take the lowest free number, as they do. A failed `accept` is not an action:
the loop tries again at once and nothing has changed. `clientThreads` grows only, and a
thread that is not joined keeps its resources, so `MaxThreads` bounds all connections that
are ever handled, and the constructor of `thread` throws at the next one.

**Wire.** A text is a sequence of characters, a JSON value a record with its type.
Decoding yields a value or an exception with its C++ type, since what is caught differs
between the call sites: `Command::deserialize` throws `runtime_error` itself, jsoncpp a
`Json::LogicError`, `stoi` `invalid_argument`, `substr` `out_of_range`. A map that is asked
for an unknown key yields its default, as `operator[]` does. jsoncpp's `asInt` and `asString`
convert null, truth values, integers and fractions as well (`isInt`, `isScalar`), and `stoi` takes
spaces before a number and anything behind it (`isNumeral`). What jsoncpp takes for JSON is
left to it: comments, repeated members and text behind the document are gone when `Exchange`
gets the value. In `Buffers` a text is reduced
to how many of its characters take one, two and six bytes in JSON. The server makes a string of
as many bytes as it received (`server.cpp:31`); the client reads its buffer up to a zero
(`client.cpp:185`, `255`), so behind a buffer that is full it reads on, for as many bytes as
`Behind` has (`stringLengths`).

**Time.** `Server` has a clock that goes to `MaxTime`; behaviours in which a message is
repeated for ever need `Dissemination`, where the due time of the topic is counted from
now and every second moves it closer. A clock that is set back moves it away.

**Command lines.** Both `main` functions are a loop with one action per branch, in the
order of the `else if`s, so that a setting without its value falls to the command branch
(`isSetting`). The variable `intent` is what the user meant by a line that has the form the
README describes; other lines have none, and are there for what they do to the loop.

## 3. Runs

| Run | Question | Instance | Result |
|---|---|---|---|
| `registry` | Is the heap consistent under every order of requests, and do the objects implement a relation? (`TypeOK`, `MemorySafety`, `UniqueRegistration`, `NoEmptyTopic`, `ImplementsService`) | 3 clients, 2 topics, 2 messages, clock to 1 | holds |
| `delivery` | Is everything sent that is owed, and not too often? (`OwedIsDue`, `PassSettlesAll`, `HeartbeatSpacing`) | 2 clients, 2 topics, 2 messages, timeout 1, clock to 2 | holds |
| `losses` | Does everybody get the current message in the end? (`EveryoneCatchesUp`) | 2 clients, 2 messages, timeout 2, clock set back once by 3 s, fair heartbeat and network | holds |
| `threads` | Is what a thread looked up still alive when it is used, is the mutex held by whoever needs it, and is a handler, or a pass, one step for the others? (`PointersAreLive`, `MutexIsHeldInside`, `ImplementsServer`) | 2 handler threads, 2 clients, 2 topics, 1 message, clock to 1 | holds |
| `process` | Does a descriptor stay its owner's until it is closed, and is every connection closed on every path? (`ProcessTypeOK`, `SocketsAreOwned`, `ConnectionsAreServed`) | 4 connections, 4 descriptors, 3 threads, every call may fail, fair accept loop and handlers | holds |
| `subscribers` | Is every subscription ended, by whomever? (`ClientTypeOK`, `NoExcessSubscriptions`, `LeavesNothing`) | 3 processes, 2 ports, 2 topics, no faults but server stops | holds |
| `clients` | Does every client end? (`ClientEnds`) | 2 processes, every kind of command line, 1 port, 1 topic, all faults, fair client threads | holds |
| `wire` | Do both sides mean the same by a document, and do the buffers suffice? (`ArgumentsArrive`, `NobodyTerminates`, `ListsArrive`, `MessagesArrive`, `WrongFormatIsRefused`; `AcceptedMessagesFit`, `RestrictionSuffices`, `ListsFit`) | lists of up to 3 names of up to 2 characters; an empty text; documents of strangers that are malformed, tolerated, or have a strange port; texts at the boundaries, whole segments | holds |
| `lines` | Does every line of the documented form do what is documented, and does a subscriber stay? (`ClientLinesRun`, `SubscribersStay`, `ServerLinesRun`) | client: up to 2 settings before and 1 after a command, all lines of up to 2 arguments, some of up to 4; server: up to 3 options, all lines of up to 3 arguments | holds |
| `unsubscribe` | `server.h:84`: does a successful unsubscribe remove the caller? (`UnsubscribeRemovesCaller`) | 2 clients, 2 topics | **violated** |
| `crash` | `README.md:200`: does the program never crash? (`NeverCrashes`) | 2 client processes, 2 topics, no faults | **violated** |
| `late_subscribe` | `client.h:42`: does the destructor unsubscribe from all topics? (`LeavesNothing`) | 1 client process, 1 topic, timeouts | **violated** |

**What the violations show.** `topic.cpp:88` declares a loop variable with the name of
the parameter, so the first subscriber is erased whoever asks (`unsubscribe`). The
connection of the client that was really removed is then never deleted, although
`server.h:82` promises that. A client without a `ClientConnection` that unsubscribes from an
existing topic makes the server dereference a null pointer if any topic is left (`crash`). No
strange client is needed for it: in the run one client was started before the server,
records a subscription that never was made, and unsubscribes when a second client has
subscribed to the same topic. In `late_subscribe` a client gives up on the reply to its
subscribe request and ends; the server handles its unsubscribe request before the
subscribe request, whose thread was slower.

**Where documents and code part otherwise.** These were met while modelling. The models
contain them, and the properties are stated so that they say what is true instead.

- A topic has room for one message: a second publish request before the next pass of the
  heartbeat replaces the first, whose subscribers are not informed (`README.md:43`,
  `topic.cpp:63`). `OwedIsDue` and `EveryoneCatchesUp` are about the message that is left.
- Threads are never joined (`server.cpp:135`) and the sockets of datagrams never closed
  (`clientconnection.cpp:30`), so the process does end, or falls silent, after many requests
  or datagrams (`README.md:200`, `44`). `AcceptWithoutThread` of `ServerProcess` is the
  first; `ConnectionsAreServed` makes an exception for the second.
- If `bind` fails because the port is in use, the destructor joins a thread that never ends
  (`server.cpp:175`, `server.h:35`); `SetupFails` leads there.
- Lists in replies are joined with commas and trimmed (`response.cpp:55`), but names may
  have any characters (`README.md:80`). `ListsArrive` says for which names this is harmless,
  and that it is for no others.
- `README.md:174` promises an *internal error* for every request that does not meet the format,
  but several kinds are carried out: a command that is null, a truth value or a fraction
  (`command.cpp:124`), values that are no texts, and an unknown argument, which is taken for
  `topicName` (`command.cpp:135`), further members of the object, which nobody looks at; and an
  unknown command yields a status code that was never set (`server.cpp:66`). `tolerated` names
  these kinds, and `WrongFormatIsRefused` says that all others are refused. The run `wire` has
  documents of each kind (`Lenient`), all of which the code accepts.
- An empty topic or message on the command line of a client is an exception that nobody
  catches (`command.cpp:84`, `client.cpp:225`): `client.exe` terminates, against `README.md:200`.
  `NobodyTerminates` excepts just that, and the run has the empty text.
- A document of exactly 2048 bytes fills the buffer of a client, which then has no zero at its
  end and is read on behind it (`client.cpp:173-185`). 2047 bytes are safe, 2048 are safe only
  for the server; `AcceptedMessagesFit` excepts this one length, and the run has a message
  of it.
- Quotes and characters outside of ASCII are longer in JSON, and TCP may bring a request in
  parts, so 1700 characters (`README.md:80`) may be too many for one `recv` of 2048 bytes
  (`server.cpp:23`). `RestrictionSuffices` is about plain characters that come at once.
- 32 topics (`README.md:42`) do not fit into one reply if their names are long
  (`client.cpp:247`): with names of up to 62 bytes they do (`ListsFit`).
- A topic whose name has a dash as second character cannot be subscribed to
  (`client/main.cpp:98`), and `--subscribe --publish t m` is a subscription to `t` and `m`
  that ends at once, because `client/main.cpp:109` does not look at the command (`README.md:65`).
- The usage example of the server (`server/main.cpp:32`) has an option, `--message-timeout`, that
  does not exist: the line is refused with exit code 1 (`server/main.cpp:89-95`).
  `DocumentedLinesRun` says so of every line that has it and is well-formed otherwise.

**What holds in spite of it.** `MemorySafety` and `ImplementsService` do not depend
on who is removed: a successful unsubscribe ends exactly one subscription of the
named topic, and no dangling pointer remains. That is why `LeavesNothing` holds when
nothing is late: as long as no process names a topic twice, a topic never has more
subscribers than there are processes that will unsubscribe from it
(`NoExcessSubscriptions`), even if the wrong ones are removed, the server restarts, or a
process gets the port of an earlier one. A process that names a topic twice
(`test.py:18`) is outside of this: if another client removed its first subscription, its
second request subscribes it again, and it unsubscribes only once.

**Bounds.** Three clients are needed to have one in front of and one behind the
caller in a list, and two topics for a client that leaves one and keeps another; two messages
and a clock of two seconds tell an old status from a new one (`registry`).
There are as many heap cells as objects that can be live at once (by
`UniqueRegistration`), so allocation never blocks. Clients differ by address; a
port of its own for each would only rename them, as both are always compared
together. For delivery two clients
suffice (no topic compares more than one caller with its list); a timeout of 1
and a clock up to 2 let a pass come too early, on time and late, and last a second, or two.
`MaxTime` bounds the clock; all other variables are bounded by the constants. Model values are
interchangeable, so runs of safety properties use symmetry where the state space asks
for it (`registry`, `delivery`, `threads`, `subscribers`, `unsubscribe`, `crash`); runs of
liveness do not.

For `System`, three processes on two ports give two that overlap and a third that gets a
port used before, in every order; both orders of two topics are among the command lines,
so that each process can be first in one list and last in another. `ClientEnds` is about
one process at a time; a second one, which can only start when the first has ended
or been killed, meets requests that the first has left behind. One of its command lines
names a topic twice. Two connection objects suffice for two ports.

`ServerThreads` has two handler threads, which are used again when they are done, so that
any number of requests is handled and two at a time next to the heartbeat; with the mutex a
third could only wait. With two topics a client may hold one and leave the other, and a
message and a clock of two seconds give the heartbeat something to send. The mutants of this
run, in which a lock is not respected, are found with these bounds. Four connections and four
descriptors, one of which the server listens on, let a descriptor be closed, used again by
somebody else and closed once more, with datagrams in between; three threads let the limit be
reached (`process`). Two messages make an old datagram that
arrives late look like a step back (`losses`), and a timeout of two seconds a pass that
comes too early. The texts whose length is in question (`Sizes`, `ManyTopics` in `MCWire`) are
those whose documents have 2048 bytes, one more and one less; `Behind` has a zero right behind a
full buffer, and one a byte later. The names in lists are all those
of up to two characters among a letter, a comma and a space. The
two numbers of `Digit` stand for ports and timestamps, `OutOfRange` for a number that no `int`
can hold, and `Unset` for what a member that was never set may hold. `MaxSegment` is the loopback interface's; with a smaller one, what holds
of whole documents does not.

**Fairness.** `ConnectionsAreServed` assumes weak fairness of the accept loop and of each
handler thread, and nothing of datagrams; `recv` of
the server has no timeout, but `client.exe` sends its request right after `connect`, or is
gone. `EveryoneCatchesUp` assumes weak fairness of the heartbeat and of the clock, which is
set back only so often, and strong fairness of the receipt of each message: a network that
loses every repetition defeats any program. It is the only assumption about UDP.
`ClientEnds` assumes weak fairness of the two threads of each client, and
nothing of the server: `connect` returns, `recv` has a timeout of 30 seconds
(`client.cpp:219`) and `recvfrom` one of 5 (`client.cpp:60`). The user need not press ENTER,
so a client may stay in `enter` for ever. The heartbeat loops over lock, pass, unlock and
`sleep(1)` as long as the process runs, and every handler releases the mutex when it returns
(`MutexIsHeldInside`), which is what its fairness rests on. No fairness is assumed of requests,
of `Start` or of `Stop`.

## 4. Proofs

All theorems hold for any sets of clients, names, messages, heap cells, threads,
connections, descriptors, processes, command lines, texts and documents, and any timeout. What
they assume are the `ASSUME`s of the modules, which say no more than what the constants are (the
null pointer is no heap cell, the empty message is no message, times are integers, there are
finitely many processes, a command line is a sequence of requests of the kinds that
`client/main.cpp:97-121` can make), and the hypotheses that are named below. Four are worth
a look: `DecimalAssumption`, that different numbers are written differently, stands in for
`std::to_string`, of which the prover knows nothing; `ExchangeAssumption` says what a JSON
document is, and that the registry holds no empty name; `IntentsAssumption` and
`ServerIntentsAssumption` say which lines have the form of `README.md:65-78`, and of `85-91` with
the option of the usage example (`isIntent`). TLC evaluates all of them on the instances of the runs.

| Theorem | States | Invariant it follows from |
|---|---|---|
| `ServerProofs!TypeCorrect`, `MemorySafe`, `RegistrationUnique`, `TopicsSubscribed` | `Spec => []TypeOK`, `[]MemorySafety`, `[]UniqueRegistration`, `[]NoEmptyTopic` | `IInv` |
| `ServerProofs!ServerImplementsService` | `Spec => ImplementsService` | `IInv`, through `Readable` |
| `ServerDeliveryProofs!OwedStaysDue`, `PassesSettle`, `HeartbeatsSpaced` | `DeliverySpec => []OwedIsDue`, `PassSettlesAll`, `HeartbeatSpacing` | `DInv` |
| `ServerThreadsProofs!PointersStayLive`, `MutexExcludes` | `ThreadsSpec => []PointersAreLive`, `[]MutexIsHeldInside` | `MInv` |
| `ServerThreadsProofs!ThreadsImplementServer` | `ThreadsSpec => ImplementsServer` | `RInv` |
| `ServerProcessProofs!ProcessTypeCorrect`, `DescriptorsOwned` | `ProcessSpec => []ProcessTypeOK`, `[]SocketsAreOwned` | `PInv` |
| `SystemProofs!ClientTypeCorrect` | `SystemSpec => []ClientTypeOK` | `CInv` |
| `SystemProofs!SystemRunsServer` | `SystemSpec => Spec` | `CInv` |
| `SystemProofs!SubscriptionsAreHeld`, `NothingIsLeft` | `SystemSpec => []NoExcessSubscriptions`, `[]LeavesNothing`, if `Faults = {}` and `NamesOnce` | `SInv` |
| `WireProofs!MessagesFit` | `BuffersSpec => []AcceptedMessagesFit` | `BInv` |
| `WireProofs!RestrictionHolds` | `BuffersSpec => []RestrictionSuffices`, if `MaxSegment >= 1755` | `BInv` |
| `WireProofs!ListsAreRead` | `BuffersSpec => []ListsFit`, if `MaxSegment >= 2045` | itself |
| `WireProofs!RequestsArrive`, `ListsAreShown`, `MessagesAreRead` | `ExchangeSpec => []ArgumentsArrive`, `[]ListsArrive`, `[]MessagesArrive` | `ExchangeInv` |
| `WireProofs!NoExceptionLeaves` | `ExchangeSpec => []NobodyTerminates` | `ExchangeInv` |
| `WireProofs!WrongFormatRefused` | `ExchangeSpec => []WrongFormatIsRefused` | `ExchangeInv` |
| `CommandLineProofs!SubscribersWait` | `LinesSpec => SubscribersStay` | `LoopInv` |
| `CommandLineProofs!ServersDoWhatIsAsked` | `LinesSpec => []ServerLinesRun` | `ServerInv` |
| `CommandLineProofs!ClientsDoWhatIsAsked` | `LinesSpec => []ClientLinesRun` | `ClientInv`, with `LoopInv` |

**Registry (`IInv`).** None of the four invariants is inductive alone. That
a connection can be deleted safely needs equal connections to be the same pointer
(the check before the `delete` is by address and port); that a list has no client
twice needs the same; that an unsubscribe is never answered *failed* needs lists not
to be empty; and the type of a datagram needs listed pointers to be live. Their
conjunction is inductive: `IInv` restates it with the variables of the registry
(`ValidRegistry`) apart from the others (`ValidRest`), so that a handler that only
reads is a single lemma (`ReadStep`). There is one lemma per action that writes.

**Refinement of the service.** `IInv` makes the heap readable as a relation (`Readable`): a
name stands for one topic, a client for one connection, and a topic exists as long as
somebody subscribes to it. A handler touches at most the topic it names (`OnlyTopic`), so it
changes the pairs of that topic only. There is one lemma per action.

**Delivery (`DInv`).** What is owed stays due because every step but a publish request and a
pass leaves the message and the due time of a topic alone (`TopicKept`), and a topic that is
created has a name that no other has, so it cannot pass for one that something is
owed for. `PassSettlesAll` and `HeartbeatSpacing` are action properties; the second needs that
a topic is not due within `topicTimeout` of what was last sent for its name (`SentIsSpaced`).

**Threads (`MInv`, `RInv`).** In the middle of a handler the list of a topic may be
empty, so `IInv` does not hold between steps; `ValidHeap` is what remains of it. A thread is inside
exactly if it holds the mutex, and has pointers only inside (`HandlerInv`). So a
step of one thread cannot invalidate the pointers of another, for no other has any
(`HandlerFrame`). For the refinement `RInv` says for each place inside how the memory differs
from what it was when the mutex was taken (`Progress`, `PassProgress`). The last step of
each handler is then one step of `Server`, and the ones before are stutters. For the clock `RInv`
says that it is not before `since`, and of a pass that each topic was checked and published at
times between the two, one after the other: these are the readings of the one step.

**Process (`PInv`).** What a descriptor stands for tells whose it is, in both directions:
the thread of a connection has a descriptor that stands for it, and there is no other
descriptor that does. The second half excludes that a path forgets to close, and makes the
first inductive, together with a connection waiting in the queue at most once.

**Clients (`CInv`, `SInv`).** The number of a request is bounded in `ClientTypeOK`, so the
loop of the destructor has to be shown to end: `WithinLine` counts what is left of the command
line, the topics recorded and the requests made, and `eraseHeadShortens` makes each turn of
the loop take at least one topic away. This holds with all faults. The same types are what
the server expects of its callers, so the server among its clients takes steps of `Server` only
(`SystemRunsServer`), and `IInv` holds there as well.

That every subscription is ended is proved under the two conditions under which it is
checked: no faults (`late_subscribe` shows what a timeout does), and no command line that
subscribes to a name twice (`NamesOnce`; see section 3). As the wrong client may be
removed, subscribers and clients can only be counted. The clients that `NoExcessSubscriptions`
counts are too many to count on: one that waits for a reply has recorded the topic, or is about
to, before the server has subscribed it and after the server has unsubscribed it. `Balanced` counts those
whose subscribe request was handled and whose unsubscribe request was not (`Active`). A
subscribe request adds one on either side, an unsubscribe request takes one from
both, a server that stops takes all subscriptions. `Fresh` says that a client subscribes to
what it does not have yet, `Awaited` that its only connection is the one it waits on.

**Buffers.** A message that the server holds was read through the buffer of the server, which is
no larger than that of the client (`HeldFits`); the string is as long as the document if the
buffer is not full, whatever is behind it. The hypotheses on `MaxSegment` are those of the
properties: a single `recv` yields no more than a segment. A list of names is a sum, bounded
by induction on its length (`SumBounded`).

**Exchange (`ExchangeInv`).** Most of the proof is about encoders and decoders, one pair
after the other, without a state: what `setCommandArgument` makes of the members of a
`serialize`d command one by one, what `getline` finds in a joined list character by character, and what
`trim` leaves of a name. That a list is shown as it was held is an equivalence: what is shown
never has a comma (`TokensHaveNoComma`) nor a space at an end (`TrimResult`), and a list of
such names is read back name by name (`WrittenListIsRead`). `ExchangeInv` then says of
each phase which document is under way and whose it is. None of the theorems has a hypothesis:
the two exceptions that section 3 names, the empty text and the documents that are `tolerated`,
are part of the properties, and `isJson` admits every JSON value.

**Command lines (`LoopInv`, `ServerInv`, `ClientInv`).** A line of the documented form is a
sequence of groups, an option with its value or a command with its arguments, written one
behind the other. `ends` says where each group is in the line (`GroupsHavePlaces`). The
invariants say that a loop is always at the first argument of some group, and that its
variables are what the groups before it ask for (`Settled`, `Says`, `CommandIsRead`); each
turn then reads exactly one group. For the commands that take any number of topics this
needs the group behind them to begin with a dash, or the line to end
(`FollowingIsTheRest`). At the end of the line the requests are those of the one group
that is a command (`LineAsksForCommand`). `SubscribersStay` is about every line: `LoopInv` says
what the flag owes to the commands that were accepted. The range of ports is
a definition (`MaxPort`), because the prover would write the interval out.

**Recursion.** Five definitions are recursive functions and proved about: what `std::remove`
leaves (`keptElements`, `keptLength`, `eraseRemoveElements`), the sum of lengths, what `getline`
has found after each character (`partsRead`), what `setCommandArgument` has made after each
member (`argumentsSet`), and the concatenation of a list of sequences (`FlattenSeq` of the
community modules).
Since the induction theorems of the
library cannot be instantiated here, induction is done on sets: `NatSetInduction` says
that a set with 0 and all successors contains `Nat`, and follows from `<` being well
founded; `SeqSetInduction` says the same of sequences and appending. `RecursionSolved` and
`RecursionTyped` give a function that is defined by recursion its defining equation and
its type, once for all; `keptUnfolds`, `totalUnfolds`, `FlattenUnfolds` and `ArgumentsSetUnfolds` are
these equations.

**Only model-checked.** Every invariant, step property and refinement that a passing run checks
is a theorem. What stays with TLC is liveness, which the prover cannot do: `EveryoneCatchesUp`,
`ConnectionsAreServed` and `ClientEnds`. For the first two, what safety contributes is proved: that
a pass sends everything that is owed (`PassesSettle`), and that no descriptor is lost on any path
(`DescriptorsOwned`). The three properties that are violated are counterexamples and
have no theorem; `LeavesNothing` is proved where it holds.

## 5. Not modelled

Left out, and why:

- jsoncpp and spdlog (`src/include`) are vendored: more than 34 000 of the 37 000 lines under
  `src/`, against some 2 500 of the program. What the program uses of jsoncpp is an external
  part of `Protocol` and `Buffers`. The share of all lines that the map covers is therefore
  small, however much of the program is modelled.
- The user test script (`src/test`) starts one server and some clients and compares their
  output; it keeps no state. Its command lines are among those of `System` and
  `ClientCommandLine`.
- The wording and layout of the log, and the doxygen pages.
- Two requests with unknown argument names at the same time: `command.cpp:135` then inserts
  into a map that the threads share, outside the mutex. What follows is undefined.
- Datagrams that somebody else than the server sends to a client, ports outside of 16 bits
  (`client.exe` sends the port it is bound to), and failing allocations.
- The assignments of empty vectors after the heartbeat thread was started
  (`server.cpp:166-168`): they write what is already there.
