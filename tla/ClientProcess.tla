--------------------------- MODULE ClientProcess ---------------------------
(***************************************************************************)
(* The processes of client.exe (src/client): main executes the commands    *)
(* given on its command line, one request after the other, waits for the   *)
(* ENTER key if it has subscribed to anything, and deletes the Client,     *)
(* whose destructor unsubscribes from every topic and ends the message     *)
(* thread. Whatever becomes of a request, sendMessage returns, and its     *)
(* caller goes on in the same way.                                         *)
(*                                                                         *)
(* connections are the TCP connections on which a request was sent. A      *)
(* client never closes one, so a request survives a client that has given  *)
(* up on it; the server makes a connection "answered" when it replies.     *)
(***************************************************************************)
EXTENDS Vector, FiniteSets

CONSTANTS
  Proc,        \* processes
  CommandLine, \* what a process can be told: sequences of requests
  HostPort,    \* the ports of the host, to receive messages on
  NoPort,
  Faults       \* what may go wrong outside the processes

Commands == {"subscribe", "unsubscribe", "publish", "listTopics", "getTopicStatus"}

\* client.exe has a command for every kind of request but unsubscribe.
ASSUME ClientAssumption ==
  /\ IsFiniteSet(Proc)
  /\ NoPort \notin HostPort
  /\ Faults \subseteq {"timeout", "connect", "kill"}
  /\ CommandLine # {}
  /\ \A line \in CommandLine :
       /\ line \in Seq(Range(line))
       /\ \A r \in Range(line) : r.command \in Commands \ {"unsubscribe"}

VARIABLES
  pc,                    \* where the main thread is
  hasSubscribeCommand,   \* started with --subscribe
  todo,                  \* requests of the command line not yet made
  subscribedTopics,      \* the vector of the Client
  port,                  \* the port that messageSocket is bound to
  serial,                \* how many connections the process has opened
  messageThreadRunning,  \* the flag that the main thread clears
  messageThread,         \* where the message thread is
  connections

mainVars == <<pc, hasSubscribeCommand, todo, subscribedTopics, port, serial,
              connections>>
clientVars == <<mainVars, messageThreadRunning, messageThread>>

ClientInit ==
  /\ pc = [p \in Proc |-> "new"]
  /\ hasSubscribeCommand = [p \in Proc |-> FALSE]
  /\ todo = [p \in Proc |-> <<>>]
  /\ subscribedTopics = [p \in Proc |-> <<>>]
  /\ port = [p \in Proc |-> NoPort]
  /\ serial = [p \in Proc |-> 0]
  /\ messageThreadRunning = [p \in Proc |-> FALSE]
  /\ messageThread = [p \in Proc |-> "none"]
  /\ connections = {}

goto(p, place) == pc' = [pc EXCEPT ![p] = place]

\* main reads the command line and constructs the Client, which binds a
\* port that no other process has, and starts the message thread.
Launch(p) ==
  /\ pc[p] = "new"
  /\ goto(p, "command")
  /\ \E requests \in CommandLine :
       /\ todo' = [todo EXCEPT ![p] = requests]
       /\ hasSubscribeCommand' = [hasSubscribeCommand EXCEPT ![p] =
            \E i \in DOMAIN requests : requests[i].command = "subscribe"]
  /\ \E q \in HostPort \ Range(port) : port' = [port EXCEPT ![p] = q]
  /\ messageThreadRunning' = [messageThreadRunning EXCEPT ![p] = TRUE]
  /\ messageThread' = [messageThread EXCEPT ![p] = "receiving"]
  /\ UNCHANGED <<subscribedTopics, serial, connections>>

\* bind fails on a port that is in use; main catches the exception.
LaunchFails(p) ==
  /\ pc[p] = "new"
  /\ Range(port) \cap HostPort # {}
  /\ goto(p, "exited")
  /\ UNCHANGED <<hasSubscribeCommand, todo, subscribedTopics, port, serial,
                 connections, messageThreadRunning, messageThread>>

-----------------------------------------------------------------------------
(* sendMessage.                                                            *)

\* A plausible bug of the next one: the destructor stops before the last topic.
allUnsubscribedSoon(p) == Len(subscribedTopics[p]) <= 1

\* The loop condition of the destructor.
allUnsubscribed(p) == subscribedTopics[p] = <<>>

AboutToSend(p) ==
  \/ pc[p] = "command" /\ todo[p] # <<>>
  \/ pc[p] = "destructor" /\ ~ allUnsubscribed(p)

\* The request of a command line, or the next one of the destructor.
request(p) ==
  IF pc[p] \in {"command", "commandReply"} THEN Head(todo[p])
  ELSE [command |-> "unsubscribe", topicName |-> Head(subscribedTopics[p])]

\* Plausible bugs of the next one: the topic stays in the list; all go.
afterUnsubscribeKeeps(list) == list
afterUnsubscribeAll(list) == <<>>

\* What Client::unsubscribe makes of its list, whatever the server says.
afterUnsubscribe(list) == eraseRemove(list, Head(list))

\* What the callers of sendMessage do when it returns.
Returned(p) ==
  IF pc[p] \in {"command", "commandReply"}
  THEN /\ goto(p, "command")
       /\ todo' = [todo EXCEPT ![p] = Tail(@)]
       /\ subscribedTopics' =
            IF request(p).command = "subscribe"
            THEN [subscribedTopics EXCEPT ![p] = Append(@, request(p).topicName)]
            ELSE subscribedTopics
  ELSE /\ goto(p, "destructor")
       /\ subscribedTopics' = [subscribedTopics EXCEPT ![p] = afterUnsubscribe(@)]
       /\ UNCHANGED todo

Connect(p, listening) ==
  /\ AboutToSend(p)
  /\ listening
  /\ goto(p, IF pc[p] = "command" THEN "commandReply" ELSE "destructorReply")
  /\ serial' = [serial EXCEPT ![p] = @ + 1]
  /\ connections' = connections \cup
       {[proc |-> p, serial |-> serial'[p], port |-> port[p],
         request |-> request(p), stage |-> "sent"]}
  /\ UNCHANGED <<hasSubscribeCommand, todo, subscribedTopics, port>>

ConnectFails(p, listening) ==
  /\ AboutToSend(p)
  /\ ~ listening \/ "connect" \in Faults
  /\ Returned(p)
  /\ UNCHANGED <<hasSubscribeCommand, port, serial, connections>>

WaitsFor(p, c) ==
  /\ pc[p] \in {"commandReply", "destructorReply"}
  /\ c.proc = p
  /\ c.serial = serial[p]

ReceiveReply(p) ==
  \E c \in connections :
    /\ WaitsFor(p, c)
    /\ c.stage = "answered"
    /\ Returned(p)
    /\ connections' = connections \ {c}
    /\ UNCHANGED <<hasSubscribeCommand, port, serial>>

\* 30 seconds without a reply, or the server has closed the connection.
ReceiveFails(p) ==
  /\ pc[p] \in {"commandReply", "destructorReply"}
  /\ \A c \in connections :
       WaitsFor(p, c) => c.stage = "sent" /\ "timeout" \in Faults
  /\ Returned(p)
  /\ UNCHANGED <<hasSubscribeCommand, port, serial, connections>>

-----------------------------------------------------------------------------
\* The client stays alive only if it was started with --subscribe.
CommandsDone(p) ==
  /\ pc[p] = "command"
  /\ todo[p] = <<>>
  /\ goto(p, IF hasSubscribeCommand[p] THEN "enter" ELSE "destructor")
  /\ UNCHANGED <<hasSubscribeCommand, todo, subscribedTopics, port, serial,
                 connections>>

PressEnter(p) ==
  /\ pc[p] = "enter"
  /\ goto(p, "destructor")
  /\ UNCHANGED <<hasSubscribeCommand, todo, subscribedTopics, port, serial,
                 connections, messageThreadRunning, messageThread>>

\* The end of the loop of the destructor.
ClearFlag(p) ==
  /\ pc[p] = "destructor"
  /\ allUnsubscribed(p)
  /\ goto(p, "join")
  /\ messageThreadRunning' = [messageThreadRunning EXCEPT ![p] = FALSE]
  /\ UNCHANGED <<hasSubscribeCommand, todo, subscribedTopics, port, serial,
                 connections, messageThread>>

\* The process ends; its message thread and its memory are gone.
end(p, how) ==
  /\ goto(p, how)
  /\ port' = [port EXCEPT ![p] = NoPort]
  /\ hasSubscribeCommand' = [hasSubscribeCommand EXCEPT ![p] = FALSE]
  /\ todo' = [todo EXCEPT ![p] = <<>>]
  /\ subscribedTopics' = [subscribedTopics EXCEPT ![p] = <<>>]
  /\ messageThreadRunning' = [messageThreadRunning EXCEPT ![p] = FALSE]
  /\ messageThread' = [messageThread EXCEPT ![p] = "none"]

Join(p) ==
  /\ pc[p] = "join"
  /\ messageThread[p] = "terminated"
  /\ end(p, "exited")
  /\ UNCHANGED <<serial, connections>>

\* No signal is handled: Ctrl-C ends the process where it is. Replies to it
\* are lost, requests of it are not.
Kill(p) ==
  /\ "kill" \in Faults
  /\ pc[p] \notin {"new", "exited", "killed"}
  /\ end(p, "killed")
  /\ connections' =
       {c \in connections : ~ (c.proc = p /\ c.stage = "answered")}
  /\ UNCHANGED serial

Main(p, listening) ==
  \/ /\ \/ Connect(p, listening)
        \/ ConnectFails(p, listening)
        \/ ReceiveReply(p)
        \/ ReceiveFails(p)
        \/ CommandsDone(p)
     /\ UNCHANGED <<messageThreadRunning, messageThread>>
  \/ ClearFlag(p)
  \/ Join(p)

\* recvfrom returns within 5 seconds, with a message or without; then the
\* loop of handleMessages looks at the flag.
handleMessages(p) ==
  /\ messageThread[p] = "receiving"
  /\ ~ messageThreadRunning[p]
  /\ messageThread' = [messageThread EXCEPT ![p] = "terminated"]
  /\ UNCHANGED <<mainVars, messageThreadRunning>>

ClientNext(p, listening) ==
  \/ Launch(p) \/ LaunchFails(p) \/ Main(p, listening)
  \/ PressEnter(p) \/ handleMessages(p) \/ Kill(p)

-----------------------------------------------------------------------------
(* Types; and a process opens at most two connections for each request of  *)
(* its command line, one to make it and one to undo it: the loop of the    *)
(* destructor (client.cpp:86) must get shorter whatever the server says.   *)
ClientTypeOK ==
  /\ pc \in [Proc -> {"new", "command", "commandReply", "enter", "destructor",
                     "destructorReply", "join", "exited", "killed"}]
  /\ port \in [Proc -> HostPort \cup {NoPort}]
  /\ messageThreadRunning \in [Proc -> BOOLEAN]
  /\ messageThread \in [Proc -> {"none", "receiving", "terminated"}]
  /\ hasSubscribeCommand \in [Proc -> BOOLEAN]
  /\ \A p \in Proc : \E requests \in CommandLine :
       /\ serial[p] \in 0..2 * Len(requests)
       /\ Len(todo[p]) + Len(subscribedTopics[p]) <= Len(requests)
  /\ \A c \in connections : /\ c.proc \in Proc
                            /\ c.serial \in 1..serial[c.proc]
                            /\ c.request.command \in Commands
                            /\ c.stage \in {"sent", "answered"}
=============================================================================
