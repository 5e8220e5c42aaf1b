--------------------------- MODULE ServerProcess ---------------------------
(***************************************************************************)
(* The server as a process (server.cpp:19-177, main.cpp:104): it creates   *)
(* its listening socket, accepts connections and gives each a thread, all  *)
(* within limits that the operating system sets on open descriptors and on *)
(* threads. What the requests do to the registry is left to Server.        *)
(*                                                                         *)
(* descriptors is the table of the process: a function from the open file  *)
(* descriptors to what they stand for. A number is used again once it was  *)
(* closed, so a thread that closes one too often closes somebody else's.   *)
(***************************************************************************)
EXTENDS Integers, Sequences, Functions, FiniteSets

CONSTANTS
  Conn,          \* TCP connections that clients may make
  NoSocket,
  MaxDescriptor, \* descriptors are 0..MaxDescriptor (RLIMIT_NOFILE)
  MaxThreads,    \* threads that the process can create and not join
  backlog,       \* connections that wait for accept, 5 in the code
  HasMessage,    \* there is a topic with a message and a subscriber
  SetupFaults    \* the calls that may fail while the server starts

ASSUME ProcessAssumption ==
  /\ NoSocket \notin Nat
  /\ MaxDescriptor \in Nat
  /\ MaxThreads \in Nat
  /\ backlog \in Nat
  /\ HasMessage \in BOOLEAN
  /\ SetupFaults \subseteq {"socket", "bind", "listen"}

VARIABLES
  mainThread,     \* where main is, in the constructor or the destructor
  descriptors,
  serverSocket,   \* local variables of startServer
  pending,        \* connections that wait for accept, first come first
  clientThreads,  \* size of the vector clientThreads
  stage,          \* where the thread of each connection is
  clientSocket    \* the argument of each thread

handlerVars == <<stage, clientSocket>>
processVars == <<mainThread, descriptors, serverSocket, pending, clientThreads,
                 handlerVars>>

Descriptor == 0..MaxDescriptor

Listening == [kind |-> "listening"]
Datagram == [kind |-> "datagram"]
Connected(c) == [kind |-> "connected", conn |-> c]

closed == Descriptor \ DOMAIN descriptors

\* A plausible bug of the next one: the result -1 goes unnoticed.
freeDescriptorsUnchecked == IF closed = {} THEN {-1} ELSE closed

\* What socket and accept may return: the lowest number, unless they fail.
freeDescriptors == {d \in closed : \A e \in closed : d <= e}

\* Descriptor d now stands for thing.
opens(d, thing) ==
  descriptors' = [e \in DOMAIN descriptors \cup {d} |->
                    IF e = d THEN thing ELSE descriptors[e]]

\* Closing a descriptor that is not open does nothing.
closes(d) == descriptors' = Restrict(descriptors, DOMAIN descriptors \ {d})

active(c) == stage[c] \in {"recv", "handle", "send", "close"}

Initially ==
  /\ mainThread = "none"
  /\ descriptors = [d \in {} |-> Listening]
  /\ serverSocket = NoSocket
  /\ pending = <<>>
  /\ clientThreads = 0
  /\ stage = [c \in Conn |-> "new"]
  /\ clientSocket = [c \in Conn |-> NoSocket]

-----------------------------------------------------------------------------
(* The main thread: constructor, accept loop, destructor.                  *)

\* The constructor starts the heartbeat thread and calls startServer.
Launch ==
  /\ mainThread \in {"none", "terminated"}
  /\ mainThread' = "socket"
  /\ UNCHANGED <<descriptors, serverSocket, pending, clientThreads, handlerVars>>

\* startServer returns, so does the constructor, and main ends: the
\* destructor waits for the heartbeat thread, whose loop has no exit.
SetupFails(call) ==
  /\ mainThread = call
  /\ call \in SetupFaults
  /\ mainThread' = "join"
  /\ UNCHANGED <<descriptors, serverSocket, pending, clientThreads, handlerVars>>

CreateSocket ==
  /\ mainThread = "socket"
  /\ mainThread' = "bind"
  /\ \E d \in freeDescriptors : opens(d, Listening) /\ serverSocket' = d
  /\ UNCHANGED <<pending, clientThreads, handlerVars>>

Bind ==
  /\ mainThread = "bind"
  /\ mainThread' = "listen"
  /\ UNCHANGED <<descriptors, serverSocket, pending, clientThreads, handlerVars>>

Listen ==
  /\ mainThread = "listen"
  /\ mainThread' = "accept"
  /\ UNCHANGED <<descriptors, serverSocket, pending, clientThreads, handlerVars>>

(* While no descriptor is free accept fails, and the loop tries again.     *)
(* Threads are moved into clientThreads and never joined, so they count    *)
(* against the limit when they have ended, too.                            *)
Accept ==
  /\ mainThread = "accept"
  /\ pending # <<>>
  /\ clientThreads < MaxThreads
  /\ LET c == Head(pending)
     IN  \E d \in freeDescriptors :
           /\ opens(d, Connected(c))
           /\ stage' = [stage EXCEPT ![c] = "recv"]
           /\ clientSocket' = [clientSocket EXCEPT ![c] = d]
  /\ pending' = Tail(pending)
  /\ clientThreads' = clientThreads + 1
  /\ UNCHANGED <<mainThread, serverSocket>>

\* The process is gone, and all that was its own.
gone(how) ==
  /\ mainThread' = how
  /\ descriptors' = [d \in {} |-> Listening]
  /\ serverSocket' = NoSocket
  /\ pending' = <<>>
  /\ clientThreads' = 0
  /\ stage' = [c \in Conn |-> "new"]
  /\ clientSocket' = [c \in Conn |-> NoSocket]

\* The constructor of thread throws system_error, and nobody catches it.
AcceptWithoutThread ==
  /\ mainThread = "accept"
  /\ pending # <<>>
  /\ freeDescriptors # {}
  /\ clientThreads = MaxThreads
  /\ gone("terminated")

Signal == mainThread \notin {"none", "terminated"} /\ gone("none")

-----------------------------------------------------------------------------
(* handleApproachingClient. Peers send a request and wait, or go away.     *)

\* A client connects; further ones have to wait when the queue is full.
Connect(c) ==
  /\ mainThread = "accept"
  /\ stage[c] = "new"
  /\ Len(pending) < backlog
  /\ stage' = [stage EXCEPT ![c] = "pending"]
  /\ pending' = Append(pending, c)
  /\ UNCHANGED <<mainThread, descriptors, serverSocket, clientThreads,
                 clientSocket>>

advance(c, from, to) ==
  /\ stage[c] = from
  /\ stage' = [stage EXCEPT ![c] = to]
  /\ UNCHANGED <<mainThread, serverSocket, pending, clientThreads, clientSocket>>

\* Plausible bugs of the next two: the return after close is missing, so
\* close is called once more; the descriptor is not closed.
afterFailureGoesOn == "close"
closesOnFailureNot(c) == UNCHANGED descriptors

\* Where the thread is after an error.
afterFailure == "done"

closesOnFailure(c) == closes(clientSocket[c])

Receive(c) == advance(c, "recv", "handle") /\ UNCHANGED descriptors

ReceiveFails(c) == advance(c, "recv", afterFailure) /\ closesOnFailure(c)

\* Decoding, one of the handlers, and encoding of its response.
Handle(c) == advance(c, "handle", "send") /\ UNCHANGED descriptors

Send(c) == advance(c, "send", "close") /\ UNCHANGED descriptors

SendFails(c) == advance(c, "send", afterFailure) /\ closesOnFailure(c)

Close(c) == advance(c, "close", "done") /\ closes(clientSocket[c])

Handler(c) ==
  Receive(c) \/ ReceiveFails(c) \/ Handle(c) \/ Send(c) \/ SendFails(c) \/ Close(c)

-----------------------------------------------------------------------------
(* The heartbeat thread, as far as it needs descriptors.                   *)

\* SendMessage opens a socket, and does not close it. Without a free
\* descriptor it returns and nothing is sent.
SendMessage ==
  /\ HasMessage
  /\ mainThread = "accept"
  /\ \E d \in freeDescriptors : opens(d, Datagram)
  /\ UNCHANGED <<mainThread, serverSocket, pending, clientThreads, handlerVars>>

-----------------------------------------------------------------------------
Setup == CreateSocket \/ Bind \/ Listen \/ \E call \in SetupFaults : SetupFails(call)

ProcessNext ==
  \/ Launch \/ Setup \/ Accept \/ AcceptWithoutThread \/ Signal \/ SendMessage
  \/ \E c \in Conn : Connect(c) \/ Handler(c)

ProcessSpec == Initially /\ [][ProcessNext]_processVars

(* The accept loop and the handler threads go on whenever they can.        *)
(* recv has no timeout, but client.exe sends its request at once           *)
(* (client.cpp:230-235), or is gone, and recv returns in both cases.       *)
(* Whether any datagrams are sent is left open.                            *)
FairProcessSpec ==
  /\ ProcessSpec
  /\ WF_processVars(Accept \/ AcceptWithoutThread)
  /\ \A c \in Conn : WF_processVars(Handler(c))

-----------------------------------------------------------------------------
(* Properties.                                                             *)

\* The types of the variables.
ProcessTypeOK ==
  /\ mainThread \in {"none", "socket", "bind", "listen", "accept", "join",
                     "terminated"}
  /\ DOMAIN descriptors \subseteq Descriptor
  /\ \A d \in DOMAIN descriptors :
       \/ descriptors[d] \in {Listening, Datagram}
       \/ \E c \in Conn : descriptors[d] = Connected(c)
  /\ serverSocket \in Descriptor \cup {NoSocket}
  /\ pending \in Seq(Conn)
  /\ clientThreads \in 0..MaxThreads
  /\ stage \in [Conn -> {"new", "pending", "recv", "handle", "send", "close", "done"}]
  /\ clientSocket \in [Conn -> Descriptor \cup {NoSocket}]

(* Until a thread closes its connection, its descriptor stands for that    *)
(* connection and for no other: nobody closes it under the thread's feet,  *)
(* and no reply goes to somebody else. And no path forgets it: what stands *)
(* for a connection is in the hands of the thread that will close it       *)
(* (server.cpp:23-91, where each path closes once, and descriptors are     *)
(* reused by accept and by SendMessage).                                   *)
SocketsAreOwned ==
  /\ \A c \in Conn :
       active(c) => /\ clientSocket[c] \in DOMAIN descriptors
                    /\ descriptors[clientSocket[c]] = Connected(c)
  /\ \A c \in Conn, d \in DOMAIN descriptors :
       descriptors[d] = Connected(c) => active(c) /\ clientSocket[c] = d
  /\ mainThread = "accept" => /\ serverSocket \in DOMAIN descriptors
                              /\ descriptors[serverSocket] = Listening

(* A connection that waits is accepted and its thread comes to an end, for *)
(* every path of handleApproachingClient closes its descriptor: whatever   *)
(* fails, only the sockets of datagrams, which nobody closes, can take the *)
(* room of connections (server.cpp:27, 86 and 91).                         *)
ConnectionsAreServed ==
  \A c \in Conn :
    stage[c] = "pending" ~>
      \/ stage[c] \in {"done", "new"}
      \/ \A d \in Descriptor \ {serverSocket} :
           d \in DOMAIN descriptors /\ descriptors[d] = Datagram

=============================================================================
