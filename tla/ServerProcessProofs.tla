------------------------ MODULE ServerProcessProofs ------------------------
(***************************************************************************)
(* Proofs about ServerProcess, for any number of connections, descriptors  *)
(* and threads. Two facts carry them: what a descriptor stands for tells   *)
(* whose it is (Connected is injective and neither of the other kinds), so *)
(* a thread that closes its own closes nobody else's; and a connection     *)
(* waits in the queue once, so accept gives it one thread.                 *)
(***************************************************************************)
EXTENDS ServerProcess, TLAPS

Stages == {"new", "pending", "recv", "handle", "send", "close", "done"}

QueueInv ==
  /\ \A i \in DOMAIN pending : stage[pending[i]] = "pending"
  /\ IsInjective(pending)

\* startServer has its socket from the call of bind on.
SetupInv ==
  mainThread \in {"bind", "listen", "accept"} =>
    /\ serverSocket \in DOMAIN descriptors
    /\ descriptors[serverSocket] = Listening

PInv ==
  /\ ProcessTypeOK
  /\ descriptors = [d \in DOMAIN descriptors |-> descriptors[d]]
  /\ SocketsAreOwned
  /\ SetupInv
  /\ QueueInv

-----------------------------------------------------------------------------
(* Descriptors.                                                            *)

LEMMA Kinds ==
  /\ \A c, d : Connected(c) = Connected(d) => c = d
  /\ \A c : Connected(c) # Listening /\ Connected(c) # Datagram
  /\ Listening # Datagram
<1>1. /\ \A c : Connected(c).kind = "connected" /\ Connected(c).conn = c
      /\ Listening.kind = "listening" /\ Datagram.kind = "datagram"
  BY DEF Connected, Listening, Datagram
<1> QED
  BY <1>1

LEMMA Opened ==
  ASSUME PInv, NEW d \in freeDescriptors, NEW thing, opens(d, thing)
  PROVE  /\ d \in Descriptor /\ d \notin DOMAIN descriptors
         /\ DOMAIN descriptors' = DOMAIN descriptors \cup {d}
         /\ descriptors'[d] = thing
         /\ \A e \in DOMAIN descriptors : descriptors'[e] = descriptors[e]
         /\ descriptors' = [e \in DOMAIN descriptors' |-> descriptors'[e]]
BY DEF opens, freeDescriptors, closed

LEMMA Closed ==
  ASSUME NEW d, closes(d)
  PROVE  /\ DOMAIN descriptors' = DOMAIN descriptors \ {d}
         /\ \A e \in DOMAIN descriptors' : descriptors'[e] = descriptors[e]
         /\ descriptors' = [e \in DOMAIN descriptors' |-> descriptors'[e]]
BY DEF closes, Restrict

-----------------------------------------------------------------------------
(* The main thread.                                                        *)

LEMMA LaunchStep ==
  ASSUME PInv, Launch
  PROVE  PInv'
<1>1. /\ mainThread' = "socket"
      /\ UNCHANGED <<descriptors, serverSocket, pending, clientThreads, stage,
                     clientSocket>>
  BY DEF Launch, handlerVars
<1> QED
  BY <1>1 DEF PInv, ProcessTypeOK, SocketsAreOwned, SetupInv, QueueInv, active

LEMMA SetupFailsStep ==
  ASSUME PInv, NEW call \in SetupFaults, SetupFails(call)
  PROVE  PInv'
<1>1. /\ mainThread' = "join"
      /\ UNCHANGED <<descriptors, serverSocket, pending, clientThreads, stage,
                     clientSocket>>
  BY DEF SetupFails, handlerVars
<1> QED
  BY <1>1 DEF PInv, ProcessTypeOK, SocketsAreOwned, SetupInv, QueueInv, active

LEMMA BindListenStep ==
  ASSUME PInv, Bind \/ Listen
  PROVE  PInv'
<1>1. /\ mainThread \in {"bind", "listen"}
      /\ mainThread' \in {"listen", "accept"}
      /\ UNCHANGED <<descriptors, serverSocket, pending, clientThreads, stage,
                     clientSocket>>
  BY DEF Bind, Listen, handlerVars
<1> QED
  BY <1>1 DEF PInv, ProcessTypeOK, SocketsAreOwned, SetupInv, QueueInv, active

LEMMA CreateSocketStep ==
  ASSUME PInv, CreateSocket
  PROVE  PInv'
<1>1. /\ mainThread' = "bind"
      /\ UNCHANGED <<pending, clientThreads, stage, clientSocket>>
  BY DEF CreateSocket, handlerVars
<1>2. PICK d \in freeDescriptors : opens(d, Listening) /\ serverSocket' = d
  BY DEF CreateSocket
<1>3. /\ d \in Descriptor /\ d \notin DOMAIN descriptors
      /\ DOMAIN descriptors' = DOMAIN descriptors \cup {d}
      /\ descriptors'[d] = Listening
      /\ \A e \in DOMAIN descriptors : descriptors'[e] = descriptors[e]
      /\ descriptors' = [e \in DOMAIN descriptors' |-> descriptors'[e]]
  BY <1>2, Opened
<1>4. ProcessTypeOK'
  BY <1>1, <1>2, <1>3 DEF PInv, ProcessTypeOK
<1>5. SocketsAreOwned'
  BY <1>1, <1>3, Kinds DEF PInv, SocketsAreOwned, active
<1> QED
  BY <1>1, <1>2, <1>3, <1>4, <1>5 DEF PInv, SetupInv, QueueInv

(* accept takes the first connection that waits, and only one thread is    *)
(* given to it.                                                            *)
LEMMA AcceptStep ==
  ASSUME PInv, Accept
  PROVE  PInv'
<1> DEFINE c == Head(pending)
<1>1. /\ mainThread = "accept" /\ mainThread' = mainThread
      /\ pending # <<>> /\ pending' = Tail(pending)
      /\ clientThreads < MaxThreads /\ clientThreads' = clientThreads + 1
      /\ UNCHANGED serverSocket
  BY DEF Accept
<1>2. PICK d \in freeDescriptors :
        /\ opens(d, Connected(c))
        /\ stage' = [stage EXCEPT ![c] = "recv"]
        /\ clientSocket' = [clientSocket EXCEPT ![c] = d]
  BY DEF Accept
<1>3. /\ d \in Descriptor /\ d \notin DOMAIN descriptors
      /\ DOMAIN descriptors' = DOMAIN descriptors \cup {d}
      /\ descriptors'[d] = Connected(c)
      /\ \A e \in DOMAIN descriptors : descriptors'[e] = descriptors[e]
      /\ descriptors' = [e \in DOMAIN descriptors' |-> descriptors'[e]]
  BY <1>2, Opened
<1>4. /\ pending \in Seq(Conn) /\ Len(pending) \in Nat /\ Len(pending) >= 1
      /\ DOMAIN pending = 1..Len(pending)
      /\ c = pending[1] /\ c \in Conn
      /\ pending' \in Seq(Conn)
      /\ DOMAIN pending' = 1..(Len(pending) - 1)
      /\ \A i \in DOMAIN pending' : pending'[i] = pending[i + 1]
  BY <1>1 DEF PInv, ProcessTypeOK
<1>5. stage[c] = "pending" /\ ~ active(c)
  BY <1>4 DEF PInv, QueueInv, active
<1>6. /\ stage'[c] = "recv" /\ clientSocket'[c] = d
      /\ \A k \in Conn \ {c} : stage'[k] = stage[k] /\ clientSocket'[k] = clientSocket[k]
  BY <1>2, <1>4 DEF PInv, ProcessTypeOK
<1> HIDE DEF c
<1>7. ProcessTypeOK'
  <2>1. clientThreads' \in 0..MaxThreads
    BY <1>1, ProcessAssumption DEF PInv, ProcessTypeOK
  <2>2. \A e \in DOMAIN descriptors' :
          \/ descriptors'[e] \in {Listening, Datagram}
          \/ \E k \in Conn : descriptors'[e] = Connected(k)
    BY <1>3, <1>4 DEF PInv, ProcessTypeOK
  <2>3. DOMAIN descriptors' \subseteq Descriptor
    BY <1>3 DEF PInv, ProcessTypeOK
  <2> QED
    BY <1>1, <1>2, <1>3, <1>4, <2>1, <2>2, <2>3 DEF PInv, ProcessTypeOK
<1>8. SocketsAreOwned'
  <2>1. ASSUME NEW k \in Conn
        PROVE  /\ active(k)' => /\ clientSocket'[k] \in DOMAIN descriptors'
                                /\ descriptors'[clientSocket'[k]] = Connected(k)
               /\ \A e \in DOMAIN descriptors' :
                    descriptors'[e] = Connected(k) => active(k)' /\ clientSocket'[k] = e
    <3>1. CASE k = c
      BY <1>3, <1>4, <1>5, <1>6, <3>1 DEF active, PInv, SocketsAreOwned
    <3>2. CASE k # c
      BY <1>3, <1>4, <1>6, <3>2, Kinds DEF active, PInv, SocketsAreOwned
    <3> QED
      BY <3>1, <3>2
  <2>2. /\ serverSocket' \in DOMAIN descriptors'
        /\ descriptors'[serverSocket'] = Listening
    BY <1>1, <1>3 DEF PInv, SetupInv
  <2> QED
    BY <2>1, <2>2 DEF SocketsAreOwned
<1>9. QueueInv'
  <2>1. ASSUME NEW i \in DOMAIN pending'
        PROVE  stage'[pending'[i]] = "pending"
    <3>1. i + 1 \in DOMAIN pending /\ 1 \in DOMAIN pending /\ i + 1 # 1
      BY <1>4
    <3>2. pending'[i] \in Conn \ {c} /\ stage[pending'[i]] = "pending"
      BY <1>4, <3>1 DEF PInv, QueueInv, IsInjective
    <3> QED
      BY <1>6, <3>2
  <2>2. IsInjective(pending')
    BY <1>4 DEF PInv, QueueInv, IsInjective
  <2> QED
    BY <2>1, <2>2 DEF QueueInv
<1>10. SetupInv'
  BY <1>1, <1>3 DEF PInv, SetupInv
<1> QED
  BY <1>3, <1>7, <1>8, <1>9, <1>10 DEF PInv

LEMMA GoneStep ==
  ASSUME PInv, NEW how \in {"none", "terminated"}, gone(how)
  PROVE  PInv'
<1>1. /\ DOMAIN descriptors' = {}
      /\ descriptors' = [d \in DOMAIN descriptors' |-> descriptors'[d]]
      /\ pending' = <<>> /\ clientThreads' = 0 /\ serverSocket' = NoSocket
      /\ stage' = [c \in Conn |-> "new"]
      /\ clientSocket' = [c \in Conn |-> NoSocket]
      /\ mainThread' = how
  BY DEF gone
<1>2. ProcessTypeOK'
  BY <1>1, ProcessAssumption DEF ProcessTypeOK
<1>3. SocketsAreOwned' /\ SetupInv'
  BY <1>1 DEF SocketsAreOwned, SetupInv, active
<1>4. QueueInv'
  BY <1>1 DEF QueueInv, IsInjective
<1> QED
  BY <1>1, <1>2, <1>3, <1>4 DEF PInv

LEMMA SendMessageStep ==
  ASSUME PInv, SendMessage
  PROVE  PInv'
<1>1. UNCHANGED <<mainThread, serverSocket, pending, clientThreads, stage, clientSocket>>
  BY DEF SendMessage, handlerVars
<1>2. PICK d \in freeDescriptors : opens(d, Datagram)
  BY DEF SendMessage
<1>3. /\ d \in Descriptor /\ d \notin DOMAIN descriptors
      /\ DOMAIN descriptors' = DOMAIN descriptors \cup {d}
      /\ descriptors'[d] = Datagram
      /\ \A e \in DOMAIN descriptors : descriptors'[e] = descriptors[e]
      /\ descriptors' = [e \in DOMAIN descriptors' |-> descriptors'[e]]
  BY <1>2, Opened
<1>4. ProcessTypeOK'
  BY <1>1, <1>3 DEF PInv, ProcessTypeOK
<1>5. SocketsAreOwned' /\ SetupInv'
  BY <1>1, <1>3, Kinds DEF PInv, SocketsAreOwned, SetupInv, active
<1> QED
  BY <1>1, <1>3, <1>4, <1>5 DEF PInv, QueueInv

-----------------------------------------------------------------------------
(* The handler threads.                                                    *)

LEMMA ConnectStep ==
  ASSUME PInv, NEW c \in Conn, Connect(c)
  PROVE  PInv'
<1>1. /\ stage[c] = "new"
      /\ stage' = [stage EXCEPT ![c] = "pending"]
      /\ pending' = Append(pending, c)
      /\ UNCHANGED <<mainThread, descriptors, serverSocket, clientThreads,
                     clientSocket>>
  BY DEF Connect
<1>2. \A k \in Conn : active(k)' <=> active(k)
  BY <1>1 DEF active, PInv, ProcessTypeOK
<1>3. /\ pending \in Seq(Conn) /\ Len(pending) \in Nat
      /\ DOMAIN pending = 1..Len(pending)
      /\ DOMAIN pending' = 1..(Len(pending) + 1)
      /\ pending'[Len(pending) + 1] = c
      /\ \A i \in DOMAIN pending : pending'[i] = pending[i] /\ pending[i] \in Conn
  BY <1>1 DEF PInv, ProcessTypeOK
<1>4. ProcessTypeOK'
  BY <1>1 DEF PInv, ProcessTypeOK
<1>5. SocketsAreOwned' /\ SetupInv'
  BY <1>1, <1>2 DEF PInv, SocketsAreOwned, SetupInv
<1>6. QueueInv'
  <2>1. \A i \in DOMAIN pending : pending[i] # c
    BY <1>1 DEF PInv, QueueInv
  <2>2. \A i \in DOMAIN pending' :
          i \in DOMAIN pending \/ (i = Len(pending) + 1 /\ pending'[i] = c)
    BY <1>3
  <2>3. \A i \in DOMAIN pending' : stage'[pending'[i]] = "pending"
    BY <1>1, <1>3, <2>2 DEF PInv, QueueInv, ProcessTypeOK
  <2>4. IsInjective(pending')
    BY <1>3, <2>1, <2>2 DEF PInv, QueueInv, IsInjective
  <2> QED
    BY <2>3, <2>4 DEF QueueInv
<1> QED
  BY <1>1, <1>4, <1>5, <1>6 DEF PInv

(* Each step of a thread either keeps its descriptor and goes on, or       *)
(* closes it and is done.                                                  *)
LEMMA HandlerStep ==
  ASSUME PInv, NEW c \in Conn, Handler(c)
  PROVE  PInv'
<1>1. /\ active(c)
      /\ UNCHANGED <<mainThread, serverSocket, pending, clientThreads, clientSocket>>
      /\ \/ /\ stage' = [stage EXCEPT ![c] = "done"]
            /\ closes(clientSocket[c])
         \/ \E to \in {"handle", "send", "close"} :
              /\ stage' = [stage EXCEPT ![c] = to]
              /\ UNCHANGED descriptors
  BY DEF Handler, Receive, ReceiveFails, Handle, Send, SendFails, Close, advance,
         afterFailure, closesOnFailure, active
<1>2. /\ \A k \in Conn \ {c} : stage'[k] = stage[k]
      /\ stage' \in [Conn -> Stages]
  BY <1>1 DEF PInv, ProcessTypeOK, Stages
<1>3. QueueInv'
  <2>1. stage[c] # "pending"
    BY <1>1 DEF active
  <2>2. \A i \in DOMAIN pending : pending[i] \in Conn \ {c}
    BY <2>1 DEF PInv, ProcessTypeOK, QueueInv
  <2> QED
    BY <1>1, <1>2, <2>2 DEF PInv, QueueInv
<1>4. /\ clientSocket[c] \in DOMAIN descriptors
      /\ descriptors[clientSocket[c]] = Connected(c)
  BY <1>1 DEF PInv, SocketsAreOwned
<1>5. CASE stage' = [stage EXCEPT ![c] = "done"] /\ closes(clientSocket[c])
  <2>1. /\ DOMAIN descriptors' = DOMAIN descriptors \ {clientSocket[c]}
        /\ \A e \in DOMAIN descriptors' : descriptors'[e] = descriptors[e]
        /\ descriptors' = [e \in DOMAIN descriptors' |-> descriptors'[e]]
    BY <1>5, Closed
  <2>2. ~ active(c)' /\ \A k \in Conn \ {c} : active(k)' <=> active(k)
    BY <1>2, <1>5 DEF active, PInv, ProcessTypeOK
  <2>3. ProcessTypeOK'
    BY <1>1, <1>2, <2>1 DEF PInv, ProcessTypeOK, Stages
  <2>4. ASSUME NEW k \in Conn
        PROVE  /\ active(k)' => /\ clientSocket'[k] \in DOMAIN descriptors'
                                /\ descriptors'[clientSocket'[k]] = Connected(k)
               /\ \A e \in DOMAIN descriptors' :
                    descriptors'[e] = Connected(k) => active(k)' /\ clientSocket'[k] = e
    <3>1. CASE k = c
      BY <1>1, <1>4, <2>1, <2>2, <3>1 DEF PInv, SocketsAreOwned
    <3>2. CASE k # c
      BY <1>1, <1>4, <2>1, <2>2, <3>2, Kinds DEF PInv, SocketsAreOwned
    <3> QED
      BY <3>1, <3>2
  <2>5. SetupInv'
    BY <1>1, <1>4, <2>1, Kinds DEF PInv, SetupInv
  <2>6. SocketsAreOwned'
    BY <2>4, <2>5 DEF SocketsAreOwned, SetupInv
  <2> QED
    BY <1>3, <2>1, <2>3, <2>5, <2>6 DEF PInv
<1>6. CASE \E to \in {"handle", "send", "close"} :
             stage' = [stage EXCEPT ![c] = to] /\ UNCHANGED descriptors
  <2>1. \A k \in Conn : active(k)' <=> active(k)
    BY <1>1, <1>6 DEF active, PInv, ProcessTypeOK
  <2>2. UNCHANGED descriptors
    BY <1>6
  <2>3. ProcessTypeOK'
    BY <1>1, <1>2, <2>2 DEF PInv, ProcessTypeOK, Stages
  <2>4. SocketsAreOwned' /\ SetupInv'
    BY <1>1, <2>1, <2>2 DEF PInv, SocketsAreOwned, SetupInv
  <2> QED
    BY <1>3, <2>2, <2>3, <2>4 DEF PInv
<1> QED
  BY <1>1, <1>5, <1>6

-----------------------------------------------------------------------------
(* The theorems.                                                           *)

LEMMA InitPInv == Initially => PInv
<1> SUFFICES ASSUME Initially PROVE PInv
  OBVIOUS
<1>1. /\ DOMAIN descriptors = {}
      /\ descriptors = [d \in DOMAIN descriptors |-> descriptors[d]]
      /\ pending = <<>> /\ clientThreads = 0 /\ serverSocket = NoSocket
      /\ stage = [c \in Conn |-> "new"]
      /\ clientSocket = [c \in Conn |-> NoSocket]
      /\ mainThread = "none"
  BY DEF Initially
<1>2. ProcessTypeOK
  BY <1>1, ProcessAssumption DEF ProcessTypeOK
<1>3. SocketsAreOwned /\ SetupInv
  BY <1>1 DEF SocketsAreOwned, SetupInv, active
<1>4. QueueInv
  BY <1>1 DEF QueueInv, IsInjective
<1> QED
  BY <1>1, <1>2, <1>3, <1>4 DEF PInv

LEMMA NextPInv == PInv /\ [ProcessNext]_processVars => PInv'
<1> SUFFICES ASSUME PInv, [ProcessNext]_processVars PROVE PInv'
  OBVIOUS
<1>1. CASE UNCHANGED processVars
  BY <1>1 DEF processVars, handlerVars, PInv, ProcessTypeOK, SocketsAreOwned,
              SetupInv, QueueInv, active
<1>2. CASE AcceptWithoutThread \/ Signal
  BY <1>2, GoneStep DEF AcceptWithoutThread, Signal
<1> QED
  BY <1>1, <1>2, LaunchStep, SetupFailsStep, BindListenStep, CreateSocketStep,
     AcceptStep, SendMessageStep, ConnectStep, HandlerStep
     DEF ProcessNext, Setup

LEMMA AlwaysPInv == ProcessSpec => []PInv
BY InitPInv, NextPInv, PTL DEF ProcessSpec

(* The variables have their types; in particular, the descriptors are      *)
(* within the limit of the process, and so are the threads.                *)
THEOREM ProcessTypeCorrect == ProcessSpec => []ProcessTypeOK
<1>1. PInv => ProcessTypeOK
  BY DEF PInv
<1> QED
  BY <1>1, AlwaysPInv, PTL

(* The descriptor of a connection is its own from accept to close, and is  *)
(* closed on every path of handleApproachingClient (server.cpp:23-91).     *)
THEOREM DescriptorsOwned == ProcessSpec => []SocketsAreOwned
<1>1. PInv => SocketsAreOwned
  BY DEF PInv
<1> QED
  BY <1>1, AlwaysPInv, PTL
=============================================================================
