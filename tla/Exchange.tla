------------------------------ MODULE Exchange ------------------------------
(***************************************************************************)
(* A request and its reply on the wire: client.exe, or somebody else, asks *)
(* the server, which decodes, handles and answers; client.exe reads the    *)
(* answer (server.cpp:42-92, client.cpp:225-261). Or a message, which the   *)
(* server sends and the message thread of a client prints. What the        *)
(* handlers do to the registry is left to Server: here, held is the list   *)
(* of its topics, and every status that a handler may answer is possible.  *)
(***************************************************************************)
EXTENDS Protocol

CONSTANTS
  Text,     \* topic names and messages given to client.exe
  Lists,    \* what the registry may hold: sequences of topic names
  Foreign   \* documents that others than client.exe send

isValue(v) ==
  \/ v \in {Null, Bool(TRUE), Bool(FALSE), Array}
  \/ v.type = "int" /\ v = Number(v.number)
  \/ v.type = "real" /\ v = Real(v.number, v.text)
  \/ v.type = "string" /\ v = String(v.text)
  \/ v.type = "object" /\ v = Object(v.members)

\* What a request may be: if it is an object, it has members of any names,
\* and if it has arguments with names, these have values.
isJson(doc) ==
  \/ doc = NoJson
  \/ /\ isValue(doc)
     /\ doc.type = "object" =>
          /\ \A name \in DOMAIN doc.members : isValue(doc.members[name])
          /\ "arguments" \in DOMAIN doc.members =>
               LET arguments == doc.members.arguments
               IN  arguments.type = "object" =>
                     /\ arguments.members \in Seq(Range(arguments.members))
                     /\ \A m \in Range(arguments.members) : isValue(m[2])

\* The registry holds no empty name (command.cpp:68-78).
ASSUME ExchangeAssumption ==
  /\ \A list \in Lists :
       /\ list \in Seq(Range(list))
       /\ \A name \in Range(list) : name \in Seq(Range(name)) /\ name # <<>>
  /\ \A doc \in Foreign : isJson(doc)

VARIABLES
  phase,
  command,  \* the Command of client.exe, or NoCommand
  request,  \* the document that the server receives
  held,     \* the topics in the registry
  handled,  \* the Command that a handler was called with, or NoCommand
  reply,    \* the document that the client receives
  shown,    \* what the client logs of it
  sent,     \* the Message that the server sends, or NoMessage
  datagram, \* what a client receives of it
  printed   \* the Message that its message thread prints

requestVars == <<command, request, held, handled, reply, shown>>
messageVars == <<sent, datagram, printed>>
exchangeVars == <<phase, requestVars, messageVars>>

NoReply == serializeResponse(Response(-1, <<>>))
Nothing == [status |-> -1, lists |-> <<>>]

Idle ==
  /\ phase = "idle"
  /\ command = NoCommand
  /\ request = NoJson
  /\ held = <<>>
  /\ handled = NoCommand
  /\ reply = NoReply
  /\ shown = Nothing
  /\ sent = NoMessage
  /\ datagram = NoJson
  /\ printed = NoMessage

\* What client.exe builds (client.cpp:98-166). It does not unsubscribe from
\* an empty name, since it terminates when it subscribes to one.
clientCommands ==
  {Command(0, [topicName |-> t, clientPort |-> decimal(n)]) : t \in Text, n \in Digit}
    \cup {Command(1, [topicName |-> t, clientPort |-> decimal(n)]) :
            t \in Text \ {<<>>}, n \in Digit}
    \cup {Command(2, [topicName |-> t, message |-> m]) : t, m \in Text}
    \cup {Command(3, <<>>)}
    \cup {Command(4, [topicName |-> t]) : t \in Text}

\* serialize throws if an argument is empty, and nobody catches it: it is
\* called before the try block of sendMessage.
ClientAsks ==
  /\ phase = "idle"
  /\ \E c \in clientCommands :
       /\ command' = c
       /\ IF isValid(c.values)
          THEN phase' = "asked" /\ request' = serialize(c)
          ELSE phase' = "clientTerminated" /\ UNCHANGED request
  /\ UNCHANGED <<held, handled, reply, shown, messageVars>>

StrangerAsks ==
  /\ phase = "idle"
  /\ phase' = "asked"
  /\ request' \in Foreign
  /\ UNCHANGED <<command, held, handled, reply, shown, messageVars>>

\* A plausible bug of the next one: only runtime_error is caught.
caughtByServerOnly(exception) == exception = "runtime_error"

\* catch (const exception &)
caughtByServer(exception) == TRUE

ServerAnswers ==
  /\ phase = "asked"
  /\ held' \in Lists
  /\ LET result == dispatch(request, held')
     IN  \/ /\ ~ throws(result)
            /\ phase' = "answered"
            /\ handled' = result.called
            /\ \E r \in result.made : reply' = serializeResponse(r)
         \/ /\ throws(result)
            /\ phase' = IF caughtByServer(result.throws) THEN "answered"
                        ELSE "serverTerminated"
            /\ reply' = serializeResponse(Response(Statuscode.internalError, <<>>))
            /\ UNCHANGED handled
  /\ UNCHANGED <<command, request, shown, messageVars>>

\* sendMessage catches runtime_error, which logResponse does not throw.
ClientReads ==
  /\ phase = "answered"
  /\ command # NoCommand
  /\ LET result ==
           logResponse(deserializeResponse(command.commandIdentifier, reply))
     IN  IF throws(result)
         THEN phase' = "clientTerminated" /\ UNCHANGED shown
         ELSE phase' = "read" /\ shown' = result
  /\ UNCHANGED <<command, request, held, handled, reply, messageVars>>

\* A message that is not empty (topic.cpp:50); it is cut if the buffer of
\* the client is too small, and what is left is no JSON.
SendMessage ==
  /\ phase = "idle"
  /\ phase' = "sent"
  /\ \E t, m \in Text \ {<<>>}, n \in Digit : sent' = Message(t, n, m)
  /\ datagram' \in {serializeMessage(sent'), NoJson}
  /\ UNCHANGED <<requestVars, printed>>

\* handleMessages catches runtime_error and goes on.
ReceiveMessage ==
  /\ phase = "sent"
  /\ LET result == deserializeMessage(datagram)
     IN  IF ~ throws(result)
         THEN phase' = "read" /\ printed' = result
         ELSE /\ phase' = IF result.throws = "runtime_error" THEN "read"
                          ELSE "clientTerminated"
              /\ UNCHANGED printed
  /\ UNCHANGED <<requestVars, sent, datagram>>

\* The same client, or the next one.
Again ==
  /\ \/ phase \in {"read", "clientTerminated"}
     \/ phase = "answered" /\ command = NoCommand
  /\ phase' = "idle"
  /\ command' = NoCommand
  /\ request' = NoJson
  /\ held' = <<>>
  /\ handled' = NoCommand
  /\ reply' = NoReply
  /\ shown' = Nothing
  /\ sent' = NoMessage
  /\ datagram' = NoJson
  /\ printed' = NoMessage

ExchangeNext ==
  \/ ClientAsks \/ StrangerAsks \/ ServerAnswers \/ ClientReads
  \/ SendMessage \/ ReceiveMessage \/ Again

ExchangeSpec == Idle /\ [][ExchangeNext]_exchangeVars

-----------------------------------------------------------------------------
(* Properties.                                                             *)

(* A request of client.exe reaches the handler it was meant for, with the  *)
(* arguments it was made with, each in its place: the two sides build and  *)
(* read it with dictionaries of their own (command.cpp:80-148,             *)
(* communicationParameters.h:25-45).                                       *)
ArgumentsArrive ==
  phase = "answered" /\ command # NoCommand => handled = command

(* README.md:200: the program will not crash, but log the error. So it is  *)
(* with one exception: client.exe terminates if it is given an empty topic *)
(* or message, since what serialize throws (command.cpp:84) leaves         *)
(* sendMessage (client.cpp:225) and main. Nothing else ends a program: not *)
(* a document that the server cannot read, nor a reply that has no list    *)
(* where the client reads one, nor a message that was cut.                 *)
NobodyTerminates ==
  /\ phase # "serverTerminated"
  /\ phase = "clientTerminated" => ~ isValid(command.values)

\* A name without commas, and without spaces around it.
isPlain(name) == Comma \notin Range(name) /\ name = trim(name)

(* The topics that --list-topics shows are those that the registry held if *)
(* no name has a comma, or a space at an end, and are others if one has,   *)
(* although README.md:80 allows such names; --get-topic-status shows the   *)
(* subscribers (README.md:76-77).                                          *)
ListsArrive ==
  shown.status = Statuscode.success =>
    /\ command.commandIdentifier = 3 =>
         (shown.lists.topics = held <=> \A n \in DOMAIN held : isPlain(held[n]))
    /\ command.commandIdentifier = 4 => shown.lists.subscribers = subscribersOf

(* The message thread prints a message as it was published, under its      *)
(* topic, and nothing of one that was cut (message.cpp:27-65,              *)
(* client.cpp:184-190).                                                    *)
MessagesArrive ==
  phase = "read" /\ sent # NoMessage =>
    printed = IF datagram = NoJson THEN NoMessage ELSE sent

\* The documents that README.md:119-135 describes.
documented(doc) ==
  /\ doc.type = "object"
  /\ DOMAIN doc.members = {"command", "arguments"}
  /\ \E identifier \in Range(CommandIdentifier) :
       /\ doc.members.command = Number(identifier)
       /\ \/ /\ doc.members.arguments = Null
             /\ commandDictionary(identifier) = {}
          \/ /\ doc.members.arguments.type = "object"
             /\ {m[1] : m \in Range(doc.members.arguments.members)}
                  = commandDictionary(identifier)
             /\ \A m \in Range(doc.members.arguments.members) : m[2].type = "string"

\* Documents that README.md:119-135 does not describe, and that the server may
\* take (server.cpp:66, command.cpp:111-148): with further members; with a
\* number that is no command, or what asInt converts; with a name that is no
\* argument of any command; with a value that asString converts. The
\* arguments have to be those of the command in any case.
tolerated(doc) ==
  /\ doc.type = "object"
  /\ {"command", "arguments"} \subseteq DOMAIN doc.members
  /\ LET number    == doc.members.command
         arguments == doc.members.arguments
         given     == IF arguments.type = "object" THEN Range(arguments.members) ELSE {}
     IN  /\ isInt(number)
         /\ arguments.type \in {"null", "object"}
         /\ \A m \in given : isScalar(m[2])
         /\ {parameterNamed(m[1]) : m \in given} = commandDictionary(asInt(number))
         /\ \/ DOMAIN doc.members # {"command", "arguments"}
            \/ number.type # "int"
            \/ number.number \notin Range(CommandIdentifier)
            \/ \E m \in given :
                 m[1] \notin CommunicationParameters \/ m[2].type # "string"

(* README.md:174: if a request does not meet the specified JSON format, an *)
(* Internal Error Status Code is returned. That holds for every document   *)
(* but those that are named above, of which the code accepts some.         *)
WrongFormatIsRefused ==
  phase = "answered" /\ ~ documented(request) /\ ~ tolerated(request)
    => reply.statusCode = Number(Statuscode.internalError)
=============================================================================
