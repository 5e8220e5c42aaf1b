------------------------- MODULE ClientCommandLine -------------------------
(***************************************************************************)
(* How main of client.exe (src/client/main.cpp) reads its command line, one*)
(* turn of its loop after the other, and what it then asks of the Client.  *)
(*                                                                         *)
(* An argument is a string; Text tells what the code finds out about it:   *)
(* whether it begins with a dash or has one as its second character, what  *)
(* stoi makes of it (NotANumber when stoi throws), and the same for what   *)
(* stands between its dots.                                                *)
(***************************************************************************)
EXTENDS Integers, SequencesExt

CONSTANTS
  Text,      \* of each argument: [dashed, number, octets, endsInDot]
  Lines,     \* command lines of any kind, sequences of arguments
  Intents    \* what a user may want: sequences of <<option, value, ...>>, one
             \* of them the command, as README.md:65-78 describes them

NotANumber == -1000000

Options == {"--port", "--server-address", "--server-port", "--help", "--debug",
            "--subscribe", "--publish", "--list-topics", "--get-topic-status"}

ASSUME ClientCommandLineAssumption ==
  /\ \A line \in Lines : line \in Seq(DOMAIN Text)
  /\ \A arg \in Options \cap DOMAIN Text : Text[arg].dashed

VARIABLES
  intent,               \* what the user meant by the line, or Nonsense
  argv,
  i,                    \* the argument main looks at
  pc,                   \* "parsing", "executing", "waiting", "exited"
  exitCode,
  port, serverAddress, serverPort,
  command,              \* the first argument that is no setting, or NoCommand
  arguments,            \* of the command
  hasSubscribeCommand,
  taken,                \* the commands that main has accepted, for its log
  requests              \* what the Client was asked to do

settings == <<port, serverAddress, serverPort>>
commandVars == <<command, arguments, hasSubscribeCommand, taken>>
clVars == <<intent, argv, i, pc, exitCode, settings, commandVars, requests>>

NoCommand == ""

Nonsense == <<>>

CommandLineInit ==
  /\ \/ intent = Nonsense /\ argv \in Lines
     \/ intent \in Intents /\ argv = FlattenSeq(intent)
  /\ i = 1
  /\ pc = "parsing"
  /\ exitCode = 0
  /\ port = 0 /\ serverAddress = "127.0.0.1" /\ serverPort = 8080
  /\ command = NoCommand
  /\ arguments = <<>>
  /\ hasSubscribeCommand = FALSE
  /\ taken = <<>>
  /\ requests = <<>>

-----------------------------------------------------------------------------
(* Parsing: one turn of the loop.                                          *)

more == pc = "parsing" /\ i <= Len(argv)

arg == argv[i]

\* The n arguments after arg are there.
has(n) == Len(argv) >= i + n

value == argv[i + 1]

exit(code) == pc' = "exited" /\ exitCode' = code

MaxPort == 65535

getPortNumber(text) == IF text.number \in 0..MaxPort THEN text.number ELSE -1

isValidIPv4Address(text) ==
  /\ ~text.endsInDot
  /\ \A o \in DOMAIN text.octets : text.octets[o] \in 0..255
  /\ Len(text.octets) = 4

\* A setting is taken with its value, or main ends.
setting(valid) ==
  /\ IF valid
     THEN i' = i + 2 /\ UNCHANGED <<pc, exitCode>>
     ELSE exit(1) /\ UNCHANGED i
  /\ UNCHANGED <<intent, argv, commandVars, requests>>

Port ==
  /\ more /\ arg = "--port" /\ has(1)
  /\ port' = getPortNumber(Text[value])
  /\ setting(port' # -1)
  /\ UNCHANGED <<serverAddress, serverPort>>

ServerAddress ==
  /\ more /\ arg = "--server-address" /\ has(1)
  /\ serverAddress' = value
  /\ setting(isValidIPv4Address(Text[value]))
  /\ UNCHANGED <<port, serverPort>>

ServerPort ==
  /\ more /\ arg = "--server-port" /\ has(1)
  /\ serverPort' = getPortNumber(Text[value])
  /\ setting(serverPort' # -1)
  /\ UNCHANGED <<port, serverAddress>>

Help ==
  /\ more /\ arg = "--help"
  /\ exit(0)
  /\ UNCHANGED <<intent, argv, i, settings, commandVars, requests>>

Debug ==
  /\ more /\ arg = "--debug"
  /\ i' = i + 1
  /\ UNCHANGED <<intent, argv, pc, exitCode, settings, commandVars, requests>>

\* What no branch for a setting has taken.
isSetting ==
  \/ arg \in {"--port", "--server-address", "--server-port"} /\ has(1)
  \/ arg \in {"--help", "--debug"}

\* The first such argument defines the command.
commandType == IF command = NoCommand THEN arg ELSE command

\* The arguments after arg up to the first that may be an option. A plausible
\* bug: options are taken for topics.
followingAny == Len(argv) - i

following ==
  Min({n \in 0..(Len(argv) - i) : i + n = Len(argv) \/ Text[argv[i + n + 1]].dashed})

isSubscribe == arg = "--subscribe" /\ arg = commandType /\ has(1)

\* Not compared with the command: one without arguments may have come before.
isPublish == arg = "--publish" /\ arguments = <<>> /\ has(2)

isListTopics == arg = "--list-topics" /\ arg = commandType

isGetTopicStatus == arg = "--get-topic-status" /\ arg = commandType /\ has(1)

\* n more arguments belong to the command.
take(n) ==
  /\ command' = commandType
  /\ arguments' = arguments \o SubSeq(argv, i + 1, i + n)
  /\ taken' = Append(taken, arg)
  /\ i' = i + n + 1
  /\ UNCHANGED <<intent, argv, pc, exitCode, settings, requests>>

\* A plausible bug of the next one: what follows the last --subscribe counts.
subscribingLast == following > 0

\* The flag is set with each topic, and never cleared.
subscribing == hasSubscribeCommand \/ following > 0

Subscribe ==
  /\ more /\ ~isSetting /\ isSubscribe
  /\ hasSubscribeCommand' = subscribing
  /\ take(following)

Publish ==
  /\ more /\ ~isSetting /\ isPublish
  /\ take(2)
  /\ UNCHANGED hasSubscribeCommand

ListTopics ==
  /\ more /\ ~isSetting /\ isListTopics
  /\ take(0)
  /\ UNCHANGED hasSubscribeCommand

GetTopicStatus ==
  /\ more /\ ~isSetting /\ isGetTopicStatus
  /\ take(following)
  /\ UNCHANGED hasSubscribeCommand

Unknown ==
  /\ more /\ ~isSetting
  /\ ~(isSubscribe \/ isPublish \/ isListTopics \/ isGetTopicStatus)
  /\ command' = commandType
  /\ exit(1)
  /\ UNCHANGED <<intent, argv, i, settings, arguments, hasSubscribeCommand, taken,
                 requests>>

-----------------------------------------------------------------------------
(* Executing the command.                                                  *)

Request(kind, about) == [command |-> kind, arguments |-> about]

\* One request for each topic, or one for the command.
requestsOf(kind, about) ==
  CASE kind \in {"--subscribe", "--get-topic-status"} ->
         [a \in DOMAIN about |-> Request(kind, <<about[a]>>)]
    [] kind = "--publish" -> <<Request(kind, <<about[1], about[Len(about)]>>)>>
    [] kind = "--list-topics" -> <<Request(kind, <<>>)>>

\* The constructor of Client may throw.
Start ==
  /\ pc = "parsing" /\ i > Len(argv)
  /\ \/ pc' = "executing" /\ UNCHANGED exitCode
     \/ exit(1)
  /\ UNCHANGED <<intent, argv, i, settings, commandVars, requests>>

Execute ==
  /\ pc = "executing"
  /\ command # NoCommand
  /\ requests' = requestsOf(command, arguments)
  /\ pc' = IF hasSubscribeCommand THEN "waiting" ELSE "exited"
  /\ UNCHANGED <<intent, argv, i, exitCode, settings, commandVars>>

ExecuteNothing ==
  /\ pc = "executing"
  /\ command = NoCommand
  /\ exit(1)
  /\ UNCHANGED <<intent, argv, i, settings, commandVars, requests>>

\* The ENTER key, after which the client is deleted and unsubscribes.
Enter ==
  /\ pc = "waiting"
  /\ exit(0)
  /\ UNCHANGED <<intent, argv, i, settings, commandVars, requests>>

CommandLineNext ==
  \/ Port \/ ServerAddress \/ ServerPort \/ Help \/ Debug
  \/ Subscribe \/ Publish \/ ListTopics \/ GetTopicStatus \/ Unknown
  \/ Start \/ Execute \/ ExecuteNothing \/ Enter

CommandLineSpec == CommandLineInit /\ [][CommandLineNext]_clVars

-----------------------------------------------------------------------------
(* Properties.                                                             *)

\* A setting of README.md:65-78, with a value in its range.
isSettingGroup(group) ==
  \/ group = <<"--debug">>
  \/ /\ Len(group) = 2
     /\ \/ /\ group[1] \in {"--port", "--server-port"}
           /\ Text[group[2]].number \in 0..MaxPort
        \/ /\ group[1] = "--server-address"
           /\ isValidIPv4Address(Text[group[2]])

\* A command, with topics that do not look like options, or a topic and any
\* message.
isCommandGroup(group) ==
  \/ /\ group[1] \in {"--subscribe", "--get-topic-status"}
     /\ Len(group) >= 2
     /\ \A n \in 2..Len(group) : ~Text[group[n]].dashed
  \/ group[1] = "--publish" /\ Len(group) = 3
  \/ group = <<"--list-topics">>

\* One command among settings, none of which is given two values.
isIntent(groups) ==
  /\ groups \in Seq(Seq(DOMAIN Text))
  /\ \A g \in DOMAIN groups : groups[g] # <<>>
  /\ \E c \in DOMAIN groups :
       /\ isCommandGroup(groups[c])
       /\ \A g \in DOMAIN groups \ {c} : isSettingGroup(groups[g])
  /\ \A g, h \in DOMAIN groups : groups[g][1] = groups[h][1] => groups[g] = groups[h]

ASSUME IntentsAssumption == \A groups \in Intents : isIntent(groups)

\* The requests that a part of the intent asks for.
asks(group) ==
  CASE group[1] \in {"--subscribe", "--get-topic-status"} ->
         [n \in 1..(Len(group) - 1) |-> [command |-> group[1], arguments |-> <<group[n + 1]>>]]
    [] group[1] \in {"--publish", "--list-topics"} ->
         <<[command |-> group[1], arguments |-> Tail(group)]>>
    [] OTHER -> <<>>

given(option, taking, default) ==
  LET values == {intent[g][2] : g \in {n \in DOMAIN intent : intent[n][1] = option}}
  IN  IF values = {} THEN default ELSE taking[CHOOSE v \in values : TRUE]

(* A line as README.md:65-78 describes it is understood: whatever the order*)
(* of its settings and its command, it is not refused, and the client asks *)
(* for exactly what the line says, under the settings it gives             *)
(* (main.cpp:38-138, 156-172).                                             *)
WellFormedLinesRun ==
  LET numbers == [w \in DOMAIN Text |-> Text[w].number]
      itself  == [w \in DOMAIN Text |-> w]
  IN  intent # Nonsense =>
        /\ pc # "parsing" => i > Len(argv)
        /\ requests # <<>> =>
             /\ requests = FlattenSeq([g \in DOMAIN intent |-> asks(intent[g])])
             /\ port = given("--port", numbers, 0)
             /\ serverPort = given("--server-port", numbers, 8080)
             /\ serverAddress = given("--server-address", itself, "127.0.0.1")

(* main.cpp:28: if a subscribe is provided the client has to stay alive    *)
(* after all commands are executed. Wherever its topics stand on the line, *)
(* and however often --subscribe does, it does not leave with exit code 0, *)
(* and unsubscribe, without having waited for the ENTER key. Lines with    *)
(* --publish behind --subscribe, which are accepted as well, do not count. *)
SubscribersStay ==
  [][pc = "executing" /\ requests' # <<>> =>
       \/ requests'[1].command # "--subscribe"
       \/ "--publish" \in Range(taken)
       \/ pc' = "waiting"]_clVars
=============================================================================
