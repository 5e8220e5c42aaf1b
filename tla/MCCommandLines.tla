--------------------------- MODULE MCCommandLines ---------------------------
(***************************************************************************)
(* Instances of ClientCommandLine and ServerCommandLine for TLC: somebody  *)
(* starts one of the two programs.                                         *)
(***************************************************************************)
EXTENDS ClientCommandLine

CONSTANTS ServerNumber, ServerLines, ServerIntents

VARIABLES
  program,                    \* "client" or "server"
  topicTimeout, usagePrinted  \* of main of server.exe; it has others in common

ServerLine == INSTANCE ServerCommandLine WITH
  Number <- ServerNumber, Lines <- ServerLines, Intents <- ServerIntents

ASSUME ServerIntentsAssumption ==
  \A groups \in ServerIntents : ServerLine!isIntent(groups)

serverOnly == <<topicTimeout, usagePrinted>>
clientOnly == <<serverAddress, serverPort, commandVars, requests>>

LinesInit ==
  \/ /\ program = "client"
     /\ CommandLineInit
     /\ topicTimeout = 30 /\ usagePrinted = FALSE
  \/ /\ program = "server"
     /\ ServerLine!ServerLineInit
     /\ serverAddress = "" /\ serverPort = 0
     /\ command = NoCommand /\ arguments = <<>> /\ hasSubscribeCommand = FALSE
     /\ taken = <<>> /\ requests = <<>>

LinesNext ==
  /\ UNCHANGED program
  /\ \/ program = "client" /\ CommandLineNext /\ UNCHANGED serverOnly
     \/ program = "server" /\ ServerLine!ServerLineNext /\ UNCHANGED clientOnly

LinesSpec == LinesInit /\ [][LinesNext]_<<program, clVars, serverOnly>>

(* Of a client, README.md:65-78: a line of the form described there is     *)
(* understood (main.cpp:38-172).                                           *)
ClientLinesRun == program = "client" => WellFormedLinesRun

(* Of a server, README.md:85-91: so is a line of the options described     *)
(* there; one with the --message-timeout of main.cpp:32 is refused         *)
(* (src/server/main.cpp:37-105).                                           *)
ServerLinesRun == program = "server" => ServerLine!DocumentedLinesRun

-----------------------------------------------------------------------------
(* client.exe.                                                             *)

word == [dashed |-> FALSE, number |-> NotANumber, octets |-> <<NotANumber>>,
         endsInDot |-> FALSE]

\* "a-b" has its dash where an option has the second of two.
Arguments ==
  [w \in Options \cup {"a-b"} |-> [word EXCEPT !.dashed = TRUE]]
  @@ [w \in {"news", "hello"} |-> word]
  @@ ("9000" :> [word EXCEPT !.number = 9000, !.octets = <<9000>>])
  @@ ("65536" :> [word EXCEPT !.number = 65536, !.octets = <<65536>>])
  @@ ("10.0.0.1" :> [word EXCEPT !.number = 10, !.octets = <<10, 0, 0, 1>>])
  @@ ("10.0.1" :> [word EXCEPT !.number = 10, !.octets = <<10, 0, 1>>])
  @@ ("10.0.0.256" :> [word EXCEPT !.number = 10, !.octets = <<10, 0, 0, 256>>])
  @@ ("10.0.0.1." :> [word EXCEPT !.number = 10, !.octets = <<10, 0, 0, 1>>,
                                  !.endsInDot = TRUE])

\* All lines of up to two arguments and, of a few arguments, of up to four.
ClientLines ==
  UNION {[1..n -> DOMAIN Arguments] : n \in 0..2}
  \cup UNION {[1..n -> {"--subscribe", "--publish", "--list-topics", "--debug", "news"}] : n \in 3..4}

Given(options) ==
  {<<>>} \cup {<<o>> : o \in options}
  \cup {<<o, p>> : o \in options, p \in options}

settingGroups == {<<"--port", "9000">>, <<"--server-port", "9000">>,
                  <<"--server-address", "10.0.0.1">>, <<"--debug">>}

plain == {"news", "hello", "9000"}

commandGroups(names, texts) ==
  {<<c>> \o ts : c \in {"--subscribe", "--get-topic-status"},
                 ts \in [1..1 -> names] \cup [1..2 -> names]}
  \cup {<<"--publish", t, m>> : t \in names, m \in texts}
  \cup {<<"--list-topics">>}

IntentsFrom(names, texts) ==
  {before \o <<c>> \o after :
     before \in Given(settingGroups), after \in {<<>>} \cup {<<o>> : o \in settingGroups},
     c \in commandGroups(names, texts)}

\* What is published may look like an option, a name that is subscribed to
\* may not.
ClientIntents == IntentsFrom(plain, plain \cup {"--help", "a-b"})

-----------------------------------------------------------------------------
(* server.exe.                                                             *)

Words ==
  [w \in {"--help", "--port", "--topic-timeout", "--debug", "--message-timeout",
          "soon"} |-> NotANumber]
  @@ ("-1" :> -1) @@ ("0" :> 0) @@ ("5" :> 5) @@ ("65535" :> 65535)
  @@ ("65536" :> 65536)

ShortServerLines == UNION {[1..n -> DOMAIN Words] : n \in 0..3}

UpTo3(groups) == UNION {[1..n -> groups] : n \in 1..3}

\* README.md:85-91, and main.cpp:32.
DocumentedIntents ==
  UpTo3({<<"--help">>, <<"--debug">>, <<"--port", "0">>, <<"--port", "5">>,
         <<"--port", "65535">>, <<"--topic-timeout", "0">>,
         <<"--topic-timeout", "5">>, <<"--message-timeout", "5">>})
=============================================================================
