------------------------- MODULE ServerCommandLine -------------------------
(***************************************************************************)
(* How main of server.exe (src/server/main.cpp) reads its command line, one*)
(* turn of its loop after the other, and the Server it then constructs.    *)
(***************************************************************************)
EXTENDS Integers, SequencesExt

CONSTANTS
  Number,    \* what stoi makes of each argument, or NotANumber
  Lines,     \* command lines of any kind, sequences of arguments
  Intents    \* what a user may want: sequences of <<option, value>> or
             \* <<option>>, as README.md:85-91 and main.cpp:32 name them

NotANumber == -1000000

VARIABLES
  intent,          \* what the user meant by the line, or Nonsense
  argv,
  i,               \* the argument main looks at
  pc,              \* "parsing", "serving" or "exited"
  exitCode,
  port,
  topicTimeout,
  usagePrinted

serverLineVars ==
  <<intent, argv, i, pc, exitCode, port, topicTimeout, usagePrinted>>

Nonsense == <<>>

ServerLineInit ==
  /\ \/ intent = Nonsense /\ argv \in Lines
     \/ intent \in Intents /\ argv = FlattenSeq(intent)
  /\ i = 1
  /\ pc = "parsing"
  /\ exitCode = 0
  /\ port = 8080
  /\ topicTimeout = 30
  /\ usagePrinted = FALSE

more == pc = "parsing" /\ i <= Len(argv)

arg == argv[i]

\* stoi(argv[i + 1]) throws when it is no number, and also when there is
\* none: a string made of the null pointer that ends argv is a logic_error.
valueNumber == IF i < Len(argv) THEN Number[argv[i + 1]] ELSE NotANumber

exit(code) == pc' = "exited" /\ exitCode' = code

go(n) == i' = i + n /\ UNCHANGED <<pc, exitCode>>

Help ==
  /\ more /\ arg = "--help"
  /\ usagePrinted' = TRUE
  /\ exit(0)
  /\ UNCHANGED <<intent, argv, i, port, topicTimeout>>

MaxPort == 65535

\* A plausible bug of the next one: the port 0 is an ordinary port.
portInRangeButZero(n) == n \in 1..MaxPort

portInRange(n) == n \in 0..MaxPort

Port ==
  /\ more /\ arg = "--port"
  /\ port' = IF valueNumber = NotANumber THEN port ELSE valueNumber
  /\ IF valueNumber # NotANumber /\ portInRange(valueNumber)
     THEN go(2)
     ELSE exit(1) /\ UNCHANGED i
  /\ UNCHANGED <<intent, argv, topicTimeout, usagePrinted>>

\* Any number will do, a negative one too.
TopicTimeout ==
  /\ more /\ arg = "--topic-timeout"
  /\ topicTimeout' = IF valueNumber = NotANumber THEN topicTimeout ELSE valueNumber
  /\ IF valueNumber # NotANumber
     THEN go(2)
     ELSE exit(1) /\ UNCHANGED i
  /\ UNCHANGED <<intent, argv, port, usagePrinted>>

Debug ==
  /\ more /\ arg = "--debug"
  /\ go(1)
  /\ UNCHANGED <<intent, argv, port, topicTimeout, usagePrinted>>

Invalid ==
  /\ more /\ arg \notin {"--help", "--port", "--topic-timeout", "--debug"}
  /\ usagePrinted' = TRUE
  /\ exit(1)
  /\ UNCHANGED <<intent, argv, i, port, topicTimeout>>

\* Without any argument too.
Start ==
  /\ pc = "parsing" /\ i > Len(argv)
  /\ pc' = "serving"
  /\ UNCHANGED <<intent, argv, i, exitCode, port, topicTimeout, usagePrinted>>

ServerLineNext ==
  Help \/ Port \/ TopicTimeout \/ Debug \/ Invalid \/ Start

ServerLineSpec == ServerLineInit /\ [][ServerLineNext]_serverLineVars

-----------------------------------------------------------------------------
(* Properties.                                                             *)

\* Options that a document of the repository names, with values in their
\* range: those of README.md:85-91, and the one that main.cpp:32 calls
\* --message-timeout.
isIntent(groups) ==
  /\ groups \in Seq(Seq(DOMAIN Number))
  /\ \A g \in DOMAIN groups :
       \/ groups[g] \in {<<"--help">>, <<"--debug">>}
       \/ /\ Len(groups[g]) = 2
          /\ \/ groups[g][1] = "--port" /\ Number[groups[g][2]] \in 0..MaxPort
             \/ /\ groups[g][1] \in {"--topic-timeout", "--message-timeout"}
                /\ Number[groups[g][2]] # NotANumber

\* The last value that the intent gives to the option.
given(option, default) ==
  LET at == {n \in DOMAIN intent : intent[n][1] = option}
  IN  IF at = {} THEN default
      ELSE Number[intent[CHOOSE n \in at : \A m \in at : m <= n][2]]

Ending == {"--help", "--message-timeout"}

\* The first option at which the server is not started.
endsAt(n) ==
  /\ intent[n][1] \in Ending
  /\ \A m \in 1..(n - 1) : intent[m][1] \notin Ending

(* README.md:85-91: with options that are described there the server is    *)
(* constructed with what the line says and the defaults otherwise, and     *)
(* when help is asked for, help is all that is printed. The example in     *)
(* main.cpp:32 does not run: its --message-timeout is refused like any     *)
(* word that is no option (main.cpp:89-95). Whatever follows one of these  *)
(* two is not looked at.                                                   *)
DocumentedLinesRun ==
  intent # Nonsense /\ pc # "parsing" =>
    \/ /\ \A n \in DOMAIN intent : intent[n][1] \notin Ending
       /\ pc = "serving"
       /\ port = given("--port", 8080)
       /\ topicTimeout = given("--topic-timeout", 30)
    \/ \E n \in DOMAIN intent :
         /\ endsAt(n)
         /\ pc = "exited" /\ usagePrinted
         /\ exitCode = IF intent[n][1] = "--help" THEN 0 ELSE 1
=============================================================================
