------------------------- MODULE CommandLineProofs -------------------------
(***************************************************************************)
(* Both loops over the arguments understand what README.md describes, for  *)
(* lines of any length, and a subscriber stays. A line that is meant to be *)
(* read is a sequence of groups, an option or a command each; the          *)
(* invariants ClientInv and ServerInv say that a loop is always at the     *)
(* first argument of a group and has done what the groups before it ask.   *)
(***************************************************************************)
EXTENDS MCCommandLines, VectorProofs

-----------------------------------------------------------------------------
(* Where the groups of a line are in it.                                   *)

\* at[g] arguments of the line belong to the first g groups.
AreGroupsAt(at, groups, line) ==
  /\ at \in [0..Len(groups) -> Nat]
  /\ at[0] = 0
  /\ at[Len(groups)] = Len(line)
  /\ \A g \in 1..Len(groups) :
       /\ at[g] = at[g - 1] + Len(groups[g])
       /\ at[g] <= Len(line)
       /\ \A n \in 1..Len(groups[g]) : line[at[g - 1] + n] = groups[g][n]

ends(groups) == CHOOSE at : AreGroupsAt(at, groups, FlattenSeq(groups))

\* Later ones begin with earlier ones.
KeepPlaces(f, n) ==
  \A k, m \in 1..n : k <= m =>
    Len(f[k]) <= Len(f[m]) /\ \A j \in 1..Len(f[k]) : f[m][j] = f[k][j]

(* What is concatenated stays where it was put.                            *)
LEMMA GroupsKeepTheirPlace ==
  ASSUME NEW S, NEW n \in Nat, NEW groups \in [1..n -> Seq(S)],
         NEW f \in [1..n -> Seq(S)],
         \A h \in 2..n : f[h] = f[h - 1] \o groups[h]
  PROVE  KeepPlaces(f, n)
<1> DEFINE Kept(k, m) == /\ Len(f[k]) <= Len(f[m])
                         /\ \A j \in 1..Len(f[k]) : f[m][j] = f[k][j]
           Good == {m \in Nat : m \in 1..n => \A k \in 1..n : k <= m => Kept(k, m)}
<1>1. 0 \in Good
  OBVIOUS
<1>2. ASSUME NEW m \in Nat, m \in Good PROVE m + 1 \in Good
  <2>1. SUFFICES ASSUME m + 1 \in 1..n, NEW k \in 1..n, k <= m + 1 PROVE Kept(k, m + 1)
    OBVIOUS
  <2>2. CASE k = m + 1
    BY <2>2
  <2>3. CASE k # m + 1
    <3>1. m \in 1..n /\ k <= m /\ m + 1 \in 2..n /\ (m + 1) - 1 = m
      BY <2>1, <2>3
    <3>2. Kept(k, m)
      BY <1>2, <3>1
    <3>3. f[m + 1] = f[m] \o groups[m + 1]
      BY <3>1
    <3>4. f[m] \in Seq(S) /\ groups[m + 1] \in Seq(S) /\ f[k] \in Seq(S)
      BY <2>1, <3>1
    <3>5. /\ Len(f[m + 1]) = Len(f[m]) + Len(groups[m + 1])
          /\ \A j \in 1..Len(f[m]) : f[m + 1][j] = f[m][j]
      <4> DEFINE s == f[m]
                 t == groups[m + 1]
      <4>1. s \in Seq(S) /\ t \in Seq(S)
        BY <3>4
      <4> HIDE DEF s, t
      <4>2. /\ Len(s \o t) = Len(s) + Len(t)
            /\ \A j \in 1..Len(s) : (s \o t)[j] = s[j]
        BY <4>1
      <4> QED
        BY <3>3, <4>2 DEF s, t
    <3>6. Len(f[k]) \in Nat /\ Len(f[m]) \in Nat /\ Len(groups[m + 1]) \in Nat
      BY <3>4
    <3>7. \A j \in 1..Len(f[k]) : j \in 1..Len(f[m])
      BY <3>2, <3>6
    <3>8. \A j \in 1..Len(f[k]) : f[m + 1][j] = f[k][j]
      BY <3>2, <3>5, <3>7
    <3>9. Len(f[k]) <= Len(f[m + 1])
      <4> DEFINE a == Len(f[k])
                 b == Len(f[m])
                 c == Len(f[m + 1])
                 d == Len(groups[m + 1])
      <4>1. a <= b /\ c = b + d /\ a \in Nat /\ b \in Nat /\ d \in Nat
        BY <3>2, <3>5, <3>6
      <4> HIDE DEF a, b, c, d
      <4>2. a <= c
        BY <4>1
      <4> QED
        BY <4>2 DEF a, c
    <3> QED
      BY <3>8, <3>9
  <2> QED
    BY <2>2, <2>3
<1>3. Nat \subseteq Good
  <2> HIDE DEF Good
  <2> QED
    BY <1>1, <1>2, NatSetInduction
<1>4. ASSUME NEW k \in 1..n, NEW m \in 1..n, k <= m PROVE Kept(k, m)
  BY <1>3, <1>4
<1> QED
  BY <1>4 DEF KeepPlaces

(* Each group of a line is in its place.                                   *)
LEMMA GroupsHavePlaces ==
  ASSUME NEW S, NEW groups \in Seq(Seq(S))
  PROVE  /\ FlattenSeq(groups) \in Seq(S)
         /\ \E at : AreGroupsAt(at, groups, FlattenSeq(groups))
<1> DEFINE n == Len(groups)
           line == FlattenSeq(groups)
<1>1. n \in Nat /\ \A h \in 1..n : groups[h] \in Seq(S)
  OBVIOUS
<1>2. CASE groups = <<>>
  <2> DEFINE at == [k \in 0..0 |-> 0]
  <2>1. line = <<>>
    BY <1>2 DEF FlattenSeq
  <2>2. <<>> \in Seq(S) /\ Len(groups) = 0
    BY <1>2
  <2>3. AreGroupsAt(at, groups, <<>>)
    BY <1>2, <2>2 DEF AreGroupsAt
  <2> HIDE DEF at
  <2> QED
    BY <2>1, <2>2, <2>3
<1>3. CASE groups # <<>>
  <2>1. PICK f \in [1..n -> Seq(S)] :
          /\ f[1] = groups[1]
          /\ \A h \in 2..n : f[h] = f[h - 1] \o groups[h]
          /\ line = f[n]
    BY <1>3, FlattenUnfolds
  <2>2. n \in 1..n
    BY <1>1, <1>3
  <2>3. line \in Seq(S) /\ Len(line) = Len(f[n])
    BY <2>1, <2>2
  <2> DEFINE at == [k \in 0..n |-> IF k = 0 THEN 0 ELSE Len(f[k])]
  <2>4. KeepPlaces(f, n)
    <3>1. groups \in [1..n -> Seq(S)]
      OBVIOUS
    <3>2. \A h \in 2..n : f[h] = f[h - 1] \o groups[h]
      BY <2>1
    <3>3. f \in [1..n -> Seq(S)]
      OBVIOUS
    <3> HIDE DEF n, line
    <3> QED
      BY <1>1, <3>1, <3>2, <3>3, GroupsKeepTheirPlace, Zenon
  <2>5. \A k \in 1..n : at[k] = Len(f[k]) /\ Len(f[k]) \in Nat
    BY <1>1, <2>1
  <2>6. at[0] = 0 /\ at \in [0..n -> Nat]
    <3>1. \A k \in 0..n : at[k] \in Nat
      <4>1. \A k \in 0..n : k = 0 \/ k \in 1..n
        BY <1>1
      <4> QED
        BY <2>5, <4>1
    <3> QED
      BY <1>1, <3>1
  <2>7. at[n] = Len(line)
    BY <2>2, <2>3, <2>5
  <2> HIDE DEF at
  <2>8. ASSUME NEW g \in 1..n
        PROVE  /\ at[g] = at[g - 1] + Len(groups[g])
               /\ at[g] <= Len(line)
               /\ \A j \in 1..Len(groups[g]) : line[at[g - 1] + j] = groups[g][j]
    <3>1. groups[g] \in Seq(S) /\ f[g] \in Seq(S) /\ Len(groups[g]) \in Nat
      <4>1. groups[g] \in Seq(S)
        BY <1>1
      <4>2. f[g] \in Seq(S)
        BY <2>1
      <4> QED
        BY <4>1, <4>2
    <3>2. /\ Len(f[g]) = at[g - 1] + Len(groups[g])
          /\ \A j \in 1..Len(groups[g]) : f[g][at[g - 1] + j] = groups[g][j]
      <4>1. CASE g = 1
        BY <2>1, <2>6, <3>1, <4>1
      <4>2. CASE g # 1
        <5>1. g \in 2..n /\ g - 1 \in 1..n
          BY <1>1, <4>2
        <5>2. f[g] = f[g - 1] \o groups[g] /\ at[g - 1] = Len(f[g - 1])
          BY <2>1, <2>5, <5>1
        <5>3. f[g - 1] \in Seq(S)
          BY <2>1, <5>1
        <5> DEFINE s == f[g - 1]
                   t == groups[g]
        <5>4. s \in Seq(S) /\ t \in Seq(S)
          BY <3>1, <5>3
        <5> HIDE DEF s, t
        <5>5. /\ Len(s \o t) = Len(s) + Len(t)
              /\ \A j \in 1..Len(t) : (s \o t)[Len(s) + j] = t[j]
          BY <5>4
        <5> QED
          BY <5>2, <5>5 DEF s, t
      <4> QED
        BY <4>1, <4>2
    <3>3. g <= n /\ at[g] = Len(f[g]) /\ at[g - 1] \in Nat
      <4>1. g - 1 \in 0..n
        BY <1>1
      <4> QED
        BY <1>1, <2>5, <2>6, <4>1
    <3>4. Len(f[g]) <= Len(f[n]) /\ \A j \in 1..Len(f[g]) : f[n][j] = f[g][j]
      BY <2>2, <2>4, <3>3 DEF KeepPlaces
    <3>5. ASSUME NEW j \in 1..Len(groups[g]) PROVE line[at[g - 1] + j] = groups[g][j]
      <4>1. at[g - 1] + j \in 1..Len(f[g])
        BY <3>1, <3>2, <3>3
      <4> QED
        BY <2>1, <3>2, <3>4, <4>1
    <3> QED
      BY <2>3, <3>2, <3>3, <3>4, <3>5
  <2>9. AreGroupsAt(at, groups, line)
    BY <2>6, <2>7, <2>8 DEF AreGroupsAt
  <2> QED
    BY <2>3, <2>9
<1> QED
  BY <1>2, <1>3

(* So ends names places.                                                   *)
LEMMA EndsOfGroups ==
  ASSUME NEW S, NEW groups \in Seq(Seq(S))
  PROVE  AreGroupsAt(ends(groups), groups, FlattenSeq(groups))
BY GroupsHavePlaces DEF ends

-----------------------------------------------------------------------------
(* The loop of client.exe, on any line.                                    *)

Commands == {"--subscribe", "--publish", "--list-topics", "--get-topic-status"}

\* Topics have been subscribed to, and nothing else than commands that agree.
Subscribes == /\ command = "--subscribe" /\ arguments # <<>>
              /\ "--publish" \notin Range(taken)

ParsedInv ==
  /\ argv \in Seq(DOMAIN Text)
  /\ i \in Nat \ {0}
  /\ arguments \in Seq(DOMAIN Text)
  /\ taken \in Seq(Commands)
  /\ pc \in {"parsing", "executing"} => command \in Commands \cup {NoCommand}
  /\ command = NoCommand => arguments = <<>>
  /\ Subscribes => hasSubscribeCommand

(* The while loops take arguments up to an option or the end.              *)
LEMMA FollowingCounts ==
  ASSUME argv \in Seq(DOMAIN Text), i \in 1..Len(argv)
  PROVE  /\ following \in 0..(Len(argv) - i)
         /\ i + following = Len(argv) \/ Text[argv[i + following + 1]].dashed
         /\ \A n \in 0..(Len(argv) - i) :
              n < following => ~ (i + n = Len(argv) \/ Text[argv[i + n + 1]].dashed)
<1> DEFINE Here(n) == i + n = Len(argv) \/ Text[argv[i + n + 1]].dashed
           M == {n \in 0..(Len(argv) - i) : Here(n)}
<1>1. Len(argv) \in Nat /\ i \in Nat /\ i <= Len(argv)
  OBVIOUS
<1>2. following = Min(M)
  BY DEF following
<1>3. Len(argv) - i \in M
  BY <1>1
<1>4. M \in SUBSET Nat /\ M # {}
  <2>1. M \in SUBSET Nat
    BY <1>1
  <2> HIDE DEF M
  <2> QED
    BY <1>3, <2>1
<1>5. Min(M) \in M /\ \A y \in M : Min(M) <= y
  <2> HIDE DEF M
  <2> QED
    BY <1>4, SomeMin
<1>6. ASSUME NEW n \in 0..(Len(argv) - i), n < following PROVE ~ Here(n)
  <2>1. SUFFICES ASSUME Here(n) PROVE FALSE
    OBVIOUS
  <2>2. n \in M
    BY <2>1
  <2>3. following <= n /\ following \in Nat
    BY <1>2, <1>4, <1>5, <2>2
  <2> QED
    BY <1>6, <2>3
<1> QED
  BY <1>2, <1>5, <1>6

(* What is taken from the line.                                            *)
LEMMA PartOfLine ==
  ASSUME argv \in Seq(DOMAIN Text), i \in 1..Len(argv), NEW n \in 0..(Len(argv) - i)
  PROVE  /\ SubSeq(argv, i + 1, i + n) \in Seq(DOMAIN Text)
         /\ Len(SubSeq(argv, i + 1, i + n)) = n
         /\ \A k \in 1..n : SubSeq(argv, i + 1, i + n)[k] = argv[i + k]
         /\ n = 0 => SubSeq(argv, i + 1, i + n) = <<>>
<1> DEFINE m == i + 1
           l == i + n
           part == SubSeq(argv, m, l)
<1>1. m \in Int /\ l \in Int /\ Len(argv) \in Nat /\ n \in Nat /\ l - m + 1 = n
  OBVIOUS
<1>2. \A k \in m..l : argv[k] \in DOMAIN Text
  BY <1>1
<1> HIDE DEF m, l
<1>3. /\ part \in Seq(DOMAIN Text)
      /\ Len(part) = IF m <= l THEN l - m + 1 ELSE 0
      /\ \A k \in 1..(l - m + 1) : part[k] = argv[m + k - 1]
  BY <1>1, <1>2, SubSeqProperties
<1> HIDE DEF part
<1>4. Len(part) = n
  BY <1>1, <1>3 DEF m, l
<1>5. \A k \in 1..n : part[k] = argv[i + k]
  <2>1. \A k \in 1..n : m + k - 1 = i + k
    BY DEF m
  <2> QED
    BY <1>1, <1>3, <2>1
<1>6. n = 0 => part = <<>>
  BY <1>3, <1>4
<1> QED
  BY <1>3, <1>4, <1>5, <1>6 DEF part, m, l

(* One more command of the line keeps what is known about the loop.        *)
LEMMA TakeKeepsParsed ==
  ASSUME ParsedInv, more, NEW n \in 0..(Len(argv) - i), take(n), arg \in Commands,
         hasSubscribeCommand => hasSubscribeCommand',
         \/ arg = "--publish"
         \/ commandType # "--subscribe"
         \/ n = 0
         \/ hasSubscribeCommand'
  PROVE  ParsedInv'
<1> DEFINE part == SubSeq(argv, i + 1, i + n)
<1>1. i \in 1..Len(argv) /\ pc = "parsing" /\ Len(argv) \in Nat
  BY DEF ParsedInv, more
<1>2. part \in Seq(DOMAIN Text) /\ (n = 0 => part = <<>>)
  BY <1>1, PartOfLine DEF ParsedInv
<1>3. /\ command' = commandType
      /\ arguments' = arguments \o part
      /\ taken' = Append(taken, arg)
      /\ i' = i + n + 1
      /\ argv' = argv /\ pc' = pc
  BY DEF take
<1> HIDE DEF part
<1>4. arguments' \in Seq(DOMAIN Text) /\ taken' \in Seq(Commands) /\ i' \in Nat \ {0}
  <2>1. arguments \in Seq(DOMAIN Text) /\ taken \in Seq(Commands) /\ i \in Nat
    BY DEF ParsedInv
  <2>2. arguments' \in Seq(DOMAIN Text)
    BY <1>2, <1>3, <2>1
  <2>3. taken' \in Seq(Commands)
    BY <1>3, <2>1
  <2>4. i + n + 1 \in Nat \ {0}
    BY <2>1
  <2> QED
    BY <1>3, <2>2, <2>3, <2>4
<1>5. commandType \in Commands
  BY <1>1 DEF commandType, ParsedInv
<1>6. command' # NoCommand
  BY <1>3, <1>5 DEF Commands, NoCommand
<1>7. ASSUME Subscribes' PROVE hasSubscribeCommand'
  <2>1. commandType = "--subscribe" /\ arguments' # <<>> /\ "--publish" \notin Range(taken')
    BY <1>3, <1>7 DEF Subscribes
  <2>2. /\ DOMAIN taken' = 1..(Len(taken) + 1)
        /\ taken'[Len(taken) + 1] = arg
        /\ \A k \in 1..Len(taken) : taken'[k] = taken[k]
        /\ DOMAIN taken = 1..Len(taken) /\ Len(taken) \in Nat
    <3>1. taken \in Seq(Commands)
      BY DEF ParsedInv
    <3> QED
      BY <1>3, <3>1
  <2>3. arg # "--publish"
    <3>1. Len(taken) + 1 \in DOMAIN taken'
      BY <2>2
    <3> QED
      BY <2>1, <2>2, <3>1 DEF Range
  <2>4. "--publish" \notin Range(taken)
    <3>1. \A k \in DOMAIN taken : k \in DOMAIN taken' /\ taken'[k] = taken[k]
      BY <2>2
    <3> QED
      BY <2>1, <3>1 DEF Range
  <2>5. CASE n = 0
    <3>1. arguments' = arguments
      <4>1. arguments \in Seq(DOMAIN Text)
        BY DEF ParsedInv
      <4> QED
        BY <1>2, <1>3, <2>5, <4>1
    <3>2. command # NoCommand
      BY <2>1, <3>1 DEF ParsedInv
    <3>3. command = "--subscribe"
      BY <2>1, <3>2 DEF commandType
    <3> QED
      BY <2>1, <2>4, <3>1, <3>3 DEF ParsedInv, Subscribes
  <2>6. CASE n # 0
    BY <2>1, <2>3, <2>6
  <2> QED
    BY <2>5, <2>6
<1>8. (pc \in {"parsing", "executing"} => command \in Commands \cup {NoCommand})'
  BY <1>3, <1>5
<1>9. (argv \in Seq(DOMAIN Text))'
  BY <1>3 DEF ParsedInv
<1> QED
  BY <1>4, <1>6, <1>7, <1>8, <1>9 DEF ParsedInv

(* What is known about the loop stays known when the line, the command and *)
(* its arguments stay.                                                     *)
LEMMA ParsedFrame ==
  ASSUME ParsedInv, UNCHANGED <<argv, commandVars>>, i' \in Nat \ {0},
         pc' \in {"parsing", "executing"} => pc \in {"parsing", "executing"}
  PROVE  ParsedInv'
<1>1. /\ argv' = argv /\ command' = command /\ arguments' = arguments
      /\ hasSubscribeCommand' = hasSubscribeCommand /\ taken' = taken
  BY DEF commandVars
<1>2. Subscribes' => hasSubscribeCommand'
  BY <1>1 DEF Subscribes, ParsedInv
<1>3. (pc \in {"parsing", "executing"} => command \in Commands \cup {NoCommand})'
  BY <1>1 DEF ParsedInv
<1> QED
  BY <1>1, <1>2, <1>3 DEF ParsedInv

\* Each action of client.exe but the four that take a command of the line.
Otherwise ==
  \/ Port \/ ServerAddress \/ ServerPort \/ Help \/ Debug \/ Unknown
  \/ Start \/ Execute \/ ExecuteNothing \/ Enter

(* None of the other actions changes what is known about the commands.     *)
LEMMA OthersKeepParsed ==
  ASSUME ParsedInv, Otherwise
  PROVE  ParsedInv'
<1>1. i \in Nat \ {0} /\ i + 1 \in Nat \ {0} /\ i + 2 \in Nat \ {0}
  BY DEF ParsedInv
<1>2. ASSUME UNCHANGED <<argv, commandVars>>, i' \in {i, i + 1, i + 2},
             pc' \in {"parsing", "executing"} => pc \in {"parsing", "executing"}
      PROVE  ParsedInv'
  BY <1>1, <1>2, ParsedFrame
<1>3. CASE Port
  BY <1>2, <1>3 DEF Port, setting, exit
<1>4. CASE ServerAddress
  BY <1>2, <1>4 DEF ServerAddress, setting, exit
<1>5. CASE ServerPort
  BY <1>2, <1>5 DEF ServerPort, setting, exit
<1>6. CASE Help
  BY <1>2, <1>6 DEF Help, exit
<1>7. CASE Debug
  BY <1>2, <1>7 DEF Debug
<1>8. CASE Unknown
  <2>1. /\ pc' = "exited" /\ command' = commandType
        /\ UNCHANGED <<argv, i, arguments, hasSubscribeCommand, taken>>
    BY <1>8 DEF Unknown, exit
  <2>2. /\ pc = "parsing" /\ arg \notin {"--debug"}
    BY <1>8 DEF Unknown, more, isSetting
  <2>3. argv' \in Seq(DOMAIN Text) /\ i' \in Nat \ {0}
    BY <2>1 DEF ParsedInv
  <2>4. arguments' \in Seq(DOMAIN Text) /\ taken' \in Seq(Commands)
    BY <2>1 DEF ParsedInv
  <2>5. command = NoCommand => arguments = <<>>
    BY DEF ParsedInv
  <2>6. command # NoCommand => commandType = command
    BY DEF commandType
  <2>7. command' = NoCommand => arguments' = <<>>
    BY <2>1, <2>5, <2>6
  <2>8. Subscribes' => hasSubscribeCommand'
    BY <2>1, <2>5, <2>6 DEF ParsedInv, Subscribes
  <2>9. pc' \notin {"parsing", "executing"}
    BY <2>1
  <2> QED
    BY <2>3, <2>4, <2>7, <2>8, <2>9 DEF ParsedInv
<1>9. CASE Start
  BY <1>2, <1>9 DEF Start, exit
<1>10. CASE Execute
  BY <1>2, <1>10 DEF Execute
<1>11. CASE ExecuteNothing
  BY <1>2, <1>11 DEF ExecuteNothing, exit
<1>12. CASE Enter
  BY <1>2, <1>12 DEF Enter, exit
<1> QED
  BY <1>3, <1>4, <1>5, <1>6, <1>7, <1>8, <1>9, <1>10, <1>11, <1>12 DEF Otherwise

(* Every step of client.exe keeps what is known about the loop.            *)
LEMMA ParsedStep ==
  ASSUME ParsedInv, [CommandLineNext]_clVars
  PROVE  ParsedInv'
<1>1. CASE Otherwise
  BY <1>1, OthersKeepParsed
<1>2. CASE Subscribe
  <2>1. /\ more /\ arg = "--subscribe" /\ take(following)
        /\ hasSubscribeCommand' = subscribing
    BY <1>2 DEF Subscribe, isSubscribe
  <2>2. i \in 1..Len(argv)
    BY <2>1 DEF ParsedInv, more
  <2>3. following \in 0..(Len(argv) - i)
    BY <2>2, FollowingCounts DEF ParsedInv
  <2>4. following = 0 \/ hasSubscribeCommand'
    <3>1. following \in Nat
      BY <2>3
    <3>2. following = 0 \/ following > 0
      BY <3>1
    <3> QED
      BY <2>1, <3>2 DEF subscribing
  <2>5. hasSubscribeCommand => hasSubscribeCommand'
    BY <2>1 DEF subscribing
  <2>6. arg \in Commands
    BY <2>1 DEF Commands
  <2> QED
    BY <2>1, <2>3, <2>4, <2>5, <2>6, TakeKeepsParsed
<1>3. CASE Publish
  <2>1. /\ more /\ arg = "--publish" /\ has(2) /\ take(2)
        /\ hasSubscribeCommand' = hasSubscribeCommand
    BY <1>3 DEF Publish, isPublish
  <2>2. 2 \in 0..(Len(argv) - i)
    BY <2>1 DEF ParsedInv, more, has
  <2>3. arg \in Commands
    BY <2>1 DEF Commands
  <2> QED
    BY <2>1, <2>2, <2>3, TakeKeepsParsed
<1>4. CASE ListTopics
  <2>1. /\ more /\ arg = "--list-topics" /\ arg = commandType /\ take(0)
        /\ hasSubscribeCommand' = hasSubscribeCommand
    BY <1>4 DEF ListTopics, isListTopics
  <2>2. 0 \in 0..(Len(argv) - i)
    BY <2>1 DEF ParsedInv, more
  <2>3. arg \in Commands /\ commandType # "--subscribe"
    BY <2>1 DEF Commands
  <2> QED
    BY <2>1, <2>2, <2>3, TakeKeepsParsed
<1>5. CASE GetTopicStatus
  <2>1. /\ more /\ arg = "--get-topic-status" /\ arg = commandType /\ take(following)
        /\ hasSubscribeCommand' = hasSubscribeCommand
    BY <1>5 DEF GetTopicStatus, isGetTopicStatus
  <2>2. i \in 1..Len(argv)
    BY <2>1 DEF ParsedInv, more
  <2>3. following \in 0..(Len(argv) - i)
    BY <2>2, FollowingCounts DEF ParsedInv
  <2>4. arg \in Commands /\ commandType # "--subscribe"
    BY <2>1 DEF Commands
  <2> QED
    BY <2>1, <2>3, <2>4, TakeKeepsParsed
<1>6. CASE UNCHANGED clVars
  <2>1. i \in Nat \ {0}
    BY DEF ParsedInv
  <2>2. UNCHANGED <<argv, commandVars>> /\ i' = i /\ pc' = pc
    BY <1>6 DEF clVars
  <2> QED
    BY <2>1, <2>2, ParsedFrame
<1> QED
  BY <1>1, <1>2, <1>3, <1>4, <1>5, <1>6 DEF CommandLineNext, Otherwise

(* What client.exe asks for is the command, and nothing for no topics.     *)
LEMMA RequestsOfCommand ==
  ASSUME NEW kind \in Commands, NEW about \in Seq(DOMAIN Text),
         requestsOf(kind, about) # <<>>
  PROVE  /\ requestsOf(kind, about)[1].command = kind
         /\ kind \in {"--subscribe", "--get-topic-status"} => about # <<>>
<1>1. CASE kind \in {"--subscribe", "--get-topic-status"}
  <2>1. requestsOf(kind, about) = [a \in DOMAIN about |-> Request(kind, <<about[a]>>)]
    BY <1>1 DEF requestsOf
  <2>2. about # <<>>
    <3>1. SUFFICES ASSUME about = <<>> PROVE requestsOf(kind, about) = <<>>
      OBVIOUS
    <3>2. DOMAIN about = {}
      BY <3>1
    <3> QED
      BY <2>1, <3>2
  <2>3. 1 \in DOMAIN about
    BY <2>2
  <2> QED
    BY <2>1, <2>2, <2>3 DEF Request
<1>2. CASE kind = "--publish"
  BY <1>2 DEF requestsOf, Request
<1>3. CASE kind = "--list-topics"
  BY <1>3 DEF requestsOf, Request
<1> QED
  BY <1>1, <1>2, <1>3 DEF Commands

lineVars == <<program, clVars, serverOnly>>

\* Nothing is asked for before the command is executed, and by a server.
AskedInv == pc \in {"parsing", "executing"} \/ program = "server" => requests = <<>>

LoopInv == /\ program \in {"client", "server"}
           /\ program = "client" => ParsedInv
           /\ AskedInv

(* It holds of a line that nobody has begun to read.                       *)
LEMMA LoopInit ==
  LinesInit => LoopInv
<1> SUFFICES ASSUME LinesInit PROVE LoopInv
  OBVIOUS
<1>1. CASE program = "client"
  <2>1. CommandLineInit
    BY <1>1 DEF LinesInit
  <2>2. argv \in Seq(DOMAIN Text)
    <3>1. CASE argv \in Lines
      BY <3>1, ClientCommandLineAssumption
    <3>2. CASE intent \in Intents /\ argv = FlattenSeq(intent)
      <4>1. intent \in Seq(Seq(DOMAIN Text))
        BY <3>2, IntentsAssumption DEF isIntent
      <4> QED
        BY <3>2, <4>1, GroupsHavePlaces
    <3> QED
      BY <2>1, <3>1, <3>2 DEF CommandLineInit
  <2>3. /\ i = 1 /\ command = NoCommand /\ arguments = <<>> /\ taken = <<>>
        /\ requests = <<>>
    BY <2>1 DEF CommandLineInit
  <2>4. ~ Subscribes
    BY <2>3 DEF Subscribes
  <2>5. arguments \in Seq(DOMAIN Text) /\ taken \in Seq(Commands)
    BY <2>3
  <2>6. ParsedInv
    BY <2>2, <2>3, <2>4, <2>5 DEF ParsedInv
  <2> QED
    BY <1>1, <2>3, <2>6 DEF LoopInv, AskedInv
<1>2. CASE program = "server"
  BY <1>2 DEF LinesInit, LoopInv, AskedInv
<1> QED
  BY <1>1, <1>2 DEF LinesInit

(* A request is made when a command is executed only.                      *)
LEMMA AskedStep ==
  ASSUME AskedInv, program = "client", program' = program, [CommandLineNext]_clVars
  PROVE  AskedInv'
<1>1. CASE Execute
  BY <1>1 DEF Execute, AskedInv
<1>2. CASE ~ Execute
  <2>1. requests' = requests /\ (pc' \in {"parsing", "executing"} => pc \in {"parsing", "executing"})
    <3>1. CASE Port
      BY <3>1 DEF Port, setting, exit
    <3>2. CASE ServerAddress
      BY <3>2 DEF ServerAddress, setting, exit
    <3>3. CASE ServerPort
      BY <3>3 DEF ServerPort, setting, exit
    <3>4. CASE Help \/ Debug \/ Unknown
      BY <3>4 DEF Help, Debug, Unknown, exit
    <3>5. CASE Subscribe \/ Publish \/ ListTopics \/ GetTopicStatus
      BY <3>5 DEF Subscribe, Publish, ListTopics, GetTopicStatus, take
    <3>6. CASE Start \/ ExecuteNothing \/ Enter
      BY <3>6 DEF Start, ExecuteNothing, Enter, exit
    <3>7. CASE UNCHANGED clVars
      BY <3>7 DEF clVars
    <3> QED
      BY <1>2, <3>1, <3>2, <3>3, <3>4, <3>5, <3>6, <3>7 DEF CommandLineNext
  <2> QED
    BY <2>1 DEF AskedInv
<1> QED
  BY <1>1, <1>2

(* Every step of either program keeps it.                                  *)
LEMMA LoopStep ==
  LoopInv /\ [LinesNext]_lineVars => LoopInv'
<1> SUFFICES ASSUME LoopInv, [LinesNext]_lineVars PROVE LoopInv'
  OBVIOUS
<1>1. program' = program
  BY DEF LinesNext, lineVars
<1>2. CASE program = "client"
  <2>1. [CommandLineNext]_clVars
    BY <1>2 DEF LinesNext, lineVars
  <2>2. ParsedInv'
    BY <1>2, <2>1, ParsedStep DEF LoopInv
  <2>3. AskedInv'
    BY <1>1, <1>2, <2>1, AskedStep DEF LoopInv
  <2> QED
    BY <1>1, <1>2, <2>2, <2>3 DEF LoopInv
<1>3. CASE program = "server"
  <2>1. requests' = requests
    BY <1>3 DEF LinesNext, lineVars, clVars, clientOnly
  <2> QED
    BY <1>1, <1>3, <2>1 DEF LoopInv, AskedInv
<1> QED
  BY <1>2, <1>3 DEF LoopInv

(* So it always holds.                                                     *)
LEMMA LoopAlways ==
  LinesSpec => []LoopInv
<1>1. LinesSpec => LinesInit /\ [][LinesNext]_lineVars
  BY DEF LinesSpec, lineVars
<1> QED
  BY <1>1, LoopInit, LoopStep, PTL

(* main.cpp:28: a client that has subscribed waits for the ENTER key,      *)
(* whatever line it was given.                                             *)
THEOREM SubscribersWait ==
  LinesSpec => SubscribersStay
<1> DEFINE Stays == pc = "executing" /\ requests' # <<>> =>
                      \/ requests'[1].command # "--subscribe"
                      \/ "--publish" \in Range(taken)
                      \/ pc' = "waiting"
<1>1. LoopInv /\ [LinesNext]_lineVars => [Stays]_clVars
  <2> SUFFICES ASSUME LoopInv, [LinesNext]_lineVars, pc = "executing", requests' # <<>>
      PROVE  Stays \/ UNCHANGED clVars
    OBVIOUS
  <2>1. CASE program = "client"
    <3>1. [CommandLineNext]_clVars
      BY <2>1 DEF LinesNext, lineVars
    <3>2. CASE Execute
      <4>1. ParsedInv
        BY <2>1 DEF LoopInv
      <4>2. /\ command \in Commands /\ arguments \in Seq(DOMAIN Text)
            /\ requests' = requestsOf(command, arguments)
            /\ pc' = IF hasSubscribeCommand THEN "waiting" ELSE "exited"
        BY <3>2, <4>1 DEF Execute, ParsedInv
      <4>3. /\ requests'[1].command = command
            /\ command \in {"--subscribe", "--get-topic-status"} => arguments # <<>>
        BY <4>2, RequestsOfCommand
      <4>4. CASE command = "--subscribe" /\ "--publish" \notin Range(taken)
        <5>1. Subscribes
          BY <4>3, <4>4 DEF Subscribes
        <5>2. hasSubscribeCommand
          BY <4>1, <5>1 DEF ParsedInv
        <5> QED
          BY <4>2, <5>2
      <4> QED
        BY <4>3, <4>4
    <3>3. CASE ExecuteNothing
      <4>1. requests' = requests
        BY <3>3 DEF ExecuteNothing
      <4> QED
        BY <4>1 DEF LoopInv, AskedInv
    <3>4. CASE CommandLineNext /\ ~ Execute /\ ~ ExecuteNothing
      <4>1. pc \in {"parsing", "waiting"}
        BY <3>4 DEF CommandLineNext, Port, ServerAddress, ServerPort, Help, Debug, Unknown,
             Subscribe, Publish, ListTopics, GetTopicStatus, Start, Enter, more
      <4> QED
        BY <4>1
    <3> QED
      BY <3>1, <3>2, <3>3, <3>4
  <2>2. CASE program = "server"
    <3>1. requests' = requests
      BY <2>2 DEF LinesNext, lineVars, clVars, clientOnly
    <3> QED
      BY <2>2, <3>1 DEF LoopInv, AskedInv
  <2> QED
    BY <2>1, <2>2 DEF LoopInv
<1>2. LinesSpec => [][LinesNext]_lineVars
  BY DEF LinesSpec, lineVars
<1>3. SubscribersStay <=> [][Stays]_clVars
  BY DEF SubscribersStay
<1> HIDE DEF Stays
<1> QED
  BY <1>1, <1>2, <1>3, LoopAlways, PTL

-----------------------------------------------------------------------------
(* The loop of server.exe, on a line of the form of the README.            *)

(* Where a group of a line begins, and the next one.                       *)
LEMMA AtGroup ==
  ASSUME NEW S, NEW groups \in Seq(Seq(S)), NEW k \in 0..Len(groups), k # Len(groups)
  PROVE  /\ ends(groups)[k] \in Nat
         /\ k + 1 \in 1..Len(groups)
         /\ Len(groups[k + 1]) \in Nat
         /\ ends(groups)[k + 1] = ends(groups)[k] + Len(groups[k + 1])
         /\ ends(groups)[k] + Len(groups[k + 1]) <= Len(FlattenSeq(groups))
         /\ \A n \in 1..Len(groups[k + 1]) :
              FlattenSeq(groups)[ends(groups)[k] + n] = groups[k + 1][n]
<1> DEFINE at == ends(groups)
           line == FlattenSeq(groups)
<1>1. AreGroupsAt(at, groups, line)
  BY EndsOfGroups
<1>2. Len(groups) \in Nat /\ k + 1 \in 1..Len(groups) /\ (k + 1) - 1 = k
  OBVIOUS
<1>3. groups[k + 1] \in Seq(S)
  BY <1>2
<1> HIDE DEF at, line
<1>4. at[k] \in Nat
  BY <1>1 DEF AreGroupsAt
<1>5. /\ at[k + 1] = at[k] + Len(groups[k + 1])
      /\ at[k + 1] <= Len(line)
      /\ \A n \in 1..Len(groups[k + 1]) : line[at[k] + n] = groups[k + 1][n]
  BY <1>1, <1>2 DEF AreGroupsAt
<1> QED
  BY <1>2, <1>3, <1>4, <1>5 DEF at, line

(* And where the last one ends.                                            *)
LEMMA AtEnd ==
  ASSUME NEW S, NEW groups \in Seq(Seq(S))
  PROVE  /\ ends(groups)[0] = 0
         /\ ends(groups)[Len(groups)] = Len(FlattenSeq(groups))
BY EndsOfGroups DEF AreGroupsAt

\* What the first k groups of the intent say of an option is x.
Settled(k, option, default, x) ==
  \/ x = default /\ \A m \in 1..k : intent[m][1] # option
  \/ \E n \in 1..k :
       /\ intent[n][1] = option
       /\ x = ServerNumber[intent[n][2]]
       /\ \A m \in 1..k : m > n => intent[m][1] # option

ServerHasRead(k) ==
  /\ i = ends(intent)[k] + 1
  /\ \A g \in 1..k : intent[g][1] \notin ServerLine!Ending
  /\ Settled(k, "--port", 8080, port)
  /\ Settled(k, "--topic-timeout", 30, topicTimeout)

ServerInv ==
  /\ intent # Nonsense =>
       /\ intent \in ServerIntents
       /\ argv = FlattenSeq(intent)
       /\ pc = "parsing" => \E k \in 0..Len(intent) : ServerHasRead(k)
  /\ ServerLine!DocumentedLinesRun

(* A group that is not about the option leaves its value as it is.         *)
LEMMA SettledStays ==
  ASSUME NEW k \in Nat, NEW option, NEW default, NEW x,
         Settled(k, option, default, x), intent[k + 1][1] # option
  PROVE  Settled(k + 1, option, default, x)
<1>1. \A m \in 1..(k + 1) : m \in 1..k \/ m = k + 1
  OBVIOUS
<1>2. CASE x = default /\ \A m \in 1..k : intent[m][1] # option
  BY <1>1, <1>2 DEF Settled
<1>3. CASE \E n \in 1..k : /\ intent[n][1] = option
                           /\ x = ServerNumber[intent[n][2]]
                           /\ \A m \in 1..k : m > n => intent[m][1] # option
  <2>1. PICK n \in 1..k : /\ intent[n][1] = option
                          /\ x = ServerNumber[intent[n][2]]
                          /\ \A m \in 1..k : m > n => intent[m][1] # option
    BY <1>3
  <2>2. n \in 1..(k + 1)
    OBVIOUS
  <2>3. \A m \in 1..(k + 1) : m > n => intent[m][1] # option
    BY <1>1, <2>1
  <2> QED
    BY <2>1, <2>2, <2>3 DEF Settled
<1> QED
  BY <1>2, <1>3 DEF Settled

(* One that is sets it.                                                    *)
LEMMA SettledNow ==
  ASSUME NEW k \in Nat, NEW option, NEW default, intent[k + 1][1] = option
  PROVE  Settled(k + 1, option, default, ServerNumber[intent[k + 1][2]])
<1>1. k + 1 \in 1..(k + 1) /\ \A m \in 1..(k + 1) : ~ (m > k + 1)
  OBVIOUS
<1> QED
  BY <1>1 DEF Settled

(* What all groups say is what the intent gives.                           *)
LEMMA SettledIsGiven ==
  ASSUME NEW S, intent \in Seq(S), NEW option, NEW default, NEW x,
         Settled(Len(intent), option, default, x)
  PROVE  x = ServerLine!given(option, default)
<1> DEFINE at == {n \in DOMAIN intent : intent[n][1] = option}
           last == CHOOSE n \in at : \A m \in at : m <= n
<1>1. DOMAIN intent = 1..Len(intent) /\ Len(intent) \in Nat
  OBVIOUS
<1>2. ServerLine!given(option, default)
      = IF at = {} THEN default ELSE ServerNumber[intent[last][2]]
  BY DEF ServerLine!given
<1>3. CASE x = default /\ \A m \in 1..Len(intent) : intent[m][1] # option
  <2>1. at = {}
    BY <1>1, <1>3
  <2> HIDE DEF at
  <2> QED
    BY <1>2, <1>3, <2>1
<1>4. CASE \E n \in 1..Len(intent) :
             /\ intent[n][1] = option
             /\ x = ServerNumber[intent[n][2]]
             /\ \A m \in 1..Len(intent) : m > n => intent[m][1] # option
  <2>1. PICK n \in 1..Len(intent) :
             /\ intent[n][1] = option
             /\ x = ServerNumber[intent[n][2]]
             /\ \A m \in 1..Len(intent) : m > n => intent[m][1] # option
    BY <1>4
  <2>2. n \in at
    BY <1>1, <2>1
  <2>3. \A m \in at : m <= n
    BY <1>1, <2>1
  <2>4. at \subseteq Nat
    BY <1>1
  <2> HIDE DEF at
  <2>5. last \in at /\ n <= last
    BY <2>2, <2>3
  <2> HIDE DEF last
  <2>6. last = n
    BY <2>2, <2>3, <2>4, <2>5
  <2> QED
    BY <1>2, <2>1, <2>2, <2>6
<1> QED
  BY <1>3, <1>4 DEF Settled

(* One turn of the loop of server.exe reads a group of the line.           *)
LEMMA ServerReads ==
  ASSUME ServerInv, intent # Nonsense, pc = "parsing", ServerLine!ServerLineNext,
         NEW k \in 0..Len(intent), ServerHasRead(k), k # Len(intent)
  PROVE  /\ pc' = "parsing" => ServerHasRead(k + 1)'
         /\ pc' # "parsing" =>
              /\ k + 1 \in DOMAIN intent /\ ServerLine!endsAt(k + 1)
              /\ pc' = "exited" /\ usagePrinted'
              /\ exitCode' = IF intent[k + 1][1] = "--help" THEN 0 ELSE 1
<1> DEFINE S == DOMAIN ServerNumber
           group == intent[k + 1]
           line == FlattenSeq(intent)
<1>1. intent \in ServerIntents /\ argv = line
  BY DEF ServerInv
<1>2. ServerLine!isIntent(intent)
  BY <1>1, ServerIntentsAssumption
<1>3. intent \in Seq(Seq(S))
  BY <1>2 DEF ServerLine!isIntent
<1>4. /\ ends(intent)[k] \in Nat
      /\ k + 1 \in 1..Len(intent)
      /\ Len(group) \in Nat
      /\ ends(intent)[k + 1] = ends(intent)[k] + Len(group)
      /\ ends(intent)[k] + Len(group) <= Len(line)
      /\ \A n \in 1..Len(group) : line[ends(intent)[k] + n] = group[n]
  BY <1>3, AtGroup
<1>5. i = ends(intent)[k] + 1 /\ k \in Nat
  BY DEF ServerHasRead
<1>6. /\ k + 1 \in DOMAIN intent
      /\ \/ group \in {<<"--help">>, <<"--debug">>}
         \/ /\ Len(group) = 2
            /\ \/ group[1] = "--port" /\ ServerNumber[group[2]] \in 0..ServerLine!MaxPort
               \/ group[1] = "--topic-timeout" /\ ServerNumber[group[2]] # ServerLine!NotANumber
               \/ group[1] = "--message-timeout"
  <2>1. k + 1 \in DOMAIN intent
    BY <1>3, <1>4
  <2> QED
    BY <1>2, <2>1 DEF ServerLine!isIntent
<1>7. Len(argv) \in Nat /\ i \in Nat
  <2>1. line \in Seq(S)
    BY <1>3, GroupsHavePlaces
  <2> QED
    BY <1>1, <1>4, <1>5, <2>1
<1> HIDE DEF S, line
<1>8. ASSUME Len(group) >= 1 PROVE argv[i] = group[1] /\ i <= Len(argv)
  <2>1. 1 \in 1..Len(group)
    BY <1>4, <1>8
  <2> QED
    BY <1>1, <1>4, <1>5, <1>7, <1>8, <2>1
<1>9. ASSUME Len(group) = 2 PROVE argv[i + 1] = group[2] /\ i < Len(argv)
  <2>1. 2 \in 1..Len(group) /\ i + 1 = ends(intent)[k] + 2
    BY <1>4, <1>5, <1>9
  <2> QED
    BY <1>1, <1>4, <1>5, <1>7, <1>9, <2>1
<1>10. ASSUME i' = i + Len(group), intent' = intent, group[1] \notin ServerLine!Ending,
              Settled(k + 1, "--port", 8080, port'),
              Settled(k + 1, "--topic-timeout", 30, topicTimeout')
       PROVE  ServerHasRead(k + 1)'
  <2>1. i' = ends(intent)[k + 1] + 1
    BY <1>4, <1>5, <1>10
  <2>2. \A g \in 1..(k + 1) : intent[g][1] \notin ServerLine!Ending
    <3>1. \A g \in 1..(k + 1) : g \in 1..k \/ g = k + 1
      BY <1>5
    <3> QED
      BY <1>10, <3>1 DEF ServerHasRead
  <2>3. Settled(k + 1, "--port", 8080, port)'
    BY <1>10 DEF Settled
  <2>4. Settled(k + 1, "--topic-timeout", 30, topicTimeout)'
    BY <1>10 DEF Settled
  <2> QED
    BY <1>10, <2>1, <2>2, <2>3, <2>4 DEF ServerHasRead
<1>11. /\ Settled(k, "--port", 8080, port)
       /\ Settled(k, "--topic-timeout", 30, topicTimeout)
  BY DEF ServerHasRead
<1>12. group[1] \in ServerLine!Ending => ServerLine!endsAt(k + 1)
  <2>1. 1..((k + 1) - 1) = 1..k
    BY <1>5
  <2> QED
    BY <2>1 DEF ServerHasRead, ServerLine!endsAt
<1>13. CASE group = <<"--help">>
  <2>1. Len(group) = 1 /\ group[1] = "--help"
    BY <1>13
  <2>2. argv[i] = "--help" /\ i <= Len(argv)
    BY <1>8, <2>1
  <2>3. ServerLine!Help
    BY <1>7, <2>2 DEF ServerLine!ServerLineNext, ServerLine!Port, ServerLine!TopicTimeout,
         ServerLine!Debug, ServerLine!Invalid, ServerLine!Start, ServerLine!arg
  <2>4. ServerLine!endsAt(k + 1)
    BY <1>12, <2>1 DEF ServerLine!Ending
  <2> QED
    BY <1>6, <2>1, <2>3, <2>4 DEF ServerLine!Help, ServerLine!exit
<1>14. CASE group = <<"--debug">>
  <2>1. Len(group) = 1 /\ group[1] = "--debug"
    BY <1>14
  <2>2. argv[i] = "--debug" /\ i <= Len(argv)
    BY <1>8, <2>1
  <2>3. ServerLine!Debug
    BY <1>7, <2>2 DEF ServerLine!ServerLineNext, ServerLine!Port, ServerLine!TopicTimeout,
         ServerLine!Help, ServerLine!Invalid, ServerLine!Start, ServerLine!arg
  <2>4. /\ i' = i + 1 /\ pc' = pc /\ intent' = intent
        /\ port' = port /\ topicTimeout' = topicTimeout
    BY <2>3 DEF ServerLine!Debug, ServerLine!go
  <2>5. Settled(k + 1, "--port", 8080, port)
    BY <1>5, <1>11, <2>1, SettledStays
  <2>6. Settled(k + 1, "--topic-timeout", 30, topicTimeout)
    BY <1>5, <1>11, <2>1, SettledStays
  <2>7. group[1] \notin ServerLine!Ending
    BY <2>1 DEF ServerLine!Ending
  <2> QED
    BY <1>10, <2>1, <2>4, <2>5, <2>6, <2>7
<1>15. CASE Len(group) = 2 /\ group[1] = "--port" /\ ServerNumber[group[2]] \in 0..ServerLine!MaxPort
  <2>1. argv[i] = "--port" /\ argv[i + 1] = group[2] /\ i < Len(argv)
    BY <1>4, <1>8, <1>9, <1>15
  <2>2. ServerLine!Port
    BY <1>7, <2>1 DEF ServerLine!ServerLineNext, ServerLine!Debug, ServerLine!TopicTimeout,
         ServerLine!Help, ServerLine!Invalid, ServerLine!Start, ServerLine!arg
  <2>3. ServerLine!valueNumber = ServerNumber[group[2]]
    BY <2>1 DEF ServerLine!valueNumber
  <2>4. /\ ServerLine!valueNumber # ServerLine!NotANumber
        /\ ServerLine!portInRange(ServerLine!valueNumber)
    <3>1. ServerLine!MaxPort \in Nat
      BY DEF ServerLine!MaxPort
    <3> QED
      BY <1>15, <2>3, <3>1 DEF ServerLine!NotANumber, ServerLine!portInRange
  <2>5. /\ i' = i + 2 /\ pc' = pc /\ intent' = intent
        /\ port' = ServerNumber[group[2]] /\ topicTimeout' = topicTimeout
    BY <2>2, <2>3, <2>4 DEF ServerLine!Port, ServerLine!go
  <2>6. Settled(k + 1, "--port", 8080, port')
    <3>1. intent[k + 1][1] = "--port"
      BY <1>15
    <3>2. Settled(k + 1, "--port", 8080, ServerNumber[intent[k + 1][2]])
      BY <1>5, <3>1, SettledNow
    <3> QED
      BY <2>5, <3>2
  <2>7. Settled(k + 1, "--topic-timeout", 30, topicTimeout')
    <3>1. group[1] # "--topic-timeout"
      BY <1>15
    <3> QED
      BY <1>5, <1>11, <2>5, <3>1, SettledStays
  <2>8. group[1] \notin ServerLine!Ending
    BY <1>15 DEF ServerLine!Ending
  <2> QED
    BY <1>10, <1>15, <2>5, <2>6, <2>7, <2>8
<1>16. CASE /\ Len(group) = 2 /\ group[1] = "--topic-timeout"
            /\ ServerNumber[group[2]] # ServerLine!NotANumber
  <2>1. argv[i] = "--topic-timeout" /\ argv[i + 1] = group[2] /\ i < Len(argv)
    BY <1>4, <1>8, <1>9, <1>16
  <2>2. ServerLine!TopicTimeout
    BY <1>7, <2>1 DEF ServerLine!ServerLineNext, ServerLine!Debug, ServerLine!Port,
         ServerLine!Help, ServerLine!Invalid, ServerLine!Start, ServerLine!arg
  <2>3. ServerLine!valueNumber = ServerNumber[group[2]]
    BY <2>1 DEF ServerLine!valueNumber
  <2>4. /\ i' = i + 2 /\ pc' = pc /\ intent' = intent
        /\ topicTimeout' = ServerNumber[group[2]] /\ port' = port
    BY <1>16, <2>2, <2>3 DEF ServerLine!TopicTimeout, ServerLine!go
  <2>5. Settled(k + 1, "--topic-timeout", 30, topicTimeout')
    BY <1>5, <1>16, <2>4, SettledNow
  <2>6. Settled(k + 1, "--port", 8080, port')
    <3>1. group[1] # "--port"
      BY <1>16
    <3> QED
      BY <1>5, <1>11, <2>4, <3>1, SettledStays
  <2>7. group[1] \notin ServerLine!Ending
    BY <1>16 DEF ServerLine!Ending
  <2> QED
    BY <1>10, <1>16, <2>4, <2>5, <2>6, <2>7
<1>17. CASE Len(group) = 2 /\ group[1] = "--message-timeout"
  <2>1. argv[i] = "--message-timeout" /\ i <= Len(argv)
    BY <1>4, <1>8, <1>17
  <2>2. ServerLine!Invalid
    BY <1>7, <2>1 DEF ServerLine!ServerLineNext, ServerLine!Port, ServerLine!TopicTimeout,
         ServerLine!Help, ServerLine!Debug, ServerLine!Start, ServerLine!arg
  <2>3. ServerLine!endsAt(k + 1)
    BY <1>12, <1>17 DEF ServerLine!Ending
  <2> QED
    BY <1>6, <1>17, <2>2, <2>3 DEF ServerLine!Invalid, ServerLine!exit
<1> QED
  BY <1>6, <1>13, <1>14, <1>15, <1>16, <1>17

(* The Server is constructed behind the last group.                        *)
LEMMA ServerStarts ==
  ASSUME ServerInv, intent # Nonsense, pc = "parsing", ServerLine!ServerLineNext,
         ServerHasRead(Len(intent))
  PROVE  /\ pc' = "serving" /\ intent' = intent
         /\ port' = ServerLine!given("--port", 8080)
         /\ topicTimeout' = ServerLine!given("--topic-timeout", 30)
         /\ \A n \in DOMAIN intent : intent[n][1] \notin ServerLine!Ending
<1> DEFINE S == DOMAIN ServerNumber
<1>1. intent \in ServerIntents /\ argv = FlattenSeq(intent)
  BY DEF ServerInv
<1>2. intent \in Seq(Seq(S))
  BY <1>1, ServerIntentsAssumption DEF ServerLine!isIntent
<1>3. argv \in Seq(S)
  BY <1>1, <1>2, GroupsHavePlaces
<1>4. i = Len(argv) + 1
  <2>1. i = ends(intent)[Len(intent)] + 1
    BY DEF ServerHasRead
  <2>2. ends(intent)[Len(intent)] = Len(FlattenSeq(intent))
    BY <1>2, AtEnd
  <2> QED
    BY <1>1, <2>1, <2>2
<1>5. ~ (i <= Len(argv))
  BY <1>3, <1>4
<1>6. ServerLine!Start
  BY <1>5 DEF ServerLine!ServerLineNext, ServerLine!Port, ServerLine!TopicTimeout,
       ServerLine!Help, ServerLine!Debug, ServerLine!Invalid, ServerLine!more
<1>7. pc' = "serving" /\ intent' = intent /\ port' = port /\ topicTimeout' = topicTimeout
  BY <1>6 DEF ServerLine!Start
<1>8. port = ServerLine!given("--port", 8080)
  BY <1>2, SettledIsGiven DEF ServerHasRead
<1>9. topicTimeout = ServerLine!given("--topic-timeout", 30)
  BY <1>2, SettledIsGiven DEF ServerHasRead
<1>10. \A n \in DOMAIN intent : intent[n][1] \notin ServerLine!Ending
  <2>1. DOMAIN intent = 1..Len(intent)
    BY <1>2
  <2> QED
    BY <2>1 DEF ServerHasRead
<1> QED
  BY <1>7, <1>8, <1>9, <1>10

(* Whichever group comes next, what the loop has done is what was meant.   *)
LEMMA ServerStep ==
  ASSUME ServerInv, [ServerLine!ServerLineNext]_(ServerLine!serverLineVars)
  PROVE  ServerInv'
<1>1. CASE UNCHANGED ServerLine!serverLineVars
  <2>1. /\ intent' = intent /\ argv' = argv /\ i' = i /\ pc' = pc /\ exitCode' = exitCode
        /\ port' = port /\ topicTimeout' = topicTimeout /\ usagePrinted' = usagePrinted
    BY <1>1 DEF ServerLine!serverLineVars
  <2>2. \A k : ServerHasRead(k)' <=> ServerHasRead(k)
    BY <2>1 DEF ServerHasRead, Settled
  <2>3. ServerLine!DocumentedLinesRun' <=> ServerLine!DocumentedLinesRun
    BY <2>1 DEF ServerLine!DocumentedLinesRun, ServerLine!endsAt, ServerLine!given
  <2> QED
    BY <2>1, <2>2, <2>3 DEF ServerInv
<1>2. CASE ServerLine!ServerLineNext
  <2>1. pc = "parsing" /\ intent' = intent /\ argv' = argv
    BY <1>2 DEF ServerLine!ServerLineNext, ServerLine!Port, ServerLine!TopicTimeout,
         ServerLine!Help, ServerLine!Debug, ServerLine!Invalid, ServerLine!Start,
         ServerLine!more
  <2>2. CASE intent = Nonsense
    BY <2>1, <2>2 DEF ServerInv, ServerLine!DocumentedLinesRun, ServerLine!Nonsense, Nonsense
  <2>3. CASE intent # Nonsense
    <3>1. PICK k \in 0..Len(intent) : ServerHasRead(k)
      BY <2>1, <2>3 DEF ServerInv
    <3>2. (intent # Nonsense => intent \in ServerIntents /\ argv = FlattenSeq(intent))'
      BY <2>1, <2>3 DEF ServerInv
    <3>3. intent \in Seq(Seq(DOMAIN ServerNumber))
      BY <2>3, ServerIntentsAssumption DEF ServerInv, ServerLine!isIntent
    <3>4. Len(intent) \in Nat
      BY <3>3
    <3>5. \A n : ServerLine!endsAt(n)' <=> ServerLine!endsAt(n)
      BY <2>1 DEF ServerLine!endsAt
    <3>6. CASE k # Len(intent)
      <4>1. k + 1 \in 0..Len(intent)
        BY <3>4, <3>6
      <4>2. /\ pc' = "parsing" => ServerHasRead(k + 1)'
            /\ pc' # "parsing" =>
                 /\ k + 1 \in DOMAIN intent /\ ServerLine!endsAt(k + 1)
                 /\ pc' = "exited" /\ usagePrinted'
                 /\ exitCode' = IF intent[k + 1][1] = "--help" THEN 0 ELSE 1
        BY <1>2, <2>1, <2>3, <3>1, <3>6, ServerReads
      <4>3. (pc = "parsing" => \E m \in 0..Len(intent) : ServerHasRead(m))'
        BY <2>1, <4>1, <4>2
      <4>4. ServerLine!DocumentedLinesRun'
        BY <2>1, <3>5, <4>2 DEF ServerLine!DocumentedLinesRun
      <4> QED
        BY <3>2, <4>3, <4>4 DEF ServerInv
    <3>7. CASE k = Len(intent)
      <4>1. /\ pc' = "serving"
            /\ port' = ServerLine!given("--port", 8080)
            /\ topicTimeout' = ServerLine!given("--topic-timeout", 30)
            /\ \A n \in DOMAIN intent : intent[n][1] \notin ServerLine!Ending
        BY <1>2, <2>1, <2>3, <3>1, <3>7, ServerStarts
      <4>2. ServerLine!given("--port", 8080)' = ServerLine!given("--port", 8080)
        BY <2>1 DEF ServerLine!given
      <4>3. ServerLine!given("--topic-timeout", 30)' = ServerLine!given("--topic-timeout", 30)
        BY <2>1 DEF ServerLine!given
      <4>4. ServerLine!DocumentedLinesRun'
        BY <2>1, <4>1, <4>2, <4>3 DEF ServerLine!DocumentedLinesRun
      <4> QED
        BY <3>2, <4>1, <4>4 DEF ServerInv
    <3> QED
      BY <3>6, <3>7
  <2> QED
    BY <2>2, <2>3
<1> QED
  BY <1>1, <1>2

(* Before the first turn nothing has been read.                            *)
LEMMA ServerStartsReading ==
  ASSUME ServerLine!ServerLineInit
  PROVE  ServerInv
<1>1. /\ i = 1 /\ pc = "parsing" /\ port = 8080 /\ topicTimeout = 30
      /\ intent # Nonsense => intent \in ServerIntents /\ argv = FlattenSeq(intent)
  <2>1. i = 1 /\ pc = "parsing" /\ port = 8080 /\ topicTimeout = 30
    BY DEF ServerLine!ServerLineInit
  <2>2. intent # Nonsense => intent \in ServerIntents /\ argv = FlattenSeq(intent)
    <3>1. ServerLine!FlattenSeq(intent) = FlattenSeq(intent)
      BY DEF ServerLine!FlattenSeq, FlattenSeq
    <3> QED
      BY <3>1, Zenon DEF ServerLine!ServerLineInit, ServerLine!Nonsense, Nonsense
  <2> QED
    BY <2>1, <2>2
<1>2. ServerLine!DocumentedLinesRun
  BY <1>1 DEF ServerLine!DocumentedLinesRun
<1>3. ASSUME intent # Nonsense PROVE 0 \in 0..Len(intent) /\ ServerHasRead(0)
  <2>1. intent \in Seq(Seq(DOMAIN ServerNumber))
    BY <1>1, <1>3, ServerIntentsAssumption DEF ServerLine!isIntent
  <2>2. ends(intent)[0] = 0 /\ 0 \in 0..Len(intent)
    BY <2>1, AtEnd
  <2>3. \A m \in 1..0 : FALSE
    OBVIOUS
  <2> QED
    BY <1>1, <2>2, <2>3 DEF ServerHasRead, Settled
<1> QED
  BY <1>1, <1>2, <1>3 DEF ServerInv

(* README.md:85-91: server.exe does what a line of options says that are   *)
(* described there, and refuses the one of main.cpp:32                     *)
(* (src/server/main.cpp:37-105).                                           *)
THEOREM ServersDoWhatIsAsked ==
  LinesSpec => []ServerLinesRun
<1> DEFINE Reads == program = "server" => ServerInv
<1>1. LinesInit => Reads
  BY ServerStartsReading DEF LinesInit
<1>2. Reads /\ [LinesNext]_lineVars => Reads'
  <2> SUFFICES ASSUME Reads, [LinesNext]_lineVars, program' = "server" PROVE ServerInv'
    OBVIOUS
  <2>1. program = "server"
    BY DEF LinesNext, lineVars
  <2>2. [ServerLine!ServerLineNext]_(ServerLine!serverLineVars)
    BY <2>1 DEF LinesNext, lineVars, clVars, settings, serverOnly, ServerLine!serverLineVars
  <2> QED
    BY <2>1, <2>2, ServerStep
<1>3. Reads => ServerLinesRun
  BY DEF ServerInv, ServerLinesRun
<1>4. LinesSpec => LinesInit /\ [][LinesNext]_lineVars
  BY DEF LinesSpec, lineVars
<1> HIDE DEF Reads
<1> QED
  BY <1>1, <1>2, <1>3, <1>4, PTL

-----------------------------------------------------------------------------
(* The loop of client.exe, on a line of the form of the README.            *)

numbers == [w \in DOMAIN Text |-> Text[w].number]
itself == [w \in DOMAIN Text |-> w]

\* What the first k groups of the intent say of a setting is x.
Says(k, option, taking, default, x) ==
  \/ x = default /\ \A m \in 1..k : intent[m][1] # option
  \/ \E n \in 1..k : intent[n][1] = option /\ x = taking[intent[n][2]]

\* These are the values that the first k groups give the three settings.
SettingsAreRead(k, p, s, a) ==
  /\ Says(k, "--port", numbers, 0, p)
  /\ Says(k, "--server-port", numbers, 8080, s)
  /\ Says(k, "--server-address", itself, "127.0.0.1", a)

\* The command among the first k groups has been taken, with its arguments.
CommandIsRead(k) ==
  \/ /\ \A g \in 1..k : isSettingGroup(intent[g])
     /\ command = NoCommand /\ arguments = <<>>
  \/ \E c \in 1..k :
       /\ isCommandGroup(intent[c])
       /\ command = intent[c][1] /\ arguments = Tail(intent[c])

ClientHasRead(k) ==
  /\ i = ends(intent)[k] + 1
  /\ SettingsAreRead(k, port, serverPort, serverAddress)
  /\ CommandIsRead(k)

ClientInv ==
  /\ intent # Nonsense =>
       /\ intent \in Intents
       /\ argv = FlattenSeq(intent)
       /\ pc = "parsing" => \E k \in 0..Len(intent) : ClientHasRead(k)
       /\ pc = "executing" => ClientHasRead(Len(intent))
  /\ WellFormedLinesRun

(* A group about something else leaves a setting as it is.                 *)
LEMMA SaysStays ==
  ASSUME NEW k \in Nat, NEW option, NEW taking, NEW default, NEW x,
         Says(k, option, taking, default, x), intent[k + 1][1] # option
  PROVE  Says(k + 1, option, taking, default, x)
<1>1. (\A m \in 1..(k + 1) : m \in 1..k \/ m = k + 1) /\ \A m \in 1..k : m \in 1..(k + 1)
  OBVIOUS
<1> QED
  BY <1>1 DEF Says

(* One about it sets it.                                                   *)
LEMMA SaysNow ==
  ASSUME NEW k \in Nat, NEW option, NEW taking, NEW default, intent[k + 1][1] = option
  PROVE  Says(k + 1, option, taking, default, taking[intent[k + 1][2]])
<1>1. k + 1 \in 1..(k + 1)
  OBVIOUS
<1> QED
  BY <1>1 DEF Says

(* What all groups say is what is given, as no setting has two values.     *)
LEMMA SaysIsGiven ==
  ASSUME isIntent(intent), NEW option, NEW taking, NEW default, NEW x,
         Says(Len(intent), option, taking, default, x)
  PROVE  x = given(option, taking, default)
<1> DEFINE at == {n \in DOMAIN intent : intent[n][1] = option}
           values == {intent[g][2] : g \in at}
           some == CHOOSE v \in values : TRUE
<1>1. DOMAIN intent = 1..Len(intent)
  BY DEF isIntent
<1>2. given(option, taking, default) = IF values = {} THEN default ELSE taking[some]
  BY DEF given
<1>3. CASE x = default /\ \A m \in 1..Len(intent) : intent[m][1] # option
  <2>1. at = {}
    BY <1>1, <1>3
  <2> HIDE DEF at
  <2>2. values = {}
    BY <2>1
  <2> HIDE DEF values
  <2> QED
    BY <1>2, <1>3, <2>2
<1>4. CASE \E n \in 1..Len(intent) : intent[n][1] = option /\ x = taking[intent[n][2]]
  <2>1. PICK n \in 1..Len(intent) : intent[n][1] = option /\ x = taking[intent[n][2]]
    BY <1>4
  <2>2. n \in at
    BY <1>1, <2>1
  <2>3. \A m \in at : intent[m] = intent[n]
    BY <1>1, <2>1 DEF isIntent
  <2> HIDE DEF at
  <2>4. intent[n][2] \in values /\ \A v \in values : v = intent[n][2]
    BY <2>2, <2>3
  <2> HIDE DEF values
  <2>5. some = intent[n][2] /\ values # {}
    BY <2>4
  <2> HIDE DEF some
  <2> QED
    BY <1>2, <2>1, <2>5
<1> QED
  BY <1>3, <1>4 DEF Says

(* Settings and commands are told apart by their first argument.           *)
LEMMA GroupKinds ==
  ASSUME NEW group \in Seq(DOMAIN Text)
  PROVE  /\ isSettingGroup(group) => /\ group[1] \in Options \ Commands
                                     /\ Len(group) \in {1, 2}
         /\ isCommandGroup(group) => /\ group[1] \in Commands
                                     /\ Len(group) \in Nat \ {0}
<1>1. ASSUME isSettingGroup(group)
      PROVE  group[1] \in Options \ Commands /\ Len(group) \in {1, 2}
  <2>1. CASE group = <<"--debug">>
    BY <2>1 DEF Options, Commands
  <2>2. CASE /\ Len(group) = 2
             /\ group[1] \in {"--port", "--server-port", "--server-address"}
    BY <2>2 DEF Options, Commands
  <2>3. \/ group = <<"--debug">>
        \/ /\ Len(group) = 2
           /\ group[1] \in {"--port", "--server-port", "--server-address"}
    BY <1>1 DEF isSettingGroup
  <2> QED
    BY <2>1, <2>2, <2>3
<1>2. ASSUME isCommandGroup(group)
      PROVE  group[1] \in Commands /\ Len(group) \in Nat \ {0}
  <2>1. CASE group[1] \in {"--subscribe", "--get-topic-status"} /\ Len(group) >= 2
    <3>1. Len(group) \in Nat
      OBVIOUS
    <3> QED
      BY <2>1, <3>1 DEF Commands
  <2>2. CASE group[1] = "--publish" /\ Len(group) = 3
    BY <2>2 DEF Commands
  <2>3. CASE group = <<"--list-topics">>
    BY <2>3 DEF Commands
  <2> QED
    BY <1>2, <2>1, <2>2, <2>3 DEF isCommandGroup
<1> QED
  BY <1>1, <1>2

(* Of pieces of which all but one are empty, that one remains.             *)
LEMMA FlattenOne ==
  ASSUME NEW S, NEW pieces \in Seq(Seq(S)), NEW c \in 1..Len(pieces),
         \A g \in 1..Len(pieces) : g # c => pieces[g] = <<>>
  PROVE  FlattenSeq(pieces) = pieces[c]
<1> DEFINE n == Len(pieces)
<1>1. n \in Nat /\ n \in 1..n /\ c \in 1..n /\ 1 \in 1..n
  OBVIOUS
<1>2. pieces # <<>>
  OBVIOUS
<1>3. PICK f \in [1..n -> Seq(S)] :
        /\ f[1] = pieces[1]
        /\ \A h \in 2..n : f[h] = f[h - 1] \o pieces[h]
        /\ FlattenSeq(pieces) = f[n]
  BY <1>2, FlattenUnfolds
<1>4. /\ pieces[c] \in Seq(S)
      /\ <<>> \o pieces[c] = pieces[c]
      /\ pieces[c] \o <<>> = pieces[c]
      /\ <<>> \o <<>> = <<>>
  OBVIOUS
<1>5. \A g \in 1..n : g # c => pieces[g] = <<>>
  OBVIOUS
<1> HIDE DEF n
<1> DEFINE Good == {m \in Nat : m \in 1..n =>
                      /\ m < c => f[m] = <<>>
                      /\ m >= c => f[m] = pieces[c]}
<1>6. 0 \in Good
  BY <1>1
<1>7. ASSUME NEW m \in Nat, m \in Good PROVE m + 1 \in Good
  <2>1. SUFFICES ASSUME m + 1 \in 1..n
        PROVE  /\ m + 1 < c => f[m + 1] = <<>>
               /\ m + 1 >= c => f[m + 1] = pieces[c]
    OBVIOUS
  <2>2. CASE m = 0
    <3>1. m + 1 = 1
      BY <2>2
    <3>2. CASE c = 1
      BY <1>3, <3>1, <3>2
    <3>3. CASE c # 1
      <4>1. pieces[1] = <<>> /\ 1 < c
        BY <1>1, <1>5, <3>3
      <4> QED
        BY <1>1, <1>3, <3>1, <4>1
    <3> QED
      BY <3>2, <3>3
  <2>3. CASE m # 0
    <3>1. m \in 1..n /\ m + 1 \in 2..n /\ (m + 1) - 1 = m
      BY <1>1, <2>1, <2>3
    <3>2. f[m + 1] = f[m] \o pieces[m + 1]
      BY <1>3, <3>1
    <3>3. (m < c => f[m] = <<>>) /\ (m >= c => f[m] = pieces[c])
      BY <1>7, <3>1
    <3>4. CASE m + 1 < c
      <4>1. m < c /\ m + 1 # c
        BY <1>1, <3>4
      <4>2. pieces[m + 1] = <<>> /\ f[m] = <<>>
        BY <1>5, <2>1, <3>3, <4>1
      <4> QED
        BY <1>1, <1>4, <3>2, <3>4, <4>2
    <3>5. CASE m + 1 = c
      <4>1. m < c
        BY <1>1, <3>5
      <4>2. f[m] = <<>> /\ pieces[m + 1] = pieces[c]
        BY <3>3, <3>5, <4>1
      <4>3. f[m + 1] = pieces[c]
        BY <1>4, <3>2, <4>2
      <4> QED
        BY <1>1, <3>5, <4>3
    <3>6. CASE m + 1 > c
      <4>1. m >= c /\ m + 1 # c
        BY <1>1, <3>6
      <4>2. pieces[m + 1] = <<>> /\ f[m] = pieces[c]
        BY <1>5, <2>1, <3>3, <4>1
      <4>3. f[m + 1] = pieces[c]
        BY <1>4, <3>2, <4>2
      <4> QED
        BY <1>1, <3>6, <4>3
    <3> QED
      BY <1>1, <3>4, <3>5, <3>6
  <2> QED
    BY <2>2, <2>3
<1>8. Nat \subseteq Good
  <2> HIDE DEF Good
  <2> QED
    BY <1>6, <1>7, NatSetInduction
<1>9. n >= c
  BY <1>1
<1> QED
  BY <1>1, <1>3, <1>8, <1>9

AnyRequest == [command : Commands, arguments : Seq(DOMAIN Text)]

(* The requests of a command are those that are asked for.                 *)
LEMMA AsksForCommand ==
  ASSUME NEW group \in Seq(DOMAIN Text), isCommandGroup(group)
  PROVE  /\ asks(group) = requestsOf(group[1], Tail(group))
         /\ asks(group) \in Seq(AnyRequest)
<1>1. /\ Tail(group) \in Seq(DOMAIN Text)
      /\ Len(Tail(group)) = Len(group) - 1
      /\ \A n \in 1..(Len(group) - 1) : Tail(group)[n] = group[n + 1]
      /\ group[1] \in Commands /\ Len(group) \in Nat \ {0}
  <2>1. group[1] \in Commands /\ Len(group) \in Nat \ {0}
    BY GroupKinds
  <2>2. group # <<>>
    BY <2>1
  <2> QED
    BY <2>1, <2>2
<1> DEFINE topics == Tail(group)
<1>2. CASE group[1] \in {"--subscribe", "--get-topic-status"}
  <2> DEFINE r == [n \in 1..(Len(group) - 1) |->
                     [command |-> group[1], arguments |-> <<group[n + 1]>>]]
  <2>1. asks(group) = r
    BY <1>2 DEF asks
  <2>2. requestsOf(group[1], topics)
        = [a \in DOMAIN topics |-> Request(group[1], <<topics[a]>>)]
    BY <1>2 DEF requestsOf
  <2>3. DOMAIN topics = 1..(Len(group) - 1)
    BY <1>1
  <2>4. \A a \in 1..(Len(group) - 1) :
          Request(group[1], <<topics[a]>>)
          = [command |-> group[1], arguments |-> <<group[a + 1]>>]
    BY <1>1 DEF Request
  <2>5. r = requestsOf(group[1], topics)
    <3> HIDE DEF topics
    <3> QED
      BY <2>2, <2>3, <2>4
  <2>6. r \in Seq(AnyRequest)
    <3>1. \A n \in 1..(Len(group) - 1) :
            [command |-> group[1], arguments |-> <<group[n + 1]>>] \in AnyRequest
      <4>1. SUFFICES ASSUME NEW n \in 1..(Len(group) - 1)
            PROVE  [command |-> group[1], arguments |-> <<group[n + 1]>>] \in AnyRequest
        OBVIOUS
      <4>2. group[n + 1] \in DOMAIN Text
        BY <1>1
      <4>3. <<group[n + 1]>> \in Seq(DOMAIN Text)
        BY <4>2
      <4> QED
        BY <1>1, <4>3 DEF AnyRequest
    <3>2. Len(group) - 1 \in Nat
      BY <1>1
    <3>3. r \in [1..(Len(group) - 1) -> AnyRequest]
      BY <3>1
    <3>4. \A m \in Nat : [1..m -> AnyRequest] \subseteq Seq(AnyRequest)
      OBVIOUS
    <3> HIDE DEF r
    <3> QED
      BY <3>2, <3>3, <3>4
  <2> QED
    BY <2>1, <2>5, <2>6
<1>3. CASE group[1] = "--publish" /\ Len(group) = 3
  <2>1. asks(group) = <<[command |-> group[1], arguments |-> topics]>>
    BY <1>3 DEF asks
  <2>2. requestsOf(group[1], topics)
        = <<Request(group[1], <<topics[1], topics[Len(topics)]>>)>>
    BY <1>3 DEF requestsOf
  <2>3. topics = <<topics[1], topics[Len(topics)]>>
    <3>1. topics \in Seq(DOMAIN Text) /\ Len(topics) = 2
      BY <1>1, <1>3
    <3> HIDE DEF topics
    <3> QED
      BY <3>1
  <2>4. [command |-> group[1], arguments |-> topics] \in AnyRequest
    BY <1>1 DEF AnyRequest
  <2> HIDE DEF topics
  <2>5. asks(group) \in Seq(AnyRequest)
    BY <2>1, <2>4
  <2> QED
    BY <2>1, <2>2, <2>3, <2>5 DEF Request, topics
<1>4. CASE group = <<"--list-topics">>
  <2>1. group[1] = "--list-topics" /\ topics = <<>>
    BY <1>4
  <2>2. asks(group) = <<[command |-> group[1], arguments |-> topics]>>
    BY <2>1 DEF asks
  <2>3. requestsOf(group[1], topics) = <<Request(group[1], <<>>)>>
    BY <2>1 DEF requestsOf
  <2>4. [command |-> group[1], arguments |-> topics] \in AnyRequest
    BY <1>1 DEF AnyRequest
  <2>5. asks(group) \in Seq(AnyRequest)
    BY <2>2, <2>4
  <2> QED
    BY <2>1, <2>2, <2>3, <2>5 DEF Request
<1> QED
  BY <1>2, <1>3, <1>4 DEF isCommandGroup

(* Settings ask for nothing.                                               *)
LEMMA SettingsAskNothing ==
  ASSUME NEW group \in Seq(DOMAIN Text), isSettingGroup(group)
  PROVE  asks(group) = <<>>
<1>1. group[1] \notin Commands
  BY GroupKinds
<1> QED
  BY <1>1 DEF asks, Commands

(* All that a line asks for is what its command asks for.                  *)
LEMMA LineAsksForCommand ==
  ASSUME isIntent(intent), NEW c \in DOMAIN intent, isCommandGroup(intent[c])
  PROVE  FlattenSeq([g \in DOMAIN intent |-> asks(intent[g])])
         = requestsOf(intent[c][1], Tail(intent[c]))
<1> DEFINE pieces == [g \in DOMAIN intent |-> asks(intent[g])]
<1>1. /\ intent \in Seq(Seq(DOMAIN Text))
      /\ DOMAIN intent = 1..Len(intent) /\ Len(intent) \in Nat
      /\ \A g \in DOMAIN intent : intent[g] \in Seq(DOMAIN Text)
  <2>1. intent \in Seq(Seq(DOMAIN Text))
    BY DEF isIntent
  <2> QED
    BY <2>1
<1>2. \A g \in DOMAIN intent : g # c => isSettingGroup(intent[g])
  <2>1. PICK d \in DOMAIN intent : /\ isCommandGroup(intent[d])
                                   /\ \A g \in DOMAIN intent \ {d} : isSettingGroup(intent[g])
    BY DEF isIntent
  <2>2. d = c
    <3>1. SUFFICES ASSUME d # c PROVE FALSE
      OBVIOUS
    <3>2. isSettingGroup(intent[c])
      BY <2>1, <3>1
    <3> QED
      BY <1>1, <3>2, GroupKinds
  <2> QED
    BY <2>1, <2>2
<1>3. \A g \in DOMAIN intent : g # c => asks(intent[g]) = <<>>
  BY <1>1, <1>2, SettingsAskNothing
<1>4. /\ asks(intent[c]) = requestsOf(intent[c][1], Tail(intent[c]))
      /\ asks(intent[c]) \in Seq(AnyRequest)
  BY <1>1, AsksForCommand
<1>5. pieces \in [1..Len(intent) -> Seq(AnyRequest)]
  <2>1. <<>> \in Seq(AnyRequest)
    OBVIOUS
  <2>2. \A g \in DOMAIN intent : asks(intent[g]) \in Seq(AnyRequest)
    BY <1>3, <1>4, <2>1
  <2> QED
    BY <1>1, <2>2
<1>6. pieces[c] = asks(intent[c]) /\ \A g \in 1..Len(intent) : g # c => pieces[g] = <<>>
  BY <1>1, <1>3
<1> HIDE DEF pieces
<1>7. pieces \in Seq(Seq(AnyRequest)) /\ Len(pieces) = Len(intent)
  <2>1. \A m \in Nat : \A V : \A p \in [1..m -> V] : p \in Seq(V) /\ Len(p) = m
    OBVIOUS
  <2> QED
    BY <1>1, <1>5, <2>1
<1>8. c \in 1..Len(pieces)
  BY <1>1, <1>7
<1>9. FlattenSeq(pieces) = pieces[c]
  BY <1>6, <1>7, <1>8, FlattenOne
<1> QED
  BY <1>4, <1>6, <1>9 DEF pieces

(* One turn of the loop of client.exe reads a group of the line: first how *)
(* the group is laid out in front of the loop.                             *)
LEMMA ClientAtGroup ==
  ASSUME ParsedInv, isIntent(intent), argv = FlattenSeq(intent),
         NEW k \in 0..Len(intent), k # Len(intent), i = ends(intent)[k] + 1
  PROVE  /\ k \in Nat /\ k + 1 \in DOMAIN intent /\ k + 1 \in 1..Len(intent)
         /\ intent[k + 1] \in Seq(DOMAIN Text)
         /\ Len(intent[k + 1]) \in Nat \ {0}
         /\ i \in 1..Len(argv)
         /\ Len(argv) \in Nat
         /\ argv[i] = intent[k + 1][1]
         /\ \A n \in 1..Len(intent[k + 1]) : argv[i + n - 1] = intent[k + 1][n]
         /\ i + Len(intent[k + 1]) - 1 <= Len(argv)
         /\ ends(intent)[k + 1] + 1 = i + Len(intent[k + 1])
<1> DEFINE group == intent[k + 1]
           at == ends(intent)[k]
           line == FlattenSeq(intent)
<1>1. intent \in Seq(Seq(DOMAIN Text)) /\ \A g \in DOMAIN intent : intent[g] # <<>>
  BY DEF isIntent
<1>2. /\ at \in Nat
      /\ k + 1 \in 1..Len(intent)
      /\ Len(group) \in Nat
      /\ ends(intent)[k + 1] = at + Len(group)
      /\ at + Len(group) <= Len(line)
      /\ \A n \in 1..Len(group) : line[at + n] = group[n]
  BY <1>1, AtGroup
<1>3. k \in Nat /\ DOMAIN intent = 1..Len(intent)
  BY <1>1
<1>4. group \in Seq(DOMAIN Text) /\ group # <<>>
  <2>1. k + 1 \in DOMAIN intent
    BY <1>2, <1>3
  <2>2. \A g \in DOMAIN intent : intent[g] \in Seq(DOMAIN Text)
    BY <1>1
  <2> HIDE DEF at, line
  <2> QED
    BY <1>1, <2>1, <2>2
<1>5. Len(group) \in Nat \ {0}
  <2> HIDE DEF group
  <2> QED
    BY <1>4
<1>6. argv \in Seq(DOMAIN Text) /\ argv = line
  BY DEF ParsedInv
<1>7. Len(argv) \in Nat
  BY <1>6
<1>8. i = at + 1
  OBVIOUS
<1> HIDE DEF at, line, group
<1>9. i \in 1..Len(argv) /\ i + Len(group) - 1 <= Len(argv)
  BY <1>2, <1>5, <1>6, <1>7, <1>8
<1>10. \A n \in 1..Len(group) : argv[i + n - 1] = group[n]
  <2>1. \A n \in 1..Len(group) : i + n - 1 = at + n
    BY <1>2, <1>8
  <2> QED
    BY <1>2, <1>6, <2>1
<1>11. argv[i] = group[1]
  <2>1. 1 \in 1..Len(group) /\ i + 1 - 1 = i
    BY <1>2, <1>5, <1>8
  <2> QED
    BY <1>10, <2>1
<1>12. ends(intent)[k + 1] + 1 = i + Len(group)
  BY <1>2, <1>8
<1> QED
  BY <1>2, <1>3, <1>4, <1>5, <1>7, <1>9, <1>10, <1>11, <1>12 DEF group

\* Every action of client.exe while it parses its line.
ParsingNext ==
  \/ Port \/ ServerAddress \/ ServerPort \/ Help \/ Debug
  \/ Subscribe \/ Publish \/ ListTopics \/ GetTopicStatus \/ Unknown

(* In front of a group the loop goes on.                                   *)
LEMMA ParsesOn ==
  ASSUME CommandLineNext, pc = "parsing", i \in 1..Len(argv), Len(argv) \in Nat
  PROVE  ParsingNext /\ intent' = intent /\ argv' = argv
<1>1. ~ (i > Len(argv))
  OBVIOUS
<1>2. ParsingNext
  BY <1>1 DEF CommandLineNext, ParsingNext, Start, Execute, ExecuteNothing, Enter
<1>3. intent' = intent /\ argv' = argv
  <2>1. CASE Port \/ ServerAddress \/ ServerPort
    BY <2>1 DEF Port, ServerAddress, ServerPort, setting
  <2>2. CASE Help \/ Debug \/ Unknown
    BY <2>2 DEF Help, Debug, Unknown
  <2>3. CASE Subscribe \/ Publish \/ ListTopics \/ GetTopicStatus
    BY <2>3 DEF Subscribe, Publish, ListTopics, GetTopicStatus, take
  <2> QED
    BY <1>2, <2>1, <2>2, <2>3 DEF ParsingNext
<1> QED
  BY <1>2, <1>3

(* A setting takes two arguments, or one for --debug, and its value.       *)
LEMMA SettingIsRead ==
  ASSUME ParsedInv, isIntent(intent), argv = FlattenSeq(intent), pc = "parsing",
         CommandLineNext,
         NEW k \in 0..Len(intent), k # Len(intent), i = ends(intent)[k] + 1,
         SettingsAreRead(k, port, serverPort, serverAddress),
         isSettingGroup(intent[k + 1])
  PROVE  /\ pc' = "parsing" /\ i' = i + Len(intent[k + 1])
         /\ SettingsAreRead(k + 1, port', serverPort', serverAddress')
         /\ UNCHANGED <<intent, argv, commandVars>>
<1> DEFINE group == intent[k + 1]
<1>1. /\ k \in Nat /\ group \in Seq(DOMAIN Text)
      /\ i \in 1..Len(argv) /\ Len(argv) \in Nat
      /\ argv[i] = group[1]
      /\ \A n \in 1..Len(group) : argv[i + n - 1] = group[n]
      /\ i + Len(group) - 1 <= Len(argv)
  BY ClientAtGroup
<1>2. ParsingNext /\ intent' = intent /\ argv' = argv
  BY <1>1, ParsesOn
<1>3. /\ Says(k, "--port", numbers, 0, port)
      /\ Says(k, "--server-port", numbers, 8080, serverPort)
      /\ Says(k, "--server-address", itself, "127.0.0.1", serverAddress)
  BY DEF SettingsAreRead
<1>4. ASSUME Len(group) = 2
      PROVE  value = group[2] /\ has(1) /\ group[2] \in DOMAIN Text
  <2>1. 2 \in 1..Len(group) /\ i + 2 - 1 = i + 1 /\ i + 1 <= Len(argv)
    BY <1>1, <1>4
  <2>2. argv[i + 1] = group[2]
    BY <1>1, <2>1
  <2>3. group[2] \in DOMAIN Text
    <3> HIDE DEF group
    <3> QED
      BY <1>1, <2>1
  <2> QED
    BY <2>1, <2>2, <2>3 DEF value, has
<1>5. CASE group = <<"--debug">>
  <2>1. group[1] = "--debug" /\ Len(group) = 1
    BY <1>5
  <2>2. Debug
    BY <1>1, <1>2, <2>1 DEF ParsingNext, Port, ServerAddress, ServerPort, Help,
         Subscribe, Publish, ListTopics, GetTopicStatus, Unknown, isSetting, arg
  <2>3. /\ i' = i + 1 /\ UNCHANGED <<intent, argv, pc, settings, commandVars>>
    BY <2>2 DEF Debug
  <2>4. port' = port /\ serverAddress' = serverAddress /\ serverPort' = serverPort
    BY <2>3 DEF settings
  <2>5. Says(k + 1, "--port", numbers, 0, port)
    BY <1>1, <1>3, <2>1, SaysStays
  <2>6. Says(k + 1, "--server-port", numbers, 8080, serverPort)
    BY <1>1, <1>3, <2>1, SaysStays
  <2>7. Says(k + 1, "--server-address", itself, "127.0.0.1", serverAddress)
    BY <1>1, <1>3, <2>1, SaysStays
  <2> QED
    BY <2>1, <2>3, <2>4, <2>5, <2>6, <2>7 DEF SettingsAreRead
<1>6. CASE Len(group) = 2 /\ group[1] = "--port" /\ Text[group[2]].number \in 0..MaxPort
  <2>1. value = group[2] /\ has(1) /\ group[2] \in DOMAIN Text
    BY <1>4, <1>6
  <2>2. Port
    BY <1>1, <1>2, <1>6, <2>1 DEF ParsingNext, Debug, ServerAddress, ServerPort, Help,
         Subscribe, Publish, ListTopics, GetTopicStatus, Unknown, isSetting, arg
  <2>3. /\ getPortNumber(Text[value]) = Text[group[2]].number
        /\ Text[group[2]].number # -1
    <3>1. MaxPort \in Nat
      BY DEF MaxPort
    <3> QED
      BY <1>6, <2>1, <3>1 DEF getPortNumber
  <2>4. numbers[group[2]] = Text[group[2]].number
    BY <2>1 DEF numbers
  <2>5. /\ port' = Text[group[2]].number
        /\ setting(port' # -1) /\ UNCHANGED <<serverAddress, serverPort>>
    BY <2>2, <2>3 DEF Port
  <2>6. i' = i + 2 /\ UNCHANGED <<intent, argv, pc, commandVars>>
    BY <2>3, <2>5 DEF setting
  <2>7. Says(k + 1, "--port", numbers, 0, port')
    <3>1. Says(k + 1, "--port", numbers, 0, numbers[intent[k + 1][2]])
      <4>1. intent[k + 1][1] = "--port" /\ k \in Nat
        BY <1>1, <1>6
      <4> QED
        BY <4>1, SaysNow
    <3> QED
      BY <2>4, <2>5, <3>1
  <2>8. Says(k + 1, "--server-port", numbers, 8080, serverPort)
    <3>1. intent[k + 1][1] # "--server-port"
      BY <1>6
    <3> QED
      BY <1>1, <1>3, <3>1, SaysStays
  <2>9. Says(k + 1, "--server-address", itself, "127.0.0.1", serverAddress)
    <3>1. intent[k + 1][1] # "--server-address"
      BY <1>6
    <3> QED
      BY <1>1, <1>3, <3>1, SaysStays
  <2> QED
    BY <1>6, <2>5, <2>6, <2>7, <2>8, <2>9 DEF SettingsAreRead
<1>7. CASE Len(group) = 2 /\ group[1] = "--server-port" /\ Text[group[2]].number \in 0..MaxPort
  <2>1. value = group[2] /\ has(1) /\ group[2] \in DOMAIN Text
    BY <1>4, <1>7
  <2>2. ServerPort
    BY <1>1, <1>2, <1>7, <2>1 DEF ParsingNext, Debug, ServerAddress, Port, Help,
         Subscribe, Publish, ListTopics, GetTopicStatus, Unknown, isSetting, arg
  <2>3. /\ getPortNumber(Text[value]) = Text[group[2]].number
        /\ Text[group[2]].number # -1
    <3>1. MaxPort \in Nat
      BY DEF MaxPort
    <3> QED
      BY <1>7, <2>1, <3>1 DEF getPortNumber
  <2>4. numbers[group[2]] = Text[group[2]].number
    BY <2>1 DEF numbers
  <2>5. /\ serverPort' = Text[group[2]].number
        /\ setting(serverPort' # -1) /\ UNCHANGED <<port, serverAddress>>
    BY <2>2, <2>3 DEF ServerPort
  <2>6. i' = i + 2 /\ UNCHANGED <<intent, argv, pc, commandVars>>
    BY <2>3, <2>5 DEF setting
  <2>7. Says(k + 1, "--server-port", numbers, 8080, serverPort')
    <3>1. Says(k + 1, "--server-port", numbers, 8080, numbers[intent[k + 1][2]])
      <4>1. intent[k + 1][1] = "--server-port" /\ k + 1 \in 1..(k + 1)
        BY <1>1, <1>7
      <4> QED
        BY <4>1 DEF Says
    <3> QED
      BY <2>4, <2>5, <3>1
  <2>8. Says(k + 1, "--port", numbers, 0, port)
    <3>1. intent[k + 1][1] # "--port"
      BY <1>7
    <3> QED
      BY <1>1, <1>3, <3>1, SaysStays
  <2>9. Says(k + 1, "--server-address", itself, "127.0.0.1", serverAddress)
    <3>1. intent[k + 1][1] # "--server-address"
      BY <1>7
    <3> QED
      BY <1>1, <1>3, <3>1, SaysStays
  <2> QED
    BY <1>7, <2>5, <2>6, <2>7, <2>8, <2>9 DEF SettingsAreRead
<1>8. CASE /\ Len(group) = 2 /\ group[1] = "--server-address"
           /\ isValidIPv4Address(Text[group[2]])
  <2>1. value = group[2] /\ has(1) /\ group[2] \in DOMAIN Text
    BY <1>4, <1>8
  <2>2. ServerAddress
    BY <1>1, <1>2, <1>8, <2>1 DEF ParsingNext, Debug, ServerPort, Port, Help,
         Subscribe, Publish, ListTopics, GetTopicStatus, Unknown, isSetting, arg
  <2>3. itself[group[2]] = group[2]
    BY <2>1 DEF itself
  <2>4. /\ serverAddress' = group[2]
        /\ setting(isValidIPv4Address(Text[value])) /\ UNCHANGED <<port, serverPort>>
    BY <2>1, <2>2 DEF ServerAddress
  <2>5. i' = i + 2 /\ UNCHANGED <<intent, argv, pc, commandVars>>
    BY <1>8, <2>1, <2>4 DEF setting
  <2>6. Says(k + 1, "--server-address", itself, "127.0.0.1", serverAddress')
    <3>1. Says(k + 1, "--server-address", itself, "127.0.0.1", itself[intent[k + 1][2]])
      <4>1. intent[k + 1][1] = "--server-address" /\ k \in Nat
        BY <1>1, <1>8
      <4> QED
        BY <4>1, SaysNow
    <3> QED
      BY <2>3, <2>4, <3>1
  <2>7. Says(k + 1, "--port", numbers, 0, port)
    <3>1. intent[k + 1][1] # "--port"
      BY <1>8
    <3> QED
      BY <1>1, <1>3, <3>1, SaysStays
  <2>8. Says(k + 1, "--server-port", numbers, 8080, serverPort)
    <3>1. intent[k + 1][1] # "--server-port"
      BY <1>8
    <3> QED
      BY <1>1, <1>3, <3>1, SaysStays
  <2> QED
    BY <1>8, <2>4, <2>5, <2>6, <2>7, <2>8 DEF SettingsAreRead
<1> QED
  BY <1>5, <1>6, <1>7, <1>8 DEF isSettingGroup

(* Options stop the while loops: they begin with a dash.                   *)
LEMMA SettingsAreDashed ==
  ASSUME NEW group \in Seq(DOMAIN Text), isSettingGroup(group)
  PROVE  Text[group[1]].dashed
<1>1. group[1] \in Options /\ Len(group) \in {1, 2}
  BY GroupKinds
<1>2. group[1] \in DOMAIN Text
  BY <1>1
<1> QED
  BY <1>1, <1>2, ClientCommandLineAssumption

(* A while loop takes the topics of its command, neither fewer nor more.   *)
LEMMA FollowingIsTheRest ==
  ASSUME ParsedInv, isIntent(intent), argv = FlattenSeq(intent),
         NEW k \in 0..Len(intent), k # Len(intent), i = ends(intent)[k] + 1,
         \A n \in 2..Len(intent[k + 1]) : ~ Text[intent[k + 1][n]].dashed,
         \A g \in DOMAIN intent \ {k + 1} : isSettingGroup(intent[g])
  PROVE  following = Len(intent[k + 1]) - 1
<1> DEFINE group == intent[k + 1]
           L == Len(group) - 1
           f == following
<1>1. /\ k \in Nat /\ k + 1 \in 1..Len(intent)
      /\ group \in Seq(DOMAIN Text) /\ Len(group) \in Nat \ {0}
      /\ i \in 1..Len(argv) /\ Len(argv) \in Nat
      /\ \A n \in 1..Len(group) : argv[i + n - 1] = group[n]
      /\ i + Len(group) - 1 <= Len(argv)
      /\ ends(intent)[k + 1] + 1 = i + Len(group)
  BY ClientAtGroup
<1>2. /\ f \in 0..(Len(argv) - i)
      /\ i + f = Len(argv) \/ Text[argv[i + f + 1]].dashed
      /\ \A n \in 0..(Len(argv) - i) :
           n < f => ~ (i + n = Len(argv) \/ Text[argv[i + n + 1]].dashed)
  BY <1>1, FollowingCounts DEF ParsedInv
<1>3. L \in Nat /\ i + L <= Len(argv) /\ L \in 0..(Len(argv) - i)
  BY <1>1
<1> HIDE DEF f
<1>4. ~ (f < L)
  <2>1. SUFFICES ASSUME f < L PROVE FALSE
    OBVIOUS
  <2>2. f + 2 \in 2..Len(group) /\ f + 2 \in 1..Len(group) /\ i + (f + 2) - 1 = i + f + 1
    <3>1. \A l, e, a, m \in Nat : m < l - 1 =>
            m + 2 \in 2..l /\ m + 2 \in 1..l /\ a + (m + 2) - 1 = a + m + 1
      OBVIOUS
    <3>2. Len(group) \in Nat /\ Len(argv) \in Nat /\ i \in Nat
      BY <1>1
    <3>3. f \in Nat
      BY <1>2
    <3>4. f < Len(group) - 1
      BY <2>1
    <3> HIDE DEF group, L
    <3> QED
      BY <3>1, <3>2, <3>3, <3>4
  <2>3. argv[i + f + 1] = group[f + 2]
    BY <1>1, <2>2
  <2>4. ~ Text[group[f + 2]].dashed
    BY <2>2
  <2>5. i + f # Len(argv)
    BY <1>1, <1>2, <1>3, <2>1
  <2> QED
    BY <1>2, <2>3, <2>4, <2>5
<1>5. ~ (L < f)
  <2>1. SUFFICES ASSUME L < f PROVE FALSE
    OBVIOUS
  <2>2. ~ (i + L = Len(argv) \/ Text[argv[i + L + 1]].dashed)
    BY <1>2, <1>3, <2>1
  <2>3. CASE k + 1 = Len(intent)
    <3>1. ends(intent)[k + 1] = Len(argv)
      <4>1. intent \in Seq(Seq(DOMAIN Text))
        BY DEF isIntent
      <4> QED
        BY <2>3, <4>1, AtEnd
    <3>2. ends(intent)[k + 1] + 1 = i + L + 1
      BY <1>1
    <3>3. i + L = Len(argv)
      <4> DEFINE e == Len(argv)
      <4>1. e + 1 = i + L + 1 /\ e \in Nat /\ i \in Nat /\ L \in Nat
        BY <1>1, <1>3, <3>1, <3>2
      <4> HIDE DEF e, L
      <4>2. i + L = e
        BY <4>1
      <4> QED
        BY <4>2 DEF e
    <3> QED
      BY <2>2, <3>3
  <2>4. CASE k + 1 # Len(intent)
    <3>1. intent \in Seq(Seq(DOMAIN Text)) /\ k + 1 \in 0..Len(intent)
      BY <1>1 DEF isIntent
    <3> DEFINE next == intent[(k + 1) + 1]
               e == ends(intent)[k + 1]
    <3>2. /\ e \in Nat /\ (k + 1) + 1 \in 1..Len(intent)
          /\ \A n \in 1..Len(next) : FlattenSeq(intent)[e + n] = next[n]
      BY <2>4, <3>1, AtGroup
    <3>3. (k + 1) + 1 \in DOMAIN intent \ {k + 1}
      BY <1>1, <3>1, <3>2
    <3>4. isSettingGroup(next) /\ next \in Seq(DOMAIN Text)
      BY <3>1, <3>3
    <3>5. Text[next[1]].dashed
      BY <3>4, SettingsAreDashed
    <3>6. 1 \in 1..Len(next)
      BY <3>4, GroupKinds
    <3>7. FlattenSeq(intent)[e + 1] = next[1]
      BY <3>2, <3>6
    <3>8. e + 1 = i + L + 1
      BY <1>1
    <3>9. argv[i + L + 1] = next[1]
      BY <3>7, <3>8
    <3> QED
      BY <2>2, <3>5, <3>9
  <2> QED
    BY <2>3, <2>4
<1> QED
  <2> HIDE DEF L
  <2>1. f = L
    BY <1>2, <1>3, <1>4, <1>5
  <2> QED
    BY <2>1 DEF f, L

(* What is taken behind a command are its arguments.                       *)
LEMMA RestIsTaken ==
  ASSUME ParsedInv, isIntent(intent), argv = FlattenSeq(intent),
         NEW k \in 0..Len(intent), k # Len(intent), i = ends(intent)[k] + 1,
         command = NoCommand, take(Len(intent[k + 1]) - 1)
  PROVE  /\ command' = intent[k + 1][1]
         /\ arguments' = Tail(intent[k + 1])
         /\ i' = i + Len(intent[k + 1])
         /\ UNCHANGED <<intent, argv, pc, settings>>
<1> DEFINE group == intent[k + 1]
           n == Len(group) - 1
           part == SubSeq(argv, i + 1, i + n)
<1>1. /\ group \in Seq(DOMAIN Text) /\ Len(group) \in Nat \ {0}
      /\ i \in 1..Len(argv) /\ Len(argv) \in Nat /\ argv[i] = group[1]
      /\ \A m \in 1..Len(group) : argv[i + m - 1] = group[m]
      /\ i + Len(group) - 1 <= Len(argv)
  BY ClientAtGroup
<1>2. n \in 0..(Len(argv) - i)
  BY <1>1
<1>3. /\ part \in Seq(DOMAIN Text) /\ Len(part) = n
      /\ \A m \in 1..n : part[m] = argv[i + m]
  <2> HIDE DEF n
  <2> QED
    BY <1>1, <1>2, PartOfLine DEF ParsedInv
<1>4. /\ Tail(group) \in Seq(DOMAIN Text) /\ Len(Tail(group)) = n
      /\ \A m \in 1..n : Tail(group)[m] = group[m + 1]
  <2>1. group # <<>>
    BY <1>1
  <2> HIDE DEF group
  <2> QED
    BY <1>1, <2>1
<1>5. \A m \in 1..n : part[m] = Tail(group)[m]
  <2>1. \A m \in 1..n : m + 1 \in 1..Len(group) /\ i + (m + 1) - 1 = i + m
    BY <1>1
  <2>2. \A m \in 1..n : argv[i + m] = group[m + 1]
    BY <1>1, <2>1
  <2> HIDE DEF n, group, part
  <2> QED
    BY <1>3, <1>4, <2>2
<1> DEFINE tail == Tail(group)
<1>6. part = tail
  <2>1. tail \in Seq(DOMAIN Text) /\ Len(tail) = n /\ \A m \in 1..n : part[m] = tail[m]
    BY <1>4, <1>5
  <2> HIDE DEF part, tail, n
  <2> QED
    BY <1>3, <2>1, SeqEqual
<1>7. arguments = <<>>
  BY DEF ParsedInv
<1>8. arguments' = arguments \o part /\ command' = argv[i] /\ i' = i + n + 1
  BY DEF take, commandType, arg
<1>9. arguments' = part
  <2> HIDE DEF part
  <2> QED
    BY <1>3, <1>7, <1>8
<1>10. i' = i + Len(group)
  BY <1>1, <1>8
<1> QED
  BY <1>1, <1>6, <1>8, <1>9, <1>10 DEF take

(* The command and its arguments are taken in one turn.                    *)
LEMMA CommandIsTaken ==
  ASSUME ParsedInv, isIntent(intent), argv = FlattenSeq(intent), pc = "parsing",
         CommandLineNext,
         NEW k \in 0..Len(intent), k # Len(intent), i = ends(intent)[k] + 1,
         isCommandGroup(intent[k + 1]),
         \A g \in DOMAIN intent \ {k + 1} : isSettingGroup(intent[g]),
         command = NoCommand, arguments = <<>>
  PROVE  /\ command' = intent[k + 1][1]
         /\ arguments' = Tail(intent[k + 1])
         /\ i' = i + Len(intent[k + 1])
         /\ UNCHANGED <<intent, argv, pc, settings>>
<1> DEFINE group == intent[k + 1]
<1>1. /\ group \in Seq(DOMAIN Text) /\ Len(group) \in Nat \ {0}
      /\ i \in 1..Len(argv) /\ Len(argv) \in Nat
      /\ argv[i] = group[1]
      /\ i + Len(group) - 1 <= Len(argv)
  BY ClientAtGroup
<1>2. ParsingNext
  BY <1>1, ParsesOn
<1>3. arg = group[1] /\ commandType = group[1]
  BY <1>1 DEF arg, commandType
<1>4. SUFFICES take(Len(intent[k + 1]) - 1)
  BY RestIsTaken
<1>5. \A e, l, a, m \in Nat : m \in Nat /\ a + l - 1 <= e /\ l >= m + 1 => e >= a + m
  OBVIOUS
<1>6. \A m \in Nat : Len(group) >= m + 1 => has(m)
  <2>1. Len(group) \in Nat /\ Len(argv) \in Nat /\ i \in Nat
    BY <1>1
  <2> HIDE DEF group
  <2> QED
    BY <1>1, <1>5, <2>1 DEF has
<1>7. CASE /\ group[1] \in {"--subscribe", "--get-topic-status"}
           /\ Len(group) >= 2
           /\ \A n \in 2..Len(group) : ~ Text[group[n]].dashed
  <2>1. following = Len(group) - 1
    BY <1>7, FollowingIsTheRest
  <2>2. has(1)
    BY <1>6, <1>7
  <2>3. Subscribe \/ GetTopicStatus
    BY <1>2, <1>3, <1>7, <2>2 DEF ParsingNext, Port, ServerAddress, ServerPort, Help, Debug,
         Publish, ListTopics, Unknown, isSetting, isSubscribe, isGetTopicStatus,
         isPublish, isListTopics
  <2>4. take(following)
    BY <2>3 DEF Subscribe, GetTopicStatus
  <2> QED
    BY <2>1, <2>4
<1>8. CASE group[1] = "--publish" /\ Len(group) = 3
  <2>1. has(2)
    BY <1>6, <1>8
  <2>2. Publish
    BY <1>2, <1>3, <1>8, <2>1 DEF ParsingNext, Port, ServerAddress, ServerPort, Help, Debug,
         Subscribe, GetTopicStatus, ListTopics, Unknown, isSetting, isPublish, isSubscribe,
         isGetTopicStatus, isListTopics
  <2>3. take(2)
    BY <2>2 DEF Publish
  <2>4. Len(group) - 1 = 2
    BY <1>8
  <2> QED
    BY <2>3, <2>4
<1>9. CASE group = <<"--list-topics">>
  <2>1. group[1] = "--list-topics" /\ Len(group) - 1 = 0
    BY <1>9
  <2>2. ListTopics
    BY <1>2, <1>3, <2>1 DEF ParsingNext, Port, ServerAddress, ServerPort, Help, Debug,
         Subscribe, GetTopicStatus, Publish, Unknown, isSetting, isPublish, isSubscribe,
         isGetTopicStatus, isListTopics
  <2>3. take(0)
    BY <2>2 DEF ListTopics
  <2> QED
    BY <2>1, <2>3
<1> QED
  BY <1>7, <1>8, <1>9 DEF isCommandGroup

(* A turn of the loop in front of a group reads the group.                 *)
LEMMA ClientReads ==
  ASSUME ParsedInv, isIntent(intent), argv = FlattenSeq(intent), pc = "parsing",
         CommandLineNext, NEW k \in 0..Len(intent), k # Len(intent), ClientHasRead(k)
  PROVE  /\ intent' = intent /\ argv' = argv /\ pc' = "parsing"
         /\ ClientHasRead(k + 1)'
<1> DEFINE group == intent[k + 1]
<1>1. i = ends(intent)[k] + 1
  BY DEF ClientHasRead
<1>2. SettingsAreRead(k, port, serverPort, serverAddress) /\ CommandIsRead(k)
  BY DEF ClientHasRead
<1>3. /\ k \in Nat /\ k + 1 \in DOMAIN intent /\ group \in Seq(DOMAIN Text)
      /\ ends(intent)[k + 1] + 1 = i + Len(group)
  BY <1>1, ClientAtGroup
<1>4. /\ DOMAIN intent = 1..Len(intent)
      /\ \A g \in DOMAIN intent : intent[g] \in Seq(DOMAIN Text)
  <2>1. intent \in Seq(Seq(DOMAIN Text))
    BY DEF isIntent
  <2> QED
    BY <2>1
<1>5. PICK c \in DOMAIN intent : /\ isCommandGroup(intent[c])
                                 /\ \A g \in DOMAIN intent \ {c} : isSettingGroup(intent[g])
  BY DEF isIntent
<1>6. /\ \A g \in 1..(k + 1) : g \in 1..k \/ g = k + 1
      /\ \A g \in 1..k : g \in 1..(k + 1) /\ g \in DOMAIN intent /\ g # k + 1
      /\ k + 1 \in 1..(k + 1)
  <2>1. k \in 0..Len(intent) /\ k # Len(intent) /\ k \in Nat
    BY <1>3
  <2>2. Len(intent) \in Nat
    <3>1. intent \in Seq(Seq(DOMAIN Text))
      BY DEF isIntent
    <3> QED
      BY <3>1
  <2>3. \A g \in 1..k : g \in 1..Len(intent)
    <3>1. \A b \in Nat : \A a \in 0..b : \A g \in 1..a : g \in 1..b
      OBVIOUS
    <3> QED
      BY <2>1, <2>2, <3>1
  <2>4. /\ \A g \in 1..(k + 1) : g \in 1..k \/ g = k + 1
        /\ \A g \in 1..k : g \in 1..(k + 1) /\ g # k + 1
        /\ k + 1 \in 1..(k + 1)
    BY <2>1
  <2> QED
    BY <1>4, <2>3, <2>4
<1>7. CASE k + 1 # c
  <2>1. isSettingGroup(intent[k + 1])
    BY <1>3, <1>5, <1>7
  <2>2. /\ pc' = "parsing" /\ i' = i + Len(group)
        /\ SettingsAreRead(k + 1, port', serverPort', serverAddress')
        /\ UNCHANGED <<intent, argv, commandVars>>
    BY <1>1, <1>2, <2>1, SettingIsRead
  <2>3. intent' = intent /\ argv' = argv /\ command' = command /\ arguments' = arguments
    BY <2>2 DEF commandVars
  <2>4. CommandIsRead(k + 1)
    <3>1. CASE /\ \A g \in 1..k : isSettingGroup(intent[g])
               /\ command = NoCommand /\ arguments = <<>>
      BY <1>6, <2>1, <3>1 DEF CommandIsRead
    <3>2. CASE \E d \in 1..k : /\ isCommandGroup(intent[d])
                               /\ command = intent[d][1] /\ arguments = Tail(intent[d])
      BY <1>6, <3>2 DEF CommandIsRead
    <3> QED
      BY <1>2, <3>1, <3>2 DEF CommandIsRead
  <2>5. CommandIsRead(k + 1)'
    BY <2>3, <2>4 DEF CommandIsRead
  <2>6. SettingsAreRead(k + 1, port, serverPort, serverAddress)'
    BY <2>2, <2>3 DEF SettingsAreRead, Says
  <2>7. (i = ends(intent)[k + 1] + 1)'
    BY <1>3, <2>2, <2>3
  <2> QED
    BY <2>2, <2>3, <2>5, <2>6, <2>7 DEF ClientHasRead
<1>8. CASE k + 1 = c
  <2>1. isCommandGroup(group) /\ \A g \in DOMAIN intent \ {k + 1} : isSettingGroup(intent[g])
    BY <1>5, <1>8
  <2>2. \A g \in 1..k : ~ isCommandGroup(intent[g])
    BY <1>4, <1>6, <2>1, GroupKinds
  <2>3. command = NoCommand /\ arguments = <<>>
    BY <1>2, <2>2 DEF CommandIsRead
  <2>4. /\ command' = group[1] /\ arguments' = Tail(group)
        /\ i' = i + Len(group)
        /\ UNCHANGED <<intent, argv, pc, settings>>
    BY <1>1, <2>1, <2>3, CommandIsTaken
  <2>5. /\ intent' = intent /\ argv' = argv /\ pc' = "parsing"
        /\ port' = port /\ serverPort' = serverPort /\ serverAddress' = serverAddress
    BY <2>4 DEF settings
  <2>6. CommandIsRead(k + 1)'
    <3> DEFINE Taken(d, name, topics) ==
                 isCommandGroup(intent[d]) /\ name = intent[d][1] /\ topics = Tail(intent[d])
    <3>1. Taken(k + 1, command', arguments')
      BY <2>1, <2>4
    <3>2. \E d \in 1..(k + 1) : Taken(d, command', arguments')
      <4> HIDE DEF Taken
      <4> QED
        BY <1>6, <3>1
    <3>3. \E d \in 1..(k + 1) : Taken(d, command, arguments)'
      BY <2>5, <3>2 DEF isCommandGroup
    <3> QED
      BY <3>3 DEF CommandIsRead
  <2>7. SettingsAreRead(k + 1, port, serverPort, serverAddress)
    <3>1. group[1] \in Commands
      BY <1>3, <2>1, GroupKinds
    <3>2. group[1] # "--port" /\ group[1] # "--server-port" /\ group[1] # "--server-address"
      BY <3>1 DEF Commands
    <3>3. Says(k + 1, "--port", numbers, 0, port)
      BY <1>2, <1>3, <3>2, SaysStays DEF SettingsAreRead
    <3>4. Says(k + 1, "--server-port", numbers, 8080, serverPort)
      BY <1>2, <1>3, <3>2, SaysStays DEF SettingsAreRead
    <3>5. Says(k + 1, "--server-address", itself, "127.0.0.1", serverAddress)
      BY <1>2, <1>3, <3>2, SaysStays DEF SettingsAreRead
    <3> QED
      BY <3>3, <3>4, <3>5 DEF SettingsAreRead
  <2>8. SettingsAreRead(k + 1, port, serverPort, serverAddress)'
    BY <2>5, <2>7 DEF SettingsAreRead, Says
  <2>9. (i = ends(intent)[k + 1] + 1)'
    BY <1>3, <2>4, <2>5
  <2> QED
    BY <2>5, <2>6, <2>8, <2>9 DEF ClientHasRead
<1> QED
  BY <1>7, <1>8

(* Once the whole line is read, its command is executed.                   *)
LEMMA ClientExecutes ==
  ASSUME isIntent(intent), ClientHasRead(Len(intent)), Execute
  PROVE  /\ requests' = FlattenSeq([g \in DOMAIN intent |-> asks(intent[g])])
         /\ port = given("--port", numbers, 0)
         /\ serverPort = given("--server-port", numbers, 8080)
         /\ serverAddress = given("--server-address", itself, "127.0.0.1")
<1>1. /\ SettingsAreRead(Len(intent), port, serverPort, serverAddress)
      /\ CommandIsRead(Len(intent))
  BY DEF ClientHasRead
<1>2. /\ DOMAIN intent = 1..Len(intent)
      /\ \A g \in DOMAIN intent : intent[g] \in Seq(DOMAIN Text)
  <2>1. intent \in Seq(Seq(DOMAIN Text))
    BY DEF isIntent
  <2> QED
    BY <2>1
<1>3. PICK c \in DOMAIN intent : isCommandGroup(intent[c])
  BY DEF isIntent
<1>4. PICK d \in DOMAIN intent : /\ isCommandGroup(intent[d])
                                 /\ command = intent[d][1] /\ arguments = Tail(intent[d])
  <2>1. ~ isSettingGroup(intent[c])
    BY <1>2, <1>3, GroupKinds
  <2> QED
    BY <1>1, <1>2, <2>1 DEF CommandIsRead
<1>5. requests' = requestsOf(intent[d][1], Tail(intent[d]))
  BY <1>4 DEF Execute
<1>6. requests' = FlattenSeq([g \in DOMAIN intent |-> asks(intent[g])])
  BY <1>4, <1>5, LineAsksForCommand
<1>7. port = given("--port", numbers, 0)
  BY <1>1, SaysIsGiven DEF SettingsAreRead
<1>8. serverPort = given("--server-port", numbers, 8080)
  BY <1>1, SaysIsGiven DEF SettingsAreRead
<1>9. serverAddress = given("--server-address", itself, "127.0.0.1")
  BY <1>1, SaysIsGiven DEF SettingsAreRead
<1> QED
  BY <1>6, <1>7, <1>8, <1>9

(* Every step of the client keeps the invariant.                           *)
LEMMA ClientStep ==
  ASSUME program = "client", program' = program, LoopInv, LoopInv', ClientInv,
         [CommandLineNext]_clVars
  PROVE  ClientInv'
<1>1. ParsedInv /\ (pc \in {"parsing", "executing"} => requests = <<>>)
      /\ (pc' \in {"parsing", "executing"} => requests' = <<>>)
  BY DEF LoopInv, AskedInv
<1>2. CASE UNCHANGED clVars
  <2>1. /\ intent' = intent /\ argv' = argv /\ i' = i /\ pc' = pc
        /\ port' = port /\ serverAddress' = serverAddress /\ serverPort' = serverPort
        /\ command' = command /\ arguments' = arguments /\ requests' = requests
    BY <1>2 DEF clVars, settings, commandVars
  <2>2. \A k : ClientHasRead(k)' <=> ClientHasRead(k)
    BY <2>1 DEF ClientHasRead, SettingsAreRead, Says, CommandIsRead, isCommandGroup,
         isSettingGroup
  <2>3. WellFormedLinesRun' <=> WellFormedLinesRun
    BY <2>1 DEF WellFormedLinesRun, given, asks
  <2> QED
    BY <2>1, <2>2, <2>3 DEF ClientInv
<1>3. CASE CommandLineNext
  <2>1. intent' = intent /\ argv' = argv
    BY <1>3 DEF CommandLineNext, Port, ServerAddress, ServerPort, setting, Help, Debug,
         Subscribe, Publish, ListTopics, GetTopicStatus, take, Unknown, Start, Execute,
         ExecuteNothing, Enter
  <2>2. CASE intent = Nonsense
    BY <2>1, <2>2 DEF ClientInv, WellFormedLinesRun, Nonsense
  <2>3. CASE intent # Nonsense
    <3>1. intent \in Intents /\ argv = FlattenSeq(intent) /\ isIntent(intent)
      BY <2>3, IntentsAssumption DEF ClientInv
    <3>2. (intent # Nonsense => intent \in Intents /\ argv = FlattenSeq(intent))'
      BY <2>1, <3>1
    <3>3. intent \in Seq(Seq(DOMAIN Text)) /\ Len(intent) \in Nat
      <4>1. intent \in Seq(Seq(DOMAIN Text))
        BY <3>1 DEF isIntent
      <4> QED
        BY <4>1
    <3>4. pc # "parsing" => i > Len(argv)
      BY <2>3 DEF ClientInv, WellFormedLinesRun
    <3>5. CASE pc = "parsing"
      <4>1. PICK k \in 0..Len(intent) : ClientHasRead(k)
        BY <2>3, <3>5 DEF ClientInv
      <4>2. CASE k # Len(intent)
        <5>1. pc' = "parsing" /\ ClientHasRead(k + 1)'
          BY <1>1, <1>3, <3>1, <3>5, <4>1, <4>2, ClientReads
        <5>2. k + 1 \in 0..Len(intent)
          BY <3>3, <4>2
        <5>3. (pc = "parsing" => \E m \in 0..Len(intent) : ClientHasRead(m))'
          BY <2>1, <5>1, <5>2
        <5>4. WellFormedLinesRun'
          BY <1>1, <5>1 DEF WellFormedLinesRun
        <5> QED
          BY <3>2, <5>1, <5>3, <5>4 DEF ClientInv
      <4>3. CASE k = Len(intent)
        <5>1. i = Len(argv) + 1 /\ Len(argv) \in Nat
          <6>1. argv \in Seq(DOMAIN Text)
            BY <1>1 DEF ParsedInv
          <6> QED
            BY <3>1, <3>3, <4>1, <4>3, <6>1, AtEnd DEF ClientHasRead
        <5>2. i > Len(argv) /\ ~ (i <= Len(argv))
          BY <5>1
        <5>3. Start
          BY <1>3, <3>5, <5>2 DEF CommandLineNext, Port, ServerAddress, ServerPort, Help,
               Debug, Subscribe, Publish, ListTopics, GetTopicStatus, Unknown, more,
               Execute, ExecuteNothing, Enter
        <5>4. /\ pc' \in {"executing", "exited"} /\ i' = i
              /\ port' = port /\ serverAddress' = serverAddress /\ serverPort' = serverPort
              /\ command' = command /\ arguments' = arguments /\ requests' = requests
          BY <5>3 DEF Start, exit, settings, commandVars
        <5>5. ClientHasRead(Len(intent))'
          <6>1. \A m : ClientHasRead(m)' <=> ClientHasRead(m)
            BY <2>1, <5>4 DEF ClientHasRead, SettingsAreRead, Says, CommandIsRead,
                 isCommandGroup, isSettingGroup
          <6>2. ClientHasRead(Len(intent))
            BY <4>1, <4>3
          <6> QED
            BY <2>1, <6>1, <6>2
        <5>6. i' > Len(argv') /\ requests' = <<>>
          BY <1>1, <2>1, <3>5, <5>2, <5>4
        <5>7. WellFormedLinesRun'
          BY <5>6 DEF WellFormedLinesRun
        <5> QED
          BY <3>2, <5>4, <5>5, <5>7 DEF ClientInv
      <4> QED
        BY <4>2, <4>3
    <3>6. CASE pc # "parsing"
      <4>1. Execute \/ ExecuteNothing \/ Enter
        BY <1>3, <3>6 DEF CommandLineNext, Port, ServerAddress, ServerPort, Help,
             Debug, Subscribe, Publish, ListTopics, GetTopicStatus, Unknown, more, Start
      <4>2. /\ pc' \in {"waiting", "exited"} /\ i' = i
            /\ port' = port /\ serverAddress' = serverAddress /\ serverPort' = serverPort
        BY <4>1 DEF Execute, ExecuteNothing, Enter, exit, settings
      <4>3. i' > Len(argv')
        BY <2>1, <3>4, <3>6, <4>2
      <4>4. CASE Execute
        <5>1. ClientHasRead(Len(intent))
          BY <2>3, <4>4 DEF ClientInv, Execute
        <5>2. /\ requests' = FlattenSeq([g \in DOMAIN intent |-> asks(intent[g])])
              /\ port = given("--port", numbers, 0)
              /\ serverPort = given("--server-port", numbers, 8080)
              /\ serverAddress = given("--server-address", itself, "127.0.0.1")
          BY <3>1, <4>4, <5>1, ClientExecutes
        <5>3. WellFormedLinesRun'
          <6>1. /\ requests' = FlattenSeq([g \in DOMAIN intent |-> asks(intent[g])])'
                /\ port' = given("--port", numbers, 0)'
                /\ serverPort' = given("--server-port", numbers, 8080)'
                /\ serverAddress' = given("--server-address", itself, "127.0.0.1")'
            BY <2>1, <4>2, <5>2 DEF given, asks, numbers, itself
          <6> QED
            BY <4>3, <6>1 DEF WellFormedLinesRun, numbers, itself
        <5> QED
          BY <3>2, <4>2, <5>3 DEF ClientInv
      <4>5. CASE ExecuteNothing \/ Enter
        <5>1. requests' = requests
          BY <4>5 DEF ExecuteNothing, Enter
        <5>2. WellFormedLinesRun
          BY DEF ClientInv
        <5>3. WellFormedLinesRun'
          <6>1. \A option, taking, default :
                  given(option, taking, default)' = given(option, taking, default)
            BY <2>1 DEF given
          <6> QED
            BY <2>1, <4>2, <4>3, <5>1, <5>2, <6>1 DEF WellFormedLinesRun, asks
        <5> QED
          BY <3>2, <4>2, <5>3 DEF ClientInv
      <4> QED
        BY <4>1, <4>4, <4>5
    <3> QED
      BY <3>5, <3>6
  <2> QED
    BY <2>2, <2>3
<1> QED
  BY <1>2, <1>3

(* Before the first turn nothing has been read.                            *)
LEMMA ClientStartsReading ==
  ASSUME CommandLineInit
  PROVE  ClientInv
<1>1. /\ i = 1 /\ pc = "parsing" /\ requests = <<>>
      /\ port = 0 /\ serverAddress = "127.0.0.1" /\ serverPort = 8080
      /\ command = NoCommand /\ arguments = <<>>
      /\ intent # Nonsense => intent \in Intents /\ argv = FlattenSeq(intent)
  BY DEF CommandLineInit
<1>2. WellFormedLinesRun
  BY <1>1 DEF WellFormedLinesRun
<1>3. ASSUME intent # Nonsense PROVE 0 \in 0..Len(intent) /\ ClientHasRead(0)
  <2>1. intent \in Seq(Seq(DOMAIN Text))
    BY <1>1, <1>3, IntentsAssumption DEF isIntent
  <2>2. ends(intent)[0] = 0 /\ 0 \in 0..Len(intent)
    BY <2>1, AtEnd
  <2>3. \A m \in 1..0 : FALSE
    OBVIOUS
  <2> QED
    BY <1>1, <2>2, <2>3 DEF ClientHasRead, SettingsAreRead, Says, CommandIsRead
<1> QED
  BY <1>1, <1>2, <1>3 DEF ClientInv

(* README.md:65-78: client.exe understands a line of the form described    *)
(* there: it does not refuse it, and asks for exactly what the line says,  *)
(* under the settings it gives (src/client/main.cpp:38-172).               *)
THEOREM ClientsDoWhatIsAsked ==
  LinesSpec => []ClientLinesRun
<1> DEFINE Reads == program = "client" => ClientInv
<1>1. LinesInit => Reads
  BY ClientStartsReading DEF LinesInit
<1>2. Reads /\ LoopInv /\ LoopInv' /\ [LinesNext]_lineVars => Reads'
  <2> SUFFICES ASSUME Reads, LoopInv, LoopInv', [LinesNext]_lineVars, program' = "client"
      PROVE  ClientInv'
    OBVIOUS
  <2>1. program = "client"
    BY DEF LinesNext, lineVars
  <2>2. [CommandLineNext]_clVars
    BY <2>1 DEF LinesNext, lineVars
  <2> QED
    BY <2>1, <2>2, ClientStep
<1>3. Reads => ClientLinesRun
  BY DEF ClientInv, ClientLinesRun
<1>4. LinesSpec => LinesInit /\ [][LinesNext]_lineVars
  BY DEF LinesSpec, lineVars
<1> HIDE DEF Reads
<1> QED
  BY <1>1, <1>2, <1>3, <1>4, LoopAlways, PTL
=============================================================================
