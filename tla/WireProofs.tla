----------------------------- MODULE WireProofs -----------------------------
(***************************************************************************)
(* Proofs about what travels between client and server.                    *)
(*                                                                         *)
(* About Buffers, for texts of any length and any segments: that           *)
(* the server can only hold a message that fits into the buffer of the     *)
(* client, because it was read through its own (HeldFits), and that a list *)
(* of as many names as promised fits, by induction on its length.          *)
(*                                                                         *)
(* About Exchange, for texts of any characters, lists of any length and    *)
(* requests with any members: that what one side writes the other reads.   *)
(* First what each pair of encoder and decoder does, by induction on       *)
(* texts, lists and members; then the invariant of the phases              *)
(* (ExchangeInv) that puts them together.                                  *)
(***************************************************************************)
EXTENDS Exchange, Buffers, VectorProofs

Characters == [plain : Nat, quoted : Nat, wide : Nat]

\* What the server holds went through its buffer, name and message together.
HeldFits ==
  /\ name \in Names \cup {NoText}
  /\ message \in Messages \cup {NoText}
  /\ message # NoText => /\ name # NoText
                         /\ publishSize(name, message) <= serverBuffer

BInv == HeldFits /\ AcceptedMessagesFit

-----------------------------------------------------------------------------
(* One call of recv.                                                       *)

(* It yields no more than the buffer holds.                                *)
LEMMA ReadFits ==
  ASSUME NEW size \in Nat, NEW buffer \in Nat, NEW got \in receives(size, buffer)
  PROVE  got <= buffer
BY BuffersAssumption DEF receives, smaller

(* It yields everything that fits, if TCP brings it at once.               *)
LEMMA ReadAtOnce ==
  ASSUME NEW size \in Nat, NEW buffer \in Nat, NEW got \in receives(size, buffer),
         size <= buffer, size <= MaxSegment
  PROVE  got = size
BY BuffersAssumption DEF receives, smaller

LEMMA Sizes ==
  ASSUME NEW n \in Names, NEW text \in Messages
  PROVE  /\ publishSize(n, text) = 55 + escaped(n) + escaped(text)
         /\ messageSize(n, text) = publishSize(n, text)
         /\ publishSize(n, text) \in Nat
         /\ escaped(n) \in Nat /\ escaped(text) \in Nat
         /\ characters(n) = n.plain => escaped(n) = characters(n)
         /\ characters(text) = text.plain => escaped(text) = characters(text)
<1>1. n \in Characters /\ text \in Characters
  BY BuffersAssumption DEF Characters
<1>2. \A t \in Characters :
        /\ escaped(t) \in Nat /\ characters(t) \in Nat
        /\ characters(t) = t.plain => escaped(t) = characters(t)
  BY DEF Characters, escaped, characters
<1> QED
  BY <1>1, <1>2 DEF publishSize, messageSize

LEMMA DocumentFields ==
  ASSUME NEW kind, NEW texts, NEW size, NEW got, NEW string,
         last' = Document(kind, texts, size, got, string)
  PROVE  /\ last'.kind = kind /\ last'.texts = texts
         /\ last'.size = size /\ last'.read = got
         /\ whole(last') <=> got = size /\ string = size
BY DEF Document, whole

-----------------------------------------------------------------------------
(* Sums over lists.                                                        *)

(* The recursion that defines total has a solution, so total satisfies it. *)
LEMMA totalUnfolds ==
  ASSUME NEW l \in Seq(Nat)
  PROVE  total(l) = [i \in 0..Len(l) |->
           IF i = 0 THEN 0 ELSE total(l)[i - 1] + l[i]]
<1> DEFINE Body(f, i) == IF i = 0 THEN 0 ELSE f[i - 1] + l[i]
           Solves(f, n) == f = [i \in 0..n |-> Body(f, i)]
           Good == {n \in Nat : \E f : Solves(f, n)}
<1>1. 0 \in Good
  <2> DEFINE f == [i \in 0..0 |-> 0]
  <2>1. f = [i \in 0..0 |-> Body(f, i)]
    OBVIOUS
  <2> QED
    BY <2>1
<1>2. ASSUME NEW n \in Nat, n \in Good PROVE n + 1 \in Good
  <2>1. PICK f : f = [i \in 0..n |-> Body(f, i)]
    BY <1>2
  <2> DEFINE g == [i \in 0..(n + 1) |-> IF i \in 0..n THEN f[i] ELSE Body(f, n + 1)]
  <2>2. ASSUME NEW i \in 0..(n + 1) PROVE g[i] = Body(g, i)
    <3>1. CASE i = 0
      BY <3>1, <2>1
    <3>2. CASE i \in 1..n
      <4>1. i - 1 \in 0..n /\ i # 0 /\ i \in 0..n
        BY <3>2
      <4>2. g[i - 1] = f[i - 1] /\ g[i] = f[i]
        BY <4>1
      <4>3. f[i] = Body(f, i)
        BY <2>1, <4>1
      <4> QED
        BY <4>1, <4>2, <4>3
    <3>3. CASE i = n + 1
      <4>1. i - 1 \in 0..n /\ i # 0 /\ i \notin 0..n
        BY <3>3
      <4>2. g[i - 1] = f[i - 1]
        BY <4>1
      <4>3. g[i] = Body(f, i)
        BY <4>1, <3>3
      <4> QED
        BY <4>1, <4>2, <4>3
    <3> QED
      BY <3>1, <3>2, <3>3
  <2>3. g = [i \in 0..(n + 1) |-> Body(g, i)]
    BY <2>2
  <2>4. Solves(g, n + 1)
    BY <2>3
  <2>5. \E h : Solves(h, n + 1)
    <3> HIDE DEF g, Solves
    <3> QED
      BY <2>4
  <2> HIDE DEF Solves
  <2> QED
    BY <2>5
<1>3. Len(l) \in Good
  <2> HIDE DEF Good
  <2>1. Nat \subseteq Good
    BY <1>1, <1>2, NatSetInduction
  <2> QED
    BY <2>1
<1>4. \E f : f = [i \in 0..Len(l) |-> Body(f, i)]
  BY <1>3
<1>5. total(l) = CHOOSE f : f = [i \in 0..Len(l) |-> Body(f, i)]
  BY DEF total
<1> QED
  BY <1>4, <1>5

LEMMA Grows ==
  ASSUME NEW n \in Nat, NEW bound \in Nat, NEW t \in Nat, NEW x \in Nat,
         t <= n * bound, x <= bound
  PROVE  t + x \in Nat /\ t + x <= (n + 1) * bound
<1>1. (n + 1) * bound = n * bound + bound /\ n * bound \in Nat
  OBVIOUS
<1> DEFINE product == n * bound
<1> HIDE DEF product
<1>2. t + x <= product + bound
  BY <1>1 DEF product
<1> QED
  BY <1>1, <1>2 DEF product

(* Numbers that are at most bound sum up to at most bound for each.        *)
LEMMA SumBounded ==
  ASSUME NEW l \in Seq(Nat), NEW bound \in Nat, \A i \in DOMAIN l : l[i] <= bound
  PROVE  sum(l) \in Nat /\ sum(l) <= Len(l) * bound
<1> DEFINE t == total(l)
           Holds(n) == t[n] \in Nat /\ t[n] <= n * bound
           Good == {n \in Nat : n \in 0..Len(l) => Holds(n)}
<1>1. \A n \in 0..Len(l) : t[n] = IF n = 0 THEN 0 ELSE t[n - 1] + l[n]
  <2>1. t = [i \in 0..Len(l) |-> IF i = 0 THEN 0 ELSE t[i - 1] + l[i]]
    BY totalUnfolds
  <2> HIDE DEF t
  <2> QED
    BY <2>1
<1> HIDE DEF t
<1>2. 0 \in Good
  BY <1>1
<1>3. ASSUME NEW n \in Nat, n \in Good PROVE n + 1 \in Good
  <2>1. SUFFICES ASSUME n + 1 \in 0..Len(l) PROVE Holds(n + 1)
    OBVIOUS
  <2>2. t[n] \in Nat /\ t[n] <= n * bound
    BY <1>3, <2>1
  <2>3. l[n + 1] \in Nat /\ l[n + 1] <= bound
    BY <2>1
  <2>4. n + 1 # 0 /\ (n + 1) - 1 = n
    OBVIOUS
  <2>5. t[n + 1] = t[n] + l[n + 1]
    BY <1>1, <2>1, <2>4
  <2> QED
    BY <2>2, <2>3, <2>5, Grows
<1>4. Nat \subseteq Good
  <2> HIDE DEF Good
  <2> QED
    BY <1>2, <1>3, NatSetInduction
<1>5. Len(l) \in Nat
  OBVIOUS
<1>6. Holds(Len(l))
  <2> HIDE DEF Holds
  <2> QED
    BY <1>4, <1>5
<1> QED
  BY <1>6 DEF sum, t

(* README.md:42 promises 32 topics: with names of at most 62 bytes their   *)
(* list is 2045 bytes long.                                                *)
LEMMA ListSize ==
  ASSUME NEW list \in Registries, Len(list) <= 32,
         \A n \in DOMAIN list : escaped(list[n]) <= 62
  PROVE  listSize(list) \in Nat /\ listSize(list) <= 2045
<1> DEFINE lengths == [n \in DOMAIN list |-> escaped(list[n])]
           commas == IF list = <<>> THEN 0 ELSE Len(list) - 1
<1>1. list \in Seq(Characters) /\ Len(list) \in 0..32
  <2>1. list \in Seq(Characters)
    BY BuffersAssumption DEF Characters
  <2>2. \A n \in Nat : n <= 32 => n \in 0..32
    OBVIOUS
  <2>3. Len(list) \in Nat
    BY <2>1
  <2> QED
    BY <2>1, <2>2, <2>3, Zenon
<1>2. \A n \in DOMAIN list : list[n] \in Characters
  BY <1>1
<1>3. \A n \in DOMAIN list : escaped(list[n]) \in Nat
  BY <1>2 DEF Characters, escaped
<1>4. lengths \in Seq(Nat) /\ Len(lengths) = Len(list) /\ DOMAIN lengths = DOMAIN list
  BY <1>1, <1>3
<1>5. \A n \in DOMAIN lengths : lengths[n] <= 62
  BY <1>4
<1> HIDE DEF lengths
<1>6. sum(lengths) \in Nat /\ sum(lengths) <= Len(list) * 62
  BY <1>4, <1>5, SumBounded
<1>7. commas \in 0..31
  BY <1>1
<1>8. listSize(list) = 30 + sum(lengths) + commas
  BY DEF listSize, lengths
<1> HIDE DEF commas
<1> QED
  BY <1>1, <1>6, <1>7, <1>8

-----------------------------------------------------------------------------
(* The steps.                                                              *)

LEMMA SubscribeStep ==
  ASSUME BInv, Subscribe
  PROVE  BInv'
<1>1. PICK n \in Names : \E got \in receives(subscribeSize(n), serverBuffer) :
        /\ name = NoText
        /\ last' = Document("subscribe", <<n>>, subscribeSize(n), got, got)
        /\ name' = IF whole(last') THEN n ELSE NoText
        /\ UNCHANGED message
  BY DEF Subscribe
<1>2. last'.kind = "subscribe" /\ message' = NoText /\ name' \in Names \cup {NoText}
  BY <1>1 DEF Document, BInv, HeldFits
<1> QED
  BY <1>2 DEF BInv, HeldFits, AcceptedMessagesFit

LEMMA PublishStep ==
  ASSUME BInv, Publish
  PROVE  BInv'
<1>1. PICK text \in Messages : \E got \in receives(publishSize(name, text), serverBuffer) :
        /\ last' = Document("publish", <<name, text>>, publishSize(name, text), got, got)
        /\ message' = IF whole(last') THEN text ELSE message
  BY DEF Publish
<1>2. PICK got \in receives(publishSize(name, text), serverBuffer) :
        /\ last' = Document("publish", <<name, text>>, publishSize(name, text), got, got)
        /\ message' = IF whole(last') THEN text ELSE message
  BY <1>1
<1>3. name \in Names /\ name # NoText /\ name' = name
  BY DEF Publish, BInv, HeldFits
<1>4. last'.kind = "publish" /\ (whole(last') <=> got = publishSize(name, text))
  BY <1>2, DocumentFields
<1>5. whole(last') => publishSize(name, text) <= serverBuffer
  BY <1>2, <1>3, <1>4, Sizes, ReadFits DEF serverBuffer
<1>6. HeldFits'
  <2>1. CASE whole(last')
    BY <1>2, <1>3, <1>5, <2>1 DEF HeldFits, publishSize
  <2>2. CASE ~ whole(last')
    BY <1>2, <1>3, <2>2 DEF BInv, HeldFits, publishSize
  <2> QED
    BY <2>1, <2>2
<1> QED
  BY <1>4, <1>6 DEF BInv, AcceptedMessagesFit

LEMMA SendDatagramStep ==
  ASSUME BInv, SendDatagram
  PROVE  BInv'
<1> DEFINE size == messageSize(name, message)
           got  == smaller(size, clientBuffer)
<1>1. PICK string \in stringLengths(got) :
        /\ message # NoText /\ UNCHANGED <<name, message>>
        /\ last' = Document("message", <<name, message>>, size, got, string)
  BY DEF SendDatagram
<1>2. /\ name \in Names /\ message \in Messages
      /\ publishSize(name, message) <= serverBuffer
  BY <1>1 DEF BInv, HeldFits
<1>3. size \in Nat /\ size <= clientBuffer
  BY <1>2, Sizes DEF serverBuffer, clientBuffer
<1>4. got = size
  BY <1>3 DEF smaller, clientBuffer
<1>5. whole(last') \/ last'.size = clientBuffer
  <2>1. last'.size = size /\ (whole(last') <=> got = size /\ string = size)
    BY <1>1, DocumentFields
  <2>2. CASE size = clientBuffer
    BY <2>1, <2>2
  <2>3. CASE size # clientBuffer
    <3>1. got < clientBuffer
      BY <1>3, <1>4, <2>3 DEF clientBuffer
    <3>2. string = got
      BY <1>1, <3>1 DEF stringLengths
    <3> QED
      BY <1>4, <2>1, <3>2
  <2> QED
    BY <2>2, <2>3
<1> QED
  BY <1>1, <1>5 DEF BInv, HeldFits, publishSize, AcceptedMessagesFit

LEMMA ListTopicsStep ==
  ASSUME BInv, ListTopics
  PROVE  BInv'
<1>1. last'.kind = "list" /\ UNCHANGED <<name, message>>
  BY DEF ListTopics, Document
<1> QED
  BY <1>1 DEF BInv, HeldFits, publishSize, AcceptedMessagesFit

LEMMA InitBInv == BuffersInit => BInv
BY DEF BuffersInit, BInv, HeldFits, AcceptedMessagesFit, Document

LEMMA NextBInv == BInv /\ [BuffersNext]_buffersVars => BInv'
<1> SUFFICES ASSUME BInv, [BuffersNext]_buffersVars PROVE BInv'
  OBVIOUS
<1>1. CASE UNCHANGED buffersVars
  BY <1>1 DEF buffersVars, BInv, HeldFits, publishSize, AcceptedMessagesFit, whole
<1> QED
  BY <1>1, SubscribeStep, PublishStep, SendDatagramStep, ListTopicsStep
     DEF BuffersNext

-----------------------------------------------------------------------------
(* The theorems.                                                           *)

(* No client gets a message cut off: what the buffer of the server took as *)
(* a publish request fits as a message, and the client finds its end       *)
(* unless it fills the buffer exactly (server.cpp:15, client.cpp:21, 185). *)
THEOREM MessagesFit == BuffersSpec => []AcceptedMessagesFit
<1>1. BInv => AcceptedMessagesFit
  BY DEF BInv
<1> QED
  BY <1>1, InitBInv, NextBInv, PTL DEF BuffersSpec

LEMMA RestrictionInvariant ==
  ASSUME MaxSegment >= 1755
  PROVE  BInv /\ RestrictionSuffices /\ [BuffersNext]_buffersVars
           => RestrictionSuffices'
<1> SUFFICES ASSUME BInv, RestrictionSuffices, [BuffersNext]_buffersVars
             PROVE  RestrictionSuffices'
  OBVIOUS
<1>1. CASE UNCHANGED buffersVars
  BY <1>1 DEF buffersVars, RestrictionSuffices, whole
<1>2. CASE Subscribe \/ SendDatagram \/ ListTopics
  <2>1. last'.kind # "publish"
    BY <1>2 DEF Subscribe, SendDatagram, ListTopics, Document
  <2> QED
    BY <2>1 DEF RestrictionSuffices
<1>3. CASE Publish
  <2>1. name \in Names
    BY <1>3 DEF Publish, BInv, HeldFits
  <2>2. PICK text \in Messages : \E got \in receives(publishSize(name, text), serverBuffer) :
          last' = Document("publish", <<name, text>>, publishSize(name, text), got, got)
    BY <1>3 DEF Publish
  <2>3. PICK got \in receives(publishSize(name, text), serverBuffer) :
          last' = Document("publish", <<name, text>>, publishSize(name, text), got, got)
    BY <2>2
  <2>4. /\ last'.texts[1] = name /\ last'.texts[2] = text
        /\ whole(last') <=> got = publishSize(name, text)
    BY <2>3, DocumentFields
  <2> SUFFICES ASSUME characters(name) = name.plain, characters(text) = text.plain,
                      characters(name) + characters(text) <= 1700
               PROVE  got = publishSize(name, text)
    BY <2>4 DEF RestrictionSuffices
  <2>5. publishSize(name, text) <= 1755 /\ publishSize(name, text) \in Nat
    BY <2>1, Sizes
  <2> QED
    BY <2>5, ReadAtOnce, BuffersAssumption DEF serverBuffer
<1> QED
  BY <1>1, <1>2, <1>3 DEF BuffersNext

(* What obeys README.md:80 and consists of plain characters is read as a   *)
(* whole, if a segment holds the 1700 characters and the 55 bytes of the   *)
(* layout; then no buffer is to blame.                                     *)
THEOREM RestrictionHolds ==
  ASSUME MaxSegment >= 1755
  PROVE  BuffersSpec => []RestrictionSuffices
<1>1. BuffersInit => RestrictionSuffices
  BY DEF BuffersInit, RestrictionSuffices, Document
<1> QED
  BY <1>1, RestrictionInvariant, InitBInv, NextBInv, PTL DEF BuffersSpec

(* The list of 32 topics reaches the client as a whole if their names take *)
(* no more than 62 bytes each and TCP brings it at once.                   *)
THEOREM ListsAreRead ==
  ASSUME MaxSegment >= 2045
  PROVE  BuffersSpec => []ListsFit
<1>1. BuffersInit => ListsFit
  BY DEF BuffersInit, ListsFit, Document
<1>2. ListsFit /\ [BuffersNext]_buffersVars => ListsFit'
  <2> SUFFICES ASSUME ListsFit, [BuffersNext]_buffersVars PROVE ListsFit'
    OBVIOUS
  <2>1. CASE UNCHANGED buffersVars
    BY <2>1 DEF buffersVars, ListsFit, whole
  <2>2. CASE Subscribe \/ Publish \/ SendDatagram
    <3>1. last'.kind # "list"
      BY <2>2 DEF Subscribe, Publish, SendDatagram, Document
    <3> QED
      BY <3>1 DEF ListsFit
  <2>3. CASE ListTopics
    <3>1. PICK list \in Registries :
            \E got \in receives(listSize(list), clientBuffer) :
            \E string \in stringLengths(got) :
              last' = Document("list", list, listSize(list), got, string)
      BY <2>3 DEF ListTopics
    <3>2. PICK got \in receives(listSize(list), clientBuffer) :
            \E string \in stringLengths(got) :
              last' = Document("list", list, listSize(list), got, string)
      BY <3>1
    <3>0. PICK string \in stringLengths(got) :
            last' = Document("list", list, listSize(list), got, string)
      BY <3>2
    <3>3. last'.texts = list /\ (whole(last') <=> got = listSize(list) /\ string = listSize(list))
      BY <3>0, DocumentFields
    <3> SUFFICES ASSUME Len(list) <= 32, \A n \in DOMAIN list : escaped(list[n]) <= 62
                 PROVE  got = listSize(list) /\ string = listSize(list)
      BY <3>3 DEF ListsFit
    <3>4. listSize(list) \in Nat /\ listSize(list) <= 2045
      BY ListSize
    <3>5. got = listSize(list)
      BY <3>4, ReadAtOnce, BuffersAssumption DEF clientBuffer
    <3> QED
      BY <3>0, <3>4, <3>5 DEF stringLengths, clientBuffer
  <2> QED
    BY <2>1, <2>2, <2>3 DEF BuffersNext
<1> QED
  BY <1>1, <1>2, PTL DEF BuffersSpec

-----------------------------------------------------------------------------
(* Lists in array notation: reading them.                                  *)

\* What cut and split work on. No token has a comma.
Parts(S) == [tokens : Seq(Seq(S \ {Comma})), token : Seq(S \ {Comma})]

(* One character more for getline.                                         *)
LEMMA CutResult ==
  ASSUME NEW S, NEW parts \in Parts(S), NEW c \in S
  PROVE  /\ cut(parts, c) \in Parts(S)
         /\ c = Comma => cut(parts, c) = [tokens |-> Append(parts.tokens, parts.token),
                                          token  |-> <<>>]
         /\ c # Comma => cut(parts, c) = [tokens |-> parts.tokens,
                                          token  |-> Append(parts.token, c)]
<1> DEFINE T == S \ {Comma}
<1>1. parts.tokens \in Seq(Seq(T)) /\ parts.token \in Seq(T)
  BY DEF Parts
<1>2. /\ Append(parts.tokens, parts.token) \in Seq(Seq(T))
      /\ c # Comma => Append(parts.token, c) \in Seq(T)
  BY <1>1
<1>3. <<>> \in Seq(T)
  OBVIOUS
<1>4. CASE c = Comma
  BY <1>2, <1>3, <1>4 DEF cut, Parts
<1>5. CASE c # Comma
  <2>1. cut(parts, c) = [parts EXCEPT !.token = Append(parts.token, c)]
    BY <1>5 DEF cut
  <2>2. cut(parts, c) = [tokens |-> parts.tokens, token |-> Append(parts.token, c)]
    BY <2>1 DEF Parts
  <2> QED
    BY <1>1, <1>2, <1>5, <2>2 DEF Parts
<1> QED
  BY <1>4, <1>5

(* The recursion that defines partsRead, and that it keeps to its type.    *)
LEMMA PartsReadUnfolds ==
  ASSUME NEW S, NEW parts \in Parts(S), NEW text \in Seq(S)
  PROVE  /\ partsRead(parts, text)[0] = parts
         /\ \A i \in 1..Len(text) :
              partsRead(parts, text)[i] = cut(partsRead(parts, text)[i - 1], text[i])
         /\ \A i \in 0..Len(text) : partsRead(parts, text)[i] \in Parts(S)
<1> DEFINE n == Len(text)
           V == Parts(S)
           step == [i \in 1..n |-> [v \in V |-> cut(v, text[i])]]
           h == partsRead(parts, text)
           Body(f, i) == IF i = 0 THEN parts ELSE cut(f[i - 1], text[i])
<1>1. n \in Nat /\ \A i \in 1..n : text[i] \in S
  OBVIOUS
<1>2. step \in [1..n -> [V -> V]]
  <2>1. \A i \in 1..n : \A v \in V : cut(v, text[i]) \in V
    BY <1>1, CutResult
  <2> HIDE DEF n, V
  <2> QED
    BY <2>1
<1>3. \A i \in 1..n : \A v \in V : step[i][v] = cut(v, text[i])
  <2> HIDE DEF n, V
  <2> QED
    OBVIOUS
<1> HIDE DEF n, V, step
<1>4. parts \in V
  BY DEF V
<1>5. PICK g \in [0..n -> V] :
        g[0] = parts /\ \A i \in 1..n : g[i] = step[i][g[i - 1]]
  <2>1. Obeying(n, V, parts, step) # {}
    BY <1>1, <1>2, <1>4, RecursionSolved
  <2> QED
    BY <2>1 DEF Obeying
<1>6. ASSUME NEW i \in 0..n PROVE g[i] = Body(g, i)
  <2>1. CASE i = 0
    BY <1>5, <2>1
  <2>2. CASE i # 0
    <3>1. i \in 1..n /\ i - 1 \in 0..n
      BY <1>1, <2>2
    <3>2. g[i - 1] \in V
      BY <1>5, <3>1
    <3> QED
      BY <1>3, <1>5, <2>2, <3>1, <3>2
  <2> QED
    BY <2>1, <2>2
<1>7. g = [i \in 0..n |-> Body(g, i)]
  BY <1>5, <1>6
<1>8. h = CHOOSE f : f = [i \in 0..n |-> Body(f, i)]
  BY DEF partsRead, n
<1> HIDE DEF h
<1>9. h = [i \in 0..n |-> Body(h, i)]
  BY <1>7, <1>8
<1>10. h[0] = parts /\ \A i \in 1..n : h[i] = cut(h[i - 1], text[i])
  <2>1. 0 \in 0..n /\ \A i \in 1..n : i \in 0..n /\ i # 0
    BY <1>1
  <2>2. \A i \in 0..n : h[i] = Body(h, i)
    BY <1>9
  <2> QED
    BY <2>1, <2>2
<1>11. \A i \in 1..n : h[i - 1] \in V => h[i] \in V
  BY <1>2, <1>3, <1>10
<1>12. \A i \in 0..n : h[i] \in V
  BY <1>1, <1>4, <1>10, <1>11, RecursionTyped
<1> QED
  BY <1>10, <1>12 DEF h, n, V

(* The calls of getline: of one character more, and of none.               *)
LEMMA SplitAppend ==
  ASSUME NEW S, NEW parts \in Parts(S), NEW t \in Seq(S), NEW c \in S
  PROVE  split(parts, Append(t, c)) = cut(split(parts, t), c)
<1> DEFINE u == Append(t, c)
           n == Len(t)
           f == partsRead(parts, t)
           g == partsRead(parts, u)
           Same == {m \in Nat : m <= n => g[m] = f[m]}
<1>1. /\ u \in Seq(S) /\ n \in Nat /\ Len(u) = n + 1
      /\ u[n + 1] = c /\ \A i \in 1..n : u[i] = t[i]
  OBVIOUS
<1> HIDE DEF u, n
<1>2. f[0] = parts /\ \A i \in 1..n : f[i] = cut(f[i - 1], t[i])
  BY PartsReadUnfolds DEF n
<1>3. g[0] = parts /\ \A i \in 1..(n + 1) : g[i] = cut(g[i - 1], u[i])
  <2>1. \A i \in 1..Len(u) : g[i] = cut(g[i - 1], u[i])
    BY <1>1, PartsReadUnfolds
  <2>2. g[0] = parts
    BY <1>1, PartsReadUnfolds
  <2> QED
    BY <1>1, <2>1, <2>2
<1> HIDE DEF f, g
<1>4. 0 \in Same
  BY <1>2, <1>3
<1>5. ASSUME NEW m \in Nat, m \in Same PROVE m + 1 \in Same
  <2>1. SUFFICES ASSUME m + 1 <= n PROVE g[m + 1] = f[m + 1]
    OBVIOUS
  <2>2. g[m] = f[m] /\ m + 1 \in 1..n /\ m + 1 \in 1..(n + 1) /\ (m + 1) - 1 = m
    BY <1>1, <1>5, <2>1
  <2>3. f[m + 1] = cut(f[m], t[m + 1])
    BY <1>2, <2>2
  <2>4. g[m + 1] = cut(g[m], u[m + 1])
    BY <1>3, <2>2
  <2> QED
    BY <1>1, <2>2, <2>3, <2>4
<1>6. n \in Same
  <2> HIDE DEF Same
  <2>1. Nat \subseteq Same
    BY <1>4, <1>5, NatSetInduction
  <2> QED
    BY <1>1, <2>1
<1>7. g[n] = f[n]
  BY <1>1, <1>6
<1>8. n + 1 \in 1..(n + 1) /\ (n + 1) - 1 = n
  BY <1>1
<1>9. g[n + 1] = cut(f[n], c)
  <2>1. g[n + 1] = cut(g[n], u[n + 1])
    BY <1>3, <1>8
  <2> QED
    BY <1>1, <1>7, <2>1
<1> QED
  BY <1>1, <1>9 DEF split, f, g, n, u

(* Reading keeps to Parts, and reading nothing changes nothing.            *)
LEMMA SplitType ==
  ASSUME NEW S, NEW parts \in Parts(S), NEW t \in Seq(S)
  PROVE  split(parts, t) \in Parts(S) /\ split(parts, <<>>) = parts
<1>1. Len(t) \in 0..Len(t)
  OBVIOUS
<1>2. split(parts, t) \in Parts(S)
  <2>1. \A i \in 0..Len(t) : partsRead(parts, t)[i] \in Parts(S)
    BY PartsReadUnfolds
  <2> QED
    BY <1>1, <2>1 DEF split
<1>3. <<>> \in Seq(S) /\ Len(<<>>) = 0
  OBVIOUS
<1>4. partsRead(parts, <<>>)[0] = parts
  BY <1>3, PartsReadUnfolds
<1> QED
  BY <1>2, <1>3, <1>4 DEF split

(* A text may be read in two halves.                                       *)
LEMMA SplitConcat ==
  ASSUME NEW S, NEW parts \in Parts(S), NEW t \in Seq(S), NEW u \in Seq(S)
  PROVE  split(parts, t \o u) = split(split(parts, t), u)
<1> DEFINE G == {w \in Seq(S) : split(parts, t \o w) = split(split(parts, t), w)}
<1>1. split(parts, t) \in Parts(S)
  BY SplitType
<1>2. <<>> \in G
  <2>1. t \o <<>> = t /\ <<>> \in Seq(S)
    OBVIOUS
  <2>2. split(split(parts, t), <<>>) = split(parts, t)
    BY <1>1, SplitType, <2>1
  <2> QED
    BY <2>1, <2>2
<1>3. ASSUME NEW w \in Seq(S), NEW e \in S, w \in G PROVE Append(w, e) \in G
  <2>1. /\ t \o Append(w, e) = Append(t \o w, e)
        /\ Append(w, e) \in Seq(S) /\ t \o w \in Seq(S)
    OBVIOUS
  <2>2. split(parts, Append(t \o w, e)) = cut(split(parts, t \o w), e)
    <3>1. \A x \in Seq(S) : split(parts, Append(x, e)) = cut(split(parts, x), e)
      BY SplitAppend
    <3> QED
      BY <2>1, <3>1
  <2>3. split(split(parts, t), Append(w, e)) = cut(split(split(parts, t), w), e)
    BY <1>1, SplitAppend
  <2>4. split(parts, t \o w) = split(split(parts, t), w)
    BY <1>3
  <2> QED
    BY <2>1, <2>2, <2>3, <2>4
<1>4. Seq(S) \subseteq G
  <2> HIDE DEF G
  <2> QED
    BY <1>2, <1>3, SeqSetInduction
<1> QED
  BY <1>4

(* Characters other than a comma are added to the token.                   *)
LEMMA SplitPlain ==
  ASSUME NEW S, NEW parts \in Parts(S), NEW u \in Seq(S \ {Comma})
  PROVE  split(parts, u) = [tokens |-> parts.tokens, token |-> parts.token \o u]
<1> DEFINE T == S \ {Comma}
           read(w) == [tokens |-> parts.tokens, token |-> parts.token \o w]
           G == {w \in Seq(T) : split(parts, w) = read(w)}
<1>1. parts.tokens \in Seq(Seq(T)) /\ parts.token \in Seq(T)
  BY DEF Parts
<1>2. <<>> \in G
  <2>1. parts.token \o <<>> = parts.token /\ <<>> \in Seq(S) /\ <<>> \in Seq(T)
    BY <1>1
  <2>2. parts = read(<<>>)
    BY <2>1 DEF Parts
  <2> QED
    BY <2>1, <2>2, SplitType
<1>3. ASSUME NEW w \in Seq(T), NEW e \in T, w \in G PROVE Append(w, e) \in G
  <2>1. /\ parts.token \o Append(w, e) = Append(parts.token \o w, e)
        /\ Append(w, e) \in Seq(T) /\ w \in Seq(S) /\ e \in S /\ e # Comma
        /\ parts.token \o w \in Seq(T)
    <3>1. w \in Seq(S) /\ e \in S /\ e # Comma
      OBVIOUS
    <3>2. ASSUME NEW p \in Seq(T), NEW v \in Seq(T), NEW a \in T
          PROVE  /\ p \o Append(v, a) = Append(p \o v, a)
                 /\ p \o v \in Seq(T) /\ Append(v, a) \in Seq(T)
      <4> HIDE DEF T
      <4> QED
        OBVIOUS
    <3> HIDE DEF T
    <3> QED
      BY <1>1, <3>1, <3>2
  <2>2. split(parts, Append(w, e)) = cut(split(parts, w), e)
    BY <2>1, SplitAppend
  <2>3. split(parts, w) = read(w)
    BY <1>3
  <2>4. read(w) \in Parts(S)
    BY <1>1, <2>1 DEF Parts
  <2>5. cut(read(w), e) = [tokens |-> read(w).tokens, token |-> Append(read(w).token, e)]
    <3> HIDE DEF read
    <3> QED
      BY <2>1, <2>4, CutResult
  <2>6. cut(read(w), e) = read(Append(w, e))
    BY <2>1, <2>5
  <2> QED
    BY <2>1, <2>2, <2>3, <2>6
<1>4. Seq(T) \subseteq G
  <2> HIDE DEF G, T
  <2> QED
    BY <1>2, <1>3, SeqSetInduction
<1> QED
  BY <1>4

(* A name and a comma behind what was split so far make one token more.    *)
LEMMA SplitName ==
  ASSUME NEW S, Comma \in S, NEW tokens \in Seq(Seq(S \ {Comma})),
         NEW u \in Seq(S \ {Comma})
  PROVE  LET parts == [tokens |-> tokens, token |-> <<>>]
         IN  /\ split(parts, u) = [tokens |-> tokens, token |-> u]
             /\ split(parts, Append(u, Comma)) =
                  [tokens |-> Append(tokens, u), token |-> <<>>]
<1> DEFINE parts == [tokens |-> tokens, token |-> <<>>]
           read == [tokens |-> tokens, token |-> u]
<1>1. <<>> \in Seq(S \ {Comma}) /\ <<>> \o u = u /\ u \in Seq(S)
  OBVIOUS
<1>2. parts \in Parts(S) /\ read \in Parts(S)
  BY <1>1 DEF Parts
<1>3. split(parts, u) = read
  <2>1. split(parts, u) = [tokens |-> parts.tokens, token |-> parts.token \o u]
    <3> HIDE DEF parts
    <3> QED
      BY <1>2, SplitPlain
  <2> QED
    BY <1>1, <2>1
<1>4. split(parts, Append(u, Comma)) = cut(split(parts, u), Comma)
  BY <1>1, <1>2, SplitAppend
<1>5. cut(read, Comma) = [tokens |-> Append(tokens, u), token |-> <<>>]
  <2>1. cut(read, Comma) = [tokens |-> Append(read.tokens, read.token), token |-> <<>>]
    <3> HIDE DEF read
    <3> QED
      BY <1>2, CutResult
  <2> QED
    BY <2>1
<1> QED
  BY <1>3, <1>4, <1>5

-----------------------------------------------------------------------------
(* What setResponseArgument writes between the two brackets.               *)
joined(list) ==
  FlattenSeq([i \in DOMAIN list |->
                IF i = Len(list) THEN list[i] ELSE Append(list[i], Comma)])

(* arrayText puts brackets around it, and SubSeq takes them away.          *)
LEMMA BracketsOff ==
  ASSUME NEW S, NEW list, joined(list) \in Seq(S)
  PROVE  LET text == arrayText(list) IN SubSeq(text, 2, Len(text) - 1) = joined(list)
<1> DEFINE U == S \cup {"[", "]"}
           m == joined(list)
<1>1. arrayText(list) = <<"[">> \o m \o <<"]">>
  BY DEF arrayText, joined
<1>2. m \in Seq(U)
  OBVIOUS
<1>3. ASSUME NEW w \in Seq(U)
      PROVE  LET text == <<"[">> \o w \o <<"]">>
             IN  SubSeq(text, 2, Len(text) - 1) = w
  <2> DEFINE text == <<"[">> \o w \o <<"]">>
             mid == SubSeq(text, 2, Len(text) - 1)
  <2>1. <<"[">> \in Seq(U) /\ <<"]">> \in Seq(U)
    OBVIOUS
  <2>2. text \in Seq(U) /\ Len(text) = Len(w) + 2
        /\ \A i \in 1..Len(w) : text[i + 1] = w[i]
    BY <2>1
  <2> HIDE DEF text
  <2>3. mid \in Seq(U) /\ Len(mid) = Len(w) /\ \A i \in 1..Len(w) : mid[i] = text[i + 1]
    BY <2>2
  <2> HIDE DEF mid
  <2>4. mid = w
    BY <2>2, <2>3
  <2> QED
    BY <2>4 DEF mid, text
<1> HIDE DEF m
<1> QED
  BY <1>1, <1>2, <1>3 DEF m

(* What is written is read again, if no name is empty or has a comma; and  *)
(* without names nothing is written or read.                               *)
LEMMA JoinedSplits ==
  ASSUME NEW S, Comma \in S, NEW list \in Seq(Seq(S \ {Comma}) \ {<<>>})
  PROVE  tokensOf(joined(list)) = list /\ joined(list) \in Seq(S)
<1> DEFINE T == S \ {Comma}
           n == Len(list)
           pieces == [i \in DOMAIN list |-> IF i = n THEN list[i] ELSE Append(list[i], Comma)]
<1>1. /\ n \in Nat /\ DOMAIN list = 1..n
      /\ \A i \in 1..n : list[i] \in Seq(T) /\ list[i] # <<>>
      /\ list \in Seq(Seq(T))
  OBVIOUS
<1>2. \A w \in Seq(T) : w \in Seq(S)
  OBVIOUS
<1>3. \A w \in Seq(T) : Append(w, Comma) \in Seq(S)
  OBVIOUS
<1>4. NoParts \in Parts(S)
  BY DEF NoParts, Parts
<1>5. joined(list) = FlattenSeq(pieces)
  BY DEF joined
<1>6. CASE n = 0
  <2>1. list = <<>>
    BY <1>6
  <2>2. pieces = <<>>
    BY <1>1, <1>6
  <2>3. joined(list) = <<>>
    BY <1>5, <2>2 DEF FlattenSeq
  <2>4. split(NoParts, <<>>) = NoParts
    <3>1. <<>> \in Seq(S)
      OBVIOUS
    <3> QED
      BY <1>4, <3>1, SplitType
  <2>5. tokensOf(<<>>) = <<>>
    BY <2>4 DEF tokensOf, NoParts
  <2> QED
    <3>1. <<>> \in Seq(S)
      OBVIOUS
    <3> QED
      BY <2>1, <2>3, <2>5, <3>1
<1>7. CASE n # 0
  <2>1. pieces \in Seq(Seq(S)) /\ Len(pieces) = n
    <3>1. \A i \in 1..n : pieces[i] \in Seq(S)
      BY <1>1, <1>2, <1>3
    <3>2. pieces \in [1..n -> Seq(S)]
      <4> HIDE DEF n
      <4> QED
        BY <1>1, <3>1
    <3>3. ASSUME NEW m \in Nat, NEW V, NEW g \in [1..m -> V]
          PROVE  g \in Seq(V) /\ Len(g) = m
      OBVIOUS
    <3> HIDE DEF n, pieces
    <3> QED
      BY <1>1, <3>2, <3>3
  <2>2. PICK f \in [1..n -> Seq(S)] :
          /\ f[1] = pieces[1]
          /\ \A i \in 2..n : f[i] = f[i - 1] \o pieces[i]
          /\ FlattenSeq(pieces) = f[n]
    <3> HIDE DEF n, pieces
    <3>1. pieces # <<>>
      BY <1>7, <2>1
    <3> QED
      BY <2>1, <3>1, FlattenUnfolds
  <2> DEFINE read(k) == IF k = n THEN [tokens |-> SubSeq(list, 1, n - 1), token |-> list[n]]
                        ELSE [tokens |-> SubSeq(list, 1, k), token |-> <<>>]
             before(k) == [tokens |-> SubSeq(list, 1, k), token |-> <<>>]
             Good == {k \in Nat : k + 1 \in 1..n => split(NoParts, f[k + 1]) = read(k + 1)}
  <2> HIDE DEF n
  <2>3. \A k \in 1..n : SubSeq(list, 1, k - 1) \in Seq(Seq(T))
    BY <1>1
  <2>4. \A k \in 1..n : Append(SubSeq(list, 1, k - 1), list[k]) = SubSeq(list, 1, k)
    BY <1>1 DEF n
  <2>5. before(0) = NoParts
    BY <1>1 DEF NoParts
  <2>6. ASSUME NEW k \in 1..n PROVE split(before(k - 1), pieces[k]) = read(k)
    <3> DEFINE tokens == SubSeq(list, 1, k - 1)
               u == list[k]
    <3>1. tokens \in Seq(Seq(T)) /\ u \in Seq(T)
      BY <1>1, <2>3
    <3> HIDE DEF tokens, u
    <3>2. /\ split([tokens |-> tokens, token |-> <<>>], u) = [tokens |-> tokens, token |-> u]
          /\ split([tokens |-> tokens, token |-> <<>>], Append(u, Comma)) =
               [tokens |-> Append(tokens, u), token |-> <<>>]
      BY <3>1, SplitName
    <3>3. CASE k = n
      BY <1>1, <3>2, <3>3 DEF tokens, u
    <3>4. CASE k # n
      BY <1>1, <2>4, <3>2, <3>4 DEF tokens, u
    <3> QED
      BY <3>3, <3>4
  <2> HIDE DEF pieces
  <2>7. 0 \in Good
    <3>1. 1 \in 1..n /\ 1 - 1 = 0 /\ 0 + 1 = 1
      BY <1>1, <1>7
    <3>2. split(before(0), pieces[1]) = read(1)
      <4> HIDE DEF before, read
      <4> QED
        BY <2>6, <3>1
    <3>3. split(NoParts, f[1]) = read(1)
      <4> HIDE DEF before, read
      <4> QED
        BY <2>2, <2>5, <3>2
    <3> HIDE DEF before, read
    <3> QED
      BY <3>1, <3>3
  <2>8. ASSUME NEW k \in Nat, k \in Good PROVE k + 1 \in Good
    <3>1. SUFFICES ASSUME k + 2 \in 1..n PROVE split(NoParts, f[k + 2]) = read(k + 2)
      OBVIOUS
    <3>2. k + 1 \in 1..n /\ k + 1 # n /\ k + 2 \in 2..n /\ (k + 2) - 1 = k + 1
      BY <1>1, <3>1
    <3>3. split(NoParts, f[k + 1]) = before(k + 1)
      BY <2>8, <3>2
    <3>4. f[k + 2] = f[k + 1] \o pieces[k + 2]
      BY <2>2, <3>2
    <3>5. f[k + 1] \in Seq(S) /\ pieces[k + 2] \in Seq(S)
      <4>1. k + 2 \in 1..Len(pieces)
        BY <2>1, <3>1
      <4>2. pieces[k + 2] \in Seq(S)
        BY <2>1, <4>1
      <4>3. f[k + 1] \in Seq(S)
        BY <2>2, <3>2
      <4> QED
        BY <4>2, <4>3
    <3>6. split(NoParts, f[k + 1] \o pieces[k + 2]) = split(split(NoParts, f[k + 1]), pieces[k + 2])
      BY <1>4, <3>5, SplitConcat
    <3>7. split(before(k + 1), pieces[k + 2]) = read(k + 2)
      <4> HIDE DEF before, read
      <4> QED
        BY <2>6, <3>1, <3>2
    <3> HIDE DEF before, read
    <3> QED
      BY <3>3, <3>4, <3>6, <3>7
  <2>9. n - 1 \in Good
    <3> HIDE DEF Good
    <3>1. Nat \subseteq Good
      BY <2>7, <2>8, NatSetInduction
    <3> QED
      BY <1>1, <1>7, <3>1
  <2>10. split(NoParts, f[n]) = [tokens |-> SubSeq(list, 1, n - 1), token |-> list[n]]
    <3>1. (n - 1) + 1 = n /\ n \in 1..n
      BY <1>1, <1>7
    <3> QED
      BY <2>9, <3>1
  <2>11. list[n] # <<>> /\ Append(SubSeq(list, 1, n - 1), list[n]) = list
    <3>1. n \in 1..n
      BY <1>1, <1>7
    <3>2. SubSeq(list, 1, n) = list
      BY <1>1 DEF n
    <3> QED
      BY <1>1, <2>4, <3>1, <3>2
  <2>12. tokensOf(f[n]) = list
    <3> DEFINE parts == split(NoParts, f[n])
    <3> HIDE DEF parts
    <3>1. parts.token = list[n] /\ parts.tokens = SubSeq(list, 1, n - 1)
      <4>1. parts = [tokens |-> SubSeq(list, 1, n - 1), token |-> list[n]]
        BY <2>10 DEF parts
      <4> QED
        BY <4>1
    <3>2. parts.token # <<>> /\ Append(parts.tokens, parts.token) = list
      BY <2>11, <3>1
    <3> QED
      BY <3>2 DEF tokensOf, parts
  <2>13. f[n] \in Seq(S)
    BY <1>1, <1>7, <2>2
  <2> QED
    BY <1>5, <2>2, <2>12, <2>13
<1> QED
  BY <1>6, <1>7

(* What is written consists of the characters of the names and commas.     *)
LEMMA JoinedType ==
  ASSUME NEW S, Comma \in S, NEW list \in Seq(Seq(S))
  PROVE  joined(list) \in Seq(S)
<1> DEFINE n == Len(list)
           pieces == [i \in DOMAIN list |-> IF i = n THEN list[i] ELSE Append(list[i], Comma)]
<1>1. n \in Nat /\ DOMAIN list = 1..n /\ \A i \in 1..n : list[i] \in Seq(S)
  OBVIOUS
<1>2. \A w \in Seq(S) : Append(w, Comma) \in Seq(S)
  OBVIOUS
<1>3. joined(list) = FlattenSeq(pieces)
  BY DEF joined
<1> HIDE DEF n
<1>4. \A i \in 1..n : pieces[i] \in Seq(S)
  BY <1>1, <1>2
<1>5. pieces \in [1..n -> Seq(S)]
  BY <1>1, <1>4
<1>6. ASSUME NEW m \in Nat, NEW V, NEW g \in [1..m -> V]
      PROVE  g \in Seq(V) /\ Len(g) = m
  OBVIOUS
<1> HIDE DEF pieces
<1>7. pieces \in Seq(Seq(S)) /\ Len(pieces) = n
  BY <1>1, <1>5, <1>6
<1>8. CASE pieces = <<>>
  <2>1. <<>> \in Seq(S)
    OBVIOUS
  <2> QED
    BY <1>3, <1>8, <2>1 DEF FlattenSeq
<1>9. CASE pieces # <<>>
  <2>1. PICK f \in [1..Len(pieces) -> Seq(S)] : FlattenSeq(pieces) = f[Len(pieces)]
    BY <1>7, <1>9, FlattenUnfolds
  <2>2. Len(pieces) \in 1..Len(pieces)
    BY <1>7, <1>9
  <2>3. f[Len(pieces)] \in Seq(S)
    BY <2>1, <2>2
  <2> QED
    BY <1>3, <2>1, <2>3
<1> QED
  BY <1>8, <1>9

(* No token has a comma.                                                   *)
LEMMA TokensHaveNoComma ==
  ASSUME NEW S, NEW text \in Seq(S)
  PROVE  tokensOf(text) \in Seq(Seq(S \ {Comma}))
<1> DEFINE parts == split(NoParts, text)
<1>1. NoParts \in Parts(S)
  BY DEF NoParts, Parts
<1>2. parts \in Parts(S)
  BY <1>1, SplitType
<1> HIDE DEF parts
<1>3. parts.tokens \in Seq(Seq(S \ {Comma})) /\ parts.token \in Seq(S \ {Comma})
  BY <1>2 DEF Parts
<1>4. Append(parts.tokens, parts.token) \in Seq(Seq(S \ {Comma}))
  BY <1>3
<1> QED
  BY <1>3, <1>4 DEF tokensOf, parts

-----------------------------------------------------------------------------
(* The space around a token.                                               *)

(* And one is the greatest.                                                *)
LEMMA SomeMax ==
  ASSUME NEW n \in Nat, NEW M \in SUBSET (1..n), M # {}
  PROVE  Max(M) \in M /\ \A y \in M : Max(M) >= y
<1> DEFINE N == {(n + 1) - x : x \in M}
<1>1. N \in SUBSET (1..n) /\ N # {}
  <2>1. \A x \in M : (n + 1) - x \in 1..n
    OBVIOUS
  <2> QED
    BY <2>1
<1> HIDE DEF N
<1>2. PICK m \in N : \A y \in N : m <= y
  <2>1. N \in SUBSET Nat
    BY <1>1
  <2>2. Min(N) \in N /\ \A y \in N : Min(N) <= y
    BY <1>1, <2>1, SomeMin
  <2> QED
    BY <2>2
<1>3. PICK x \in M : m = (n + 1) - x
  BY DEF N
<1>4. ASSUME NEW y \in M PROVE x >= y
  <2>1. (n + 1) - y \in N
    BY DEF N
  <2>2. m <= (n + 1) - y
    BY <1>2, <2>1
  <2> QED
    BY <1>3, <2>2
<1>5. \E z \in M : \A y \in M : z >= y
  BY <1>4
<1> QED
  BY <1>5 DEF Max

(* A text that neither begins nor ends with a space stays as it is.        *)
LEMMA TrimNothing ==
  ASSUME NEW S, NEW t \in Seq(S), t # <<>> => t[1] # Space /\ t[Len(t)] # Space
  PROVE  trim(t) = t
<1> DEFINE n == Len(t)
           marks == {i \in DOMAIN t : t[i] # Space}
<1>1. n \in Nat /\ DOMAIN t = 1..n /\ (t # <<>> <=> n >= 1)
  OBVIOUS
<1>2. CASE t = <<>>
  BY <1>2 DEF trim
<1>3. CASE t # <<>>
  <2>1. 1 \in marks /\ n \in marks /\ marks \in SUBSET (1..n)
    BY <1>1, <1>3
  <2> HIDE DEF marks
  <2>2. /\ Min(marks) \in marks /\ \A y \in marks : Min(marks) <= y
        /\ Max(marks) \in marks /\ \A y \in marks : Max(marks) >= y
    <3>1. marks # {} /\ marks \in SUBSET Nat
      BY <2>1
    <3> QED
      BY <1>1, <2>1, <3>1, SomeMin, SomeMax
  <2>3. Min(marks) = 1 /\ Max(marks) = n
    <3>1. ASSUME NEW a \in 1..n, a <= 1 PROVE a = 1
      BY <1>1, <3>1
    <3>2. ASSUME NEW k \in Nat, NEW a \in 1..k, a >= k PROVE a = k
      BY <3>2
    <3>3. Min(marks) \in 1..n /\ Max(marks) \in 1..n
      BY <2>1, <2>2
    <3>4. Min(marks) <= 1 /\ Max(marks) >= n
      BY <2>1, <2>2
    <3> QED
      BY <3>1, <3>2, <3>3, <3>4
  <2>4. SubSeq(t, 1, n) = t
    OBVIOUS
  <2> QED
    BY <2>1, <2>3, <2>4 DEF trim, marks
<1> QED
  BY <1>2, <1>3

(* What is left of a text neither begins nor ends with a space.            *)
LEMMA TrimResult ==
  ASSUME NEW S, NEW t \in Seq(S)
  PROVE  trim(t) \in Seq(S) /\ trim(trim(t)) = trim(t)
<1> DEFINE n == Len(t)
           marks == {i \in DOMAIN t : t[i] # Space}
           u == trim(t)
<1>1. n \in Nat /\ DOMAIN t = 1..n
  OBVIOUS
<1>2. u \in Seq(S) /\ (u # <<>> => u[1] # Space /\ u[Len(u)] # Space)
  <2>1. CASE marks = {}
    <3>1. <<>> \in Seq(S)
      OBVIOUS
    <3>2. u = <<>>
      BY <2>1 DEF trim
    <3> HIDE DEF u
    <3> QED
      BY <3>1, <3>2
  <2>2. CASE marks # {}
    <3> DEFINE a == Min(marks)
               b == Max(marks)
    <3>1. marks \in SUBSET (1..n) /\ \A i \in marks : t[i] # Space
      BY <1>1
    <3>2. u = SubSeq(t, a, b)
      BY <2>2 DEF trim
    <3> HIDE DEF marks, u
    <3>0. marks \in SUBSET Nat
      BY <3>1
    <3>3. /\ a \in marks /\ \A y \in marks : a <= y
          /\ b \in marks /\ \A y \in marks : b >= y
      BY <1>1, <2>2, <3>0, <3>1, SomeMin, SomeMax
    <3> HIDE DEF a, b
    <3>4. a \in 1..n /\ b \in 1..n /\ a <= b
      BY <3>1, <3>3
    <3>5. /\ SubSeq(t, a, b) \in Seq(S)
          /\ Len(SubSeq(t, a, b)) = (b - a) + 1
          /\ SubSeq(t, a, b)[1] = t[a]
          /\ SubSeq(t, a, b)[(b - a) + 1] = t[b]
      BY <3>4
    <3> QED
      BY <3>1, <3>2, <3>3, <3>5
  <2> QED
    BY <2>1, <2>2
<1> HIDE DEF u
<1>3. trim(u) = u
  BY <1>2, TrimNothing
<1> QED
  BY <1>2, <1>3 DEF u

(* What setResponseArgument writes for a list, arrayStringToVectorString   *)
(* reads again exactly if no name has a comma, or a space at an end.       *)
LEMMA WrittenListIsRead ==
  ASSUME NEW S, Comma \in S, NEW list \in Seq(Seq(S) \ {<<>>})
  PROVE  arrayStringToVectorString(arrayText(list)) = list
           <=> \A n \in DOMAIN list : isPlain(list[n])
<1> DEFINE T == S \ {Comma}
           tokens == tokensOf(joined(list))
<1>1. joined(list) \in Seq(S)
  BY JoinedType
<1>2. arrayStringToVectorString(arrayText(list)) = [i \in DOMAIN tokens |-> trim(tokens[i])]
  <2>1. SubSeq(arrayText(list), 2, Len(arrayText(list)) - 1) = joined(list)
    BY <1>1, BracketsOff
  <2> QED
    BY <2>1 DEF arrayStringToVectorString
<1>3. tokens \in Seq(Seq(T))
  BY <1>1, TokensHaveNoComma
<1> HIDE DEF tokens
<1>4. /\ Len(list) \in Nat /\ DOMAIN list = 1..Len(list)
      /\ list \in [1..Len(list) -> Seq(S) \ {<<>>}]
  OBVIOUS
<1>5. ASSUME [i \in DOMAIN tokens |-> trim(tokens[i])] = list, NEW n \in DOMAIN list
      PROVE  isPlain(list[n])
  <2>1. n \in DOMAIN tokens /\ list[n] = trim(tokens[n])
    BY <1>5
  <2>2. tokens[n] \in Seq(T)
    BY <1>3, <2>1
  <2>3. list[n] \in Seq(T) /\ trim(list[n]) = list[n]
    <3> HIDE DEF T
    <3> QED
      BY <2>1, <2>2, TrimResult
  <2>4. Comma \notin Range(list[n])
    BY <2>3 DEF Range
  <2> QED
    BY <2>3, <2>4 DEF isPlain
<1>6. ASSUME \A n \in DOMAIN list : isPlain(list[n])
      PROVE  [i \in DOMAIN tokens |-> trim(tokens[i])] = list
  <2>1. ASSUME NEW n \in 1..Len(list) PROVE list[n] \in Seq(T) \ {<<>>}
    <3>1. Comma \notin Range(list[n]) /\ list[n] \in Seq(S) /\ list[n] # <<>>
      BY <1>4, <1>6 DEF isPlain
    <3>2. ASSUME NEW w \in Seq(S), Comma \notin Range(w) PROVE w \in Seq(T)
      <4>1. \A i \in 1..Len(w) : w[i] \in T
        BY <3>2 DEF Range
      <4> QED
        BY <4>1
    <3> QED
      BY <3>1, <3>2
  <2>2. list \in Seq(Seq(T) \ {<<>>})
    <3> HIDE DEF T
    <3> QED
      BY <1>4, <2>1
  <2>3. tokens = list
    BY <2>2, JoinedSplits DEF tokens
  <2>4. \A n \in 1..Len(list) : trim(list[n]) = list[n]
    BY <1>4, <1>6 DEF isPlain
  <2> QED
    BY <1>4, <2>3, <2>4
<1> QED
  BY <1>2, <1>5, <1>6

-----------------------------------------------------------------------------
(* Arguments of a request.                                                 *)

\* What setCommandArgument may make of these members.
ArgumentResults(id, members) ==
  {Throw("Json::LogicError"), Throw("runtime_error")}
  \cup {Command(id, v) : v \in [commandDictionary(id) ->
                                  {<<>>} \cup {asString(m[2]) : m \in Range(members)}]}

(* A result is an exception, or a Command with all its arguments.          *)
LEMMA ArgumentResult ==
  ASSUME NEW id, NEW members, NEW r \in ArgumentResults(id, members)
  PROVE  /\ throws(r) \/ (r.commandIdentifier = id /\ DOMAIN r.values = commandDictionary(id)
                          /\ r = Command(id, r.values))
<1>1. CASE r \in {Throw("Json::LogicError"), Throw("runtime_error")}
  BY <1>1 DEF Throw, throws
<1>2. CASE r \notin {Throw("Json::LogicError"), Throw("runtime_error")}
  <2>1. PICK v \in [commandDictionary(id) ->
                      {<<>>} \cup {asString(m[2]) : m \in Range(members)}] : r = Command(id, v)
    BY <1>2 DEF ArgumentResults
  <2>2. r.commandIdentifier = id /\ r.values = v
    BY <2>1 DEF Command
  <2>3. DOMAIN v = commandDictionary(id)
    OBVIOUS
  <2> QED
    BY <2>1, <2>2, <2>3
<1> QED
  BY <1>1, <1>2

(* The fields of a Command.                                                *)
LEMMA CommandThrowsNot ==
  ASSUME NEW id, NEW v
  PROVE  ~ throws(Command(id, v)) /\ Command(id, v).commandIdentifier = id
         /\ Command(id, v).values = v
BY DEF throws, Command

\* The arguments of a command once that of m is set, and before any is.
given(v, m) == [v EXCEPT ![parameterNamed(m[1])] = asString(m[2])]
NoneGiven(id) == [p \in commandDictionary(id) |-> <<>>]

(* One call of setCommandArgument with a member that has a scalar value    *)
(* and the name of an argument of this command.                            *)
LEMMA ArgumentSet ==
  ASSUME NEW id, NEW v, NEW m, isScalar(m[2]), parameterNamed(m[1]) \in DOMAIN v
  PROVE  setCommandArgument(Command(id, v), m) =
           Command(id, given(v, m))
<1>1. ~ throws(Command(id, v)) /\ Command(id, v).values = v
  BY CommandThrowsNot
<1>2. setCommandArgument(Command(id, v), m) =
        [Command(id, v) EXCEPT !.values[parameterNamed(m[1])] = asString(m[2])]
  BY <1>1 DEF setCommandArgument
<1> QED
  BY <1>2 DEF Command, given

(* setCommandArgument leads from one possible result to another.           *)
LEMMA SetCommandArgumentType ==
  ASSUME NEW id, NEW members, NEW r \in ArgumentResults(id, members),
         NEW m \in Range(members)
  PROVE  setCommandArgument(r, m) \in ArgumentResults(id, members)
<1> DEFINE key == parameterNamed(m[1])
           T == {<<>>} \cup {asString(e[2]) : e \in Range(members)}
<1>1. CASE throws(r)
  BY <1>1 DEF setCommandArgument
<1>2. CASE ~ throws(r) /\ ~ isScalar(m[2])
  BY <1>2 DEF setCommandArgument, ArgumentResults
<1>3. CASE ~ throws(r) /\ isScalar(m[2]) /\ key \notin DOMAIN r.values
  BY <1>3 DEF setCommandArgument, ArgumentResults
<1>4. CASE ~ throws(r) /\ isScalar(m[2]) /\ key \in DOMAIN r.values
  <2>1. PICK v \in [commandDictionary(id) -> T] : r = Command(id, v)
    <3>1. r \notin {Throw("Json::LogicError"), Throw("runtime_error")}
      BY <1>4 DEF throws, Throw
    <3> QED
      BY <3>1 DEF ArgumentResults
  <2>2. r.values = v /\ DOMAIN v = commandDictionary(id)
    BY <2>1, CommandThrowsNot
  <2>3. setCommandArgument(r, m) = Command(id, [v EXCEPT ![key] = asString(m[2])])
    BY <1>4, <2>1, <2>2, ArgumentSet DEF given
  <2>4. [v EXCEPT ![key] = asString(m[2])] \in [commandDictionary(id) -> T]
    BY <2>1
  <2> HIDE DEF key
  <2> QED
    BY <2>3, <2>4 DEF ArgumentResults
<1> QED
  BY <1>1, <1>2, <1>3, <1>4

(* The recursion that defines argumentsSet.                                *)
LEMMA ArgumentsSetUnfolds ==
  ASSUME NEW id, NEW members, members \in Seq(Range(members))
  PROVE  /\ argumentsSet(id, members)[0] = Command(id, NoneGiven(id))
         /\ \A i \in 1..Len(members) :
              argumentsSet(id, members)[i] =
                setCommandArgument(argumentsSet(id, members)[i - 1], members[i])
         /\ \A i \in 0..Len(members) :
              argumentsSet(id, members)[i] \in ArgumentResults(id, members)
<1> DEFINE n == Len(members)
           V == ArgumentResults(id, members)
           base == Command(id, NoneGiven(id))
           step == [i \in 1..n |-> [v \in V |-> setCommandArgument(v, members[i])]]
           h == argumentsSet(id, members)
           Body(f, i) == IF i = 0 THEN base ELSE setCommandArgument(f[i - 1], members[i])
<1>1. n \in Nat /\ \A i \in 1..n : members[i] \in Range(members)
  BY DEF Range
<1>2. step \in [1..n -> [V -> V]]
  <2>1. \A i \in 1..n : \A v \in V : setCommandArgument(v, members[i]) \in V
    BY <1>1, SetCommandArgumentType
  <2> HIDE DEF n, V
  <2> QED
    BY <2>1
<1>3. \A i \in 1..n : \A v \in V : step[i][v] = setCommandArgument(v, members[i])
  <2> HIDE DEF n, V
  <2> QED
    OBVIOUS
<1>4. base \in V
  BY DEF ArgumentResults, NoneGiven
<1>5. h = CHOOSE f : f = [i \in 0..n |-> Body(f, i)]
  BY DEF argumentsSet, NoneGiven
<1> HIDE DEF n, V, step, base, h
<1>6. PICK g \in [0..n -> V] :
        g[0] = base /\ \A i \in 1..n : g[i] = step[i][g[i - 1]]
  <2>1. Obeying(n, V, base, step) # {}
    BY <1>1, <1>2, <1>4, RecursionSolved
  <2> QED
    BY <2>1 DEF Obeying
<1>7. ASSUME NEW i \in 0..n PROVE g[i] = Body(g, i)
  <2>1. CASE i = 0
    BY <1>6, <2>1
  <2>2. CASE i # 0
    <3>1. i \in 1..n /\ i - 1 \in 0..n
      BY <1>1, <2>2
    <3>2. g[i - 1] \in V
      BY <1>6, <3>1
    <3> QED
      BY <1>3, <1>6, <2>2, <3>1, <3>2
  <2> QED
    BY <2>1, <2>2
<1>8. g = [i \in 0..n |-> Body(g, i)]
  BY <1>6, <1>7
<1>9. h = [i \in 0..n |-> Body(h, i)]
  BY <1>5, <1>8
<1>10. h[0] = base /\ \A i \in 1..n : h[i] = setCommandArgument(h[i - 1], members[i])
  <2>1. 0 \in 0..n /\ \A i \in 1..n : i \in 0..n /\ i # 0
    BY <1>1
  <2>2. \A i \in 0..n : h[i] = Body(h, i)
    BY <1>9
  <2> QED
    BY <2>1, <2>2
<1>11. \A i \in 1..n : h[i - 1] \in V => h[i] \in V
  BY <1>2, <1>3, <1>10
<1>12. \A i \in 0..n : h[i] \in V
  BY <1>1, <1>4, <1>10, <1>11, RecursionTyped
<1> QED
  BY <1>10, <1>12 DEF base, h, n, V

(* What deserialize does with a document of the right shape.               *)
LEMMA DeserializeMembers ==
  ASSUME NEW i \in Int, NEW ms
  PROVE  LET result == setCommandArguments(i, ms)
             doc    == Object([command |-> Number(i), arguments |-> Object(ms)])
         IN  deserialize(doc) = IF throws(result) \/ isValid(result.values) THEN result
                                ELSE Throw("runtime_error")
<1> DEFINE arguments == Object(ms)
           ma == [command |-> Number(i), arguments |-> arguments]
           doc == Object(ma)
<1>1. doc.type = "object" /\ doc.members = ma
  BY DEF Object
<1>2. /\ ma.command = Number(i) /\ ma.arguments = arguments
      /\ DOMAIN ma = {"command", "arguments"}
  OBVIOUS
<1>3. arguments.type = "object" /\ arguments.members = ms
  BY DEF Object
<1>4. isInt(Number(i)) /\ asInt(Number(i)) = i
  BY ProtocolAssumption DEF isInt, asInt, Number
<1> HIDE DEF doc, ma, arguments
<1>5. deserialize(doc) = deserializeMembers(ma)
  BY <1>1, <1>2 DEF deserialize
<1> QED
  BY <1>2, <1>3, <1>4, <1>5 DEF deserializeMembers, doc, ma, arguments

(* The same for a document without arguments.                              *)
LEMMA DeserializeNull ==
  ASSUME NEW i \in Int
  PROVE  LET result == setCommandArguments(i, <<>>)
             doc    == Object([command |-> Number(i), arguments |-> Null])
         IN  deserialize(doc) = IF throws(result) \/ isValid(result.values) THEN result
                                ELSE Throw("runtime_error")
<1> DEFINE ma == [command |-> Number(i), arguments |-> Null]
           doc == Object(ma)
<1>1. doc.type = "object" /\ doc.members = ma
  BY DEF Object
<1>2. /\ ma.command = Number(i) /\ ma.arguments = Null
      /\ DOMAIN ma = {"command", "arguments"}
  OBVIOUS
<1>3. Null.type = "null"
  BY DEF Null
<1>4. isInt(Number(i)) /\ asInt(Number(i)) = i
  BY ProtocolAssumption DEF isInt, asInt, Number
<1> HIDE DEF doc, ma
<1>5. deserialize(doc) = deserializeMembers(ma)
  BY <1>1, <1>2 DEF deserialize
<1> QED
  BY <1>2, <1>3, <1>4, <1>5 DEF deserializeMembers, doc, ma

(* The calls of setCommandArgument for up to two members.                  *)
LEMMA FewArgumentsSet ==
  ASSUME NEW id, NEW a, NEW b
  PROVE  LET base == Command(id, NoneGiven(id))
         IN  /\ setCommandArguments(id, <<>>) = base
             /\ setCommandArguments(id, <<a>>) = setCommandArgument(base, a)
             /\ setCommandArguments(id, <<a, b>>) =
                  setCommandArgument(setCommandArgument(base, a), b)
<1> DEFINE base == Command(id, NoneGiven(id))
<1>1. setCommandArguments(id, <<>>) = base
  <2> DEFINE ms == <<>>
  <2>1. ms \in Seq(Range(ms))
    OBVIOUS
  <2>2. Len(ms) = 0
    OBVIOUS
  <2> HIDE DEF ms
  <2>3. argumentsSet(id, ms)[0] = base
    BY <2>1, ArgumentsSetUnfolds
  <2> QED
    BY <2>2, <2>3 DEF setCommandArguments, ms
<1>2. setCommandArguments(id, <<a>>) = setCommandArgument(base, a)
  <2> DEFINE ms == <<a>>
             h == argumentsSet(id, ms)
  <2>1. ms \in Seq(Range(ms)) /\ Len(ms) = 1 /\ ms[1] = a
    BY DEF Range
  <2> HIDE DEF ms
  <2>2. h[0] = base /\ \A i \in 1..1 : h[i] = setCommandArgument(h[i - 1], ms[i])
    BY <2>1, ArgumentsSetUnfolds
  <2> HIDE DEF h, base
  <2>3. h[1] = setCommandArgument(base, a)
    BY <2>1, <2>2
  <2> QED
    BY <2>1, <2>3 DEF setCommandArguments, h, ms
<1>3. setCommandArguments(id, <<a, b>>) =
        setCommandArgument(setCommandArgument(base, a), b)
  <2> DEFINE ms == <<a, b>>
  <2>1. ms \in Seq(Range(ms))
    BY DEF Range
  <2>5. Len(ms) = 2 /\ ms[1] = a /\ ms[2] = b
    OBVIOUS
  <2> HIDE DEF ms, base
  <2> DEFINE h == argumentsSet(id, ms)
  <2>2. h[0] = base
    BY <2>1, ArgumentsSetUnfolds DEF base
  <2>3. \A i \in 1..Len(ms) : h[i] = setCommandArgument(h[i - 1], ms[i])
    BY <2>1, ArgumentsSetUnfolds
  <2> HIDE DEF h
  <2>4. h[1] = setCommandArgument(base, a) /\ h[2] = setCommandArgument(h[1], b)
    BY <2>2, <2>3, <2>5
  <2> QED
    BY <2>4, <2>5 DEF setCommandArguments, h, ms
<1> QED
  BY <1>1, <1>2, <1>3

-----------------------------------------------------------------------------
(* Requests of client.exe.                                                 *)

\* That the server reads it as it was written.
Decoded(c) == /\ deserialize(serialize(c)) = c
              /\ documented(serialize(c))
              /\ ~ throws(c) /\ ~ portIsWrong(c) /\ isKnownCommand(c)

(* What to_string writes, stoi can read.                                   *)
LEMMA DecimalIsNumeral ==
  ASSUME NEW n \in Digit
  PROVE  isNumeral(decimal(n))
<1> DEFINE text == decimal(n)
<1>1. DOMAIN text = {1} /\ text[1] = ToString(n)
  BY DEF decimal
<1>2. 1..(1 - 1) = {}
  OBVIOUS
<1> HIDE DEF text
<1>3. isNumeral(text)
  BY <1>1, <1>2 DEF isNumeral
<1> QED
  BY <1>3 DEF text

(* The numbers of the commands.                                            *)
LEMMA KnownCommands ==
  Range(CommandIdentifier) = {0, 1, 2, 3, 4}
BY DEF Range, CommandIdentifier

(* A command with two arguments x and y, in this order in the document.    *)
LEMMA TwoArgumentsDecoded ==
  ASSUME NEW id \in {0, 1, 2, 3, 4}, NEW x, NEW y, x # y,
         commandDictionary(id) = {x, y}, {x, y} \subseteq CommunicationParameters,
         NEW v, v = [p \in {x, y} |-> v[p]], v[x] # <<>>, v[y] # <<>>,
         argumentNames(v) = <<x, y>>
  PROVE  /\ deserialize(serialize(Command(id, v))) = Command(id, v)
         /\ documented(serialize(Command(id, v)))
<1> DEFINE c == Command(id, v)
           m1 == <<x, String(v[x])>>
           m2 == <<y, String(v[y])>>
           ms == <<m1, m2>>
           doc == Object([command |-> Number(id), arguments |-> Object(ms)])
           empty == [p \in {x, y} |-> <<>>]
<1>1. c.commandIdentifier = id /\ c.values = v /\ ~ throws(c)
  BY CommandThrowsNot
<1> HIDE DEF c
<1>2. serialize(c) = doc
  <2>1. DOMAIN <<x, y>> = {1, 2} /\ <<x, y>>[1] = x /\ <<x, y>>[2] = y /\ <<x, y>> # <<>>
    OBVIOUS
  <2>2. [i \in DOMAIN <<x, y>> |-> << <<x, y>>[i], String(v[<<x, y>>[i]])>>] = ms
    BY <2>1
  <2> HIDE DEF ms
  <2> QED
    BY <1>1, <2>1, <2>2 DEF serialize
<1>3. \A t : isScalar(String(t)) /\ asString(String(t)) = t /\ String(t).type = "string"
  BY DEF isScalar, asString, String
<1>4. parameterNamed(x) = x /\ parameterNamed(y) = y
  BY DEF parameterNamed
<1>5. setCommandArgument(Command(id, empty), m1) = Command(id, given(empty, m1))
  <2>1. m1[1] = x /\ m1[2] = String(v[x])
    BY DEF m1, m2
  <2>2. isScalar(m1[2])
    BY <1>3, <2>1
  <2>3. parameterNamed(m1[1]) \in DOMAIN empty
    BY <1>4, <2>1 DEF empty, given
  <2> HIDE DEF m1, m2, empty
  <2> QED
    BY <2>2, <2>3, ArgumentSet
<1>6. setCommandArgument(Command(id, given(empty, m1)), m2) = Command(id, given(given(empty, m1), m2))
  <2>1. m2[1] = y /\ m2[2] = String(v[y])
    BY DEF m1, m2
  <2>2. isScalar(m2[2])
    BY <1>3, <2>1
  <2>3. parameterNamed(m2[1]) \in DOMAIN given(empty, m1)
    BY <1>4, <2>1 DEF empty, given
  <2> HIDE DEF m1, m2, empty
  <2> QED
    BY <2>2, <2>3, ArgumentSet
<1>7. given(given(empty, m1), m2) = v
  <2>1. /\ m1[1] = x /\ m1[2] = String(v[x])
        /\ m2[1] = y /\ m2[2] = String(v[y])
    BY DEF m1, m2
  <2> HIDE DEF m1, m2
  <2> QED
    BY <1>3, <1>4, <2>1 DEF given
<1>8. setCommandArguments(id, ms) = c
  <2>1. NoneGiven(id) = empty
    BY DEF NoneGiven
  <2>2. setCommandArguments(id, ms) =
          setCommandArgument(setCommandArgument(Command(id, NoneGiven(id)), m1), m2)
    <3> HIDE DEF m1, m2
    <3> QED
      BY FewArgumentsSet
  <2> HIDE DEF m1, m2, empty, ms
  <2> QED
    BY <1>5, <1>6, <1>7, <2>1, <2>2 DEF c
<1>9. isValid(c.values)
  BY <1>1 DEF isValid
<1>10. deserialize(doc) = c
  <2> HIDE DEF ms
  <2> QED
    BY <1>1, <1>8, <1>9, DeserializeMembers
<1>11. documented(doc)
  <2>1. /\ doc.type = "object"
        /\ DOMAIN doc.members = {"command", "arguments"}
        /\ doc.members.command = Number(id)
        /\ doc.members.arguments.type = "object"
        /\ doc.members.arguments.members = ms
    BY DEF Object
  <2>2. {m[1] : m \in Range(ms)} = {x, y} /\ \A m \in Range(ms) : m[2].type = "string"
    <3>1. Range(ms) = {m1, m2}
      BY DEF Range
    <3> HIDE DEF ms
    <3> QED
      BY <1>3, <3>1
  <2>3. id \in Range(CommandIdentifier)
    BY KnownCommands
  <2> HIDE DEF doc, ms
  <2> QED
    BY <2>1, <2>2, <2>3 DEF documented
<1> QED
  BY <1>2, <1>10, <1>11 DEF c

(* A command with one argument.                                            *)
LEMMA OneArgumentDecoded ==
  ASSUME NEW id \in {0, 1, 2, 3, 4}, NEW x, x \in CommunicationParameters,
         commandDictionary(id) = {x},
         NEW v, v = [p \in {x} |-> v[p]], v[x] # <<>>, argumentNames(v) = <<x>>
  PROVE  /\ deserialize(serialize(Command(id, v))) = Command(id, v)
         /\ documented(serialize(Command(id, v)))
<1> DEFINE c == Command(id, v)
           m1 == <<x, String(v[x])>>
           ms == <<m1>>
           doc == Object([command |-> Number(id), arguments |-> Object(ms)])
           empty == [p \in {x} |-> <<>>]
<1>1. c.commandIdentifier = id /\ c.values = v /\ ~ throws(c)
  BY CommandThrowsNot
<1> HIDE DEF c
<1>2. serialize(c) = doc
  <2>1. DOMAIN <<x>> = {1} /\ <<x>>[1] = x /\ <<x>> # <<>>
    OBVIOUS
  <2>2. [i \in DOMAIN <<x>> |-> << <<x>>[i], String(v[<<x>>[i]])>>] = ms
    BY <2>1
  <2> HIDE DEF ms
  <2> QED
    BY <1>1, <2>1, <2>2 DEF serialize
<1>3. \A t : isScalar(String(t)) /\ asString(String(t)) = t /\ String(t).type = "string"
  BY DEF isScalar, asString, String
<1>4. parameterNamed(x) = x
  BY DEF parameterNamed
<1>5. setCommandArgument(Command(id, empty), m1) = Command(id, given(empty, m1))
  <2>1. m1[1] = x /\ m1[2] = String(v[x])
    BY DEF m1
  <2>2. isScalar(m1[2])
    BY <1>3, <2>1
  <2>3. parameterNamed(m1[1]) \in DOMAIN empty
    BY <1>4, <2>1 DEF empty
  <2> HIDE DEF m1, empty
  <2> QED
    BY <2>2, <2>3, ArgumentSet
<1>7. given(empty, m1) = v
  <2>1. m1[1] = x /\ m1[2] = String(v[x])
    BY DEF m1
  <2> HIDE DEF m1
  <2> QED
    BY <1>3, <1>4, <2>1 DEF given
<1>8. setCommandArguments(id, ms) = c
  <2>1. NoneGiven(id) = empty
    BY DEF NoneGiven
  <2>2. setCommandArguments(id, ms) = setCommandArgument(Command(id, NoneGiven(id)), m1)
    <3> HIDE DEF m1
    <3> QED
      BY FewArgumentsSet
  <2> HIDE DEF m1, empty, ms
  <2> QED
    BY <1>5, <1>7, <2>1, <2>2 DEF c
<1>9. isValid(c.values)
  BY <1>1 DEF isValid
<1>10. deserialize(doc) = c
  <2> HIDE DEF ms
  <2> QED
    BY <1>1, <1>8, <1>9, DeserializeMembers
<1>11. documented(doc)
  <2>1. /\ doc.type = "object"
        /\ DOMAIN doc.members = {"command", "arguments"}
        /\ doc.members.command = Number(id)
        /\ doc.members.arguments.type = "object"
        /\ doc.members.arguments.members = ms
    BY DEF Object
  <2>2. {m[1] : m \in Range(ms)} = {x} /\ \A m \in Range(ms) : m[2].type = "string"
    <3>1. Range(ms) = {m1}
      BY DEF Range
    <3> HIDE DEF ms
    <3> QED
      BY <1>3, <3>1
  <2>3. id \in Range(CommandIdentifier)
    BY KnownCommands
  <2> HIDE DEF doc, ms
  <2> QED
    BY <2>1, <2>2, <2>3 DEF documented
<1> QED
  BY <1>2, <1>10, <1>11 DEF c

(* The command without arguments.                                          *)
LEMMA NoArgumentDecoded ==
  /\ deserialize(serialize(Command(3, <<>>))) = Command(3, <<>>)
  /\ documented(serialize(Command(3, <<>>)))
<1> DEFINE c == Command(3, <<>>)
           doc == Object([command |-> Number(3), arguments |-> Null])
<1>1. c.commandIdentifier = 3 /\ c.values = <<>> /\ ~ throws(c)
  BY CommandThrowsNot
<1>2. commandDictionary(3) = {}
  BY DEF commandDictionary
<1>3. argumentNames(<<>>) = <<>>
  <2>1. DOMAIN <<>> = {}
    OBVIOUS
  <2> QED
    BY <2>1 DEF argumentNames
<1> HIDE DEF c
<1>4. serialize(c) = doc
  BY <1>1, <1>3 DEF serialize
<1>5. NoneGiven(3) = <<>>
  BY <1>2 DEF NoneGiven
<1>6. setCommandArguments(3, <<>>) = c
  BY <1>5, FewArgumentsSet DEF c
<1>7. isValid(c.values)
  BY <1>1 DEF isValid
<1>8. deserialize(doc) = c
  BY <1>6, <1>7, DeserializeNull
<1>9. documented(doc)
  <2>1. /\ doc.type = "object"
        /\ DOMAIN doc.members = {"command", "arguments"}
        /\ doc.members.command = Number(3)
        /\ doc.members.arguments = Null
    BY DEF Object
  <2>2. 3 \in Range(CommandIdentifier)
    BY KnownCommands
  <2> HIDE DEF doc
  <2> QED
    BY <1>2, <2>1, <2>2 DEF documented
<1> QED
  BY <1>4, <1>8, <1>9 DEF c

\* The kinds of command that client.exe builds, for any texts and ports.
AsksAboutTopic(c) ==
  \E i \in {0, 1}, t \in Text, n \in Digit :
    c = Command(i, [topicName |-> t, clientPort |-> decimal(n)])
AsksToPublish(c) ==
  \E t, m \in Text : c = Command(2, [topicName |-> t, message |-> m])
AsksForStatus(c) ==
  \E t \in Text : c = Command(4, [topicName |-> t])

(* There are four kinds of them.                                           *)
LEMMA ClientCommandKinds ==
  ASSUME NEW c \in clientCommands
  PROVE  AsksAboutTopic(c) \/ AsksToPublish(c) \/ c = Command(3, <<>>) \/ AsksForStatus(c)
<1>0. ASSUME c \in {Command(0, [topicName |-> t, clientPort |-> decimal(n)]) :
                       t \in Text, n \in Digit}
      PROVE  AsksAboutTopic(c)
  BY <1>0 DEF AsksAboutTopic
<1>1. ASSUME c \in {Command(1, [topicName |-> t, clientPort |-> decimal(n)]) :
                       t \in Text \ {<<>>}, n \in Digit}
      PROVE  AsksAboutTopic(c)
  BY <1>1 DEF AsksAboutTopic
<1>2. ASSUME c \in {Command(2, [topicName |-> t, message |-> m]) : t, m \in Text}
      PROVE  AsksToPublish(c)
  BY <1>2 DEF AsksToPublish
<1>3. ASSUME c \in {Command(4, [topicName |-> t]) : t \in Text}
      PROVE  AsksForStatus(c)
  BY <1>3 DEF AsksForStatus
<1> QED
  <2> DEFINE W == {Command(0, [topicName |-> t, clientPort |-> decimal(n)]) :
                     t \in Text, n \in Digit}
             X == {Command(1, [topicName |-> t, clientPort |-> decimal(n)]) :
                     t \in Text \ {<<>>}, n \in Digit}
             Y == {Command(2, [topicName |-> t, message |-> m]) : t, m \in Text}
             Z == {Command(4, [topicName |-> t]) : t \in Text}
  <2>1. clientCommands = W \cup X \cup Y \cup {Command(3, <<>>)} \cup Z
    BY DEF clientCommands
  <2>2. c \in W \cup X => AsksAboutTopic(c)
    BY <1>0, <1>1
  <2>3. c \in Y => AsksToPublish(c)
    BY <1>2
  <2>4. c \in Z => AsksForStatus(c)
    BY <1>3
  <2> HIDE DEF W, X, Y, Z
  <2> QED
    BY <2>1, <2>2, <2>3, <2>4

(* argumentNames of two arguments, of which one is last.                   *)
LEMMA NamesConcatenate ==
  ASSUME NEW a, NEW b
  PROVE  /\ <<a>> \o <<>> \o <<b>> = <<a, b>>
         /\ <<>> \o <<a>> \o <<b>> = <<a, b>>
<1> DEFINE U == {a, b}
<1>1. \A s \in Seq(U) : s \o <<>> = s
  OBVIOUS
<1>2. \A s \in Seq(U) : <<>> \o s = s
  OBVIOUS
<1>3. <<a>> \in Seq(U)
  OBVIOUS
<1>4. <<a>> \o <<b>> = <<a, b>>
  <2> DEFINE p == <<a>>
             q == <<b>>
             r == p \o q
             s == <<a, b>>
  <2>1. p \in Seq(U) /\ Len(p) = 1 /\ p[1] = a
    OBVIOUS
  <2>2. q \in Seq(U) /\ Len(q) = 1 /\ q[1] = b
    OBVIOUS
  <2>3. s \in Seq(U) /\ Len(s) = 2 /\ s[1] = a /\ s[2] = b
    OBVIOUS
  <2> HIDE DEF p, q, s, U
  <2>4. r \in Seq(U) /\ Len(r) = 2 /\ r[1] = a /\ r[2] = b
    BY <2>1, <2>2, ConcatProperties
  <2> HIDE DEF r
  <2>5. \A i \in 1..2 : r[i] = s[i]
    BY <2>3, <2>4
  <2>6. r = s
    BY <2>3, <2>4, <2>5
  <2> QED
    BY <2>6 DEF p, q, r, s
<1> HIDE DEF U
<1>5. <<a>> \o <<>> = <<a>> /\ <<>> \o <<a>> = <<a>>
  BY <1>1, <1>2, <1>3
<1> QED
  BY <1>4, <1>5

(* The server reads a request of client.exe as it was made, if no argument *)
(* is empty.                                                               *)
LEMMA RequestDecoded ==
  ASSUME NEW c \in clientCommands, isValid(c.values)
  PROVE  Decoded(c)
<1> DEFINE A(i, t, n) == Command(i, [topicName |-> t, clientPort |-> decimal(n)])
           B(t, m) == Command(2, [topicName |-> t, message |-> m])
           C(t) == Command(4, [topicName |-> t])
<1>1. CASE AsksAboutTopic(c)
  <2>1. PICK i \in {0, 1}, t \in Text, n \in Digit : c = A(i, t, n)
    BY <1>1 DEF AsksAboutTopic
  <2> DEFINE v == [topicName |-> t, clientPort |-> decimal(n)]
  <2>2. v.topicName = t /\ v.clientPort = decimal(n) /\ DOMAIN v = {"clientPort", "topicName"}
        /\ v = [p \in {"clientPort", "topicName"} |-> v[p]]
    OBVIOUS
  <2>3. argumentNames(v) = <<"clientPort", "topicName">>
    <3>1. <<"clientPort">> \o <<>> \o <<"topicName">> = <<"clientPort", "topicName">>
      BY NamesConcatenate
    <3>2. /\ "clientPort" \in DOMAIN v /\ "message" \notin DOMAIN v
          /\ "topicName" \in DOMAIN v
      BY <2>2
    <3> HIDE DEF v
    <3> QED
      BY <3>1, <3>2 DEF argumentNames
  <2>4. /\ commandDictionary(i) = {"clientPort", "topicName"}
        /\ {"clientPort", "topicName"} \subseteq CommunicationParameters
        /\ i \in {0, 1, 2, 3, 4}
    BY DEF commandDictionary, CommunicationParameters
  <2> HIDE DEF v
  <2>5. /\ ~ throws(c) /\ c.commandIdentifier = i /\ c.values = v
    BY <2>1, CommandThrowsNot DEF v
  <2>6. v["clientPort"] # <<>> /\ v["topicName"] # <<>>
    BY <2>2, <2>5 DEF isValid
  <2>7. /\ deserialize(serialize(Command(i, v))) = Command(i, v)
        /\ documented(serialize(Command(i, v)))
    <3>1. CASE i = 0
      <4>1. commandDictionary(0) = {"clientPort", "topicName"}
        BY DEF commandDictionary
      <4>2. /\ deserialize(serialize(Command(0, v))) = Command(0, v)
            /\ documented(serialize(Command(0, v)))
        BY <2>2, <2>3, <2>4, <2>6, <4>1, TwoArgumentsDecoded
      <4> QED
        BY <3>1, <4>2
    <3>2. CASE i = 1
      <4>1. commandDictionary(1) = {"clientPort", "topicName"}
        BY DEF commandDictionary
      <4>2. /\ deserialize(serialize(Command(1, v))) = Command(1, v)
            /\ documented(serialize(Command(1, v)))
        BY <2>2, <2>3, <2>4, <2>6, <4>1, TwoArgumentsDecoded
      <4> QED
        BY <3>2, <4>2
    <3> QED
      BY <3>1, <3>2
  <2>8. ~ portIsWrong(c)
    BY <2>2, <2>5, DecimalIsNumeral DEF portIsWrong
  <2>9. isKnownCommand(c)
    BY <2>4, <2>5, KnownCommands DEF isKnownCommand
  <2> QED
    BY <2>1, <2>5, <2>7, <2>8, <2>9 DEF Decoded, v
<1>2. CASE AsksToPublish(c)
  <2>1. PICK t \in Text, m \in Text : c = B(t, m)
    BY <1>2 DEF AsksToPublish
  <2> DEFINE v == [topicName |-> t, message |-> m]
  <2>2. DOMAIN v = {"message", "topicName"}
        /\ v = [p \in {"message", "topicName"} |-> v[p]]
    OBVIOUS
  <2>3. argumentNames(v) = <<"message", "topicName">>
    <3>1. <<>> \o <<"message">> \o <<"topicName">> = <<"message", "topicName">>
      BY NamesConcatenate
    <3>2. /\ "clientPort" \notin DOMAIN v /\ "message" \in DOMAIN v
          /\ "topicName" \in DOMAIN v
      BY <2>2
    <3> HIDE DEF v
    <3> QED
      BY <3>1, <3>2 DEF argumentNames
  <2>4. /\ commandDictionary(2) = {"message", "topicName"}
        /\ {"message", "topicName"} \subseteq CommunicationParameters
    BY DEF commandDictionary, CommunicationParameters
  <2> HIDE DEF v
  <2>5. /\ ~ throws(c) /\ c.commandIdentifier = 2 /\ c.values = v
    BY <2>1, CommandThrowsNot DEF v
  <2>6. v["message"] # <<>> /\ v["topicName"] # <<>>
    BY <2>2, <2>5 DEF isValid
  <2>7. /\ deserialize(serialize(Command(2, v))) = Command(2, v)
        /\ documented(serialize(Command(2, v)))
    BY <2>2, <2>3, <2>4, <2>6, TwoArgumentsDecoded
  <2>8. ~ portIsWrong(c)
    BY <2>2, <2>5 DEF portIsWrong
  <2>9. isKnownCommand(c)
    BY <2>5, KnownCommands DEF isKnownCommand
  <2> QED
    BY <2>1, <2>5, <2>7, <2>8, <2>9 DEF Decoded, v
<1>3. CASE c = Command(3, <<>>)
  <2>1. /\ ~ throws(c) /\ c.commandIdentifier = 3 /\ c.values = <<>>
    BY <1>3, CommandThrowsNot
  <2>2. ~ portIsWrong(c)
    BY <2>1 DEF portIsWrong
  <2>3. isKnownCommand(c)
    BY <2>1, KnownCommands DEF isKnownCommand
  <2> QED
    BY <1>3, <2>1, <2>2, <2>3, NoArgumentDecoded DEF Decoded
<1>4. CASE AsksForStatus(c)
  <2>1. PICK t \in Text : c = C(t)
    BY <1>4 DEF AsksForStatus
  <2> DEFINE v == [topicName |-> t]
  <2>2. DOMAIN v = {"topicName"} /\ v = [p \in {"topicName"} |-> v[p]]
    OBVIOUS
  <2>3. argumentNames(v) = <<"topicName">>
    BY <2>2 DEF argumentNames
  <2>4. commandDictionary(4) = {"topicName"} /\ "topicName" \in CommunicationParameters
    BY DEF commandDictionary, CommunicationParameters
  <2> HIDE DEF v
  <2>5. /\ ~ throws(c) /\ c.commandIdentifier = 4 /\ c.values = v
    BY <2>1, CommandThrowsNot DEF v
  <2>6. v["topicName"] # <<>>
    BY <2>2, <2>5 DEF isValid
  <2>7. /\ deserialize(serialize(Command(4, v))) = Command(4, v)
        /\ documented(serialize(Command(4, v)))
    BY <2>2, <2>3, <2>4, <2>6, OneArgumentDecoded
  <2>8. ~ portIsWrong(c)
    BY <2>2, <2>5 DEF portIsWrong
  <2>9. isKnownCommand(c)
    BY <2>5, KnownCommands DEF isKnownCommand
  <2> QED
    BY <2>1, <2>5, <2>7, <2>8, <2>9 DEF Decoded, v
<1> QED
  BY <1>1, <1>2, <1>3, <1>4, ClientCommandKinds

-----------------------------------------------------------------------------
(* Requests of others.                                                     *)

(* A call of setCommandArgument that does not throw.                       *)
LEMMA ArgumentTaken ==
  ASSUME NEW id, NEW members, NEW r \in ArgumentResults(id, members), NEW m,
         ~ throws(setCommandArgument(r, m))
  PROVE  /\ ~ throws(r) /\ isScalar(m[2])
         /\ parameterNamed(m[1]) \in commandDictionary(id)
         /\ \A p \in commandDictionary(id) : p # parameterNamed(m[1]) =>
              setCommandArgument(r, m).values[p] = r.values[p]
<1>1. ~ throws(r)
  BY DEF setCommandArgument
<1>2. \A e : throws(Throw(e))
  BY DEF throws, Throw
<1>3. isScalar(m[2])
  BY <1>1, <1>2 DEF setCommandArgument
<1>4. parameterNamed(m[1]) \in DOMAIN r.values
  BY <1>1, <1>2, <1>3 DEF setCommandArgument
<1>5. DOMAIN r.values = commandDictionary(id) /\ r = Command(id, r.values)
  BY <1>1, ArgumentResult
<1>6. setCommandArgument(r, m) = Command(id, given(r.values, m))
  <2> DEFINE v == r.values
  <2>1. r = Command(id, v) /\ parameterNamed(m[1]) \in DOMAIN v
    BY <1>4, <1>5
  <2> HIDE DEF v
  <2>2. setCommandArgument(Command(id, v), m) = Command(id, given(v, m))
    BY <1>3, <2>1, ArgumentSet
  <2> QED
    BY <2>1, <2>2 DEF v
<1>7. ASSUME NEW p \in commandDictionary(id), p # parameterNamed(m[1])
      PROVE  setCommandArgument(r, m).values[p] = r.values[p]
  <2>1. setCommandArgument(r, m).values = given(r.values, m)
    BY <1>6, CommandThrowsNot
  <2>2. given(r.values, m)[p] = r.values[p]
    BY <1>5, <1>7 DEF given
  <2> QED
    BY <2>1, <2>2
<1> QED
  BY <1>1, <1>3, <1>4, <1>5, <1>7

(* If no call throws, the members are arguments of the command, and those  *)
(* that are not among them have stayed empty.                              *)
LEMMA ArgumentsTaken ==
  ASSUME NEW id, NEW ms, ms \in Seq(Range(ms)), ~ throws(setCommandArguments(id, ms))
  PROVE  /\ \A m \in Range(ms) :
              isScalar(m[2]) /\ parameterNamed(m[1]) \in commandDictionary(id)
         /\ \A p \in commandDictionary(id) :
              (\A m \in Range(ms) : parameterNamed(m[1]) # p) =>
                 setCommandArguments(id, ms).values[p] = <<>>
<1> DEFINE n == Len(ms)
           h == argumentsSet(id, ms)
           D == commandDictionary(id)
           key(j) == parameterNamed(ms[j][1])
           Holds(i) == ~ throws(h[i]) =>
                         /\ \A j \in 1..i : isScalar(ms[j][2]) /\ key(j) \in D
                         /\ \A p \in D : (\A j \in 1..i : key(j) # p) => h[i].values[p] = <<>>
           Good == {i \in Nat : i <= n => Holds(i)}
<1>1. n \in Nat /\ \A m \in Range(ms) : \E j \in 1..n : m = ms[j]
  BY DEF Range
<1>2. \A j \in 1..n : ms[j] \in Range(ms)
  BY DEF Range
<1>3. h[0] = Command(id, NoneGiven(id))
  BY ArgumentsSetUnfolds
<1>4. \A i \in 1..n : h[i] = setCommandArgument(h[i - 1], ms[i])
  BY ArgumentsSetUnfolds
<1>5. \A i \in 0..n : h[i] \in ArgumentResults(id, ms)
  BY ArgumentsSetUnfolds
<1>6. setCommandArguments(id, ms) = h[n]
  BY DEF setCommandArguments
<1> HIDE DEF n, h
<1>7. 0 \in Good
  <2>1. h[0].values = NoneGiven(id)
    BY <1>3, CommandThrowsNot
  <2>2. \A p \in D : h[0].values[p] = <<>>
    BY <2>1 DEF NoneGiven
  <2> QED
    BY <2>2
<1>8. ASSUME NEW i \in Nat, i \in Good PROVE i + 1 \in Good
  <2>1. SUFFICES ASSUME i + 1 <= n, ~ throws(h[i + 1])
        PROVE  /\ \A j \in 1..(i + 1) : isScalar(ms[j][2]) /\ key(j) \in D
               /\ \A p \in D : (\A j \in 1..(i + 1) : key(j) # p) => h[i + 1].values[p] = <<>>
    OBVIOUS
  <2>2. i \in 0..n /\ i + 1 \in 1..n /\ (i + 1) - 1 = i
    BY <1>1, <2>1
  <2>3. h[i] \in ArgumentResults(id, ms) /\ h[i + 1] = setCommandArgument(h[i], ms[i + 1])
    BY <1>4, <1>5, <2>2
  <2>4. /\ ~ throws(h[i]) /\ isScalar(ms[i + 1][2]) /\ key(i + 1) \in D
        /\ \A p \in D : p # key(i + 1) => h[i + 1].values[p] = h[i].values[p]
    BY <2>1, <2>3, ArgumentTaken
  <2> HIDE DEF key, D
  <2>5. /\ \A j \in 1..i : isScalar(ms[j][2]) /\ key(j) \in D
        /\ \A p \in D : (\A j \in 1..i : key(j) # p) => h[i].values[p] = <<>>
    BY <1>8, <2>1, <2>2, <2>4
  <2>6. \A j \in 1..(i + 1) : j \in 1..i \/ j = i + 1
    OBVIOUS
  <2>7. \A j \in 1..i : j \in 1..(i + 1)
    OBVIOUS
  <2>8. i + 1 \in 1..(i + 1)
    OBVIOUS
  <2>9. \A j \in 1..(i + 1) : isScalar(ms[j][2]) /\ key(j) \in D
    BY <2>4, <2>5, <2>6
  <2>10. ASSUME NEW p \in D, \A j \in 1..(i + 1) : key(j) # p
         PROVE  h[i + 1].values[p] = <<>>
    BY <2>4, <2>5, <2>7, <2>8, <2>10
  <2> QED
    BY <2>9, <2>10
<1>9. n \in Good
  <2> HIDE DEF Good
  <2>1. Nat \subseteq Good
    BY <1>7, <1>8, NatSetInduction
  <2> QED
    BY <1>1, <2>1
<1>10. /\ \A j \in 1..n : isScalar(ms[j][2]) /\ key(j) \in D
       /\ \A p \in D : (\A j \in 1..n : key(j) # p) => h[n].values[p] = <<>>
  <2> HIDE DEF D, key
  <2> QED
    BY <1>1, <1>6, <1>9
<1>11. \A m \in Range(ms) : isScalar(m[2]) /\ parameterNamed(m[1]) \in D
  BY <1>1, <1>10
<1>12. ASSUME NEW p \in D, \A m \in Range(ms) : parameterNamed(m[1]) # p
       PROVE  h[n].values[p] = <<>>
  <2>1. \A j \in 1..n : key(j) # p
    BY <1>2, <1>12
  <2> HIDE DEF key, D
  <2> QED
    BY <1>10, <2>1
<1> QED
  BY <1>6, <1>11, <1>12

(* Values of the seven types.                                              *)
LEMMA ValueTypes ==
  ASSUME NEW v, isValue(v)
  PROVE  /\ v.type = "null" => v = Null
         /\ v.type = "int" => v = Number(v.number)
BY DEF isValue, Null, Bool, Number, Real, String, Object, Array

(* The arguments of a command that deserialize takes are those of its      *)
(* dictionary, under these names or others, and can be converted.          *)
LEMMA ArgumentsComplete ==
  ASSUME NEW id, NEW ms, ms \in Seq(Range(ms)), ~ throws(setCommandArguments(id, ms)),
         isValid(setCommandArguments(id, ms).values)
  PROVE  /\ \A m \in Range(ms) : isScalar(m[2])
         /\ {parameterNamed(m[1]) : m \in Range(ms)} = commandDictionary(id)
<1> DEFINE r == setCommandArguments(id, ms)
           D == commandDictionary(id)
<1>1. \A m \in Range(ms) : isScalar(m[2]) /\ parameterNamed(m[1]) \in D
  BY ArgumentsTaken
<1>2. \A p \in D : (\A m \in Range(ms) : parameterNamed(m[1]) # p) => r.values[p] = <<>>
  BY ArgumentsTaken
<1>3. DOMAIN r.values = D
  <2>1. Len(ms) \in 0..Len(ms)
    OBVIOUS
  <2>2. r \in ArgumentResults(id, ms)
    <3>1. \A i \in 0..Len(ms) : argumentsSet(id, ms)[i] \in ArgumentResults(id, ms)
      BY ArgumentsSetUnfolds
    <3> QED
      BY <2>1, <3>1 DEF setCommandArguments
  <2> HIDE DEF r, D
  <2> QED
    BY <2>2, ArgumentResult DEF D, r
<1>4. \A p \in D : \E m \in Range(ms) : parameterNamed(m[1]) = p
  <2> HIDE DEF D
  <2> QED
    BY <1>2, <1>3 DEF isValid
<1> HIDE DEF r, D
<1>5. {parameterNamed(m[1]) : m \in Range(ms)} = D
  BY <1>1, <1>4
<1> QED
  BY <1>1, <1>5 DEF D

(* Whatever is no documented request, and not tolerated, is refused.       *)
LEMMA WrongIsRefused ==
  ASSUME NEW doc, isJson(doc), ~ tolerated(doc), ~ documented(doc)
  PROVE  throws(deserialize(doc))
<1>1. \A e : throws(Throw(e))
  BY DEF throws, Throw
<1>2. CASE doc = NoJson
  <2>1. doc.type = "none"
    BY <1>2 DEF NoJson
  <2> QED
    BY <1>1, <2>1 DEF deserialize
<1>3. CASE doc # NoJson /\ doc.type # "object"
  BY <1>1, <1>3 DEF deserialize
<1>4. CASE doc # NoJson /\ doc.type = "object"
  <2> DEFINE d == doc.members
             number == d.command
             arguments == d.arguments
             ms == arguments.members
             given1 == IF arguments.type = "object" THEN Range(ms) ELSE {}
  <2>1. CASE ~ ({"command", "arguments"} \subseteq DOMAIN d)
    BY <1>1, <1>4, <2>1 DEF deserialize
  <2>2. CASE {"command", "arguments"} \subseteq DOMAIN d
    <3>1. deserialize(doc) = deserializeMembers(d)
      BY <1>4, <2>2 DEF deserialize
    <3>2. \/ ~ isInt(number)
          \/ arguments.type \notin {"null", "object"}
          \/ ~ \A m \in given1 : isScalar(m[2])
          \/ {parameterNamed(m[1]) : m \in given1} # commandDictionary(asInt(number))
          \/ /\ DOMAIN d = {"command", "arguments"}
             /\ number.type = "int"
             /\ number.number \in Range(CommandIdentifier)
             /\ \A m \in given1 : m[1] \in CommunicationParameters /\ m[2].type = "string"
      BY <1>4, <2>2 DEF tolerated
    <3>3. isValue(number) /\ isValue(arguments)
      BY <1>4, <2>2 DEF isJson
    <3>4. arguments.type = "object" => ms \in Seq(Range(ms))
      BY <1>4, <2>2 DEF isJson
    <3>5. ~ /\ DOMAIN d = {"command", "arguments"}
            /\ number.number \in Range(CommandIdentifier)
            /\ number = Number(number.number)
            /\ \/ arguments = Null /\ commandDictionary(number.number) = {}
               \/ /\ arguments.type = "object"
                  /\ {m[1] : m \in Range(ms)} = commandDictionary(number.number)
                  /\ \A m \in Range(ms) : m[2].type = "string"
      BY <1>4 DEF documented
    <3>6. CASE ~ isInt(number) \/ arguments.type \notin {"null", "object"}
      <4>1. deserializeMembers(d) = Throw("Json::LogicError")
        BY <3>6 DEF deserializeMembers
      <4> QED
        BY <1>1, <3>1, <4>1
    <3>7. CASE isInt(number) /\ arguments.type \in {"null", "object"}
      <4> DEFINE id == asInt(number)
                 members == IF arguments.type = "null" THEN <<>> ELSE ms
                 r == setCommandArguments(id, members)
      <4>1. deserializeMembers(d) = IF throws(r) \/ isValid(r.values) THEN r
                                    ELSE Throw("runtime_error")
        BY <3>7 DEF deserializeMembers
      <4>2. members \in Seq(Range(members)) /\ Range(members) = given1
        <5>1. CASE arguments.type = "null"
          <6>1. Range(<<>>) = {} /\ <<>> \in Seq(Range(<<>>))
            BY DEF Range
          <6>2. members = <<>> /\ given1 = {}
            BY <5>1
          <6> HIDE DEF members, given1
          <6> QED
            BY <6>1, <6>2
        <5>2. CASE arguments.type = "object"
          <6>1. members = ms /\ given1 = Range(ms)
            BY <5>2
          <6> HIDE DEF members, given1
          <6> QED
            BY <3>4, <5>2, <6>1
        <5> QED
          BY <3>7, <5>1, <5>2
      <4>3. ASSUME ~ throws(r), isValid(r.values) PROVE FALSE
        <5>1. /\ \A m \in given1 : isScalar(m[2])
              /\ {parameterNamed(m[1]) : m \in given1} = commandDictionary(id)
          <6> HIDE DEF members, given1, id
          <6>1. /\ \A m \in Range(members) : isScalar(m[2])
                /\ {parameterNamed(m[1]) : m \in Range(members)} = commandDictionary(id)
            BY <4>2, <4>3, ArgumentsComplete
          <6> QED
            BY <4>2, <6>1
        <5>2. /\ DOMAIN d = {"command", "arguments"}
              /\ number.type = "int"
              /\ number.number \in Range(CommandIdentifier)
              /\ \A m \in given1 : m[1] \in CommunicationParameters /\ m[2].type = "string"
          <6> HIDE DEF d, number, arguments, ms, given1
          <6> QED
            BY <3>2, <3>7, <5>1
        <5>3. number = Number(number.number) /\ id = number.number
          <6>1. number = Number(number.number)
            BY <3>3, <5>2, ValueTypes
          <6> HIDE DEF number
          <6> QED
            BY <5>2, <6>1 DEF asInt
        <5>4. {m[1] : m \in given1} = commandDictionary(id)
          <6> HIDE DEF d, number, arguments, ms, given1, id
          <6>1. \A m \in given1 : parameterNamed(m[1]) = m[1]
            BY <5>2 DEF parameterNamed
          <6> QED
            BY <5>1, <6>1
        <5>5. CASE arguments.type = "null"
          <6>1. arguments = Null
            BY <3>3, <5>5, ValueTypes
          <6>2. given1 = {}
            BY <5>5
          <6> HIDE DEF d, number, arguments, ms, given1, id
          <6> QED
            BY <3>5, <5>2, <5>3, <5>4, <6>1, <6>2
        <5>6. CASE arguments.type = "object"
          <6>1. given1 = Range(ms)
            BY <5>6
          <6> HIDE DEF d, number, arguments, ms, given1, id
          <6> QED
            BY <3>5, <5>2, <5>3, <5>4, <5>6, <6>1
        <5> QED
          BY <3>7, <5>5, <5>6
      <4> HIDE DEF r
      <4> QED
        BY <1>1, <3>1, <4>1, <4>3
    <3> QED
      BY <3>6, <3>7
  <2> QED
    BY <2>1, <2>2
<1> QED
  BY <1>2, <1>3, <1>4

-----------------------------------------------------------------------------
(* A message is read as it was sent.                                       *)
LEMMA MessageDecoded ==
  ASSUME NEW t, NEW n \in Digit, NEW m
  PROVE  /\ serializeMessage(Message(t, n, m)) # NoJson
         /\ deserializeMessage(serializeMessage(Message(t, n, m))) = Message(t, n, m)
         /\ ~ throws(Message(t, n, m))
         /\ Message(t, n, m) # NoMessage
<1> DEFINE s == Message(t, n, m)
           d == [topic |-> String(t), messageTimestamp |-> Number(n), message |-> String(m)]
           doc == Object(d)
<1>1. s.topic = t /\ s.messageTimestamp = n /\ s.message = m /\ ~ throws(s)
  BY DEF Message, throws
<1>2. serializeMessage(s) = doc
  BY <1>1 DEF serializeMessage
<1>3. doc.type = "object" /\ doc.members = d
  BY DEF Object
<1>4. NoJson.type = "none"
  BY DEF NoJson
<1>5. d.topic = String(t) /\ d.messageTimestamp = Number(n) /\ d.message = String(m)
  OBVIOUS
<1>6. asString(String(t)) = t /\ asString(String(m)) = m /\ asString(Number(n)) = decimal(n)
  BY DEF asString, String, Number
<1>7. (CHOOSE x \in Digit : decimal(x) = decimal(n)) = n
  <2> DEFINE P(x) == decimal(x) = decimal(n)
  <2>1. \A x \in Digit : P(x) => x = n
    BY DecimalAssumption
  <2>2. P(n)
    OBVIOUS
  <2>3. (CHOOSE x \in Digit : P(x)) \in Digit /\ P(CHOOSE x \in Digit : P(x))
    <3> HIDE DEF P
    <3> QED
      BY <2>2
  <2> HIDE DEF P
  <2>4. (CHOOSE x \in Digit : P(x)) = n
    BY <2>1, <2>3
  <2> QED
    BY <2>4 DEF P
<1> HIDE DEF doc, d
<1>8. doc # NoJson
  BY <1>3, <1>4
<1>9. deserializeMessage(doc) = Message(t, n, m)
  BY <1>3, <1>5, <1>6, <1>7, <1>8 DEF deserializeMessage
<1>10. s # NoMessage
  <2>1. NoMessage.messageTimestamp = -1
    BY DEF NoMessage, Message
  <2>2. n # -1
    BY ProtocolAssumption
  <2> QED
    BY <1>1, <2>1, <2>2
<1> QED
  BY <1>1, <1>2, <1>8, <1>9, <1>10

-----------------------------------------------------------------------------
(* Replies.                                                                *)

\* What the client logs of a reply to c that was made from r.
Logged(c, r) ==
  logResponse(deserializeResponse(c.commandIdentifier, serializeResponse(r)))

\* That it is read without an exception, and its lists are right.
ReadWell(c, list, r) ==
  /\ ~ throws(Logged(c, r))
  /\ Logged(c, r).status = Statuscode.success =>
       /\ c.commandIdentifier = 3 =>
            (Logged(c, r).lists.topics = list <=> \A n \in DOMAIN list : isPlain(list[n]))
       /\ c.commandIdentifier = 4 => Logged(c, r).lists.subscribers = subscribersOf

(* The fields of a Response.                                               *)
LEMMA ResponseFields ==
  ASSUME NEW s, NEW a
  PROVE  Response(s, a).statusCode = s /\ Response(s, a).arguments = a
BY DEF Response

(* What logResponse reports is no exception.                               *)
LEMMA ReportFields ==
  ASSUME NEW s, NEW l
  PROVE  /\ ~ throws([status |-> s, lists |-> l])
         /\ [status |-> s, lists |-> l].status = s
         /\ [status |-> s, lists |-> l].lists = l
BY DEF throws

\* The documents of replies keep a status, and arguments that are texts.
LEMMA ResponseDecoded ==
  ASSUME NEW id, NEW s, NEW a, DOMAIN a = responseDictionary(id)
  PROVE  deserializeResponse(id, serializeResponse(Response(s, a))) =
           Response(s, [p \in responseDictionary(id) |-> a[p]])
<1> DEFINE texts == [p \in DOMAIN a |-> String(a[p])]
           doc == [statusCode |-> Number(s), arguments |-> texts]
           D == responseDictionary(id)
<1>1. serializeResponse(Response(s, a)) = doc
  BY ResponseFields DEF serializeResponse
<1>2. doc.statusCode = Number(s) /\ doc.arguments = texts
  OBVIOUS
<1>3. asInt(Number(s)) = s
  BY DEF asInt, Number
<1>4. \A t : asString(String(t)) = t
  BY DEF asString, String
<1>5. DOMAIN texts = D
  OBVIOUS
<1>6. \A p \in D : asString(texts[p]) = a[p]
  BY <1>4
<1> HIDE DEF texts, doc
<1>7. [p \in D |-> IF p \in DOMAIN texts THEN asString(texts[p]) ELSE <<>>] = [p \in D |-> a[p]]
  BY <1>5, <1>6
<1> QED
  BY <1>1, <1>2, <1>3, <1>7 DEF deserializeResponse

(* A reply without arguments.                                              *)
LEMMA PlainReplyRead ==
  ASSUME NEW c, c.commandIdentifier \in {0, 1, 2}, NEW list, NEW s
  PROVE  ReadWell(c, list, Response(s, <<>>))
<1> DEFINE id == c.commandIdentifier
           none == [p \in {} |-> <<>>[p]]
           r == Response(s, <<>>)
           back == Response(s, none)
<1>1. responseDictionary(id) = {} /\ DOMAIN <<>> = {}
  BY DEF responseDictionary
<1>2. deserializeResponse(id, serializeResponse(r)) = back
  BY <1>1, ResponseDecoded
<1>3. back.statusCode = s /\ back.arguments = none
  BY ResponseFields
<1>4. \A S : DOMAIN none \cap S = {}
  OBVIOUS
<1> HIDE DEF back, none
<1>5. ~ throws(logResponse(back))
  BY <1>3, <1>4, ReportFields DEF logResponse
<1>6. Logged(c, r) = logResponse(back)
  BY <1>2 DEF Logged
<1> QED
  BY <1>5, <1>6 DEF ReadWell

\* A set of characters with those that lists are written with.
CharactersOf(list) == {Comma} \cup UNION {Range(list[n]) : n \in DOMAIN list}

(* The names in a registry are texts of such characters, none empty.       *)
LEMMA ListHasCharacters ==
  ASSUME NEW list \in Lists
  PROVE  list \in Seq(Seq(CharactersOf(list)) \ {<<>>})
<1>1. list \in Seq(Range(list))
  BY ExchangeAssumption
<1>2. Len(list) \in Nat /\ DOMAIN list = 1..Len(list) /\ list \in [1..Len(list) -> Range(list)]
  BY <1>1
<1>3. ASSUME NEW n \in 1..Len(list) PROVE list[n] \in Seq(CharactersOf(list)) \ {<<>>}
  <2> DEFINE R == Range(list[n])
  <2>1. list[n] \in Range(list)
    BY <1>2 DEF Range
  <2>2. list[n] \in Seq(R) /\ list[n] # <<>>
    BY <2>1, ExchangeAssumption
  <2>3. R \subseteq CharactersOf(list)
    BY <1>2 DEF CharactersOf
  <2> HIDE DEF R
  <2>4. list[n] \in Seq(CharactersOf(list))
    BY <2>2, <2>3
  <2> QED
    BY <2>2, <2>4
<1> QED
  BY <1>2, <1>3

(* A list in array notation has at least its brackets.                     *)
LEMMA TextNotEmpty ==
  ASSUME NEW S, Comma \in S, NEW list \in Seq(Seq(S))
  PROVE  arrayText(list) # <<>>
<1> DEFINE m == joined(list)
           U == S \cup {"[", "]"}
<1>1. arrayText(list) = <<"[">> \o m \o <<"]">>
  BY DEF arrayText, joined
<1>2. m \in Seq(S)
  BY JoinedType
<1> HIDE DEF m
<1>3. m \in Seq(U)
  BY <1>2
<1>4. ASSUME NEW w \in Seq(U) PROVE <<"[">> \o w \o <<"]">> # <<>>
  <2>1. <<"[">> \in Seq(U) /\ <<"]">> \in Seq(U)
    OBVIOUS
  <2>2. Len(<<"[">> \o w \o <<"]">>) = Len(w) + 2
    BY <2>1
  <2> QED
    BY <2>2
<1> QED
  BY <1>1, <1>3, <1>4

(* A reply to --list-topics.                                               *)
LEMMA TopicsRead ==
  ASSUME NEW c, c.commandIdentifier = 3, NEW list \in Lists
  PROVE  ReadWell(c, list, Response(Statuscode.success, [topics |-> arrayText(list)]))
<1> DEFINE text == arrayText(list)
           a == [topics |-> text]
           b == [p \in {"topics"} |-> a[p]]
           back == Response(0, b)
           lists == [p \in {"topics"} |-> arrayStringToVectorString(text)]
           r == Response(Statuscode.success, [topics |-> arrayText(list)])
<1>1. responseDictionary(3) = {"topics"} /\ DOMAIN a = {"topics"} /\ Statuscode.success = 0
  BY DEF responseDictionary, Statuscode
<1>2. Comma \in CharactersOf(list) /\ list \in Seq(Seq(CharactersOf(list)) \ {<<>>})
  <2>1. Comma \in CharactersOf(list)
    BY DEF CharactersOf
  <2>2. list \in Seq(Seq(CharactersOf(list)) \ {<<>>})
    BY ListHasCharacters
  <2> QED
    BY <2>1, <2>2
<1>3. text # <<>>
  <2>1. list \in Seq(Seq(CharactersOf(list)))
    BY <1>2
  <2> QED
    BY <1>2, <2>1, TextNotEmpty
<1>4. arrayStringToVectorString(text) = list <=> \A n \in DOMAIN list : isPlain(list[n])
  BY <1>2, WrittenListIsRead
<1> HIDE DEF text
<1>5. deserializeResponse(3, serializeResponse(Response(0, a))) = back
  <2> HIDE DEF a
  <2> QED
    BY <1>1, ResponseDecoded
<1>6. back.statusCode = 0 /\ back.arguments = b
  BY ResponseFields
<1>7. DOMAIN b = {"topics"} /\ b["topics"] = text
  OBVIOUS
<1> HIDE DEF back, b
<1>8. /\ DOMAIN b \cap {"topics", "subscribers"} = {"topics"}
      /\ DOMAIN b \cap {"messageTimestamp"} = {}
  BY <1>7
<1>9. logResponse(back) = [status |-> 0, lists |-> lists]
  <2>1. [p \in {"topics"} |-> arrayStringToVectorString(b[p])] = lists
    BY <1>7
  <2> HIDE DEF lists
  <2> QED
    BY <1>1, <1>3, <1>6, <1>7, <1>8, <2>1 DEF logResponse
<1>10. lists.topics = arrayStringToVectorString(text)
  OBVIOUS
<1> HIDE DEF lists
<1>11. Logged(c, r) = [status |-> 0, lists |-> lists]
  BY <1>1, <1>5, <1>9 DEF Logged, text
<1>12. ~ throws(Logged(c, r)) /\ Logged(c, r).lists = lists
  BY <1>11, ReportFields
<1> HIDE DEF r
<1> QED
  BY <1>4, <1>10, <1>12 DEF ReadWell, r

(* The subscribers that --get-topic-status shows.                          *)
LEMMA SubscribersRead ==
  /\ arrayText(subscribersOf) # <<>>
  /\ arrayStringToVectorString(arrayText(subscribersOf)) = subscribersOf
<1> DEFINE S == {"a", "b", ":", "1", Comma}
           one == <<"a", ":", "1">>
           two == <<"b", ":", "1">>
<1>1. Comma \in S
  OBVIOUS
<1>2. one \in Seq(S) /\ one # <<>> /\ two \in Seq(S) /\ two # <<>>
  OBVIOUS
<1>3. one[1] # Space /\ one[Len(one)] # Space /\ two[1] # Space /\ two[Len(two)] # Space
  BY DEF Space
<1>4. Comma \notin Range(one) /\ Comma \notin Range(two)
  <2>1. Range(one) = {"a", ":", "1"} /\ Range(two) = {"b", ":", "1"}
    BY DEF Range
  <2> HIDE DEF one, two
  <2> QED
    BY <2>1 DEF Comma
<1> HIDE DEF S, one, two
<1>5. isPlain(one) /\ isPlain(two)
  <2>1. trim(one) = one
    BY <1>2, <1>3, TrimNothing
  <2>2. trim(two) = two
    BY <1>2, <1>3, TrimNothing
  <2> QED
    BY <1>4, <2>1, <2>2 DEF isPlain
<1>6. subscribersOf = <<one, two>>
  BY DEF subscribersOf, one, two
<1>7. /\ subscribersOf \in Seq(Seq(S) \ {<<>>}) /\ DOMAIN subscribersOf = {1, 2}
      /\ subscribersOf[1] = one /\ subscribersOf[2] = two
  BY <1>2, <1>6
<1>8. \A n \in DOMAIN subscribersOf : isPlain(subscribersOf[n])
  BY <1>5, <1>7
<1>9. arrayStringToVectorString(arrayText(subscribersOf)) = subscribersOf
  BY <1>1, <1>7, <1>8, WrittenListIsRead
<1>10. subscribersOf \in Seq(Seq(S))
  BY <1>7
<1> QED
  BY <1>1, <1>9, <1>10, TextNotEmpty

(* A reply to --get-topic-status, of a topic that there is.                *)
LEMMA StatusRead ==
  ASSUME NEW c, c.commandIdentifier = 4, NEW list, NEW n \in Digit
  PROVE  ReadWell(c, list, Response(Statuscode.success,
           [messageTimestamp |-> decimal(n), subscribers |-> arrayText(subscribersOf)]))
<1> DEFINE text == arrayText(subscribersOf)
           D == {"messageTimestamp", "subscribers"}
           a == [messageTimestamp |-> decimal(n), subscribers |-> text]
           b == [p \in D |-> a[p]]
           back == Response(0, b)
           lists == [p \in {"subscribers"} |-> arrayStringToVectorString(text)]
           r == Response(Statuscode.success, a)
<1>1. responseDictionary(4) = D /\ DOMAIN a = D /\ Statuscode.success = 0
  BY DEF responseDictionary, Statuscode
<1>2. text # <<>> /\ arrayStringToVectorString(text) = subscribersOf
  BY SubscribersRead
<1> HIDE DEF text
<1>3. deserializeResponse(4, serializeResponse(Response(0, a))) = back
  <2> HIDE DEF a, D
  <2> QED
    BY <1>1, ResponseDecoded
<1>4. back.statusCode = 0 /\ back.arguments = b
  BY ResponseFields
<1>5. DOMAIN b = D /\ b["subscribers"] = text /\ b["messageTimestamp"] = decimal(n)
  OBVIOUS
<1> HIDE DEF back, b
<1>6. /\ DOMAIN b \cap {"topics", "subscribers"} = {"subscribers"}
      /\ DOMAIN b \cap {"messageTimestamp"} = {"messageTimestamp"}
  BY <1>5
<1>7. isNumeral(b["messageTimestamp"])
  BY <1>5, DecimalIsNumeral
<1>8. logResponse(back) = [status |-> 0, lists |-> lists]
  <2>1. [p \in {"subscribers"} |-> arrayStringToVectorString(b[p])] = lists
    BY <1>5
  <2> HIDE DEF lists
  <2> QED
    BY <1>1, <1>2, <1>4, <1>5, <1>6, <1>7, <2>1 DEF logResponse
<1>9. lists.subscribers = arrayStringToVectorString(text)
  OBVIOUS
<1> HIDE DEF lists
<1>10. Logged(c, r) = [status |-> 0, lists |-> lists]
  BY <1>1, <1>3, <1>8 DEF Logged
<1>11. ~ throws(Logged(c, r)) /\ Logged(c, r).lists = lists
  BY <1>10, ReportFields
<1>12. ReadWell(c, list, r)
  <2> HIDE DEF r
  <2> QED
    BY <1>2, <1>9, <1>11 DEF ReadWell
<1> QED
  BY <1>12 DEF text

(* The same for a topic that there is not.                                 *)
LEMMA NoStatusRead ==
  ASSUME NEW c, c.commandIdentifier = 4, NEW list
  PROVE  ReadWell(c, list, Response(Statuscode.invalidParameter,
           [messageTimestamp |-> <<>>, subscribers |-> <<>>]))
<1> DEFINE D == {"messageTimestamp", "subscribers"}
           a == [messageTimestamp |-> <<>>, subscribers |-> <<>>]
           b == [p \in D |-> a[p]]
           back == Response(2, b)
           r == Response(Statuscode.invalidParameter, a)
<1>1. /\ responseDictionary(4) = D /\ DOMAIN a = D
      /\ Statuscode.success = 0 /\ Statuscode.invalidParameter = 2
  BY DEF responseDictionary, Statuscode
<1>2. deserializeResponse(4, serializeResponse(Response(2, a))) = back
  <2> HIDE DEF a, D
  <2> QED
    BY <1>1, ResponseDecoded
<1>3. back.statusCode = 2 /\ back.arguments = b
  BY ResponseFields
<1> HIDE DEF back, b
<1>4. logResponse(back) = [status |-> 2, lists |-> <<>>]
  BY <1>1, <1>3 DEF logResponse
<1>5. Logged(c, r) = [status |-> 2, lists |-> <<>>]
  BY <1>1, <1>2, <1>4 DEF Logged
<1>6. ~ throws(Logged(c, r)) /\ Logged(c, r).status = 2
  BY <1>5, ReportFields
<1>7. ReadWell(c, list, r)
  <2> HIDE DEF r
  <2> QED
    BY <1>1, <1>6 DEF ReadWell
<1> QED
  BY <1>7

(* The client reads every reply that a handler may give to its request.    *)
LEMMA ReplyRead ==
  ASSUME NEW c \in clientCommands, NEW list \in Lists, NEW r \in handlerResponses(c, list)
  PROVE  ReadWell(c, list, r)
<1> DEFINE known == c.values.topicName \in Range(list)
<1>1. c.commandIdentifier \in {0, 1, 2, 3, 4}
  <2>1. CASE AsksAboutTopic(c)
    <3>1. PICK i \in {0, 1}, t \in Text, n \in Digit :
            c = Command(i, [topicName |-> t, clientPort |-> decimal(n)])
      BY <2>1 DEF AsksAboutTopic
    <3> QED
      BY <3>1, CommandThrowsNot
  <2>2. CASE AsksToPublish(c)
    BY <2>2, CommandThrowsNot DEF AsksToPublish
  <2>3. CASE c = Command(3, <<>>)
    BY <2>3, CommandThrowsNot
  <2>4. CASE AsksForStatus(c)
    BY <2>4, CommandThrowsNot DEF AsksForStatus
  <2> QED
    BY <2>1, <2>2, <2>3, <2>4, ClientCommandKinds
<1>2. /\ CommandIdentifier.subscribe = 0 /\ CommandIdentifier.unsubscribe = 1
      /\ CommandIdentifier.publish = 2 /\ CommandIdentifier.listTopics = 3
      /\ CommandIdentifier.getTopicStatus = 4
  BY DEF CommandIdentifier
<1>3. CASE c.commandIdentifier = 0
  <2>1. r = Response(Statuscode.success, <<>>) \/ r = Response(Statuscode.failed, <<>>)
    BY <1>2, <1>3 DEF handlerResponses
  <2> QED
    BY <1>3, <2>1, PlainReplyRead
<1>4. CASE c.commandIdentifier \in {1, 2}
  <2>1. r = Response(IF known THEN Statuscode.success ELSE Statuscode.invalidParameter, <<>>)
    BY <1>2, <1>4 DEF handlerResponses
  <2> QED
    BY <1>4, <2>1, PlainReplyRead
<1>5. CASE c.commandIdentifier = 3
  <2>1. r = Response(Statuscode.success, [topics |-> arrayText(list)])
    BY <1>2, <1>5 DEF handlerResponses
  <2> QED
    BY <1>5, <2>1, TopicsRead
<1>6. CASE c.commandIdentifier = 4
  <2> DEFINE R(n) == Response(Statuscode.success, [messageTimestamp |-> decimal(n),
                                                   subscribers |-> arrayText(subscribersOf)])
             F == Response(Statuscode.invalidParameter,
                           [messageTimestamp |-> <<>>, subscribers |-> <<>>])
  <2>1. (\E n \in Digit : r = R(n)) \/ r = F
    <3>1. CASE known
      <4>1. handlerResponses(c, list) = {R(n) : n \in Digit}
        <5> HIDE DEF known
        <5> QED
          BY <1>2, <1>6, <3>1 DEF handlerResponses, known
      <4> QED
        BY <4>1
    <3>2. CASE ~ known
      BY <1>2, <1>6, <3>2 DEF handlerResponses
    <3> QED
      BY <3>1, <3>2
  <2>2. \A n \in Digit : ReadWell(c, list, R(n))
    BY <1>6, StatusRead
  <2>3. ReadWell(c, list, F)
    BY <1>6, NoStatusRead
  <2> HIDE DEF R, F
  <2> QED
    BY <2>1, <2>2, <2>3
<1> QED
  BY <1>1, <1>3, <1>4, <1>5, <1>6

-----------------------------------------------------------------------------
(* The exchange as a whole.                                                *)

ByClient ==
  command \in clientCommands /\ isValid(command.values) /\ request = serialize(command)

ByStranger == command = NoCommand /\ request \in Foreign

HandlerReply ==
  command # NoCommand =>
    /\ handled = command
    /\ held \in Lists
    /\ \E r \in handlerResponses(command, held) : reply = serializeResponse(r)

\* What holds in each phase.
ExchangeInv ==
  /\ phase \in {"idle", "asked", "answered", "read", "sent", "clientTerminated"}
  /\ phase \in {"idle", "sent"} => command = NoCommand
  /\ phase \in {"asked", "answered"} => ByClient \/ ByStranger
  /\ phase = "answered" => HandlerReply
  /\ phase \in {"idle", "asked", "answered"} => sent = NoMessage
  /\ phase = "clientTerminated" => ~ isValid(command.values)
  /\ phase # "read" => shown = Nothing
  /\ phase \in {"idle", "sent"} => printed = NoMessage
  /\ phase = "sent" => /\ \E t, m \in Text, n \in Digit : sent = Message(t, n, m)
                       /\ datagram \in {serializeMessage(sent), NoJson}
  /\ phase = "read" => ListsArrive /\ MessagesArrive

(* Before a reply is shown there is no success.                            *)
LEMMA NothingShown ==
  Nothing.status # Statuscode.success
BY DEF Nothing, Statuscode

(* What the server makes of a request of client.exe.                       *)
LEMMA RequestDispatched ==
  ASSUME NEW c \in clientCommands, isValid(c.values), NEW list
  PROVE  /\ ~ throws(dispatch(serialize(c), list))
         /\ dispatch(serialize(c), list).called = c
         /\ dispatch(serialize(c), list).made = handlerResponses(c, list)
<1> DEFINE doc == serialize(c)
           result == [called |-> c, made |-> handlerResponses(c, list)]
<1>1. deserialize(doc) = c /\ ~ throws(c) /\ ~ portIsWrong(c) /\ isKnownCommand(c)
  BY RequestDecoded DEF Decoded
<1> HIDE DEF doc
<1>2. dispatch(doc, list) = result
  BY <1>1 DEF dispatch
<1>3. ~ throws(result) /\ result.called = c /\ result.made = handlerResponses(c, list)
  BY DEF throws
<1> QED
  BY <1>2, <1>3 DEF doc

(* What the client makes of a reply.                                       *)
LEMMA ReplyIsRead ==
  ExchangeInv /\ ClientReads => phase' = "read" /\ ListsArrive' /\ MessagesArrive'
<1> SUFFICES ASSUME ExchangeInv, ClientReads
    PROVE  phase' = "read" /\ ListsArrive' /\ MessagesArrive'
  OBVIOUS
<1>1. /\ phase = "answered" /\ sent = NoMessage /\ shown = Nothing /\ command # NoCommand
      /\ sent' = sent /\ command' = command /\ held' = held
      /\ HandlerReply /\ (ByClient \/ ByStranger)
  BY DEF ClientReads, ExchangeInv, messageVars
<1>2. command \in clientCommands /\ held \in Lists
  BY <1>1 DEF ByClient, ByStranger, HandlerReply
<1>3. PICK r \in handlerResponses(command, held) : reply = serializeResponse(r)
  BY <1>1 DEF HandlerReply
<1>4. ReadWell(command, held, r)
  BY <1>2, <1>3, ReplyRead
<1>5. logResponse(deserializeResponse(command.commandIdentifier, reply)) = Logged(command, r)
  BY <1>3 DEF Logged
<1>6. ~ throws(Logged(command, r))
  BY <1>4 DEF ReadWell
<1>7. phase' = "read" /\ shown' = Logged(command, r)
  BY <1>5, <1>6 DEF ClientReads
<1>8. ListsArrive'
  BY <1>1, <1>4, <1>7 DEF ListsArrive, ReadWell
<1>9. MessagesArrive'
  BY <1>1 DEF MessagesArrive
<1> QED
  BY <1>7, <1>8, <1>9

(* What the message thread makes of a datagram.                            *)
LEMMA MessageIsRead ==
  ExchangeInv /\ ReceiveMessage => phase' = "read" /\ ListsArrive' /\ MessagesArrive'
<1> SUFFICES ASSUME ExchangeInv, ReceiveMessage
    PROVE  phase' = "read" /\ ListsArrive' /\ MessagesArrive'
  OBVIOUS
<1>1. /\ phase = "sent" /\ printed = NoMessage /\ shown = Nothing
      /\ sent' = sent /\ shown' = shown /\ datagram' = datagram
      /\ datagram \in {serializeMessage(sent), NoJson}
  BY DEF ReceiveMessage, ExchangeInv, requestVars
<1>2. PICK t \in Text, m \in Text, n \in Digit : sent = Message(t, n, m)
  BY <1>1 DEF ExchangeInv
<1>3. /\ serializeMessage(sent) # NoJson /\ deserializeMessage(serializeMessage(sent)) = sent
      /\ ~ throws(sent)
  BY <1>2, MessageDecoded
<1>4. ListsArrive'
  BY <1>1, NothingShown DEF ListsArrive
<1>5. CASE datagram = NoJson
  <2>1. deserializeMessage(datagram) = Throw("runtime_error")
    BY <1>5 DEF deserializeMessage
  <2>2. throws(Throw("runtime_error")) /\ Throw("runtime_error").throws = "runtime_error"
    BY DEF throws, Throw
  <2>3. phase' = "read" /\ printed' = NoMessage
    BY <1>1, <2>1, <2>2 DEF ReceiveMessage
  <2>4. MessagesArrive'
    BY <1>1, <1>5, <2>3 DEF MessagesArrive
  <2> QED
    BY <1>4, <2>3, <2>4
<1>6. CASE datagram # NoJson
  <2>1. deserializeMessage(datagram) = sent
    BY <1>1, <1>3, <1>6
  <2>2. phase' = "read" /\ printed' = sent
    BY <1>3, <2>1 DEF ReceiveMessage
  <2>3. MessagesArrive'
    BY <1>1, <1>6, <2>2 DEF MessagesArrive
  <2> QED
    BY <1>4, <2>2, <2>3
<1> QED
  BY <1>5, <1>6

(* The invariant holds in the beginning,                                   *)
LEMMA ExchangeInit ==
  Idle => ExchangeInv
BY DEF Idle, ExchangeInv

(* every step keeps it,                                                    *)
LEMMA ExchangeStep ==
  ExchangeInv /\ [ExchangeNext]_exchangeVars => ExchangeInv'
<1> SUFFICES ASSUME ExchangeInv, [ExchangeNext]_exchangeVars PROVE ExchangeInv'
  OBVIOUS
<1> USE DEF requestVars, messageVars
<1>1. CASE ClientAsks
  <2>1. /\ phase = "idle" /\ sent = NoMessage /\ shown = Nothing
        /\ sent' = sent /\ shown' = shown
    BY <1>1 DEF ClientAsks, ExchangeInv
  <2>2. PICK c \in clientCommands :
          /\ command' = c
          /\ IF isValid(c.values)
             THEN phase' = "asked" /\ request' = serialize(c)
             ELSE phase' = "clientTerminated" /\ UNCHANGED request
    BY <1>1 DEF ClientAsks
  <2>3. CASE isValid(c.values)
    BY <2>1, <2>2, <2>3 DEF ExchangeInv, ByClient
  <2>4. CASE ~ isValid(c.values)
    BY <2>1, <2>2, <2>4 DEF ExchangeInv
  <2> QED
    BY <2>3, <2>4
<1>2. CASE StrangerAsks
  <2>1. /\ phase = "idle" /\ sent = NoMessage /\ shown = Nothing /\ command = NoCommand
        /\ sent' = sent /\ shown' = shown /\ command' = command
        /\ phase' = "asked" /\ request' \in Foreign
    BY <1>2 DEF StrangerAsks, ExchangeInv
  <2> QED
    BY <2>1 DEF ExchangeInv, ByStranger
<1>3. CASE ServerAnswers
  <2>1. /\ phase = "asked" /\ sent = NoMessage /\ shown = Nothing
        /\ sent' = sent /\ shown' = shown /\ command' = command /\ request' = request
        /\ held' \in Lists
        /\ ByClient \/ ByStranger
    BY <1>3 DEF ServerAnswers, ExchangeInv
  <2>2. phase' = "answered"
    BY <1>3 DEF ServerAnswers, caughtByServer
  <2>3. ByClient' \/ ByStranger'
    BY <2>1 DEF ByClient, ByStranger
  <2>4. HandlerReply'
    <3>1. SUFFICES ASSUME command # NoCommand
          PROVE  /\ handled' = command
                 /\ \E r \in handlerResponses(command, held') : reply' = serializeResponse(r)
      BY <2>1 DEF HandlerReply
    <3>2. command \in clientCommands /\ isValid(command.values) /\ request = serialize(command)
      BY <2>1, <3>1 DEF ByClient, ByStranger
    <3> DEFINE result == dispatch(request, held')
    <3>3. /\ ~ throws(result) /\ result.called = command
          /\ result.made = handlerResponses(command, held')
      BY <3>2, RequestDispatched
    <3>4. handled' = result.called /\ \E r \in result.made : reply' = serializeResponse(r)
      <4> HIDE DEF result
      <4> QED
        BY <1>3, <3>3 DEF ServerAnswers, result
    <3> HIDE DEF result
    <3> QED
      BY <3>3, <3>4
  <2> QED
    BY <2>1, <2>2, <2>3, <2>4 DEF ExchangeInv
<1>4. CASE ClientReads
  <2>1. phase' = "read" /\ ListsArrive' /\ MessagesArrive'
    BY <1>4, ReplyIsRead
  <2> QED
    BY <2>1 DEF ExchangeInv
<1>5. CASE SendMessage
  <2>1. /\ phase' = "sent" /\ command' = NoCommand /\ shown' = Nothing /\ printed' = NoMessage
    BY <1>5 DEF SendMessage, ExchangeInv
  <2>2. /\ \E t, m \in Text, n \in Digit : sent' = Message(t, n, m)
        /\ datagram' \in {serializeMessage(sent'), NoJson}
    BY <1>5 DEF SendMessage
  <2> QED
    BY <2>1, <2>2 DEF ExchangeInv
<1>6. CASE ReceiveMessage
  <2>1. phase' = "read" /\ ListsArrive' /\ MessagesArrive'
    BY <1>6, MessageIsRead
  <2> QED
    BY <2>1 DEF ExchangeInv
<1>7. CASE Again
  BY <1>7 DEF Again, ExchangeInv
<1>8. CASE UNCHANGED exchangeVars
  BY <1>8 DEF exchangeVars, ExchangeInv, ByClient, ByStranger, HandlerReply, ListsArrive,
              MessagesArrive
<1> QED
  BY <1>1, <1>2, <1>3, <1>4, <1>5, <1>6, <1>7, <1>8 DEF ExchangeNext

(* and so it always holds.                                                 *)
LEMMA ExchangeAlways ==
  ExchangeSpec => []ExchangeInv
<1>1. Idle => ExchangeInv
  BY ExchangeInit
<1>2. ExchangeInv /\ [ExchangeNext]_exchangeVars => ExchangeInv'
  BY ExchangeStep
<1> QED
  BY <1>1, <1>2, PTL DEF ExchangeSpec

(* What client.exe asks for is what the handler is called with, whatever   *)
(* the texts and ports are: serialize and deserialize fit together         *)
(* (command.cpp:80-148).                                                   *)
THEOREM RequestsArrive ==
  ExchangeSpec => []ArgumentsArrive
<1>1. ExchangeInv => ArgumentsArrive
  BY DEF ExchangeInv, HandlerReply, ArgumentsArrive
<1> QED
  BY <1>1, ExchangeAlways, PTL

(* Topics are shown as they are held exactly if no name has a comma or a   *)
(* space at an end, for registries of any size with names of any length    *)
(* (response.cpp:49-64, arrayStringToVectorString.h:17-36).                *)
THEOREM ListsAreShown ==
  ExchangeSpec => []ListsArrive
<1>1. ExchangeInv => ListsArrive
  <2> SUFFICES ASSUME ExchangeInv PROVE ListsArrive
    OBVIOUS
  <2>1. CASE phase = "read"
    BY <2>1 DEF ExchangeInv
  <2>2. CASE phase # "read"
    <3>1. shown = Nothing
      BY <2>2 DEF ExchangeInv
    <3> QED
      BY <3>1, NothingShown DEF ListsArrive
  <2> QED
    BY <2>1, <2>2
<1> QED
  BY <1>1, ExchangeAlways, PTL

(* Messages are printed as they were published, and cut ones not at all    *)
(* (message.cpp:27-65, client.cpp:184-190).                                *)
THEOREM MessagesAreRead ==
  ExchangeSpec => []MessagesArrive
<1>1. ExchangeInv => MessagesArrive
  BY DEF ExchangeInv, MessagesArrive
<1> QED
  BY <1>1, ExchangeAlways, PTL

(* Neither program ends by an exception, whatever it receives, unless      *)
(* client.exe is given an empty text, whose command is not valid: that one *)
(* leaves serialize, and main (command.cpp:80-85, client.cpp:225).         *)
THEOREM NoExceptionLeaves ==
  ExchangeSpec => []NobodyTerminates
<1>1. ExchangeInv => NobodyTerminates
  BY DEF ExchangeInv, NobodyTerminates
<1> QED
  BY <1>1, ExchangeAlways, PTL

(* A request that does not have the documented format is refused, whatever *)
(* others send, unless it is one of those that are named as tolerated      *)
(* (README.md:174, command.cpp:97-148).                                    *)
THEOREM WrongFormatRefused ==
  ExchangeSpec => []WrongFormatIsRefused
<1>1. Idle => WrongFormatIsRefused
  BY DEF Idle, WrongFormatIsRefused
<1>2. ExchangeInv /\ WrongFormatIsRefused /\ [ExchangeNext]_exchangeVars
        => WrongFormatIsRefused'
  <2> SUFFICES ASSUME ExchangeInv, WrongFormatIsRefused, [ExchangeNext]_exchangeVars
      PROVE  WrongFormatIsRefused'
    OBVIOUS
  <2>1. CASE ServerAnswers
    <3>1. SUFFICES ASSUME ~ documented(request), ~ tolerated(request)
          PROVE  reply'.statusCode = Number(Statuscode.internalError)
      BY <2>1 DEF ServerAnswers, WrongFormatIsRefused
    <3>2. phase = "asked" /\ (ByClient \/ ByStranger)
      BY <2>1 DEF ServerAnswers, ExchangeInv
    <3>3. ~ ByClient
      <4>1. ByClient => documented(request)
        BY RequestDecoded DEF ByClient, Decoded
      <4> QED
        BY <3>1, <4>1
    <3>4. request \in Foreign
      BY <3>2, <3>3 DEF ByStranger
    <3>5. isJson(request)
      BY <3>4, ExchangeAssumption
    <3>6. throws(deserialize(request))
      BY <3>1, <3>5, WrongIsRefused
    <3>7. throws(dispatch(request, held'))
      BY <3>6 DEF dispatch
    <3>8. reply' = serializeResponse(Response(Statuscode.internalError, <<>>))
      BY <2>1, <3>7 DEF ServerAnswers
    <3>9. serializeResponse(Response(Statuscode.internalError, <<>>)).statusCode
            = Number(Statuscode.internalError)
      BY ResponseFields DEF serializeResponse
    <3> QED
      BY <3>8, <3>9
  <2>2. CASE phase' # "answered"
    BY <2>2 DEF WrongFormatIsRefused
  <2>3. CASE UNCHANGED exchangeVars
    BY <2>3 DEF exchangeVars, requestVars, WrongFormatIsRefused
  <2>4. ASSUME ClientAsks \/ StrangerAsks \/ ClientReads \/ SendMessage \/ ReceiveMessage
               \/ Again
        PROVE  phase' # "answered"
    BY <2>4 DEF ClientAsks, StrangerAsks, ClientReads, SendMessage, ReceiveMessage, Again
  <2> QED
    BY <2>1, <2>2, <2>3, <2>4 DEF ExchangeNext
<1> QED
  BY <1>1, <1>2, ExchangeAlways, PTL DEF ExchangeSpec
=============================================================================
