---------------------------- MODULE VectorProofs ---------------------------
(***************************************************************************)
(* What the operations on vectors return, for vectors of any length.       *)
(* Induction is done on sets of numbers: NatSetInduction says that a set   *)
(* closed under successor has every number, which follows from < being     *)
(* well founded. What the other modules of proofs need of recursion is     *)
(* here as well: induction on sequences (SeqSetInduction), functions that  *)
(* are defined by recursion on a number (RecursionSolved, RecursionTyped), *)
(* smallest numbers (SomeMin) and FlattenSeq (FlattenUnfolds).             *)
(***************************************************************************)
EXTENDS Vector, SequencesExt, SequenceTheorems, WellFoundedInduction, TLAPS

(* A set that has 0 and the successor of each of its numbers has them all. *)
LEMMA NatSetInduction ==
  ASSUME NEW S, 0 \in S, \A n \in Nat : n \in S => n + 1 \in S
  PROVE  Nat \subseteq S
<1> DEFINE T == Nat \ S
           R == OpToRel(<, Nat)
<1>1. SUFFICES ASSUME T # {} PROVE FALSE
  OBVIOUS
<1>2. PICK m \in T : \A y \in T : ~ (<<y, m>> \in R)
  <2>1. IsWellFoundedOn(R, Nat)
    BY NatLessThanWellFounded
  <2>2. T \subseteq Nat
    OBVIOUS
  <2> HIDE DEF T, R
  <2> QED
    BY <1>1, <2>1, <2>2, WFMin
<1>3. m # 0 /\ m \in Nat
  OBVIOUS
<1>4. m - 1 \in Nat
  BY <1>3
<1>5. <<m - 1, m>> \in R
  BY <1>3, <1>4 DEF OpToRel
<1>6. m - 1 \in S
  BY <1>2, <1>4, <1>5
<1> QED
  BY <1>3, <1>4, <1>6

(* The recursion that defines kept has a solution, so kept satisfies it.   *)
LEMMA keptUnfolds ==
  ASSUME NEW S, NEW s \in Seq(S), NEW x
  PROVE  kept(s, x) = [i \in 0..Len(s) |->
           IF i = 0 THEN <<>>
           ELSE IF s[i] = x THEN kept(s, x)[i - 1]
                ELSE Append(kept(s, x)[i - 1], s[i])]
<1> DEFINE Body(f, i) == IF i = 0 THEN <<>>
                         ELSE IF s[i] = x THEN f[i - 1]
                              ELSE Append(f[i - 1], s[i])
           Solves(f, n) == f = [i \in 0..n |-> Body(f, i)]
           Good == {n \in Nat : \E f : Solves(f, n)}
<1>1. 0 \in Good
  <2> DEFINE f == [i \in 0..0 |-> <<>>]
  <2>1. f = [i \in 0..0 |-> Body(f, i)]
    OBVIOUS
  <2> QED
    BY <2>1
<1>2. ASSUME NEW n \in Nat, n \in Good PROVE n + 1 \in Good
  <2>1. PICK f : f = [i \in 0..n |-> Body(f, i)]
    BY <1>2
  <2> DEFINE g == [i \in 0..(n + 1) |-> IF i \in 0..n THEN f[i] ELSE Body(f, n + 1)]
  <2>2. ASSUME NEW i \in 0..(n + 1) PROVE g[i] = Body(g, i)
    <3>1. CASE i = 0
      BY <3>1, <2>1
    <3>2. CASE i \in 1..n
      <4>1. i - 1 \in 0..n /\ i # 0 /\ i \in 0..n
        BY <3>2
      <4>2. g[i - 1] = f[i - 1] /\ g[i] = f[i]
        BY <4>1
      <4>3. f[i] = Body(f, i)
        BY <2>1, <4>1
      <4> QED
        BY <4>1, <4>2, <4>3
    <3>3. CASE i = n + 1
      <4>1. i - 1 \in 0..n /\ i # 0 /\ i \notin 0..n
        BY <3>3
      <4>2. g[i - 1] = f[i - 1]
        BY <4>1
      <4>3. g[i] = Body(f, i)
        BY <4>1, <3>3
      <4> QED
        BY <4>1, <4>2, <4>3
    <3> QED
      BY <3>1, <3>2, <3>3
  <2>3. g = [i \in 0..(n + 1) |-> Body(g, i)]
    BY <2>2
  <2>4. Solves(g, n + 1)
    BY <2>3
  <2>5. \E h : Solves(h, n + 1)
    <3> HIDE DEF g, Solves
    <3> QED
      BY <2>4
  <2> HIDE DEF Solves
  <2> QED
    BY <2>5
<1>3. Len(s) \in Good
  <2> HIDE DEF Good
  <2>1. Nat \subseteq Good
    BY <1>1, <1>2, NatSetInduction
  <2> QED
    BY <2>1
<1>4. \E f : f = [i \in 0..Len(s) |-> Body(f, i)]
  BY <1>3
<1>5. kept(s, x) = CHOOSE f : f = [i \in 0..Len(s) |-> Body(f, i)]
  BY DEF kept
<1> QED
  BY <1>4, <1>5

(* push_back adds one element, and no copy of an element when it is new.    *)
LEMMA AppendElements ==
  ASSUME NEW S, NEW s \in Seq(S), NEW e \in S
  PROVE  /\ Append(s, e) \in Seq(S)
         /\ Range(Append(s, e)) = Range(s) \cup {e}
         /\ IsInjective(s) /\ e \notin Range(s) => IsInjective(Append(s, e))
<1> DEFINE a == Append(s, e)
<1>1. /\ a \in Seq(S)
      /\ Len(s) \in Nat
      /\ DOMAIN s = 1..Len(s)
      /\ DOMAIN a = 1..(Len(s) + 1)
      /\ \A i \in 1..Len(s) : a[i] = s[i]
      /\ a[Len(s) + 1] = e
  OBVIOUS
<1> HIDE DEF a
<1>2. Range(s) = {s[i] : i \in 1..Len(s)}
  BY <1>1 DEF Range
<1>3. Range(a) = {a[i] : i \in 1..(Len(s) + 1)}
  BY <1>1 DEF Range
<1>4. 1..(Len(s) + 1) = 1..Len(s) \cup {Len(s) + 1}
  BY <1>1
<1>5. Range(a) = Range(s) \cup {e}
  BY <1>1, <1>2, <1>3, <1>4
<1>6. ASSUME IsInjective(s), e \notin Range(s) PROVE IsInjective(a)
  BY <1>1, <1>2, <1>4, <1>6 DEF IsInjective
<1> QED
  BY <1>1, <1>5, <1>6 DEF a

(* What std::remove has moved to the front: the elements seen so far that  *)
(* differ from x, none of them twice if the vector has none twice.         *)
LEMMA keptElements ==
  ASSUME NEW S, NEW s \in Seq(S), NEW x
  PROVE  \A n \in 0..Len(s) :
           /\ kept(s, x)[n] \in Seq(S)
           /\ Range(kept(s, x)[n]) = {s[i] : i \in 1..n} \ {x}
           /\ IsInjective(s) => IsInjective(kept(s, x)[n])
<1> DEFINE k == kept(s, x)
           Holds(n) == /\ k[n] \in Seq(S)
                       /\ Range(k[n]) = {s[i] : i \in 1..n} \ {x}
                       /\ IsInjective(s) => IsInjective(k[n])
           Good == {n \in Nat : n \in 0..Len(s) => Holds(n)}
<1>1. \A n \in 0..Len(s) :
        k[n] = IF n = 0 THEN <<>>
               ELSE IF s[n] = x THEN k[n - 1] ELSE Append(k[n - 1], s[n])
  <2>1. k = [i \in 0..Len(s) |->
               IF i = 0 THEN <<>>
               ELSE IF s[i] = x THEN k[i - 1] ELSE Append(k[i - 1], s[i])]
    BY keptUnfolds
  <2> HIDE DEF k
  <2> QED
    BY <2>1
<1> HIDE DEF k
<1>2. 0 \in Good
  <2>1. k[0] = <<>>
    BY <1>1
  <2>2. Range(<<>>) = {} /\ IsInjective(<<>>) /\ <<>> \in Seq(S)
    BY DEF Range, IsInjective
  <2>3. {s[i] : i \in 1..0} = {}
    OBVIOUS
  <2> QED
    BY <2>1, <2>2, <2>3
<1>3. ASSUME NEW n \in Nat, n \in Good PROVE n + 1 \in Good
  <2>1. SUFFICES ASSUME n + 1 \in 0..Len(s) PROVE Holds(n + 1)
    OBVIOUS
  <2>2. n \in 0..Len(s) /\ n + 1 \in 1..Len(s) /\ Holds(n)
    BY <1>3, <2>1
  <2>3. s[n + 1] \in S
    BY <2>2
  <2>4. {s[i] : i \in 1..(n + 1)} = {s[i] : i \in 1..n} \cup {s[n + 1]}
    BY <2>2
  <2>5. k[n + 1] = IF s[n + 1] = x THEN k[n] ELSE Append(k[n], s[n + 1])
    <3>1. n + 1 # 0 /\ (n + 1) - 1 = n
      OBVIOUS
    <3> HIDE DEF Holds
    <3> QED
      BY <1>1, <2>1, <3>1
  <2>6. CASE s[n + 1] = x
    BY <2>2, <2>4, <2>5, <2>6
  <2>7. CASE s[n + 1] # x
    <3>1. k[n + 1] = Append(k[n], s[n + 1])
      BY <2>5, <2>7
    <3>2. ASSUME IsInjective(s) PROVE s[n + 1] \notin {s[i] : i \in 1..n}
      BY <2>2, <3>2 DEF IsInjective
    <3>3. /\ k[n + 1] \in Seq(S)
          /\ Range(k[n + 1]) = Range(k[n]) \cup {s[n + 1]}
          /\ (IsInjective(k[n]) /\ s[n + 1] \notin Range(k[n])
                => IsInjective(k[n + 1]))
      BY <2>2, <2>3, <3>1, AppendElements
    <3> QED
      BY <2>2, <2>4, <2>7, <3>2, <3>3
  <2> QED
    BY <2>6, <2>7
<1>4. Nat \subseteq Good
  <2> HIDE DEF Good
  <2> QED
    BY <1>2, <1>3, NatSetInduction
<1>5. \A n \in 0..Len(s) : Holds(n)
  <2> HIDE DEF Holds
  <2>1. 0..Len(s) \subseteq Nat
    OBVIOUS
  <2> QED
    BY <1>4, <2>1
<1> QED
  BY <1>5 DEF k

(* The erase-remove idiom returns a vector of the other elements.          *)
LEMMA eraseRemoveElements ==
  ASSUME NEW S, NEW s \in Seq(S), NEW x
  PROVE  /\ eraseRemove(s, x) \in Seq(S)
         /\ Range(eraseRemove(s, x)) = Range(s) \ {x}
         /\ IsInjective(s) => IsInjective(eraseRemove(s, x))
<1>1. Len(s) \in 0..Len(s)
  OBVIOUS
<1>2. Range(s) = {s[i] : i \in 1..Len(s)}
  BY DEF Range
<1>3. /\ kept(s, x)[Len(s)] \in Seq(S)
      /\ Range(kept(s, x)[Len(s)]) = {s[i] : i \in 1..Len(s)} \ {x}
      /\ IsInjective(s) => IsInjective(kept(s, x)[Len(s)])
  <2>1. \A n \in 0..Len(s) :
           /\ kept(s, x)[n] \in Seq(S)
           /\ Range(kept(s, x)[n]) = {s[i] : i \in 1..n} \ {x}
           /\ IsInjective(s) => IsInjective(kept(s, x)[n])
    BY keptElements
  <2> QED
    BY <1>1, <2>1
<1> QED
  BY <1>2, <1>3 DEF eraseRemove

(* Nothing is added, and what is erased is missing.                        *)
LEMMA keptLength ==
  ASSUME NEW S, NEW s \in Seq(S), NEW x
  PROVE  \A n \in 0..Len(s) :
           /\ Len(kept(s, x)[n]) <= n
           /\ n >= 1 /\ s[1] = x => Len(kept(s, x)[n]) < n
<1> DEFINE k == kept(s, x)
           Holds(n) == /\ Len(k[n]) <= n
                       /\ n >= 1 /\ s[1] = x => Len(k[n]) < n
           Good == {n \in Nat : n \in 0..Len(s) => Holds(n)}
<1>1. /\ \A n \in 0..Len(s) :
           k[n] = IF n = 0 THEN <<>>
                  ELSE IF s[n] = x THEN k[n - 1] ELSE Append(k[n - 1], s[n])
      /\ \A n \in 0..Len(s) : k[n] \in Seq(S)
  <2>1. k = [i \in 0..Len(s) |->
               IF i = 0 THEN <<>>
               ELSE IF s[i] = x THEN k[i - 1] ELSE Append(k[i - 1], s[i])]
    BY keptUnfolds
  <2>2. \A n \in 0..Len(s) : k[n] \in Seq(S)
    BY keptElements
  <2> HIDE DEF k
  <2> QED
    BY <2>1, <2>2
<1> HIDE DEF k
<1>2. 0 \in Good
  BY <1>1
<1>3. ASSUME NEW n \in Nat, n \in Good PROVE n + 1 \in Good
  <2>1. SUFFICES ASSUME n + 1 \in 0..Len(s) PROVE Holds(n + 1)
    OBVIOUS
  <2>2. /\ n \in 0..Len(s) /\ Len(k[n]) <= n
        /\ n >= 1 /\ s[1] = x => Len(k[n]) < n
        /\ k[n] \in Seq(S) /\ Len(k[n]) \in Nat
    BY <1>1, <1>3, <2>1
  <2>3. k[n + 1] = IF s[n + 1] = x THEN k[n] ELSE Append(k[n], s[n + 1])
    <3>1. n + 1 # 0 /\ (n + 1) - 1 = n
      OBVIOUS
    <3> HIDE DEF Holds
    <3> QED
      BY <1>1, <2>1, <3>1
  <2>4. CASE s[n + 1] = x
    BY <2>2, <2>3, <2>4
  <2>5. CASE s[n + 1] # x
    <3>1. Len(k[n + 1]) = Len(k[n]) + 1
      BY <2>1, <2>2, <2>3, <2>5
    <3>2. s[1] = x => n >= 1
      BY <2>5
    <3> QED
      BY <2>2, <3>1, <3>2
  <2> QED
    BY <2>4, <2>5
<1>4. Nat \subseteq Good
  <2> HIDE DEF Good
  <2> QED
    BY <1>2, <1>3, NatSetInduction
<1>5. \A n \in 0..Len(s) : Holds(n)
  <2> HIDE DEF Holds
  <2>1. 0..Len(s) \subseteq Nat
    OBVIOUS
  <2> QED
    BY <1>4, <2>1
<1> QED
  BY <1>5 DEF k

(* To erase the first element of a vector makes it shorter: a loop that    *)
(* does so ends (client.cpp:86-89).                                        *)
LEMMA eraseHeadShortens ==
  ASSUME NEW S, NEW s \in Seq(S), s # <<>>
  PROVE  /\ eraseRemove(s, Head(s)) \in Seq(S)
         /\ Len(eraseRemove(s, Head(s))) < Len(s)
<1>1. Len(s) \in 0..Len(s) /\ Len(s) >= 1 /\ s[1] = Head(s)
  OBVIOUS
<1>2. \A n \in 0..Len(s) :
        n >= 1 /\ s[1] = Head(s) => Len(kept(s, Head(s))[n]) < n
  BY keptLength
<1>3. Len(kept(s, Head(s))[Len(s)]) < Len(s)
  BY <1>1, <1>2
<1> QED
  BY <1>3, eraseRemoveElements DEF eraseRemove

-----------------------------------------------------------------------------
(* Induction and recursion on sequences of any elements.                   *)

(* A set with the empty sequence and, with any of its sequences, also those*)
(* that are longer by one, has them all.                                   *)
LEMMA SeqSetInduction ==
  ASSUME NEW S, NEW G, <<>> \in G,
         \A s \in Seq(S) : \A e \in S : s \in G => Append(s, e) \in G
  PROVE  Seq(S) \subseteq G
<1> DEFINE Good == {n \in Nat : \A s \in Seq(S) : Len(s) = n => s \in G}
<1>1. 0 \in Good
  <2>1. \A s \in Seq(S) : Len(s) = 0 => s = <<>>
    OBVIOUS
  <2> QED
    BY <2>1
<1>2. ASSUME NEW n \in Nat, n \in Good PROVE n + 1 \in Good
  <2>1. SUFFICES ASSUME NEW s \in Seq(S), Len(s) = n + 1 PROVE s \in G
    OBVIOUS
  <2>2. s # <<>>
    BY <2>1
  <2>3. PICK t \in Seq(S) : \E e \in S : s = Append(t, e)
    BY <2>2, SequenceEmptyOrAppend
  <2>4. PICK e \in S : s = Append(t, e)
    BY <2>3
  <2>5. Len(t) = n
    BY <2>1, <2>4
  <2>6. t \in G
    BY <1>2, <2>5
  <2> QED
    BY <2>4, <2>6
<1>3. Nat \subseteq Good
  <2> HIDE DEF Good
  <2> QED
    BY <1>1, <1>2, NatSetInduction
<1>4. ASSUME NEW s \in Seq(S) PROVE s \in G
  <2>1. Len(s) \in Nat
    OBVIOUS
  <2>2. Len(s) \in Good
    BY <1>3, <2>1
  <2> QED
    BY <2>2
<1> QED
  BY <1>4

\* The functions that are defined by recursion over the positions of a
\* sequence, each value by step from the one before.
Obeying(n, V, base, step) ==
  {g \in [0..n -> V] : g[0] = base /\ \A i \in 1..n : g[i] = step[i][g[i - 1]]}

(* There is one if step leads from V to V.                                 *)
LEMMA RecursionSolved ==
  ASSUME NEW n \in Nat, NEW V, NEW base \in V, NEW step \in [1..n -> [V -> V]]
  PROVE  Obeying(n, V, base, step) # {}
<1> DEFINE Solves(g, m) == /\ g \in [0..m -> V] /\ g[0] = base
                           /\ \A i \in 1..m : g[i] = step[i][g[i - 1]]
           Good == {m \in Nat : m <= n => \E g : Solves(g, m)}
<1>1. 0 \in Good
  <2> DEFINE f == [i \in 0..0 |-> base]
  <2>1. Solves(f, 0)
    OBVIOUS
  <2>2. \E g : Solves(g, 0)
    <3> HIDE DEF f, Solves
    <3> QED
      BY <2>1
  <2> QED
    BY <2>2
<1>2. ASSUME NEW m \in Nat, m \in Good PROVE m + 1 \in Good
  <2>1. SUFFICES ASSUME m + 1 <= n PROVE \E g : Solves(g, m + 1)
    OBVIOUS
  <2>2. PICK f : Solves(f, m)
    BY <1>2, <2>1
  <2>3. m \in 0..m /\ f[m] \in V /\ m + 1 \in 1..n
    BY <2>1, <2>2
  <2>4. step[m + 1][f[m]] \in V
    BY <2>3
  <2> DEFINE next == step[m + 1][f[m]]
             g == [i \in 0..(m + 1) |-> IF i \in 0..m THEN f[i] ELSE next]
  <2> HIDE DEF next
  <2>5. g \in [0..(m + 1) -> V] /\ g[0] = base
    BY <2>2, <2>4 DEF next
  <2>6. ASSUME NEW i \in 1..(m + 1) PROVE g[i] = step[i][g[i - 1]]
    <3>1. CASE i \in 1..m
      <4>1. i - 1 \in 0..m /\ i \in 0..m
        BY <3>1
      <4>2. g[i] = f[i] /\ g[i - 1] = f[i - 1]
        BY <4>1
      <4> HIDE DEF g
      <4> QED
        BY <2>2, <3>1, <4>2
    <3>2. CASE i = m + 1
      <4>1. i - 1 = m /\ i \notin 0..m /\ i - 1 \in 0..(m + 1)
        BY <3>2
      <4>2. g[i] = next /\ g[i - 1] = f[m]
        BY <4>1
      <4> HIDE DEF g
      <4> QED
        BY <3>2, <4>2 DEF next
    <3> QED
      BY <3>1, <3>2
  <2>7. Solves(g, m + 1)
    <3> HIDE DEF g
    <3> QED
      BY <2>5, <2>6
  <2> HIDE DEF g, Solves
  <2> QED
    BY <2>7
<1>3. n \in Good
  <2> HIDE DEF Good
  <2>1. Nat \subseteq Good
    BY <1>1, <1>2, NatSetInduction
  <2> QED
    BY <2>1
<1> QED
  BY <1>3 DEF Obeying

(* Whatever obeys such a recursion has its values in V.                    *)
LEMMA RecursionTyped ==
  ASSUME NEW n \in Nat, NEW V, NEW h, h[0] \in V,
         \A i \in 1..n : h[i - 1] \in V => h[i] \in V
  PROVE  \A i \in 0..n : h[i] \in V
<1> DEFINE Typed == {m \in Nat : m <= n => h[m] \in V}
<1>1. 0 \in Typed
  OBVIOUS
<1>2. ASSUME NEW m \in Nat, m \in Typed PROVE m + 1 \in Typed
  <2>1. SUFFICES ASSUME m + 1 <= n PROVE h[m + 1] \in V
    OBVIOUS
  <2>2. m + 1 \in 1..n /\ (m + 1) - 1 = m /\ h[m] \in V
    BY <1>2, <2>1
  <2> QED
    BY <2>2
<1>3. Nat \subseteq Typed
  <2> HIDE DEF Typed
  <2> QED
    BY <1>1, <1>2, NatSetInduction
<1> QED
  BY <1>3

(* Of some numbers one is the smallest.                                    *)
LEMMA SomeMin ==
  ASSUME NEW M \in SUBSET Nat, M # {}
  PROVE  Min(M) \in M /\ \A y \in M : Min(M) <= y
<1> DEFINE R == OpToRel(<, Nat)
<1>1. M \subseteq Nat
  OBVIOUS
<1>2. IsWellFoundedOn(R, Nat)
  BY NatLessThanWellFounded
<1>3. PICK m \in M : \A y \in M : ~ (<<y, m>> \in R)
  <2> HIDE DEF R
  <2> QED
    BY <1>1, <1>2, WFMin
<1>4. \A y \in M : m <= y
  <2>1. \A y \in M : ~ (y < m)
    BY <1>1, <1>3 DEF OpToRel
  <2> QED
    BY <1>1, <2>1
<1>5. \E x \in M : \A y \in M : x <= y
  BY <1>4
<1> QED
  BY <1>5 DEF Min

(* FlattenSeq concatenates from left to right.                             *)
LEMMA FlattenUnfolds ==
  ASSUME NEW S, NEW pieces \in Seq(Seq(S)), pieces # <<>>
  PROVE  \E f \in [1..Len(pieces) -> Seq(S)] :
           /\ f[1] = pieces[1]
           /\ \A i \in 2..Len(pieces) : f[i] = f[i - 1] \o pieces[i]
           /\ FlattenSeq(pieces) = f[Len(pieces)]
<1> DEFINE n == Len(pieces)
           V == Seq(S)
           step == [i \in 1..n |-> [v \in V |-> v \o pieces[i]]]
           Body(f, i) == IF i = 1 THEN pieces[i] ELSE f[i - 1] \o pieces[i]
<1>1. n \in Nat /\ n >= 1 /\ \A i \in 1..n : pieces[i] \in V
  OBVIOUS
<1>2. <<>> \in V
  OBVIOUS
<1>3. \A v, w \in V : v \o w \in V
  OBVIOUS
<1>4. \A w \in V : <<>> \o w = w
  OBVIOUS
<1>5. FlattenSeq(pieces) = (CHOOSE f : f = [i \in 1..n |-> Body(f, i)])[n]
  BY <1>1 DEF FlattenSeq
<1> HIDE DEF n, V
<1>6. step \in [1..n -> [V -> V]]
  BY <1>1, <1>3
<1>7. \A i \in 1..n : \A v \in V : step[i][v] = v \o pieces[i]
  OBVIOUS
<1> HIDE DEF step
<1>8. PICK g \in [0..n -> V] : g[0] = <<>> /\ \A i \in 1..n : g[i] = step[i][g[i - 1]]
  <2>1. Obeying(n, V, <<>>, step) # {}
    BY <1>1, <1>2, <1>6, RecursionSolved
  <2> QED
    BY <2>1 DEF Obeying
<1> DEFINE k == [i \in 1..n |-> g[i]]
<1>9. ASSUME NEW i \in 1..n PROVE k[i] = Body(k, i) /\ k[i] \in V
  <2>1. i \in 0..n /\ i - 1 \in 0..n
    BY <1>1
  <2>2. g[i] = g[i - 1] \o pieces[i] /\ g[i] \in V
    BY <1>7, <1>8, <2>1
  <2>3. CASE i = 1
    <3>1. g[i - 1] = <<>> /\ pieces[i] \in V
      BY <1>1, <1>8, <2>3
    <3>2. g[i] = pieces[i]
      BY <1>4, <2>2, <3>1
    <3> QED
      BY <2>2, <2>3, <3>2
  <2>4. CASE i # 1
    <3>1. i - 1 \in 1..n
      BY <1>1, <2>4
    <3> QED
      BY <2>2, <2>4, <3>1
  <2> QED
    BY <2>3, <2>4
<1>10. k = [i \in 1..n |-> Body(k, i)] /\ k \in [1..n -> V]
  BY <1>9
<1> DEFINE h == CHOOSE f : f = [i \in 1..n |-> Body(f, i)]
<1> HIDE DEF k, h
<1>11. h = [i \in 1..n |-> Body(h, i)]
  BY <1>10 DEF h
<1>12. \A i \in 1..n : h[i] = Body(h, i)
  BY <1>11
<1>13. \A i \in 1..n : h[i] \in V
  <2> DEFINE Typed == {m \in Nat : m + 1 \in 1..n => h[m + 1] \in V}
  <2>1. 0 \in Typed
    BY <1>1, <1>12
  <2>2. ASSUME NEW m \in Nat, m \in Typed PROVE m + 1 \in Typed
    <3>1. SUFFICES ASSUME m + 2 \in 1..n PROVE h[m + 2] \in V
      OBVIOUS
    <3>2. m + 1 \in 1..n /\ (m + 2) - 1 = m + 1 /\ m + 2 # 1
      BY <1>1, <3>1
    <3>3. h[m + 1] \in V
      BY <2>2, <3>2
    <3>4. h[m + 2] = h[m + 1] \o pieces[m + 2]
      BY <1>12, <3>1, <3>2
    <3> QED
      BY <1>1, <1>3, <3>1, <3>3, <3>4
  <2>3. Nat \subseteq Typed
    <3> HIDE DEF Typed
    <3> QED
      BY <2>1, <2>2, NatSetInduction
  <2>4. ASSUME NEW i \in 1..n PROVE h[i] \in V
    <3>1. i - 1 \in Nat /\ (i - 1) + 1 = i
      BY <1>1
    <3> QED
      BY <2>3, <3>1
  <2> QED
    BY <2>4
<1>14. h \in [1..n -> V]
  BY <1>11, <1>13
<1>15. h[1] = pieces[1] /\ \A i \in 2..n : h[i] = h[i - 1] \o pieces[i]
  <2>1. 1 \in 1..n /\ \A i \in 2..n : i \in 1..n /\ i # 1
    BY <1>1
  <2> QED
    BY <1>12, <2>1
<1> QED
  BY <1>5, <1>14, <1>15 DEF h, n, V
=============================================================================
