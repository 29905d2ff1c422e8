------------------------------ MODULE Induction -------------------------------
(***************************************************************************)
(* Induction on the natural numbers, stated of sets: it follows from the   *)
(* fact that the finite sets are well-founded under inclusion.             *)
(***************************************************************************)
EXTENDS Integers, SequencesExt, FiniteSetTheorems, SequenceTheorems, TLAPS

\* A set of natural numbers that is not empty has a least element.
LEMMA Least ==
  ASSUME NEW T \in SUBSET Nat, T # {}
  PROVE  \E x \in T : \A y \in T : x <= y
<1> DEFINE F == {0 .. n : n \in T}
<1>1. F \subseteq FiniteSubsetsOf(Nat) /\ F # {}
  <2>1. \A n \in T : IsFiniteSet(0 .. n) /\ 0 .. n \in SUBSET Nat BY FS_Interval
  <2> QED BY <2>1 DEF FiniteSubsetsOf
<1>2. PICK x \in F : \A y \in F : ~ (<<y, x>> \in StrictSubsetOrdering(Nat))
  <2> HIDE DEF F
  <2> QED BY <1>1, FS_StrictSubsetOrderingWellFounded, WFMin
<1>3. PICK n \in T : x = 0 .. n OBVIOUS
<1>4. \A y \in T : n <= y
  <2> SUFFICES ASSUME NEW y \in T, y < n PROVE FALSE OBVIOUS
  <2>1. 0 .. y \subseteq 0 .. n /\ n \in 0 .. n /\ n \notin 0 .. y OBVIOUS
  <2>2. 0 .. y \in SUBSET Nat /\ 0 .. n \in SUBSET Nat OBVIOUS
  <2>3. <<0 .. y, 0 .. n>> \in StrictSubsetOrdering(Nat)
    BY <2>1, <2>2, Zenon DEF StrictSubsetOrdering
  <2> QED BY <1>2, <1>3, <2>3
<1> QED BY <1>4

\* A set of natural numbers that has 0 and the successor of each of its
\* elements has them all.
LEMMA Successors ==
  ASSUME NEW T \in SUBSET Nat, 0 \in T, \A k \in T : k + 1 \in T
  PROVE  T = Nat
<1> DEFINE U == Nat \ T
<1> SUFFICES ASSUME U # {} PROVE FALSE OBVIOUS
<1>1. PICK x \in U : \A y \in U : x <= y
  <2>1. U \in SUBSET Nat OBVIOUS
  <2> HIDE DEF U
  <2> QED BY <2>1, Least
<1>2. x - 1 \in T BY <1>1
<1> QED BY <1>2

Stepping(next, X, n) == \A i \in 1 .. n, x \in X : next[<<i, x>>] \in X

Follows(f, first, next, n) ==
  f[0] = first /\ \A i \in 1 .. n : f[i] = next[<<i, f[i - 1]>>]

\* A function on 0 .. n may be defined from each value to the next.
LEMMA Recursion ==
  ASSUME NEW X, NEW first \in X, NEW n \in Nat, NEW next, Stepping(next, X, n)
  PROVE  \E f \in [0 .. n -> X] : Follows(f, first, next, n)
<1> USE DEF Stepping, Follows
<1> DEFINE Path(f, k) == f[0] = first /\ \A i \in 1 .. k : f[i] = next[<<i, f[i - 1]>>]
           T == {k \in Nat : k <= n => \E f \in [0 .. k -> X] : Path(f, k)}
<1>1. 0 \in T
  <2> DEFINE f == [i \in 0 .. 0 |-> first]
  <2>1. f \in [0 .. 0 -> X] /\ Path(f, 0) OBVIOUS
  <2> QED BY <2>1
<1>2. ASSUME NEW k \in T PROVE k + 1 \in T
  <2> SUFFICES ASSUME k + 1 <= n PROVE \E f \in [0 .. k + 1 -> X] : Path(f, k + 1)
    OBVIOUS
  <2>1. PICK f \in [0 .. k -> X] : Path(f, k) BY <1>2
  <2> DEFINE g == [i \in 0 .. k + 1 |-> IF i \in 0 .. k THEN f[i] ELSE next[<<k + 1, f[k]>>]]
  <2>2. k + 1 \in 1 .. n /\ f[k] \in X OBVIOUS
  <2>3. next[<<k + 1, f[k]>>] \in X BY <2>2
  <2>4. g \in [0 .. k + 1 -> X] BY <2>3
  <2>5. \A i \in 0 .. k : g[i] = f[i] OBVIOUS
  <2>6. g[k + 1] = next[<<k + 1, f[k]>>] OBVIOUS
  <2> HIDE DEF g
  <2>7. ASSUME NEW i \in 1 .. k + 1 PROVE g[i] = next[<<i, g[i - 1]>>]
    <3>1. g[i - 1] = f[i - 1] BY <2>5
    <3>2. CASE i = k + 1
      <4>1. i - 1 = k BY <3>2
      <4> QED BY <3>1, <3>2, <4>1, <2>6
    <3>3. CASE i # k + 1
      <4>1. i \in 1 .. k BY <3>3
      <4> QED BY <4>1, <3>1, <2>1, <2>5
    <3> QED BY <3>2, <3>3
  <2>8. g[0] = first BY <2>1, <2>5
  <2> QED BY <2>4, <2>7, <2>8
<1>3. T = Nat
  <2> HIDE DEF T
  <2>1. T \in SUBSET Nat BY DEF T
  <2> QED BY <1>1, <1>2, <2>1, Successors
<1>4. n \in T BY <1>3
<1> QED BY <1>4

-----------------------------------------------------------------------------
\* FlattenSeq joins the sequences one after the other.
FlatEquation(f, seqs, n) ==
  f = [i \in 1 .. n |-> IF i = 1 THEN seqs[i] ELSE f[i - 1] \o seqs[i]]

LEMMA FlatExists ==
  ASSUME NEW seqs, NEW n \in Nat PROVE \E f : FlatEquation(f, seqs, n)
<1> DEFINE E(f, i) == IF i = 1 THEN seqs[i] ELSE f[i - 1] \o seqs[i]
           T == {k \in Nat : \E f : f = [i \in 1 .. k |-> E(f, i)]}
<1>1. 0 \in T
  <2> DEFINE f == [i \in 1 .. 0 |-> seqs]
  <2>1. \A i \in 1 .. 0 : FALSE OBVIOUS
  <2>2. f = [i \in 1 .. 0 |-> E(f, i)] BY <2>1
  <2> QED BY <2>2
<1>2. ASSUME NEW k \in T PROVE k + 1 \in T
  <2>1. PICK f : f = [i \in 1 .. k |-> E(f, i)] BY <1>2
  <2> DEFINE g == [i \in 1 .. k + 1 |-> IF i \in 1 .. k THEN f[i] ELSE E(f, i)]
  <2>2. ASSUME NEW i \in 1 .. k + 1 PROVE g[i] = E(g, i)
    <3>1. i # 1 => i - 1 \in 1 .. k /\ i - 1 \in 1 .. k + 1 OBVIOUS
    <3>2. i # 1 => g[i - 1] = f[i - 1] BY <3>1
    <3>3. g[i] = E(f, i) BY <2>1
    <3> HIDE DEF g
    <3> QED BY <3>2, <3>3
  <2>3. g = [i \in 1 .. k + 1 |-> g[i]] OBVIOUS
  <2> HIDE DEF g, E
  <2>4. g = [i \in 1 .. k + 1 |-> E(g, i)] BY <2>2, <2>3
  <2> QED BY <2>4
<1>3. T = Nat
  <2> HIDE DEF T
  <2>1. T \in SUBSET Nat BY DEF T
  <2> QED BY <1>1, <1>2, <2>1, Successors
<1>4. n \in T BY <1>3
<1> QED BY <1>4 DEF FlatEquation

\* Concatenation, by what is needed of it here.
Cat(x, y) == x \o y

LEMMA CatNothing == ASSUME NEW S, NEW x \in Seq(S) PROVE Cat(x, <<>>) = x /\ Cat(<<>>, x) = x
BY ConcatEmptySeq DEF Cat

LEMMA CatTyped == ASSUME NEW S, NEW x \in Seq(S), NEW y \in Seq(S) PROVE Cat(x, y) \in Seq(S)
BY ConcatProperties DEF Cat

LEMMA CatAssociative ==
  ASSUME NEW S, NEW x \in Seq(S), NEW y \in Seq(S), NEW z \in Seq(S)
  PROVE  Cat(Cat(x, y), z) = Cat(x, Cat(y, z))
BY ConcatAssociative DEF Cat

\* F[k] is the first k of the sequences, joined.
FlatPath(F, seqs, n) ==
  /\ F[0] = <<>> /\ FlattenSeq(seqs) = F[n]
  /\ \A k \in 1 .. n : F[k] = Cat(F[k - 1], seqs[k])

LEMMA FlatSteps ==
  ASSUME NEW S, NEW seqs \in Seq(Seq(S)) PROVE \E F : FlatPath(F, seqs, Len(seqs))
<1> DEFINE n == Len(seqs)
           f == CHOOSE f : FlatEquation(f, seqs, n)
           F == [k \in 0 .. n |-> IF k = 0 THEN <<>> ELSE f[k]]
<1>1. n \in Nat /\ \A i \in 1 .. n : seqs[i] \in Seq(S) BY LenProperties, ElementOfSeq
<1>2. FlatEquation(f, seqs, n)
  <2> HIDE DEF n
  <2> QED BY <1>1, FlatExists
<1>3. FlattenSeq(seqs) = IF n = 0 THEN seqs ELSE f[n] BY DEF FlattenSeq, FlatEquation
<1>4. n = 0 => seqs = <<>> BY EmptySeq
<1> HIDE DEF f, n
<1>5. FlattenSeq(seqs) = F[n] BY <1>1, <1>3, <1>4
<1>6. ASSUME NEW k \in 1 .. n PROVE F[k] = Cat(F[k - 1], seqs[k])
  <2>1. f[k] = IF k = 1 THEN seqs[k] ELSE f[k - 1] \o seqs[k] BY <1>2 DEF FlatEquation
  <2>2. F[k] = f[k] BY <1>1
  <2>3. CASE k = 1
    <3>1. F[k - 1] = <<>> BY <2>3, <1>1
    <3>2. Cat(<<>>, seqs[k]) = seqs[k]
      <4>1. PICK x \in Seq(S) : x = seqs[k] BY <1>1
      <4>2. Cat(<<>>, x) = x BY CatNothing
      <4> QED BY <4>1, <4>2
    <3> QED BY <2>1, <2>2, <2>3, <3>1, <3>2
  <2>4. CASE k # 1
    <3>1. F[k - 1] = f[k - 1] BY <2>4, <1>1
    <3> QED BY <2>1, <2>2, <2>4, <3>1 DEF Cat
  <2> QED BY <2>3, <2>4
<1>7. F[0] = <<>> BY <1>1
<1> HIDE DEF F
<1>8. FlatPath(F, seqs, n) BY <1>5, <1>6, <1>7 DEF FlatPath
<1> QED BY <1>8 DEF n

LEMMA FlatTyped ==
  ASSUME NEW S, NEW seqs \in Seq(Seq(S)), NEW F, FlatPath(F, seqs, Len(seqs))
  PROVE  \A k \in 0 .. Len(seqs) : F[k] \in Seq(S)
<1> DEFINE n == Len(seqs)
           T == {k \in Nat : k <= n => F[k] \in Seq(S)}
<1>1. n \in Nat /\ \A i \in 1 .. n : seqs[i] \in Seq(S) BY LenProperties, ElementOfSeq
<1>2. FlatPath(F, seqs, n) OBVIOUS
<1> HIDE DEF n
<1>3. 0 \in T BY <1>2, EmptySeq DEF FlatPath
<1>4. ASSUME NEW k \in T PROVE k + 1 \in T
  <2> SUFFICES ASSUME k + 1 <= n PROVE F[k + 1] \in Seq(S) OBVIOUS
  <2>1. k + 1 \in 1 .. n /\ k + 1 - 1 = k /\ F[k] \in Seq(S) BY <1>1
  <2>2. F[k + 1] = Cat(F[k], seqs[k + 1]) BY <2>1, <1>2 DEF FlatPath
  <2>3. PICK x \in Seq(S), y \in Seq(S) : x = F[k] /\ y = seqs[k + 1] BY <1>1, <2>1
  <2>4. Cat(x, y) \in Seq(S) BY CatTyped
  <2> QED BY <2>2, <2>3, <2>4
<1> HIDE DEF T
<1>5. T = Nat
  <2>1. T \in SUBSET Nat BY DEF T
  <2> QED BY <1>3, <1>4, <2>1, Successors
<1> QED BY <1>5, <1>1 DEF T, n

\* The sequence out has, in order, g[i] for each i in T.
Picks(out, g, n, T, pos) ==
  /\ Len(out) <= n
  /\ pos \in [1 .. Len(out) -> T \cap (1 .. n)]
  /\ \A k \in 1 .. Len(out) : out[k] = g[pos[k]]
  /\ \A k, l \in 1 .. Len(out) : k < l => pos[k] < pos[l]
  /\ \A i \in T \cap (1 .. n) : \E k \in 1 .. Len(out) : pos[k] = i

Selection(g, n, T) == [i \in 1 .. n |-> IF i \in T THEN <<g[i]>> ELSE <<>>]

Extended(out, g, k, T) == IF k + 1 \in T THEN Append(out, g[k + 1]) ELSE out
PicksOn(S, out, g, k, T) == \E q : out \in Seq(S) /\ Picks(out, g, k, T, q)

LEMMA PicksMore ==
  ASSUME NEW S, NEW T, NEW g, NEW k \in Nat, NEW out, PicksOn(S, out, g, k, T),
         k + 1 \in T => g[k + 1] \in S
  PROVE  PicksOn(S, Extended(out, g, k, T), g, k + 1, T)
<1> DEFINE more == Extended(out, g, k, T)
<1>0. PICK pos : out \in Seq(S) /\ Picks(out, g, k, T, pos) BY DEF PicksOn
<1>a. more = IF k + 1 \in T THEN Append(out, g[k + 1]) ELSE out BY DEF Extended
<1>b. (\E q : more \in Seq(S) /\ Picks(more, g, k + 1, T, q)) => PicksOn(S, more, g, k + 1, T)
  BY DEF PicksOn
<1> SUFFICES \E q : more \in Seq(S) /\ Picks(more, g, k + 1, T, q) BY <1>b
<1> HIDE DEF more
<1>1. PICK m \in Nat : Len(out) = m BY <1>0, LenProperties
<1>2. CASE k + 1 \notin T
  <2>1. more = out BY <1>2, <1>a
  <2>2. T \cap (1 .. k + 1) = T \cap (1 .. k) BY <1>2
  <2>3. Picks(out, g, k + 1, T, pos)
    <3>1. m <= k + 1 BY <1>0, <1>1 DEF Picks
    <3> QED BY <1>0, <1>1, <2>2, <3>1 DEF Picks
  <2> QED BY <1>0, <2>1, <2>3
<1>3. CASE k + 1 \in T
  <2> DEFINE q == [i \in 1 .. m + 1 |-> IF i = m + 1 THEN k + 1 ELSE pos[i]]
  <2>1. /\ more \in Seq(S) /\ Len(more) = m + 1 /\ more[m + 1] = g[k + 1]
        /\ \A i \in 1 .. m : more[i] = out[i]
    BY <1>0, <1>1, <1>3, <1>a, AppendProperties
  <2>2. m <= k /\ pos \in [1 .. m -> T \cap (1 .. k)] BY <1>0, <1>1 DEF Picks
  <2>3. m + 1 \in 1 .. m + 1 BY <1>1
  <2>4. q \in [1 .. m + 1 -> T \cap (1 .. k + 1)]
    <3>1. ASSUME NEW i \in 1 .. m + 1 PROVE q[i] \in T \cap (1 .. k + 1)
      <4>1. i # m + 1 => pos[i] \in T \cap (1 .. k)
        <5>1. i # m + 1 => i \in 1 .. m BY <1>1
        <5> QED BY <5>1, <2>2
      <4> QED BY <4>1, <1>3
    <3> QED BY <3>1
  <2>5. \A i \in 1 .. m : q[i] = pos[i] /\ q[i] < k + 1
    <3> TAKE i \in 1 .. m
    <3>1. i \in 1 .. m + 1 /\ i # m + 1 BY <1>1
    <3>2. pos[i] \in 1 .. k BY <2>2
    <3> QED BY <3>1, <3>2
  <2>6. q[m + 1] = k + 1 BY <2>3
  <2> HIDE DEF q
  <2>7. \A i \in 1 .. m + 1 : more[i] = g[q[i]]
    <3> TAKE i \in 1 .. m + 1
    <3>1. CASE i = m + 1 BY <3>1, <2>1, <2>6
    <3>2. CASE i # m + 1
      <4>1. i \in 1 .. m BY <3>2, <1>1
      <4> QED BY <4>1, <2>1, <2>5, <1>0, <1>1 DEF Picks
    <3> QED BY <3>1, <3>2
  <2>8. \A i, j \in 1 .. m + 1 : i < j => q[i] < q[j]
    <3> TAKE i, j \in 1 .. m + 1
    <3> HAVE i < j
    <3>1. i \in 1 .. m BY <1>1
    <3>2. CASE j = m + 1 BY <3>1, <3>2, <2>5, <2>6
    <3>3. CASE j # m + 1
      <4>1. j \in 1 .. m BY <3>3, <1>1
      <4>2. pos[i] < pos[j] BY <3>1, <4>1, <1>0, <1>1 DEF Picks
      <4> QED BY <3>1, <4>1, <4>2, <2>5
    <3> QED BY <3>2, <3>3
  <2>9. \A i \in T \cap (1 .. k + 1) : \E j \in 1 .. m + 1 : q[j] = i
    <3> TAKE i \in T \cap (1 .. k + 1)
    <3>1. CASE i = k + 1 BY <3>1, <2>3, <2>6
    <3>2. CASE i # k + 1
      <4>1. i \in T \cap (1 .. k) BY <3>2
      <4>2. PICK j \in 1 .. m : pos[j] = i BY <4>1, <1>0, <1>1 DEF Picks
      <4>3. j \in 1 .. m + 1 BY <1>1
      <4> QED BY <4>2, <4>3, <2>5
    <3> QED BY <3>1, <3>2
  <2>10. m + 1 <= k + 1 BY <2>2, <1>1
  <2>11. Picks(more, g, k + 1, T, q) BY <2>1, <2>4, <2>7, <2>8, <2>9, <2>10 DEF Picks
  <2> QED BY <2>1, <2>11
<1> QED BY <1>2, <1>3

\* What a loop that skips some of the elements leaves of a sequence.
LEMMA Selected ==
  ASSUME NEW S, NEW T, NEW n \in Nat, NEW g, \A i \in T \cap (1 .. n) : g[i] \in S
  PROVE  /\ FlattenSeq(Selection(g, n, T)) \in Seq(S)
         /\ \E pos : Picks(FlattenSeq(Selection(g, n, T)), g, n, T, pos)
<1> DEFINE s == Selection(g, n, T)
<1>1. s \in Seq(Seq(S)) /\ Len(s) = n
  <2>1. \A i \in 1 .. n : s[i] \in Seq(S)
    <3> TAKE i \in 1 .. n
    <3>1. <<>> \in Seq(S) BY EmptySeq
    <3>2. i \in T => <<g[i]>> \in Seq(S) OBVIOUS
    <3> QED BY <3>1, <3>2 DEF Selection
  <2>2. s = [i \in 1 .. n |-> s[i]] BY DEF Selection
  <2> HIDE DEF s
  <2>3. s \in [1 .. n -> Seq(S)] BY <2>1, <2>2
  <2> QED BY <2>3, LenProperties, IsASeq
<1>2. PICK F : FlatPath(F, s, n)
  <2> HIDE DEF s
  <2> QED BY <1>1, FlatSteps
<1> DEFINE U == {k \in Nat : k <= n => PicksOn(S, F[k], g, k, T)}
<1>3. 0 \in U
  <2>1. F[0] = <<>> BY <1>2 DEF FlatPath
  <2>2. Picks(<<>>, g, 0, T, <<>>) BY DEF Picks
  <2>3. <<>> \in Seq(S) BY EmptySeq
  <2> QED BY <2>1, <2>2, <2>3 DEF PicksOn
<1>4. ASSUME NEW k \in U PROVE k + 1 \in U
  <2> SUFFICES ASSUME k + 1 <= n
               PROVE  PicksOn(S, F[k + 1], g, k + 1, T)
    OBVIOUS
  <2>1. k \in Nat /\ k + 1 \in 1 .. n /\ k + 1 - 1 = k OBVIOUS
  <2>2. PicksOn(S, F[k], g, k, T) BY <2>1
  <2>3. F[k + 1] = Cat(F[k], s[k + 1])
    <3> HIDE DEF s
    <3> QED BY <1>2, <2>1 DEF FlatPath
  <2>4. s[k + 1] = IF k + 1 \in T THEN <<g[k + 1]>> ELSE <<>> BY <2>1 DEF Selection
  <2>5. k + 1 \in T => g[k + 1] \in S BY <2>1
  <2>6. PICK out \in Seq(S) : out = F[k] BY <2>2 DEF PicksOn
  <2>7. F[k + 1] = IF k + 1 \in T THEN Append(out, g[k + 1]) ELSE out
    <3>1. Cat(out, <<>>) = out BY CatNothing
    <3>2. k + 1 \in T => Cat(out, <<g[k + 1]>>) = Append(out, g[k + 1])
      BY <2>5, AppendIsConcat DEF Cat
    <3> HIDE DEF s
    <3> QED BY <2>3, <2>4, <2>6, <3>1, <3>2
  <2>8. F[k + 1] = Extended(F[k], g, k, T) BY <2>6, <2>7 DEF Extended
  <2>9. PicksOn(S, Extended(F[k], g, k, T), g, k + 1, T)
    <3>1. k \in Nat OBVIOUS
    <3> HIDE DEF U
    <3> QED BY <3>1, <2>2, <2>5, PicksMore
  <2> QED BY <2>8, <2>9
<1>5. U = Nat
  <2> HIDE DEF U
  <2>1. U \in SUBSET Nat BY DEF U
  <2> QED BY <1>3, <1>4, <2>1, Successors
<1>6. n \in U BY <1>5
<1>7. F[n] \in Seq(S) /\ \E pos : Picks(F[n], g, n, T, pos) BY <1>6 DEF PicksOn
<1>8. FlattenSeq(s) = F[n] BY <1>2 DEF FlatPath
<1> QED BY <1>7, <1>8
===============================================================================
