--------------------------- MODULE Vmemmap_proofs ----------------------------
(***************************************************************************)
(* Theorems about Vmemmap: what sanitize makes of any list of regions, and *)
(* what the boot code makes of the regions: frames are handed out once,    *)
(* none is lost, and the array of struct pages has no hole.                *)
(***************************************************************************)
EXTENDS Vmemmap, Induction, TLAPS


\* What memory_detect stores, and what is left of it when the empty regions are gone.
Region == [base : Nat, limit : Nat, type : 1 .. 7]
Solid  == {e \in Region : e.limit # 0}
Point(K) == [ent : 1 .. Len(K), addr : Nat]

LEMMA LaterOrders ==
  ASSUME NEW K \in Seq(Solid)
  PROVE  /\ \A p, q \in Point(K) : Later(K, p, q) => ~ Later(K, q, p)
         /\ \A p, q, r \in Point(K) :
              ~ Later(K, p, q) /\ ~ Later(K, q, r) => ~ Later(K, p, r)
<1>1. \A p \in Point(K) : End(K[p.ent]) \in Nat /\ p.addr \in Nat
  <2> TAKE p \in Point(K)
  <2>1. p.ent \in 1 .. Len(K) /\ p.addr \in Nat BY DEF Point
  <2>2. K[p.ent] \in Solid BY <2>1, ElementOfSeq
  <2> QED BY <2>1, <2>2 DEF End, Solid, Region
<1> QED BY <1>1 DEF Later

\* t is s in another order.
Rearranged(K, t, s, n) ==
  /\ t \in [1 .. n -> Point(K)]
  /\ \E w \in [1 .. n -> 1 .. n] :
       /\ \A k, l \in 1 .. n : w[k] = w[l] => k = l
       /\ \A i \in 1 .. n : \E k \in 1 .. n : w[k] = i
       /\ \A k \in 1 .. n : t[k] = s[w[k]]

LEMMA ExchangeRearranges ==
  ASSUME NEW K, NEW n \in Nat, NEW s, NEW t, Rearranged(K, t, s, n),
         NEW i \in 1 .. n, NEW j \in 1 .. n
  PROVE  Rearranged(K, Exchanged(K, t, i, j), s, n)
<1>1. CASE ~ Later(K, t[i], t[j]) BY <1>1 DEF Exchanged
<1>2. CASE Later(K, t[i], t[j])
  <2> DEFINE u == [t EXCEPT ![i] = t[j], ![j] = t[i]]
  <2>1. Exchanged(K, t, i, j) = u BY <1>2 DEF Exchanged
  <2>2. PICK w \in [1 .. n -> 1 .. n] :
          /\ \A k, l \in 1 .. n : w[k] = w[l] => k = l
          /\ \A m \in 1 .. n : \E k \in 1 .. n : w[k] = m
          /\ \A k \in 1 .. n : t[k] = s[w[k]]
    BY DEF Rearranged
  <2> DEFINE x == [k \in 1 .. n |-> IF k = i THEN w[j] ELSE IF k = j THEN w[i] ELSE w[k]]
  <2>3. t \in [1 .. n -> Point(K)] BY DEF Rearranged
  <2>4. u \in [1 .. n -> Point(K)] BY <2>3
  <2>5. x \in [1 .. n -> 1 .. n] BY <2>2
  <2>6. \A k \in 1 .. n : u[k] = IF k = i THEN t[j] ELSE IF k = j THEN t[i] ELSE t[k]
    BY <2>3
  <2>7. \A k \in 1 .. n : x[k] = IF k = i THEN w[j] ELSE IF k = j THEN w[i] ELSE w[k]
    OBVIOUS
  <2> HIDE DEF u, x
  <2>8. \A k \in 1 .. n : u[k] = s[x[k]]
    <3> TAKE k \in 1 .. n
    <3>1. PICK a \in 1 .. n : a = IF k = i THEN j ELSE IF k = j THEN i ELSE k OBVIOUS
    <3>2. u[k] = t[a] BY <2>6, <3>1
    <3>3. x[k] = w[a] BY <2>7, <3>1
    <3>4. t[a] = s[w[a]] BY <2>2
    <3> QED BY <3>2, <3>3, <3>4
  <2>9. \A k, l \in 1 .. n : x[k] = x[l] => k = l
    <3> TAKE k, l \in 1 .. n
    <3>1. PICK a \in 1 .. n : a = IF k = i THEN j ELSE IF k = j THEN i ELSE k OBVIOUS
    <3>2. PICK b \in 1 .. n : b = IF l = i THEN j ELSE IF l = j THEN i ELSE l OBVIOUS
    <3>3. x[k] = w[a] BY <2>7, <3>1
    <3>4. x[l] = w[b] BY <2>7, <3>2
    <3>5. w[a] = w[b] => a = b BY <2>2
    <3>6. a = b => k = l BY <3>1, <3>2
    <3> QED BY <3>3, <3>4, <3>5, <3>6
  <2>10. \A m \in 1 .. n : \E k \in 1 .. n : x[k] = m
    <3> TAKE m \in 1 .. n
    <3>1. PICK k \in 1 .. n : w[k] = m BY <2>2
    <3>2. k = i => x[j] = m BY <2>7, <3>1
    <3>3. k = j => x[i] = m BY <2>7, <3>1
    <3>4. k # i /\ k # j => x[k] = m BY <2>7, <3>1
    <3> QED BY <3>2, <3>3, <3>4
  <2>11. Rearranged(K, u, s, n) BY <2>4, <2>5, <2>8, <2>9, <2>10 DEF Rearranged
  <2> QED BY <2>1, <2>11
<1> QED BY <1>1, <1>2

\* The first i points are the least, in order.
Ordered(K, t, i, n) == \A k \in 1 .. i, l \in 1 .. n : k < l => ~ Later(K, t[k], t[l])

\* Place i has been compared with the places up to j.
Settling(K, u, s, i, j, n) ==
  /\ Rearranged(K, u, s, n)
  /\ Ordered(K, u, i - 1, n)
  /\ \A l \in i + 1 .. j : ~ Later(K, u[i], u[l])

LEMMA OneExchange ==
  ASSUME NEW K \in Seq(Solid), NEW n \in Nat, NEW s, NEW t, NEW i \in 1 .. n, NEW j \in i + 1 .. n,
         Settling(K, t, s, i, j - 1, n)
  PROVE  Settling(K, Exchanged(K, t, i, j), s, i, j, n)
<1> DEFINE u == Exchanged(K, t, i, j)
<1>1. i \in 1 .. n /\ j \in 1 .. n /\ i < j OBVIOUS
<1>2. Rearranged(K, u, s, n) BY <1>1, ExchangeRearranges DEF Settling
<1>3. t \in [1 .. n -> Point(K)] BY DEF Settling, Rearranged
<1>4. \A k \in 1 .. n : t[k] \in Point(K) BY <1>3
<1>5. CASE ~ Later(K, t[i], t[j])
  <2>1. u = t BY <1>5 DEF Exchanged
  <2>2. \A l \in i + 1 .. j : l = j \/ l \in i + 1 .. j - 1 OBVIOUS
  <2> QED BY <1>5, <2>1, <2>2 DEF Settling
<1>6. CASE Later(K, t[i], t[j])
  <2>1. u = [t EXCEPT ![i] = t[j], ![j] = t[i]] BY <1>6 DEF Exchanged
  <2>2. \A k \in 1 .. n : u[k] = IF k = i THEN t[j] ELSE IF k = j THEN t[i] ELSE t[k]
    BY <1>3, <2>1
  <2> HIDE DEF u
  <2>3. Ordered(K, u, i - 1, n)
    <3> SUFFICES ASSUME NEW k \in 1 .. i - 1, NEW l \in 1 .. n, k < l
                 PROVE  ~ Later(K, u[k], u[l])
      BY DEF Ordered
    <3>1. k \in 1 .. n /\ u[k] = t[k] /\ k < i /\ k < j BY <1>1, <2>2
    <3>2. \E m \in 1 .. n : k < m /\ u[l] = t[m] BY <3>1, <1>1, <2>2
    <3> QED BY <3>1, <3>2 DEF Settling, Ordered
  <2>4. ASSUME NEW l \in i + 1 .. j PROVE ~ Later(K, u[i], u[l])
    <3>1. u[i] = t[j] /\ ~ Later(K, t[j], t[i]) BY <1>1, <1>4, <1>6, <2>2, LaterOrders
    <3>2. CASE l = j
      <4>1. u[l] = t[i] BY <3>2, <1>1, <2>2
      <4> QED BY <3>1, <4>1
    <3>3. CASE l # j
      <4>1. l \in i + 1 .. j - 1 /\ l \in 1 .. n /\ l # i BY <3>3, <1>1
      <4>2. u[l] = t[l] /\ ~ Later(K, t[i], t[l]) BY <4>1, <3>3, <2>2 DEF Settling
      <4> QED BY <3>1, <4>1, <4>2, <1>1, <1>4, LaterOrders
    <3> QED BY <3>2, <3>3
  <2>5. Settling(K, u, s, i, j, n) BY <1>2, <2>3, <2>4 DEF Settling
  <2> QED BY <2>5 DEF u
<1> QED BY <1>5, <1>6


Placed(K, u, s, i, n) == Rearranged(K, u, s, n) /\ Ordered(K, u, i, n)

Turning(K, t, i, n, f) ==
  f = [j \in 0 .. n |-> IF j <= i THEN t ELSE Exchanged(K, f[j - 1], i, j)]

LEMMA TurningExists ==
  ASSUME NEW K, NEW n \in Nat, NEW t \in [1 .. n -> Point(K)], NEW i \in 1 .. n
  PROVE  \E f : Turning(K, t, i, n, f)
<1> DEFINE X == [1 .. n -> Point(K)]
           next == [jx \in (1 .. n) \X X |-> IF jx[1] <= i THEN t ELSE Exchanged(K, jx[2], i, jx[1])]
<1>1. \A j \in 1 .. n, x \in X : Exchanged(K, x, i, j) \in X BY DEF Exchanged
<1>2. \A j \in 1 .. n, x \in X : next[<<j, x>>] = IF j <= i THEN t ELSE Exchanged(K, x, i, j)
  <2> TAKE j \in 1 .. n, x \in X
  <2>1. <<j, x>> \in (1 .. n) \X X OBVIOUS
  <2> QED BY <2>1
<1>3. \A j \in 1 .. n, x \in X : next[<<j, x>>] \in X BY <1>1, <1>2
<1>4. t \in X OBVIOUS
<1> HIDE DEF X, next
<1>5. PICK f \in [0 .. n -> X] : f[0] = t /\ \A j \in 1 .. n : f[j] = next[<<j, f[j - 1]>>]
  <2>1. Stepping(next, X, n) BY <1>3 DEF Stepping
  <2>2. PICK f \in [0 .. n -> X] : Follows(f, t, next, n) BY <1>4, <2>1, Recursion
  <2> QED BY <2>2 DEF Follows
<1>6. \A j \in 0 .. n : f[j] = IF j <= i THEN t ELSE Exchanged(K, f[j - 1], i, j)
  <2> TAKE j \in 0 .. n
  <2>1. CASE j = 0 BY <2>1, <1>5
  <2>2. CASE j # 0
    <3>1. j \in 1 .. n /\ f[j - 1] \in X BY <2>2
    <3> QED BY <3>1, <1>2, <1>5
  <2> QED BY <2>1, <2>2
<1>7. f = [j \in 0 .. n |-> f[j]] OBVIOUS
<1>8. f = [j \in 0 .. n |-> IF j <= i THEN t ELSE Exchanged(K, f[j - 1], i, j)] BY <1>6, <1>7
<1> QED BY <1>8 DEF Turning

LEMMA Settles ==
  ASSUME NEW K \in Seq(Solid), NEW n \in Nat, NEW s, NEW t, NEW i \in 1 .. n, Placed(K, t, s, i - 1, n)
  PROVE  Placed(K, Settled(K, t, i), s, i, n)
<1> DEFINE f == CHOOSE f : Turning(K, t, i, n, f)
<1>1. t \in [1 .. n -> Point(K)] BY DEF Placed, Rearranged
<1>2. Len(t) = n BY <1>1
<1>3. Settled(K, t, i) = f[n] BY <1>2 DEF Settled, Turning
<1>4. Turning(K, t, i, n, f) BY <1>1, TurningExists
<1> HIDE DEF f
<1> DEFINE T == {j \in Nat : j \in i .. n => Settling(K, f[j], s, i, j, n)}
<1>5. \A j \in 0 .. n : f[j] = IF j <= i THEN t ELSE Exchanged(K, f[j - 1], i, j) BY <1>4 DEF Turning
<1>6. Settling(K, t, s, i, i, n)
  <2>1. \A l \in i + 1 .. i : FALSE OBVIOUS
  <2> QED BY <2>1 DEF Settling, Placed
<1>7. 0 \in T OBVIOUS
<1>8. ASSUME NEW k \in T PROVE k + 1 \in T
  <2> SUFFICES ASSUME k + 1 \in i .. n PROVE Settling(K, f[k + 1], s, i, k + 1, n) OBVIOUS
  <2>1. CASE k + 1 = i
    <3>1. f[k + 1] = t BY <2>1, <1>5
    <3> QED BY <2>1, <3>1, <1>6
  <2>2. CASE k + 1 # i
    <3>1. PICK j \in i + 1 .. n : j = k + 1 BY <2>2
    <3>2. f[j] = Exchanged(K, f[j - 1], i, j) BY <1>5
    <3>3. Settling(K, f[j - 1], s, i, j - 1, n)
      <4>1. j - 1 = k /\ k \in i .. n BY <3>1, <2>2
      <4> QED BY <4>1
    <3> HIDE DEF T
    <3>4. Settling(K, Exchanged(K, f[j - 1], i, j), s, i, j, n) BY <3>3, OneExchange
    <3> QED BY <3>1, <3>2, <3>4
  <2> QED BY <2>1, <2>2
<1>9. T = Nat
  <2> HIDE DEF T
  <2>1. T \in SUBSET Nat BY DEF T
  <2> QED BY <1>7, <1>8, <2>1, Successors
<1>10. Settling(K, f[n], s, i, n, n)
  <2>1. n \in T /\ n \in i .. n BY <1>9
  <2> QED BY <2>1
<1> HIDE DEF T
<1>11. Ordered(K, f[n], i, n)
  <2> SUFFICES ASSUME NEW k \in 1 .. i, NEW l \in 1 .. n, k < l
               PROVE  ~ Later(K, f[n][k], f[n][l])
    BY DEF Ordered
  <2>1. CASE k = i
    <3>1. l \in i + 1 .. n BY <2>1
    <3> QED BY <2>1, <3>1, <1>10 DEF Settling
  <2>2. CASE k # i
    <3>1. k \in 1 .. i - 1 BY <2>2
    <3> QED BY <3>1, <1>10 DEF Settling, Ordered
  <2> QED BY <2>1, <2>2
<1> QED BY <1>3, <1>10, <1>11 DEF Settling, Placed

Sorting(K, s, n, g) == g = [i \in 0 .. n |-> IF i = 0 THEN s ELSE Settled(K, g[i - 1], i)]

LEMMA SettledTyped ==
  ASSUME NEW K, NEW n \in Nat, NEW t \in [1 .. n -> Point(K)], NEW i \in 1 .. n
  PROVE  Settled(K, t, i) \in [1 .. n -> Point(K)]
<1> DEFINE f == CHOOSE f : Turning(K, t, i, n, f)
           X == [1 .. n -> Point(K)]
           T == {j \in Nat : j \in 0 .. n => f[j] \in X}
<1>1. Len(t) = n OBVIOUS
<1>2. Settled(K, t, i) = f[n] BY <1>1 DEF Settled, Turning
<1>3. Turning(K, t, i, n, f) BY TurningExists
<1> HIDE DEF f
<1>4. \A j \in 0 .. n : f[j] = IF j <= i THEN t ELSE Exchanged(K, f[j - 1], i, j) BY <1>3 DEF Turning
<1>5. \A j \in 1 .. n, x \in X : Exchanged(K, x, i, j) \in X BY DEF Exchanged
<1>6. 0 \in T BY <1>4
<1>7. ASSUME NEW k \in T PROVE k + 1 \in T
  <2> SUFFICES ASSUME k + 1 \in 0 .. n PROVE f[k + 1] \in X OBVIOUS
  <2>1. k + 1 \in 1 .. n /\ k \in 0 .. n /\ k + 1 - 1 = k OBVIOUS
  <2>2. f[k] \in X BY <2>1
  <2>3. Exchanged(K, f[k], i, k + 1) \in X BY <2>1, <2>2, <1>5
  <2>4. f[k + 1] = IF k + 1 <= i THEN t ELSE Exchanged(K, f[k], i, k + 1) BY <2>1, <1>4
  <2> QED BY <2>3, <2>4
<1>8. T = Nat
  <2> HIDE DEF T
  <2>1. T \in SUBSET Nat BY DEF T
  <2> QED BY <1>6, <1>7, <2>1, Successors
<1> QED BY <1>2, <1>8

\* sort_end_points sorts.
LEMMA SortSorts ==
  ASSUME NEW K \in Seq(Solid), NEW n \in Nat, NEW s \in [1 .. n -> Point(K)]
  PROVE  Placed(K, sort_end_points(K, s), s, n, n)
<1> DEFINE g == CHOOSE g : Sorting(K, s, n, g)
           X == [1 .. n -> Point(K)]
           next == [ix \in (1 .. n) \X X |-> Settled(K, ix[2], ix[1])]
<1>1. Len(s) = n OBVIOUS
<1>2. sort_end_points(K, s) = g[n] BY <1>1 DEF sort_end_points, Sorting
<1>3. \E h : Sorting(K, s, n, h)
  <2>1. \A i \in 1 .. n, x \in X : Settled(K, x, i) \in X BY SettledTyped
  <2>2. \A i \in 1 .. n, x \in X : next[<<i, x>>] = Settled(K, x, i)
    <3> TAKE i \in 1 .. n, x \in X
    <3>1. <<i, x>> \in (1 .. n) \X X OBVIOUS
    <3> QED BY <3>1
  <2>3. \A i \in 1 .. n, x \in X : next[<<i, x>>] \in X BY <2>1, <2>2
  <2>4. s \in X OBVIOUS
  <2> HIDE DEF X, next
  <2>5. PICK h \in [0 .. n -> X] : h[0] = s /\ \A i \in 1 .. n : h[i] = next[<<i, h[i - 1]>>]
    <3>1. Stepping(next, X, n) BY <2>3 DEF Stepping
    <3>2. PICK h \in [0 .. n -> X] : Follows(h, s, next, n) BY <2>4, <3>1, Recursion
    <3> QED BY <3>2 DEF Follows
  <2>6. \A i \in 0 .. n : h[i] = IF i = 0 THEN s ELSE Settled(K, h[i - 1], i)
    <3> TAKE i \in 0 .. n
    <3>1. i # 0 => i \in 1 .. n /\ h[i - 1] \in X OBVIOUS
    <3> QED BY <3>1, <2>2, <2>5
  <2>7. h = [i \in 0 .. n |-> h[i]] OBVIOUS
  <2>8. h = [i \in 0 .. n |-> IF i = 0 THEN s ELSE Settled(K, h[i - 1], i)] BY <2>6, <2>7
  <2> QED BY <2>8 DEF Sorting
<1>4. Sorting(K, s, n, g) BY <1>3
<1> HIDE DEF g
<1>5. \A i \in 0 .. n : g[i] = IF i = 0 THEN s ELSE Settled(K, g[i - 1], i) BY <1>4 DEF Sorting
<1> DEFINE T == {i \in Nat : i \in 0 .. n => Placed(K, g[i], s, i, n)}
<1>6. 0 \in T
  <2>1. Rearranged(K, s, s, n)
    <3> DEFINE w == [k \in 1 .. n |-> k]
    <3>1. /\ w \in [1 .. n -> 1 .. n]
          /\ \A k, l \in 1 .. n : w[k] = w[l] => k = l
          /\ \A i \in 1 .. n : \E k \in 1 .. n : w[k] = i
          /\ \A k \in 1 .. n : s[k] = s[w[k]]
      OBVIOUS
    <3> HIDE DEF w
    <3> QED BY <3>1 DEF Rearranged
  <2>2. Ordered(K, s, 0, n)
    <3>1. \A k \in 1 .. 0 : FALSE OBVIOUS
    <3> QED BY <3>1 DEF Ordered
  <2>3. g[0] = s BY <1>5
  <2> QED BY <2>1, <2>2, <2>3 DEF Placed
<1>7. ASSUME NEW k \in T PROVE k + 1 \in T
  <2> SUFFICES ASSUME k + 1 \in 0 .. n PROVE Placed(K, g[k + 1], s, k + 1, n) OBVIOUS
  <2>1. PICK i \in 1 .. n : i = k + 1 /\ i - 1 = k OBVIOUS
  <2>2. Placed(K, g[i - 1], s, i - 1, n) BY <2>1
  <2>3. g[i] = Settled(K, g[i - 1], i) BY <1>5
  <2> HIDE DEF T
  <2>4. Placed(K, Settled(K, g[i - 1], i), s, i, n) BY <2>2, Settles
  <2> QED BY <2>1, <2>3, <2>4
<1>8. T = Nat
  <2> HIDE DEF T
  <2>1. T \in SUBSET Nat BY DEF T
  <2> QED BY <1>6, <1>7, <2>1, Successors
<1>9. n \in T /\ n \in 0 .. n BY <1>8
<1> QED BY <1>2, <1>9


LEMMA LargestTyped ==
  ASSUME NEW S, S \subseteq 1 .. 7
  PROVE  Max0(S) \in 0 .. 7 /\ (Max0(S) = 0 <=> S = {}) /\ (S # {} => Max0(S) \in S)
<1>1. CASE S = {} BY <1>1 DEF Max0
<1>2. CASE S # {}
  <2> DEFINE T == {8 - x : x \in S}
  <2>1. T \in SUBSET Nat /\ T # {}
    <3>1. \A x \in S : 8 - x \in Nat OBVIOUS
    <3>2. PICK x \in S : TRUE BY <1>2
    <3>3. 8 - x \in T OBVIOUS
    <3> QED BY <3>1, <3>3
  <2>2. PICK y \in T : \A z \in T : y <= z
    <3> HIDE DEF T
    <3> QED BY <2>1, Least
  <2>3. PICK x \in S : y = 8 - x OBVIOUS
  <2>4. \A z \in S : x >= z
    <3> TAKE z \in S
    <3>1. 8 - z \in T /\ y <= 8 - z BY <2>2
    <3> QED BY <3>1, <2>3
  <2>5. Max(S) \in S BY <2>4 DEF Max
  <2>6. Max0(S) = Max(S) BY <1>2 DEF Max0
  <2>7. Max0(S) \in 1 .. 7 /\ Max0(S) \in S BY <2>5, <2>6
  <2> QED BY <2>7, <1>2
<1> QED BY <1>1, <1>2

\* The types of the regions over an address.
TypesAt(seq, a) == {e.type : e \in {r \in Range(seq) : a \in Bytes(r)}}

LEMMA TypesAtAre ==
  ASSUME NEW S, NEW seq \in Seq(S), NEW a, NEW t
  PROVE  t \in TypesAt(seq, a) <=> \E i \in 1 .. Len(seq) : a \in Bytes(seq[i]) /\ t = seq[i].type
BY LenProperties DEF TypesAt, Range

LEMMA TypesAtTyped ==
  ASSUME NEW seq \in Seq(Region), NEW a
  PROVE  TypesAt(seq, a) \subseteq 1 .. 7 /\ TypeAt(Range(seq), a) = Max0(TypesAt(seq, a))
<1>1. TypeAt(Range(seq), a) = Max0(TypesAt(seq, a)) BY DEF TypeAt, TypesAt
<1>2. ASSUME NEW t \in TypesAt(seq, a) PROVE t \in 1 .. 7
  <2>1. PICK i \in 1 .. Len(seq) : t = seq[i].type BY TypesAtAre
  <2>2. seq[i] \in Region BY ElementOfSeq
  <2> QED BY <2>1, <2>2 DEF Region
<1> QED BY <1>1, <1>2

-----------------------------------------------------------------------------
Begins(K, p, i)   == p.ent = i /\ p.addr = K[i].base
Finishes(K, p, i) == p.ent = i /\ p.addr = End(K[i])

\* P has the two ends of each of the m regions, in the order of their addresses.
Drawn(K, P, m, n) ==
  /\ P \in [1 .. n -> Point(K)]
  /\ \A k \in 1 .. n : \E i \in 1 .. m : Begins(K, P[k], i) \/ Finishes(K, P[k], i)
  /\ \A i \in 1 .. m : \E k \in 1 .. n : Begins(K, P[k], i)
  /\ \A i \in 1 .. m : \E k \in 1 .. n : Finishes(K, P[k], i)
  /\ \A k, l \in 1 .. n : k < l => P[k].addr <= P[l].addr

LEMMA EndPointsDrawn ==
  ASSUME NEW K \in Seq(Solid), NEW m \in Nat, Len(K) = m
  PROVE  /\ EndPoints(K) \in [1 .. 2 * m -> Point(K)]
         /\ \A i \in 1 .. m : 2 * i - 1 \in 1 .. 2 * m /\ Begins(K, EndPoints(K)[2 * i - 1], i)
         /\ \A i \in 1 .. m : 2 * i \in 1 .. 2 * m /\ Finishes(K, EndPoints(K)[2 * i], i)
         /\ \A k \in 1 .. 2 * m : \E i \in 1 .. m :
              Begins(K, EndPoints(K)[k], i) \/ Finishes(K, EndPoints(K)[k], i)
<1> DEFINE E == EndPoints(K)
<1>1. ASSUME NEW k \in 1 .. 2 * m, NEW i, NEW r, i = (k + 1) \div 2, r = k % 2
      PROVE  E[k] = [ent |-> i, addr |-> IF r = 1 THEN K[i].base ELSE End(K[i])]
  BY <1>1, Zenon DEF EndPoints
<1>2. \A k \in 1 .. 2 * m : (k + 1) \div 2 \in 1 .. m OBVIOUS
<1>3. \A i \in 1 .. m : K[i] \in Solid BY ElementOfSeq
<1>4. \A i \in 1 .. m : K[i].base \in Nat /\ End(K[i]) \in Nat BY <1>3 DEF Solid, Region, End
<1>5. E = [k \in 1 .. 2 * m |-> E[k]]
  <2>1. 1 .. 2 * Len(K) = 1 .. 2 * m OBVIOUS
  <2> QED BY <2>1, Zenon DEF EndPoints
<1> HIDE DEF E
<1>6. ASSUME NEW k \in 1 .. 2 * m
      PROVE  /\ E[k] \in Point(K)
             /\ \E i \in 1 .. m : Begins(K, E[k], i) \/ Finishes(K, E[k], i)
  <2>1. PICK i \in 1 .. m : i = (k + 1) \div 2 BY <1>2
  <2>2. PICK r : r = k % 2 OBVIOUS
  <2>3. E[k] = [ent |-> i, addr |-> IF r = 1 THEN K[i].base ELSE End(K[i])] BY <1>1, <2>1, <2>2
  <2> QED BY <2>3, <1>4 DEF Point, Begins, Finishes
<1>7. E \in [1 .. 2 * m -> Point(K)] BY <1>5, <1>6
<1>8. ASSUME NEW i \in 1 .. m PROVE 2 * i - 1 \in 1 .. 2 * m /\ Begins(K, E[2 * i - 1], i)
  <2>1. PICK k \in 1 .. 2 * m : k = 2 * i - 1 OBVIOUS
  <2>2. i = (k + 1) \div 2 /\ 1 = k % 2 BY <2>1
  <2>3. E[k] = [ent |-> i, addr |-> IF 1 = 1 THEN K[i].base ELSE End(K[i])] BY <1>1, <2>2
  <2>4. Begins(K, E[k], i) BY <2>3 DEF Begins
  <2> QED BY <2>1, <2>4
<1>9. ASSUME NEW i \in 1 .. m PROVE 2 * i \in 1 .. 2 * m /\ Finishes(K, E[2 * i], i)
  <2>1. PICK k \in 1 .. 2 * m : k = 2 * i OBVIOUS
  <2>2. i = (k + 1) \div 2 /\ k % 2 = 0 BY <2>1
  <2>3. PICK r : r = k % 2 /\ r = 0 BY <2>2
  <2>4. E[k] = [ent |-> i, addr |-> IF r = 1 THEN K[i].base ELSE End(K[i])]
    BY <1>1, <2>2, <2>3
  <2>5. Finishes(K, E[k], i) BY <2>3, <2>4 DEF Finishes
  <2> QED BY <2>1, <2>5
<1>10. /\ \A i \in 1 .. m : 2 * i - 1 \in 1 .. 2 * m /\ Begins(K, E[2 * i - 1], i)
       /\ \A i \in 1 .. m : 2 * i \in 1 .. 2 * m /\ Finishes(K, E[2 * i], i)
       /\ \A k \in 1 .. 2 * m : \E i \in 1 .. m : Begins(K, E[k], i) \/ Finishes(K, E[k], i)
  BY <1>6, <1>8, <1>9, Zenon
<1> QED BY <1>7, <1>10 DEF E

LEMMA SortedDrawn ==
  ASSUME NEW K \in Seq(Solid), NEW m \in Nat, Len(K) = m
  PROVE  Drawn(K, sort_end_points(K, EndPoints(K)), m, 2 * m)
<1> DEFINE E == EndPoints(K)
           P == sort_end_points(K, E)
<1>0. PICK n \in Nat : n = 2 * m OBVIOUS
<1>1. /\ E \in [1 .. n -> Point(K)]
      /\ \A i \in 1 .. m : \E k \in 1 .. n : Begins(K, E[k], i)
      /\ \A i \in 1 .. m : \E k \in 1 .. n : Finishes(K, E[k], i)
      /\ \A k \in 1 .. n : \E i \in 1 .. m : Begins(K, E[k], i) \/ Finishes(K, E[k], i)
  <2> HIDE DEF E
  <2>1. /\ EndPoints(K) \in [1 .. 2 * m -> Point(K)]
        /\ \A i \in 1 .. m : 2 * i - 1 \in 1 .. 2 * m /\ Begins(K, EndPoints(K)[2 * i - 1], i)
        /\ \A i \in 1 .. m : 2 * i \in 1 .. 2 * m /\ Finishes(K, EndPoints(K)[2 * i], i)
        /\ \A k \in 1 .. 2 * m : \E i \in 1 .. m :
             Begins(K, EndPoints(K)[k], i) \/ Finishes(K, EndPoints(K)[k], i)
    BY EndPointsDrawn
  <2>2. \A i \in 1 .. m : \E k \in 1 .. n : Begins(K, E[k], i) BY <2>1, <1>0 DEF E
  <2>3. \A i \in 1 .. m : \E k \in 1 .. n : Finishes(K, E[k], i) BY <2>1, <1>0 DEF E
  <2> QED BY <2>1, <2>2, <2>3, <1>0 DEF E
<1> HIDE DEF E
<1>2. Placed(K, P, E, n, n) BY <1>1, SortSorts
<1> HIDE DEF P
<1>3. PICK w \in [1 .. n -> 1 .. n] :
        /\ \A i \in 1 .. n : \E k \in 1 .. n : w[k] = i
        /\ \A k \in 1 .. n : P[k] = E[w[k]]
  BY <1>2 DEF Placed, Rearranged
<1>4. P \in [1 .. n -> Point(K)] BY <1>2 DEF Placed, Rearranged
<1>5. \A k \in 1 .. n : \E i \in 1 .. m : Begins(K, P[k], i) \/ Finishes(K, P[k], i)
  BY <1>1, <1>3
<1>6. \A i \in 1 .. m : \E k \in 1 .. n : Begins(K, P[k], i)
  <2> TAKE i \in 1 .. m
  <2>1. PICK l \in 1 .. n : Begins(K, E[l], i) BY <1>1
  <2>2. PICK k \in 1 .. n : w[k] = l BY <1>3
  <2> QED BY <2>1, <2>2, <1>3
<1>7. \A i \in 1 .. m : \E k \in 1 .. n : Finishes(K, P[k], i)
  <2> TAKE i \in 1 .. m
  <2>1. PICK l \in 1 .. n : Finishes(K, E[l], i) BY <1>1
  <2>2. PICK k \in 1 .. n : w[k] = l BY <1>3
  <2> QED BY <2>1, <2>2, <1>3
<1>8. \A k, l \in 1 .. n : k < l => P[k].addr <= P[l].addr
  <2> TAKE k, l \in 1 .. n
  <2> HAVE k < l
  <2>1. ~ Later(K, P[k], P[l]) BY <1>2 DEF Placed, Ordered
  <2>2. P[k] \in Point(K) /\ P[l] \in Point(K) BY <1>4
  <2>3. P[k].addr \in Nat /\ P[l].addr \in Nat BY <2>2 DEF Point
  <2>4. ~ (P[k].addr > P[l].addr) BY <2>1 DEF Later
  <2> QED BY <2>3, <2>4
<1>9. Drawn(K, P, m, n) BY <1>4, <1>5, <1>6, <1>7, <1>8 DEF Drawn
<1> QED BY <1>9, <1>0 DEF P, E

-----------------------------------------------------------------------------
\* The regions that have begun among the first k points, and have not ended.
OpenAt(K, P, k, m) ==
  {i \in 1 .. m : /\ \E l \in 1 .. k : Begins(K, P[l], i)
                  /\ \A l \in 1 .. k : ~ Finishes(K, P[l], i)}

LEMMA OpenCovers ==
  ASSUME NEW K \in Seq(Solid), NEW m \in Nat, Len(K) = m, NEW n \in Nat, NEW P, Drawn(K, P, m, n),
         NEW k \in 0 .. n - 1, NEW a \in Nat, k # 0 => P[k].addr <= a, a < P[k + 1].addr
  PROVE  OpenAt(K, P, k, m) = {i \in 1 .. m : a \in Bytes(K[i])}
<1>1. \A l \in 1 .. n : P[l].addr \in Nat BY DEF Drawn, Point
<1>2. \A l \in 1 .. k : l \in 1 .. n /\ P[l].addr <= a
  <2> TAKE l \in 1 .. k
  <2>1. l \in 1 .. n /\ k \in 1 .. n OBVIOUS
  <2>2. l = k \/ P[l].addr <= P[k].addr BY <2>1 DEF Drawn
  <2> QED BY <2>1, <2>2, <1>1
<1>3. \A l \in 1 .. n : l \notin 1 .. k => a < P[l].addr
  <2> TAKE l \in 1 .. n
  <2> HAVE l \notin 1 .. k
  <2>1. PICK j \in 1 .. n : j = k + 1 OBVIOUS
  <2>2. l = j \/ P[j].addr <= P[l].addr BY <2>1 DEF Drawn
  <2>3. a < P[j].addr BY <2>1
  <2> QED BY <2>2, <2>3, <1>1
<1>4. \A i \in 1 .. m : K[i].base \in Nat /\ End(K[i]) \in Nat
  <2> TAKE i \in 1 .. m
  <2>1. K[i] \in Solid BY ElementOfSeq
  <2> QED BY <2>1 DEF Solid, Region, End
<1>5. ASSUME NEW i \in 1 .. m, i \in OpenAt(K, P, k, m) PROVE a \in Bytes(K[i])
  <2>1. PICK l \in 1 .. k : Begins(K, P[l], i) BY <1>5 DEF OpenAt
  <2>2. K[i].base <= a BY <2>1, <1>2 DEF Begins
  <2>3. PICK q \in 1 .. n : Finishes(K, P[q], i) BY DEF Drawn
  <2>4. q \notin 1 .. k BY <2>3, <1>5 DEF OpenAt
  <2>5. a < End(K[i]) BY <2>3, <2>4, <1>3 DEF Finishes
  <2> QED BY <2>2, <2>5, <1>4 DEF Bytes
<1>6. ASSUME NEW i \in 1 .. m, a \in Bytes(K[i]) PROVE i \in OpenAt(K, P, k, m)
  <2>1. K[i].base <= a /\ a < End(K[i]) BY <1>6, <1>4 DEF Bytes
  <2>2. PICK l \in 1 .. n : Begins(K, P[l], i) BY DEF Drawn
  <2>3. l \in 1 .. k
    <3>1. l \notin 1 .. k => a < K[i].base BY <2>2, <1>3 DEF Begins
    <3> QED BY <3>1, <2>1, <1>4
  <2>4. ASSUME NEW q \in 1 .. k, Finishes(K, P[q], i) PROVE FALSE
    <3>1. P[q].addr <= a /\ P[q].addr = End(K[i]) BY <2>4, <1>2 DEF Finishes
    <3> QED BY <3>1, <2>1, <1>4
  <2> QED BY <2>2, <2>3, <2>4 DEF OpenAt
<1>7. OpenAt(K, P, k, m) \subseteq 1 .. m BY DEF OpenAt
<1> QED BY <1>5, <1>6, <1>7

\* What point j makes of the open regions
Turns(K, P, j, m) ==
  /\ P[j].ent \in 1 .. m
  /\ OpenAt(K, P, j, m) =
       IF P[j].addr = K[P[j].ent].base THEN OpenAt(K, P, j - 1, m) \cup {P[j].ent}
                                       ELSE OpenAt(K, P, j - 1, m) \ {P[j].ent}

LEMMA OpenSteps ==
  ASSUME NEW K \in Seq(Solid), NEW m \in Nat, Len(K) = m, NEW n \in Nat, NEW P, Drawn(K, P, m, n),
         NEW j \in 1 .. n
  PROVE  Turns(K, P, j, m)
<1>1. PICK k \in 0 .. n - 1 : j = k + 1 /\ j - 1 = k OBVIOUS
<1>2. PICK i \in 1 .. m : Begins(K, P[j], i) \/ Finishes(K, P[j], i) BY DEF Drawn
<1>3. P[j].ent = i BY <1>2 DEF Begins, Finishes
<1>4. K[i].base \in Nat /\ End(K[i]) \in Nat /\ K[i].base < End(K[i])
  <2>1. K[i] \in Solid BY ElementOfSeq
  <2> QED BY <2>1 DEF Solid, Region, End
<1>5. \A l : l \in 1 .. j <=> l \in 1 .. k \/ l = j BY <1>1
<1>6. \A h \in 1 .. m : h # i => (h \in OpenAt(K, P, j, m) <=> h \in OpenAt(K, P, k, m))
  BY <1>3, <1>5 DEF OpenAt, Begins, Finishes
<1>7. CASE P[j].addr = K[i].base
  <2>1. Begins(K, P[j], i) /\ ~ Finishes(K, P[j], i) BY <1>3, <1>4, <1>7 DEF Begins, Finishes
  <2>2. ASSUME NEW l \in 1 .. k, Finishes(K, P[l], i) PROVE FALSE
    <3>1. l \in 1 .. n /\ l < j BY <1>1
    <3>2. P[l].addr <= P[j].addr BY <3>1 DEF Drawn
    <3> QED BY <3>2, <2>2, <1>7, <1>4 DEF Finishes
  <2>3. i \in OpenAt(K, P, j, m) BY <2>1, <2>2, <1>5 DEF OpenAt
  <2>4. OpenAt(K, P, j, m) \subseteq 1 .. m /\ OpenAt(K, P, k, m) \subseteq 1 .. m BY DEF OpenAt
  <2>5. OpenAt(K, P, j, m) = OpenAt(K, P, k, m) \cup {i} BY <1>6, <2>3, <2>4
  <2> QED BY <2>5, <1>1, <1>3, <1>7 DEF Turns
<1>8. CASE P[j].addr # K[i].base
  <2>1. Finishes(K, P[j], i) BY <1>2, <1>8 DEF Begins
  <2>2. i \notin OpenAt(K, P, j, m) BY <2>1, <1>5 DEF OpenAt
  <2>4. OpenAt(K, P, j, m) \subseteq 1 .. m /\ OpenAt(K, P, k, m) \subseteq 1 .. m BY DEF OpenAt
  <2>5. OpenAt(K, P, j, m) = OpenAt(K, P, k, m) \ {i} BY <1>6, <2>2, <2>4
  <2> QED BY <2>5, <1>1, <1>3, <1>8 DEF Turns
<1> QED BY <1>7, <1>8


\* The address that the sweep has come to after k points.
Frontier(P, k) == IF k = 0 THEN 0 ELSE P[k].addr

Under(out, b) == \A j \in 1 .. Len(out) : End(out[j]) <= b

\* In order, and apart.
Ascending(out) == \A i, j \in 1 .. Len(out) : i < j => End(out[i]) <= out[j].base

\* The type of an address that the sweep has passed.
TypeBy(type, addr, out, a) == IF type # 0 /\ a >= addr THEN type ELSE TypeAt(Range(out), a)

\* What the sweep has completed when it has come to address b, k points on.
Whole(K, type, addr, out, k, b) ==
  /\ out \in Seq(Solid) /\ Len(out) <= k /\ (k # 0 => Len(out) < k)
  /\ Under(out, b) /\ (type # 0 => Under(out, addr)) /\ Ascending(out)
  /\ \A a \in Nat : a < b => TypeAt(Range(K), a) = TypeBy(type, addr, out, a)

SweepState(m) == [open : SUBSET (1 .. m), type : 0 .. 7, addr : Nat, out : Seq(Solid)]

\* The sweep is k points on.
Swept(K, P, s, k, m) ==
  /\ s \in SweepState(m)
  /\ s.open = OpenAt(K, P, k, m)
  /\ s.type = OpenType(K, s.open)
  /\ s.addr <= Frontier(P, k)
  /\ Whole(K, s.type, s.addr, s.out, k, Frontier(P, k))

LEMMA NothingAbove ==
  ASSUME NEW out \in Seq(Solid), NEW b \in Nat, Under(out, b), NEW a \in Nat, b <= a
  PROVE  TypeAt(Range(out), a) = 0
<1>1. out \in Seq(Region) BY SeqMonotonic DEF Solid
<1>2. TypesAt(out, a) = {}
  <2> SUFFICES ASSUME NEW t \in TypesAt(out, a) PROVE FALSE OBVIOUS
  <2>1. PICK i \in 1 .. Len(out) : a \in Bytes(out[i]) BY TypesAtAre
  <2>2. out[i] \in Solid BY ElementOfSeq
  <2>3. End(out[i]) \in Nat /\ End(out[i]) <= a BY <2>2 DEF Solid, Region, End, Under
  <2> QED BY <2>1, <2>2, <2>3 DEF Bytes, Solid, Region
<1> QED BY <1>1, <1>2, TypesAtTyped, LargestTyped

\* The types in more are those in out, but for region e.
Adds(out, e, more, a) ==
  /\ a \in Bytes(e) => TypeAt(Range(more), a) = e.type
  /\ a \notin Bytes(e) => TypeAt(Range(more), a) = TypeAt(Range(out), a)

LEMMA OneMore ==
  ASSUME NEW out \in Seq(Solid), NEW e \in Solid, NEW a \in Nat, Under(out, e.base),
         NEW more, more = Append(out, e)
  PROVE  Adds(out, e, more, a)
<1>1. PICK l \in Nat : Len(out) = l BY LenProperties
<1>2. PICK x \in Seq(Solid) :
        x = more /\ Len(x) = l + 1 /\ x[l + 1] = e /\ \A i \in 1 .. l : x[i] = out[i]
  BY <1>1, AppendProperties
<1>3. out \in Seq(Region) /\ x \in Seq(Region) BY <1>2, SeqMonotonic DEF Solid
<1>4. e.base \in Nat /\ e.type \in 1 .. 7 BY DEF Solid, Region
<1>5. CASE a \in Bytes(e)
  <2>1. \A i \in 1 .. l : a \notin Bytes(out[i])
    <3> TAKE i \in 1 .. l
    <3>1. out[i] \in Solid /\ End(out[i]) <= e.base BY <1>1, ElementOfSeq DEF Under
    <3>2. End(out[i]) \in Nat /\ out[i].base \in Nat BY <3>1 DEF Solid, Region, End
    <3>3. a >= e.base BY <1>5, <1>4 DEF Bytes
    <3> QED BY <3>1, <3>2, <3>3, <1>4 DEF Bytes
  <2>2. ASSUME NEW t PROVE t \in TypesAt(x, a) <=> t = e.type
    <3>1. t \in TypesAt(x, a) <=> \E i \in 1 .. l + 1 : a \in Bytes(x[i]) /\ t = x[i].type
      <4>1. t \in TypesAt(x, a) <=> \E i \in 1 .. Len(x) : a \in Bytes(x[i]) /\ t = x[i].type
        BY TypesAtAre
      <4> QED BY <4>1, <1>2
    <3>2. \A i \in 1 .. l + 1 : i = l + 1 \/ i \in 1 .. l BY <1>1
    <3>3. l + 1 \in 1 .. l + 1 BY <1>1
    <3> QED BY <3>1, <3>2, <3>3, <2>1, <1>2, <1>5
  <2>3. TypesAt(x, a) = {e.type} BY <2>2
  <2>4. Max0({e.type}) = e.type
    <3>1. {e.type} \subseteq 1 .. 7 /\ {e.type} # {} BY <1>4
    <3>2. Max0({e.type}) \in {e.type} BY <3>1, LargestTyped
    <3> QED BY <3>2
  <2>5. TypeAt(Range(x), a) = e.type BY <2>3, <2>4, <1>3, TypesAtTyped
  <2> QED BY <2>5, <1>2, <1>5 DEF Adds
<1>6. CASE a \notin Bytes(e)
  <2>1. ASSUME NEW t PROVE t \in TypesAt(x, a) <=> t \in TypesAt(out, a)
    <3>1. t \in TypesAt(x, a) <=> \E i \in 1 .. l + 1 : a \in Bytes(x[i]) /\ t = x[i].type
      <4>1. t \in TypesAt(x, a) <=> \E i \in 1 .. Len(x) : a \in Bytes(x[i]) /\ t = x[i].type
        BY TypesAtAre
      <4> QED BY <4>1, <1>2
    <3>2. t \in TypesAt(out, a) <=> \E i \in 1 .. l : a \in Bytes(out[i]) /\ t = out[i].type
      <4>1. t \in TypesAt(out, a) <=>
              \E i \in 1 .. Len(out) : a \in Bytes(out[i]) /\ t = out[i].type
        BY TypesAtAre
      <4> QED BY <4>1, <1>1
    <3>3. \A i : i \in 1 .. l + 1 <=> i = l + 1 \/ i \in 1 .. l BY <1>1
    <3> QED BY <3>1, <3>2, <3>3, <1>2, <1>6
  <2>2. TypesAt(x, a) = TypesAt(out, a) BY <2>1
  <2>3. TypeAt(Range(x), a) = TypeAt(Range(out), a) BY <2>2, <1>3, TypesAtTyped
  <2> QED BY <2>3, <1>2, <1>6 DEF Adds
<1> QED BY <1>5, <1>6

LEMMA OpenTypes ==
  ASSUME NEW K \in Seq(Solid), NEW m \in Nat, Len(K) = m, NEW O \in SUBSET (1 .. m)
  PROVE  /\ OpenType(K, O) \in 0 .. 7
         /\ \A a \in Nat : O = {i \in 1 .. m : a \in Bytes(K[i])} =>
                             TypeAt(Range(K), a) = OpenType(K, O)
<1>1. {K[i].type : i \in O} \subseteq 1 .. 7
  <2>1. \A i \in 1 .. m : K[i] \in Solid BY ElementOfSeq
  <2> QED BY <2>1 DEF Solid, Region
<1>2. OpenType(K, O) \in 0 .. 7 BY <1>1, LargestTyped DEF OpenType
<1>3. ASSUME NEW a \in Nat, O = {i \in 1 .. m : a \in Bytes(K[i])}
      PROVE  TypeAt(Range(K), a) = OpenType(K, O)
  <2>1. K \in Seq(Region) BY SeqMonotonic DEF Solid
  <2>2. \A t : t \in TypesAt(K, a) <=> \E i \in 1 .. m : a \in Bytes(K[i]) /\ t = K[i].type
    BY TypesAtAre
  <2>3. TypesAt(K, a) = {K[i].type : i \in O} BY <2>2, <1>3
  <2> QED BY <2>1, <2>3, TypesAtTyped DEF OpenType
<1> QED BY <1>2, <1>3

Unchanging(K, c, b, t) == \A a \in Nat : c <= a /\ a < b => TypeAt(Range(K), a) = t

\* What Sweep makes of the type, the address and the entries.
Emits(t, A, o, b, type, addr, done, out) ==
  /\ addr = IF type # t /\ type # 0 THEN b ELSE A
  /\ done = IF t # 0 /\ b > A THEN << [base |-> A, limit |-> b - A, type |-> t] >> ELSE << >>
  /\ out = IF type # t THEN o \o done ELSE o

LEMMA WholeStep ==
  ASSUME NEW K, NEW t \in 0 .. 7, NEW A \in Nat, NEW o, NEW k \in Nat,
         NEW c \in Nat, A <= c, Whole(K, t, A, o, k, c), k = 0 => t = 0,
         NEW b \in Nat, c <= b, Unchanging(K, c, b, t),
         NEW type \in 0 .. 7, NEW addr, NEW done, NEW out,
         Emits(t, A, o, b, type, addr, done, out), NEW j \in Nat, j = k + 1
  PROVE  Whole(K, type, addr, out, j, b)
<1> USE DEF Emits
<1>2. o \in Seq(Solid) /\ Under(o, c) /\ (t # 0 => Under(o, A)) /\ Ascending(o) BY DEF Whole
<1>3. \A a \in Nat : a < c => TypeAt(Range(K), a) = TypeBy(t, A, o, a) BY DEF Whole
<1>4. PICK l \in Nat : Len(o) = l /\ l <= k /\ (k # 0 => l < k) BY <1>2, LenProperties DEF Whole
<1>5. ASSUME NEW a \in Nat, a < b PROVE TypeAt(Range(K), a) = TypeBy(t, A, o, a)
  <2>1. CASE a < c BY <2>1, <1>3
  <2>2. CASE ~ (a < c)
    <3>1. c <= a BY <2>2
    <3>2. TypeAt(Range(K), a) = t BY <3>1, <1>5 DEF Unchanging
    <3>3. TypeAt(Range(o), a) = 0 BY <3>1, <1>2, NothingAbove
    <3>4. a >= A BY <3>1
    <3> QED BY <3>2, <3>3, <3>4 DEF TypeBy
  <2> QED BY <2>1, <2>2
<1>6. Under(o, b)
  <2>1. \A i \in 1 .. l : End(o[i]) \in Nat
    <3> TAKE i \in 1 .. l
    <3>1. o[i] \in Solid BY <1>2, <1>4, ElementOfSeq
    <3> QED BY <3>1 DEF Solid, Region, End
  <2> QED BY <2>1, <1>2, <1>4 DEF Under
<1>7. Len(o) < j /\ Len(o) <= j BY <1>4
<1>8. CASE type = t
  <2>1. out = o /\ addr = A BY <1>8
  <2>2. \A a \in Nat : a < b => TypeAt(Range(K), a) = TypeBy(type, addr, out, a) BY <2>1, <1>5, <1>8
  <2>3. Whole(K, type, addr, out, j, b) BY <2>1, <2>2, <1>2, <1>4, <1>6, <1>7, <1>8 DEF Whole
  <2> QED BY <2>3
<1>9. CASE type # t /\ ~ (t # 0 /\ b > A)
  <2>1. out = o
    <3>1. done = <<>> BY <1>9
    <3> QED BY <3>1, <1>2, <1>9, ConcatEmptySeq
  <2>2. type # 0 => addr = b BY <1>9
  <2>3. ASSUME NEW a \in Nat, a < b PROVE TypeAt(Range(K), a) = TypeBy(type, addr, out, a)
    <3>1. ~ (type # 0 /\ a >= addr) BY <2>2, <2>3
    <3>2. ~ (t # 0 /\ a >= A) BY <2>3, <1>9
    <3>3. TypeAt(Range(K), a) = TypeBy(t, A, o, a) BY <2>3, <1>5
    <3> QED BY <3>1, <3>2, <3>3, <2>1 DEF TypeBy
  <2>4. Whole(K, type, addr, out, j, b) BY <2>1, <2>2, <2>3, <1>2, <1>4, <1>6, <1>7 DEF Whole
  <2> QED BY <2>4
<1>10. CASE type # t /\ t # 0 /\ b > A
  <2>1. PICK e : e = [base |-> A, limit |-> b - A, type |-> t] OBVIOUS
  <2>2. e \in Solid
    <3>1. t \in 1 .. 7 /\ b - A \in Nat /\ b - A # 0 BY <1>10
    <3> QED BY <2>1, <3>1 DEF Solid, Region
  <2>3. e.base = A /\ End(e) = b /\ e.type = t BY <2>1 DEF End
  <2>4. out = Append(o, e)
    <3>1. done = <<e>> BY <2>1, <1>10
    <3> QED BY <3>1, <2>2, <1>2, <1>10, AppendIsConcat
  <2>5. Under(o, A) /\ Under(o, e.base) BY <2>3, <1>2, <1>10
  <2>6. /\ out \in Seq(Solid) /\ Len(out) = l + 1 /\ out[l + 1] = e
        /\ \A i \in 1 .. l : out[i] = o[i]
    BY <2>2, <2>4, <1>2, <1>4, AppendProperties
  <2>7. Len(out) < j BY <2>6, <1>4, <1>10
  <2>8. type # 0 => addr = b BY <1>10
  <2>9. Under(out, b)
    <3>1. \A i \in 1 .. l + 1 : i \in 1 .. l \/ i = l + 1 BY <1>4
    <3> QED BY <3>1, <2>3, <2>6, <1>4, <1>6 DEF Under
  <2>10. Ascending(out)
    <3> SUFFICES ASSUME NEW h \in 1 .. l + 1, NEW i \in 1 .. l + 1, h < i
                 PROVE  End(out[h]) <= out[i].base
      BY <2>6 DEF Ascending
    <3>1. h \in 1 .. l BY <1>4
    <3>2. CASE i = l + 1 BY <3>1, <3>2, <2>5, <2>6, <1>4 DEF Under
    <3>3. CASE i # l + 1
      <4>1. i \in 1 .. l BY <3>3, <1>4
      <4> QED BY <3>1, <4>1, <2>6, <1>2, <1>4 DEF Ascending
    <3> QED BY <3>2, <3>3
  <2>11. ASSUME NEW a \in Nat, a < b PROVE TypeAt(Range(K), a) = TypeBy(type, addr, out, a)
    <3>0. Adds(o, e, out, a) BY <2>2, <2>4, <2>5, <1>2, OneMore
    <3>1. ~ (type # 0 /\ a >= addr) BY <2>8, <2>11
    <3>2. a \in Bytes(e) <=> a >= A BY <2>3, <2>11 DEF Bytes
    <3>3. TypeAt(Range(K), a) = TypeBy(t, A, o, a) BY <2>11, <1>5
    <3>4. CASE a >= A
      <4>1. TypeAt(Range(out), a) = t BY <3>2, <3>4, <3>0, <2>3 DEF Adds
      <4> QED BY <4>1, <3>1, <3>3, <3>4, <1>10 DEF TypeBy
    <3>5. CASE ~ (a >= A)
      <4>1. TypeAt(Range(out), a) = TypeAt(Range(o), a) BY <3>2, <3>5, <3>0 DEF Adds
      <4> QED BY <4>1, <3>1, <3>3, <3>5 DEF TypeBy
    <3> QED BY <3>4, <3>5
  <2>12. Len(out) <= j BY <2>6, <2>7, <1>4
  <2>13. type # 0 => Under(out, addr) BY <2>8, <2>9
  <2>14. Whole(K, type, addr, out, j, b)
    BY <2>6, <2>7, <2>9, <2>10, <2>11, <2>12, <2>13 DEF Whole
  <2> QED BY <2>14
<1> QED BY <1>8, <1>9, <1>10

LEMMA SweepStep ==
  ASSUME NEW K \in Seq(Solid), NEW m \in Nat, Len(K) = m, NEW n \in Nat, NEW P, Drawn(K, P, m, n),
         NEW k \in 0 .. n - 1, NEW s, Swept(K, P, s, k, m), k <= MaxE820
  PROVE  Swept(K, P, Sweep(K, s, P[k + 1]), k + 1, m)
<1>1. PICK j \in 1 .. n : j = k + 1 OBVIOUS
<1>2. PICK p \in Point(K) : p = P[j] BY DEF Drawn
<1>3. PICK b \in Nat : b = p.addr /\ p.ent \in 1 .. m BY <1>2 DEF Point
<1>4. PICK c \in Nat : c = Frontier(P, k) /\ c <= b /\ (k # 0 => c = P[k].addr)
  <2>1. CASE k = 0 BY <2>1, <1>3 DEF Frontier
  <2>2. CASE k # 0
    <3>1. k \in 1 .. n /\ k < j BY <1>1, <2>2
    <3>2. P[k].addr <= P[j].addr /\ P[k].addr \in Nat BY <3>1 DEF Drawn, Point
    <3> QED BY <2>2, <3>2, <1>2, <1>3 DEF Frontier
  <2> QED BY <2>1, <2>2
<1>5. Frontier(P, j) = b BY <1>2, <1>3 DEF Frontier
<1>6. PICK t \in 0 .. 7 : t = s.type BY DEF Swept, SweepState
<1>7. PICK A \in Nat : A = s.addr /\ A <= c BY <1>4 DEF Swept, SweepState
<1>8. PICK o \in Seq(Solid) : o = s.out BY DEF Swept, SweepState
<1>9. PICK O \in SUBSET (1 .. m) : O = s.open BY DEF Swept, SweepState
<1>10. O = OpenAt(K, P, k, m) /\ t = OpenType(K, O) /\ Whole(K, t, A, o, k, c)
  BY <1>4, <1>6, <1>7, <1>8, <1>9 DEF Swept
<1>11. PICK open \in SUBSET (1 .. m) :
         open = IF p.addr = K[p.ent].base THEN O \cup {p.ent} ELSE O \ {p.ent}
  BY <1>3
<1>12. open = OpenAt(K, P, j, m)
  <2>1. Turns(K, P, j, m) BY OpenSteps
  <2>2. j - 1 = k BY <1>1
  <2> QED BY <2>1, <2>2, <1>2, <1>10, <1>11 DEF Turns
<1>13. PICK type \in 0 .. 7 : type = OpenType(K, open) BY OpenTypes
<1>14. PICK done : done = IF t # 0 /\ b > A
                           THEN << [base |-> A, limit |-> b - A, type |-> t] >> ELSE << >>
  OBVIOUS
<1>15. PICK addr \in Nat : addr = IF type # t /\ type # 0 THEN b ELSE A OBVIOUS
<1>16. PICK out : out = IF type # t THEN o \o done ELSE o OBVIOUS
<1>17. PICK u : u = [open |-> open, type |-> type, addr |-> addr, out |-> out] OBVIOUS
<1>18. Sweep(K, s, p) = u
  <2>1. ~ (Len(o) > MaxE820)
    <3>1. PICK l \in Nat : l = Len(o) /\ l <= k BY <1>10, LenProperties DEF Whole
    <3> QED BY <3>1, MemblockAssumption
  <2> QED BY <2>1, <1>3, <1>6, <1>7, <1>8, <1>9, <1>11, <1>13, <1>14, <1>15, <1>16, <1>17, Zenon
      DEF Sweep
\* Between the two points nothing begins or ends.
<1>19. ASSUME NEW a \in Nat, c <= a, a < b PROVE TypeAt(Range(K), a) = t
  <2>1. OpenAt(K, P, k, m) = {i \in 1 .. m : a \in Bytes(K[i])}
    <3>1. k # 0 => P[k].addr <= a BY <1>4, <1>19
    <3>2. a < P[k + 1].addr BY <1>1, <1>2, <1>3, <1>19
    <3> QED BY <3>1, <3>2, OpenCovers
  <2> QED BY <2>1, <1>10, OpenTypes
<1>20. k = 0 => t = 0
  <2> SUFFICES ASSUME k = 0 PROVE t = 0 OBVIOUS
  <2>1. O = {} BY <1>10 DEF OpenAt
  <2>2. {K[i].type : i \in O} = {} BY <2>1
  <2> QED BY <2>2, <1>10 DEF OpenType, Max0
<1>21. Whole(K, type, addr, out, j, b)
  <2>1. Emits(t, A, o, b, type, addr, done, out) BY <1>14, <1>15, <1>16 DEF Emits
  <2>2. Unchanging(K, c, b, t) BY <1>19 DEF Unchanging
  <2>3. k \in Nat /\ j \in Nat OBVIOUS
  <2> QED BY <2>1, <2>2, <2>3, <1>1, <1>4, <1>7, <1>10, <1>20, WholeStep
<1>22. addr <= b BY <1>4, <1>7, <1>15
<1>23. Swept(K, P, u, j, m)
  <2>1. u \in SweepState(m) BY <1>17, <1>21 DEF SweepState, Whole
  <2>2. u.open = open /\ u.type = type /\ u.addr = addr /\ u.out = out BY <1>17
  <2> QED BY <2>1, <2>2, <1>5, <1>12, <1>13, <1>21, <1>22 DEF Swept
<1> QED BY <1>1, <1>2, <1>18, <1>23


LEMMA SweepTyped ==
  ASSUME NEW K \in Seq(Solid), NEW m \in Nat, Len(K) = m, NEW s \in SweepState(m),
         NEW p \in Point(K)
  PROVE  Sweep(K, s, p) \in SweepState(m)
<1>1. PICK b \in Nat : b = p.addr /\ p.ent \in 1 .. m BY DEF Point
<1>2. PICK t \in 0 .. 7 : t = s.type BY DEF SweepState
<1>3. PICK A \in Nat : A = s.addr BY DEF SweepState
<1>4. PICK o \in Seq(Solid) : o = s.out BY DEF SweepState
<1>5. PICK O \in SUBSET (1 .. m) : O = s.open BY DEF SweepState
<1>6. PICK open \in SUBSET (1 .. m) :
        open = IF p.addr = K[p.ent].base THEN O \cup {p.ent} ELSE O \ {p.ent}
  BY <1>1
<1>7. PICK type \in 0 .. 7 : type = OpenType(K, open) BY OpenTypes
<1>8. PICK done : done = IF t # 0 /\ b > A
                          THEN << [base |-> A, limit |-> b - A, type |-> t] >> ELSE << >>
  OBVIOUS
<1>9. PICK addr \in Nat : addr = IF type # t /\ type # 0 THEN b ELSE A OBVIOUS
<1>10. PICK out : out = IF type # t THEN o \o done ELSE o OBVIOUS
<1>11. out \in Seq(Solid)
  <2>1. done \in Seq(Solid)
    <3>1. CASE t # 0 /\ b > A
      <4>1. PICK e : e = [base |-> A, limit |-> b - A, type |-> t] OBVIOUS
      <4>2. t \in 1 .. 7 /\ b - A \in Nat /\ b - A # 0 BY <3>1
      <4>3. e \in Solid BY <4>1, <4>2 DEF Solid, Region
      <4>4. done = <<e>> BY <3>1, <4>1, <1>8
      <4> QED BY <4>3, <4>4
    <3>2. CASE ~ (t # 0 /\ b > A) BY <3>2, <1>8, EmptySeq
    <3> QED BY <3>1, <3>2
  <2> QED BY <2>1, <1>10, ConcatProperties
<1>12. PICK u : u = [open |-> open, type |-> type, addr |-> addr, out |-> out] OBVIOUS
<1>13. u \in SweepState(m) BY <1>11, <1>12 DEF SweepState
<1>14. Sweep(K, s, p) = s \/ Sweep(K, s, p) = u
  BY <1>1, <1>2, <1>3, <1>4, <1>5, <1>6, <1>7, <1>8, <1>9, <1>10, <1>12, Zenon DEF Sweep
<1> QED BY <1>13, <1>14

Sweeping(K, P, n, f) ==
  f = [i \in 0 .. n |-> IF i = 0 THEN NoSegment ELSE Sweep(K, f[i - 1], P[i])]

LEMMA SweepingExists ==
  ASSUME NEW K \in Seq(Solid), NEW m \in Nat, Len(K) = m, NEW n \in Nat, NEW P \in [1 .. n -> Point(K)]
  PROVE  \E f : Sweeping(K, P, n, f)
<1> DEFINE X == SweepState(m)
           next == [ix \in (1 .. n) \X X |-> Sweep(K, ix[2], P[ix[1]])]
<1>1. NoSegment \in X
  <2>1. <<>> \in Seq(Solid) BY EmptySeq
  <2> QED BY <2>1 DEF SweepState, NoSegment
<1>2. \A i \in 1 .. n, x \in X : next[<<i, x>>] = Sweep(K, x, P[i])
  <2> TAKE i \in 1 .. n, x \in X
  <2>1. <<i, x>> \in (1 .. n) \X X OBVIOUS
  <2> QED BY <2>1
<1>3. \A i \in 1 .. n, x \in X : Sweep(K, x, P[i]) \in X
  <2> TAKE i \in 1 .. n, x \in X
  <2>1. P[i] \in Point(K) OBVIOUS
  <2> QED BY <2>1, SweepTyped
<1> HIDE DEF X, next
<1>4. Stepping(next, X, n) BY <1>2, <1>3 DEF Stepping
<1>5. PICK f \in [0 .. n -> X] : Follows(f, NoSegment, next, n) BY <1>1, <1>4, Recursion
<1>6. \A i \in 0 .. n : f[i] = IF i = 0 THEN NoSegment ELSE Sweep(K, f[i - 1], P[i])
  <2> TAKE i \in 0 .. n
  <2>1. i # 0 => i \in 1 .. n /\ f[i - 1] \in X OBVIOUS
  <2> QED BY <2>1, <1>2, <1>5 DEF Follows
<1>7. f = [i \in 0 .. n |-> f[i]] OBVIOUS
<1>8. f = [i \in 0 .. n |-> IF i = 0 THEN NoSegment ELSE Sweep(K, f[i - 1], P[i])] BY <1>6, <1>7
<1> QED BY <1>8 DEF Sweeping

\* What the list of regions `clean` says of memory is what `table` says.
SameMemory(clean, table) == \A a \in Nat : TypeAt(Range(clean), a) = TypeAt(Range(table), a)

SweptOut(K, out) == out \in Seq(Solid) /\ Ascending(out) /\ SameMemory(out, K)

\* The sweep, from the first point to the last.
LEMMA SweepAll ==
  ASSUME NEW K \in Seq(Solid), NEW m \in Nat, Len(K) = m, NEW n \in Nat, NEW P, Drawn(K, P, m, n),
         n <= MaxE820 + 1, NEW f, Sweeping(K, P, n, f)
  PROVE  SweptOut(K, f[n].out)
<1>1. \A i \in 0 .. n : f[i] = IF i = 0 THEN NoSegment ELSE Sweep(K, f[i - 1], P[i])
  BY DEF Sweeping
<1> DEFINE T == {k \in Nat : k <= n => Swept(K, P, f[k], k, m)}
<1>2. 0 \in T
  <2>1. f[0] = NoSegment BY <1>1
  <2>2. <<>> \in Seq(Solid) /\ Len(<<>>) = 0 BY EmptySeq
  <2>3. NoSegment \in SweepState(m) BY <2>2 DEF SweepState, NoSegment
  <2>4. OpenAt(K, P, 0, m) = {} BY DEF OpenAt
  <2>5. OpenType(K, {}) = 0
    <3>1. {K[i].type : i \in {}} = {} OBVIOUS
    <3> QED BY <3>1 DEF OpenType, Max0
  <2>6. Whole(K, 0, 0, <<>>, 0, 0)
    <3>1. Under(<<>>, 0) /\ Ascending(<<>>) BY <2>2 DEF Under, Ascending
    <3>2. \A a \in Nat : ~ (a < 0) OBVIOUS
    <3> QED BY <2>2, <3>1, <3>2 DEF Whole
  <2>7. Frontier(P, 0) = 0 BY DEF Frontier
  <2>8. Swept(K, P, NoSegment, 0, m) BY <2>3, <2>4, <2>5, <2>6, <2>7 DEF Swept, NoSegment
  <2> QED BY <2>1, <2>8
<1>3. ASSUME NEW k \in T PROVE k + 1 \in T
  <2> SUFFICES ASSUME k + 1 <= n PROVE Swept(K, P, f[k + 1], k + 1, m) OBVIOUS
  <2>1. k \in 0 .. n - 1 /\ k <= MaxE820 BY MemblockAssumption
  <2>2. Swept(K, P, f[k], k, m) BY <2>1
  <2>3. f[k + 1] = Sweep(K, f[k], P[k + 1])
    <3>1. k + 1 \in 0 .. n /\ k + 1 # 0 /\ k + 1 - 1 = k BY <2>1
    <3> QED BY <3>1, <1>1
  <2> HIDE DEF T
  <2>4. Swept(K, P, Sweep(K, f[k], P[k + 1]), k + 1, m) BY <2>1, <2>2, SweepStep
  <2> QED BY <2>3, <2>4
<1>4. T = Nat
  <2> HIDE DEF T
  <2>1. T \in SUBSET Nat BY DEF T
  <2> QED BY <1>2, <1>3, <2>1, Successors
<1>5. Swept(K, P, f[n], n, m)
  <2>1. n \in T /\ n <= n BY <1>4
  <2> QED BY <2>1
<1> HIDE DEF T
<1>6. PICK s : s = f[n] OBVIOUS
<1>7. PICK c \in Nat : c = Frontier(P, n)
  <2>1. n # 0 => P[n].addr \in Nat BY DEF Drawn, Point
  <2> QED BY <2>1 DEF Frontier
<1>8. s.out \in Seq(Solid) /\ Under(s.out, c) /\ Ascending(s.out) BY <1>5, <1>6, <1>7 DEF Swept, Whole
<1>9. s.type = 0
  <2>1. OpenAt(K, P, n, m) = {} BY DEF OpenAt, Drawn
  <2>2. {K[i].type : i \in {}} = {} OBVIOUS
  <2> QED BY <2>1, <2>2, <1>5, <1>6 DEF Swept, OpenType, Max0
<1>10. Under(K, c)
  <2> SUFFICES ASSUME NEW i \in 1 .. m PROVE End(K[i]) <= c BY DEF Under
  <2>1. PICK k \in 1 .. n : Finishes(K, P[k], i) BY DEF Drawn
  <2>2. c = P[n].addr /\ n \in 1 .. n BY <2>1, <1>7 DEF Frontier
  <2>3. k = n \/ P[k].addr <= P[n].addr BY <2>2 DEF Drawn
  <2> QED BY <2>1, <2>2, <2>3 DEF Finishes
<1>11. SameMemory(s.out, K)
  <2> SUFFICES ASSUME NEW a \in Nat PROVE TypeAt(Range(s.out), a) = TypeAt(Range(K), a)
    BY DEF SameMemory
  <2>1. CASE a < c BY <2>1, <1>5, <1>6, <1>7, <1>9 DEF Swept, Whole, TypeBy
  <2>2. CASE ~ (a < c)
    <3>1. c <= a BY <2>2
    <3>2. TypeAt(Range(K), a) = 0 BY <3>1, <1>10, NothingAbove
    <3>3. TypeAt(Range(s.out), a) = 0 BY <3>1, <1>8, NothingAbove
    <3> QED BY <3>2, <3>3
  <2> QED BY <2>1, <2>2
<1> QED BY <1>6, <1>8, <1>11 DEF SweptOut

\* sanitize_e820_entries: regions in order and apart, that say what the table says.
LEMMA SanitizeSweeps ==
  ASSUME NEW table \in Seq(Region), 2 * Len(table) <= MaxE820 + 1
  PROVE  SweptOut(table, sanitize(table))
<1>1. PICK q \in Nat : Len(table) = q /\ q <= MaxE820 BY LenProperties, MemblockAssumption
<1> DEFINE T == {i \in 1 .. q : table[i].limit # 0}
           K == FlattenSeq(Selection(table, q, T))
<1>2. Min({MaxE820, Len(table)}) = q
  <2>1. \A y \in {MaxE820, q} : q <= y BY <1>1, MemblockAssumption
  <2>2. \A x \in {MaxE820, q} : (\A y \in {MaxE820, q} : x <= y) => x = q
    BY <2>1, <1>1, MemblockAssumption
  <2> QED BY <2>1, <2>2, <1>1 DEF Min
<1>3. \A i \in 1 .. q : table[i] \in Region BY <1>1, ElementOfSeq
<1>4. \A i \in T \cap (1 .. q) : table[i] \in Solid BY <1>3 DEF Solid
<1>5. K \in Seq(Solid) /\ \E pos : Picks(K, table, q, T, pos)
  <2> HIDE DEF T
  <2> QED BY <1>4, Selected
<1>6. PICK pos : Picks(K, table, q, T, pos) BY <1>5
<1>7. [i \in 1 .. Min({MaxE820, Len(table)}) |->
         IF table[i].limit # 0 THEN <<table[i]>> ELSE <<>>] = Selection(table, q, T)
  <2>1. \A i \in 1 .. q : table[i].limit # 0 <=> i \in T OBVIOUS
  <2> HIDE DEF T
  <2> QED BY <2>1, <1>2 DEF Selection
<1> DEFINE P == sort_end_points(K, EndPoints(K))
<1>9. PICK m \in Nat : Len(K) = m BY <1>5, LenProperties
<1>10. m <= q BY <1>6, <1>9 DEF Picks
<1>11. PICK n \in Nat : n = 2 * m /\ n <= MaxE820 + 1 BY <1>1, <1>10, MemblockAssumption
<1> HIDE DEF K, T
<1>12. Drawn(K, P, m, n) BY <1>5, <1>9, <1>11, SortedDrawn
<1> DEFINE f == CHOOSE f : Sweeping(K, P, n, f)
<1>13. sanitize(table) = f[n].out
  <2>1. Len(P) = n BY <1>12 DEF Drawn
  <2>2. K = FlattenSeq([i \in 1 .. Min({MaxE820, Len(table)}) |->
                         IF table[i].limit # 0 THEN <<table[i]>> ELSE <<>>])
    BY <1>7 DEF K
  <2> QED BY <2>1, <2>2 DEF sanitize, Sweeping
<1>14. Sweeping(K, P, n, f)
  <2> HIDE DEF P
  <2> QED BY <1>5, <1>9, <1>12, SweepingExists DEF Drawn
<1> HIDE DEF f, P
<1>15. SweptOut(K, f[n].out) BY <1>5, <1>9, <1>11, <1>12, <1>14, SweepAll
<1>16. SameMemory(K, table)
  <2> SUFFICES ASSUME NEW a \in Nat PROVE TypeAt(Range(K), a) = TypeAt(Range(table), a)
    BY DEF SameMemory
  <2>1. K \in Seq(Region) BY <1>5, SeqMonotonic DEF Solid
  <2>2. ASSUME NEW t PROVE t \in TypesAt(K, a) <=> t \in TypesAt(table, a)
    <3>1. t \in TypesAt(K, a) <=> \E k \in 1 .. Len(K) : a \in Bytes(K[k]) /\ t = K[k].type
      BY <2>1, TypesAtAre
    <3>2. t \in TypesAt(table, a) <=>
            \E i \in 1 .. Len(table) : a \in Bytes(table[i]) /\ t = table[i].type
      BY TypesAtAre
    <3>3. \A i \in 1 .. q : a \in Bytes(table[i]) => i \in T
      <4> TAKE i \in 1 .. q
      <4>1. table[i] \in Region BY <1>3
      <4>2. table[i].limit = 0 => a \notin Bytes(table[i]) BY <4>1 DEF Region, Bytes, End
      <4> QED BY <4>2 DEF T
    <3>4. /\ pos \in [1 .. m -> T \cap (1 .. q)]
          /\ \A k \in 1 .. m : K[k] = table[pos[k]]
          /\ \A i \in T \cap (1 .. q) : \E k \in 1 .. m : pos[k] = i
      BY <1>6, <1>9 DEF Picks
    <3>5. ASSUME NEW k \in 1 .. m, a \in Bytes(K[k]), t = K[k].type PROVE t \in TypesAt(table, a)
      <4>1. PICK i \in 1 .. q : i = pos[k] /\ K[k] = table[i] BY <3>4
      <4> QED BY <4>1, <3>2, <3>5, <1>1
    <3>6. ASSUME NEW i \in 1 .. q, a \in Bytes(table[i]), t = table[i].type PROVE t \in TypesAt(K, a)
      <4>1. i \in T \cap (1 .. q) BY <3>3, <3>6
      <4>2. PICK k \in 1 .. m : pos[k] = i BY <4>1, <3>4
      <4>3. K[k] = table[i] BY <4>2, <3>4
      <4> QED BY <4>3, <3>1, <3>6, <1>9
    <3> QED BY <3>1, <3>2, <3>5, <3>6, <1>1, <1>9
  <2>3. TypesAt(K, a) = TypesAt(table, a) BY <2>2
  <2> QED BY <2>1, <2>3, TypesAtTyped
<1> QED BY <1>13, <1>15, <1>16 DEF SweptOut, SameMemory


Answer == [base : Nat, limit : Nat, type : 1 .. 7, size : {0, 20, 24}, valid : BOOLEAN]

\* memory_detect keeps, in order, the answers that count.
LEMMA Detects ==
  ASSUME NEW r \in Reports
  PROVE  /\ memory_detect(r) \in Seq(Region)
         /\ 2 * Len(memory_detect(r)) <= MaxE820 + 1
         /\ Failed(r) \/ \A a \in Nat : TypeAt(Range(memory_detect(r)), a) = TypeAt(Reported(r), a)
<1> DEFINE ans == r.answers
           table == memory_detect(r)
<1>1. ans \in Seq(Answer) /\ 2 * Len(ans) <= MaxE820 + 1 BY ReportAssumption DEF Answer
<1>2. CASE Failed(r)
  <2>1. table = <<>> BY <1>2 DEF memory_detect
  <2>2. <<>> \in Seq(Region) /\ Len(<<>>) = 0 BY EmptySeq
  <2> QED BY <2>1, <2>2, <1>2, MemblockAssumption
<1>3. CASE ~ Failed(r)
  <2>1. PICK q \in Nat : Len(ans) = q /\ 2 * q <= MaxE820 + 1 BY <1>1, LenProperties
  <2>2. DOMAIN ans = 1 .. q BY <2>1, <1>1, LenProperties
  <2> DEFINE T == {i \in 1 .. q : Counts(ans[i])}
             g == [i \in 1 .. q |-> Entry(ans[i])]
  <2>3. table = FlattenSeq([i \in 1 .. q |-> IF Counts(ans[i]) THEN <<Entry(ans[i])>> ELSE <<>>])
    BY <1>3, <2>2 DEF memory_detect
  <2>4. \A i \in 1 .. q : ans[i] \in Answer BY <1>1, <2>1, ElementOfSeq
  <2>5. \A i \in 1 .. q : g[i] = Entry(ans[i]) /\ g[i] \in Region
    <3> TAKE i \in 1 .. q
    <3>1. ans[i] \in Answer BY <2>4
    <3> QED BY <3>1 DEF Answer, Region, Entry
  <2>6. \A i \in 1 .. q : i \in T <=> Counts(ans[i]) OBVIOUS
  <2>7. [i \in 1 .. q |-> IF Counts(ans[i]) THEN <<Entry(ans[i])>> ELSE <<>>] = Selection(g, q, T)
    <3> HIDE DEF T, g
    <3> QED BY <2>5, <2>6 DEF Selection
  <2> HIDE DEF T, g, table, ans
  <2>8. table = FlattenSeq(Selection(g, q, T)) BY <2>3, <2>7
  <2>9. table \in Seq(Region) /\ \E pos : Picks(table, g, q, T, pos)
    <3>1. \A i \in T \cap (1 .. q) : g[i] \in Region BY <2>5
    <3> QED BY <3>1, <2>8, Selected
  <2>10. PICK pos : Picks(table, g, q, T, pos) BY <2>9
  <2>11. PICK m \in Nat : Len(table) = m /\ m <= q BY <2>9, <2>10, LenProperties DEF Picks
  <2>12. /\ pos \in [1 .. m -> T \cap (1 .. q)]
         /\ \A k \in 1 .. m : table[k] = g[pos[k]]
         /\ \A i \in T \cap (1 .. q) : \E k \in 1 .. m : pos[k] = i
    BY <2>10, <2>11 DEF Picks
  <2>13. ASSUME NEW a \in Nat PROVE TypeAt(Range(table), a) = TypeAt(Reported(r), a)
    <3> DEFINE said == {e.type : e \in {x \in Reported(r) : a \in Bytes(x)}}
    <3>1. \A x : x \in Reported(r) <=>
                   \E i \in 1 .. q : x = ans[i] /\ (x.size = 20 \/ (x.size = 24 /\ x.valid))
      BY <2>2 DEF Reported, Range, ans
    <3>2. ASSUME NEW i \in 1 .. q, a \in Bytes(ans[i])
          PROVE  ans[i] \in Reported(r) <=> i \in T
      <4>1. PICK x \in Answer : x = ans[i] BY <2>4
      <4>2. x.limit # 0 BY <4>1, <3>2 DEF Answer, Bytes, End
      <4>3. x.size \in {0, 20, 24} BY DEF Answer
      <4>4. Counts(x) <=> x.size = 20 \/ (x.size = 24 /\ x.valid) BY <4>2, <4>3 DEF Counts
      <4>5. Counts(x) => x \in Reported(r) BY <4>1, <4>4, <3>1
      <4>6. x \in Reported(r) => Counts(x) BY <4>4, <3>1
      <4> QED BY <4>1, <4>5, <4>6, <2>6
    <3>3. ASSUME NEW i \in 1 .. q PROVE Bytes(g[i]) = Bytes(ans[i]) /\ g[i].type = ans[i].type
      <4>1. PICK x \in Answer : x = ans[i] BY <2>4
      <4>2. PICK e : e = Entry(x) OBVIOUS
      <4>3. e.base = x.base /\ e.limit = x.limit /\ e.type = x.type BY <4>2 DEF Entry
      <4>4. End(e) = End(x) BY <4>3 DEF End
      <4>5. Bytes(e) = Bytes(x) BY <4>3, <4>4 DEF Bytes
      <4>6. g[i] = e BY <4>1, <4>2, <2>5
      <4> QED BY <4>1, <4>3, <4>5, <4>6
    <3>4. ASSUME NEW t \in TypesAt(table, a) PROVE t \in said
      <4>1. PICK k \in 1 .. m : a \in Bytes(table[k]) /\ t = table[k].type
        BY <2>9, <2>11, TypesAtAre
      <4>2. PICK i \in 1 .. q : i \in T /\ table[k] = g[i] BY <2>12
      <4>3. a \in Bytes(ans[i]) /\ t = ans[i].type BY <4>1, <4>2, <3>3
      <4> QED BY <4>2, <4>3, <3>2
    <3>5. ASSUME NEW t \in said PROVE t \in TypesAt(table, a)
      <4>1. PICK x \in Reported(r) : a \in Bytes(x) /\ t = x.type OBVIOUS
      <4>2. PICK i \in 1 .. q : x = ans[i] BY <3>1
      <4>3. i \in T BY <4>1, <4>2, <3>2
      <4>4. PICK k \in 1 .. m : pos[k] = i BY <4>3, <2>12
      <4>5. table[k] = g[i] BY <4>4, <2>12
      <4>6. a \in Bytes(table[k]) /\ t = table[k].type BY <4>1, <4>2, <4>5, <3>3
      <4> QED BY <4>6, <2>9, <2>11, TypesAtAre
    <3>6. TypesAt(table, a) = said BY <3>4, <3>5
    <3>7. TypeAt(Reported(r), a) = Max0(said) BY DEF TypeAt
    <3> QED BY <3>6, <3>7, <2>9, TypesAtTyped
  <2>14. 2 * Len(table) <= MaxE820 + 1 BY <2>1, <2>11, MemblockAssumption
  <2> QED BY <2>9, <2>13, <2>14 DEF table
<1> QED BY <1>2, <1>3

LEMMA Sanitized ==
  ASSUME NEW r \in Reports
  PROVE  /\ SweptOut(memory_detect(r), sanitize(memory_detect(r)))
         /\ \A a \in Nat : Failed(r) \/
              TypeAt(Reported(r), a) = TypeAt(Range(sanitize(memory_detect(r))), a)
<1>1. PICK table \in Seq(Region) : table = memory_detect(r) /\ 2 * Len(table) <= MaxE820 + 1
  BY Detects
<1>2. SweptOut(table, sanitize(table)) BY <1>1, SanitizeSweeps
<1> QED BY <1>1, <1>2, Detects DEF SweptOut, SameMemory

Told == report \in Reports

LEMMA ReportKept == Spec => []Told
<1>1. Init => Told BY DEF Init, Told
<1>2. Told /\ [Next]_vars => Told'
  BY DEF Told, Next, vars, MapLow, NextRange, PopulatePage, Done
<1> QED BY <1>1, <1>2, PTL DEF Spec

\* The map is sorted and disjoint, and says of each address the worst that the firmware does.
THEOREM MapWhole == Spec => []MapSanitized
<1>1. Told => MapSanitized
  <2> SUFFICES ASSUME report \in Reports PROVE MapSanitized BY DEF Told
  <2> DEFINE clean == sanitize(memory_detect(report))
  <2>1. SweptOut(memory_detect(report), clean) BY Sanitized
  <2>2. \A i, j \in 1 .. Len(clean) : i < j => End(clean[i]) <= clean[j].base
    BY <2>1 DEF SweptOut, Ascending
  <2>3. ASSUME NEW a \in UNION {Bytes(e) : e \in Range(report.answers)}, ~ Failed(report)
        PROVE  TypeAt(Reported(report), a) = TypeAt(Range(clean), a)
    <3>1. PICK e \in Range(report.answers) : a \in Bytes(e) OBVIOUS
    <3>2. e \in Answer
      <4>1. report.answers \in Seq(Answer) BY ReportAssumption DEF Answer
      <4> QED BY <4>1, RangeOfSeq, Zenon
    <3>3. a \in Nat BY <3>1, <3>2 DEF Answer, Bytes, End
    <3> QED BY <3>3, <2>3, Sanitized
  <2> QED BY <2>2, <2>3 DEF MapSanitized
<1> QED BY <1>1, ReportKept, PTL

-----------------------------------------------------------------------------
\* Pages and their addresses.

\* a is an address at which a page begins.
Aligned(a) == \E k \in Nat : a = k * PageSize

\* Quotient and remainder of an address by the size of a page.
LEMMA Divided ==
  ASSUME NEW a \in Nat
  PROVE  \E q \in Nat, r \in Nat : /\ r < PageSize /\ a = q * PageSize + r
                                   /\ a \div PageSize = q /\ a % PageSize = r
<1>0. PICK P \in Nat \ {0} : P = PageSize BY MemblockAssumption
<1>1. PICK q \in Nat : q = a \div P BY <1>0
<1>2. PICK r \in Nat : r = a % P /\ r < P BY <1>0
<1>3. a = q * P + r BY <1>1, <1>2
<1> QED BY <1>0, <1>1, <1>2, <1>3

\* Two pages are at least a page apart.
LEMMA Apart ==
  ASSUME NEW k \in Nat, NEW l \in Nat, k < l
  PROVE  k * PageSize + PageSize <= l * PageSize
<1>0. PICK P \in Nat \ {0} : P = PageSize BY MemblockAssumption
<1>1. PICK d \in Nat : l = k + 1 + d
  <2>1. l - k - 1 \in Nat /\ l = k + 1 + (l - k - 1) OBVIOUS
  <2> QED BY <2>1
<1>2. l * P = k * P + P + d * P BY <1>1
<1>3. d * P \in Nat /\ k * P \in Nat OBVIOUS
<1> QED BY <1>0, <1>2, <1>3

\* Pfn is the number of the page that an address is in.
LEMMA PageNumber ==
  ASSUME NEW a \in Nat, NEW k \in Nat, k * PageSize <= a, a < k * PageSize + PageSize
  PROVE  Pfn(a) = k
<1>1. PICK q \in Nat, r \in Nat : /\ r < PageSize /\ a = q * PageSize + r
                                  /\ a \div PageSize = q /\ a % PageSize = r
  BY Divided
<1>2. k * PageSize \in Nat /\ q * PageSize \in Nat /\ PageSize \in Nat BY MemblockAssumption
<1>3. ~ (q < k)
  <2> SUFFICES ASSUME q < k PROVE FALSE OBVIOUS
  <2>1. q * PageSize + PageSize <= k * PageSize BY Apart
  <2> QED BY <2>1, <1>1, <1>2
<1>4. ~ (k < q)
  <2> SUFFICES ASSUME k < q PROVE FALSE OBVIOUS
  <2>1. k * PageSize + PageSize <= q * PageSize BY Apart
  <2> QED BY <2>1, <1>1, <1>2
<1> QED BY <1>1, <1>3, <1>4 DEF Pfn

LEMMA PageAt ==
  ASSUME NEW a \in Nat
  PROVE  /\ Pfn(a) \in Nat /\ Pfn(a) * PageSize <= a /\ a < Pfn(a) * PageSize + PageSize
         /\ Aligned(a) <=> a = Pfn(a) * PageSize
<1>1. PICK q \in Nat, r \in Nat : /\ r < PageSize /\ a = q * PageSize + r
                                  /\ a \div PageSize = q /\ a % PageSize = r
  BY Divided
<1>2. q * PageSize \in Nat /\ PageSize \in Nat BY MemblockAssumption
<1>3. Pfn(a) = q BY <1>1 DEF Pfn
<1>4. ASSUME NEW k \in Nat, a = k * PageSize PROVE k = q
  <2>1. k * PageSize \in Nat /\ PageSize \in Nat \ {0} BY MemblockAssumption
  <2>2. k * PageSize <= a /\ a < k * PageSize + PageSize BY <1>4, <2>1
  <2> QED BY <2>2, <1>3, PageNumber
<1>5. q * PageSize <= a /\ a < q * PageSize + PageSize BY <1>1, <1>2
<1> QED BY <1>3, <1>4, <1>5 DEF Aligned

LEMMA AlignedIff ==
  ASSUME NEW a \in Nat PROVE Aligned(a) <=> a % PageSize = 0
<1>1. PICK q \in Nat, r \in Nat : /\ r < PageSize /\ a = q * PageSize + r
                                  /\ a \div PageSize = q /\ a % PageSize = r
  BY Divided
<1>2. Pfn(a) = q BY <1>1 DEF Pfn
<1>3. q * PageSize \in Nat BY MemblockAssumption
<1>4. a = q * PageSize <=> r = 0 BY <1>1, <1>3
<1> QED BY <1>1, <1>2, <1>4, PageAt

\* Sums and differences of page boundaries are page boundaries, and so is what is less than
\* a page apart.
LEMMA AlignedSum ==
  ASSUME NEW a \in Nat, NEW b \in Nat, Aligned(a), Aligned(b)
  PROVE  Aligned(a + b) /\ (b <= a => Aligned(a - b))
<1>0. PICK P \in Nat \ {0} : P = PageSize BY MemblockAssumption
<1>1. PICK k \in Nat : a = k * P BY <1>0 DEF Aligned
<1>2. PICK l \in Nat : b = l * P BY <1>0 DEF Aligned
<1>3. Aligned(a + b)
  <2>1. a + b = (k + l) * P /\ k + l \in Nat BY <1>1, <1>2
  <2> QED BY <2>1, <1>0 DEF Aligned
<1>4. ASSUME b <= a PROVE Aligned(a - b)
  <2>1. l <= k
    <3> SUFFICES ASSUME k < l PROVE FALSE OBVIOUS
    <3>1. k * PageSize + PageSize <= l * PageSize BY Apart
    <3> QED BY <3>1, <1>0, <1>1, <1>2, <1>4
  <2>2. a - b = (k - l) * P /\ k - l \in Nat BY <2>1, <1>1, <1>2
  <2> QED BY <2>2, <1>0 DEF Aligned
<1> QED BY <1>3, <1>4

LEMMA AlignedGap ==
  ASSUME NEW a \in Nat, NEW b \in Nat, Aligned(a), Aligned(b)
  PROVE  a < b => a + PageSize <= b
<1>1. PICK k \in Nat : a = k * PageSize BY DEF Aligned
<1>2. PICK l \in Nat : b = l * PageSize BY DEF Aligned
<1>3. SUFFICES ASSUME a < b PROVE a + PageSize <= b OBVIOUS
<1>4. k < l
  <2>1. k = l => a = b BY <1>1, <1>2
  <2>2. ~ (l < k)
    <3> SUFFICES ASSUME l < k PROVE FALSE OBVIOUS
    <3>1. l * PageSize + PageSize <= k * PageSize BY Apart
    <3> QED BY <3>1, <1>1, <1>2, <1>3, MemblockAssumption
  <2> QED BY <2>1, <2>2, <1>3
<1>5. k * PageSize + PageSize <= l * PageSize BY <1>4, Apart
<1> QED BY <1>1, <1>2, <1>5

\* Low is a page boundary.
LEMMA PageAligned == Aligned(PageSize) /\ Aligned(0) /\ Aligned(Low)
<1>1. PageSize = 1 * PageSize /\ 0 = 0 * PageSize BY MemblockAssumption
<1>2. Aligned(PageSize) /\ Aligned(0) BY <1>1 DEF Aligned
<1> QED BY <1>2, AlignedIff, VmemmapAssumption

\* AlignUp goes to the next page boundary.
LEMMA AlignsUp ==
  ASSUME NEW a \in Nat
  PROVE  /\ AlignUp(a) \in Nat /\ a <= AlignUp(a) /\ AlignUp(a) < a + PageSize
         /\ Aligned(AlignUp(a)) /\ (Aligned(a) => AlignUp(a) = a)
<1>0. PICK P \in Nat \ {0} : P = PageSize BY MemblockAssumption
<1>1. PICK q \in Nat, r \in Nat : /\ r < PageSize /\ a = q * PageSize + r
                                  /\ a \div PageSize = q /\ a % PageSize = r
  BY Divided
<1>2. PICK n \in Nat : n = q * P OBVIOUS
<1>3. CASE r = 0
  <2>1. AlignUp(a) = a BY <1>1, <1>3 DEF AlignUp
  <2>2. Aligned(a) BY <1>1, <1>3, AlignedIff
  <2> QED BY <2>1, <2>2, <1>0
<1>4. CASE r # 0
  <2>1. AlignUp(a) = a + P - r BY <1>0, <1>1, <1>4 DEF AlignUp
  <2>2. a + P - r = n + P BY <1>0, <1>1, <1>2
  <2>3. n + P = (q + 1) * P /\ q + 1 \in Nat BY <1>2
  <2>4. Aligned(n + P) BY <2>3, <1>0 DEF Aligned
  <2>5. ~ Aligned(a) BY <1>1, <1>4, AlignedIff
  <2>6. PICK x \in Nat : x = n + P OBVIOUS
  <2>7. a <= x /\ x < a + P
    <3>1. a = n + r BY <1>1, <1>2, <1>0
    <3> QED BY <3>1, <2>6, <1>1, <1>4, <1>0
  <2>8. AlignUp(a) = x BY <2>1, <2>2, <2>6
  <2> QED BY <2>4, <2>5, <2>6, <2>7, <2>8, <1>0
<1> QED BY <1>3, <1>4

-----------------------------------------------------------------------------
\* Drawing from the regions: what mblock_allocate does to the entries.

\* What the boot code expects of the regions it starts from (see Regions).
Sound(R) ==
  /\ R \in Seq(Region) /\ Ascending(R)
  /\ \A j \in 1 .. Len(R) : KernelEnd <= R[j].base /\ End(R[j]) < Word
  /\ \A j \in 1 .. Len(R) : End(R[j]) > Low => Aligned(R[j].base) /\ Aligned(End(R[j]))

\* The entries E are what is left of the regions R.
Rests(R, E) ==
  \A j \in 1 .. Len(R) : /\ E[j].type = R[j].type /\ R[j].base <= E[j].base
                         /\ End(E[j]) <= End(R[j])

\* The pages T have been taken off the front of regions of RAM, each once.
Fronts(R, E, T) ==
  \A i \in 1 .. Len(T) :
    /\ Aligned(T[i])
    /\ \E j \in 1 .. Len(R) : /\ R[j].type = RAM /\ R[j].base <= T[i]
                              /\ T[i] + PageSize <= E[j].base

Distinct(T) == \A i, k \in 1 .. Len(T) : i # k => T[i] # T[k]

\* Regions above the identity map begin at a page, and none of it has gone elsewhere.
Even(R, E) == \A j \in 1 .. Len(R) : End(R[j]) > Low => Aligned(E[j].base)

\* What is gone from a high region's front has been taken.
Used(R, E, T) ==
  \A j \in 1 .. Len(R) : R[j].base >= Low =>
    \A a \in Nat : Aligned(a) /\ R[j].base <= a /\ a < E[j].base =>
      \E i \in 1 .. Len(T) : T[i] = a

\* m calls take m pages at most off the front of a high region.
Spent(R, E, m) ==
  \A j \in 1 .. Len(R) : End(R[j]) > Low => E[j].base <= R[j].base + m * PageSize

\* mblock_allocate takes page x off entry i.
Draw(E, E2, i, x, n) ==
  /\ E2 \in [1 .. n -> Region] /\ x \in Nat /\ Aligned(x)
  /\ E[i].type = RAM /\ E[i].base <= x /\ x < E[i].base + PageSize
  /\ (Aligned(E[i].base) => x = E[i].base)
  /\ E2[i].base = x + PageSize /\ E2[i].type = RAM /\ End(E2[i]) = End(E[i])
  /\ \A j \in 1 .. n : j # i => E2[j] = E[j]

\* x is appended to the m pages of T.
Grown(T, T2, x, m) ==
  /\ T2 \in Seq(Nat) /\ Len(T) = m /\ Len(T2) = m + 1
  /\ \A k \in 1 .. m : T2[k] = T[k]
  /\ T2[m + 1] = x

\* What one allocation does to the entries.
LEMMA DrawOne ==
  ASSUME NEW n \in Nat, NEW E \in [1 .. n -> Region], NEW i \in 1 .. n, Fits(E[i])
  PROVE  Draw(E, [E EXCEPT ![i] = AfterPage(E[i])], i, AlignUp(E[i].base), n)
<1>1. PICK e \in Region : e = E[i] OBVIOUS
<1>2. PICK b \in Nat, l \in Nat : b = e.base /\ l = e.limit BY DEF Region
<1>3. PICK x \in Nat : x = AlignUp(b) BY AlignsUp
<1>4. b <= x /\ x < b + PageSize /\ Aligned(x) /\ (Aligned(b) => x = b) BY <1>3, AlignsUp
<1>5. PICK P \in Nat \ {0} : P = PageSize BY MemblockAssumption
<1>6. x - b + P <= l /\ e.type = RAM BY <1>1, <1>2, <1>3, <1>5 DEF Fits, Taken
<1>7. PICK f : f = AfterPage(e) OBVIOUS
<1>8. f = [base |-> x + P, limit |-> l - (x - b + P), type |-> e.type]
  BY <1>2, <1>3, <1>5, <1>7 DEF AfterPage, Taken
<1>9. x + P \in Nat /\ l - (x - b + P) \in Nat
  <2>1. PICK d \in Nat : d = x - b + P BY <1>4
  <2>2. l - d \in Nat BY <2>1, <1>6
  <2> QED BY <2>1, <2>2
<1>10. f \in Region BY <1>8, <1>9, <1>1 DEF Region
<1>11. End(f) = End(e)
  <2>1. End(f) = x + P + (l - (x - b + P)) BY <1>8 DEF End
  <2>2. End(e) = b + l BY <1>2 DEF End
  <2> QED BY <2>1, <2>2
<1>12. PICK E2 : E2 = [E EXCEPT ![i] = f] OBVIOUS
<1>13. E2 \in [1 .. n -> Region] /\ E2[i] = f /\ \A j \in 1 .. n : j # i => E2[j] = E[j]
  BY <1>10, <1>12
<1>14. f.base = x + P /\ f.type = RAM BY <1>6, <1>8
<1>15. Draw(E, E2, i, x, n) BY <1>1, <1>2, <1>3, <1>4, <1>5, <1>6, <1>11, <1>13, <1>14 DEF Draw
<1> QED BY <1>15, <1>1, <1>2, <1>3, <1>7, <1>12

LEMMA AppendGrows ==
  ASSUME NEW T \in Seq(Nat), NEW m \in Nat, Len(T) = m, NEW x \in Nat
  PROVE  Grown(T, Append(T, x), x, m)
BY AppendProperties DEF Grown

LEMMA FirstFitFits ==
  ASSUME NEW n \in Nat, NEW E \in [1 .. n -> Region]
  PROVE  FirstFit(E) = 0 \/ (FirstFit(E) \in 1 .. n /\ Fits(E[FirstFit(E)]))
<1> DEFINE I == {i \in 1 .. Len(E) : Fits(E[i])}
<1>1. Len(E) = n OBVIOUS
<1>2. FirstFit(E) = IF I # {} THEN Min(I) ELSE 0 BY DEF FirstFit, SelectInSeq
<1>3. ASSUME I # {} PROVE Min(I) \in I
  <2>1. I \in SUBSET Nat BY <1>1
  <2> HIDE DEF I
  <2>2. \E x \in I : \A y \in I : x <= y BY <1>3, <2>1, Least
  <2> QED BY <2>2 DEF Min
<1> QED BY <1>1, <1>2, <1>3

LEMMA EndTyped == ASSUME NEW e \in Region
                  PROVE  e.base \in Nat /\ e.limit \in Nat /\ End(e) \in Nat /\ e.base <= End(e)
BY DEF Region, End

\* The entries stay what is left of the regions.
LEMMA DrawRests ==
  ASSUME NEW n \in Nat, NEW R \in Seq(Region), Len(R) = n, NEW E \in [1 .. n -> Region],
         NEW E2, NEW i \in 1 .. n, NEW x, Draw(E, E2, i, x, n), Rests(R, E)
  PROVE  Rests(R, E2)
<1> SUFFICES ASSUME NEW j \in 1 .. n
             PROVE  E2[j].type = R[j].type /\ R[j].base <= E2[j].base /\ End(E2[j]) <= End(R[j])
  BY DEF Rests
<1>0. R[j] \in Region /\ E[j] \in Region BY ElementOfSeq
<1>1. R[j].base \in Nat /\ E[j].base \in Nat BY <1>0, EndTyped
<1>2. E[j].type = R[j].type /\ R[j].base <= E[j].base /\ End(E[j]) <= End(R[j]) BY DEF Rests
<1>3. CASE j = i
  <2>1. E2[i].base = x + PageSize /\ E[i].base <= x /\ x \in Nat BY DEF Draw
  <2>2. R[j].base <= E2[j].base BY <1>1, <1>2, <1>3, <2>1, MemblockAssumption
  <2> QED BY <1>2, <1>3, <2>2 DEF Draw
<1>4. CASE j # i BY <1>2, <1>4 DEF Draw
<1> QED BY <1>3, <1>4

\* High regions go on to begin at a page.
LEMMA DrawEven ==
  ASSUME NEW n \in Nat, NEW R \in Seq(Region), Len(R) = n,
         NEW E, NEW E2, NEW i \in 1 .. n, NEW x, Draw(E, E2, i, x, n), Even(R, E)
  PROVE  Even(R, E2)
<1> SUFFICES ASSUME NEW j \in 1 .. n, End(R[j]) > Low PROVE Aligned(E2[j].base) BY DEF Even
<1>1. CASE j = i
  <2>1. E2[i].base = x + PageSize /\ x \in Nat /\ Aligned(x) BY DEF Draw
  <2>2. Aligned(x + PageSize) BY <2>1, PageAligned, AlignedSum, MemblockAssumption
  <2> QED BY <2>1, <2>2, <1>1
<1>2. CASE j # i BY <1>2 DEF Draw, Even
<1> QED BY <1>1, <1>2

\* What is gone from an entry is among the pages that were taken.
LEMMA DrawUsed ==
  ASSUME NEW n \in Nat, NEW R \in Seq(Region), Len(R) = n, NEW E \in [1 .. n -> Region],
         NEW E2, NEW i \in 1 .. n, NEW x, Draw(E, E2, i, x, n), Rests(R, E),
         NEW T, NEW T2, NEW m \in Nat, Grown(T, T2, x, m), Used(R, E, T)
  PROVE  Used(R, E2, T2)
<1> SUFFICES ASSUME NEW j \in 1 .. n, R[j].base >= Low, NEW a \in Nat,
                    Aligned(a), R[j].base <= a, a < E2[j].base
             PROVE  \E k \in 1 .. Len(T2) : T2[k] = a
  BY DEF Used
<1>1. CASE a < E[j].base
  <2>1. PICK k \in 1 .. m : T[k] = a BY <1>1 DEF Used, Grown
  <2>2. k \in 1 .. m + 1 /\ T2[k] = a BY <2>1 DEF Grown
  <2> QED BY <2>2 DEF Grown
<1>2. CASE ~ (a < E[j].base)
  <2>0. E[j] \in Region /\ E[j].base \in Nat BY EndTyped
  <2>1. j = i BY <1>2 DEF Draw
  <2>2. x \in Nat /\ Aligned(x) /\ E[i].base <= x /\ x < E[i].base + PageSize
        /\ E2[i].base = x + PageSize
    BY DEF Draw
  <2>3. ~ (x < a)
    <3>1. x < a => x + PageSize <= a BY <2>2, AlignedGap
    <3> QED BY <3>1, <2>1, <2>2, MemblockAssumption
  <2>4. ~ (a < x)
    <3>1. a < x => a + PageSize <= x BY <2>2, AlignedGap
    <3>2. SUFFICES ASSUME a < x PROVE FALSE OBVIOUS
    <3>3. E[i].base <= a BY <1>2, <2>0, <2>1
    <3> QED BY <3>1, <3>2, <3>3, <2>0, <2>1, <2>2, MemblockAssumption
  <2>5. a = x BY <2>2, <2>3, <2>4
  <2>6. m + 1 \in 1 .. m + 1 /\ T2[m + 1] = a BY <2>5 DEF Grown
  <2> QED BY <2>6 DEF Grown
<1> QED BY <1>1, <1>2

\* An entry has lost no more than the pages drawn.
LEMMA DrawSpent ==
  ASSUME NEW n \in Nat, NEW R \in Seq(Region), Len(R) = n, NEW E \in [1 .. n -> Region],
         NEW E2, NEW i \in 1 .. n, NEW x, Draw(E, E2, i, x, n), Even(R, E),
         NEW m \in Nat, Spent(R, E, m)
  PROVE  Spent(R, E2, m + 1)
<1> SUFFICES ASSUME NEW j \in 1 .. n, End(R[j]) > Low
             PROVE  E2[j].base <= R[j].base + (m + 1) * PageSize
  BY DEF Spent
<1>1. PICK P \in Nat \ {0} : P = PageSize BY MemblockAssumption
<1>2. PICK b \in Nat : b = E[j].base BY EndTyped
<1>3. PICK r \in Nat : r = R[j].base BY EndTyped, ElementOfSeq
<1>4. PICK s \in Nat : s = m * P OBVIOUS
<1>5. (m + 1) * P = s + P BY <1>4
<1>6. b <= r + s BY <1>1, <1>2, <1>3, <1>4 DEF Spent
<1>7. E2[j].base = b \/ E2[j].base = b + P
  <2>1. CASE j = i
    <3>1. Aligned(E[i].base) BY <2>1 DEF Even
    <3> QED BY <3>1, <2>1, <1>1, <1>2 DEF Draw
  <2>2. CASE j # i BY <2>2, <1>2 DEF Draw
  <2> QED BY <2>1, <2>2
<1>8. E2[j].base <= r + (s + P) BY <1>6, <1>7
<1> QED BY <1>1, <1>3, <1>5, <1>8

LEMMA DrawBase ==
  ASSUME NEW n \in Nat, NEW E \in [1 .. n -> Region],
         NEW E2, NEW i \in 1 .. n, NEW x, Draw(E, E2, i, x, n), NEW j \in 1 .. n
  PROVE  E2[j].type = E[j].type /\ End(E2[j]) = End(E[j]) /\ E[j].base <= E2[j].base
<1>1. E[j].base \in Nat BY EndTyped
<1>2. CASE j = i
  <2>1. E2[i].base = x + PageSize /\ E[i].base <= x /\ x \in Nat BY DEF Draw
  <2>2. E[j].base <= E2[j].base BY <1>1, <1>2, <2>1, MemblockAssumption
  <2> QED BY <1>2, <2>2 DEF Draw
<1>3. CASE j # i
  <2>1. E2[j] = E[j] BY <1>3 DEF Draw
  <2> QED BY <2>1, <1>1
<1> QED BY <1>2, <1>3

\* The page drawn comes off the front of its region.
LEMMA DrawFronts ==
  ASSUME NEW n \in Nat, NEW R \in Seq(Region), Len(R) = n, NEW E \in [1 .. n -> Region],
         NEW E2, NEW i \in 1 .. n, NEW x, Draw(E, E2, i, x, n), Rests(R, E),
         NEW T \in Seq(Nat), NEW T2, NEW m \in Nat, Grown(T, T2, x, m), Fronts(R, E, T)
  PROVE  Fronts(R, E2, T2)
<1> SUFFICES ASSUME NEW k \in 1 .. m + 1
             PROVE  /\ Aligned(T2[k])
                    /\ \E j \in 1 .. n : /\ R[j].type = RAM /\ R[j].base <= T2[k]
                                         /\ T2[k] + PageSize <= E2[j].base
  BY DEF Fronts, Grown
<1>1. CASE k \in 1 .. m
  <2>1. T2[k] = T[k] /\ Len(T) = m BY <1>1 DEF Grown
  <2>2. T[k] \in Nat BY <1>1, <2>1, ElementOfSeq
  <2>3. PICK j \in 1 .. n : R[j].type = RAM /\ R[j].base <= T[k] /\ T[k] + PageSize <= E[j].base
    BY <1>1, <2>1 DEF Fronts
  <2>4. E[j].base <= E2[j].base BY DrawBase
  <2>5. E[j].base \in Nat /\ E2[j].base \in Nat
    <3>1. E2[j] \in Region BY DEF Draw
    <3> QED BY <3>1, EndTyped
  <2>6. T[k] + PageSize <= E2[j].base BY <2>2, <2>3, <2>4, <2>5, MemblockAssumption
  <2>7. Aligned(T[k]) BY <1>1, <2>1 DEF Fronts
  <2> QED BY <2>1, <2>3, <2>6, <2>7
<1>2. CASE k \notin 1 .. m
  <2>1. k = m + 1 BY <1>2
  <2>2. T2[k] = x BY <2>1 DEF Grown
  <2>3. x \in Nat /\ Aligned(x) /\ E[i].base <= x /\ E2[i].base = x + PageSize /\ E[i].type = RAM
    BY DEF Draw
  <2>4. R[i].type = RAM /\ R[i].base <= E[i].base BY <2>3 DEF Rests
  <2>5. R[i].base \in Nat /\ E[i].base \in Nat BY EndTyped, ElementOfSeq
  <2>6. R[i].base <= x /\ x + PageSize <= E2[i].base BY <2>3, <2>4, <2>5, MemblockAssumption
  <2> QED BY <2>2, <2>3, <2>4, <2>6
<1> QED BY <1>1, <1>2

\* Pages from the fronts of two regions, or one of a front and one behind, are different.
LEMMA RegionsApart ==
  ASSUME NEW n \in Nat, NEW R \in Seq(Region), Len(R) = n, Ascending(R),
         NEW i \in 1 .. n, NEW j \in 1 .. n, i # j,
         NEW a \in Nat, R[i].base <= a, a < End(R[i]),
         NEW b \in Nat, R[j].base <= b, b < End(R[j])
  PROVE  a # b
<1>1. /\ R[i].base \in Nat /\ End(R[i]) \in Nat /\ R[j].base \in Nat /\ End(R[j]) \in Nat
  BY EndTyped, ElementOfSeq
<1>2. CASE i < j
  <2>1. End(R[i]) <= R[j].base BY <1>2 DEF Ascending
  <2> QED BY <1>1, <2>1
<1>3. CASE j < i
  <2>1. End(R[j]) <= R[i].base BY <1>3 DEF Ascending
  <2> QED BY <1>1, <2>1
<1> QED BY <1>2, <1>3

\* A page in front of what is left of a region lies in the region.
LEMMA FrontWithin ==
  ASSUME NEW n \in Nat, NEW R \in Seq(Region), Len(R) = n, NEW E \in [1 .. n -> Region],
         Rests(R, E), NEW j \in 1 .. n, NEW a \in Nat, a + PageSize <= E[j].base
  PROVE  a + PageSize <= End(R[j]) /\ a < End(R[j])
<1>1. E[j].base \in Nat /\ End(E[j]) \in Nat /\ E[j].base <= End(E[j]) BY EndTyped
<1>2. End(R[j]) \in Nat BY EndTyped, ElementOfSeq
<1>3. End(E[j]) <= End(R[j]) BY DEF Rests
<1> QED BY <1>1, <1>2, <1>3, MemblockAssumption

\* No page is taken twice.
LEMMA DrawDistinct ==
  ASSUME NEW n \in Nat, NEW R \in Seq(Region), Len(R) = n, Ascending(R),
         NEW E \in [1 .. n -> Region],
         NEW E2, NEW i \in 1 .. n, NEW x, Draw(E, E2, i, x, n), Rests(R, E),
         NEW T \in Seq(Nat), NEW T2, NEW m \in Nat, Grown(T, T2, x, m),
         Fronts(R, E, T), Distinct(T)
  PROVE  Distinct(T2)
<1>1. x \in Nat /\ E[i].base <= x /\ E2[i].base = x + PageSize BY DEF Draw
<1>2. E2 \in [1 .. n -> Region] BY DEF Draw
<1>r. Rests(R, E2) BY DrawRests
<1>3. x < End(R[i])
  <2>1. x + PageSize <= E2[i].base BY <1>1, MemblockAssumption
  <2> QED BY <1>1, <1>2, <1>r, <2>1, FrontWithin
<1>4. R[i].base <= x
  <2>1. R[i].base <= E[i].base BY DEF Rests
  <2>2. R[i].base \in Nat /\ E[i].base \in Nat BY EndTyped, ElementOfSeq
  <2> QED BY <1>1, <2>1, <2>2
<1>5. ASSUME NEW k \in 1 .. m PROVE T[k] # x
  <2>1. Len(T) = m BY DEF Grown
  <2>2. T[k] \in Nat BY <2>1, ElementOfSeq
  <2>3. PICK j \in 1 .. n : R[j].base <= T[k] /\ T[k] + PageSize <= E[j].base
    BY <2>1 DEF Fronts
  <2>4. CASE j = i
    <3>1. E[i].base \in Nat BY EndTyped
    <3> QED BY <1>1, <2>2, <2>3, <2>4, <3>1, MemblockAssumption
  <2>5. CASE j # i
    <3>1. T[k] < End(R[j]) BY <2>2, <2>3, FrontWithin
    <3> QED BY <1>1, <1>3, <1>4, <2>2, <2>3, <2>5, <3>1, RegionsApart
  <2> QED BY <2>4, <2>5
<1> SUFFICES ASSUME NEW k \in 1 .. m + 1, NEW l \in 1 .. m + 1, k # l PROVE T2[k] # T2[l]
  BY DEF Distinct, Grown
<1>6. \A u \in 1 .. m : T2[u] = T[u] BY DEF Grown
<1>7. T2[m + 1] = x BY DEF Grown
<1>8. CASE k \in 1 .. m /\ l \in 1 .. m BY <1>6, <1>8 DEF Distinct, Grown
<1>9. CASE k \notin 1 .. m
  <2>1. k = m + 1 /\ l \in 1 .. m BY <1>9
  <2> QED BY <2>1, <1>5, <1>6, <1>7
<1>10. CASE l \notin 1 .. m
  <2>1. l = m + 1 /\ k \in 1 .. m BY <1>10
  <2> QED BY <2>1, <1>5, <1>6, <1>7
<1> QED BY <1>8, <1>9, <1>10

-----------------------------------------------------------------------------
\* Allocations, and the tables and frames that come of them.

\* The page tables' leaves: some virtual pages have a physical address.
Maps == UNION {[S -> Nat] : S \in SUBSET Nat}

MemoryType(n) ==
  [entries : [1 .. n -> Region], taken : Seq(Nat), starved : BOOLEAN,
   tabs : SUBSET ((2 .. 4) \X Nat), map : Maps]

\* What holds of the memory between any two calls.
MemoryInv(R, m) ==
  /\ m \in MemoryType(Len(R))
  /\ Rests(R, m.entries) /\ Even(R, m.entries)
  /\ Used(R, m.entries, m.taken) /\ Spent(R, m.entries, Len(m.taken))
  /\ m.starved \/ (Fronts(R, m.entries, m.taken) /\ Distinct(m.taken))

\* Regions wear off from the front.
Wears(E, E2, n) ==
  \A j \in 1 .. n : E2[j].type = E[j].type /\ End(E2[j]) = End(E[j]) /\ E[j].base <= E2[j].base

Longer(T, T2, k) ==
  Len(T2) = Len(T) + k /\ \A i \in 1 .. Len(T) : T2[i] = T[i]

\* From m to m2, mblock_allocate is called k times.
Grows(R, m, m2, k) ==
  /\ MemoryInv(R, m2)
  /\ Wears(m.entries, m2.entries, Len(R)) /\ Longer(m.taken, m2.taken, k)
  /\ m.starved => m2.starved

LEMMA SpentMore ==
  ASSUME NEW R \in Seq(Region), NEW E \in [1 .. Len(R) -> Region], NEW m \in Nat, Spent(R, E, m)
  PROVE  Spent(R, E, m + 1)
<1> SUFFICES ASSUME NEW j \in 1 .. Len(R), End(R[j]) > Low
             PROVE  E[j].base <= R[j].base + (m + 1) * PageSize
  BY DEF Spent
<1>1. PICK P \in Nat \ {0} : P = PageSize BY MemblockAssumption
<1>2. PICK b \in Nat : b = E[j].base BY EndTyped
<1>3. PICK r \in Nat : r = R[j].base BY EndTyped, ElementOfSeq
<1>4. PICK s \in Nat : s = m * P OBVIOUS
<1>5. (m + 1) * P = s + P BY <1>4
<1>6. b <= r + s BY <1>1, <1>2, <1>3, <1>4 DEF Spent
<1>7. b <= r + (s + P) BY <1>6
<1> QED BY <1>1, <1>2, <1>3, <1>5, <1>7

LEMMA UsedMore ==
  ASSUME NEW R, NEW E, NEW T, NEW T2, NEW x, NEW m \in Nat, Grown(T, T2, x, m), Used(R, E, T)
  PROVE  Used(R, E, T2)
<1> SUFFICES ASSUME NEW j \in 1 .. Len(R), R[j].base >= Low, NEW a \in Nat,
                    Aligned(a), R[j].base <= a, a < E[j].base
             PROVE  \E k \in 1 .. Len(T2) : T2[k] = a
  BY DEF Used
<1>1. PICK k \in 1 .. m : T[k] = a BY DEF Used, Grown
<1>2. k \in 1 .. m + 1 /\ T2[k] = a BY <1>1 DEF Grown
<1> QED BY <1>2 DEF Grown

\* mblock_allocate takes one page, or none is left.
LEMMA AllocateGrows ==
  ASSUME NEW R, Sound(R), NEW m, MemoryInv(R, m)
  PROVE  /\ Grows(R, m, AllocatePage(m), 1)
         /\ AllocatePage(m).tabs = m.tabs /\ AllocatePage(m).map = m.map
<1>1. PICK n \in Nat : n = Len(R) BY LenProperties DEF Sound
<1>0. R \in Seq(Region) /\ Len(R) = n /\ Ascending(R) BY <1>1 DEF Sound
<1>2. m \in MemoryType(n) BY <1>1 DEF MemoryInv
<1>3. PICK E \in [1 .. n -> Region] : E = m.entries BY <1>2 DEF MemoryType
<1>4. PICK T \in Seq(Nat) : T = m.taken BY <1>2 DEF MemoryType
<1>5. PICK l \in Nat : l = Len(T) BY LenProperties
<1>6. /\ Rests(R, E) /\ Even(R, E) /\ Used(R, E, T) /\ Spent(R, E, l)
      /\ m.starved \/ (Fronts(R, E, T) /\ Distinct(T))
  BY <1>3, <1>4, <1>5 DEF MemoryInv
<1>7. m.starved \in BOOLEAN /\ m.tabs \in SUBSET ((2 .. 4) \X Nat) /\ m.map \in Maps
  BY <1>2 DEF MemoryType
<1>8. PICK m2 : m2 = AllocatePage(m) OBVIOUS
<1>9. CASE FirstFit(E) = 0
  <2>1. m2 = [entries |-> E, taken |-> Append(T, 0), starved |-> TRUE, tabs |-> m.tabs, map |-> m.map]
    BY <1>3, <1>4, <1>8, <1>9 DEF AllocatePage
  <2>2. PICK T2 : T2 = Append(T, 0) OBVIOUS
  <2>3. Grown(T, T2, 0, l) BY <1>5, <2>2, AppendGrows
  <2>4. T2 \in Seq(Nat) /\ Len(T2) = l + 1 /\ \A i \in 1 .. l : T2[i] = T[i] BY <2>3 DEF Grown
  <2>5. m2 \in MemoryType(n) BY <1>7, <2>1, <2>2, <2>4 DEF MemoryType
  <2>6. m2.entries = E /\ m2.taken = T2 /\ m2.starved /\ m2.tabs = m.tabs /\ m2.map = m.map
    BY <2>1, <2>2
  <2>7. Used(R, E, T2) BY <1>6, <2>3, UsedMore
  <2>8. Spent(R, E, l + 1) BY <1>0, <1>1, <1>6, SpentMore
  <2>9. MemoryInv(R, m2) BY <1>1, <1>6, <2>4, <2>5, <2>6, <2>7, <2>8 DEF MemoryInv
  <2>10. Wears(E, E, n)
    <3>1. \A j \in 1 .. n : E[j].base \in Nat BY EndTyped
    <3> QED BY <3>1 DEF Wears
  <2>11. Longer(T, T2, 1) BY <1>5, <2>4 DEF Longer
  <2>12. Grows(R, m, m2, 1) BY <1>1, <1>3, <1>4, <2>6, <2>9, <2>10, <2>11 DEF Grows
  <2> QED BY <1>8, <2>6, <2>12
<1>10. CASE FirstFit(E) # 0
  <2>0. PICK i \in 1 .. n : i = FirstFit(E) /\ Fits(E[i]) BY <1>10, FirstFitFits
  <2>a. E[i].base \in Nat BY EndTyped
  <2>b. PICK x \in Nat : x = AlignUp(E[i].base) BY <2>a, AlignsUp
  <2>c. PICK E2 : E2 = [E EXCEPT ![i] = AfterPage(E[i])] OBVIOUS
  <2>1. m2 = [entries |-> E2, taken |-> Append(T, x), starved |-> m.starved,
              tabs |-> m.tabs, map |-> m.map]
    BY <1>3, <1>4, <1>8, <1>10, <2>0, <2>b, <2>c DEF AllocatePage
  <2>2. PICK T2 : T2 = Append(T, x) OBVIOUS
  <2>3. Grown(T, T2, x, l) BY <1>5, <2>2, AppendGrows
  <2>4. T2 \in Seq(Nat) /\ Len(T2) = l + 1 /\ \A k \in 1 .. l : T2[k] = T[k] BY <2>3 DEF Grown
  <2>d. Draw(E, E2, i, x, n) BY <2>0, <2>b, <2>c, DrawOne
  <2>e. E2 \in [1 .. n -> Region] BY <2>d DEF Draw
  <2>5. m2 \in MemoryType(n) BY <1>7, <2>1, <2>2, <2>4, <2>e DEF MemoryType
  <2>6. /\ m2.entries = E2 /\ m2.taken = T2 /\ m2.starved = m.starved
        /\ m2.tabs = m.tabs /\ m2.map = m.map
    BY <2>1, <2>2
  <2>f. Rests(R, E2) BY <1>0, <1>6, <2>d, DrawRests
  <2>g. Even(R, E2) BY <1>0, <1>6, <2>d, DrawEven
  <2>7. Used(R, E2, T2) BY <1>0, <1>6, <2>3, <2>d, DrawUsed
  <2>8. Spent(R, E2, l + 1) BY <1>0, <1>6, <2>d, DrawSpent
  <2>h. m.starved \/ (Fronts(R, E2, T2) /\ Distinct(T2))
    BY <1>0, <1>6, <2>3, <2>d, DrawFronts, DrawDistinct
  <2>9. MemoryInv(R, m2)
    BY <1>1, <2>4, <2>5, <2>6, <2>7, <2>8, <2>f, <2>g, <2>h DEF MemoryInv
  <2>10. Wears(E, E2, n) BY <2>d, DrawBase DEF Wears
  <2>11. Longer(T, T2, 1) BY <1>5, <2>4 DEF Longer
  <2>12. Grows(R, m, m2, 1) BY <1>1, <1>3, <1>4, <2>6, <2>9, <2>10, <2>11 DEF Grows
  <2> QED BY <1>8, <2>6, <2>12
<1> QED BY <1>9, <1>10

\* Calls of mblock_allocate add up.
LEMMA GrowsOn ==
  ASSUME NEW R, Sound(R), NEW m, MemoryInv(R, m), NEW m2, NEW m3, NEW k \in Nat, NEW l \in Nat,
         Grows(R, m, m2, k), Grows(R, m2, m3, l)
  PROVE  Grows(R, m, m3, k + l)
<1>1. PICK n \in Nat : n = Len(R) BY LenProperties DEF Sound
<1>2. m \in MemoryType(n) /\ m2 \in MemoryType(n) /\ m3 \in MemoryType(n)
  BY <1>1 DEF Grows, MemoryInv
<1>3. PICK E \in [1 .. n -> Region], E2 \in [1 .. n -> Region], E3 \in [1 .. n -> Region] :
        E = m.entries /\ E2 = m2.entries /\ E3 = m3.entries
  BY <1>2 DEF MemoryType
<1>4. PICK T \in Seq(Nat), T2 \in Seq(Nat), T3 \in Seq(Nat) :
        T = m.taken /\ T2 = m2.taken /\ T3 = m3.taken
  BY <1>2 DEF MemoryType
<1>5. Wears(E, E2, n) /\ Wears(E2, E3, n) BY <1>1, <1>3 DEF Grows
<1>6. Wears(E, E3, n)
  <2> SUFFICES ASSUME NEW j \in 1 .. n
               PROVE  /\ E3[j].type = E[j].type /\ End(E3[j]) = End(E[j])
                      /\ E[j].base <= E3[j].base
    BY DEF Wears
  <2>1. E[j].base \in Nat /\ E2[j].base \in Nat /\ E3[j].base \in Nat BY EndTyped
  <2>2. /\ E2[j].type = E[j].type /\ End(E2[j]) = End(E[j]) /\ E[j].base <= E2[j].base
        /\ E3[j].type = E2[j].type /\ End(E3[j]) = End(E2[j]) /\ E2[j].base <= E3[j].base
    BY <1>5 DEF Wears
  <2>3. PICK a \in Nat, b \in Nat, c \in Nat : a = E[j].base /\ b = E2[j].base /\ c = E3[j].base
    BY <2>1
  <2>4. a <= b /\ b <= c BY <2>2, <2>3
  <2>5. a <= c BY <2>4
  <2> QED BY <2>2, <2>3, <2>5
<1>7. Longer(T, T2, k) /\ Longer(T2, T3, l) BY <1>4 DEF Grows
<1>8. Longer(T, T3, k + l)
  <2>1. PICK p \in Nat, q \in Nat : Len(T) = p /\ Len(T2) = q BY LenProperties
  <2>2. q = p + k /\ Len(T3) = p + k + l BY <1>7, <2>1 DEF Longer
  <2>3. ASSUME NEW i \in 1 .. p PROVE T3[i] = T[i]
    <3>1. i \in 1 .. q BY <2>2
    <3> QED BY <3>1, <1>7, <2>1 DEF Longer
  <2> QED BY <2>1, <2>2, <2>3 DEF Longer
<1> QED BY <1>1, <1>3, <1>4, <1>6, <1>8 DEF Grows

-----------------------------------------------------------------------------
\* Mapping a page: what mem_map_page takes and what it maps.

\* A page has at most three tables on its way, besides the root.
LEMMA PathTyped ==
  ASSUME NEW v \in Nat
  PROVE  /\ Path(v) \in SUBSET ((2 .. 4) \X Nat)
         /\ IsFiniteSet(Path(v)) /\ Cardinality(Path(v)) <= 3
<1>1. Fan \in Nat \ {0} BY VmemmapAssumption
<1>2. \A k \in Nat \ {0} : v \div k \in Nat OBVIOUS
<1>3. Fan * Fan \in Nat \ {0} /\ Fan * Fan * Fan \in Nat \ {0}
  <2>1. PICK k \in Nat \ {0} : k = Fan * Fan BY <1>1
  <2>2. k * Fan \in Nat \ {0} BY <1>1
  <2> QED BY <2>1, <2>2
<1>4. PICK a \in Nat, b \in Nat, c \in Nat :
        a = v \div (Fan * Fan * Fan) /\ b = v \div (Fan * Fan) /\ c = v \div Fan
  BY <1>1, <1>2, <1>3
<1>5. Path(v) = {<<2, a>>, <<3, b>>, <<4, c>>} BY <1>4 DEF Path
<1>6. PICK A : A = {<<2, a>>} OBVIOUS
<1>7. IsFiniteSet(A) /\ Cardinality(A) = 1 BY <1>6, FS_Singleton
<1>8. PICK B : B = A \cup {<<3, b>>} OBVIOUS
<1>9. IsFiniteSet(B) /\ Cardinality(B) \in 1 .. 2 BY <1>7, <1>8, FS_AddElement
<1>10. PICK C : C = B \cup {<<4, c>>} OBVIOUS
<1>11. IsFiniteSet(C) /\ Cardinality(C) \in 1 .. 3 BY <1>9, <1>10, FS_AddElement
<1>12. Path(v) = C BY <1>5, <1>6, <1>8, <1>10
<1>13. C \in SUBSET ((2 .. 4) \X Nat) BY <1>5, <1>12
<1> QED BY <1>11, <1>12, <1>13

\* The memory that MapPage goes through: w[k] is what it is after k pages for tables.
Draining(m, w) ==
  w = [n \in 0 .. 3 |-> IF n = 0 THEN m ELSE AllocatePage(w[n - 1])]

LEMMA DrainingExists == ASSUME NEW m PROVE \E w : Draining(m, w)
<1> DEFINE a == AllocatePage(m)
           b == AllocatePage(a)
           c == AllocatePage(b)
           w == [n \in 0 .. 3 |-> IF n = 0 THEN m ELSE IF n = 1 THEN a ELSE IF n = 2 THEN b ELSE c]
<1>1. w[0] = m /\ w[1] = a /\ w[2] = b /\ w[3] = c OBVIOUS
<1>2. \A n \in 0 .. 3 : w[n] = IF n = 0 THEN m ELSE AllocatePage(w[n - 1])
  <2> TAKE n \in 0 .. 3
  <2> HIDE DEF w, a, b, c
  <2>1. n = 0 \/ n = 1 \/ n = 2 \/ n = 3 OBVIOUS
  <2>2. a = AllocatePage(m) /\ b = AllocatePage(a) /\ c = AllocatePage(b) BY DEF a, b, c
  <2>3. CASE n = 0 BY <2>3, <1>1
  <2>4. CASE n = 1
    <3>1. n # 0 /\ n - 1 = 0 BY <2>4
    <3> QED BY <3>1, <2>2, <2>4, <1>1
  <2>5. CASE n = 2
    <3>1. n # 0 /\ n - 1 = 1 BY <2>5
    <3> QED BY <3>1, <2>2, <2>5, <1>1
  <2>6. CASE n = 3
    <3>1. n # 0 /\ n - 1 = 2 BY <2>6
    <3> QED BY <3>1, <2>2, <2>6, <1>1
  <2> QED BY <2>1, <2>3, <2>4, <2>5, <2>6
<1>3. w = [n \in 0 .. 3 |-> w[n]] OBVIOUS
<1> HIDE DEF w
<1>4. w = [n \in 0 .. 3 |-> IF n = 0 THEN m ELSE AllocatePage(w[n - 1])] BY <1>2, <1>3
<1> QED BY <1>4 DEF Draining

\* What is the same before and after: everything, but for the calls.
Drained(R, m, m2, k) == Grows(R, m, m2, k) /\ m2.tabs = m.tabs /\ m2.map = m.map

\* One call of mblock_allocate for each missing table.
LEMMA Drains ==
  ASSUME NEW R, Sound(R), NEW m, MemoryInv(R, m), NEW w, Draining(m, w), NEW k \in 0 .. 3
  PROVE  Drained(R, m, w[k], k)
<1>1. \A n \in 0 .. 3 : w[n] = IF n = 0 THEN m ELSE AllocatePage(w[n - 1]) BY DEF Draining
<1>2. Drained(R, m, m, 0)
  <2>1. PICK n \in Nat : n = Len(R) BY LenProperties DEF Sound
  <2>2. m \in MemoryType(n) BY <2>1 DEF MemoryInv
  <2>3. PICK E \in [1 .. n -> Region], T \in Seq(Nat) : E = m.entries /\ T = m.taken
    BY <2>2 DEF MemoryType
  <2>4. Wears(E, E, n)
    <3>1. \A j \in 1 .. n : E[j].base \in Nat BY EndTyped
    <3> QED BY <3>1 DEF Wears
  <2>5. Len(T) \in Nat BY LenProperties
  <2>6. Longer(T, T, 0) BY <2>5 DEF Longer
  <2> QED BY <2>1, <2>3, <2>4, <2>6 DEF Drained, Grows
<1>3. ASSUME NEW i \in 0 .. 2, Drained(R, m, w[i], i) PROVE Drained(R, m, w[i + 1], i + 1)
  <2>1. PICK j : j = i + 1 /\ j \in 0 .. 3 /\ j # 0 /\ j - 1 = i OBVIOUS
  <2>2. w[j] = AllocatePage(w[i]) BY <2>1, <1>1
  <2>3. MemoryInv(R, w[i]) BY <1>3 DEF Drained, Grows
  <2>4. /\ Grows(R, w[i], AllocatePage(w[i]), 1)
        /\ AllocatePage(w[i]).tabs = w[i].tabs /\ AllocatePage(w[i]).map = w[i].map
    BY <2>3, AllocateGrows
  <2>5. Grows(R, m, AllocatePage(w[i]), i + 1) BY <1>3, <2>4, GrowsOn DEF Drained
  <2>6. Drained(R, m, w[j], j) BY <1>3, <2>1, <2>2, <2>4, <2>5 DEF Drained
  <2> QED BY <2>1, <2>6
<1>4. w[0] = m BY <1>1
<1>5. Drained(R, m, w[0], 0) BY <1>2, <1>4
<1>6. Drained(R, m, w[1], 1)
  <2>1. 0 \in 0 .. 2 /\ 0 + 1 = 1 OBVIOUS
  <2>2. Drained(R, m, w[0 + 1], 0 + 1) BY <2>1, <1>3, <1>5
  <2> QED BY <2>1, <2>2
<1>7. Drained(R, m, w[2], 2)
  <2>1. 1 \in 0 .. 2 /\ 1 + 1 = 2 OBVIOUS
  <2>2. Drained(R, m, w[1 + 1], 1 + 1) BY <2>1, <1>3, <1>6
  <2> QED BY <2>1, <2>2
<1>8. Drained(R, m, w[3], 3)
  <2>1. 2 \in 0 .. 2 /\ 2 + 1 = 3 OBVIOUS
  <2>2. Drained(R, m, w[2 + 1], 2 + 1) BY <2>1, <1>3, <1>7
  <2> QED BY <2>1, <2>2
<1>9. k = 0 \/ k = 1 \/ k = 2 \/ k = 3 OBVIOUS
<1> QED BY <1>5, <1>6, <1>7, <1>8, <1>9

\* map_virt_to_phy_early: the missing tables are added, and the page is mapped.
Mapped(m, m2, v, phy) ==
  /\ m2.tabs = m.tabs \cup Path(v)
  /\ DOMAIN m2.map = DOMAIN m.map \cup {v} /\ m2.map[v] = phy
  /\ \A u \in DOMAIN m.map : u # v => m2.map[u] = m.map[u]

\* map_virt_to_phy_early: as many pages are taken as tables are added.
LEMMA MapPageGrows ==
  ASSUME NEW R, Sound(R), NEW m, MemoryInv(R, m), NEW v \in Nat, NEW phy \in Nat
  PROVE  /\ Grows(R, m, MapPage(m, v, phy), Cardinality(Path(v) \ m.tabs))
         /\ Mapped(m, MapPage(m, v, phy), v, phy)
<1> DEFINE missing == Path(v) \ m.tabs
           w == CHOOSE w : Draining(m, w)
           m2 == MapPage(m, v, phy)
           map2 == [u \in DOMAIN m.map \cup {v} |-> IF u = v THEN phy ELSE m.map[u]]
<1>1. PICK k \in 0 .. 3 : k = Cardinality(missing)
  <2>1. missing \subseteq Path(v) OBVIOUS
  <2>2. IsFiniteSet(Path(v)) /\ Cardinality(Path(v)) <= 3 BY PathTyped
  <2>3. Cardinality(missing) <= Cardinality(Path(v)) /\ IsFiniteSet(missing)
    BY <2>1, <2>2, FS_Subset
  <2>4. Cardinality(missing) \in Nat /\ Cardinality(Path(v)) \in Nat
    BY <2>2, <2>3, FS_CardinalityType
  <2> QED BY <2>2, <2>3, <2>4
<1>2. m2 = [entries |-> w[Cardinality(missing)].entries, taken |-> w[Cardinality(missing)].taken,
            starved |-> w[Cardinality(missing)].starved,
            tabs |-> m.tabs \cup missing, map |-> map2]
  BY DEF MapPage, Draining
<1>3. Draining(m, w) BY DrainingExists
<1> HIDE DEF w, m2
<1>4. PICK e : e = w[k] OBVIOUS
<1>5. Drained(R, m, e, k) BY <1>3, <1>4, Drains
<1>6. m2 = [entries |-> e.entries, taken |-> e.taken, starved |-> e.starved,
            tabs |-> m.tabs \cup Path(v), map |-> map2]
  <2>1. m.tabs \cup missing = m.tabs \cup Path(v) OBVIOUS
  <2>2. e = w[Cardinality(missing)] BY <1>1, <1>4
  <2> QED BY <1>2, <2>1, <2>2
<1>7. /\ map2 \in Maps
      /\ DOMAIN map2 = DOMAIN m.map \cup {v} /\ map2[v] = phy
      /\ \A u \in DOMAIN m.map : u # v => map2[u] = m.map[u]
  <2>1. PICK S \in SUBSET Nat : m.map \in [S -> Nat] BY DEF MemoryInv, MemoryType, Maps
  <2>2. map2 = [u \in {v} \cup S |-> IF u = v THEN phy ELSE m.map[u]] BY <2>1
  <2>3. map2 \in [{v} \cup S -> Nat] BY <2>1, <2>2
  <2>4. {v} \cup S \in SUBSET Nat OBVIOUS
  <2>5. map2 \in Maps BY <2>3, <2>4 DEF Maps
  <2> QED BY <2>1, <2>2, <2>5
<1> HIDE DEF map2, missing
<1>8. /\ m2.entries = e.entries /\ m2.taken = e.taken /\ m2.starved = e.starved
      /\ m2.tabs = m.tabs \cup Path(v) /\ m2.map = map2
  BY <1>6
<1>9. PICK n \in Nat : n = Len(R) BY LenProperties DEF Sound
<1>10. m2 \in MemoryType(n)
  <2>1. e \in MemoryType(n) /\ m \in MemoryType(n)
    BY <1>5, <1>9 DEF Drained, Grows, MemoryInv
  <2>2. m.tabs \cup Path(v) \in SUBSET ((2 .. 4) \X Nat) BY <2>1, PathTyped DEF MemoryType
  <2> QED BY <1>6, <1>7, <2>1, <2>2 DEF MemoryType
<1>11. MemoryInv(R, e) BY <1>5 DEF Drained, Grows
<1>12. MemoryInv(R, m2) BY <1>8, <1>9, <1>10, <1>11 DEF MemoryInv
<1>13. Grows(R, m, m2, k) BY <1>5, <1>8, <1>12 DEF Drained, Grows
<1>14. Mapped(m, m2, v, phy) BY <1>7, <1>8 DEF Mapped
<1> QED BY <1>1, <1>13, <1>14 DEF m2, missing

-----------------------------------------------------------------------------
\* The identity map.

\* The memory that MapLow goes through.
Lowering(m, f) ==
  f = [n \in 0 .. LowPages |->
         IF n = 0 THEN m ELSE MapPage(f[n - 1], n - 1, (n - 1) * PageSize)]

LEMMA LowTyped == LowPages \in Nat /\ LowPages * PageSize = Low
<1>1. Pfn(Low) \in Nat /\ Low = Pfn(Low) * PageSize BY PageAt, PageAligned, VmemmapAssumption
<1> QED BY <1>1 DEF LowPages

LEMMA LoweringExists ==
  ASSUME NEW R, Sound(R), NEW m, MemoryInv(R, m)
  PROVE  \E f : Lowering(m, f)
<1> DEFINE L == LowPages
           X == {x \in MemoryType(Len(R)) : MemoryInv(R, x)}
           next == [nx \in (1 .. L) \X X |-> MapPage(nx[2], nx[1] - 1, (nx[1] - 1) * PageSize)]
<1>0. L \in Nat /\ PageSize \in Nat BY LowTyped, MemblockAssumption
<1>1. \A n \in 1 .. L, x \in X : MapPage(x, n - 1, (n - 1) * PageSize) \in X
  <2> TAKE n \in 1 .. L, x \in X
  <2>1. PICK v \in Nat, a \in Nat : v = n - 1 /\ a = v * PageSize BY <1>0
  <2>2. MemoryInv(R, MapPage(x, v, a)) BY MapPageGrows DEF Grows
  <2>3. MapPage(x, v, a) \in MemoryType(Len(R)) BY <2>2 DEF MemoryInv
  <2> QED BY <2>1, <2>2, <2>3
<1>2. \A n \in 1 .. L, x \in X : next[<<n, x>>] = MapPage(x, n - 1, (n - 1) * PageSize)
  <2> TAKE n \in 1 .. L, x \in X
  <2>1. <<n, x>> \in (1 .. L) \X X OBVIOUS
  <2> QED BY <2>1
<1>3. \A n \in 1 .. L, x \in X : next[<<n, x>>] \in X BY <1>1, <1>2
<1>4. m \in X BY DEF MemoryInv
<1> HIDE DEF X, next
<1>5. PICK f \in [0 .. L -> X] : f[0] = m /\ \A n \in 1 .. L : f[n] = next[<<n, f[n - 1]>>]
  <2>1. Stepping(next, X, L) BY <1>3 DEF Stepping
  <2>2. PICK f \in [0 .. L -> X] : Follows(f, m, next, L) BY <1>0, <1>4, <2>1, Recursion
  <2> QED BY <2>2 DEF Follows
<1>6. \A n \in 0 .. L : f[n] = IF n = 0 THEN m ELSE MapPage(f[n - 1], n - 1, (n - 1) * PageSize)
  <2> TAKE n \in 0 .. L
  <2>1. CASE n = 0 BY <2>1, <1>5
  <2>2. CASE n # 0
    <3>1. n \in 1 .. L /\ f[n - 1] \in X BY <2>2, <1>0
    <3> QED BY <3>1, <2>2, <1>2, <1>5
  <2> QED BY <2>1, <2>2
<1>7. f = [n \in 0 .. L |-> f[n]] OBVIOUS
<1>8. f = [n \in 0 .. L |-> IF n = 0 THEN m ELSE MapPage(f[n - 1], n - 1, (n - 1) * PageSize)]
  BY <1>6, <1>7
<1> QED BY <1>8 DEF Lowering

\* The tables of the first pages.
TablesTo(n) == UNION {Path(v) : v \in 0 .. n - 1}

LEMMA TablesGrow ==
  ASSUME NEW n \in Nat, IsFiniteSet(TablesTo(n))
  PROVE  /\ IsFiniteSet(TablesTo(n + 1)) /\ TablesTo(n + 1) = TablesTo(n) \cup Path(n)
         /\ Cardinality(TablesTo(n + 1))
              = Cardinality(TablesTo(n)) + Cardinality(Path(n) \ TablesTo(n))
<1> DEFINE new == Path(n) \ TablesTo(n)
<1>1. IsFiniteSet(Path(n)) BY PathTyped
<1>2. IsFiniteSet(new) BY <1>1, FS_Subset
<1>3. TablesTo(n + 1) = TablesTo(n) \cup Path(n)
  <2>1. \A v : v \in 0 .. n + 1 - 1 <=> v \in 0 .. n - 1 \/ v = n OBVIOUS
  <2> QED BY <2>1 DEF TablesTo
<1>4. TablesTo(n + 1) = TablesTo(n) \cup new BY <1>3
<1>5. TablesTo(n) \cap new = {} OBVIOUS
<1> HIDE DEF new
<1>6. PICK A, B : A = TablesTo(n) /\ B = new OBVIOUS
<1>7. /\ IsFiniteSet(A \cup B)
      /\ Cardinality(A \cup B) = Cardinality(A) + Cardinality(B) - Cardinality(A \cap B)
  BY <1>2, <1>6, FS_Union
<1>8. Cardinality(A \cap B) = 0 BY <1>5, <1>6, FS_EmptySet
<1>9. Cardinality(A) \in Nat /\ Cardinality(B) \in Nat BY <1>2, <1>6, FS_CardinalityType
<1>10. Cardinality(A \cup B) = Cardinality(A) + Cardinality(B) BY <1>7, <1>8, <1>9
<1>11. TablesTo(n + 1) = A \cup B BY <1>4, <1>6
<1> QED BY <1>3, <1>6, <1>7, <1>10, <1>11 DEF new

\* init_mem_page takes one page for each of the tables.
LowTo(R, m, x, n) ==
  /\ x.tabs = TablesTo(n) /\ IsFiniteSet(TablesTo(n))
  /\ Grows(R, m, x, Cardinality(TablesTo(n)))

\* The identity map takes a page for each table of low memory and maps nothing else.
LEMMA LowMaps ==
  ASSUME NEW R, Sound(R), NEW m, MemoryInv(R, m), m.tabs = {}, NEW f, Lowering(m, f)
  PROVE  LowTo(R, m, f[LowPages], LowPages)
<1> DEFINE L == LowPages
<1>0. L \in Nat /\ PageSize \in Nat BY LowTyped, MemblockAssumption
<1>1. \A n \in 0 .. L : f[n] = IF n = 0 THEN m ELSE MapPage(f[n - 1], n - 1, (n - 1) * PageSize)
  BY DEF Lowering
<1> DEFINE T == {n \in Nat : n <= L => LowTo(R, m, f[n], n)}
<1>2. 0 \in T
  <2>1. f[0] = m BY <1>0, <1>1
  <2>2. TablesTo(0) = {}
    <3>1. \A v : v \notin 0 .. 0 - 1 OBVIOUS
    <3> QED BY <3>1 DEF TablesTo
  <2>3. IsFiniteSet({}) /\ Cardinality({}) = 0 BY FS_EmptySet
  <2>4. Grows(R, m, m, 0)
    <3>1. PICK w : Draining(m, w) BY DrainingExists
    <3>2. Drained(R, m, w[0], 0) BY <3>1, Drains
    <3>3. w[0] = m BY <3>1 DEF Draining
    <3> QED BY <3>2, <3>3 DEF Drained
  <2>5. LowTo(R, m, m, 0) BY <2>2, <2>3, <2>4 DEF LowTo
  <2> QED BY <2>1, <2>5
<1>3. ASSUME NEW n \in T PROVE n + 1 \in T
  <2> SUFFICES ASSUME n + 1 <= L PROVE LowTo(R, m, f[n + 1], n + 1) OBVIOUS
  <2>0. n \in Nat /\ n <= L BY <1>0
  <2>1. LowTo(R, m, f[n], n) BY <2>0
  <2>2. PICK x : x = f[n] OBVIOUS
  <2>3. PICK a \in Nat : a = n * PageSize BY <1>0
  <2>4. PICK y : y = MapPage(x, n, a) OBVIOUS
  <2>5. f[n + 1] = y
    <3>1. n + 1 \in 0 .. L /\ n + 1 # 0 /\ n + 1 - 1 = n BY <2>0
    <3> QED BY <3>1, <1>1, <2>2, <2>3, <2>4
  <2>6. MemoryInv(R, x) BY <2>1, <2>2 DEF LowTo, Grows
  <2> HIDE DEF T
  <2>7. Grows(R, x, y, Cardinality(Path(n) \ x.tabs)) /\ Mapped(x, y, n, a)
    BY <2>0, <2>4, <2>6, MapPageGrows
  <2>8. x.tabs = TablesTo(n) /\ IsFiniteSet(TablesTo(n)) BY <2>1, <2>2 DEF LowTo
  <2>9. PICK p \in Nat, q \in Nat :
          p = Cardinality(TablesTo(n)) /\ q = Cardinality(Path(n) \ TablesTo(n))
    <3>1. IsFiniteSet(Path(n) \ TablesTo(n)) BY <2>0, PathTyped, FS_Subset
    <3> QED BY <3>1, <2>8, FS_CardinalityType
  <2>10. Grows(R, m, x, p) /\ Grows(R, x, y, q) BY <2>1, <2>2, <2>7, <2>8, <2>9 DEF LowTo
  <2>11. Grows(R, m, y, p + q) BY <2>10, GrowsOn
  <2>12. /\ TablesTo(n + 1) = TablesTo(n) \cup Path(n) /\ IsFiniteSet(TablesTo(n + 1))
         /\ Cardinality(TablesTo(n + 1)) = p + q
    BY <2>0, <2>8, <2>9, TablesGrow
  <2>13. y.tabs = TablesTo(n + 1) BY <2>7, <2>8, <2>12 DEF Mapped
  <2>14. LowTo(R, m, y, n + 1) BY <2>11, <2>12, <2>13 DEF LowTo
  <2> QED BY <2>5, <2>14
<1>4. T = Nat
  <2> HIDE DEF T
  <2>1. T \in SUBSET Nat BY DEF T
  <2> QED BY <1>2, <1>3, <2>1, Successors
<1> QED BY <1>0, <1>4

-----------------------------------------------------------------------------
\* The regions the boot code starts from are the firmware's RAM.

\* The sanitised map says of its regions what the firmware says.
LEMMA CleanByte ==
  ASSUME NEW r \in Reports, NEW clean \in Seq(Solid), clean = sanitize(memory_detect(r)),
         Ascending(clean), NEW i \in 1 .. Len(clean), NEW a \in Bytes(clean[i])
  PROVE  a \in Nat /\ a + 1 < Word /\ TypeAt(Reported(r), a) = clean[i].type
<1>0. clean \in Seq(Region) BY SeqMonotonic DEF Solid
<1>1. PICK n \in Nat : n = Len(clean) BY LenProperties
<1>2. PICK e \in Region : e = clean[i] BY <1>0, ElementOfSeq
<1>3. a \in Nat /\ e.base <= a /\ a < End(e) /\ e.type \in 1 .. 7
  BY <1>2 DEF Region, Bytes, End
<1>4. TypesAt(clean, a) = {e.type}
  <2>1. e.type \in TypesAt(clean, a) BY <1>0, <1>2, TypesAtAre
  <2>2. ASSUME NEW t \in TypesAt(clean, a) PROVE t = e.type
    <3>1. PICK k \in 1 .. n : a \in Bytes(clean[k]) /\ t = clean[k].type
      BY <1>0, <1>1, TypesAtAre
    <3>2. PICK f \in Region : f = clean[k] BY <1>0, <1>1, ElementOfSeq
    <3>3. f.base <= a /\ a < End(f) BY <3>1, <3>2, <1>3 DEF Region, Bytes, End
    <3>4. k # i => a # a BY <1>0, <1>1, <1>2, <1>3, <3>2, <3>3, RegionsApart
    <3> QED BY <3>1, <3>4, <1>2
  <2> QED BY <2>1, <2>2
<1>5. TypeAt(Range(clean), a) = e.type
  <2>1. TypeAt(Range(clean), a) = Max0({e.type}) BY <1>0, <1>4, TypesAtTyped
  <2>2. Max0({e.type}) \in {e.type} BY <1>3, LargestTyped
  <2> QED BY <2>1, <2>2
<1>6. ~ Failed(r)
  <2> SUFFICES ASSUME Failed(r) PROVE FALSE OBVIOUS
  <2>1. memory_detect(r) = <<>> BY DEF memory_detect
  <2>2. SameMemory(clean, <<>>) BY <2>1, Sanitized DEF SweptOut
  <2>3. PICK none \in Seq(Solid) : none = <<>> BY EmptySeq
  <2>a. Under(none, 0) BY <2>3, EmptySeq DEF Under
  <2>b. 0 \in Nat /\ 0 <= a BY <1>3
  <2>4. TypeAt(Range(none), a) = 0 BY <2>3, <2>a, <2>b, <1>3, NothingAbove
  <2> QED BY <1>3, <1>5, <2>2, <2>3, <2>4 DEF SameMemory
<1>7. TypeAt(Reported(r), a) = e.type BY <1>3, <1>5, <1>6, Sanitized
<1>8. a + 1 < Word
  <2>1. PICK x \in Reported(r) : a \in Bytes(x)
    <3> SUFFICES ASSUME \A x \in Reported(r) : a \notin Bytes(x) PROVE FALSE OBVIOUS
    <3>1. {x \in Reported(r) : a \in Bytes(x)} = {} OBVIOUS
    <3>2. {x.type : x \in {}} = {} OBVIOUS
    <3>3. TypeAt(Reported(r), a) = Max0({}) BY <3>1, <3>2 DEF TypeAt
    <3>4. Max0({}) = 0 BY DEF Max0
    <3> QED BY <3>3, <3>4, <1>3, <1>7
  <2>2. PICK k \in DOMAIN r.answers : x = r.answers[k] BY DEF Reported, Range
  <2>3. r.answers \in Seq(Answer) /\ End(x) < Word BY <2>2, ReportAssumption DEF Answer
  <2>4. x \in Answer BY <2>2, <2>3
  <2>5. a < End(x) /\ End(x) \in Nat BY <2>1, <2>4, <1>3 DEF Answer, Bytes, End
  <2> QED BY <1>3, <2>3, <2>5, MemblockAssumption
<1> QED BY <1>2, <1>3, <1>7, <1>8

\* Clipping a region at the kernel's end leaves the rest of it as it is.
LEMMA Clips ==
  ASSUME NEW e \in Solid, Behind(e)
  PROVE  /\ Clipped(e) \in Region /\ KernelEnd <= Clipped(e).base /\ e.base <= Clipped(e).base
         /\ End(Clipped(e)) = End(e) /\ Clipped(e).type = e.type
         /\ (KernelEnd <= e.base => Clipped(e) = e)
<1>0. e \in Region /\ KernelEnd \in Nat BY MemblockAssumption DEF Solid
<1>1. PICK b \in Nat, l \in Nat : b = e.base /\ l = e.limit BY <1>0 DEF Region
<1>2. End(e) = b + l /\ KernelEnd <= b + l BY <1>1 DEF End, Behind
<1>3. PICK c : c = Clipped(e) OBVIOUS
<1>4. CASE b < KernelEnd
  <2>1. PICK d \in Nat : d = l - KernelEnd + b BY <1>0, <1>2
  <2>2. c = [base |-> KernelEnd, limit |-> d, type |-> e.type]
    BY <1>1, <1>3, <1>4, <2>1 DEF Clipped
  <2>3. c \in Region BY <1>0, <2>2 DEF Region
  <2>4. c.base = KernelEnd /\ c.limit = d /\ c.type = e.type BY <2>2
  <2>5. End(c) = b + l BY <2>1, <2>4, <1>0 DEF End
  <2>6. ~ (KernelEnd <= e.base) /\ e.base <= KernelEnd BY <1>0, <1>1, <1>4
  <2> QED BY <1>0, <1>2, <1>3, <2>3, <2>4, <2>5, <2>6
<1>5. CASE ~ (b < KernelEnd)
  <2>1. c = e BY <1>1, <1>3, <1>5 DEF Clipped
  <2>2. KernelEnd <= b BY <1>0, <1>5
  <2> QED BY <1>0, <1>1, <1>3, <2>1, <2>2
<1> QED BY <1>4, <1>5

\* The regions that begin above the identity map are those of the sanitised map, and a region
\* of RAM is said to be RAM by the firmware.
Faithful(r, R) ==
  /\ \A j \in 1 .. Len(R) : \A a \in Bytes(R[j]) : TypeAt(Reported(r), a) = R[j].type
  /\ \A e \in Range(sanitize(memory_detect(r))) :
       KernelEnd <= e.base => \E j \in 1 .. Len(R) : R[j] = e

LEMMA RegionsTold ==
  ASSUME NEW r \in Reports
  PROVE  Sound(Regions(r)) /\ Faithful(r, Regions(r))
<1> DEFINE clean == sanitize(memory_detect(r))
           T == {i \in 1 .. Len(clean) : Behind(clean[i])}
           g == [i \in 1 .. Len(clean) |-> Clipped(clean[i])]
           R == Regions(r)
<1>1. clean \in Seq(Solid) /\ Ascending(clean) BY Sanitized DEF SweptOut
<1>2. PICK q \in Nat : q = Len(clean) BY <1>1, LenProperties
<1>3. DOMAIN clean = 1 .. q BY <1>1, <1>2, LenProperties
<1>4. \A i \in 1 .. q : clean[i] \in Solid BY <1>1, <1>2, ElementOfSeq
<1>5. R = FlattenSeq(Selection(g, q, T))
  <2>1. R = FlattenSeq([i \in 1 .. q |-> IF Behind(clean[i]) THEN <<Clipped(clean[i])>> ELSE <<>>])
    BY <1>3 DEF Regions, init_memblock
  <2>2. \A i \in 1 .. q : g[i] = Clipped(clean[i]) BY <1>2
  <2>3. \A i \in 1 .. q : i \in T <=> Behind(clean[i]) BY <1>2
  <2> HIDE DEF g, T, clean, R
  <2>4. [i \in 1 .. q |-> IF Behind(clean[i]) THEN <<Clipped(clean[i])>> ELSE <<>>]
          = Selection(g, q, T)
    BY <2>2, <2>3 DEF Selection
  <2> QED BY <2>1, <2>4
<1>6. \A i \in 1 .. q : g[i] = Clipped(clean[i]) /\ (i \in T <=> Behind(clean[i])) BY <1>2
<1> HIDE DEF clean, T, g, R
<1>7. \A i \in T \cap (1 .. q) :
        /\ g[i] \in Region /\ KernelEnd <= g[i].base /\ clean[i].base <= g[i].base
        /\ End(g[i]) = End(clean[i]) /\ g[i].type = clean[i].type
        /\ (KernelEnd <= clean[i].base => g[i] = clean[i])
  BY <1>4, <1>6, Clips
<1>8. R \in Seq(Region) /\ \E pos : Picks(R, g, q, T, pos) BY <1>5, <1>7, Selected
<1>9. PICK n \in Nat : n = Len(R) BY <1>8, LenProperties
<1>10. PICK pos \in [1 .. n -> T \cap (1 .. q)] :
         /\ \A k \in 1 .. n : R[k] = g[pos[k]]
         /\ \A k, l \in 1 .. n : k < l => pos[k] < pos[l]
         /\ \A i \in T \cap (1 .. q) : \E k \in 1 .. n : pos[k] = i
  BY <1>8, <1>9 DEF Picks
<1>11. \A j \in 1 .. n :
         /\ R[j] \in Region /\ KernelEnd <= R[j].base /\ clean[pos[j]].base <= R[j].base
         /\ End(R[j]) = End(clean[pos[j]]) /\ R[j].type = clean[pos[j]].type
  <2> TAKE j \in 1 .. n
  <2>1. PICK i \in T \cap (1 .. q) : i = pos[j] BY <1>10
  <2>2. R[j] = g[i] BY <2>1, <1>10
  <2> QED BY <2>1, <2>2, <1>7
<1>12. Ascending(R)
  <2> SUFFICES ASSUME NEW i \in 1 .. n, NEW j \in 1 .. n, i < j PROVE End(R[i]) <= R[j].base
    BY <1>9 DEF Ascending
  <2>1. PICK k \in 1 .. q, l \in 1 .. q : k = pos[i] /\ l = pos[j] /\ k < l BY <1>10
  <2>2. End(clean[k]) <= clean[l].base BY <2>1, <1>1, <1>2 DEF Ascending
  <2>3. End(R[i]) = End(clean[k]) /\ clean[l].base <= R[j].base BY <2>1, <1>11
  <2>4. End(R[i]) \in Nat /\ R[j].base \in Nat BY <1>11, EndTyped
  <2>5. clean[l].base \in Nat BY <1>4 DEF Solid, Region
  <2> QED BY <2>2, <2>3, <2>4, <2>5
<1>13. ASSUME NEW j \in 1 .. n, NEW a \in Bytes(R[j]) PROVE TypeAt(Reported(r), a) = R[j].type
  <2>1. PICK k \in 1 .. q : k = pos[j] BY <1>10
  <2>2. clean[k].base <= R[j].base /\ End(R[j]) = End(clean[k]) /\ R[j].type = clean[k].type
    BY <2>1, <1>11
  <2>3. R[j].base \in Nat /\ End(R[j]) \in Nat /\ clean[k].base \in Nat
    BY <1>4, <1>11, EndTyped DEF Solid, Region
  <2>4. a \in Bytes(clean[k]) BY <1>13, <2>2, <2>3 DEF Bytes
  <2>5. TypeAt(Reported(r), a) = clean[k].type BY <2>4, <1>1, <1>2, CleanByte DEF clean
  <2> QED BY <2>2, <2>5
<1>14. ASSUME NEW j \in 1 .. n PROVE End(R[j]) < Word
  <2>1. PICK k \in 1 .. q : k = pos[j] BY <1>10
  <2>2. End(R[j]) = End(clean[k]) BY <2>1, <1>11
  <2>3. PICK e \in Solid : e = clean[k] BY <1>4
  <2>4. PICK a : a = End(e) - 1 OBVIOUS
  <2>5. a \in Bytes(e) /\ End(e) \in Nat BY <2>4 DEF Solid, Region, Bytes, End
  <2>6. a \in Nat /\ a + 1 < Word BY <2>3, <2>5, <1>1, <1>2, CleanByte DEF clean
  <2> QED BY <2>2, <2>3, <2>4, <2>5, <2>6, MemblockAssumption
<1>15. ASSUME NEW j \in 1 .. n, End(R[j]) > Low
       PROVE  Aligned(R[j].base) /\ Aligned(End(R[j]))
  <2>1. R[j] \in Range(Regions(r)) BY <1>8, <1>9, LenProperties DEF Range, R
  <2>2. R[j].base % PageSize = 0 /\ End(R[j]) % PageSize = 0
    BY <2>1, <1>15, RegionAssumption
  <2>3. R[j].base \in Nat /\ End(R[j]) \in Nat BY <1>11, EndTyped
  <2> QED BY <2>2, <2>3, AlignedIff
<1>16. Sound(R) BY <1>8, <1>9, <1>11, <1>12, <1>14, <1>15 DEF Sound
<1>17. ASSUME NEW e \in Range(clean), KernelEnd <= e.base PROVE \E j \in 1 .. n : R[j] = e
  <2>1. PICK i \in 1 .. q : e = clean[i] BY <1>3 DEF Range
  <2>2. e \in Solid BY <2>1, <1>4
  <2>3. Behind(e) BY <2>2, <1>17, MemblockAssumption DEF Behind, End, Solid, Region
  <2>4. i \in T \cap (1 .. q) BY <2>1, <2>3, <1>6
  <2>5. PICK k \in 1 .. n : pos[k] = i BY <2>4, <1>10
  <2>6. R[k] = g[i] /\ g[i] = e BY <2>1, <2>4, <2>5, <1>7, <1>10, <1>17
  <2> QED BY <2>6
<1>18. Faithful(r, R) BY <1>9, <1>13, <1>17 DEF Faithful, clean
<1> QED BY <1>16, <1>18 DEF R

-----------------------------------------------------------------------------
\* Cutting the memory above the identity map into ranges.

\* What is left of a region above the identity map goes on to the region's end, and lies
\* behind all that has been handed out.
Untouched(R, E, l) ==
  \A j \in 1 .. Len(R) : Over(E[j], Low) =>
    End(E[j]) = End(R[j]) /\ (l.base > 0 => End(l) <= E[j].base)

LEMMA LowBase == AllocBase(Low) = Low
<1>1. PICK r : r = Low % PageSize /\ r = 0 BY VmemmapAssumption
<1>2. Low + r = Low BY <1>1, VmemmapAssumption
<1> QED BY <1>1, <1>2 DEF AllocBase

\* What it is to be over the identity map, in numbers.
LEMMA OverIs == ASSUME NEW e PROVE Over(e, Low) <=> e.limit # 0 /\ End(e) > Low
BY LowBase DEF Over

\* The region that alloc_all_over_memory takes is the first over the identity map.
LEMMA FirstOverIs ==
  ASSUME NEW n \in Nat, NEW E \in [1 .. n -> Region]
  PROVE  \/ FirstOver(E, Low) = 0 /\ \A j \in 1 .. n : ~ Over(E[j], Low)
         \/ /\ FirstOver(E, Low) \in 1 .. n /\ Over(E[FirstOver(E, Low)], Low)
            /\ \A j \in 1 .. n : Over(E[j], Low) => FirstOver(E, Low) <= j
<1> DEFINE I == {i \in 1 .. Len(E) : Over(E[i], Low)}
<1>1. Len(E) = n OBVIOUS
<1>2. FirstOver(E, Low) = IF I # {} THEN Min(I) ELSE 0 BY DEF FirstOver, SelectInSeq
<1>3. ASSUME I # {} PROVE Min(I) \in I /\ \A y \in I : Min(I) <= y
  <2>1. I \in SUBSET Nat BY <1>1
  <2> HIDE DEF I
  <2>2. \E x \in I : \A y \in I : x <= y BY <1>3, <2>1, Least
  <2> QED BY <2>2 DEF Min
<1>4. CASE I = {} BY <1>1, <1>2, <1>4
<1>5. CASE I # {}
  <2>1. FirstOver(E, Low) \in I /\ \A y \in I : FirstOver(E, Low) <= y BY <1>2, <1>3, <1>5
  <2> HIDE DEF I
  <2>2. FirstOver(E, Low) \in 1 .. n /\ Over(E[FirstOver(E, Low)], Low)
    BY <1>1, <2>1 DEF I
  <2>3. \A j \in 1 .. n : Over(E[j], Low) => j \in I BY <1>1 DEF I
  <2> QED BY <2>1, <2>2, <2>3
<1> QED BY <1>4, <1>5

\* alloc_all_over_memory cuts a region in two.
Cut(e, range, rem) ==
  /\ range \in Region /\ rem \in Region
  /\ Low <= range.base /\ e.base <= range.base /\ End(range) <= End(e)
  /\ Aligned(range.base) /\ Aligned(End(range))
  /\ range.type = e.type /\ rem.type = e.type
  /\ rem.base = e.base /\ End(rem) = range.base /\ ~ Over(rem, Low)
  /\ Low <= e.base => range = e /\ range.limit # 0

\* The cut leaves the part below the identity map and hands out the rest.
LEMMA Cuts ==
  ASSUME NEW e \in Region, Over(e, Low), Aligned(e.base), Aligned(End(e)), End(e) < Word,
         e.base < Low => Low <= e.limit
  PROVE  Cut(e, HandedOut(e, Low), Remaining(e, Low))
<1>0. Low \in Nat \ {0} /\ Word \in Nat \ {0} BY VmemmapAssumption, MemblockAssumption
<1>1. PICK b \in Nat, l \in Nat : b = e.base /\ l = e.limit BY DEF Region
<1>2. End(e) = b + l BY <1>1 DEF End
<1>3. l # 0 /\ b + l > Low BY <1>1, <1>2, OverIs
<1>4. PICK range : range = HandedOut(e, Low) OBVIOUS
<1>5. PICK rem : rem = Remaining(e, Low) OBVIOUS
<1>6. CASE b < Low
  <2>1. PICK d \in Nat : d = l - Low /\ d < Word BY <1>0, <1>1, <1>2, <1>6
  <2>2. (l - Low + Word) % Word = d
    <3>1. PICK s \in Nat : s = l - Low + Word /\ s = d + Word BY <1>0, <2>1
    <3>2. s % Word = d BY <3>1, <2>1, <1>0
    <3> QED BY <3>1, <3>2
  <2>3. range = [base |-> Low, limit |-> d, type |-> e.type]
    BY <1>1, <1>4, <1>6, <2>2, LowBase DEF HandedOut
  <2>4. PICK c \in Nat : c = Low - b BY <1>0, <1>6
  <2>5. rem = [base |-> b, type |-> e.type, limit |-> c]
    BY <1>1, <1>5, <1>6, <2>4, LowBase DEF Remaining
  <2>6. range \in Region /\ rem \in Region BY <1>0, <2>3, <2>5 DEF Region
  <2>7. range.base = Low /\ range.limit = d /\ range.type = e.type BY <2>3
  <2>8. rem.base = b /\ rem.limit = c /\ rem.type = e.type BY <2>5
  <2>9. End(range) = l BY <2>7, <2>1, <1>0 DEF End
  <2>10. End(rem) = Low BY <2>8, <2>4, <1>0, <1>6 DEF End
  <2>11. ~ Over(rem, Low) BY <2>10, <1>0, OverIs
  <2>12. Aligned(l)
    <3>1. b <= b + l /\ b + l - b = l OBVIOUS
    <3>2. Aligned(b) /\ Aligned(b + l) BY <1>1, <1>2
    <3>3. Aligned(b + l - b) BY <3>1, <3>2, AlignedSum
    <3> QED BY <3>1, <3>3
  <2>13. Cut(e, range, rem)
    BY <1>0, <1>1, <1>2, <1>6, <2>6, <2>7, <2>8, <2>9, <2>10, <2>11, <2>12, PageAligned DEF Cut
  <2> QED BY <1>4, <1>5, <2>13
<1>7. CASE ~ (b < Low)
  <2>1. range = e BY <1>1, <1>4, <1>7, LowBase DEF HandedOut
  <2>2. rem = [base |-> b, type |-> e.type, limit |-> 0]
    BY <1>1, <1>5, <1>7, LowBase DEF Remaining
  <2>3. rem \in Region BY <2>2 DEF Region
  <2>4. rem.base = b /\ rem.limit = 0 /\ rem.type = e.type BY <2>2
  <2>5. End(rem) = b BY <2>4 DEF End
  <2>6. ~ Over(rem, Low) BY <2>4, OverIs
  <2>7. Low <= b /\ b <= b + l BY <1>0, <1>7
  <2>8. Cut(e, range, rem)
    BY <1>1, <1>2, <1>3, <2>1, <2>3, <2>4, <2>5, <2>6, <2>7 DEF Cut
  <2> QED BY <1>4, <1>5, <2>8
<1> QED BY <1>6, <1>7

\* A range that populate_vmemmap_range works on.
Piece == {r \in Region : /\ Aligned(r.base) /\ Aligned(End(r)) /\ PageSize <= r.limit
                         /\ End(r) < MaxSupport /\ Low <= r.base}

\* The ranges that wait follow each other up to the end of the range handed out last, or up
\* to its beginning, if that one goes beyond the supported memory.
Queue(l, q) ==
  \/ q = <<>>
  \/ \E r \in Piece : /\ q = <<r>>
                      /\ End(r) = End(l) \/ (End(r) = l.base /\ MaxSupport <= End(l))
  \/ \E r, s \in Piece : q = <<r, s>> /\ End(r) = s.base /\ End(s) = End(l)

\* The array of struct pages ends where the next page begins, if there is one.
Edge(l, q, a) == IF q = <<>> THEN a = End(l) \/ MaxSupport <= End(l) ELSE a = q[1].base

\* Below Word, the end is computed without a wrap.
LEMMA EndOfIs == ASSUME NEW r \in Region, End(r) < Word PROVE EndOf(r) = End(r)
<1>1. PICK a \in Nat : a = End(r) BY EndTyped
<1>2. a % Word = a BY <1>1, MemblockAssumption
<1> QED BY <1>1, <1>2 DEF EndOf

\* A range is worked on as a whole or not at all.
LEMMA PopulatedIs ==
  ASSUME NEW r \in Region, End(r) < Word, Low <= r.base, Aligned(r.base), Aligned(End(r))
  PROVE  \/ Populated(r) = <<r>> /\ r \in Piece
         \/ Populated(r) = <<>> /\ (MaxSupport <= End(r) \/ r.limit = 0)
<1>1. EndOf(r) = End(r) BY EndOfIs
<1>2. r.base \in Nat /\ r.limit \in Nat /\ End(r) \in Nat BY EndTyped
<1>3. r.limit >= PageSize \/ r.limit = 0
  <2>1. r.base < End(r) => r.base + PageSize <= End(r) BY <1>2, AlignedGap
  <2>2. End(r) = r.base + r.limit BY DEF End
  <2> QED BY <1>2, <2>1, <2>2, MemblockAssumption
<1>4. CASE End(r) < MaxSupport /\ r.limit >= PageSize
  <2>1. Populated(r) = <<r>> BY <1>1, <1>4 DEF Populated
  <2>2. r \in Piece BY <1>2, <1>4, MemblockAssumption DEF Piece
  <2> QED BY <2>1, <2>2
<1>5. CASE ~ (End(r) < MaxSupport /\ r.limit >= PageSize)
  <2>1. Populated(r) = <<>> BY <1>1, <1>5 DEF Populated
  <2>2. MaxSupport <= End(r) \/ r.limit = 0 BY <1>2, <1>3, <1>5, VmemmapAssumption
  <2> QED BY <2>1, <2>2
<1> QED BY <1>4, <1>5

-----------------------------------------------------------------------------
\* The ranges that NextRange hands out.

\* The last range handed out.
Handed(l) == /\ l \in Region /\ Low <= l.base /\ Aligned(l.base) /\ Aligned(End(l)) /\ End(l) < Word

\* The ranges of one turn of init_sparse_vmemmap.
Turn(l, range, q) ==
  /\ Queue(range, q)
  /\ l.base > 0 => \A a \in Nat : Edge(l, <<>>, a) => Edge(range, q, a)
  /\ \A k \in 1 .. Len(q) : q[k].type = RAM => q[k] = range
  /\ (End(range) < MaxSupport /\ range.limit # 0) => \E k \in 1 .. Len(q) : q[k] = range

LEMMA Lengths ==
  /\ Len(<<>>) = 0 /\ \A r : Len(<<r>>) = 1 /\ <<r>>[1] = r /\ <<r>> # <<>>
  /\ \A r, s : Len(<<r, s>>) = 2 /\ <<r, s>>[1] = r /\ <<r, s>>[2] = s /\ <<r, s>> # <<>>
OBVIOUS

\* Ranges that follow each other make a queue.
LEMMA Joins ==
  /\ <<>> \o <<>> = <<>>
  /\ \A r : <<>> \o <<r>> = <<r>> /\ <<r>> \o <<>> = <<r>>
  /\ \A r, s : <<r>> \o <<s>> = <<r, s>>
<1>1. ASSUME NEW r PROVE <<r>> \in Seq({r}) OBVIOUS
<1>2. ASSUME NEW r PROVE <<>> \o <<r>> = <<r>> /\ <<r>> \o <<>> = <<r>>
  BY <1>1, ConcatEmptySeq
<1>3. <<>> \o <<>> = <<>>
  <2>1. <<>> \in Seq({}) BY EmptySeq
  <2> QED BY <2>1, ConcatEmptySeq
<1>4. ASSUME NEW r, NEW s PROVE <<r>> \o <<s>> = <<r, s>>
  <2> DEFINE x == <<r>>  y == <<s>>  z == <<r, s>>  q == x \o y
  <2>1. x \in Seq({r, s}) /\ Len(x) = 1 /\ x[1] = r OBVIOUS
  <2>2. y \in Seq({r, s}) /\ Len(y) = 1 /\ y[1] = s OBVIOUS
  <2>3. z \in Seq({r, s}) /\ Len(z) = 2 /\ z[1] = r /\ z[2] = s OBVIOUS
  <2> HIDE DEF x, y, z
  <2>4. /\ q \in Seq({r, s}) /\ Len(q) = 1 + 1
        /\ \A i \in 1 .. 1 + 1 : q[i] = IF i <= 1 THEN x[i] ELSE y[i - 1]
    <3>1. /\ x \o y \in Seq({r, s}) /\ Len(x \o y) = Len(x) + Len(y)
          /\ \A i \in 1 .. Len(x) + Len(y) :
               (x \o y)[i] = IF i <= Len(x) THEN x[i] ELSE y[i - Len(x)]
      BY <2>1, <2>2, ConcatProperties, Zenon
    <3>2. Len(x) = 1 /\ Len(y) = 1 BY <2>1, <2>2
    <3> QED BY <3>1, <3>2, Zenon
  <2> HIDE DEF q
  <2>5. Len(q) = 2 /\ q[1] = r /\ q[2] = s
    <3>1. 1 \in 1 .. 1 + 1 /\ 2 \in 1 .. 1 + 1 /\ 2 - 1 = 1 /\ 1 + 1 = 2 OBVIOUS
    <3>2. q[1] = x[1] /\ q[2] = y[2 - 1] BY <3>1, <2>4
    <3> QED BY <3>1, <3>2, <2>1, <2>2, <2>4
  <2>6. \A i \in 1 .. 2 : q[i] = z[i]
    <3>1. \A i \in 1 .. 2 : i = 1 \/ i = 2 OBVIOUS
    <3> QED BY <3>1, <2>3, <2>5
  <2>7. q = z BY <2>3, <2>4, <2>5, <2>6, SeqEqual
  <2> QED BY <2>7 DEF q, x, y, z
<1> QED BY <1>2, <1>3, <1>4

\* A range that follows the one before it at once.
LEMMA NoGap ==
  ASSUME NEW l, NEW range, Handed(range), NEW q, q = Populated(range),
         l.base > 0 => Handed(l) /\ End(l) = range.base /\ range.limit # 0
  PROVE  Turn(l, range, q)
<1>0. range \in Region /\ range.base \in Nat /\ range.limit \in Nat /\ End(range) \in Nat
      /\ range.base <= End(range)
  BY EndTyped DEF Handed
<1>m. MaxSupport \in Nat /\ PageSize \in Nat \ {0} BY VmemmapAssumption, MemblockAssumption
<1>1. \/ q = <<range>> /\ range \in Piece
      \/ q = <<>> /\ (MaxSupport <= End(range) \/ range.limit = 0)
  BY PopulatedIs DEF Handed
<1>2. CASE q = <<range>> /\ range \in Piece
  <2>1. End(range) < MaxSupport BY <1>2 DEF Piece
  <2>2. Len(q) = 1 /\ q[1] = range /\ q # <<>> BY <1>2, Lengths
  <2>3. Queue(range, q) BY <1>2 DEF Queue
  <2>4. ASSUME l.base > 0, NEW a \in Nat, Edge(l, <<>>, a) PROVE Edge(range, q, a)
    <3>1. a = End(l) \/ MaxSupport <= End(l) BY <2>4 DEF Edge
    <3>2. End(l) = range.base BY <2>4
    <3>3. a = range.base BY <3>1, <3>2, <2>1, <1>0, <1>m
    <3> QED BY <3>3, <2>2 DEF Edge
  <2>5. \A k \in 1 .. Len(q) : q[k] = range BY <2>2
  <2>6. 1 \in 1 .. Len(q) BY <2>2
  <2> QED BY <2>2, <2>3, <2>4, <2>5, <2>6 DEF Turn
<1>3. CASE q = <<>> /\ (MaxSupport <= End(range) \/ range.limit = 0)
  <2>1. Queue(range, q) BY <1>3 DEF Queue
  <2>2. ASSUME l.base > 0, NEW a \in Nat, Edge(l, <<>>, a) PROVE Edge(range, q, a)
    <3>1. MaxSupport <= End(range) BY <2>2, <1>3
    <3> QED BY <3>1, <1>3 DEF Edge
  <2>3. \A k : k \notin 1 .. Len(q) BY <1>3, Lengths
  <2>4. ~ (End(range) < MaxSupport /\ range.limit # 0) BY <1>0, <1>3, <1>m
  <2> QED BY <2>1, <2>2, <2>3, <2>4 DEF Turn
<1> QED BY <1>1, <1>2, <1>3

\* A range with a gap in front of it.
LEMMA WithGap ==
  ASSUME NEW l, Handed(l), NEW range, Handed(range), End(l) < range.base, range.limit # 0,
         NEW g \in Region, g.base = End(l), End(g) = range.base, g.limit # 0, g.type # RAM,
         NEW q, q = Populated(g) \o Populated(range)
  PROVE  Turn(l, range, q)
<1>0. /\ range \in Region /\ range.base \in Nat /\ range.limit \in Nat /\ End(range) \in Nat
      /\ range.base < End(range)
  BY EndTyped DEF Handed, Region, End
<1>l. l.base \in Nat /\ End(l) \in Nat /\ l.base <= End(l) /\ Low <= l.base BY EndTyped DEF Handed
<1>m. MaxSupport \in Nat /\ PageSize \in Nat \ {0} /\ Low \in Nat \ {0} /\ Word \in Nat
  BY VmemmapAssumption, MemblockAssumption
<1>1. \/ Populated(range) = <<range>> /\ range \in Piece
      \/ Populated(range) = <<>> /\ MaxSupport <= End(range)
  BY PopulatedIs DEF Handed
<1>2. \/ Populated(g) = <<g>> /\ g \in Piece
      \/ Populated(g) = <<>> /\ MaxSupport <= range.base
  <2>1. End(g) < Word BY <1>0, <1>m DEF Handed
  <2>2. Low <= g.base BY <1>l, <1>m
  <2>3. Aligned(g.base) /\ Aligned(End(g)) BY DEF Handed
  <2>4. \/ Populated(g) = <<g>> /\ g \in Piece
        \/ Populated(g) = <<>> /\ (MaxSupport <= End(g) \/ g.limit = 0)
    BY <2>1, <2>2, <2>3, PopulatedIs
  <2> QED BY <2>4
<1>3. CASE Populated(g) = <<g>> /\ g \in Piece
  <2>1. range.base < MaxSupport BY <1>3 DEF Piece
  <2>2. ASSUME NEW a \in Nat, Edge(l, <<>>, a) PROVE a = End(l)
    <3>1. a = End(l) \/ MaxSupport <= End(l) BY <2>2 DEF Edge
    <3> QED BY <3>1, <2>1, <1>0, <1>l, <1>m
  <2>3. CASE Populated(range) = <<range>> /\ range \in Piece
    <3>1. q = <<g, range>> BY <1>3, <2>3, Joins
    <3>2. Len(q) = 2 /\ q[1] = g /\ q[2] = range /\ q # <<>> BY <3>1, Lengths
    <3>3. Queue(range, q) BY <3>1, <1>3, <2>3 DEF Queue
    <3>4. \A a \in Nat : Edge(l, <<>>, a) => Edge(range, q, a) BY <2>2, <3>2 DEF Edge
    <3>5. \A k \in 1 .. Len(q) : k = 1 \/ k = 2 BY <3>2
    <3>6. \A k \in 1 .. Len(q) : q[k].type = RAM => q[k] = range BY <3>2, <3>5
    <3>7. 2 \in 1 .. Len(q) BY <3>2
    <3> QED BY <3>2, <3>3, <3>4, <3>6, <3>7 DEF Turn
  <2>4. CASE Populated(range) = <<>> /\ MaxSupport <= End(range)
    <3>1. q = <<g>> BY <1>3, <2>4, Joins
    <3>2. Len(q) = 1 /\ q[1] = g /\ q # <<>> BY <3>1, Lengths
    <3>3. Queue(range, q) BY <3>1, <1>3, <2>4 DEF Queue
    <3>4. \A a \in Nat : Edge(l, <<>>, a) => Edge(range, q, a) BY <2>2, <3>2 DEF Edge
    <3>5. \A k \in 1 .. Len(q) : q[k].type # RAM BY <3>2
    <3>6. ~ (End(range) < MaxSupport) BY <2>4, <1>0, <1>m
    <3> QED BY <3>3, <3>4, <3>5, <3>6 DEF Turn
  <2> QED BY <1>1, <2>3, <2>4
<1>4. CASE Populated(g) = <<>> /\ MaxSupport <= range.base
  <2>1. MaxSupport <= End(range) BY <1>0, <1>4, <1>m
  <2>2. Populated(range) = <<>>
    <3>1. range \in Piece => End(range) < MaxSupport BY DEF Piece
    <3> QED BY <1>0, <1>1, <1>m, <2>1, <3>1
  <2>3. q = <<>> BY <1>4, <2>2, Joins
  <2>4. Queue(range, q) BY <2>3 DEF Queue
  <2>5. \A a \in Nat : Edge(range, q, a) BY <2>1, <2>3 DEF Edge
  <2>6. \A k : k \notin 1 .. Len(q) BY <2>3, Lengths
  <2>7. ~ (End(range) < MaxSupport) BY <2>1, <1>0, <1>m
  <2> QED BY <2>4, <2>5, <2>6, <2>7 DEF Turn
<1> QED BY <1>2, <1>3, <1>4

\* Any turn of init_sparse_vmemmap makes a queue.
LEMMA NextQueue ==
  ASSUME NEW range, Handed(range), last.base \in Nat,
         last.base > 0 => Handed(last) /\ End(last) <= range.base /\ range.limit # 0
  PROVE  Turn(last, range, Gap(range) \o Populated(range))
<1>1. \/ Populated(range) = <<range>> \/ Populated(range) = <<>> BY DEF Populated
<1>2. <<>> \o Populated(range) = Populated(range) BY <1>1, Joins
<1>3. CASE last.base > 0 /\ End(last) < range.base
  <2>1. /\ range.base \in Nat /\ End(last) \in Nat /\ last.base \in Nat
        /\ range \in Region /\ last \in Region
    BY <1>3, EndTyped DEF Handed
  <2>2. EndOf(last) = End(last) BY <1>3, <2>1, EndOfIs DEF Handed
  <2>3. PICK a \in Nat, b \in Nat : a = End(last) /\ b = range.base /\ a < b BY <1>3, <2>1
  <2>4. PICK g : g = [base |-> a, limit |-> b - a, type |-> 5] OBVIOUS
  <2>5. Gap(range) = Populated(g) BY <1>3, <2>2, <2>3, <2>4 DEF Gap
  <2>6. b - a \in Nat \ {0} BY <2>3
  <2>7. g \in Region BY <2>4, <2>6 DEF Region
  <2>8. g.base = a /\ g.limit = b - a /\ g.type = 5 BY <2>4
  <2>9. End(g) = b BY <2>8, <2>3 DEF End
  <2>10. g.type # RAM BY <2>8 DEF RAM
  <2> QED BY <1>3, <2>3, <2>5, <2>6, <2>7, <2>8, <2>9, <2>10, WithGap
<1>4. CASE ~ (last.base > 0 /\ End(last) < range.base)
  <2>1. Gap(range) = <<>>
    <3>1. CASE last.base > 0
      <4>1. EndOf(last) = End(last) BY <3>1, EndOfIs DEF Handed
      <4> QED BY <3>1, <4>1, <1>4 DEF Gap
    <3>2. CASE ~ (last.base > 0) BY <3>2 DEF Gap
    <3> QED BY <3>1, <3>2
  <2>2. ASSUME last.base > 0 PROVE End(last) = range.base
    <3>1. End(last) \in Nat /\ range.base \in Nat BY <2>2, EndTyped DEF Handed
    <3> QED BY <3>1, <2>2, <1>4
  <2>3. Gap(range) \o Populated(range) = Populated(range) BY <1>2, <2>1
  <2> QED BY <2>2, <2>3, NoGap
<1> QED BY <1>3, <1>4

-----------------------------------------------------------------------------
\* The queue of ranges, and how a page shortens it.

LEMMA Tails ==
  /\ \A r : Head(<<r>>) = r /\ Tail(<<r>>) = <<>>
  /\ \A r, s : Head(<<r, s>>) = r /\ Tail(<<r, s>>) = <<s>>
<1>1. ASSUME NEW r PROVE Head(<<r>>) = r /\ Tail(<<r>>) = <<>>
  <2>1. <<r>> \in Seq({r}) /\ Len(<<r>>) = 1 /\ <<r>>[1] = r OBVIOUS
  <2>2. Head(<<r>>) = r BY <2>1
  <2>3. Tail(<<r>>) \in Seq({r}) /\ Len(Tail(<<r>>)) = 0 BY <2>1, HeadTailProperties
  <2> QED BY <2>2, <2>3, EmptySeq
<1>2. ASSUME NEW r, NEW s PROVE Head(<<r, s>>) = r /\ Tail(<<r, s>>) = <<s>>
  <2> DEFINE z == <<r, s>>  t == Tail(z)  y == <<s>>
  <2>1. z \in Seq({r, s}) /\ Len(z) = 2 /\ z[1] = r /\ z[2] = s OBVIOUS
  <2>2. y \in Seq({r, s}) /\ Len(y) = 1 /\ y[1] = s OBVIOUS
  <2> HIDE DEF z, y
  <2>3. Head(z) = r BY <2>1
  <2>4. z # <<>>
    <3>1. Len(<<>>) = 0 BY Lengths
    <3> QED BY <3>1, <2>1
  <2>5. /\ t \in Seq({r, s}) /\ Len(t) = Len(z) - 1
        /\ \A i \in 1 .. Len(t) : t[i] = z[i + 1]
    BY <2>1, <2>4, HeadTailProperties
  <2> HIDE DEF t
  <2>6. Len(t) = 1 /\ t[1] = s
    <3>1. Len(t) = 1 BY <2>1, <2>5
    <3>2. 1 \in 1 .. Len(t) /\ 1 + 1 = 2 BY <3>1
    <3>3. t[1] = z[1 + 1] BY <3>2, <2>5
    <3> QED BY <3>1, <3>2, <3>3, <2>1
  <2>7. \A i \in 1 .. Len(t) : t[i] = y[i]
    <3>1. \A i \in 1 .. 1 : i = 1 OBVIOUS
    <3> QED BY <3>1, <2>2, <2>6
  <2>8. t = y BY <2>2, <2>5, <2>6, <2>7, SeqEqual
  <2> QED BY <2>3, <2>8 DEF z, t, y
<1> QED BY <1>1, <1>2

Holds(e, p) == e.base <= p * PageSize /\ p * PageSize + PageSize <= End(e)

Rest(r) == [base |-> r.base + PageSize, limit |-> r.limit - PageSize, type |-> r.type]
Shorter(q) == (IF Rest(Head(q)).limit >= PageSize THEN <<Rest(Head(q))>> ELSE <<>>) \o Tail(q)

LEMMA RestIs ==
  ASSUME NEW r \in Piece
  PROVE  /\ End(Rest(r)) = End(r) /\ Rest(r).base = r.base + PageSize /\ Rest(r).type = r.type
         /\ r.base \in Nat /\ r.base + PageSize \in Nat /\ Aligned(r.base)
         /\ \/ Rest(r) \in Piece /\ Rest(r).limit >= PageSize
            \/ End(r) = r.base + PageSize /\ ~ (Rest(r).limit >= PageSize)
<1>0. PICK P \in Nat \ {0} : P = PageSize BY MemblockAssumption
<1>1. r \in Region /\ Aligned(r.base) /\ Aligned(End(r)) /\ End(r) < MaxSupport /\ Low <= r.base
      /\ PageSize <= r.limit
  BY DEF Piece
<1>2. PICK b \in Nat, l \in Nat : b = r.base /\ l = r.limit /\ P <= l BY <1>0, <1>1 DEF Region
<1>3. PICK d \in Nat : d = l - P BY <1>2
<1>4. PICK f : f = Rest(r) OBVIOUS
<1>5. f = [base |-> b + P, limit |-> d, type |-> r.type] BY <1>0, <1>2, <1>3, <1>4 DEF Rest
<1>6. f.base = b + P /\ f.limit = d /\ f.type = r.type /\ f \in Region BY <1>1, <1>5 DEF Region
<1>7. End(r) = b + l /\ End(f) = b + l BY <1>2, <1>3, <1>6 DEF End
<1>8. Aligned(b + P) BY <1>0, <1>1, <1>2, PageAligned, AlignedSum
<1>9. b + P < b + l => b + P + P <= b + l BY <1>0, <1>1, <1>7, <1>8, AlignedGap
<1>10. CASE P <= d
  <2>1. f \in Piece
    <3>1. Low <= b + P BY <1>0, <1>1, <1>2, VmemmapAssumption
    <3> QED BY <3>1, <1>0, <1>1, <1>6, <1>7, <1>8, <1>10 DEF Piece
  <2> QED BY <2>1, <1>0, <1>1, <1>2, <1>4, <1>6, <1>7, <1>10
<1>11. CASE ~ (P <= d)
  <2>1. d = 0 BY <1>3, <1>9, <1>11
  <2>2. l = P BY <2>1, <1>3
  <2> QED BY <2>2, <1>0, <1>1, <1>2, <1>4, <1>6, <1>7, <1>11
<1> QED BY <1>10, <1>11

\* A turn of populate_vmemmap_range takes the first page off the ranges that wait.
Shrinks(l, q, q2) ==
  /\ Queue(l, q2) /\ Edge(l, q2, q[1].base + PageSize)
  /\ \A k \in 1 .. Len(q2) : \E m \in 1 .. Len(q) :
       q2[k].type = q[m].type /\ q[m].base <= q2[k].base /\ End(q2[k]) = End(q[m])
  /\ \A m \in 1 .. Len(q), p \in Nat : Holds(q[m], p) =>
       \/ p * PageSize = q[1].base /\ m = 1
       \/ \E k \in 1 .. Len(q2) : q2[k].type = q[m].type /\ Holds(q2[k], p)

\* A page of a piece is its first, or one of the rest.
LEMMA HoldsRest ==
  ASSUME NEW r \in Piece, NEW p \in Nat, Holds(r, p)
  PROVE  p * PageSize = r.base \/ (Holds(Rest(r), p) /\ r.base + 2 * PageSize <= End(r))
<1>0. PICK P \in Nat \ {0} : P = PageSize BY MemblockAssumption
<1>1. PICK a \in Nat : a = p * P OBVIOUS
<1>2. Aligned(a) BY <1>0, <1>1 DEF Aligned
<1>3. PICK b \in Nat : b = r.base /\ Aligned(b) BY RestIs
<1>4. b <= a /\ a + P <= End(r) BY <1>0, <1>1, <1>3 DEF Holds
<1>5. b < a => b + P <= a BY <1>0, <1>2, <1>3, AlignedGap
<1>6. PICK e \in Nat : e = End(r) BY EndTyped DEF Piece
<1>7. CASE a = b BY <1>0, <1>1, <1>3, <1>7
<1>8. CASE a # b
  <2>1. b + P <= a /\ a + P <= e /\ b + 2 * P <= e BY <1>4, <1>5, <1>6, <1>8
  <2>2. End(Rest(r)) = e /\ Rest(r).base = b + P BY <1>0, <1>3, <1>6, RestIs
  <2>3. Holds(Rest(r), p) BY <2>1, <2>2, <1>0, <1>1 DEF Holds
  <2> QED BY <2>1, <2>3, <1>0, <1>3, <1>6
<1> QED BY <1>7, <1>8

\* The queue of one range.
LEMMA ShrinkOne ==
  ASSUME NEW l, NEW r \in Piece, NEW q, q = <<r>>,
         End(r) = End(l) \/ (End(r) = l.base /\ MaxSupport <= End(l))
  PROVE  Shrinks(l, q, Shorter(q))
<1>1. Head(q) = r /\ Tail(q) = <<>> /\ Len(q) = 1 /\ q[1] = r BY Tails, Lengths
<1>2. PICK f : f = Rest(r) OBVIOUS
<1>3. End(f) = End(r) /\ f.base = r.base + PageSize /\ f.type = r.type BY <1>2, RestIs
<1>4. r.base \in Nat /\ PageSize \in Nat \ {0} /\ End(r) \in Nat
  BY RestIs, MemblockAssumption, EndTyped DEF Piece
<1>5. \A m \in 1 .. Len(q) : m = 1 BY <1>1
<1>6. CASE f \in Piece /\ f.limit >= PageSize
  <2>1. PICK q2 : q2 = <<f>> OBVIOUS
  <2>2. Shorter(q) = q2 BY <1>1, <1>2, <1>6, <2>1, Joins DEF Shorter
  <2>3. Len(q2) = 1 /\ q2[1] = f /\ q2 # <<>> BY <2>1, Lengths
  <2>4. Queue(l, q2) BY <1>3, <1>6, <2>1 DEF Queue
  <2>5. Edge(l, q2, r.base + PageSize) BY <1>3, <2>3 DEF Edge
  <2>6. \A k \in 1 .. Len(q2) : k = 1 BY <2>3
  <2>7. r.base <= f.base BY <1>3, <1>4
  <2>8. 1 \in 1 .. Len(q) /\ 1 \in 1 .. Len(q2) BY <1>1, <2>3
  <2>9. \A k \in 1 .. Len(q2) : \E m \in 1 .. Len(q) :
          q2[k].type = q[m].type /\ q[m].base <= q2[k].base /\ End(q2[k]) = End(q[m])
    BY <1>1, <1>3, <2>3, <2>6, <2>7, <2>8
  <2>10. ASSUME NEW m \in 1 .. Len(q), NEW p \in Nat, Holds(q[m], p)
         PROVE  \/ p * PageSize = q[1].base /\ m = 1
                \/ \E k \in 1 .. Len(q2) : q2[k].type = q[m].type /\ Holds(q2[k], p)
    <3>1. m = 1 /\ Holds(r, p) BY <2>10, <1>1, <1>5
    <3>2. p * PageSize = r.base \/ Holds(f, p) BY <3>1, <1>2, HoldsRest
    <3> QED BY <3>1, <3>2, <1>1, <1>3, <2>3, <2>8
  <2>11. Shrinks(l, q, q2) BY <1>1, <2>4, <2>5, <2>9, <2>10 DEF Shrinks
  <2> QED BY <2>2, <2>11
<1>7. CASE End(r) = r.base + PageSize /\ ~ (f.limit >= PageSize)
  <2>1. PICK q2 : q2 = <<>> OBVIOUS
  <2>2. Shorter(q) = q2 BY <1>1, <1>2, <1>7, <2>1, Joins DEF Shorter
  <2>3. Queue(l, q2) BY <2>1 DEF Queue
  <2>4. Edge(l, q2, r.base + PageSize) BY <1>7, <2>1 DEF Edge
  <2>5. \A k : k \notin 1 .. Len(q2) BY <2>1, Lengths
  <2>6. ASSUME NEW m \in 1 .. Len(q), NEW p \in Nat, Holds(q[m], p)
        PROVE  p * PageSize = q[1].base /\ m = 1
    <3>1. m = 1 /\ Holds(r, p) BY <2>6, <1>1, <1>5
    <3>2. p * PageSize = r.base \/ r.base + 2 * PageSize <= End(r) BY <3>1, HoldsRest
    <3>3. ~ (r.base + 2 * PageSize <= End(r)) BY <1>4, <1>7
    <3> QED BY <3>1, <3>2, <3>3, <1>1
  <2>7. Shrinks(l, q, q2) BY <1>1, <2>3, <2>4, <2>5, <2>6 DEF Shrinks
  <2> QED BY <2>2, <2>7
<1> QED BY <1>2, <1>6, <1>7, RestIs

\* The queue of a gap and a range.
LEMMA ShrinkTwo ==
  ASSUME NEW l, NEW r \in Piece, NEW s \in Piece, NEW q, q = <<r, s>>,
         End(r) = s.base, End(s) = End(l)
  PROVE  Shrinks(l, q, Shorter(q))
<1>1. Head(q) = r /\ Tail(q) = <<s>> /\ Len(q) = 2 /\ q[1] = r /\ q[2] = s BY Tails, Lengths
<1>2. PICK f : f = Rest(r) OBVIOUS
<1>3. End(f) = End(r) /\ f.base = r.base + PageSize /\ f.type = r.type BY <1>2, RestIs
<1>4. r.base \in Nat /\ PageSize \in Nat \ {0} /\ End(r) \in Nat /\ s.base \in Nat
  BY RestIs, MemblockAssumption, EndTyped DEF Piece
<1>5. \A m \in 1 .. Len(q) : m = 1 \/ m = 2 BY <1>1
<1>a. 1 \in 1 .. Len(q) /\ 2 \in 1 .. Len(q) BY <1>1
<1>6. CASE f \in Piece /\ f.limit >= PageSize
  <2>1. PICK q2 : q2 = <<f, s>> OBVIOUS
  <2>2. Shorter(q) = q2 BY <1>1, <1>2, <1>6, <2>1, Joins DEF Shorter
  <2>3. Len(q2) = 2 /\ q2[1] = f /\ q2[2] = s /\ q2 # <<>> BY <2>1, Lengths
  <2>4. Queue(l, q2) BY <1>3, <1>6, <2>1 DEF Queue
  <2>5. Edge(l, q2, r.base + PageSize) BY <1>3, <2>3 DEF Edge
  <2>6. \A k \in 1 .. Len(q2) : k = 1 \/ k = 2 BY <2>3
  <2>7. r.base <= f.base /\ s.base <= s.base BY <1>3, <1>4
  <2>8. 1 \in 1 .. Len(q2) /\ 2 \in 1 .. Len(q2) BY <2>3
  <2>9. \A k \in 1 .. Len(q2) : \E m \in 1 .. Len(q) :
          q2[k].type = q[m].type /\ q[m].base <= q2[k].base /\ End(q2[k]) = End(q[m])
    BY <1>1, <1>3, <1>a, <2>3, <2>6, <2>7
  <2>10. ASSUME NEW m \in 1 .. Len(q), NEW p \in Nat, Holds(q[m], p)
         PROVE  \/ p * PageSize = q[1].base /\ m = 1
                \/ \E k \in 1 .. Len(q2) : q2[k].type = q[m].type /\ Holds(q2[k], p)
    <3>1. CASE m = 1
      <4>1. Holds(r, p) BY <2>10, <3>1, <1>1
      <4>2. p * PageSize = r.base \/ Holds(f, p) BY <4>1, <1>2, HoldsRest
      <4> QED BY <3>1, <4>2, <1>1, <1>3, <2>3, <2>8
    <3>2. CASE m = 2 BY <2>10, <3>2, <1>1, <2>3, <2>8
    <3> QED BY <3>1, <3>2, <1>5
  <2>11. Shrinks(l, q, q2) BY <1>1, <2>4, <2>5, <2>9, <2>10 DEF Shrinks
  <2> QED BY <2>2, <2>11
<1>7. CASE End(r) = r.base + PageSize /\ ~ (f.limit >= PageSize)
  <2>1. PICK q2 : q2 = <<s>> OBVIOUS
  <2>2. Shorter(q) = q2 BY <1>1, <1>2, <1>7, <2>1, Joins DEF Shorter
  <2>3. Len(q2) = 1 /\ q2[1] = s /\ q2 # <<>> BY <2>1, Lengths
  <2>4. Queue(l, q2) BY <2>1 DEF Queue
  <2>5. Edge(l, q2, r.base + PageSize) BY <1>7, <2>3 DEF Edge
  <2>6. \A k \in 1 .. Len(q2) : k = 1 BY <2>3
  <2>7. s.base <= s.base BY <1>4
  <2>8. 1 \in 1 .. Len(q2) BY <2>3
  <2>9. \A k \in 1 .. Len(q2) : \E m \in 1 .. Len(q) :
          q2[k].type = q[m].type /\ q[m].base <= q2[k].base /\ End(q2[k]) = End(q[m])
    BY <1>1, <1>a, <2>3, <2>6, <2>7
  <2>10. ASSUME NEW m \in 1 .. Len(q), NEW p \in Nat, Holds(q[m], p)
         PROVE  \/ p * PageSize = q[1].base /\ m = 1
                \/ \E k \in 1 .. Len(q2) : q2[k].type = q[m].type /\ Holds(q2[k], p)
    <3>1. CASE m = 1
      <4>1. Holds(r, p) BY <2>10, <3>1, <1>1
      <4>2. p * PageSize = r.base \/ r.base + 2 * PageSize <= End(r) BY <4>1, HoldsRest
      <4>3. ~ (r.base + 2 * PageSize <= End(r)) BY <1>4, <1>7
      <4> QED BY <3>1, <4>2, <4>3, <1>1
    <3>2. CASE m = 2 BY <2>10, <3>2, <1>1, <2>3, <2>8
    <3> QED BY <3>1, <3>2, <1>5
  <2>11. Shrinks(l, q, q2) BY <1>1, <2>4, <2>5, <2>9, <2>10 DEF Shrinks
  <2> QED BY <2>2, <2>11
<1> QED BY <1>2, <1>6, <1>7, RestIs

\* Populating a page takes it off the front of the queue, and the rest is one.
LEMMA QueueShrinks ==
  ASSUME NEW l, NEW q, Queue(l, q), q # <<>>
  PROVE  Shrinks(l, q, Shorter(q)) /\ Head(q) = q[1] /\ Head(q) \in Piece
<1>1. CASE \E r \in Piece : /\ q = <<r>>
                            /\ End(r) = End(l) \/ (End(r) = l.base /\ MaxSupport <= End(l))
  BY <1>1, ShrinkOne, Tails, Lengths
<1>2. CASE \E r, s \in Piece : q = <<r, s>> /\ End(r) = s.base /\ End(s) = End(l)
  BY <1>2, ShrinkTwo, Tails, Lengths
<1> QED BY <1>1, <1>2 DEF Queue

-----------------------------------------------------------------------------
\* The array of struct pages: what it is backed by.

\* Struct pages lie above all that is mapped one to one.
LEMMA StructTyped ==
  ASSUME NEW p \in Nat
  PROVE  /\ StructAt(p) \in Nat /\ VBase * PageSize <= StructAt(p)
         /\ StructAt(p + 1) = StructAt(p) + StructSize
<1>1. PICK S \in Nat, A \in Nat : S = StructSize /\ A = VBase * PageSize
  BY VmemmapAssumption, MemblockAssumption
<1>2. StructAt(p) = A + p * S /\ StructAt(p + 1) = A + (p + 1) * S BY <1>1 DEF StructAt
<1>3. p * S \in Nat /\ (p + 1) * S = p * S + S OBVIOUS
<1> QED BY <1>1, <1>2, <1>3

\* Struct pages lie in the order of their frames, each behind the one before.
LEMMA StructOrder ==
  ASSUME NEW p \in Nat, NEW q \in Nat, p < q
  PROVE  StructAt(p) + StructSize <= StructAt(q)
<1>1. PICK S \in Nat, A \in Nat : S = StructSize /\ A = VBase * PageSize
  BY VmemmapAssumption, MemblockAssumption
<1>2. PICK d \in Nat : q = p + 1 + d
  <2>1. q - p - 1 \in Nat /\ q = p + 1 + (q - p - 1) OBVIOUS
  <2> QED BY <2>1
<1>3. q * S = p * S + S + d * S BY <1>2
<1>4. d * S \in Nat /\ p * S \in Nat OBVIOUS
<1>5. StructAt(p) = A + p * S /\ StructAt(q) = A + q * S BY <1>1 DEF StructAt
<1> QED BY <1>1, <1>3, <1>4, <1>5

\* The frames that get a struct page are mapped below the array.
LEMMA FrameLow ==
  ASSUME NEW p \in Nat, p * PageSize < MaxSupport
  PROVE  p < VBase
<1> SUFFICES ASSUME ~ (p < VBase) PROVE FALSE OBVIOUS
<1>1. PICK P \in Nat \ {0}, V \in Nat : P = PageSize /\ V = VBase
  BY VmemmapAssumption, MemblockAssumption
<1>2. PICK d \in Nat : p = V + d
  <2>1. p - V \in Nat /\ p = V + (p - V) BY <1>1
  <2> QED BY <2>1
<1>3. p * P = V * P + d * P /\ d * P \in Nat /\ V * P \in Nat BY <1>2
<1>4. MaxSupport <= V * P /\ MaxSupport \in Nat BY <1>1, VmemmapAssumption
<1> QED BY <1>1, <1>3, <1>4

\* The array's page v is mapped to a page that mblock_allocate has returned.
Owned(m, T, v) == v \in DOMAIN m /\ \E i \in 1 .. Len(T) : m[v] = T[i]

\* The array of structs from lo to hi ends in its page b; but for the page it begins in,
\* it is mapped.
Backed(lo, hi, b, m, T) ==
  /\ b \in Nat /\ Pfn(StructAt(lo) + StructSize) <= b
  /\ StructAt(hi) + StructSize <= b * PageSize + PageSize
  /\ \A v \in Pfn(StructAt(lo) + StructSize) .. b : Owned(m, T, v)

\* Between m and m2, pages are mapped, and only those of X anew.
Keeps(m, m2, X) == \A u \in DOMAIN m : u \notin X => u \in DOMAIN m2 /\ m2[u] = m[u]

\* What is mapped stays mapped to the same page.
LEMMA OwnedKept ==
  ASSUME NEW m, NEW m2, NEW X, Keeps(m, m2, X), NEW T \in Seq(Nat), NEW T2 \in Seq(Nat),
         NEW k \in Nat, Longer(T, T2, k), NEW v, v \notin X, Owned(m, T, v)
  PROVE  Owned(m2, T2, v)
<1>1. PICK i \in 1 .. Len(T) : m[v] = T[i] BY DEF Owned
<1>2. v \in DOMAIN m2 /\ m2[v] = m[v] BY DEF Owned, Keeps
<1>3. PICK n \in Nat : Len(T) = n BY LenProperties
<1>4. Len(T2) = n + k /\ T2[i] = T[i] BY <1>3 DEF Longer
<1>5. i \in 1 .. Len(T2) BY <1>3, <1>4
<1> QED BY <1>1, <1>2, <1>4, <1>5 DEF Owned

\* The page of the array that a struct ends in.
LEMMA ArrayPage ==
  ASSUME NEW lo \in Nat
  PROVE  /\ Pfn(StructAt(lo) + StructSize) \in Nat
         /\ VBase <= Pfn(StructAt(lo) + StructSize)
         /\ StructAt(lo) + StructSize \in Nat
         /\ StructAt(lo) + StructSize
              <= Pfn(StructAt(lo) + StructSize) * PageSize + PageSize
         /\ StructAt(lo) + StructSize > PageSize
<1>1. PICK a \in Nat : a = StructAt(lo) /\ VBase * PageSize <= a BY StructTyped
<1>2. PICK S \in Nat \ {0} : S = StructSize BY VmemmapAssumption, MemblockAssumption
<1>3. PICK b \in Nat : b = a + S OBVIOUS
<1>4. PICK q \in Nat : q = Pfn(b) /\ q * PageSize <= b /\ b < q * PageSize + PageSize
  BY PageAt
<1>5. PICK V \in Nat : V = VBase BY VmemmapAssumption
<1>6. V <= q
  <2> SUFFICES ASSUME q < V PROVE FALSE BY <1>5
  <2>1. q * PageSize + PageSize <= V * PageSize BY Apart
  <2>2. q * PageSize \in Nat /\ V * PageSize \in Nat /\ PageSize \in Nat BY MemblockAssumption
  <2> QED BY <2>1, <2>2, <1>1, <1>3, <1>4, <1>5
<1>7. b > PageSize
  <2>1. V # 0 BY <1>5, VmemmapAssumption, MemblockAssumption
  <2>2. 0 < V BY <2>1
  <2>3. 0 * PageSize + PageSize <= V * PageSize BY <2>2, Apart
  <2>4. V * PageSize \in Nat /\ PageSize \in Nat BY MemblockAssumption
  <2>5. PageSize <= V * PageSize BY <2>3, <2>4
  <2> QED BY <2>4, <2>5, <1>1, <1>2, <1>3, <1>5
<1>8. b <= q * PageSize + PageSize
  <2>1. q * PageSize \in Nat /\ PageSize \in Nat BY MemblockAssumption
  <2> QED BY <2>1, <1>4
<1> QED BY <1>1, <1>2, <1>3, <1>4, <1>5, <1>6, <1>7, <1>8

\* The first struct page: the page that it ends in is mapped.
LEMMA FirstBacking ==
  ASSUME NEW p \in Nat, backed = 0
  PROVE  NewBacking(p)
<1>1. PICK b \in Nat : b = StructAt(p) + StructSize BY ArrayPage
<1>2. b > PageSize BY <1>1, ArrayPage
<1>3. PICK P \in Nat \ {0} : P = PageSize BY MemblockAssumption
<1>4. PICK S \in Nat \ {0} : S = StructSize BY VmemmapAssumption, MemblockAssumption
<1>5. PICK x \in Nat : x = StructAt(p) BY StructTyped
<1>6. x + S - 0 * P > P BY <1>1, <1>2, <1>3, <1>4, <1>5
<1> QED BY <1>3, <1>4, <1>5, <1>6 DEF NewBacking

\* The first frame: the array begins.
LEMMA BackedFirst ==
  ASSUME NEW p \in Nat, NEW v, v = Pfn(StructAt(p) + StructSize), NEW m, NEW T, Owned(m, T, v)
  PROVE  Backed(p, p, v, m, T)
<1>1. PICK b \in Nat : b = StructAt(p) + StructSize BY ArrayPage
<1>2. v \in Nat /\ b <= v * PageSize + PageSize BY <1>1, ArrayPage
<1>3. \A u \in v .. v : u = v BY <1>2
<1>4. v <= v BY <1>2
<1> QED BY <1>1, <1>2, <1>3, <1>4 DEF Backed

\* The struct page of the next frame fits into the page mapped last.
LEMMA BackedSame ==
  ASSUME NEW lo \in Nat, NEW hi \in Nat, NEW b \in Nat, NEW m, NEW T \in Seq(Nat),
         Backed(lo, hi, b, m, T), NEW p \in Nat, p = hi + 1, p < VBase,
         NEW m2, Keeps(m, m2, {p}), NEW T2 \in Seq(Nat), NEW k \in Nat, Longer(T, T2, k),
         b = backed, ~ NewBacking(p)
  PROVE  Backed(lo, p, b, m2, T2)
<1>1. PICK v0 \in Nat : v0 = Pfn(StructAt(lo) + StructSize) /\ VBase <= v0 BY ArrayPage
<1>2. v0 <= b /\ \A v \in v0 .. b : Owned(m, T, v) BY <1>1 DEF Backed
<1>3. PICK V \in Nat : V = VBase BY VmemmapAssumption
<1>4. \A v \in v0 .. b : v # p BY <1>1, <1>3
<1>5. \A v \in v0 .. b : Owned(m2, T2, v) BY <1>2, <1>4, OwnedKept
<1>6. StructAt(p) + StructSize <= b * PageSize + PageSize
  <2>1. PICK x \in Nat : x = StructAt(p) BY StructTyped
  <2>2. PICK S \in Nat \ {0}, P \in Nat \ {0} : S = StructSize /\ P = PageSize
    BY VmemmapAssumption, MemblockAssumption
  <2>3. PICK y \in Nat : y = b * P BY <2>2
  <2>4. ~ (x + S - y > P) BY <2>1, <2>2, <2>3 DEF NewBacking
  <2>5. x + S <= y + P BY <2>2, <2>3, <2>4
  <2> QED BY <2>1, <2>2, <2>3, <2>5
<1> QED BY <1>1, <1>2, <1>5, <1>6 DEF Backed

\* It does not: one more page is enough, since a struct is smaller than a page.
LEMMA BackedNext ==
  ASSUME NEW lo \in Nat, NEW hi \in Nat, NEW b \in Nat, NEW m, NEW T \in Seq(Nat),
         Backed(lo, hi, b, m, T), NEW p \in Nat, p = hi + 1, p < VBase,
         NEW v \in Nat, v = Pfn(StructAt(p) + StructSize),
         NEW m2, Keeps(m, m2, {p, v}), NEW T2 \in Seq(Nat), NEW k \in Nat, Longer(T, T2, k),
         b = backed, NewBacking(p), Owned(m2, T2, v)
  PROVE  Backed(lo, p, v, m2, T2)
<1>1. PICK v0 \in Nat : v0 = Pfn(StructAt(lo) + StructSize) /\ VBase <= v0 BY ArrayPage
<1>2. v0 <= b /\ \A u \in v0 .. b : Owned(m, T, u) BY <1>1 DEF Backed
<1>3. PICK V \in Nat : V = VBase BY VmemmapAssumption
<1>4. v = b + 1
  <2>1. PICK x \in Nat : x = StructAt(p) BY StructTyped
  <2>2. PICK S \in Nat \ {0}, P \in Nat \ {0} : S = StructSize /\ P = PageSize /\ S < P
    BY VmemmapAssumption, MemblockAssumption
  <2>3. PICK y \in Nat : y = b * P BY <2>2
  <2>4. x = StructAt(hi) + S BY <2>1, <2>2, StructTyped
  <2>5. x <= y + P BY <2>2, <2>3, <2>4 DEF Backed
  <2>6. x + S - y > P BY <2>1, <2>2, <2>3 DEF NewBacking
  <2>7. (b + 1) * P = y + P BY <2>3, <2>2
  <2>8. y + P <= x + S /\ x + S < y + P + P BY <2>2, <2>5, <2>6
  <2>9. (b + 1) * PageSize <= x + S /\ x + S < (b + 1) * PageSize + PageSize
    BY <2>2, <2>7, <2>8
  <2>10. Pfn(x + S) = b + 1 BY <2>9, PageNumber
  <2> QED BY <2>1, <2>2, <2>10
<1>5. \A u \in v0 .. b : u # p /\ u # v BY <1>1, <1>3, <1>4
<1>6. \A u \in v0 .. b : Owned(m2, T2, u) BY <1>2, <1>5, OwnedKept
<1>7. \A u \in v0 .. v : Owned(m2, T2, u)
  <2>1. \A u \in v0 .. v : u \in v0 .. b \/ u = v BY <1>4
  <2> QED BY <2>1, <1>6
<1>8. v0 <= v BY <1>2, <1>4
<1>9. StructAt(p) + StructSize <= v * PageSize + PageSize BY ArrayPage
<1> QED BY <1>1, <1>7, <1>8, <1>9 DEF Backed

-----------------------------------------------------------------------------
\* What has gone to free_pages, and what is left.

\* What has gone to free_pages, or is about to, is RAM that no entry has any more.
Gives(R, E, q, F) ==
  /\ \A p \in F : \E j \in 1 .. Len(R) :
       /\ p \in Nat /\ R[j].type = RAM /\ End(E[j]) <= p * PageSize
       /\ p * PageSize + PageSize <= End(R[j])
  /\ \A k \in 1 .. Len(q) : q[k].type = RAM =>
       \E j \in 1 .. Len(R) : /\ R[j].type = RAM /\ End(E[j]) <= q[k].base
                              /\ End(q[k]) <= End(R[j])

\* The pages of a region that has been handed out have gone to free_pages, or wait.
Filled(F, q, p) == p \in F \/ \E k \in 1 .. Len(q) : q[k].type = RAM /\ Holds(q[k], p)
High(r) == r.type = RAM /\ Low <= r.base /\ End(r) < MaxSupport
Fills(R, E, q, F) ==
  \A j \in 1 .. Len(R) : High(R[j]) /\ ~ Over(E[j], Low) =>
    \A p \in Nat : E[j].base <= p * PageSize /\ p * PageSize + PageSize <= End(R[j]) =>
      Filled(F, q, p)

LEMMA WearsTyped ==
  ASSUME NEW n \in Nat, NEW E \in [1 .. n -> Region], NEW E2 \in [1 .. n -> Region],
         Wears(E, E2, n), NEW j \in 1 .. n
  PROVE  /\ End(E2[j]) = End(E[j]) /\ E[j].base <= E2[j].base
         /\ Over(E2[j], Low) => Over(E[j], Low)
<1>1. PICK b \in Nat, l \in Nat, b2 \in Nat, l2 \in Nat :
        b = E[j].base /\ l = E[j].limit /\ b2 = E2[j].base /\ l2 = E2[j].limit
  BY EndTyped
<1>2. b + l = b2 + l2 /\ b <= b2 /\ End(E2[j]) = End(E[j]) BY <1>1 DEF Wears, End
<1>3. l2 # 0 => l # 0 BY <1>2
<1> QED BY <1>1, <1>2, <1>3, OverIs

\* Page allocations leave the regions above the identity map whole behind what was handed out.
LEMMA UntouchedKept ==
  ASSUME NEW n \in Nat, NEW R \in Seq(Region), Len(R) = n, NEW E \in [1 .. n -> Region],
         NEW E2 \in [1 .. n -> Region], Wears(E, E2, n), NEW l, l.base \in Nat, End(l) \in Nat,
         Untouched(R, E, l)
  PROVE  Untouched(R, E2, l)
<1> SUFFICES ASSUME NEW j \in 1 .. n, Over(E2[j], Low)
             PROVE  End(E2[j]) = End(R[j]) /\ (l.base > 0 => End(l) <= E2[j].base)
  BY DEF Untouched
<1>1. End(E2[j]) = End(E[j]) /\ E[j].base <= E2[j].base /\ Over(E[j], Low) BY WearsTyped
<1>2. End(E[j]) = End(R[j]) /\ (l.base > 0 => End(l) <= E[j].base) BY <1>1 DEF Untouched
<1>3. PICK a \in Nat, b \in Nat, c \in Nat : a = End(l) /\ b = E[j].base /\ c = E2[j].base
  BY EndTyped
<1> QED BY <1>1, <1>2, <1>3

\* Page allocations leave the frames that were given away alone.
LEMMA GivesKept ==
  ASSUME NEW n \in Nat, NEW R \in Seq(Region), Len(R) = n, NEW E \in [1 .. n -> Region],
         NEW E2 \in [1 .. n -> Region], Wears(E, E2, n), NEW q, NEW F, Gives(R, E, q, F)
  PROVE  Gives(R, E2, q, F)
<1>1. \A j \in 1 .. n : End(E2[j]) = End(E[j]) BY WearsTyped
<1>2. ASSUME NEW p \in F
      PROVE  \E j \in 1 .. n : /\ p \in Nat /\ R[j].type = RAM /\ End(E2[j]) <= p * PageSize
                               /\ p * PageSize + PageSize <= End(R[j])
  <2>1. PICK j \in 1 .. n : /\ p \in Nat /\ R[j].type = RAM /\ End(E[j]) <= p * PageSize
                            /\ p * PageSize + PageSize <= End(R[j])
    BY DEF Gives
  <2>2. End(E2[j]) <= p * PageSize BY <1>1, <2>1
  <2> QED BY <2>1, <2>2
<1>3. ASSUME NEW k \in 1 .. Len(q), q[k].type = RAM
      PROVE  \E j \in 1 .. n : /\ R[j].type = RAM /\ End(E2[j]) <= q[k].base
                               /\ End(q[k]) <= End(R[j])
  <2>1. PICK j \in 1 .. n : /\ R[j].type = RAM /\ End(E[j]) <= q[k].base
                            /\ End(q[k]) <= End(R[j])
    BY <1>3 DEF Gives
  <2>2. End(E2[j]) <= q[k].base BY <1>1, <2>1
  <2> QED BY <2>1, <2>2
<1> QED BY <1>2, <1>3 DEF Gives

\* A region that mblock_allocate has used up has nothing to hand out.
LEMMA FillsKept ==
  ASSUME NEW n \in Nat, NEW R \in Seq(Region), Len(R) = n, NEW E \in [1 .. n -> Region],
         NEW E2 \in [1 .. n -> Region], Wears(E, E2, n), NEW l, Untouched(R, E, l),
         NEW q, NEW F, Fills(R, E, q, F)
  PROVE  Fills(R, E2, q, F)
<1> SUFFICES ASSUME NEW j \in 1 .. n, High(R[j]), ~ Over(E2[j], Low), NEW p \in Nat,
                    E2[j].base <= p * PageSize, p * PageSize + PageSize <= End(R[j])
             PROVE  Filled(F, q, p)
  BY DEF Fills
<1>1. End(E2[j]) = End(E[j]) /\ E[j].base <= E2[j].base BY WearsTyped
<1>2. PICK a \in Nat, P \in Nat \ {0} : a = p * PageSize /\ P = PageSize BY MemblockAssumption
<1>3. PICK b \in Nat, b2 \in Nat, l2 \in Nat :
        b = E[j].base /\ b2 = E2[j].base /\ l2 = E2[j].limit
  BY EndTyped
<1>4. b <= a BY <1>1, <1>2, <1>3
<1>5. CASE Over(E[j], Low)
  <2>1. End(E[j]) = End(R[j]) BY <1>5 DEF Untouched
  <2>2. End(E[j]) > Low BY <1>5, OverIs
  <2>3. l2 = 0 BY <1>1, <1>3, <2>2, OverIs
  <2>4. End(E2[j]) = b2 BY <2>3, <1>3 DEF End
  <2>5. a + P <= b2 /\ b2 <= a BY <2>1, <2>4, <1>1, <1>2, <1>3
  <2> QED BY <2>5, <1>2
<1>6. CASE ~ Over(E[j], Low)
  <2>1. E[j].base <= p * PageSize BY <1>2, <1>3, <1>4
  <2> QED BY <2>1, <1>6 DEF Fills
<1> QED BY <1>5, <1>6

-----------------------------------------------------------------------------
(* One turn of init_sparse_vmemmap: entry i is cut. *)

CutAt(E, E2, i, range, n) ==
  /\ E2 \in [1 .. n -> Region] /\ Cut(E[i], range, E2[i])
  /\ \A j \in 1 .. n : j # i => E2[j] = E[j]

\* The cut takes what is above the identity map from one entry.
LEMMA CutOne ==
  ASSUME NEW n \in Nat, NEW E \in [1 .. n -> Region], NEW i \in 1 .. n, NEW range, NEW rem,
         Cut(E[i], range, rem)
  PROVE  CutAt(E, [E EXCEPT ![i] = rem], i, range, n)
<1>1. rem \in Region BY DEF Cut
<1>2. PICK E2 : E2 = [E EXCEPT ![i] = rem] OBVIOUS
<1>3. /\ E2 \in [1 .. n -> Region] /\ E2[i] = rem
      /\ \A j \in 1 .. n : j # i => E2[j] = E[j]
  BY <1>1, <1>2
<1>4. CutAt(E, E2, i, range, n) BY <1>3 DEF CutAt
<1> QED BY <1>2, <1>4

LEMMA CutBase ==
  ASSUME NEW n \in Nat, NEW E \in [1 .. n -> Region], NEW i \in 1 .. n, NEW E2, NEW range,
         CutAt(E, E2, i, range, n), NEW j \in 1 .. n
  PROVE  E2[j].base = E[j].base /\ E2[j].type = E[j].type /\ End(E2[j]) <= End(E[j])
<1>1. CASE j = i
  <2>1. /\ E2[i].base = E[i].base /\ E2[i].type = E[i].type /\ End(E2[i]) = range.base
        /\ End(range) <= End(E[i]) /\ range \in Region
    BY DEF CutAt, Cut
  <2>2. PICK a \in Nat, b \in Nat, c \in Nat : a = range.base /\ b = End(range) /\ c = End(E[i])
    BY <2>1, EndTyped
  <2>3. a <= b BY <2>1, <2>2, EndTyped
  <2>4. a <= c BY <2>1, <2>2, <2>3
  <2> QED BY <1>1, <2>1, <2>2, <2>4
<1>2. CASE j # i
  <2>1. E2[j] = E[j] BY <1>2 DEF CutAt
  <2>2. End(E[j]) \in Nat BY EndTyped
  <2> QED BY <2>1, <2>2
<1> QED BY <1>1, <1>2

\* The cut keeps the invariant of memory.
LEMMA CutMemory ==
  ASSUME NEW R, Sound(R), NEW m, MemoryInv(R, m), NEW i \in 1 .. Len(R), NEW E2, NEW range,
         CutAt(m.entries, E2, i, range, Len(R)), NEW m2,
         m2 = [entries |-> E2, taken |-> m.taken, starved |-> m.starved, tabs |-> m.tabs,
               map |-> m.map]
  PROVE  MemoryInv(R, m2)
<1>1. PICK n \in Nat : n = Len(R) BY LenProperties DEF Sound
<1>2. m \in MemoryType(n) BY <1>1 DEF MemoryInv
<1>3. PICK E \in [1 .. n -> Region] : E = m.entries BY <1>2 DEF MemoryType
<1>4. PICK T \in Seq(Nat) : T = m.taken BY <1>2 DEF MemoryType
<1>5. /\ Rests(R, E) /\ Even(R, E) /\ Used(R, E, T) /\ Spent(R, E, Len(T))
      /\ m.starved \/ (Fronts(R, E, T) /\ Distinct(T))
  BY <1>3, <1>4 DEF MemoryInv
<1>a. i \in 1 .. n /\ CutAt(E, E2, i, range, n) BY <1>1, <1>3
<1>6. E2 \in [1 .. n -> Region] BY <1>a DEF CutAt
<1>7. \A j \in 1 .. n : E2[j].base = E[j].base /\ E2[j].type = E[j].type
  BY <1>a, CutBase
<1>8. Rests(R, E2)
  <2> SUFFICES ASSUME NEW j \in 1 .. n PROVE End(E2[j]) <= End(R[j])
    BY <1>1, <1>5, <1>7 DEF Rests
  <2>1. End(E2[j]) <= End(E[j]) /\ End(E[j]) <= End(R[j]) BY <1>1, <1>a, <1>5, CutBase DEF Rests
  <2>2. R[j] \in Region BY <1>1, ElementOfSeq DEF Sound
  <2>3. PICK a \in Nat, b \in Nat, c \in Nat : a = End(E2[j]) /\ b = End(E[j]) /\ c = End(R[j])
    BY <1>6, <2>2, EndTyped
  <2>4. a <= b /\ b <= c BY <2>1, <2>3
  <2>5. a <= c BY <2>4
  <2> QED BY <2>3, <2>5
<1>9. Even(R, E2) BY <1>1, <1>5, <1>7 DEF Even
<1>10. Used(R, E2, T) BY <1>1, <1>5, <1>7 DEF Used
<1>11. Spent(R, E2, Len(T)) BY <1>1, <1>5, <1>7 DEF Spent
<1>12. Fronts(R, E, T) => Fronts(R, E2, T) BY <1>1, <1>7 DEF Fronts
<1>13. /\ m2.entries = E2 /\ m2.taken = T /\ m2.starved = m.starved /\ m2.tabs = m.tabs
       /\ m2.map = m.map
  BY <1>4
<1>14. m2 \in MemoryType(n) BY <1>2, <1>4, <1>6 DEF MemoryType
<1> QED BY <1>1, <1>5, <1>8, <1>9, <1>10, <1>11, <1>12, <1>13, <1>14 DEF MemoryInv

\* The cut leaves the regions behind it whole.
LEMMA CutUntouched ==
  ASSUME NEW R, Sound(R), NEW n \in Nat, n = Len(R), NEW E \in [1 .. n -> Region], Rests(R, E),
         NEW l, Untouched(R, E, l), NEW i \in 1 .. n, NEW E2, NEW range,
         CutAt(E, E2, i, range, n), \A j \in 1 .. n : Over(E[j], Low) => i <= j
  PROVE  Untouched(R, E2, range)
<1> SUFFICES ASSUME NEW j \in 1 .. n, Over(E2[j], Low)
             PROVE  End(E2[j]) = End(R[j]) /\ End(range) <= E2[j].base
  BY DEF Untouched
<1>1. j # i BY DEF CutAt, Cut
<1>2. E2[j] = E[j] BY <1>1 DEF CutAt
<1>3. End(E[j]) = End(R[j]) BY <1>2 DEF Untouched
<1>4. i < j BY <1>1, <1>2
<1>5. End(R[i]) <= R[j].base BY <1>4 DEF Sound, Ascending
<1>6. R[j].base <= E[j].base /\ End(E[i]) <= End(R[i]) BY DEF Rests
<1>7. End(range) <= End(E[i]) /\ range \in Region BY DEF CutAt, Cut
<1>8. R[i] \in Region /\ R[j] \in Region BY ElementOfSeq DEF Sound
<1>9. PICK a \in Nat, b \in Nat, c \in Nat, d \in Nat, e \in Nat :
        /\ a = End(range) /\ b = End(E[i]) /\ c = End(R[i]) /\ d = R[j].base
        /\ e = E[j].base
  BY <1>7, <1>8, EndTyped
<1>10. a <= b /\ b <= c /\ c <= d /\ d <= e BY <1>5, <1>6, <1>7, <1>9
<1>11. a <= e BY <1>10
<1> QED BY <1>2, <1>3, <1>9, <1>11

LEMMA TurnTyped ==
  ASSUME NEW l, NEW q, Queue(l, q)
  PROVE  /\ Len(q) \in Nat /\ (q = <<>> => Len(q) = 0)
         /\ \A k \in 1 .. Len(q) : q[k] \in Piece
<1>1. CASE q = <<>> BY <1>1, Lengths
<1>2. CASE \E r \in Piece : q = <<r>>
  <2>1. PICK r \in Piece : q = <<r>> BY <1>2
  <2>2. Len(q) = 1 /\ q[1] = r /\ q # <<>> BY <2>1, Lengths
  <2>3. \A k \in 1 .. Len(q) : k = 1 BY <2>2
  <2> QED BY <2>2, <2>3
<1>3. CASE \E r, s \in Piece : q = <<r, s>>
  <2>1. PICK r \in Piece, s \in Piece : q = <<r, s>> BY <1>3
  <2>2. Len(q) = 2 /\ q[1] = r /\ q[2] = s /\ q # <<>> BY <2>1, Lengths
  <2>3. \A k \in 1 .. Len(q) : k = 1 \/ k = 2 BY <2>2
  <2> QED BY <2>2, <2>3
<1> QED BY <1>1, <1>2, <1>3 DEF Queue

\* Entry i of what is left of the regions R is cut.
Cutting(R, E, E2, i, range, n) ==
  /\ n \in Nat /\ R \in Seq(Region) /\ Len(R) = n /\ E \in [1 .. n -> Region]
  /\ Rests(R, E) /\ i \in 1 .. n /\ CutAt(E, E2, i, range, n)

\* What is cut off is RAM that no entry has any more.
LEMMA CutGives ==
  ASSUME NEW n, NEW R, NEW E, NEW i, NEW E2, NEW range, Cutting(R, E, E2, i, range, n),
         NEW q0, NEW F, Gives(R, E, q0, F), NEW l, NEW q, Turn(l, range, q)
  PROVE  Gives(R, E2, q, F)
<1>0. /\ n \in Nat /\ R \in Seq(Region) /\ Len(R) = n /\ E \in [1 .. n -> Region]
      /\ Rests(R, E) /\ i \in 1 .. n /\ CutAt(E, E2, i, range, n)
  BY DEF Cutting
<1> USE <1>0
<1>1. \A j \in 1 .. n : End(E2[j]) <= End(E[j]) BY CutBase
<1>2. ASSUME NEW p \in F
      PROVE  \E j \in 1 .. n : /\ p \in Nat /\ R[j].type = RAM /\ End(E2[j]) <= p * PageSize
                               /\ p * PageSize + PageSize <= End(R[j])
  <2>1. PICK j \in 1 .. n : /\ p \in Nat /\ R[j].type = RAM /\ End(E[j]) <= p * PageSize
                            /\ p * PageSize + PageSize <= End(R[j])
    BY DEF Gives
  <2>2. E2 \in [1 .. n -> Region] BY DEF CutAt
  <2>3. PICK a \in Nat, b \in Nat, c \in Nat :
          a = End(E2[j]) /\ b = End(E[j]) /\ c = p * PageSize
    BY <2>1, <2>2, EndTyped, MemblockAssumption
  <2>4. a <= b /\ b <= c BY <1>1, <2>1, <2>3
  <2>5. a <= c BY <2>4
  <2> QED BY <2>1, <2>3, <2>5
<1>3. ASSUME NEW k \in 1 .. Len(q), q[k].type = RAM
      PROVE  \E j \in 1 .. n : /\ R[j].type = RAM /\ End(E2[j]) <= q[k].base
                               /\ End(q[k]) <= End(R[j])
  <2>1. q[k] = range BY <1>3 DEF Turn
  <2>2. /\ End(E2[i]) = range.base /\ End(range) <= End(E[i]) /\ range.type = E[i].type
        /\ range \in Region
    BY DEF CutAt, Cut
  <2>3. R[i].type = RAM /\ End(E[i]) <= End(R[i]) BY <1>3, <2>1, <2>2 DEF Rests
  <2>4. R[i] \in Region BY ElementOfSeq
  <2>5. PICK a \in Nat, b \in Nat, c \in Nat, d \in Nat :
          a = End(range) /\ b = End(E[i]) /\ c = End(R[i]) /\ d = range.base
    BY <2>2, <2>4, EndTyped
  <2>6. a <= b /\ b <= c BY <2>2, <2>3, <2>5
  <2>7. a <= c /\ d <= d BY <2>6
  <2> QED BY <2>1, <2>2, <2>3, <2>5, <2>7
<1> QED BY <1>2, <1>3 DEF Gives

\* What is cut off waits in the queue, or was used up before.
LEMMA CutFills ==
  ASSUME NEW n, NEW R, NEW E, NEW i, NEW E2, NEW range, Cutting(R, E, E2, i, range, n),
         NEW l0, Untouched(R, E, l0), Over(E[i], Low),
         NEW q0, q0 = <<>>, NEW F, Fills(R, E, q0, F), NEW l, NEW q, Turn(l, range, q)
  PROVE  Fills(R, E2, q, F)
<1>0. /\ n \in Nat /\ R \in Seq(Region) /\ Len(R) = n /\ E \in [1 .. n -> Region]
      /\ Rests(R, E) /\ i \in 1 .. n /\ CutAt(E, E2, i, range, n)
  BY DEF Cutting
<1> USE <1>0
<1> SUFFICES ASSUME NEW j \in 1 .. n, High(R[j]), ~ Over(E2[j], Low), NEW p \in Nat,
                    E2[j].base <= p * PageSize, p * PageSize + PageSize <= End(R[j])
             PROVE  Filled(F, q, p)
  BY DEF Fills
<1>1. CASE j # i
  <2>1. E2[j] = E[j] BY <1>1 DEF CutAt
  <2>2. Filled(F, q0, p) BY <2>1 DEF Fills
  <2>3. \A k : k \notin 1 .. Len(q0) BY Lengths
  <2> QED BY <2>2, <2>3 DEF Filled
<1>2. CASE j = i
  <2>1. R[i].type = RAM /\ Low <= R[i].base /\ End(R[i]) < MaxSupport BY <1>2 DEF High
  <2>2. E[i].type = RAM /\ R[i].base <= E[i].base BY <2>1 DEF Rests
  <2>3. R[i] \in Region BY ElementOfSeq
  <2>4. PICK a \in Nat, b \in Nat : a = R[i].base /\ b = E[i].base BY <2>3, EndTyped
  <2>5. Low <= E[i].base BY <2>1, <2>2, <2>4, VmemmapAssumption
  <2>6. range = E[i] /\ range.limit # 0 BY <2>5 DEF CutAt, Cut
  <2>7. End(range) = End(R[i]) BY <2>6 DEF Untouched
  <2>8. PICK k \in 1 .. Len(q) : q[k] = range BY <2>1, <2>6, <2>7 DEF Turn
  <2>9. E2[i].base = E[i].base BY CutBase
  <2>10. Holds(range, p) BY <1>2, <2>6, <2>7, <2>9 DEF Holds
  <2> QED BY <2>2, <2>6, <2>8, <2>10 DEF Filled
<1> QED BY <1>1, <1>2

-----------------------------------------------------------------------------
(* One turn of populate_vmemmap_range: the page p at the front of q is populated. *)

AtFront(q, p) == q # <<>> /\ p \in Nat /\ p * PageSize = q[1].base
Given(F, q, p) == IF q[1].type = RAM THEN F \cup {p} ELSE F

\* The frame given to free_pages is the first that waits.
LEMMA GivesShrunk ==
  ASSUME NEW n \in Nat, NEW R \in Seq(Region), Len(R) = n, NEW E \in [1 .. n -> Region],
         NEW l, NEW q, Queue(l, q), NEW q2, Shrinks(l, q, q2), NEW p, AtFront(q, p),
         NEW F, Gives(R, E, q, F)
  PROVE  Gives(R, E, q2, Given(F, q, p))
<1>1. q[1] \in Piece /\ 1 \in 1 .. Len(q)
  <2>1. q # <<>> BY DEF AtFront
  <2>2. Len(q) = 1 \/ Len(q) = 2 BY <2>1, Lengths DEF Queue
  <2>4. PICK m \in {1, 2} : m = Len(q) BY <2>2, Zenon
  <2>5. 1 \in 1 .. m BY <2>4
  <2>3. 1 \in 1 .. Len(q) BY <2>4, <2>5
  <2> QED BY <2>3, TurnTyped
<1>2. \A j \in 1 .. n : End(E[j]) \in Nat /\ End(R[j]) \in Nat
  <2>1. \A j \in 1 .. n : R[j] \in Region BY ElementOfSeq
  <2> QED BY <2>1, EndTyped
<1>3. ASSUME NEW x \in Given(F, q, p)
      PROVE  \E j \in 1 .. n : /\ x \in Nat /\ R[j].type = RAM /\ End(E[j]) <= x * PageSize
                               /\ x * PageSize + PageSize <= End(R[j])
  <2>1. CASE x \in F BY <2>1 DEF Gives
  <2>2. CASE x \notin F
    <3>1. x = p /\ q[1].type = RAM BY <1>3, <2>2 DEF Given
    <3>2. PICK j \in 1 .. n : /\ R[j].type = RAM /\ End(E[j]) <= q[1].base
                              /\ End(q[1]) <= End(R[j])
      BY <1>1, <3>1 DEF Gives
    <3>3. q[1].base \in Nat /\ q[1].limit \in Nat /\ PageSize <= q[1].limit /\ PageSize \in Nat
      BY <1>1, MemblockAssumption DEF Piece, Region
    <3>4. q[1].base + PageSize <= End(q[1]) /\ End(q[1]) \in Nat BY <3>3 DEF End
    <3>5. PICK a \in Nat, b \in Nat, c \in Nat, P \in Nat :
            /\ a = q[1].base /\ b = End(q[1]) /\ c = End(R[j]) /\ P = PageSize
      BY <1>2, <3>3, <3>4
    <3>6. a + P <= b /\ b <= c BY <3>2, <3>4, <3>5
    <3>7. a + P <= c BY <3>6
    <3>8. x \in Nat /\ x * PageSize = a BY <3>1, <3>5 DEF AtFront
    <3> QED BY <3>2, <3>5, <3>7, <3>8
  <2> QED BY <2>1, <2>2
<1>4. ASSUME NEW k \in 1 .. Len(q2), q2[k].type = RAM
      PROVE  \E j \in 1 .. n : /\ R[j].type = RAM /\ End(E[j]) <= q2[k].base
                               /\ End(q2[k]) <= End(R[j])
  <2>1. PICK m \in 1 .. Len(q) : /\ q2[k].type = q[m].type /\ q[m].base <= q2[k].base
                                 /\ End(q2[k]) = End(q[m])
    BY DEF Shrinks
  <2>2. PICK j \in 1 .. n : /\ R[j].type = RAM /\ End(E[j]) <= q[m].base
                            /\ End(q[m]) <= End(R[j])
    BY <1>4, <2>1 DEF Gives
  <2>3. q[m] \in Region /\ q2[k] \in Region BY TurnTyped DEF Shrinks, Piece
  <2>4. PICK a \in Nat, b \in Nat, c \in Nat :
          a = End(E[j]) /\ b = q[m].base /\ c = q2[k].base
    BY <1>2, <2>3, EndTyped
  <2>5. a <= b /\ b <= c BY <2>1, <2>2, <2>4
  <2>6. a <= c BY <2>5
  <2> QED BY <2>1, <2>2, <2>4, <2>6
<1> QED BY <1>3, <1>4 DEF Gives

\* No frame that waits is left out.
LEMMA FillsShrunk ==
  ASSUME NEW n \in Nat, NEW R \in Seq(Region), Len(R) = n, NEW E,
         NEW l, NEW q, NEW q2, Shrinks(l, q, q2), NEW p, AtFront(q, p),
         NEW F, Fills(R, E, q, F)
  PROVE  Fills(R, E, q2, Given(F, q, p))
<1> SUFFICES ASSUME NEW j \in 1 .. n, High(R[j]), ~ Over(E[j], Low), NEW x \in Nat,
                    E[j].base <= x * PageSize, x * PageSize + PageSize <= End(R[j])
             PROVE  Filled(Given(F, q, p), q2, x)
  BY DEF Fills
<1>1. Filled(F, q, x) BY DEF Fills
<1>2. CASE x \in F BY <1>2 DEF Given, Filled
<1>3. CASE \E k \in 1 .. Len(q) : q[k].type = RAM /\ Holds(q[k], x)
  <2>1. PICK k \in 1 .. Len(q) : q[k].type = RAM /\ Holds(q[k], x) BY <1>3
  <2>2. CASE x * PageSize = q[1].base /\ k = 1
    <3>1. PICK P \in Nat \ {0} : P = PageSize BY MemblockAssumption
    <3>2. p \in Nat /\ p * P = x * P BY <2>2, <3>1 DEF AtFront
    <3>3. Pfn(p * PageSize) = p /\ Pfn(x * PageSize) = x
      <4>1. \A y \in Nat : y * P \in Nat /\ y * P <= y * P /\ y * P < y * P + P BY <3>1
      <4> QED BY <3>1, <3>2, <4>1, PageNumber
    <3>4. p = x BY <3>1, <3>2, <3>3
    <3> QED BY <2>1, <2>2, <3>4 DEF Given, Filled
  <2>3. CASE \E k2 \in 1 .. Len(q2) : q2[k2].type = q[k].type /\ Holds(q2[k2], x)
    BY <2>1, <2>3 DEF Filled
  <2> QED BY <2>1, <2>2, <2>3 DEF Shrinks
<1> QED BY <1>1, <1>2, <1>3 DEF Filled

-----------------------------------------------------------------------------
\* The invariant of memory, and the states that begin with it.

\* The array of struct pages goes up to the next page to be populated.
Lays(l, q, S, b, m, T) ==
  \/ S = {} /\ b = 0
  \/ \E lo, hi \in Nat : /\ lo <= hi /\ S = lo .. hi /\ Edge(l, q, hi * PageSize + PageSize)
                         /\ Backed(lo, hi, b, m, T)

Stages(s, l, q, S, F) ==
  /\ s \in {"low", "range", "page", "done"} /\ (s = "page" <=> q # <<>>)
  /\ l = NoRange \/ Handed(l)
  /\ l = NoRange => q = <<>> /\ S = {}
  /\ s = "low" => l = NoRange
  /\ Queue(l, q) /\ F \subseteq S

\* Until the first range is handed out, only the tables of the identity map have been taken.
Reckons(s, l, m) ==
  /\ s = "low" => m.taken = <<>> /\ m.tabs = {}
  /\ s # "low" /\ l = NoRange => Len(m.taken) = Cardinality(LowTables)

Finished(s, R, E) == s = "done" => \A j \in 1 .. Len(R) : ~ Over(E[j], Low)

Good(R, m, s, l, q, S, b, F) ==
  /\ MemoryInv(R, m) /\ Untouched(R, m.entries, l)
  /\ Stages(s, l, q, S, F) /\ Reckons(s, l, m) /\ Finished(s, R, m.entries)
  /\ Gives(R, m.entries, q, F) /\ Fills(R, m.entries, q, F)
  /\ Lays(l, q, S, b, m.map, m.taken)

\* Before the first allocation.
LEMMA MemoryFirst ==
  ASSUME NEW R, Sound(R), NEW m,
         m = [entries |-> R, taken |-> <<>>, starved |-> FALSE, tabs |-> {}, map |-> <<>>]
  PROVE  MemoryInv(R, m)
<1>1. PICK n \in Nat : n = Len(R) BY LenProperties DEF Sound
<1>2. R \in [1 .. n -> Region] BY <1>1, LenProperties DEF Sound
<1>3. PICK T \in Seq(Nat) : T = <<>> BY EmptySeq
<1>4. Len(T) = 0 BY <1>3, EmptySeq
<1>5. \A i : i \notin 1 .. Len(T) BY <1>3, Lengths
<1>6. <<>> \in Maps
  <2>1. T \in [1 .. Len(T) -> Nat] BY LenProperties
  <2>2. 1 .. Len(T) = {} BY <1>5
  <2>3. T \in [{} -> Nat] BY <2>1, <2>2
  <2>4. {} \in SUBSET Nat OBVIOUS
  <2> QED BY <2>3, <2>4, <1>3 DEF Maps
<1>7. m \in MemoryType(n) BY <1>2, <1>3, <1>6 DEF MemoryType
<1>8. \A j \in 1 .. n : R[j].base \in Nat /\ End(R[j]) \in Nat BY <1>2, EndTyped
<1>9. Rests(R, R) BY <1>1, <1>8 DEF Rests
<1>10. Even(R, R) BY <1>1 DEF Even, Sound
<1>11. Used(R, R, T)
  <2>1. \A j \in 1 .. n : \A a \in Nat : ~ (R[j].base <= a /\ a < R[j].base) BY <1>8
  <2> QED BY <1>1, <2>1 DEF Used
<1>12. Spent(R, R, 0)
  <2>1. PICK P \in Nat : P = PageSize BY MemblockAssumption
  <2>2. \A j \in 1 .. n : R[j].base <= R[j].base + 0 * P BY <1>8
  <2> QED BY <1>1, <2>1, <2>2 DEF Spent
<1>13. Fronts(R, R, T) /\ Distinct(T) BY <1>5 DEF Fronts, Distinct
<1>14. m.entries = R /\ m.taken = T BY <1>3
<1>15. Spent(R, R, Len(T)) BY <1>4, <1>12
<1> QED BY <1>1, <1>7, <1>9, <1>10, <1>11, <1>13, <1>14, <1>15 DEF MemoryInv

\* The invariant holds when the boot begins.
LEMMA InitGood ==
  ASSUME NEW R, Sound(R), NEW m,
         m = [entries |-> R, taken |-> <<>>, starved |-> FALSE, tabs |-> {}, map |-> <<>>]
  PROVE  Good(R, m, "low", NoRange, <<>>, {}, 0, {})
<1>1. PICK n \in Nat : n = Len(R) BY LenProperties DEF Sound
<1>2. R \in [1 .. n -> Region] BY <1>1, LenProperties DEF Sound
<1>3. NoRange.base = 0 BY DEF NoRange
<1>4. MemoryInv(R, m) BY MemoryFirst
<1>5. m.entries = R /\ m.taken = <<>> /\ m.tabs = {} OBVIOUS
<1>6. Untouched(R, R, NoRange)
  <2>1. ~ (NoRange.base > 0) BY <1>3
  <2> QED BY <2>1 DEF Untouched
<1>7. Stages("low", NoRange, <<>>, {}, {}) BY DEF Stages, Queue
<1>8. Reckons("low", NoRange, m) BY <1>5 DEF Reckons
<1>9. Finished("low", R, R) BY DEF Finished
<1>10. Gives(R, R, <<>>, {})
  <2>1. \A k : k \notin 1 .. Len(<<>>) BY Lengths
  <2> QED BY <2>1 DEF Gives
<1>11. Fills(R, R, <<>>, {})
  <2> SUFFICES ASSUME NEW j \in 1 .. n, High(R[j]), ~ Over(R[j], Low), NEW p \in Nat,
                      R[j].base <= p * PageSize, p * PageSize + PageSize <= End(R[j])
               PROVE  FALSE
    BY <1>1 DEF Fills
  <2>1. PICK b \in Nat, l \in Nat, x \in Nat, P \in Nat \ {0} :
          b = R[j].base /\ l = R[j].limit /\ x = p * PageSize /\ P = PageSize
    BY <1>2, EndTyped, MemblockAssumption
  <2>2. Low <= b /\ b <= x /\ x + P <= b + l BY <2>1 DEF High, End
  <2>3. l # 0 /\ b + l > Low BY <2>1, <2>2, VmemmapAssumption
  <2> QED BY <2>1, <2>3, OverIs DEF End
<1>12. Lays(NoRange, <<>>, {}, 0, m.map, m.taken) BY DEF Lays
<1> QED BY <1>4, <1>5, <1>6, <1>7, <1>8, <1>9, <1>10, <1>11, <1>12 DEF Good

\* MapLow keeps the invariant.
LEMMA LowGood ==
  ASSUME NEW R, Sound(R), NEW m, NEW l, NEW q, NEW S, NEW b, NEW F,
         Good(R, m, "low", l, q, S, b, F), NEW f, Lowering(m, f)
  PROVE  Good(R, f[LowPages], "range", l, q, S, b, F)
<1>1. PICK n \in Nat : n = Len(R) BY LenProperties DEF Sound
<1>2. R \in Seq(Region) BY DEF Sound
<1>3. /\ MemoryInv(R, m) /\ Untouched(R, m.entries, l) /\ Stages("low", l, q, S, F)
      /\ Reckons("low", l, m) /\ Gives(R, m.entries, q, F) /\ Fills(R, m.entries, q, F)
      /\ Lays(l, q, S, b, m.map, m.taken)
  BY DEF Good
<1>4. m.taken = <<>> /\ m.tabs = {} BY <1>3 DEF Reckons
<1>5. PICK x : x = f[LowPages] OBVIOUS
<1>6. LowTo(R, m, x, LowPages) BY <1>3, <1>4, <1>5, LowMaps
<1>7. PICK k \in Nat : k = Cardinality(TablesTo(LowPages)) BY <1>6, FS_CardinalityType DEF LowTo
<1>8. Grows(R, m, x, k) BY <1>6, <1>7 DEF LowTo
<1>9. MemoryInv(R, x) /\ Wears(m.entries, x.entries, n) /\ Longer(m.taken, x.taken, k)
  BY <1>1, <1>8 DEF Grows
<1>10. PICK E \in [1 .. n -> Region], E2 \in [1 .. n -> Region] :
         E = m.entries /\ E2 = x.entries
  BY <1>1, <1>3, <1>9 DEF MemoryInv, MemoryType
<1>11. Wears(E, E2, n) BY <1>9, <1>10
<1>12. l = NoRange /\ q = <<>> /\ S = {} BY <1>3 DEF Stages
<1>13. l.base \in Nat /\ End(l) \in Nat
  <2>1. l.base = 0 /\ l.limit = 0 BY <1>12 DEF NoRange
  <2> QED BY <2>1 DEF End
<1>14. Untouched(R, E2, l) BY <1>1, <1>2, <1>3, <1>10, <1>11, <1>13, UntouchedKept
<1>15. Gives(R, E2, q, F) BY <1>1, <1>2, <1>3, <1>10, <1>11, GivesKept
<1>16. Fills(R, E2, q, F) BY <1>1, <1>2, <1>3, <1>10, <1>11, FillsKept
<1>17. Stages("range", l, q, S, F) BY <1>3, <1>12 DEF Stages
<1>18. Len(x.taken) = k
  <2>1. Len(m.taken) = 0 BY <1>4, Lengths
  <2>2. Len(x.taken) = 0 + k BY <2>1, <1>9 DEF Longer
  <2> QED BY <2>2
<1>19. Reckons("range", l, x)
  <2>1. k = Cardinality(LowTables) BY <1>7 DEF LowTables, TablesTo
  <2> QED BY <2>1, <1>18 DEF Reckons
<1>20. Finished("range", R, E2) BY DEF Finished
<1>21. Lays(l, q, S, b, x.map, x.taken)
  <2>1. b = 0
    <3>1. \A lo, hi \in Nat : lo <= hi => lo \in lo .. hi OBVIOUS
    <3> QED BY <3>1, <1>3, <1>12 DEF Lays
  <2> QED BY <2>1, <1>12 DEF Lays
<1>22. Good(R, x, "range", l, q, S, b, F)
  BY <1>9, <1>10, <1>14, <1>15, <1>16, <1>17, <1>19, <1>20, <1>21 DEF Good
<1> QED BY <1>5, <1>22

-----------------------------------------------------------------------------
\* A turn of the loop over the regions keeps the invariant.

LEMMA HandedBase == ASSUME NEW l, Handed(l)
                    PROVE  l.base \in Nat /\ l.base > 0 /\ End(l) \in Nat /\ Low <= End(l) /\ l # NoRange
<1>1. PICK a \in Nat, b \in Nat, L \in Nat \ {0} : a = l.base /\ b = End(l) /\ L = Low
  BY EndTyped, VmemmapAssumption DEF Handed
<1>2. L <= a /\ a <= b BY <1>1, EndTyped DEF Handed
<1>3. L <= b /\ a > 0 BY <1>1, <1>2
<1>4. l # NoRange BY <1>1, <1>3 DEF NoRange
<1> QED BY <1>1, <1>3, <1>4

\* The first region that begins below is cut where the identity map ends: RegionAssumption
\* says that it is long enough for the code to get its length right.
LEMMA LongEnough ==
  ASSUME NEW r \in Reports, NEW R, R = Regions(r), NEW m, NEW l, NEW F, NEW b, NEW S,
         Good(R, m, "range", l, <<>>, S, b, F), NEW i \in 1 .. Len(R),
         Over(m.entries[i], Low), m.entries[i].base < Low
  PROVE  Low <= m.entries[i].limit /\ l = NoRange
<1>0. Sound(R) BY RegionsTold
<1>1. PICK n \in Nat : n = Len(R) BY <1>0, LenProperties DEF Sound
<1>2. MemoryInv(R, m) /\ Untouched(R, m.entries, l) /\ Reckons("range", l, m)
      /\ Stages("range", l, <<>>, S, F)
  BY DEF Good
<1>3. PICK E \in [1 .. n -> Region] : E = m.entries BY <1>1, <1>2 DEF MemoryInv, MemoryType
<1>4. R[i] \in Region BY <1>0, ElementOfSeq DEF Sound
<1>5. End(E[i]) = End(R[i]) /\ (l.base > 0 => End(l) <= E[i].base)
  BY <1>1, <1>2, <1>3 DEF Untouched
<1>6. PICK c \in Nat, d \in Nat, rc \in Nat, rd \in Nat, L \in Nat :
        /\ c = E[i].base /\ d = E[i].limit /\ rc = R[i].base /\ rd = R[i].limit /\ L = Low
  BY <1>1, <1>3, <1>4, EndTyped, VmemmapAssumption
<1>7. c + d = rc + rd /\ c < L /\ c + d > L
  <2>1. End(E[i]) > Low BY <1>3, OverIs
  <2> QED BY <1>3, <1>5, <1>6, <2>1 DEF End
<1>8. l = NoRange
  <2> SUFFICES ASSUME Handed(l) PROVE FALSE BY <1>2 DEF Stages
  <2>1. End(l) <= E[i].base /\ Low <= End(l) /\ End(l) \in Nat BY <1>5, HandedBase
  <2> QED BY <2>1, <1>6, <1>7
<1>9. Len(m.taken) = Cardinality(LowTables) BY <1>2, <1>8 DEF Reckons
<1>10. PICK k \in Nat, P \in Nat, x \in Nat :
         k = Len(m.taken) /\ P = PageSize /\ x = k * P
  <2>1. m.taken \in Seq(Nat) BY <1>2 DEF MemoryInv, MemoryType
  <2>2. PICK k \in Nat : k = Len(m.taken) BY <2>1, LenProperties
  <2>3. PICK P \in Nat : P = PageSize BY MemblockAssumption
  <2> QED BY <2>2, <2>3
<1>11. End(R[i]) > Low BY <1>6, <1>7 DEF End
<1>12. c <= rc + x
  <2>1. Spent(R, E, k) BY <1>2, <1>3, <1>10 DEF MemoryInv
  <2> QED BY <2>1, <1>6, <1>10, <1>11 DEF Spent
<1>13. rc <= c
  <2>1. Rests(R, E) BY <1>2, <1>3 DEF MemoryInv
  <2> QED BY <2>1, <1>6 DEF Rests
<1>14. rd >= L + x
  <2>1. R[i] \in Range(Regions(r)) BY <1>1 DEF Range
  <2>2. R[i].base < Low BY <1>6, <1>7, <1>13
  <2>3. R[i].limit >= Low + Cardinality(LowTables) * PageSize
    BY <2>1, <2>2, <1>11, RegionAssumption
  <2> QED BY <2>3, <1>6, <1>9, <1>10
<1>15. L <= d BY <1>7, <1>12, <1>14
<1> QED BY <1>3, <1>6, <1>8, <1>15

\* The turn of the loop, as a cut.
LEMMA NextCut ==
  ASSUME NEW r \in Reports, NEW R, R = Regions(r), NEW m, NEW l, NEW F, NEW b, NEW S,
         Good(R, m, "range", l, <<>>, S, b, F), NEW i \in 1 .. Len(R),
         Over(m.entries[i], Low), NEW range, range = HandedOut(m.entries[i], Low)
  PROVE  /\ Cut(m.entries[i], range, Remaining(m.entries[i], Low)) /\ Handed(range)
         /\ l.base \in Nat
         /\ l.base > 0 => Handed(l) /\ End(l) <= range.base /\ range.limit # 0
<1>0. Sound(R) BY RegionsTold
<1>1. PICK n \in Nat : n = Len(R) BY <1>0, LenProperties DEF Sound
<1>2. MemoryInv(R, m) /\ Untouched(R, m.entries, l) /\ Stages("range", l, <<>>, S, F)
  BY DEF Good
<1>3. PICK E \in [1 .. n -> Region] : E = m.entries BY <1>1, <1>2 DEF MemoryInv, MemoryType
<1>4. End(E[i]) = End(R[i]) /\ (l.base > 0 => End(l) <= E[i].base)
  BY <1>1, <1>2, <1>3 DEF Untouched
<1>5. End(E[i]) > Low BY <1>3, OverIs
<1>6. Aligned(E[i].base)
  <2>1. Even(R, E) BY <1>2, <1>3 DEF MemoryInv
  <2> QED BY <2>1, <1>4, <1>5 DEF Even
<1>7. Aligned(End(E[i])) /\ End(E[i]) < Word BY <1>0, <1>4, <1>5 DEF Sound
<1>8. E[i].base < Low => Low <= E[i].limit BY <1>3, LongEnough
<1>9. PICK rem : rem = Remaining(E[i], Low) OBVIOUS
<1>10. Cut(E[i], range, rem)
  <2>1. E[i] \in Region /\ Over(E[i], Low) BY <1>1, <1>3
  <2> QED BY <2>1, <1>3, <1>6, <1>7, <1>8, <1>9, Cuts
<1>11. Handed(range)
  <2>1. range \in Region /\ End(range) <= End(E[i]) BY <1>10 DEF Cut
  <2>2. PICK x \in Nat, y \in Nat, w \in Nat : x = End(range) /\ y = End(E[i]) /\ w = Word
    BY <2>1, <1>1, <1>3, EndTyped, MemblockAssumption
  <2>3. End(range) < Word BY <2>1, <2>2, <1>7
  <2> QED BY <2>3, <1>10 DEF Handed, Cut
<1>12. CASE l = NoRange
  <2>1. l.base = 0 BY <1>12 DEF NoRange
  <2> QED BY <2>1, <1>3, <1>9, <1>10, <1>11
<1>13. CASE Handed(l)
  <2>1. l.base \in Nat /\ l.base > 0 /\ l # NoRange BY <1>13, HandedBase
  <2>2. ~ (E[i].base < Low) BY <2>1, <1>3, LongEnough
  <2>3. E[i].base \in Nat /\ Low \in Nat BY <1>1, <1>3, EndTyped, VmemmapAssumption
  <2>4. Low <= E[i].base BY <2>2, <2>3
  <2>5. range = E[i] /\ range.limit # 0 BY <2>4, <1>10 DEF Cut
  <2>6. End(l) <= range.base BY <2>1, <2>5, <1>4
  <2> QED BY <2>1, <2>5, <2>6, <1>3, <1>9, <1>10, <1>11, <1>13
<1> QED BY <1>2, <1>12, <1>13 DEF Stages

\* NextRange keeps the invariant.
LEMMA NextGood ==
  ASSUME NEW r \in Reports, NEW R, R = Regions(r), NEW m, NEW F, NEW b, NEW S,
         Good(R, m, "range", last, <<>>, S, b, F),
         NEW i, i = FirstOver(m.entries, Low), i # 0,
         NEW range, range = HandedOut(m.entries[i], Low),
         NEW q, q = Gap(range) \o Populated(range),
         NEW s, s = IF q = <<>> THEN "range" ELSE "page",
         NEW m2,
         m2 = [entries |-> [m.entries EXCEPT ![i] = Remaining(m.entries[i], Low)],
               taken |-> m.taken, starved |-> m.starved, tabs |-> m.tabs, map |-> m.map]
  PROVE  Good(R, m2, s, range, q, S, b, F)
<1>0. Sound(R) BY RegionsTold
<1>a. R \in Seq(Region) BY <1>0 DEF Sound
<1>1. PICK n \in Nat : n = Len(R) BY <1>a, LenProperties
<1>2. /\ MemoryInv(R, m) /\ Untouched(R, m.entries, last) /\ Stages("range", last, <<>>, S, F)
      /\ Gives(R, m.entries, <<>>, F) /\ Fills(R, m.entries, <<>>, F)
      /\ Lays(last, <<>>, S, b, m.map, m.taken)
  BY DEF Good
<1>3. PICK E \in [1 .. n -> Region] : E = m.entries BY <1>1, <1>2 DEF MemoryInv, MemoryType
<1>4. /\ i \in 1 .. n /\ Over(E[i], Low)
      /\ \A j \in 1 .. n : Over(E[j], Low) => i <= j
  BY <1>3, FirstOverIs
<1>5. /\ Cut(E[i], range, Remaining(E[i], Low)) /\ Handed(range) /\ last.base \in Nat
      /\ last.base > 0 => Handed(last) /\ End(last) <= range.base /\ range.limit # 0
  BY <1>1, <1>3, <1>4, NextCut
<1>6. Turn(last, range, q) BY <1>5, NextQueue
<1>7. PICK E2 : E2 = [E EXCEPT ![i] = Remaining(E[i], Low)] OBVIOUS
<1>8. CutAt(E, E2, i, range, n) BY <1>4, <1>5, <1>7, CutOne
<1>9. m2.entries = E2 /\ m2.taken = m.taken /\ m2.map = m.map BY <1>3, <1>7
<1>10. MemoryInv(R, m2)
  <2>1. i \in 1 .. Len(R) /\ CutAt(m.entries, E2, i, range, Len(R)) BY <1>1, <1>3, <1>4, <1>8
  <2>2. m2 = [entries |-> E2, taken |-> m.taken, starved |-> m.starved, tabs |-> m.tabs,
              map |-> m.map]
    BY <1>3, <1>7
  <2> QED BY <2>1, <2>2, <1>0, <1>2, CutMemory
<1>11. Rests(R, E) BY <1>2, <1>3 DEF MemoryInv
<1>b. Cutting(R, E, E2, i, range, n) BY <1>a, <1>1, <1>4, <1>8, <1>11 DEF Cutting
<1>12. Untouched(R, E2, range)
  <2>1. Untouched(R, E, last) BY <1>2, <1>3
  <2> QED BY <2>1, <1>0, <1>1, <1>4, <1>8, <1>11, CutUntouched
<1>13. Gives(R, E2, q, F)
  <2>1. PICK q0 : q0 = <<>> /\ Gives(R, E, q0, F) BY <1>2, <1>3
  <2> QED BY <2>1, <1>6, <1>b, CutGives
<1>14. Fills(R, E2, q, F)
  <2>1. PICK q0 : q0 = <<>> /\ Fills(R, E, q0, F) /\ Untouched(R, E, last) BY <1>2, <1>3
  <2>2. Over(E[i], Low) BY <1>4
  <2> QED BY <2>1, <2>2, <1>6, <1>b, CutFills
<1>15. range # NoRange BY <1>5, HandedBase
<1>16. Stages(s, range, q, S, F)
  <2>1. Queue(range, q) BY <1>6 DEF Turn
  <2>2. F \subseteq S BY <1>2 DEF Stages
  <2>3. s \in {"low", "range", "page", "done"} /\ (s = "page" <=> q # <<>>) /\ s # "low"
    OBVIOUS
  <2> QED BY <2>1, <2>2, <2>3, <1>5, <1>15 DEF Stages
<1>17. Reckons(s, range, m2)
  <2>1. s # "low" OBVIOUS
  <2> QED BY <2>1, <1>15 DEF Reckons
<1>18. Finished(s, R, E2)
  <2>1. s # "done" OBVIOUS
  <2> QED BY <2>1 DEF Finished
<1>19. Lays(range, q, S, b, m2.map, m2.taken)
  <2>1. CASE S = {} /\ b = 0 BY <2>1 DEF Lays
  <2>2. CASE ~ (S = {} /\ b = 0)
    <3>1. PICK lo \in Nat, hi \in Nat :
            /\ lo <= hi /\ S = lo .. hi /\ Edge(last, <<>>, hi * PageSize + PageSize)
            /\ Backed(lo, hi, b, m.map, m.taken)
      BY <2>2, <1>2 DEF Lays
    <3>2. lo \in S BY <3>1
    <3>3. Handed(last) BY <3>2, <1>2 DEF Stages
    <3>4. last.base > 0 BY <3>3, HandedBase
    <3>5. hi * PageSize + PageSize \in Nat BY <3>1, MemblockAssumption
    <3>6. Edge(range, q, hi * PageSize + PageSize) BY <3>1, <3>4, <3>5, <1>6 DEF Turn
    <3> QED BY <3>1, <3>6, <1>9 DEF Lays
  <2> QED BY <2>1, <2>2
<1> QED BY <1>9, <1>10, <1>12, <1>13, <1>14, <1>16, <1>17, <1>18, <1>19 DEF Good

-----------------------------------------------------------------------------
\* Populating a page takes pages from memory.

\* From m to m2, pages are taken, and only those of X are mapped.
Evolves(R, m, m2, X) ==
  (\E k \in Nat : Grows(R, m, m2, k)) /\ Keeps(m.map, m2.map, X)

\* The number of tables on the way to a page.
LEMMA PathCount ==
  ASSUME NEW v \in Nat, NEW tables
  PROVE  Cardinality(Path(v) \ tables) \in Nat
<1>1. Path(v) \ tables \subseteq Path(v) OBVIOUS
<1>2. IsFiniteSet(Path(v) \ tables) BY <1>1, PathTyped, FS_Subset
<1> QED BY <1>2, FS_CardinalityType

\* Mapping a page takes pages and maps no other.
LEMMA MapEvolves ==
  ASSUME NEW R, Sound(R), NEW m, MemoryInv(R, m), NEW p \in Nat, NEW phy \in Nat,
         NEW m2, m2 = MapPage(m, p, phy)
  PROVE  Evolves(R, m, m2, {p}) /\ p \in DOMAIN m2.map /\ m2.map[p] = phy
<1>1. Grows(R, m, m2, Cardinality(Path(p) \ m.tabs)) /\ Mapped(m, m2, p, phy)
  BY MapPageGrows
<1>2. Cardinality(Path(p) \ m.tabs) \in Nat BY PathCount
<1>3. Keeps(m.map, m2.map, {p}) BY <1>1 DEF Mapped, Keeps
<1>4. p \in DOMAIN m2.map /\ m2.map[p] = phy BY <1>1 DEF Mapped
<1> QED BY <1>1, <1>2, <1>3, <1>4 DEF Evolves

LEMMA EvolvesOn ==
  ASSUME NEW R, Sound(R), NEW m, MemoryInv(R, m), NEW m2, NEW m3, NEW X, NEW Y,
         Evolves(R, m, m2, X), Evolves(R, m2, m3, Y)
  PROVE  Evolves(R, m, m3, X \cup Y)
<1>1. PICK k \in Nat : Grows(R, m, m2, k) BY DEF Evolves
<1>2. PICK l \in Nat : Grows(R, m2, m3, l) BY DEF Evolves
<1>3. PICK s \in Nat : s = k + l OBVIOUS
<1>4. Grows(R, m, m3, s) BY <1>1, <1>2, <1>3, GrowsOn
<1>5. Keeps(m.map, m3.map, X \cup Y) BY DEF Keeps, Evolves
<1> QED BY <1>4, <1>5 DEF Evolves

LEMMA EvolvesLonger ==
  ASSUME NEW R, NEW m, NEW m2, NEW X, Evolves(R, m, m2, X)
  PROVE  MemoryInv(R, m2) /\ Keeps(m.map, m2.map, X) /\ \E k \in Nat : Longer(m.taken, m2.taken, k)
BY DEF Evolves, Grows

\* The page of the array is mapped to a page of its own.
LEMMA ArrayEvolves ==
  ASSUME NEW R, Sound(R), NEW m, MemoryInv(R, m), NEW v \in Nat, NEW got, got = AllocatePage(m),
         NEW m2, m2 = MapPage(got, v, got.taken[Len(got.taken)])
  PROVE  Evolves(R, m, m2, {v}) /\ Owned(m2.map, m2.taken, v)
<1>1. Grows(R, m, got, 1) /\ got.map = m.map BY AllocateGrows
<1>2. Evolves(R, m, got, {})
  <2>1. Keeps(m.map, got.map, {}) BY <1>1 DEF Keeps
  <2> QED BY <1>1, <2>1 DEF Evolves
<1>3. MemoryInv(R, got) BY <1>1 DEF Grows
<1>4. got.taken \in Seq(Nat) BY <1>3 DEF MemoryInv, MemoryType
<1>5. PICK n \in Nat : n = Len(got.taken) BY <1>4, LenProperties
<1>6. n \in 1 .. n
  <2>1. m.taken \in Seq(Nat) BY DEF MemoryInv, MemoryType
  <2>2. PICK d \in Nat : d = Len(m.taken) BY <2>1, LenProperties
  <2>3. n = d + 1 BY <1>1, <1>5, <2>2 DEF Grows, Longer
  <2> QED BY <2>3
<1>7. PICK x \in Nat : x = got.taken[n] BY <1>4, <1>5, <1>6, ElementOfSeq
<1>8. m2 = MapPage(got, v, x) BY <1>5, <1>7
<1>9. Evolves(R, got, m2, {v}) /\ v \in DOMAIN m2.map /\ m2.map[v] = x
  BY <1>3, <1>8, MapEvolves
<1>10. Evolves(R, m, m2, {v})
  <2>1. {} \cup {v} = {v} OBVIOUS
  <2>2. Evolves(R, m, m2, {} \cup {v}) BY <1>2, <1>9, EvolvesOn
  <2> QED BY <2>1, <2>2
<1>11. Owned(m2.map, m2.taken, v)
  <2>1. PICK k \in Nat : Longer(got.taken, m2.taken, k) BY <1>9, EvolvesLonger
  <2>2. Len(m2.taken) = n + k /\ m2.taken[n] = x BY <2>1, <1>5, <1>6, <1>7 DEF Longer
  <2>3. n \in 1 .. Len(m2.taken) BY <2>2, <1>6
  <2> QED BY <2>2, <2>3, <1>9 DEF Owned
<1> QED BY <1>10, <1>11

\* populate_vmemmap_range's changes of the memory in one turn: page p, and page v of the array
\* if `new` says so.
Turned(R, m, m2, p, v, new) ==
  /\ \E X \in {{p}, {p, v}} : Evolves(R, m, m2, X) /\ (~ new => X = {p})
  /\ new => Owned(m2.map, m2.taken, v)

\* PopulatePage changes the memory as the turn of populate_vmemmap_range's loop does.
LEMMA PageTurned ==
  ASSUME NEW R, Sound(R), NEW m, MemoryInv(R, m), NEW p \in Nat, NEW v \in Nat, NEW phy \in Nat,
         NEW identity, identity = MapPage(m, p, phy), NEW got, got = AllocatePage(identity),
         NEW new \in BOOLEAN, NEW m2,
         m2 = IF new THEN MapPage(got, v, got.taken[Len(got.taken)]) ELSE identity
  PROVE  Turned(R, m, m2, p, v, new)
<1>1. Evolves(R, m, identity, {p}) BY MapEvolves
<1>2. CASE ~ new BY <1>1, <1>2 DEF Turned
<1>3. CASE new
  <2>1. MemoryInv(R, identity) BY <1>1, EvolvesLonger
  <2>2. m2 = MapPage(got, v, got.taken[Len(got.taken)]) BY <1>3
  <2>3. Evolves(R, identity, m2, {v}) /\ Owned(m2.map, m2.taken, v)
    BY <2>1, <2>2, ArrayEvolves
  <2>4. Evolves(R, m, m2, {p} \cup {v}) BY <1>1, <2>3, EvolvesOn
  <2>5. {p} \cup {v} = {p, v} OBVIOUS
  <2>6. Evolves(R, m, m2, {p, v}) BY <2>4, <2>5
  <2> QED BY <2>3, <2>6, <1>3 DEF Turned
<1> QED BY <1>2, <1>3

-----------------------------------------------------------------------------
\* Populating a page keeps the invariant.

\* The array of struct pages grows by one frame.
LEMMA PageLays ==
  ASSUME NEW R, NEW M, NEW M2, NEW p \in Nat, NEW v, Turned(R, M, M2, p, v, NewBacking(p)),
         MemoryInv(R, M), NEW l, NEW q, NEW q2, Shrinks(l, q, q2), AtFront(q, p), p < VBase,
         v = Pfn(StructAt(p) + StructSize), NEW S, Lays(l, q, S, backed, M.map, M.taken)
  PROVE  Lays(l, q2, S \cup {p}, IF NewBacking(p) THEN v ELSE backed, M2.map, M2.taken)
<1>a. PICK X \in {{p}, {p, v}} : Evolves(R, M, M2, X) /\ (~ NewBacking(p) => X = {p})
  BY DEF Turned
<1>b. MemoryInv(R, M2) /\ Keeps(M.map, M2.map, X) BY <1>a, EvolvesLonger
<1>c. PICK k \in Nat : Longer(M.taken, M2.taken, k) BY <1>a, EvolvesLonger
<1>d. PICK T \in Seq(Nat), T2 \in Seq(Nat), m \in {M.map}, m2 \in {M2.map} :
        T = M.taken /\ T2 = M2.taken /\ m = M.map /\ m2 = M2.map
  BY <1>b DEF MemoryInv, MemoryType
<1>e. /\ Keeps(m, m2, X) /\ Longer(T, T2, k) /\ Lays(l, q, S, backed, m, T)
      /\ NewBacking(p) => Owned(m2, T2, v)
  BY <1>b, <1>c, <1>d DEF Turned
<1> SUFFICES Lays(l, q2, S \cup {p}, IF NewBacking(p) THEN v ELSE backed, m2, T2) BY <1>d
<1>1. PICK P \in Nat \ {0}, x \in Nat : P = PageSize /\ x = p * P BY MemblockAssumption
<1>2. x = q[1].base /\ q # <<>> BY <1>1 DEF AtFront
<1>3. Edge(l, q2, x + P) BY <1>1, <1>2 DEF Shrinks
<1>4. v \in Nat BY ArrayPage
<1>5. CASE S = {} /\ backed = 0
  <2>1. NewBacking(p) BY <1>5, FirstBacking
  <2>2. Backed(p, p, v, m2, T2) BY <2>1, <1>e, BackedFirst
  <2>3. S \cup {p} = p .. p BY <1>5
  <2>4. Edge(l, q2, p * PageSize + PageSize) BY <1>1, <1>3
  <2>5. p <= p OBVIOUS
  <2>6. Lays(l, q2, S \cup {p}, v, m2, T2) BY <2>2, <2>3, <2>4, <2>5 DEF Lays
  <2> QED BY <2>1, <2>6
<1>6. CASE ~ (S = {} /\ backed = 0)
  <2>1. PICK lo \in Nat, hi \in Nat :
          /\ lo <= hi /\ S = lo .. hi /\ Edge(l, q, hi * PageSize + PageSize)
          /\ Backed(lo, hi, backed, m, T)
    BY <1>6, <1>e DEF Lays
  <2>2. hi * P + P = x BY <2>1, <1>1, <1>2 DEF Edge
  <2>3. p = hi + 1
    <3>1. (hi + 1) * P = hi * P + P /\ (hi + 1) * P \in Nat BY <1>1
    <3>2. (hi + 1) * P <= x /\ x < (hi + 1) * P + P BY <2>2, <3>1, <1>1
    <3>3. Pfn(x) = hi + 1 BY <3>2, <1>1, PageNumber
    <3>4. p * P <= x /\ x < p * P + P BY <1>1
    <3>5. Pfn(x) = p BY <3>4, <1>1, PageNumber
    <3> QED BY <3>3, <3>5
  <2>4. S \cup {p} = lo .. p BY <2>1, <2>3
  <2>5. lo <= p BY <2>1, <2>3
  <2>6. Edge(l, q2, p * PageSize + PageSize) BY <1>1, <1>3
  <2>7. backed \in Nat BY <2>1 DEF Backed
  <2>8. CASE NewBacking(p)
    <3>1. Keeps(m, m2, {p, v})
      <4>1. X \subseteq {p, v} OBVIOUS
      <4> QED BY <4>1, <1>e DEF Keeps
    <3>2. Owned(m2, T2, v) BY <2>8, <1>e
    <3>3. Backed(lo, p, v, m2, T2)
      BY <1>4, <1>e, <2>1, <2>3, <2>7, <2>8, <3>1, <3>2, BackedNext
    <3>4. Lays(l, q2, S \cup {p}, v, m2, T2) BY <2>4, <2>5, <2>6, <3>3 DEF Lays
    <3> QED BY <2>8, <3>4
  <2>9. CASE ~ NewBacking(p)
    <3>1. Keeps(m, m2, {p}) BY <2>9, <1>a, <1>e
    <3>2. Backed(lo, p, backed, m2, T2)
      BY <1>e, <2>1, <2>3, <2>7, <2>9, <3>1, BackedSame
    <3>3. Lays(l, q2, S \cup {p}, backed, m2, T2) BY <2>4, <2>5, <2>6, <3>2 DEF Lays
    <3> QED BY <2>9, <3>3
  <2> QED BY <2>8, <2>9
<1> QED BY <1>5, <1>6

\* Pages are taken while the ranges are worked on.
LEMMA EvolvesGood ==
  ASSUME NEW R, Sound(R), NEW m, NEW m2, NEW X, Evolves(R, m, m2, X), MemoryInv(R, m),
         NEW l, Handed(l), Untouched(R, m.entries, l),
         NEW q, NEW F, Gives(R, m.entries, q, F), Fills(R, m.entries, q, F)
  PROVE  /\ MemoryInv(R, m2) /\ Untouched(R, m2.entries, l)
         /\ Gives(R, m2.entries, q, F) /\ Fills(R, m2.entries, q, F)
<1>1. PICK n \in Nat : n = Len(R) BY LenProperties DEF Sound
<1>2. R \in Seq(Region) BY DEF Sound
<1>3. MemoryInv(R, m2) /\ Wears(m.entries, m2.entries, n) BY <1>1 DEF Evolves, Grows
<1>4. PICK E \in [1 .. n -> Region], E2 \in [1 .. n -> Region] :
        E = m.entries /\ E2 = m2.entries
  BY <1>1, <1>3 DEF MemoryInv, MemoryType
<1>5. Wears(E, E2, n) BY <1>3, <1>4
<1>6. l.base \in Nat /\ End(l) \in Nat BY HandedBase
<1>7. Untouched(R, E2, l) BY <1>1, <1>2, <1>4, <1>5, <1>6, UntouchedKept
<1>8. Gives(R, E2, q, F) BY <1>1, <1>2, <1>4, <1>5, GivesKept
<1>9. Fills(R, E2, q, F) BY <1>1, <1>2, <1>4, <1>5, FillsKept
<1> QED BY <1>3, <1>4, <1>7, <1>8, <1>9

\* PopulatePage keeps the invariant.
LEMMA PageGood ==
  ASSUME NEW R, Sound(R), NEW m, NEW l, NEW q, NEW S, NEW F,
         Good(R, m, "page", l, q, S, backed, F),
         NEW p, p = Pfn(Head(q).base), NEW v, v = Pfn(StructAt(p) + StructSize),
         NEW m2, MemoryInv(R, m) /\ p \in Nat /\ v \in Nat => Turned(R, m, m2, p, v, NewBacking(p)),
         NEW q2, q2 = Shorter(q), NEW s, s = IF q2 = <<>> THEN "range" ELSE "page",
         NEW F2, F2 = IF Head(q).type = RAM THEN F \cup {p} ELSE F
  PROVE  Good(R, m2, s, l, q2, S \cup {p}, IF NewBacking(p) THEN v ELSE backed, F2)
<1>1. PICK n \in Nat : n = Len(R) BY LenProperties DEF Sound
<1>2. R \in Seq(Region) BY DEF Sound
<1>3. /\ MemoryInv(R, m) /\ Untouched(R, m.entries, l) /\ Stages("page", l, q, S, F)
      /\ Gives(R, m.entries, q, F) /\ Fills(R, m.entries, q, F)
      /\ Lays(l, q, S, backed, m.map, m.taken)
  BY DEF Good
<1>4. q # <<>> /\ Queue(l, q) /\ Handed(l) /\ F \subseteq S BY <1>3 DEF Stages
<1>5. Shrinks(l, q, q2) /\ Head(q) = q[1] /\ Head(q) \in Piece BY <1>4, QueueShrinks
<1>6. PICK h \in Piece : h = q[1] /\ h = Head(q) BY <1>5
<1>7. PICK x \in Nat, P \in Nat \ {0} : x = h.base /\ Aligned(x) /\ P = PageSize
  BY MemblockAssumption DEF Piece, Region
<1>8. p \in Nat /\ p * PageSize = x BY <1>6, <1>7, PageAt
<1>9. AtFront(q, p) BY <1>4, <1>6, <1>7, <1>8 DEF AtFront
<1>10. p < VBase
  <2>1. PICK d \in Nat, t \in Nat, M \in Nat : d = h.limit /\ t = End(h) /\ M = MaxSupport
    BY EndTyped, VmemmapAssumption DEF Piece
  <2>2. P <= d /\ t = x + d /\ t < M BY <2>1, <1>7 DEF Piece, End
  <2>3. x < M BY <2>2
  <2>4. p * PageSize < MaxSupport BY <2>1, <2>3, <1>8
  <2> QED BY <2>4, <1>8, FrameLow
<1>11. v \in Nat BY <1>8, ArrayPage
<1>12. Turned(R, m, m2, p, v, NewBacking(p)) BY <1>3, <1>8, <1>11
<1>13. PICK X \in {{p}, {p, v}} : Evolves(R, m, m2, X) /\ (~ NewBacking(p) => X = {p})
  BY <1>12 DEF Turned
<1>14. NewBacking(p) => Owned(m2.map, m2.taken, v) BY <1>12 DEF Turned
<1>15. /\ MemoryInv(R, m2) /\ Untouched(R, m2.entries, l)
       /\ Gives(R, m2.entries, q, F) /\ Fills(R, m2.entries, q, F)
  BY <1>3, <1>4, <1>13, EvolvesGood
<1>16. PICK E2 \in [1 .. n -> Region] : E2 = m2.entries
  BY <1>1, <1>15 DEF MemoryInv, MemoryType
<1>17. F2 = Given(F, q, p) BY <1>6 DEF Given
<1>18. Gives(R, E2, q2, F2)
  <2>1. Gives(R, E2, q, F) BY <1>15, <1>16
  <2>2. Gives(R, E2, q2, Given(F, q, p)) BY <2>1, <1>1, <1>2, <1>4, <1>5, <1>9, GivesShrunk
  <2> QED BY <2>2, <1>17
<1>19. Fills(R, E2, q2, F2)
  <2>1. Fills(R, E2, q, F) BY <1>15, <1>16
  <2>2. Fills(R, E2, q2, Given(F, q, p)) BY <2>1, <1>1, <1>2, <1>5, <1>9, FillsShrunk
  <2> QED BY <2>2, <1>17
<1>20. l # NoRange BY <1>4, HandedBase
<1>21. s \in {"low", "range", "page", "done"} /\ (s = "page" <=> q2 # <<>>) /\ s # "low"
       /\ s # "done"
  OBVIOUS
<1>22. Stages(s, l, q2, S \cup {p}, F2)
  <2>1. Queue(l, q2) BY <1>5 DEF Shrinks
  <2>2. F2 \subseteq S \cup {p} BY <1>4, <1>17 DEF Given
  <2> QED BY <2>1, <2>2, <1>4, <1>20, <1>21 DEF Stages
<1>23. Reckons(s, l, m2) BY <1>20, <1>21 DEF Reckons
<1>24. Finished(s, R, E2) BY <1>21 DEF Finished
<1>25. Lays(l, q2, S \cup {p}, IF NewBacking(p) THEN v ELSE backed, m2.map, m2.taken)
  BY <1>3, <1>5, <1>8, <1>9, <1>10, <1>12, PageLays
<1> QED BY <1>15, <1>16, <1>18, <1>19, <1>22, <1>23, <1>24, <1>25 DEF Good

-----------------------------------------------------------------------------
\* The inductive invariant.
VInv ==
  /\ report \in Reports
  /\ Good(Regions(report), Memory, pc, last, todo, structs, backed, freed)

LEMMA BecomesIs ==
  ASSUME NEW R, NEW m, MemoryInv(R, m), Becomes(m)
  PROVE  Memory' = m
BY DEF Becomes, Memory, MemoryInv, MemoryType

\* VInv holds when the boot begins.
LEMMA InitInv == Init => VInv
<1> SUFFICES ASSUME Init PROVE VInv OBVIOUS
<1>1. PICK R : R = Regions(report) OBVIOUS
<1>2. Sound(R) BY <1>1, RegionsTold DEF Init
<1>3. Memory = [entries |-> R, taken |-> <<>>, starved |-> FALSE, tabs |-> {}, map |-> <<>>]
  BY <1>1 DEF Init, Memory
<1>4. Good(R, Memory, "low", NoRange, <<>>, {}, 0, {}) BY <1>2, <1>3, InitGood
<1> QED BY <1>1, <1>4 DEF Init, VInv

LEMMA MapLowInv == VInv /\ MapLow => VInv'
<1> SUFFICES ASSUME VInv, MapLow PROVE VInv' OBVIOUS
<1> DEFINE f == CHOOSE f : Lowering(Memory, f)
<1>1. PICK R : R = Regions(report) OBVIOUS
<1>2. Sound(R) BY <1>1, RegionsTold DEF VInv
<1>3. Good(R, Memory, "low", last, todo, structs, backed, freed) BY <1>1 DEF VInv, MapLow
<1>4. Lowering(Memory, f)
  <2>1. MemoryInv(R, Memory) BY <1>3 DEF Good
  <2>2. \E g : Lowering(Memory, g) BY <1>2, <2>1, LoweringExists
  <2> QED BY <2>2
<1>5. Becomes(f[LowPages]) BY DEF MapLow, Lowering
<1> HIDE DEF f
<1>6. Good(R, f[LowPages], "range", last, todo, structs, backed, freed)
  BY <1>2, <1>3, <1>4, LowGood
<1>7. PICK m : m = f[LowPages] OBVIOUS
<1>8. Memory' = m
  <2>1. MemoryInv(R, m) BY <1>6, <1>7 DEF Good
  <2>2. Becomes(m) BY <1>5, <1>7
  <2> QED BY <2>1, <2>2, BecomesIs
<1>9. /\ report' = report /\ pc' = "range" /\ last' = last /\ todo' = todo
      /\ structs' = structs /\ backed' = backed /\ freed' = freed
  BY DEF MapLow
<1> QED BY <1>1, <1>6, <1>7, <1>8, <1>9 DEF VInv

LEMMA DoneGood ==
  ASSUME NEW R, Sound(R), NEW m, NEW l, NEW q, NEW S, NEW b, NEW F,
         Good(R, m, "range", l, q, S, b, F), FirstOver(m.entries, Low) = 0
  PROVE  Good(R, m, "done", l, q, S, b, F)
<1>1. PICK n \in Nat : n = Len(R) BY LenProperties DEF Sound
<1>2. MemoryInv(R, m) /\ Stages("range", l, q, S, F) /\ Reckons("range", l, m) BY DEF Good
<1>3. PICK E \in [1 .. n -> Region] : E = m.entries BY <1>1, <1>2 DEF MemoryInv, MemoryType
<1>4. \A j \in 1 .. n : ~ Over(E[j], Low)
  <2>1. ~ (FirstOver(E, Low) \in 1 .. n) BY <1>3
  <2> QED BY <2>1, FirstOverIs
<1>5. Finished("done", R, m.entries) BY <1>1, <1>3, <1>4 DEF Finished
<1>6. Stages("done", l, q, S, F) BY <1>2 DEF Stages
<1>7. Reckons("done", l, m) BY <1>2 DEF Reckons
<1> QED BY <1>5, <1>6, <1>7 DEF Good

LEMMA NextRangeInv == VInv /\ NextRange => VInv'
<1> SUFFICES ASSUME VInv, NextRange PROVE VInv' OBVIOUS
<1>1. PICK R : R = Regions(report) OBVIOUS
<1>2. Sound(R) /\ report \in Reports BY <1>1, RegionsTold DEF VInv
<1>3. Good(R, Memory, "range", last, todo, structs, backed, freed)
  BY <1>1 DEF VInv, NextRange
<1>4. todo = <<>>
  <2>1. Stages("range", last, todo, structs, freed) BY <1>3 DEF Good
  <2> QED BY <2>1 DEF Stages
<1>5. Memory.entries = entries BY DEF Memory
<1>6. PICK i : i = FirstOver(entries, Low) OBVIOUS
<1>7. /\ report' = report /\ taken' = taken /\ starved' = starved /\ tabs' = tabs /\ map' = map
      /\ backed' = backed /\ structs' = structs /\ freed' = freed
  BY DEF NextRange
<1>8. CASE i = 0
  <2>1. pc' = "done" /\ entries' = entries /\ last' = last /\ todo' = todo
    BY <1>6, <1>8 DEF NextRange
  <2>2. Memory' = Memory BY <1>7, <2>1 DEF Memory
  <2>3. Good(R, Memory, "done", last, todo, structs, backed, freed)
    BY <1>2, <1>3, <1>5, <1>6, <1>8, DoneGood
  <2> QED BY <1>1, <1>2, <1>7, <2>1, <2>2, <2>3 DEF VInv
<1>9. CASE i # 0
  <2>1. PICK range : range = HandedOut(entries[i], Low) OBVIOUS
  <2>2. PICK q : q = Gap(range) \o Populated(range) OBVIOUS
  <2>3. /\ entries' = [entries EXCEPT ![i] = Remaining(entries[i], Low)]
        /\ last' = range /\ todo' = q
        /\ pc' = IF q = <<>> THEN "range" ELSE "page"
    BY <1>6, <1>9, <2>1, <2>2 DEF NextRange
  <2>4. PICK s : s = IF q = <<>> THEN "range" ELSE "page" OBVIOUS
  <2>5. PICK m : m = Memory OBVIOUS
  <2>6. /\ m.entries = entries /\ m.taken = taken /\ m.starved = starved /\ m.tabs = tabs
        /\ m.map = map
    BY <2>5 DEF Memory
  <2>7. PICK m2 : m2 = [entries |-> [m.entries EXCEPT ![i] = Remaining(m.entries[i], Low)],
                        taken |-> m.taken, starved |-> m.starved, tabs |-> m.tabs,
                        map |-> m.map]
    OBVIOUS
  <2>8. Memory' = m2 BY <1>7, <2>3, <2>6, <2>7 DEF Memory
  <2>9. Good(R, m, "range", last, <<>>, structs, backed, freed) BY <1>3, <1>4, <2>5
  <2>10. i = FirstOver(m.entries, Low) /\ range = HandedOut(m.entries[i], Low)
    BY <1>6, <2>1, <2>6
  <2>11. Good(R, m2, s, range, q, structs, backed, freed)
    BY <1>1, <1>2, <1>9, <2>2, <2>4, <2>7, <2>9, <2>10, NextGood
  <2>12. last' = range /\ todo' = q /\ pc' = s BY <2>3, <2>4
  <2>13. report' \in Reports /\ R = Regions(report') BY <1>1, <1>2, <1>7
  <2> QED BY <1>7, <2>8, <2>11, <2>12, <2>13 DEF VInv
<1> QED BY <1>8, <1>9

LEMMA PopulatePageInv == VInv /\ PopulatePage => VInv'
<1> SUFFICES ASSUME VInv, PopulatePage PROVE VInv' OBVIOUS
<1>1. PICK R : R = Regions(report) OBVIOUS
<1>2. Sound(R) /\ report \in Reports BY <1>1, RegionsTold DEF VInv
<1>3. PICK m : m = Memory OBVIOUS
<1>4. Good(R, m, "page", last, todo, structs, backed, freed)
  BY <1>1, <1>3 DEF VInv, PopulatePage
<1>5. PICK p : p = Pfn(Head(todo).base) OBVIOUS
<1>6. PICK v : v = Pfn(StructAt(p) + StructSize) OBVIOUS
<1>7. PICK identity : identity = MapPage(m, p, Head(todo).base) OBVIOUS
<1>8. PICK got : got = AllocatePage(identity) OBVIOUS
<1>9. PICK m2 : m2 = IF NewBacking(p) THEN MapPage(got, v, got.taken[Len(got.taken)])
                                      ELSE identity
  OBVIOUS
<1>10. PICK q2 : q2 = Shorter(todo) OBVIOUS
<1>11. PICK s : s = IF q2 = <<>> THEN "range" ELSE "page" OBVIOUS
<1>12. PICK F2 : F2 = IF Head(todo).type = RAM THEN freed \cup {p} ELSE freed OBVIOUS
<1>13. /\ Becomes(m2) /\ backed' = IF NewBacking(p) THEN v ELSE backed
       /\ structs' = structs \cup {p} /\ freed' = F2 /\ report' = report /\ last' = last
  <2>1. /\ IF NewBacking(p)
             THEN backed' = v /\ Becomes(MapPage(got, v, got.taken[Len(got.taken)]))
             ELSE UNCHANGED backed /\ Becomes(identity)
        /\ structs' = structs \cup {p} /\ freed' = F2 /\ report' = report /\ last' = last
    BY <1>3, <1>5, <1>6, <1>7, <1>8, <1>12 DEF PopulatePage
  <2> QED BY <2>1, <1>9
<1>14. todo' = q2 /\ pc' = s BY <1>10, <1>11 DEF PopulatePage, Shorter, Rest
<1>15. MemoryInv(R, m) /\ p \in Nat /\ v \in Nat => Turned(R, m, m2, p, v, NewBacking(p))
  <2> SUFFICES ASSUME MemoryInv(R, m), p \in Nat, v \in Nat
               PROVE  Turned(R, m, m2, p, v, NewBacking(p))
    OBVIOUS
  <2>1. PICK phy \in Nat : phy = Head(todo).base
    <3>1. Queue(last, todo) /\ todo # <<>> BY <1>4 DEF Good, Stages
    <3>2. Head(todo) \in Piece BY <3>1, QueueShrinks
    <3> QED BY <3>2 DEF Piece, Region
  <2>2. identity = MapPage(m, p, phy) BY <1>7, <2>1
  <2>3. ASSUME NEW new \in BOOLEAN, new <=> NewBacking(p)
        PROVE  Turned(R, m, m2, p, v, new)
    <3>1. m2 = IF new THEN MapPage(got, v, got.taken[Len(got.taken)]) ELSE identity
      BY <1>9, <2>3
    <3> QED BY <1>2, <1>8, <2>2, <3>1, PageTurned
  <2>4. CASE NewBacking(p)
    <3>1. Turned(R, m, m2, p, v, TRUE) BY <2>3, <2>4
    <3> QED BY <2>4, <3>1 DEF Turned
  <2>5. CASE ~ NewBacking(p)
    <3>1. Turned(R, m, m2, p, v, FALSE) BY <2>3, <2>5
    <3> QED BY <2>5, <3>1 DEF Turned
  <2> QED BY <2>4, <2>5
<1>16. Good(R, m2, s, last, q2, structs \cup {p}, IF NewBacking(p) THEN v ELSE backed, F2)
  BY <1>2, <1>4, <1>5, <1>6, <1>10, <1>11, <1>12, <1>15, PageGood
<1>17. Memory' = m2
  <2>1. MemoryInv(R, m2) BY <1>16 DEF Good
  <2> QED BY <2>1, <1>13, BecomesIs
<1>18. report' \in Reports /\ R = Regions(report') BY <1>1, <1>2, <1>13
<1> QED BY <1>13, <1>14, <1>16, <1>17, <1>18 DEF VInv

\* VInv holds always.
LEMMA Invariance == Spec => []VInv
<1>1. VInv /\ [Next]_vars => VInv'
  <2> SUFFICES ASSUME VInv, [Next]_vars PROVE VInv' OBVIOUS
  <2>1. CASE MapLow BY <2>1, MapLowInv
  <2>2. CASE NextRange BY <2>2, NextRangeInv
  <2>3. CASE PopulatePage BY <2>3, PopulatePageInv
  <2>4. CASE UNCHANGED vars BY <2>4 DEF vars, memory, VInv, Memory
  <2> QED BY <2>1, <2>2, <2>3, <2>4 DEF Next, Done
<1> QED BY <1>1, InitInv, PTL DEF Spec

-----------------------------------------------------------------------------
\* What the invariant says of the variables.

\* The invariant, of the variables themselves.
Plain(R, n) ==
  /\ n = Len(R) /\ n \in Nat /\ Sound(R) /\ Faithful(report, R)
  /\ entries \in [1 .. n -> Region] /\ taken \in Seq(Nat) /\ starved \in BOOLEAN
  /\ Rests(R, entries) /\ Used(R, entries, taken)
  /\ starved \/ (Fronts(R, entries, taken) /\ Distinct(taken))
  /\ Stages(pc, last, todo, structs, freed) /\ Finished(pc, R, entries)
  /\ Gives(R, entries, todo, freed) /\ Fills(R, entries, todo, freed)
  /\ Lays(last, todo, structs, backed, map, taken)

LEMMA PlainInv == ASSUME VInv PROVE \E R, n : Plain(R, n)
<1>1. PICK R : R = Regions(report) OBVIOUS
<1>2. Sound(R) /\ Faithful(report, R) BY <1>1, RegionsTold DEF VInv
<1>3. PICK n \in Nat : n = Len(R) BY <1>2, LenProperties DEF Sound
<1>4. PICK m : m = Memory OBVIOUS
<1>5. /\ m.entries = entries /\ m.taken = taken /\ m.starved = starved /\ m.map = map
  BY <1>4 DEF Memory
<1>6. Good(R, m, pc, last, todo, structs, backed, freed) BY <1>1, <1>4 DEF VInv
<1>7. MemoryInv(R, m) BY <1>6 DEF Good
<1>8. entries \in [1 .. n -> Region] /\ taken \in Seq(Nat) /\ starved \in BOOLEAN
  BY <1>3, <1>5, <1>7 DEF MemoryInv, MemoryType
<1>9. /\ Rests(R, entries) /\ Used(R, entries, taken)
      /\ starved \/ (Fronts(R, entries, taken) /\ Distinct(taken))
  BY <1>5, <1>7 DEF MemoryInv
<1>10. /\ Stages(pc, last, todo, structs, freed) /\ Finished(pc, R, entries)
       /\ Gives(R, entries, todo, freed) /\ Fills(R, entries, todo, freed)
       /\ Lays(last, todo, structs, backed, map, taken)
  BY <1>5, <1>6 DEF Good
<1> QED BY <1>2, <1>3, <1>8, <1>9, <1>10 DEF Plain

\* The fields of a region that ends within the word are in the ranges of TypeOK.
LEMMA Limits ==
  ASSUME NEW e \in Region, End(e) < Word
  PROVE  e.base \in Nat /\ e.limit \in 0 .. Word - 1 /\ e.type \in 0 .. 7
<1>1. PICK a \in Nat, b \in Nat, w \in Nat : a = e.base /\ b = e.limit /\ w = Word
  BY EndTyped, MemblockAssumption
<1>2. a + b < w BY <1>1 DEF End
<1>3. b \in 0 .. w - 1 BY <1>2
<1>4. e.type \in 0 .. 7 BY DEF Region
<1> QED BY <1>1, <1>3, <1>4

\* A range that waits ends where the range handed out last ends, or before.
LEMMA QueueEnds ==
  ASSUME NEW l, Handed(l), NEW q, Queue(l, q), NEW k \in 1 .. Len(q)
  PROVE  q[k] \in Region /\ End(q[k]) <= End(l)
<1>1. q[k] \in Piece BY TurnTyped
<1>2. End(q[k]) <= End(l)
  <2>1. l \in Region BY DEF Handed
  <2>2. CASE \E r \in Piece : /\ q = <<r>>
                              /\ End(r) = End(l) \/ (End(r) = l.base /\ MaxSupport <= End(l))
    <3>1. PICK r \in Piece : /\ q = <<r>>
                             /\ End(r) = End(l) \/ (End(r) = l.base /\ MaxSupport <= End(l))
      BY <2>2
    <3>2. Len(q) = 1 /\ q[1] = r BY <3>1, Lengths
    <3>3. q[k] = r BY <3>2
    <3> QED BY <3>1, <3>3, <2>1, EndTyped
  <2>3. CASE \E r, s \in Piece : q = <<r, s>> /\ End(r) = s.base /\ End(s) = End(l)
    <3>1. PICK r \in Piece, s \in Piece : q = <<r, s>> /\ End(r) = s.base /\ End(s) = End(l)
      BY <2>3
    <3>2. Len(q) = 2 /\ q[1] = r /\ q[2] = s BY <3>1, Lengths
    <3>3. q[k] = r \/ q[k] = s BY <3>2
    <3>4. s \in Region BY DEF Piece
    <3> QED BY <3>1, <3>3, <3>4, <2>1, EndTyped
  <2>4. q # <<>> BY Lengths
  <2> QED BY <2>2, <2>3, <2>4 DEF Queue
<1> QED BY <1>1, <1>2 DEF Piece

\* A range that waits ends within the word.
LEMMA QueueWithin ==
  ASSUME NEW l, Handed(l), NEW q, Queue(l, q), NEW k \in 1 .. Len(q)
  PROVE  q[k] \in Region /\ End(q[k]) < Word
<1>1. q[k] \in Region /\ End(q[k]) <= End(l) BY QueueEnds
<1>2. PICK a \in Nat, b \in Nat, w \in Nat : a = End(q[k]) /\ b = End(l) /\ w = Word
  BY <1>1, EndTyped, MemblockAssumption DEF Handed
<1>3. a <= b /\ b < w BY <1>1, <1>2 DEF Handed
<1>4. a < w BY <1>3
<1> QED BY <1>1, <1>2, <1>4

\* Every variable keeps its type, and no length drops below zero.
THEOREM TypeCorrect == Spec => []TypeOK
<1>1. VInv => TypeOK
  <2> SUFFICES ASSUME VInv PROVE TypeOK OBVIOUS
  <2>1. PICK R, n : Plain(R, n) BY PlainInv
  <2>2. \A e \in Range(entries) :
          e.base \in Nat /\ e.limit \in 0 .. Word - 1 /\ e.type \in 0 .. 7
    <3> SUFFICES ASSUME NEW j \in 1 .. n
                 PROVE  /\ entries[j].base \in Nat /\ entries[j].limit \in 0 .. Word - 1
                        /\ entries[j].type \in 0 .. 7
      BY <2>1 DEF Plain, Range
    <3>1. entries[j] \in Region /\ R[j] \in Region BY <2>1, ElementOfSeq DEF Plain, Sound
    <3>2. End(entries[j]) <= End(R[j]) /\ End(R[j]) < Word BY <2>1 DEF Plain, Rests, Sound
    <3>3. PICK a \in Nat, b \in Nat, w \in Nat : a = End(entries[j]) /\ b = End(R[j]) /\ w = Word
      BY <3>1, EndTyped, MemblockAssumption
    <3>4. End(entries[j]) < Word BY <3>2, <3>3
    <3> QED BY <3>1, <3>4, Limits
  <2>3. Stages(pc, last, todo, structs, freed) BY <2>1 DEF Plain
  <2>4. last.base \in Nat /\ last.limit \in 0 .. Word - 1 /\ last.type \in 0 .. 7
    <3>1. CASE last = NoRange BY <3>1, MemblockAssumption DEF NoRange
    <3>2. CASE Handed(last) BY <3>2, Limits DEF Handed
    <3> QED BY <3>1, <3>2, <2>3 DEF Stages
  <2>5. \A e \in Range(todo) :
          e.base \in Nat /\ e.limit \in 0 .. Word - 1 /\ e.type \in 0 .. 7
    <3>1. Queue(last, todo) BY <2>3 DEF Stages
    <3>2. DOMAIN todo = 1 .. Len(todo)
      <4>1. CASE todo = <<>> BY <4>1
      <4>2. CASE \E r \in Piece : todo = <<r>>
        <5>1. PICK r \in Piece : todo = <<r>> BY <4>2
        <5>2. <<r>> \in Seq(Piece) OBVIOUS
        <5> QED BY <5>1, <5>2, LenProperties
      <4>3. CASE \E r, s \in Piece : todo = <<r, s>>
        <5>1. PICK r \in Piece, s \in Piece : todo = <<r, s>> BY <4>3
        <5>2. <<r, s>> \in Seq(Piece) OBVIOUS
        <5> QED BY <5>1, <5>2, LenProperties
      <4> QED BY <3>1, <4>1, <4>2, <4>3 DEF Queue
    <3> SUFFICES ASSUME NEW k \in 1 .. Len(todo)
                 PROVE  /\ todo[k].base \in Nat /\ todo[k].limit \in 0 .. Word - 1
                        /\ todo[k].type \in 0 .. 7
      BY <3>2 DEF Range
    <3>3. todo # <<>> BY Lengths
    <3>4. Handed(last) BY <3>3, <2>3 DEF Stages
    <3> QED BY <3>1, <3>4, QueueWithin, Limits
  <2>6. \A i \in DOMAIN taken : taken[i] \in Nat
    <3>1. taken \in Seq(Nat) BY <2>1 DEF Plain
    <3> QED BY <3>1, LenProperties, ElementOfSeq
  <2>7. backed \in Nat /\ structs \subseteq Nat
    <3>1. Lays(last, todo, structs, backed, map, taken) BY <2>1 DEF Plain
    <3>2. CASE structs = {} /\ backed = 0 BY <3>2
    <3>3. CASE ~ (structs = {} /\ backed = 0)
      <4>1. PICK lo \in Nat, hi \in Nat :
              structs = lo .. hi /\ Backed(lo, hi, backed, map, taken)
        BY <3>1, <3>3 DEF Lays
      <4> QED BY <4>1 DEF Backed
    <3> QED BY <3>2, <3>3
  <2>8. starved \in BOOLEAN BY <2>1 DEF Plain
  <2>9. /\ pc \in {"low", "range", "page", "done"} /\ (pc = "page" <=> todo # <<>>)
        /\ freed \subseteq structs
    BY <2>3 DEF Stages
  <2> QED BY <2>2, <2>4, <2>5, <2>6, <2>7, <2>8, <2>9 DEF TypeOK
<1> QED BY <1>1, Invariance, PTL

-----------------------------------------------------------------------------

\* The pages that mblock_allocate returns are never given twice, none of them goes to
\* free_pages, and all are RAM behind the kernel.
THEOREM NoPageTwice == Spec => []PagesApart
<1>1. VInv => PagesApart
  <2> SUFFICES ASSUME VInv, Fed
               PROVE  LET kept == {Pfn(taken[i]) : i \in DOMAIN taken}
                      IN  /\ IsInjective(taken)
                          /\ kept \cap freed = {}
                          /\ \A p \in kept \cup freed : \A a \in Page(p) :
                               a >= KernelEnd /\ TypeAt(Reported(report), a) = RAM
    BY DEF PagesApart
  <2> DEFINE kept == {Pfn(taken[i]) : i \in DOMAIN taken}
  <2>1. PICK R, n : Plain(R, n) BY PlainInv
  <2>2. /\ n \in Nat /\ R \in Seq(Region) /\ Len(R) = n /\ Ascending(R)
        /\ entries \in [1 .. n -> Region] /\ Rests(R, entries)
    BY <2>1 DEF Plain, Sound
  <2>3. \A j \in 1 .. n : R[j] \in Region /\ End(R[j]) \in Nat /\ End(entries[j]) \in Nat
                          /\ entries[j].base \in Nat /\ entries[j].base <= End(entries[j])
    BY <2>2, ElementOfSeq, EndTyped
  <2>4. /\ taken \in Seq(Nat) /\ DOMAIN taken = 1 .. Len(taken)
        /\ Fronts(R, entries, taken) /\ Distinct(taken)
    BY <2>1, LenProperties DEF Plain, Fed
  <2>5. IsInjective(taken) BY <2>4 DEF IsInjective, Distinct
  <2>6. PICK P \in Nat \ {0} : P = PageSize BY MemblockAssumption
  <2>7. ASSUME NEW p \in kept
        PROVE  \E j \in 1 .. n : /\ p \in Nat /\ R[j].type = RAM /\ R[j].base <= p * P
                                 /\ p * P + P <= entries[j].base
    <3>1. PICK i \in 1 .. Len(taken) : p = Pfn(taken[i]) BY <2>4, <2>7
    <3>2. PICK x \in Nat : x = taken[i] BY <2>4, ElementOfSeq
    <3>3. Aligned(x) BY <2>4, <3>2 DEF Fronts
    <3>4. p \in Nat /\ x = p * P BY <3>1, <3>2, <3>3, <2>6, PageAt
    <3>5. PICK j \in 1 .. n : /\ R[j].type = RAM /\ R[j].base <= taken[i]
                              /\ taken[i] + PageSize <= entries[j].base
      BY <2>2, <2>4 DEF Fronts
    <3> QED BY <3>2, <3>4, <3>5, <2>6
  <2>8. ASSUME NEW p \in freed
        PROVE  \E j \in 1 .. n : /\ p \in Nat /\ R[j].type = RAM /\ End(entries[j]) <= p * P
                                 /\ p * P + P <= End(R[j])
    BY <2>1, <2>2, <2>6 DEF Plain, Gives
  <2> HIDE DEF kept
  <2>9. kept \cap freed = {}
    <3> SUFFICES ASSUME NEW p \in kept, p \in freed PROVE FALSE OBVIOUS
    <3>1. PICK j \in 1 .. n : /\ p \in Nat /\ R[j].type = RAM /\ R[j].base <= p * P
                              /\ p * P + P <= entries[j].base
      BY <2>7
    <3>2. PICK k \in 1 .. n : /\ R[k].type = RAM /\ End(entries[k]) <= p * P
                              /\ p * P + P <= End(R[k])
      BY <2>8
    <3>3. PICK x \in Nat : x = p * P BY <3>1
    <3>4. CASE j = k
      <4>1. PICK c \in Nat, d \in Nat : c = entries[j].base /\ d = End(entries[j]) BY <2>3
      <4>2. x + P <= c /\ c <= d /\ d <= x BY <3>1, <3>2, <3>3, <3>4, <4>1, <2>3
      <4> QED BY <4>2
    <3>5. CASE j # k
      <4>1. x < End(R[j])
        <5>1. x + PageSize <= entries[j].base BY <3>1, <3>3, <2>6
        <5> QED BY <5>1, <2>2, FrontWithin
      <4>2. R[k].base <= x
        <5>1. R[k].base <= entries[k].base BY <2>2 DEF Rests
        <5>2. PICK a \in Nat, b \in Nat, c \in Nat :
                a = R[k].base /\ b = entries[k].base /\ c = End(entries[k])
          BY <2>3, EndTyped
        <5>3. a <= b /\ b <= c /\ c <= x BY <5>1, <5>2, <3>2, <3>3, <2>3
        <5>4. a <= x BY <5>3
        <5> QED BY <5>2, <5>4
      <4>3. x < End(R[k])
        <5>1. PICK a \in Nat : a = End(R[k]) BY <2>3
        <5>2. x + P <= a BY <3>2, <3>3, <5>1
        <5> QED BY <5>1, <5>2
      <4>4. R[j].base <= x BY <3>1, <3>3
      <4>5. x # x BY <4>1, <4>2, <4>3, <4>4, <3>5, <2>2, RegionsApart
      <4> QED BY <4>5
    <3> QED BY <3>4, <3>5
  <2>10. ASSUME NEW p \in kept \cup freed
         PROVE  \E j \in 1 .. n : /\ p \in Nat /\ R[j].type = RAM /\ R[j].base <= p * P
                                  /\ p * P + P <= End(R[j])
    <3>1. CASE p \in kept
      <4>1. PICK j \in 1 .. n : /\ p \in Nat /\ R[j].type = RAM /\ R[j].base <= p * P
                                /\ p * P + P <= entries[j].base
        BY <2>7, <3>1
      <4>2. PICK x \in Nat : x = p * P BY <4>1
      <4>3. x + PageSize <= entries[j].base BY <4>1, <4>2, <2>6
      <4>4. x + PageSize <= End(R[j]) BY <4>3, <2>2, FrontWithin
      <4> QED BY <4>1, <4>2, <4>4, <2>6
    <3>2. CASE p \in freed
      <4>1. PICK j \in 1 .. n : /\ p \in Nat /\ R[j].type = RAM /\ End(entries[j]) <= p * P
                                /\ p * P + P <= End(R[j])
        BY <2>8, <3>2
      <4>2. R[j].base <= entries[j].base BY <2>2 DEF Rests
      <4>3. PICK a \in Nat, b \in Nat, c \in Nat, x \in Nat :
              a = R[j].base /\ b = entries[j].base /\ c = End(entries[j]) /\ x = p * P
        BY <4>1, <2>3, EndTyped
      <4>4. a <= b /\ b <= c /\ c <= x BY <4>1, <4>2, <4>3, <2>3
      <4>5. a <= x BY <4>4
      <4> QED BY <4>1, <4>3, <4>5
    <3> QED BY <3>1, <3>2
  <2>11. ASSUME NEW p \in kept \cup freed, NEW a \in Page(p)
         PROVE  a >= KernelEnd /\ TypeAt(Reported(report), a) = RAM
    <3>1. PICK j \in 1 .. n : /\ p \in Nat /\ R[j].type = RAM /\ R[j].base <= p * P
                              /\ p * P + P <= End(R[j])
      BY <2>10
    <3>2. PICK x \in Nat, b \in Nat, e \in Nat : x = p * P /\ b = R[j].base /\ e = End(R[j])
      BY <3>1, <2>3, EndTyped
    <3>3. (p + 1) * P = x + P BY <3>1, <3>2
    <3>4. a \in x .. x + P - 1 BY <2>11, <3>2, <3>3, <2>6 DEF Page
    <3>5. a \in Nat /\ b <= a /\ a <= e - 1 BY <3>1, <3>2, <3>4
    <3>6. a \in Bytes(R[j]) BY <3>2, <3>5 DEF Bytes
    <3>7. TypeAt(Reported(report), a) = RAM BY <3>1, <3>6, <2>1, <2>2 DEF Plain, Faithful
    <3>8. KernelEnd <= b BY <3>2, <2>1, <2>2 DEF Plain, Sound
    <3>9. a >= KernelEnd BY <3>5, <3>8, MemblockAssumption
    <3> QED BY <3>7, <3>9
  <2> QED BY <2>5, <2>9, <2>11 DEF kept
<1> QED BY <1>1, Invariance, PTL

\* The array of struct pages is mapped as far as frames have been populated, each page of it
\* to a page that mblock_allocate returned.
THEOREM ArrayBacked == Spec => []StructBacked
<1>1. VInv => StructBacked
  <2> SUFFICES ASSUME VInv, NEW p \in structs, NEW q \in structs, q < p,
                      NEW v \in Pfn(StructAt(p)) .. Pfn(StructAt(p) + StructSize - 1)
               PROVE  v \in DOMAIN map /\ map[v] \in Range(taken)
    BY DEF StructBacked
  <2>1. PICK R, n : Plain(R, n) BY PlainInv
  <2>2. taken \in Seq(Nat) /\ Lays(last, todo, structs, backed, map, taken) BY <2>1 DEF Plain
  <2>3. PICK lo \in Nat, hi \in Nat : structs = lo .. hi /\ Backed(lo, hi, backed, map, taken)
    BY <2>2 DEF Lays
  <2>4. p \in Nat /\ lo < p /\ p <= hi BY <2>3
  <2>5. PICK S \in Nat \ {0}, P \in Nat \ {0} : S = StructSize /\ P = PageSize
    BY VmemmapAssumption, MemblockAssumption
  <2>6. PICK a \in Nat, b \in Nat, c \in Nat :
          a = StructAt(lo) /\ b = StructAt(p) /\ c = StructAt(hi)
    BY <2>4, StructTyped
  <2>7. a + S <= b BY <2>4, <2>5, <2>6, StructOrder
  <2>8. b <= c
    <3>1. CASE p = hi BY <3>1, <2>6
    <3>2. CASE p # hi
      <4>1. p < hi BY <3>2, <2>4
      <4>2. b + S <= c BY <4>1, <2>4, <2>5, <2>6, StructOrder
      <4> QED BY <4>2
    <3> QED BY <3>1, <3>2
  <2>9. PICK v0 \in Nat : v0 = Pfn(a + S) BY PageAt
  <2>10. PICK e \in Nat : /\ e = backed /\ v0 <= e /\ c + S <= e * P + P
                          /\ \A u \in v0 .. e : Owned(map, taken, u)
    BY <2>3, <2>5, <2>6, <2>9 DEF Backed
  <2>11. PICK f \in Nat, g \in Nat : f = Pfn(b) /\ g = Pfn(b + S - 1)
    <3>1. b + S - 1 \in Nat BY <2>5
    <3> QED BY <3>1, PageAt
  <2>12. v0 <= f
    <3> SUFFICES ASSUME f < v0 PROVE FALSE OBVIOUS
    <3>1. f * PageSize + PageSize <= v0 * PageSize BY Apart
    <3>2. b < f * PageSize + PageSize BY <2>11, PageAt
    <3>3. v0 * PageSize <= a + S BY <2>9, PageAt
    <3>4. f * PageSize \in Nat /\ v0 * PageSize \in Nat /\ PageSize \in Nat BY <2>5
    <3> QED BY <3>1, <3>2, <3>3, <3>4, <2>7
  <2>13. g <= e
    <3> SUFFICES ASSUME e < g PROVE FALSE OBVIOUS
    <3>1. e * PageSize + PageSize <= g * PageSize BY Apart
    <3>2. b + S - 1 \in Nat BY <2>5
    <3>3. g * PageSize <= b + S - 1 BY <3>2, <2>11, PageAt
    <3>4. PICK x \in Nat, y \in Nat : x = e * P /\ y = g * P BY <2>5
    <3>5. x + P <= y /\ y <= b + S - 1 /\ c + S <= x + P BY <3>1, <3>3, <3>4, <2>5, <2>10
    <3> QED BY <3>5, <2>8
  <2>14. v \in f .. g BY <2>5, <2>6, <2>11
  <2>15. v \in v0 .. e BY <2>12, <2>13, <2>14
  <2>16. PICK i \in 1 .. Len(taken) : v \in DOMAIN map /\ map[v] = taken[i]
    BY <2>10, <2>15 DEF Owned
  <2>17. i \in DOMAIN taken BY <2>2, LenProperties
  <2> QED BY <2>16, <2>17 DEF Range
<1> QED BY <1>1, Invariance, PTL

\* Frames are populated in ascending order, each once, without a hole between them.
THEOREM Seamless == Spec => []NoHole
<1>1. VInv => NoHole
  <2> SUFFICES ASSUME VInv PROVE NoHole OBVIOUS
  <2>1. PICK R, n : Plain(R, n) BY PlainInv
  <2>2. /\ Stages(pc, last, todo, structs, freed)
        /\ Lays(last, todo, structs, backed, map, taken)
    BY <2>1 DEF Plain
  <2>3. CASE structs = {} BY <2>3 DEF NoHole
  <2>4. CASE structs # {}
    <3>1. PICK lo \in Nat, hi \in Nat :
            structs = lo .. hi /\ Edge(last, todo, hi * PageSize + PageSize)
      BY <2>2, <2>4 DEF Lays
    <3>2. ASSUME pc = "page", NEW q \in structs PROVE q < Pfn(Head(todo).base)
      <4>1. todo # <<>> /\ Queue(last, todo) BY <3>2, <2>2 DEF Stages
      <4>2. Head(todo) = todo[1] BY <4>1, QueueShrinks
      <4>3. PICK P \in Nat \ {0} : P = PageSize BY MemblockAssumption
      <4>4. PICK x \in Nat : x = hi * P + P BY <4>3
      <4>5. Head(todo).base = x BY <3>1, <4>1, <4>2, <4>3, <4>4 DEF Edge
      <4>6. (hi + 1) * P = hi * P + P /\ (hi + 1) * P \in Nat BY <4>3
      <4>7. (hi + 1) * P <= x /\ x < (hi + 1) * P + P BY <4>3, <4>4, <4>6
      <4>8. Pfn(x) = hi + 1 BY <4>3, <4>7, PageNumber
      <4> QED BY <3>1, <4>5, <4>8
    <3>3. \A p, q \in structs : p < q => p .. q \subseteq structs BY <3>1
    <3> QED BY <3>2, <3>3 DEF NoHole
  <2> QED BY <2>3, <2>4
<1> QED BY <1>1, Invariance, PTL

\* At the end, each page of a region of RAM that begins above the identity map is with
\* free_pages or in use by the boot code.
THEOREM NothingLost == Spec => []HighMemoryUsed
<1>1. VInv => HighMemoryUsed
  <2> SUFFICES ASSUME VInv, pc = "done", NEW e \in Range(sanitize(memory_detect(report))),
                      e.type = RAM, e.base >= Low, End(e) < MaxSupport,
                      NEW p \in Pfn(AlignUp(e.base)) .. Pfn(End(e)) - 1
               PROVE  p \in freed \/ \E i \in DOMAIN taken : Pfn(taken[i]) = p
    BY DEF HighMemoryUsed
  <2>1. PICK R, n : Plain(R, n) BY PlainInv
  <2>2. /\ n \in Nat /\ R \in Seq(Region) /\ Len(R) = n
        /\ \A j \in 1 .. n : R[j] \in Region
    BY <2>1, ElementOfSeq DEF Plain, Sound
  <2>3. todo = <<>>
    <3>1. Stages(pc, last, todo, structs, freed) BY <2>1 DEF Plain
    <3> QED BY <3>1 DEF Stages
  <2>4. PICK c \in Solid : c = e
    <3>1. report \in Reports BY DEF VInv
    <3>2. SweptOut(memory_detect(report), sanitize(memory_detect(report))) BY <3>1, Sanitized
    <3>3. sanitize(memory_detect(report)) \in Seq(Solid) BY <3>2 DEF SweptOut
    <3> QED BY <3>3, LenProperties, ElementOfSeq DEF Range
  <2>5. PICK a \in Nat, l \in Nat \ {0}, L \in Nat, K \in Nat, P \in Nat \ {0} :
          /\ a = e.base /\ l = e.limit /\ L = Low /\ K = KernelEnd /\ P = PageSize
    BY <2>4, VmemmapAssumption, MemblockAssumption DEF Solid, Region
  <2>6. L <= a /\ K <= L /\ End(e) = a + l BY <2>5, VmemmapAssumption DEF End
  <2>7. PICK j \in 1 .. n : R[j] = e
    <3>1. KernelEnd <= e.base BY <2>5, <2>6
    <3> QED BY <3>1, <2>1, <2>2 DEF Plain, Faithful
  <2>8. Aligned(a) /\ Aligned(a + l)
    <3>1. End(R[j]) > Low BY <2>5, <2>6, <2>7
    <3>2. Aligned(R[j].base) /\ Aligned(End(R[j])) BY <3>1, <2>1, <2>2 DEF Plain, Sound
    <3> QED BY <3>2, <2>5, <2>6, <2>7
  <2>9. PICK f \in Nat, g \in Nat : f = Pfn(a) /\ g = Pfn(a + l) /\ a = f * P /\ a + l = g * P
    BY <2>5, <2>8, PageAt
  <2>10. p \in f .. g - 1
    <3>1. AlignUp(a) = a BY <2>8, AlignsUp
    <3> QED BY <3>1, <2>5, <2>6, <2>9
  <2>11. PICK x \in Nat : x = p * P /\ a <= x /\ x + P <= a + l
    <3>1. p \in Nat /\ f <= p /\ p < g BY <2>10
    <3>2. p * P + P <= g * P BY <3>1, <2>5, Apart
    <3>3. f * P <= p * P
      <4>1. CASE f = p BY <4>1, <3>1, <2>5
      <4>2. CASE f # p
        <5>1. f < p BY <4>2, <3>1
        <5>2. f * P + P <= p * P BY <5>1, <3>1, <2>5, Apart
        <5>3. f * P \in Nat /\ p * P \in Nat BY <3>1, <2>5
        <5> QED BY <5>2, <5>3, <2>5
      <4> QED BY <4>1, <4>2
    <3>4. p * P \in Nat BY <3>1, <2>5
    <3> QED BY <3>2, <3>3, <3>4, <2>9
  <2>12. Aligned(x) BY <2>5, <2>10, <2>11 DEF Aligned
  <2>13. PICK b \in Nat : b = entries[j].base BY <2>1, EndTyped DEF Plain
  <2>14. CASE x < b
    <3>1. PICK i \in 1 .. Len(taken) : taken[i] = x
      BY <2>1, <2>2, <2>5, <2>6, <2>7, <2>11, <2>12, <2>13, <2>14 DEF Plain, Used
    <3>2. i \in DOMAIN taken
      <4>1. taken \in Seq(Nat) BY <2>1 DEF Plain
      <4> QED BY <4>1, LenProperties
    <3>3. Pfn(x) = p
      <4>1. p * PageSize <= x /\ x < p * PageSize + PageSize BY <2>5, <2>11
      <4>2. p \in Nat BY <2>10
      <4> QED BY <4>1, <4>2, PageNumber
    <3> QED BY <3>1, <3>2, <3>3
  <2>15. CASE ~ (x < b)
    <3>1. b <= x BY <2>15
    <3>2. High(R[j]) BY <2>7 DEF High
    <3>3. ~ Over(entries[j], Low) BY <2>1, <2>2 DEF Plain, Finished
    <3>4. entries[j].base <= p * PageSize /\ p * PageSize + PageSize <= End(R[j])
      BY <3>1, <2>5, <2>6, <2>7, <2>11, <2>13
    <3>5. p \in Nat BY <2>10
    <3>6. Fills(R, entries, todo, freed) BY <2>1 DEF Plain
    <3>7. Filled(freed, todo, p) BY <3>2, <3>3, <3>4, <3>5, <3>6, <2>2 DEF Fills
    <3>8. \A k : k \notin 1 .. Len(todo) BY <2>3, Lengths
    <3> QED BY <3>7, <3>8 DEF Filled
  <2> QED BY <2>14, <2>15
<1> QED BY <1>1, Invariance, PTL

-----------------------------------------------------------------------------
\* Pages below the end of the identity map.

\* The region e of RAM has room for k pages below the end of the identity map.
Room(e, k) ==
  /\ e.type = RAM
  /\ AlignUp(e.base) + k * PageSize <= Low /\ AlignUp(e.base) + k * PageSize <= End(e)

\* Region j has room for N pages.
Roomy(R, j, N) == Sound(R) /\ N \in Nat /\ j \in 1 .. Len(R) /\ Room(R[j], N)

\* As long as no more than N pages have been taken, there always was one, and it was below
\* the end of the identity map.
Calm(R, j, N, m) ==
  /\ AlignUp(R[j].base) + N * PageSize <= End(m.entries[j])
  /\ Len(m.taken) <= N =>
       /\ ~ m.starved
       /\ m.entries[j].base <= AlignUp(R[j].base) + Len(m.taken) * PageSize
       /\ \A i \in 1 .. Len(m.taken) : m.taken[i] + PageSize <= Low

LEMMA EdgesTyped ==
  ASSUME NEW e \in Region
  PROVE  /\ e.base \in Nat /\ End(e) \in Nat /\ AlignUp(e.base) \in Nat
         /\ e.base <= AlignUp(e.base)
BY EndTyped, AlignsUp

\* mblock_allocate takes the first region that has a page.
LEMMA FirstFitIs ==
  ASSUME NEW n \in Nat, NEW E \in [1 .. n -> Region], NEW j \in 1 .. n, Fits(E[j])
  PROVE  FirstFit(E) \in 1 .. n /\ Fits(E[FirstFit(E)]) /\ FirstFit(E) <= j
<1> DEFINE I == {i \in 1 .. Len(E) : Fits(E[i])}
<1>1. Len(E) = n OBVIOUS
<1>2. FirstFit(E) = IF I # {} THEN Min(I) ELSE 0 BY DEF FirstFit, SelectInSeq
<1>3. j \in I BY <1>1
<1>4. Min(I) \in I /\ \A y \in I : Min(I) <= y
  <2>1. I \in SUBSET Nat BY <1>1
  <2> HIDE DEF I
  <2>2. \E x \in I : \A y \in I : x <= y BY <1>3, <2>1, Least
  <2> QED BY <2>2 DEF Min
<1>5. FirstFit(E) \in I /\ FirstFit(E) <= j BY <1>2, <1>3, <1>4
<1> QED BY <1>1, <1>5

\* AlignUp goes no further than to the next page boundary.
LEMMA AlignLeast ==
  ASSUME NEW a \in Nat, NEW y \in Nat, a <= y, Aligned(y)
  PROVE  AlignUp(a) <= y
<1>1. PICK u \in Nat, P \in Nat \ {0} : u = AlignUp(a) /\ P = PageSize
  BY AlignsUp, MemblockAssumption
<1>2. Aligned(u) /\ u < a + P BY <1>1, AlignsUp
<1>3. y < u => y + P <= u BY <1>1, <1>2, AlignedGap
<1> QED BY <1>1, <1>2, <1>3

LEMMA FitsIff ==
  ASSUME NEW e \in Region
  PROVE  Fits(e) <=> AlignUp(e.base) + PageSize <= End(e) /\ e.type = RAM
<1>1. PICK u \in Nat, P \in Nat, a \in Nat, b \in Nat :
        u = AlignUp(e.base) /\ P = PageSize /\ a = e.base /\ b = e.limit
  BY AlignsUp, MemblockAssumption DEF Region
<1>2. u - a + P <= b <=> u + P <= a + b BY <1>1
<1> QED BY <1>1, <1>2 DEF Fits, Taken, End

\* The region has room for another page, as long as it is not the last of the N.
LEMMA RoomLeft ==
  ASSUME NEW R, NEW j, NEW N, Roomy(R, j, N), NEW k \in Nat, k < N
  PROVE  /\ AlignUp(R[j].base) + k * PageSize \in Nat
         /\ Aligned(AlignUp(R[j].base) + k * PageSize)
         /\ AlignUp(R[j].base) + k * PageSize + PageSize = AlignUp(R[j].base) + (k + 1) * PageSize
         /\ AlignUp(R[j].base) + k * PageSize + PageSize <= Low
         /\ AlignUp(R[j].base) + k * PageSize + PageSize
              <= AlignUp(R[j].base) + N * PageSize
<1>1. R[j] \in Region BY ElementOfSeq DEF Roomy, Sound
<1>2. PICK A \in Nat, P \in Nat \ {0} : A = AlignUp(R[j].base) /\ P = PageSize /\ Aligned(A)
  BY <1>1, AlignsUp, MemblockAssumption DEF Region
<1>3. PICK c \in Nat, d \in Nat : c = k * P /\ d = N * P /\ c + P <= d
  <2>1. k * P + P <= N * P BY <1>2, Apart DEF Roomy
  <2> QED BY <2>1 DEF Roomy
<1>4. Aligned(c) BY <1>2, <1>3 DEF Aligned
<1>5. Aligned(A + c) BY <1>2, <1>3, <1>4, AlignedSum
<1>6. (k + 1) * P = c + P BY <1>3
<1>7. PICK L \in Nat : L = Low BY VmemmapAssumption
<1>8. A + d <= L BY <1>2, <1>3, <1>7 DEF Roomy, Room
<1>9. A + c + P <= L /\ A + c + P <= A + d /\ A + c \in Nat BY <1>3, <1>7, <1>8
<1> QED BY <1>2, <1>3, <1>5, <1>6, <1>7, <1>9

\* The page that is drawn is one below the identity map's end.
LEMMA DrawLow ==
  ASSUME NEW R, NEW j, NEW N, Roomy(R, j, N), NEW n \in Nat, n = Len(R),
         NEW E \in [1 .. n -> Region], Rests(R, E), NEW k \in Nat, k < N,
         E[j].base <= AlignUp(R[j].base) + k * PageSize,
         AlignUp(R[j].base) + N * PageSize <= End(E[j])
  PROVE  /\ FirstFit(E) \in 1 .. n /\ Fits(E[FirstFit(E)])
         /\ AlignUp(E[FirstFit(E)].base) + PageSize <= Low
         /\ FirstFit(E) = j =>
              AlignUp(E[j].base) + PageSize <= AlignUp(R[j].base) + (k + 1) * PageSize
<1>1. /\ j \in 1 .. n /\ R \in Seq(Region) /\ Ascending(R) /\ R[j].type = RAM
      /\ \A i \in 1 .. n : R[i] \in Region
  BY ElementOfSeq DEF Roomy, Sound, Room
<1>2. PICK y \in Nat, P \in Nat \ {0}, L \in Nat, z \in Nat :
        /\ y = AlignUp(R[j].base) + k * PageSize /\ P = PageSize /\ L = Low /\ Aligned(y)
        /\ y + P <= L /\ y + P <= AlignUp(R[j].base) + N * PageSize
        /\ z = End(E[j]) /\ y + P = AlignUp(R[j].base) + (k + 1) * PageSize
  <2>1. PICK P \in Nat \ {0}, L \in Nat : P = PageSize /\ L = Low
    BY VmemmapAssumption, MemblockAssumption
  <2>2. PICK y \in Nat : y = AlignUp(R[j].base) + k * PageSize BY RoomLeft
  <2>3. PICK z \in Nat : z = End(E[j]) BY <1>1, EdgesTyped
  <2>4. /\ Aligned(y) /\ y + P = AlignUp(R[j].base) + (k + 1) * PageSize /\ y + P <= L
        /\ y + P <= AlignUp(R[j].base) + N * PageSize
    BY <2>1, <2>2, RoomLeft
  <2> QED BY <2>1, <2>2, <2>3, <2>4
<1>3. PICK u \in Nat : u = AlignUp(E[j].base) /\ u <= y
  <2>1. PICK a \in Nat : a = E[j].base /\ a <= y BY <1>1, <1>2, EdgesTyped
  <2>2. AlignUp(a) \in Nat BY AlignsUp
  <2>3. AlignUp(a) <= y BY <2>1, <1>2, AlignLeast
  <2> QED BY <2>1, <2>2, <2>3
<1>4. y + P <= z
  <2>1. PICK A \in Nat : A = AlignUp(R[j].base) BY <1>1, EndTyped, AlignsUp
  <2>2. PICK d \in Nat : d = N * PageSize BY MemblockAssumption DEF Roomy
  <2> QED BY <2>1, <2>2, <1>2
<1>5. Fits(E[j])
  <2>1. u + P <= z BY <1>3, <1>4
  <2>2. E[j].type = RAM BY <1>1 DEF Rests
  <2> QED BY <2>1, <2>2, <1>1, <1>2, <1>3, FitsIff
<1>6. PICK i \in 1 .. n : i = FirstFit(E) /\ Fits(E[i]) /\ i <= j BY <1>1, <1>5, FirstFitIs
<1>7. CASE i = j
  <2>1. u + P <= y + P /\ u + P <= L BY <1>2, <1>3
  <2> QED BY <2>1, <1>2, <1>3, <1>6, <1>7
<1>8. CASE i # j
  <2>1. PICK x \in Nat, e \in Nat, f \in Nat, g \in Nat, A \in Nat :
          /\ x = AlignUp(E[i].base) /\ e = End(E[i]) /\ f = End(R[i]) /\ g = R[j].base
          /\ A = AlignUp(R[j].base) /\ g <= A
    <3>1. E[i] \in Region /\ R[i] \in Region /\ R[j] \in Region BY <1>1
    <3> QED BY <3>1, EdgesTyped
  <2>2. x + P <= e BY <1>2, <1>6, <2>1, FitsIff
  <2>3. e <= f BY <1>1, <2>1 DEF Rests
  <2>4. f <= g
    <3>1. i < j BY <1>1, <1>6, <1>8
    <3> QED BY <3>1, <1>1, <1>2, <2>1 DEF Ascending, Roomy
  <2>5. A <= y
    <3>1. PICK c \in Nat : c = k * PageSize BY MemblockAssumption
    <3>2. y = A + c BY <3>1, <2>1, <1>2
    <3> QED BY <3>2
  <2>6. x + P <= L
    <3>1. g <= A BY <2>1
    <3>2. x + P <= y BY <3>1, <2>2, <2>3, <2>4, <2>5
    <3>3. y + P <= L BY <1>2
    <3> QED BY <3>2, <3>3
  <2> QED BY <2>1, <2>6, <1>2, <1>6, <1>8
<1> QED BY <1>7, <1>8

\* mblock_allocate goes on to find pages there.
LEMMA AllocateCalm ==
  ASSUME NEW R, NEW j, NEW N, Roomy(R, j, N), NEW m, MemoryInv(R, m), Calm(R, j, N, m)
  PROVE  Calm(R, j, N, AllocatePage(m))
<1>1. PICK n \in Nat : n = Len(R) BY LenProperties DEF Roomy, Sound
<1>2. PICK E \in [1 .. n -> Region], T \in Seq(Nat) : E = m.entries /\ T = m.taken /\ Rests(R, E)
  BY <1>1 DEF MemoryInv, MemoryType
<1>3. PICK k \in Nat : k = Len(T) BY LenProperties
<1>4. PICK m2 : m2 = AllocatePage(m) OBVIOUS
<1>5. Grows(R, m, m2, 1) BY <1>4, AllocateGrows DEF Roomy
<1>6. Len(m2.taken) = k + 1 /\ \A i \in 1 .. k : m2.taken[i] = T[i]
  BY <1>2, <1>3, <1>5 DEF Grows, Longer
<1>7. End(m2.entries[j]) = End(E[j]) BY <1>1, <1>2, <1>5 DEF Grows, Wears, Roomy
<1>8. AlignUp(R[j].base) + N * PageSize <= End(m2.entries[j]) BY <1>2, <1>7 DEF Calm
<1>9. ASSUME k + 1 <= N
      PROVE  /\ ~ m2.starved
             /\ m2.entries[j].base <= AlignUp(R[j].base) + (k + 1) * PageSize
             /\ \A i \in 1 .. k + 1 : m2.taken[i] + PageSize <= Low
  <2>1. N \in Nat /\ j \in 1 .. n BY <1>1 DEF Roomy
  <2>2. k < N /\ k <= N BY <1>9, <2>1
  <2>3. /\ ~ m.starved /\ E[j].base <= AlignUp(R[j].base) + k * PageSize
        /\ \A i \in 1 .. k : T[i] + PageSize <= Low
        /\ AlignUp(R[j].base) + N * PageSize <= End(E[j])
    BY <1>2, <1>3, <2>2 DEF Calm
  <2>4. PICK i \in 1 .. n :
          /\ i = FirstFit(E) /\ Fits(E[i]) /\ AlignUp(E[i].base) + PageSize <= Low
          /\ i = j => AlignUp(E[j].base) + PageSize <= AlignUp(R[j].base) + (k + 1) * PageSize
    BY <1>1, <1>2, <2>2, <2>3, DrawLow
  <2>5. i # 0 OBVIOUS
  <2>6. PICK x \in Nat : x = AlignUp(E[i].base) BY EndTyped, AlignsUp
  <2>7. /\ m2.entries = [E EXCEPT ![i] = AfterPage(E[i])] /\ m2.taken = Append(T, x)
        /\ m2.starved = m.starved
    BY <1>2, <1>4, <2>4, <2>5, <2>6 DEF AllocatePage
  <2>8. m2.taken[k + 1] = x BY <1>3, <2>7, AppendProperties
  <2>9. \A h \in 1 .. k + 1 : m2.taken[h] + PageSize <= Low
    <3> TAKE h \in 1 .. k + 1
    <3>1. h \in 1 .. k \/ h = k + 1 OBVIOUS
    <3> QED BY <3>1, <1>6, <2>3, <2>4, <2>6, <2>8
  <2>10. CASE i = j
    <3>1. m2.entries[j].base = x + PageSize BY <2>6, <2>7, <2>10 DEF AfterPage
    <3> QED BY <3>1, <2>3, <2>4, <2>6, <2>7, <2>9, <2>10
  <2>11. CASE i # j
    <3>1. m2.entries[j] = E[j] BY <2>1, <2>7, <2>11
    <3>2. PICK a \in Nat, A \in Nat, c \in Nat, P \in Nat :
            a = E[j].base /\ A = AlignUp(R[j].base) /\ c = k * P /\ P = PageSize
      <4>1. R[j] \in Region /\ E[j] \in Region
        BY <2>1, <1>1, ElementOfSeq DEF Roomy, Sound
      <4>2. k * PageSize \in Nat /\ PageSize \in Nat BY MemblockAssumption
      <4> QED BY <4>1, <4>2, EdgesTyped
    <3>3. (k + 1) * P = c + P BY <3>2
    <3>4. a <= A + (c + P) BY <2>3, <3>2
    <3>5. a <= A + (k + 1) * P BY <3>3, <3>4
    <3> QED BY <3>1, <3>2, <3>5, <2>3, <2>7, <2>9
  <2> QED BY <2>10, <2>11
<1> QED BY <1>4, <1>6, <1>8, <1>9 DEF Calm

\* MapPage's memory is that after the pages for the missing tables, but for tables and leaf.
LEMMA MapPageIs ==
  ASSUME NEW m, NEW v \in Nat, NEW phy
  PROVE  \E w, k : /\ Draining(m, w) /\ k \in 0 .. 3
                   /\ MapPage(m, v, phy).entries = w[k].entries
                   /\ MapPage(m, v, phy).taken = w[k].taken
                   /\ MapPage(m, v, phy).starved = w[k].starved
<1> DEFINE missing == Path(v) \ m.tabs
           w == CHOOSE w : Draining(m, w)
           map2 == [u \in DOMAIN m.map \cup {v} |-> IF u = v THEN phy ELSE m.map[u]]
<1>1. PICK k \in 0 .. 3 : k = Cardinality(missing)
  <2>1. missing \subseteq Path(v) OBVIOUS
  <2>2. IsFiniteSet(Path(v)) /\ Cardinality(Path(v)) <= 3 BY PathTyped
  <2>3. Cardinality(missing) <= Cardinality(Path(v)) /\ IsFiniteSet(missing)
    BY <2>1, <2>2, FS_Subset
  <2>4. Cardinality(missing) \in Nat /\ Cardinality(Path(v)) \in Nat
    BY <2>2, <2>3, FS_CardinalityType
  <2> QED BY <2>2, <2>3, <2>4
<1>2. MapPage(m, v, phy)
        = [entries |-> w[Cardinality(missing)].entries, taken |-> w[Cardinality(missing)].taken,
           starved |-> w[Cardinality(missing)].starved,
           tabs |-> m.tabs \cup missing, map |-> map2]
  BY DEF MapPage, Draining
<1>3. Draining(m, w) BY DrainingExists
<1> HIDE DEF w, missing, map2
<1> QED BY <1>1, <1>2, <1>3

\* Mapping a page takes pages from there, too.
LEMMA MapCalm ==
  ASSUME NEW R, NEW j, NEW N, Roomy(R, j, N), NEW m, MemoryInv(R, m), Calm(R, j, N, m),
         NEW v \in Nat, NEW phy
  PROVE  Calm(R, j, N, MapPage(m, v, phy))
<1>1. PICK w, k : /\ Draining(m, w) /\ k \in 0 .. 3
                  /\ MapPage(m, v, phy).entries = w[k].entries
                  /\ MapPage(m, v, phy).taken = w[k].taken
                  /\ MapPage(m, v, phy).starved = w[k].starved
  BY MapPageIs
<1>2. \A n \in 0 .. 3 : w[n] = IF n = 0 THEN m ELSE AllocatePage(w[n - 1]) BY <1>1 DEF Draining
<1>3. ASSUME NEW n \in 0 .. 2, Calm(R, j, N, w[n]) PROVE Calm(R, j, N, w[n + 1])
  <2>1. PICK i \in 0 .. 3 : i = n + 1 /\ i # 0 /\ i - 1 = n OBVIOUS
  <2>2. w[i] = AllocatePage(w[n]) BY <2>1, <1>2
  <2>3. Drained(R, m, w[n], n) BY <1>1, Drains DEF Roomy
  <2>4. MemoryInv(R, w[n]) BY <2>3 DEF Drained, Grows
  <2>5. Calm(R, j, N, w[i]) BY <1>3, <2>2, <2>4, AllocateCalm
  <2> QED BY <2>1, <2>5
<1>4. Calm(R, j, N, w[0])
  <2>1. w[0] = m BY <1>2
  <2> QED BY <2>1
<1>5. Calm(R, j, N, w[1])
  <2>1. 0 \in 0 .. 2 /\ 0 + 1 = 1 OBVIOUS
  <2>2. Calm(R, j, N, w[0 + 1]) BY <2>1, <1>3, <1>4
  <2> QED BY <2>1, <2>2
<1>6. Calm(R, j, N, w[2])
  <2>1. 1 \in 0 .. 2 /\ 1 + 1 = 2 OBVIOUS
  <2>2. Calm(R, j, N, w[1 + 1]) BY <2>1, <1>3, <1>5
  <2> QED BY <2>1, <2>2
<1>7. Calm(R, j, N, w[3])
  <2>1. 2 \in 0 .. 2 /\ 2 + 1 = 3 OBVIOUS
  <2>2. Calm(R, j, N, w[2 + 1]) BY <2>1, <1>3, <1>6
  <2> QED BY <2>1, <2>2
<1>8. k = 0 \/ k = 1 \/ k = 2 \/ k = 3 BY <1>1
<1>9. Calm(R, j, N, w[k]) BY <1>4, <1>5, <1>6, <1>7, <1>8
<1> QED BY <1>1, <1>9 DEF Calm

-----------------------------------------------------------------------------
\* How many pages are taken.

\* The pages of the array that are mapped.
Backs(m) == {u \in DOMAIN m.map : VBase <= u}

\* A page has been taken for each table and for each page of the array, and d more.
Tally(m, d) ==
  /\ IsFiniteSet(m.tabs) /\ IsFiniteSet(Backs(m))
  /\ Len(m.taken) <= Cardinality(m.tabs) + Cardinality(Backs(m)) + d

LEMMA AllocateTally ==
  ASSUME NEW R, Sound(R), NEW m, MemoryInv(R, m), Tally(m, 0)
  PROVE  Tally(AllocatePage(m), 1)
<1>1. PICK m2 : m2 = AllocatePage(m) OBVIOUS
<1>2. Grows(R, m, m2, 1) /\ m2.tabs = m.tabs /\ m2.map = m.map BY <1>1, AllocateGrows
<1>3. Backs(m2) = Backs(m) BY <1>2 DEF Backs
<1>4. PICK k \in Nat : k = Len(m.taken) BY LenProperties DEF MemoryInv, MemoryType
<1>5. Len(m2.taken) = k + 1 BY <1>2, <1>4 DEF Grows, Longer
<1>6. IsFiniteSet(m.tabs) /\ IsFiniteSet(Backs(m)) BY DEF Tally
<1>7. PICK a \in Nat, b \in Nat : a = Cardinality(m.tabs) /\ b = Cardinality(Backs(m))
  BY <1>6, FS_CardinalityType
<1>8. k <= a + b + 0 BY <1>4, <1>7 DEF Tally
<1>9. k + 1 <= a + b + 1 BY <1>8
<1>10. Len(m2.taken) <= Cardinality(m2.tabs) + Cardinality(Backs(m2)) + 1
  BY <1>2, <1>3, <1>5, <1>7, <1>9
<1> QED BY <1>1, <1>2, <1>3, <1>6, <1>10 DEF Tally

\* The tables that are added are those that are paid for.
LEMMA TablesAdded ==
  ASSUME NEW v \in Nat, NEW S, IsFiniteSet(S)
  PROVE  /\ IsFiniteSet(S \cup Path(v))
         /\ Cardinality(S \cup Path(v)) = Cardinality(S) + Cardinality(Path(v) \ S)
<1>1. PICK A : A = Path(v) \ S OBVIOUS
<1>2. IsFiniteSet(A) BY <1>1, PathTyped, FS_Subset
<1>3. S \cup A = S \cup Path(v) /\ S \cap A = {} BY <1>1
<1>4. /\ IsFiniteSet(S \cup A)
      /\ Cardinality(S \cup A) = Cardinality(S) + Cardinality(A) - Cardinality(S \cap A)
  BY <1>2, FS_Union
<1>5. Cardinality(S \cap A) = 0 BY <1>3, FS_EmptySet
<1>6. Cardinality(S) \in Nat /\ Cardinality(A) \in Nat BY <1>2, FS_CardinalityType
<1> QED BY <1>1, <1>3, <1>4, <1>5, <1>6

\* Mapping a page: each missing table costs a page.  A page of the array that is mapped for
\* the first time accounts for the one it is mapped to.
LEMMA MapTally ==
  ASSUME NEW R, Sound(R), NEW m, MemoryInv(R, m), NEW v \in Nat, NEW phy \in Nat,
         NEW d \in {0, 1}, Tally(m, d), IF d = 0 THEN v < VBase ELSE VBase <= v /\ v \notin Backs(m)
  PROVE  Tally(MapPage(m, v, phy), 0)
<1>1. PICK m2 : m2 = MapPage(m, v, phy) OBVIOUS
<1>2. PICK k \in Nat : k = Cardinality(Path(v) \ m.tabs) BY PathCount
<1>3. Grows(R, m, m2, k) /\ Mapped(m, m2, v, phy) BY <1>1, <1>2, MapPageGrows
<1>4. IsFiniteSet(m.tabs) /\ IsFiniteSet(Backs(m)) BY DEF Tally
<1>5. PICK a \in Nat, b \in Nat, l \in Nat :
        a = Cardinality(m.tabs) /\ b = Cardinality(Backs(m)) /\ l = Len(m.taken)
  BY <1>4, FS_CardinalityType, LenProperties DEF MemoryInv, MemoryType
<1>6. IsFiniteSet(m2.tabs) /\ Cardinality(m2.tabs) = a + k
  <2>1. PICK S : S = m.tabs /\ IsFiniteSet(S) BY <1>4
  <2>2. m2.tabs = S \cup Path(v) BY <1>3, <2>1 DEF Mapped
  <2>3. /\ IsFiniteSet(S \cup Path(v))
        /\ Cardinality(S \cup Path(v)) = Cardinality(S) + Cardinality(Path(v) \ S)
    BY <2>1, TablesAdded
  <2> QED BY <2>1, <2>2, <2>3, <1>2, <1>5
<1>7. IsFiniteSet(Backs(m2)) /\ Cardinality(Backs(m2)) = b + d
  <2>1. DOMAIN m2.map = DOMAIN m.map \cup {v} BY <1>3 DEF Mapped
  <2>2. CASE d = 0
    <3>1. v < VBase /\ VBase \in Nat BY <2>2, VmemmapAssumption
    <3>2. ~ (VBase <= v) BY <3>1
    <3>3. Backs(m2) = Backs(m) BY <2>1, <3>2 DEF Backs
    <3> QED BY <2>2, <3>3, <1>4, <1>5
  <2>3. CASE d = 1
    <3>1. VBase <= v /\ v \notin Backs(m) BY <2>3
    <3>2. Backs(m2) = Backs(m) \cup {v} BY <2>1, <3>1 DEF Backs
    <3> QED BY <2>3, <3>1, <3>2, <1>4, <1>5, FS_AddElement
  <2> QED BY <2>2, <2>3
<1>8. Len(m2.taken) = l + k BY <1>3, <1>5 DEF Grows, Longer
<1>9. l <= a + b + d BY <1>5 DEF Tally
<1>10. l + k <= (a + k) + (b + d) + 0 BY <1>9
<1>11. Len(m2.taken) <= Cardinality(m2.tabs) + Cardinality(Backs(m2)) + 0
  BY <1>6, <1>7, <1>8, <1>10
<1> QED BY <1>1, <1>6, <1>7, <1>11 DEF Tally

-----------------------------------------------------------------------------
\* How many pages the boot code needs.

\* How many pages the boot code needs, if no frame from the n-th on is populated: one for each
\* page of the array of struct pages, but for the one that the array begins in, and one for
\* each table on the way to those and to the frames.
ArrayTo(n)   == Pfn(StructAt(LowPages) + StructSize) .. Pfn(StructAt(n - 1) + StructSize)
TablesFor(n) == UNION {Path(v) : v \in (0 .. n - 1) \cup ArrayTo(n)}
Need(n)      == Cardinality(TablesFor(n)) + Cardinality(ArrayTo(n))

LEMMA TablesFinite ==
  ASSUME NEW n \in Nat
  PROVE  IsFiniteSet(TablesTo(n))
<1> DEFINE T == {k \in Nat : IsFiniteSet(TablesTo(k))}
<1>1. 0 \in T
  <2>1. \A v : v \notin 0 .. 0 - 1 OBVIOUS
  <2>2. TablesTo(0) = {} BY <2>1 DEF TablesTo
  <2> QED BY <2>2, FS_EmptySet
<1>2. ASSUME NEW k \in T PROVE k + 1 \in T
  <2>1. k \in Nat /\ IsFiniteSet(TablesTo(k)) OBVIOUS
  <2>2. IsFiniteSet(TablesTo(k + 1)) BY <2>1, TablesGrow
  <2> QED BY <2>1, <2>2
<1>3. T \in SUBSET Nat OBVIOUS
<1> HIDE DEF T
<1>4. T = Nat BY <1>1, <1>2, <1>3, Successors
<1> QED BY <1>4 DEF T

LEMMA NeedTyped ==
  ASSUME NEW n \in Nat, LowPages <= n
  PROVE  /\ IsFiniteSet(TablesFor(n)) /\ IsFiniteSet(ArrayTo(n)) /\ Need(n) \in Nat
<1>1. n # 0
  <2>1. PICK k \in Nat, P \in Nat : k = LowPages /\ P = PageSize /\ k * P = Low
    BY LowTyped, MemblockAssumption
  <2>2. k # 0 BY <2>1, VmemmapAssumption
  <2> QED BY <2>1, <2>2
<1>2. PICK a \in Nat, b \in Nat : ArrayTo(n) = a .. b
  <2>1. LowPages \in Nat /\ n - 1 \in Nat BY <1>1, LowTyped
  <2> QED BY <2>1, ArrayPage DEF ArrayTo
<1>3. IsFiniteSet(ArrayTo(n)) BY <1>2, FS_Interval
<1>4. TablesFor(n) \subseteq TablesTo(n + b + 1)
  <2>1. \A v \in (0 .. n - 1) \cup (a .. b) : v \in 0 .. n + b + 1 - 1 OBVIOUS
  <2> QED BY <2>1, <1>2 DEF TablesFor, TablesTo
<1>5. IsFiniteSet(TablesFor(n))
  <2>1. n + b + 1 \in Nat OBVIOUS
  <2>2. IsFiniteSet(TablesTo(n + b + 1)) BY <2>1, TablesFinite
  <2> QED BY <2>2, <1>4, FS_Subset
<1>6. Cardinality(TablesFor(n)) \in Nat /\ Cardinality(ArrayTo(n)) \in Nat
  BY <1>3, <1>5, FS_CardinalityType
<1> QED BY <1>3, <1>5, <1>6 DEF Need

-----------------------------------------------------------------------------
\* What holds of the memory, as long as there is room.

\* What is below the array is mapped one to one; of the array, nothing beyond page b.
Straight(m, b) ==
  \A u \in DOMAIN m.map : IF u < VBase THEN m.map[u] = u * PageSize ELSE u <= b

Bounded(m, n) == m.tabs \subseteq TablesFor(n) /\ Backs(m) \subseteq ArrayTo(n)

Lodging(R, j, n) == n \in Nat /\ LowPages <= n /\ Roomy(R, j, Need(n))

Sits(R, j, n, m, b) ==
  /\ MemoryInv(R, m) /\ Calm(R, j, Need(n), m)
  /\ Tally(m, 0) /\ Straight(m, b) /\ Bounded(m, n)

\* Then no more pages are taken than there are.
LEMMA SitsWithin ==
  ASSUME NEW R, NEW j, NEW n, Lodging(R, j, n), NEW m, NEW b, Sits(R, j, n, m, b)
  PROVE  Len(m.taken) <= Need(n)
<1>1. n \in Nat /\ LowPages <= n BY DEF Lodging
<1>2. IsFiniteSet(TablesFor(n)) /\ IsFiniteSet(ArrayTo(n)) BY <1>1, NeedTyped
<1>3. m.tabs \subseteq TablesFor(n) /\ Backs(m) \subseteq ArrayTo(n) BY DEF Sits, Bounded
<1>4. IsFiniteSet(m.tabs) /\ Cardinality(m.tabs) <= Cardinality(TablesFor(n))
  BY <1>2, <1>3, FS_Subset
<1>5. IsFiniteSet(Backs(m)) /\ Cardinality(Backs(m)) <= Cardinality(ArrayTo(n))
  BY <1>2, <1>3, FS_Subset
<1>6. PICK s \in Nat, t \in Nat, x \in Nat, y \in Nat :
        /\ s = Cardinality(m.tabs) /\ t = Cardinality(Backs(m))
        /\ x = Cardinality(TablesFor(n)) /\ y = Cardinality(ArrayTo(n))
  BY <1>2, <1>4, <1>5, FS_CardinalityType
<1>7. PICK k \in Nat : k = Len(m.taken)
  BY LenProperties DEF Sits, MemoryInv, MemoryType
<1>8. k <= s + t + 0 BY <1>6, <1>7 DEF Sits, Tally
<1>9. s <= x /\ t <= y BY <1>4, <1>5, <1>6
<1>10. k <= x + y BY <1>8, <1>9
<1> QED BY <1>6, <1>7, <1>10 DEF Need

\* A frame is mapped one to one.
LEMMA FrameSits ==
  ASSUME NEW R, NEW j, NEW n, Lodging(R, j, n), NEW m, NEW b, Sits(R, j, n, m, b),
         NEW p \in Nat, p < VBase, p < n, NEW phy \in Nat, phy = p * PageSize
  PROVE  /\ Sits(R, j, n, MapPage(m, p, phy), b)
         /\ DOMAIN MapPage(m, p, phy).map = DOMAIN m.map \cup {p}
<1>1. PICK m2 : m2 = MapPage(m, p, phy) OBVIOUS
<1>2. Sound(R) /\ MemoryInv(R, m) BY DEF Lodging, Roomy, Sits
<1>3. MemoryInv(R, m2) /\ Mapped(m, m2, p, phy) BY <1>1, <1>2, MapPageGrows DEF Grows
<1>4. Calm(R, j, Need(n), m2) BY <1>1, <1>2, MapCalm DEF Lodging, Sits
<1>5. Tally(m2, 0)
  <2>1. Tally(m, 0) BY DEF Sits
  <2> QED BY <2>1, <1>1, <1>2, MapTally
<1>6. DOMAIN m2.map = DOMAIN m.map \cup {p} BY <1>3 DEF Mapped
<1>7. Straight(m2, b)
  <2> SUFFICES ASSUME NEW u \in DOMAIN m2.map
               PROVE  IF u < VBase THEN m2.map[u] = u * PageSize ELSE u <= b
    BY DEF Straight
  <2>1. CASE u = p BY <2>1, <1>3 DEF Mapped
  <2>2. CASE u # p
    <3>1. u \in DOMAIN m.map /\ m2.map[u] = m.map[u] BY <2>2, <1>3 DEF Mapped
    <3> QED BY <3>1 DEF Sits, Straight
  <2> QED BY <2>1, <2>2
<1>8. Bounded(m2, n)
  <2>1. n \in Nat BY DEF Lodging
  <2>2. p \in 0 .. n - 1 BY <2>1
  <2>3. Path(p) \subseteq TablesFor(n) BY <2>2 DEF TablesFor
  <2>4. m2.tabs \subseteq TablesFor(n) BY <2>3, <1>3 DEF Mapped, Sits, Bounded
  <2>5. ~ (VBase <= p) BY VmemmapAssumption
  <2>6. Backs(m2) = Backs(m) BY <2>5, <1>6 DEF Backs
  <2> QED BY <2>4, <2>6 DEF Sits, Bounded
<1> QED BY <1>1, <1>3, <1>4, <1>5, <1>6, <1>7, <1>8 DEF Sits

\* The array grows by page v.
LEMMA ArraySits ==
  ASSUME NEW R, NEW j, NEW n, Lodging(R, j, n), NEW m, NEW b \in Nat, Sits(R, j, n, m, b),
         NEW v \in Nat, VBase <= v, b < v, v \in ArrayTo(n), NEW x \in Nat
  PROVE  /\ Sits(R, j, n, MapPage(AllocatePage(m), v, x), v)
         /\ DOMAIN MapPage(AllocatePage(m), v, x).map = DOMAIN m.map \cup {v}
<1>1. PICK g : g = AllocatePage(m) OBVIOUS
<1>2. PICK m2 : m2 = MapPage(g, v, x) OBVIOUS
<1>3. Sound(R) /\ MemoryInv(R, m) BY DEF Lodging, Roomy, Sits
<1>4. MemoryInv(R, g) /\ g.tabs = m.tabs /\ g.map = m.map
  BY <1>1, <1>3, AllocateGrows DEF Grows
<1>5. MemoryInv(R, m2) /\ Mapped(g, m2, v, x) BY <1>2, <1>3, <1>4, MapPageGrows DEF Grows
<1>6. Calm(R, j, Need(n), g) BY <1>1, <1>3, AllocateCalm DEF Lodging, Sits
<1>7. Calm(R, j, Need(n), m2) BY <1>2, <1>4, <1>6, MapCalm DEF Lodging
<1>8. Tally(g, 1)
  <2>1. Tally(m, 0) BY DEF Sits
  <2> QED BY <2>1, <1>1, <1>3, AllocateTally
<1>9. v \notin DOMAIN m.map
  <2>1. ~ (v < VBase) BY VmemmapAssumption
  <2>2. ~ (v <= b) OBVIOUS
  <2> QED BY <2>1, <2>2 DEF Sits, Straight
<1>10. Tally(m2, 0)
  <2>1. v \notin Backs(g) BY <1>4, <1>9 DEF Backs
  <2>2. PICK d \in {0, 1} : d = 1 OBVIOUS
  <2>3. Tally(g, d) BY <2>2, <1>8
  <2> QED BY <2>1, <2>2, <2>3, <1>2, <1>3, <1>4, MapTally
<1>11. DOMAIN m2.map = DOMAIN m.map \cup {v} BY <1>4, <1>5 DEF Mapped
<1>12. Straight(m2, v)
  <2> SUFFICES ASSUME NEW u \in DOMAIN m2.map
               PROVE  IF u < VBase THEN m2.map[u] = u * PageSize ELSE u <= v
    BY DEF Straight
  <2>1. CASE u = v BY <2>1, VmemmapAssumption
  <2>2. CASE u # v
    <3>1. u \in DOMAIN m.map /\ m2.map[u] = m.map[u] BY <2>2, <1>4, <1>5 DEF Mapped
    <3>2. u \in Nat
      <4>1. PICK S \in SUBSET Nat : m.map \in [S -> Nat]
        BY <1>3 DEF MemoryInv, MemoryType, Maps
      <4> QED BY <4>1, <3>1
    <3>3. IF u < VBase THEN m.map[u] = u * PageSize ELSE u <= b
      BY <3>1 DEF Sits, Straight
    <3>4. u <= b => u <= v BY <3>2
    <3> QED BY <3>1, <3>3, <3>4
  <2> QED BY <2>1, <2>2
<1>13. Bounded(m2, n)
  <2>1. Path(v) \subseteq TablesFor(n) BY DEF TablesFor
  <2>2. m2.tabs \subseteq TablesFor(n) BY <2>1, <1>4, <1>5 DEF Mapped, Sits, Bounded
  <2>3. Backs(m2) \subseteq Backs(m) \cup {v} BY <1>11 DEF Backs
  <2> QED BY <2>2, <2>3 DEF Sits, Bounded
<1> QED BY <1>1, <1>2, <1>5, <1>7, <1>10, <1>11, <1>12, <1>13 DEF Sits

-----------------------------------------------------------------------------
\* The identity map fits.

\* Low memory lies below the array.
LEMMA LowBelow == LowPages \in Nat /\ LowPages <= VBase
<1>1. PICK k \in Nat, V \in Nat, P \in Nat \ {0} :
        k = LowPages /\ V = VBase /\ P = PageSize /\ k * P <= V * P
  BY LowTyped, VmemmapAssumption, MemblockAssumption
<1>2. k <= V
  <2> SUFFICES ASSUME V < k PROVE FALSE OBVIOUS
  <2>1. V * P + P <= k * P BY <1>1, Apart
  <2>2. V * P \in Nat /\ k * P \in Nat OBVIOUS
  <2> QED BY <2>1, <2>2, <1>1
<1> QED BY <1>1, <1>2

\* The identity map fits, and all of low memory is in it.
LEMMA LowSits ==
  ASSUME NEW R, NEW j, NEW n, Lodging(R, j, n), NEW m, NEW b, Sits(R, j, n, m, b),
         NEW f, Lowering(m, f)
  PROVE  /\ Sits(R, j, n, f[LowPages], b)
         /\ 0 .. LowPages - 1 \subseteq DOMAIN f[LowPages].map
<1>0. PICK L \in Nat : L = LowPages /\ L <= VBase BY LowBelow
<1>1. \A k \in 0 .. L : f[k] = IF k = 0 THEN m ELSE MapPage(f[k - 1], k - 1, (k - 1) * PageSize)
  BY <1>0 DEF Lowering
<1>2. n \in Nat /\ L <= n BY <1>0 DEF Lodging
<1> DEFINE T == {k \in Nat : k <= L => /\ Sits(R, j, n, f[k], b)
                                       /\ 0 .. k - 1 \subseteq DOMAIN f[k].map}
<1>3. 0 \in T
  <2>1. f[0] = m BY <1>1
  <2>2. \A v : v \notin 0 .. 0 - 1 OBVIOUS
  <2> QED BY <2>1, <2>2
<1>4. ASSUME NEW k \in T PROVE k + 1 \in T
  <2> SUFFICES ASSUME k + 1 <= L
               PROVE  /\ Sits(R, j, n, f[k + 1], b)
                      /\ 0 .. k + 1 - 1 \subseteq DOMAIN f[k + 1].map
    OBVIOUS
  <2>1. k \in Nat /\ k <= L OBVIOUS
  <2>2. PICK x : x = f[k] OBVIOUS
  <2>3. Sits(R, j, n, x, b) /\ 0 .. k - 1 \subseteq DOMAIN x.map BY <2>1, <2>2
  <2>4. PICK a \in Nat : a = k * PageSize BY <2>1, MemblockAssumption
  <2>5. PICK y : y = MapPage(x, k, a) OBVIOUS
  <2>6. f[k + 1] = y
    <3>1. k + 1 \in 0 .. L /\ k + 1 # 0 /\ k + 1 - 1 = k BY <2>1
    <3> QED BY <3>1, <1>1, <2>2, <2>4, <2>5
  <2> HIDE DEF T
  <2>7. k < VBase /\ k < n BY <1>0, <1>2, <2>1, VmemmapAssumption
  <2>8. Sits(R, j, n, y, b) /\ DOMAIN y.map = DOMAIN x.map \cup {k}
    BY <2>1, <2>3, <2>4, <2>5, <2>7, FrameSits
  <2>9. \A v \in 0 .. k + 1 - 1 : v \in 0 .. k - 1 \/ v = k BY <2>1
  <2> QED BY <2>3, <2>6, <2>8, <2>9
<1>5. T = Nat
  <2> HIDE DEF T
  <2>1. T \in SUBSET Nat BY DEF T
  <2> QED BY <1>3, <1>4, <2>1, Successors
<1> QED BY <1>0, <1>5

-----------------------------------------------------------------------------
\* A range that is handed out.

\* No frame from the n-th on is populated.
Capped(l, n) == End(l) <= n * PageSize \/ MaxSupport <= n * PageSize

\* What init_mem_page leaves behind: low memory is mapped.
Lowered(s, m) == s # "low" => 0 .. LowPages - 1 \subseteq DOMAIN m.map

Reach(R, j, n, m, s, l, b) ==
  Sits(R, j, n, m, b) /\ Lowered(s, m) /\ (l = NoRange \/ Capped(l, n))

\* A range that is cut off leaves what is below the identity map's end.
LEMMA CutSits ==
  ASSUME NEW R, NEW j, NEW n, Lodging(R, j, n), NEW m, NEW b, Sits(R, j, n, m, b),
         NEW i \in 1 .. Len(R), NEW E2, NEW range,
         CutAt(m.entries, E2, i, range, Len(R)), NEW m2,
         m2 = [entries |-> E2, taken |-> m.taken, starved |-> m.starved, tabs |-> m.tabs,
               map |-> m.map]
  PROVE  Sits(R, j, n, m2, b) /\ m2.map = m.map
<1>0. Sound(R) /\ MemoryInv(R, m) BY DEF Lodging, Roomy, Sits
<1>1. PICK c \in Nat : c = Len(R) BY <1>0, LenProperties DEF Sound
<1>2. PICK E \in [1 .. c -> Region] : E = m.entries BY <1>0, <1>1 DEF MemoryInv, MemoryType
<1>3. j \in 1 .. c BY <1>1 DEF Lodging, Roomy
<1>4. CutAt(E, E2, i, range, c) BY <1>1, <1>2
<1>5. /\ m2.entries = E2 /\ m2.taken = m.taken /\ m2.starved = m.starved /\ m2.tabs = m.tabs
      /\ m2.map = m.map
  OBVIOUS
<1>6. MemoryInv(R, m2) BY <1>0, CutMemory
<1>7. E2[j].base = E[j].base BY <1>1, <1>3, <1>4, CutBase
<1>8. AlignUp(R[j].base) + Need(n) * PageSize <= End(E2[j])
  <2>1. CASE j = i
    <3>1. End(E2[j]) = range.base /\ Low <= range.base /\ range \in Region
      BY <2>1, <1>4 DEF CutAt, Cut
    <3>2. PICK x \in Nat, y \in Nat : x = range.base /\ y = Low
      BY <3>1, EndTyped, VmemmapAssumption
    <3>3. AlignUp(R[j].base) + Need(n) * PageSize <= Low BY DEF Lodging, Roomy, Room
    <3>4. PICK z \in Nat : z = AlignUp(R[j].base) + Need(n) * PageSize
      <4>1. R[j] \in Region BY <1>0, <1>1, <1>3, ElementOfSeq DEF Sound
      <4>2. AlignUp(R[j].base) \in Nat BY <4>1, EdgesTyped
      <4>3. Need(n) * PageSize \in Nat BY MemblockAssumption DEF Lodging, Roomy
      <4> QED BY <4>2, <4>3
    <3>5. z <= x BY <3>1, <3>2, <3>3, <3>4
    <3> QED BY <3>1, <3>2, <3>4, <3>5
  <2>2. CASE j # i
    <3>1. E2[j] = E[j] BY <2>2, <1>3, <1>4 DEF CutAt
    <3> QED BY <3>1, <1>2 DEF Sits, Calm
  <2> QED BY <2>1, <2>2
<1>9. Calm(R, j, Need(n), m2) BY <1>2, <1>5, <1>7, <1>8 DEF Sits, Calm
<1>10. Tally(m2, 0) BY <1>5 DEF Sits, Tally, Backs
<1>11. Straight(m2, b) /\ Bounded(m2, n) BY <1>5 DEF Sits, Straight, Bounded, Backs
<1> QED BY <1>5, <1>6, <1>9, <1>10, <1>11 DEF Sits

\* It ends where its region ended, or before.
LEMMA RangeCapped ==
  ASSUME NEW R, Sound(R), NEW m, MemoryInv(R, m), NEW i \in 1 .. Len(R), NEW E2, NEW range,
         CutAt(m.entries, E2, i, range, Len(R)), NEW n \in Nat,
         \A e \in Range(R) : Capped(e, n)
  PROVE  Capped(range, n)
<1>1. PICK c \in Nat : c = Len(R) BY LenProperties DEF Sound
<1>2. PICK E \in [1 .. c -> Region] : E = m.entries BY <1>1 DEF MemoryInv, MemoryType
<1>3. R[i] \in Region /\ E[i] \in Region BY <1>1, <1>2, ElementOfSeq DEF Sound
<1>4. range \in Region /\ End(range) <= End(E[i]) BY <1>2 DEF CutAt, Cut
<1>5. End(E[i]) <= End(R[i]) BY <1>2 DEF MemoryInv, Rests
<1>6. PICK x \in Nat, y \in Nat, z \in Nat, w \in Nat :
        x = End(range) /\ y = End(E[i]) /\ z = End(R[i]) /\ w = n * PageSize
  BY <1>3, <1>4, EdgesTyped, MemblockAssumption
<1>7. R[i] \in Range(R) BY LenProperties DEF Range, Sound
<1>8. z <= w \/ MaxSupport <= w BY <1>6, <1>7 DEF Capped
<1>9. x <= z BY <1>4, <1>5, <1>6
<1>10. x <= w \/ MaxSupport <= w BY <1>6, <1>8, <1>9
<1> QED BY <1>6, <1>10 DEF Capped

-----------------------------------------------------------------------------
\* The frames and the pages of the array are among those counted.

LEMMA Fewer ==
  ASSUME NEW a \in Nat, NEW b \in Nat, a * PageSize < b * PageSize
  PROVE  a < b
<1> SUFFICES ASSUME b <= a PROVE FALSE OBVIOUS
<1>1. PICK P \in Nat \ {0}, x \in Nat, y \in Nat :
        P = PageSize /\ x = a * PageSize /\ y = b * PageSize /\ x < y
  BY MemblockAssumption
<1>2. b < a => y + P <= x BY <1>1, Apart
<1>3. b = a => y = x BY <1>1
<1> QED BY <1>1, <1>2, <1>3

LEMMA PfnOrder ==
  ASSUME NEW a \in Nat, NEW b \in Nat, a <= b
  PROVE  Pfn(a) <= Pfn(b)
<1>1. PICK x \in Nat, y \in Nat, P \in Nat \ {0} :
        /\ x = Pfn(a) /\ y = Pfn(b) /\ P = PageSize
        /\ x * P <= a /\ b < y * P + P
  BY PageAt, MemblockAssumption
<1> SUFFICES ASSUME y < x PROVE FALSE BY <1>1
<1>2. y * P + P <= x * P BY <1>1, Apart
<1>3. PICK u \in Nat, w \in Nat : u = x * P /\ w = y * P OBVIOUS
<1> QED BY <1>1, <1>2, <1>3

\* The frame that is populated next is above the identity map and below the n-th.
LEMMA FrameWithin ==
  ASSUME NEW l, Handed(l), NEW q, Queue(l, q), q # <<>>, NEW n \in Nat, Capped(l, n),
         NEW p, p = Pfn(Head(q).base)
  PROVE  /\ p \in Nat /\ Head(q).base \in Nat /\ Head(q).base = p * PageSize
         /\ LowPages <= p /\ p < n /\ p < VBase
<1>1. Head(q) = q[1] /\ Head(q) \in Piece BY QueueShrinks
<1>2. 1 \in 1 .. Len(q)
  <2>1. CASE \E r \in Piece : q = <<r>> BY <2>1, Lengths
  <2>2. CASE \E r, s \in Piece : q = <<r, s>>
    <3>1. Len(q) = 2 BY <2>2, Lengths
    <3> QED BY <3>1
  <2> QED BY <2>1, <2>2 DEF Queue
<1>3. PICK h \in Piece : h = Head(q) BY <1>1
<1>4. End(h) <= End(l) BY <1>1, <1>2, <1>3, QueueEnds
<1>5. PICK x \in Nat, d \in Nat, P \in Nat \ {0}, e \in Nat, M \in Nat, w \in Nat, L \in Nat,
           y \in Nat :
        /\ x = h.base /\ d = h.limit /\ P = PageSize /\ e = End(l) /\ M = MaxSupport
        /\ w = n * P /\ L = Low /\ y = End(h)
  <2>1. h \in Region /\ l \in Region BY DEF Piece, Handed
  <2>2. h.base \in Nat /\ h.limit \in Nat /\ End(h) \in Nat /\ End(l) \in Nat
    BY <2>1, EndTyped
  <2>3. PICK P \in Nat \ {0} : P = PageSize BY MemblockAssumption
  <2>4. n * P \in Nat OBVIOUS
  <2>5. MaxSupport \in Nat /\ Low \in Nat BY VmemmapAssumption
  <2> QED BY <2>2, <2>3, <2>4, <2>5
<1>6. P <= d /\ y = x + d /\ y < M /\ L <= x /\ Aligned(x) BY <1>5 DEF Piece, End
<1>7. p \in Nat /\ p * PageSize = x BY <1>3, <1>5, <1>6, PageAt
<1>8. x < w
  <2>1. y <= e BY <1>4, <1>5
  <2>2. e <= w \/ M <= w BY <1>5 DEF Capped
  <2> QED BY <2>1, <2>2, <1>6
<1>9. p < n BY <1>5, <1>7, <1>8, Fewer
<1>10. p * PageSize < MaxSupport BY <1>5, <1>6, <1>7
<1>11. p < VBase BY <1>7, <1>10, FrameLow
<1>12. LowPages <= p
  <2>1. PICK k \in Nat : k = LowPages /\ k * PageSize = L BY <1>5, LowTyped
  <2> SUFFICES ASSUME p < k PROVE FALSE BY <1>7, <2>1
  <2>2. p * PageSize + PageSize <= k * PageSize BY <1>7, <2>1, Apart
  <2> QED BY <2>1, <2>2, <1>5, <1>6, <1>7
<1> QED BY <1>3, <1>5, <1>7, <1>9, <1>11, <1>12

\* The page of the array that its struct page ends in is one of those that were counted.
LEMMA BackingWithin ==
  ASSUME NEW n \in Nat, NEW p \in Nat, LowPages <= p, p < n,
         NEW v, v = Pfn(StructAt(p) + StructSize)
  PROVE  v \in Nat /\ VBase <= v /\ v \in ArrayTo(n)
<1>1. PICK k \in Nat, c \in Nat : k = LowPages /\ c = n - 1 /\ k <= p /\ p <= c
  <2>1. n - 1 \in Nat /\ p <= n - 1 OBVIOUS
  <2> QED BY <2>1, LowTyped
<1>2. PICK S \in Nat \ {0} : S = StructSize BY VmemmapAssumption, MemblockAssumption
<1>3. ASSUME NEW a \in Nat, NEW b \in Nat, a <= b
      PROVE  Pfn(StructAt(a) + StructSize) <= Pfn(StructAt(b) + StructSize)
  <2>1. PICK x \in Nat, y \in Nat : x = StructAt(a) /\ y = StructAt(b) BY StructTyped
  <2>2. x <= y
    <3>1. CASE a = b BY <3>1, <2>1
    <3>2. CASE a # b
      <4>1. a < b BY <1>3, <3>2
      <4>2. x + S <= y BY <4>1, <2>1, <1>2, StructOrder
      <4> QED BY <4>2
    <3> QED BY <3>1, <3>2
  <2>3. x + S \in Nat /\ y + S \in Nat /\ x + S <= y + S BY <2>2
  <2> QED BY <2>1, <2>3, <1>2, PfnOrder
<1>4. \A a \in Nat : Pfn(StructAt(a) + StructSize) \in Nat BY ArrayPage
<1>5. VBase <= v BY ArrayPage
<1>6. Pfn(StructAt(k) + StructSize) <= v /\ v <= Pfn(StructAt(c) + StructSize) BY <1>1, <1>3
<1> QED BY <1>1, <1>4, <1>5, <1>6 DEF ArrayTo

\* It is a page that has not been mapped.
LEMMA BackingNew ==
  ASSUME NEW p \in Nat, backed \in Nat, NewBacking(p), NEW v, v = Pfn(StructAt(p) + StructSize)
  PROVE  backed < v
<1>1. PICK x \in Nat, S \in Nat, P \in Nat \ {0}, b \in Nat :
        x = StructAt(p) /\ S = StructSize /\ P = PageSize /\ b = backed
  BY StructTyped, VmemmapAssumption, MemblockAssumption
<1>2. PICK y \in Nat : y = x + S OBVIOUS
<1>3. v \in Nat /\ y < v * P + P BY <1>1, <1>2, PageAt
<1>4. PICK c \in Nat, d \in Nat : c = b * P /\ d = v * P
  <2>1. b * P \in Nat OBVIOUS
  <2>2. v * P \in Nat BY <1>3
  <2> QED BY <2>1, <2>2
<1>5. y - c > P BY <1>1, <1>2, <1>4 DEF NewBacking
<1>6. c < d BY <1>3, <1>4, <1>5
<1> QED BY <1>1, <1>3, <1>4, <1>6, Fewer

-----------------------------------------------------------------------------
\* The steps of the boot code.

\* A turn of the loop over the regions keeps what holds of the memory.
LEMMA NextReach ==
  ASSUME NEW r \in Reports, NEW R, R = Regions(r), NEW j, NEW n, Lodging(R, j, n),
         \A e \in Range(R) : Capped(e, n), NEW m, NEW l, NEW F, NEW b, NEW S,
         Good(R, m, "range", l, <<>>, S, b, F), Reach(R, j, n, m, "range", l, b),
         NEW i, i = FirstOver(m.entries, Low), i # 0,
         NEW range, range = HandedOut(m.entries[i], Low), NEW s,
         NEW m2,
         m2 = [entries |-> [m.entries EXCEPT ![i] = Remaining(m.entries[i], Low)],
               taken |-> m.taken, starved |-> m.starved, tabs |-> m.tabs, map |-> m.map]
  PROVE  Reach(R, j, n, m2, s, range, b)
<1>1. Sound(R) /\ n \in Nat BY DEF Lodging, Roomy
<1>2. MemoryInv(R, m) /\ Sits(R, j, n, m, b) BY DEF Good, Reach
<1>3. PICK c \in Nat : c = Len(R) BY <1>1, LenProperties DEF Sound
<1>4. PICK E \in [1 .. c -> Region] : E = m.entries BY <1>2, <1>3 DEF MemoryInv, MemoryType
<1>5. i \in 1 .. c /\ Over(E[i], Low) BY <1>4, FirstOverIs
<1>6. Cut(m.entries[i], range, Remaining(m.entries[i], Low)) BY <1>3, <1>4, <1>5, NextCut
<1>7. PICK E2 : E2 = [E EXCEPT ![i] = Remaining(E[i], Low)] OBVIOUS
<1>8. CutAt(E, E2, i, range, c) BY <1>4, <1>5, <1>6, <1>7, CutOne
<1>9. CutAt(m.entries, E2, i, range, Len(R)) /\ i \in 1 .. Len(R) BY <1>3, <1>4, <1>5, <1>8
<1>10. PICK x : x = [entries |-> E2, taken |-> m.taken, starved |-> m.starved,
                     tabs |-> m.tabs, map |-> m.map]
  OBVIOUS
<1>11. Sits(R, j, n, m2, b) /\ m2.map = m.map
  <2>1. m2 = x BY <1>4, <1>7, <1>10
  <2>2. PICK h \in 1 .. Len(R) : h = i BY <1>9
  <2>3. CutAt(m.entries, E2, h, range, Len(R)) BY <2>2, <1>9
  <2>4. Sits(R, j, n, x, b) /\ x.map = m.map BY <2>3, <1>2, <1>10, CutSits, Zenon
  <2> QED BY <2>1, <2>4
<1>12. Capped(range, n) BY <1>1, <1>2, <1>9, RangeCapped
<1>13. Lowered(s, m2) BY <1>11 DEF Reach, Lowered
<1> QED BY <1>11, <1>12, <1>13 DEF Reach

\* Populating a page keeps it.
LEMMA PageReach ==
  ASSUME NEW R, NEW j, NEW n, Lodging(R, j, n), NEW m, NEW l, NEW q, NEW S, NEW F,
         Good(R, m, "page", l, q, S, backed, F), Reach(R, j, n, m, "page", l, backed),
         NEW p, p = Pfn(Head(q).base), NEW v, v = Pfn(StructAt(p) + StructSize),
         NEW identity, identity = MapPage(m, p, Head(q).base),
         NEW got, got = AllocatePage(identity), NEW s, NEW m2,
         m2 = IF NewBacking(p) THEN MapPage(got, v, got.taken[Len(got.taken)]) ELSE identity
  PROVE  Reach(R, j, n, m2, s, l, IF NewBacking(p) THEN v ELSE backed)
<1>1. Sound(R) /\ n \in Nat BY DEF Lodging, Roomy
<1>2. Sits(R, j, n, m, backed) BY DEF Reach
<1>3. q # <<>> /\ Queue(l, q) /\ Handed(l) BY DEF Good, Stages
<1>4. l # NoRange BY <1>3, HandedBase
<1>5. Capped(l, n) BY <1>4 DEF Reach
<1>6. PICK phy \in Nat : phy = Head(q).base /\ phy = p * PageSize
  BY <1>1, <1>3, <1>5, FrameWithin
<1>7. p \in Nat /\ LowPages <= p /\ p < n /\ p < VBase BY <1>1, <1>3, <1>5, FrameWithin
<1>8. backed \in Nat
  <2>1. Lays(l, q, S, backed, m.map, m.taken) BY DEF Good
  <2> QED BY <2>1 DEF Lays, Backed
<1>9. identity = MapPage(m, p, phy) BY <1>6
<1>10. Sits(R, j, n, identity, backed) /\ DOMAIN identity.map = DOMAIN m.map \cup {p}
  BY <1>2, <1>6, <1>7, <1>9, FrameSits
<1>11. CASE ~ NewBacking(p)
  <2>1. m2 = identity BY <1>11
  <2>2. Lowered(s, m2) BY <2>1, <1>10 DEF Reach, Lowered
  <2> QED BY <2>1, <2>2, <1>5, <1>10, <1>11 DEF Reach
<1>12. CASE NewBacking(p)
  <2>1. v \in Nat /\ VBase <= v /\ v \in ArrayTo(n) BY <1>1, <1>7, BackingWithin
  <2>2. backed < v BY <1>7, <1>8, <1>12, BackingNew
  <2>3. PICK x \in Nat : x = got.taken[Len(got.taken)]
    <3>1. MemoryInv(R, identity) BY <1>10 DEF Sits
    <3>2. Grows(R, identity, got, 1) BY <3>1, <1>1, AllocateGrows
    <3>3. PICK T \in Seq(Nat) : T = identity.taken BY <3>1 DEF MemoryInv, MemoryType
    <3>4. PICK T2 \in Seq(Nat) : T2 = got.taken BY <3>2 DEF Grows, MemoryInv, MemoryType
    <3>5. PICK d \in Nat : d = Len(T) BY LenProperties
    <3>6. Len(T2) = d + 1 BY <3>2, <3>3, <3>4, <3>5 DEF Grows, Longer
    <3>7. T2[d + 1] \in Nat
      <4>1. d + 1 \in 1 .. Len(T2) BY <3>6
      <4> QED BY <4>1, ElementOfSeq
    <3> QED BY <3>4, <3>6, <3>7
  <2>4. m2 = MapPage(AllocatePage(identity), v, x) BY <2>3, <1>12
  <2>5. Sits(R, j, n, m2, v) /\ DOMAIN m2.map = DOMAIN identity.map \cup {v}
    BY <2>1, <2>2, <2>4, <1>8, <1>10, ArraySits
  <2>6. Lowered(s, m2) BY <2>5, <1>10 DEF Reach, Lowered
  <2> QED BY <2>5, <2>6, <1>5, <1>12 DEF Reach
<1> QED BY <1>11, <1>12

\* The boot begins with it.
LEMMA InitReach ==
  ASSUME NEW R, NEW j, NEW n, Lodging(R, j, n), NEW m,
         m = [entries |-> R, taken |-> <<>>, starved |-> FALSE, tabs |-> {}, map |-> <<>>]
  PROVE  Reach(R, j, n, m, "low", NoRange, 0)
<1>1. Sound(R) BY DEF Lodging, Roomy
<1>2. MemoryInv(R, m) BY <1>1, MemoryFirst
<1>3. /\ m.entries = R /\ m.taken = <<>> /\ m.starved = FALSE /\ m.tabs = {} OBVIOUS
<1>4. PICK T \in Seq(Nat) : T = <<>> BY EmptySeq
<1>5. Len(T) = 0 /\ \A i : i \notin 1 .. Len(T) BY <1>4, EmptySeq, Lengths
<1>6. DOMAIN m.map = {}
  <2>1. m.map = T BY <1>4
  <2>2. DOMAIN T = 1 .. Len(T) BY LenProperties
  <2> QED BY <2>1, <2>2, <1>5
<1>7. Backs(m) = {} BY <1>6 DEF Backs
<1>8. Tally(m, 0)
  <2>1. IsFiniteSet({}) /\ Cardinality({}) = 0 BY FS_EmptySet
  <2>2. Len(m.taken) = 0 BY <1>3, <1>4, <1>5
  <2>3. PICK a \in Nat, b \in Nat, k \in Nat :
          /\ a = Cardinality(m.tabs) /\ b = Cardinality(Backs(m)) /\ k = Len(m.taken)
          /\ a = 0 /\ b = 0 /\ k = 0
    BY <2>1, <2>2, <1>3, <1>7
  <2>4. k <= a + b + 0 BY <2>3
  <2>5. IsFiniteSet(m.tabs) /\ IsFiniteSet(Backs(m)) BY <2>1, <1>3, <1>7
  <2> QED BY <2>3, <2>4, <2>5 DEF Tally
<1>9. Straight(m, 0) /\ Bounded(m, n) BY <1>3, <1>6, <1>7 DEF Straight, Bounded
<1>10. Calm(R, j, Need(n), m)
  <2>1. R[j] \in Region BY ElementOfSeq DEF Lodging, Roomy, Sound
  <2>2. PICK a \in Nat, u \in Nat, P \in Nat : a = R[j].base /\ u = AlignUp(R[j].base) /\ P = PageSize
    BY <2>1, EdgesTyped, MemblockAssumption
  <2>3. a <= u BY <2>1, <2>2, EdgesTyped
  <2>4. a <= u + 0 * P BY <2>2, <2>3
  <2>5. u + Need(n) * P <= End(R[j]) BY <2>2 DEF Lodging, Roomy, Room
  <2>6. Len(m.taken) = 0 BY <1>3, <1>4, <1>5
  <2>7. \A i : i \notin 1 .. Len(m.taken) BY <1>3, <1>4, <1>5
  <2> QED BY <2>2, <2>4, <2>5, <2>6, <2>7, <1>3 DEF Calm
<1> QED BY <1>2, <1>8, <1>9, <1>10 DEF Reach, Sits, Lowered

-----------------------------------------------------------------------------
\* The inductive invariant, with the room that is left.

\* The region j has room for what the boot code needs for the frames below n, and there are
\* no others.
Lodges(R, j, n) == Lodging(R, j, n) /\ \A e \in Range(R) : Capped(e, n)

Reached(R) ==
  \A j, n : Lodges(R, j, n) => Reach(R, j, n, Memory, pc, last, backed)

WInv == VInv /\ Reached(Regions(report))

LEMMA InitReached == Init => Reached(Regions(report))
<1> SUFFICES ASSUME Init PROVE Reached(Regions(report)) OBVIOUS
<1>1. PICK R : R = Regions(report) OBVIOUS
<1>2. PICK m : m = Memory OBVIOUS
<1>3. m = [entries |-> R, taken |-> <<>>, starved |-> FALSE, tabs |-> {}, map |-> <<>>]
  BY <1>1, <1>2 DEF Init, Memory
<1>4. pc = "low" /\ last = NoRange /\ backed = 0 BY DEF Init
<1>5. ASSUME NEW j, NEW n, Lodges(R, j, n) PROVE Reach(R, j, n, m, "low", NoRange, 0)
  BY <1>3, <1>5, InitReach DEF Lodges
<1> QED BY <1>1, <1>2, <1>4, <1>5 DEF Reached

LEMMA MapLowReached == WInv /\ MapLow => Reached(Regions(report))'
<1> SUFFICES ASSUME WInv, MapLow PROVE Reached(Regions(report))' OBVIOUS
<1> DEFINE f == CHOOSE f : Lowering(Memory, f)
<1>1. PICK R : R = Regions(report) OBVIOUS
<1>2. Sound(R) BY <1>1, RegionsTold DEF WInv, VInv
<1>3. Good(R, Memory, "low", last, todo, structs, backed, freed)
  BY <1>1 DEF WInv, VInv, MapLow
<1>4. Lowering(Memory, f)
  <2>1. MemoryInv(R, Memory) BY <1>3 DEF Good
  <2>2. \E g : Lowering(Memory, g) BY <1>2, <2>1, LoweringExists
  <2> QED BY <2>2
<1>5. Becomes(f[LowPages]) BY DEF MapLow, Lowering
<1> HIDE DEF f
<1>6. PICK m : m = f[LowPages] OBVIOUS
<1>7. Memory' = m
  <2>1. Good(R, m, "range", last, todo, structs, backed, freed)
    BY <1>2, <1>3, <1>4, <1>6, LowGood
  <2>2. MemoryInv(R, m) BY <2>1 DEF Good
  <2>3. Becomes(m) BY <1>5, <1>6
  <2> QED BY <2>2, <2>3, BecomesIs
<1>8. report' = report /\ pc' = "range" /\ last' = last /\ backed' = backed BY DEF MapLow
<1>9. ASSUME NEW j, NEW n, Lodges(R, j, n) PROVE Reach(R, j, n, m, "range", last, backed)
  <2>1. Reach(R, j, n, Memory, pc, last, backed) BY <1>1, <1>9 DEF WInv, Reached
  <2>2. Sits(R, j, n, Memory, backed) /\ (last = NoRange \/ Capped(last, n)) BY <2>1 DEF Reach
  <2>3. Sits(R, j, n, m, backed) /\ 0 .. LowPages - 1 \subseteq DOMAIN m.map
    BY <2>2, <1>4, <1>6, <1>9, LowSits DEF Lodges
  <2> QED BY <2>2, <2>3 DEF Reach, Lowered
<1> QED BY <1>1, <1>7, <1>8, <1>9 DEF Reached

LEMMA NextRangeReached == WInv /\ NextRange => Reached(Regions(report))'
<1> SUFFICES ASSUME WInv, NextRange PROVE Reached(Regions(report))' OBVIOUS
<1>1. PICK R : R = Regions(report) OBVIOUS
<1>2. report \in Reports BY DEF WInv, VInv
<1>3. PICK m : m = Memory OBVIOUS
<1>4. Good(R, m, "range", last, todo, structs, backed, freed)
  BY <1>1, <1>3 DEF WInv, VInv, NextRange
<1>5. todo = <<>>
  <2>1. Stages("range", last, todo, structs, freed) BY <1>4 DEF Good
  <2> QED BY <2>1 DEF Stages
<1>6. ASSUME NEW j, NEW n, Lodges(R, j, n) PROVE Reach(R, j, n, m, "range", last, backed)
  BY <1>1, <1>3, <1>6 DEF WInv, Reached, NextRange
<1>7. /\ m.entries = entries /\ m.taken = taken /\ m.starved = starved /\ m.tabs = tabs
      /\ m.map = map
  BY <1>3 DEF Memory
<1>8. PICK i : i = FirstOver(entries, Low) OBVIOUS
<1>9. /\ report' = report /\ taken' = taken /\ starved' = starved /\ tabs' = tabs /\ map' = map
      /\ backed' = backed
  BY DEF NextRange
<1>10. CASE i = 0
  <2>1. pc' = "done" /\ entries' = entries /\ last' = last BY <1>8, <1>10 DEF NextRange
  <2>2. Memory' = m BY <1>3, <1>9, <2>1 DEF Memory
  <2>3. ASSUME NEW j, NEW n, Lodges(R, j, n) PROVE Reach(R, j, n, m, "done", last, backed)
    BY <1>6, <2>3 DEF Reach, Lowered
  <2> QED BY <1>1, <1>9, <2>1, <2>2, <2>3 DEF Reached
<1>11. CASE i # 0
  <2>1. PICK range : range = HandedOut(entries[i], Low) OBVIOUS
  <2>2. PICK s : s = pc' OBVIOUS
  <2>3. entries' = [entries EXCEPT ![i] = Remaining(entries[i], Low)] /\ last' = range
    BY <1>8, <1>11, <2>1 DEF NextRange
  <2>4. PICK m2 : m2 = [entries |-> [m.entries EXCEPT ![i] = Remaining(m.entries[i], Low)],
                        taken |-> m.taken, starved |-> m.starved, tabs |-> m.tabs,
                        map |-> m.map]
    OBVIOUS
  <2>5. Memory' = m2 BY <1>7, <1>9, <2>3, <2>4 DEF Memory
  <2>6. Good(R, m, "range", last, <<>>, structs, backed, freed) BY <1>4, <1>5
  <2>7. i = FirstOver(m.entries, Low) /\ range = HandedOut(m.entries[i], Low)
    BY <1>7, <1>8, <2>1
  <2>8. ASSUME NEW j, NEW n, Lodges(R, j, n) PROVE Reach(R, j, n, m2, s, range, backed)
    <3>1. Lodging(R, j, n) /\ \A e \in Range(R) : Capped(e, n) BY <2>8 DEF Lodges
    <3>2. Reach(R, j, n, m, "range", last, backed) BY <1>6, <2>8
    <3> QED BY <1>1, <1>2, <1>11, <2>4, <2>6, <2>7, <3>1, <3>2, NextReach
  <2> QED BY <1>1, <1>9, <2>2, <2>3, <2>5, <2>8 DEF Reached
<1> QED BY <1>10, <1>11

LEMMA PopulatePageReached == WInv /\ PopulatePage => Reached(Regions(report))'
<1> SUFFICES ASSUME WInv, PopulatePage PROVE Reached(Regions(report))' OBVIOUS
<1>1. PICK R : R = Regions(report) OBVIOUS
<1>2. Sound(R) BY <1>1, RegionsTold DEF WInv, VInv
<1>3. PICK m : m = Memory OBVIOUS
<1>4. Good(R, m, "page", last, todo, structs, backed, freed)
  BY <1>1, <1>3 DEF WInv, VInv, PopulatePage
<1>5. PICK p : p = Pfn(Head(todo).base) OBVIOUS
<1>6. PICK v : v = Pfn(StructAt(p) + StructSize) OBVIOUS
<1>7. PICK identity : identity = MapPage(m, p, Head(todo).base) OBVIOUS
<1>8. PICK got : got = AllocatePage(identity) OBVIOUS
<1>9. PICK m2 : m2 = IF NewBacking(p) THEN MapPage(got, v, got.taken[Len(got.taken)])
                                      ELSE identity
  OBVIOUS
<1>10. PICK s : s = pc' OBVIOUS
<1>11. PICK b : b = IF NewBacking(p) THEN v ELSE backed OBVIOUS
<1>12. Becomes(m2) /\ backed' = b /\ report' = report /\ last' = last
  <2>1. /\ IF NewBacking(p)
             THEN backed' = v /\ Becomes(MapPage(got, v, got.taken[Len(got.taken)]))
             ELSE UNCHANGED backed /\ Becomes(identity)
        /\ report' = report /\ last' = last
    BY <1>3, <1>5, <1>6, <1>7, <1>8 DEF PopulatePage
  <2> QED BY <2>1, <1>9, <1>11
<1>13. ASSUME NEW j, NEW n, Lodges(R, j, n) PROVE Reach(R, j, n, m2, s, last, b)
  <2>1. Reach(R, j, n, m, "page", last, backed)
    BY <1>1, <1>3, <1>13 DEF WInv, Reached, PopulatePage
  <2>2. Lodging(R, j, n) BY <1>13 DEF Lodges
  <2>3. Reach(R, j, n, m2, s, last, IF NewBacking(p) THEN v ELSE backed)
    BY <1>4, <1>5, <1>6, <1>7, <1>8, <1>9, <2>1, <2>2, PageReach
  <2> QED BY <2>3, <1>11
<1>14. ASSUME NEW j, NEW n, Lodges(R, j, n) PROVE Memory' = m2
  <2>1. MemoryInv(R, m2) BY <1>13, <1>14 DEF Reach, Sits
  <2> QED BY <2>1, <1>12, BecomesIs
<1> QED BY <1>1, <1>10, <1>12, <1>13, <1>14 DEF Reached

\* WInv holds always.
LEMMA ReachedInv == Spec => []WInv
<1>1. WInv /\ [Next]_vars => WInv'
  <2> SUFFICES ASSUME WInv, [Next]_vars PROVE WInv' OBVIOUS
  <2>1. VInv BY DEF WInv
  <2>2. CASE MapLow BY <2>1, <2>2, MapLowInv, MapLowReached DEF WInv
  <2>3. CASE NextRange BY <2>1, <2>3, NextRangeInv, NextRangeReached DEF WInv
  <2>4. CASE PopulatePage BY <2>1, <2>4, PopulatePageInv, PopulatePageReached DEF WInv
  <2>5. CASE UNCHANGED vars
    <3>1. /\ report' = report /\ Memory' = Memory /\ pc' = pc /\ last' = last
          /\ todo' = todo /\ backed' = backed /\ structs' = structs /\ freed' = freed
      BY <2>5 DEF vars, memory, Memory
    <3>2. VInv' BY <2>1, <3>1 DEF VInv
    <3>3. Reached(Regions(report))' BY <3>1 DEF WInv, Reached
    <3> QED BY <3>2, <3>3 DEF WInv
  <2> QED BY <2>2, <2>3, <2>4, <2>5 DEF Next, Done
<1>2. Init => WInv BY InitInv, InitReached DEF WInv
<1> QED BY <1>1, <1>2, PTL DEF Spec

-----------------------------------------------------------------------------

\* Behind the kernel and below the end of the identity map, some region of RAM has room for
\* all that the boot code takes.
LowSuffices(r) ==
  \E n \in Nat :
    /\ LowPages <= n /\ \A e \in Range(Regions(r)) : Capped(e, n)
    /\ \E j \in 1 .. Len(Regions(r)) : Room(Regions(r)[j], Need(n))

LEMMA Enough ==
  ASSUME WInv, LowSuffices(report)
  PROVE  \E R, j, n : /\ R = Regions(report) /\ Lodging(R, j, n)
                      /\ Reach(R, j, n, Memory, pc, last, backed)
                      /\ Len(taken) <= Need(n)
<1>1. PICK n \in Nat :
        /\ LowPages <= n /\ \A e \in Range(Regions(report)) : Capped(e, n)
        /\ \E j \in 1 .. Len(Regions(report)) : Room(Regions(report)[j], Need(n))
  BY DEF LowSuffices
<1>2. PICK R : R = Regions(report) OBVIOUS
<1>3. PICK j \in 1 .. Len(R) : Room(R[j], Need(n)) BY <1>1, <1>2
<1>4. Lodging(R, j, n)
  <2>1. Sound(R) BY <1>2, RegionsTold DEF WInv, VInv
  <2>2. Need(n) \in Nat BY <1>1, NeedTyped
  <2> QED BY <2>1, <2>2, <1>1, <1>3 DEF Lodging, Roomy
<1>5. Reach(R, j, n, Memory, pc, last, backed)
  <2>1. Lodges(R, j, n) BY <1>1, <1>2, <1>4 DEF Lodges
  <2> QED BY <2>1, <1>2 DEF WInv, Reached
<1>6. Len(taken) <= Need(n)
  <2>1. PICK m : m = Memory OBVIOUS
  <2>2. m.taken = taken BY <2>1 DEF Memory
  <2>3. Len(m.taken) <= Need(n) BY <2>1, <1>4, <1>5, SitsWithin DEF Reach
  <2> QED BY <2>2, <2>3
<1> QED BY <1>2, <1>4, <1>5, <1>6

\* If low memory suffices, mblock_allocate never returns nullptr, which no caller tests.
THEOREM NeverStarved == Spec => [](LowSuffices(report) => Fed)
<1>1. WInv => (LowSuffices(report) => Fed)
  <2> SUFFICES ASSUME WInv, LowSuffices(report) PROVE Fed OBVIOUS
  <2>1. PICK R, j, n : /\ Reach(R, j, n, Memory, pc, last, backed) /\ Len(taken) <= Need(n)
    BY Enough
  <2>2. PICK m : m = Memory OBVIOUS
  <2>3. m.taken = taken /\ m.starved = starved BY <2>2 DEF Memory
  <2>4. Calm(R, j, Need(n), m) BY <2>1, <2>2 DEF Reach, Sits
  <2>5. ~ m.starved BY <2>1, <2>3, <2>4 DEF Calm
  <2> QED BY <2>3, <2>5 DEF Fed
<1> QED BY <1>1, ReachedInv, PTL

\* If low memory suffices, the page tables and the pages of the array all lie in memory that
\* is mapped one to one when map_virt_to_phy_early and the processor get at them.
THEOREM TablesReachable == Spec => [](LowSuffices(report) => TablesMapped)
<1>1. WInv => (LowSuffices(report) => TablesMapped)
  <2> SUFFICES ASSUME WInv, LowSuffices(report), pc # "low"
               PROVE  \A i \in DOMAIN taken :
                        Pfn(taken[i]) \in DOMAIN map /\ map[Pfn(taken[i])] = taken[i]
    BY DEF TablesMapped
  <2>1. PICK R, j, n : /\ R = Regions(report) /\ Lodging(R, j, n)
                       /\ Reach(R, j, n, Memory, pc, last, backed) /\ Len(taken) <= Need(n)
    BY Enough
  <2>2. PICK m : m = Memory OBVIOUS
  <2>3. m.taken = taken /\ m.starved = starved /\ m.map = map BY <2>2 DEF Memory
  <2>4. Sits(R, j, n, m, backed) /\ 0 .. LowPages - 1 \subseteq DOMAIN map
    BY <2>1, <2>2, <2>3 DEF Reach, Lowered
  <2>5. ~ starved /\ \A i \in 1 .. Len(taken) : taken[i] + PageSize <= Low
    BY <2>1, <2>3, <2>4 DEF Sits, Calm
  <2>6. taken \in Seq(Nat) /\ Fronts(R, m.entries, taken)
    BY <2>3, <2>4, <2>5 DEF Sits, MemoryInv, MemoryType
  <2>7. Straight(m, backed) BY <2>4 DEF Sits
  <2> SUFFICES ASSUME NEW i \in 1 .. Len(taken)
               PROVE  Pfn(taken[i]) \in DOMAIN map /\ map[Pfn(taken[i])] = taken[i]
    BY <2>6, LenProperties
  <2>8. PICK a \in Nat : a = taken[i] /\ Aligned(a) BY <2>6, ElementOfSeq DEF Fronts
  <2>9. PICK p \in Nat : p = Pfn(a) /\ a = p * PageSize BY <2>8, PageAt
  <2>10. PICK k \in Nat : k = LowPages /\ k * PageSize = Low /\ k <= VBase
    BY LowTyped, LowBelow
  <2>11. p < k
    <3>1. PICK P \in Nat \ {0}, L \in Nat : P = PageSize /\ L = Low /\ a + P <= L
      BY <2>5, <2>8, MemblockAssumption, VmemmapAssumption
    <3>2. a < L BY <3>1
    <3> QED BY <3>1, <3>2, <2>9, <2>10, Fewer
  <2>12. p \in DOMAIN map BY <2>4, <2>10, <2>11
  <2>13. p < VBase BY <2>10, <2>11, VmemmapAssumption
  <2>14. map[p] = p * PageSize BY <2>3, <2>7, <2>12, <2>13 DEF Straight
  <2> QED BY <2>8, <2>9, <2>12, <2>14
<1> QED BY <1>1, ReachedInv, PTL

-----------------------------------------------------------------------------
\* The entries that alloc_all_over_memory has not handed out yet.
Waiting == {j \in DOMAIN entries : Over(entries[j], Low)}

\* Regions that wear off from the front begin to wait for nothing.
LEMMA WaitingWears ==
  ASSUME NEW R, NEW n \in Nat, n = Len(R), MemoryInv(R, Memory), NEW m, MemoryInv(R, m),
         Wears(entries, m.entries, n), entries' = m.entries
  PROVE  Waiting' \subseteq Waiting
<1>1. Memory.entries = entries BY DEF Memory
<1>2. entries \in [1 .. n -> Region] /\ m.entries \in [1 .. n -> Region]
  BY <1>1 DEF MemoryInv, MemoryType
<1>3. PICK E \in [1 .. n -> Region], E2 \in [1 .. n -> Region] :
         E = entries /\ E2 = m.entries
  BY <1>2
<1>4. \A j \in 1 .. n : Over(E2[j], Low) => Over(E[j], Low) BY <1>3, WearsTyped
<1>5. Waiting = {j \in 1 .. n : Over(E[j], Low)} BY <1>3 DEF Waiting
<1>6. Waiting' = {j \in 1 .. n : Over(E2[j], Low)} BY <1>3 DEF Waiting
<1> QED BY <1>4, <1>5, <1>6

LEMMA LowWaits == ASSUME VInv, MapLow PROVE Waiting' \subseteq Waiting
<1> DEFINE f == CHOOSE f : Lowering(Memory, f)
<1>1. PICK R : R = Regions(report) OBVIOUS
<1>2. Sound(R) BY <1>1, RegionsTold DEF VInv
<1>3. MemoryInv(R, Memory) /\ Memory.tabs = {}
  <2>1. Good(R, Memory, "low", last, todo, structs, backed, freed) BY <1>1 DEF VInv, MapLow
  <2> QED BY <2>1 DEF Good, Reckons
<1>4. Lowering(Memory, f)
  <2>1. \E g : Lowering(Memory, g) BY <1>2, <1>3, LoweringExists
  <2> QED BY <2>1
<1>5. Becomes(f[LowPages]) BY DEF MapLow, Lowering
<1> HIDE DEF f
<1>6. PICK m : m = f[LowPages] OBVIOUS
<1>7. LowTo(R, Memory, m, LowPages) BY <1>2, <1>3, <1>4, <1>6, LowMaps
<1>8. MemoryInv(R, m) /\ Wears(Memory.entries, m.entries, Len(R)) BY <1>7 DEF LowTo, Grows
<1>9. PICK n \in Nat : n = Len(R) BY <1>2, LenProperties DEF Sound
<1>10. Memory.entries = entries /\ entries' = m.entries BY <1>5, <1>6 DEF Memory, Becomes
<1>11. Wears(entries, m.entries, n) BY <1>8, <1>9, <1>10
<1> QED BY <1>3, <1>8, <1>9, <1>10, <1>11, WaitingWears

\* A turn of init_sparse_vmemmap's loop takes one entry from those that wait, or is the last.
LEMMA RangeWaits ==
  ASSUME VInv, NextRange
  PROVE  Waiting' \subseteq Waiting /\ (pc' # "done" => Waiting' # Waiting)
<1>1. PICK R : R = Regions(report) OBVIOUS
<1>2. Sound(R) /\ report \in Reports BY <1>1, RegionsTold DEF VInv
<1>3. Good(R, Memory, "range", last, todo, structs, backed, freed)
  BY <1>1 DEF VInv, NextRange
<1>4. todo = <<>>
  <2>1. Stages("range", last, todo, structs, freed) BY <1>3 DEF Good
  <2> QED BY <2>1 DEF Stages
<1>5. PICK m : m = Memory OBVIOUS
<1>6. m.entries = entries BY <1>5 DEF Memory
<1>7. Good(R, m, "range", last, <<>>, structs, backed, freed) BY <1>3, <1>4, <1>5
<1>8. PICK n \in Nat : n = Len(R) BY <1>2, LenProperties DEF Sound
<1>9. PICK E \in [1 .. n -> Region] : E = entries
  <2>1. MemoryInv(R, m) BY <1>7 DEF Good
  <2> QED BY <2>1, <1>6, <1>8 DEF MemoryInv, MemoryType
<1>10. PICK i : i = FirstOver(E, Low) OBVIOUS
<1>11. Waiting = {j \in 1 .. n : Over(E[j], Low)} BY <1>9 DEF Waiting
<1>12. CASE i = 0
  <2>1. pc' = "done" /\ entries' = entries BY <1>9, <1>10, <1>12 DEF NextRange
  <2> QED BY <2>1 DEF Waiting
<1>13. CASE i # 0
  <2>1. i \in 1 .. n /\ Over(E[i], Low) BY <1>10, <1>13, FirstOverIs
  <2>2. PICK range, rem : range = HandedOut(E[i], Low) /\ rem = Remaining(E[i], Low) OBVIOUS
  <2>3. entries' = [E EXCEPT ![i] = rem] BY <1>9, <1>10, <1>13, <2>2 DEF NextRange
  <2>4. Cut(E[i], range, rem)
    BY <1>1, <1>2, <1>6, <1>7, <1>8, <1>9, <2>1, <2>2, NextCut
  <2>5. PICK E2 : E2 = [E EXCEPT ![i] = rem] OBVIOUS
  <2>6. DOMAIN E2 = 1 .. n /\ E2[i] = rem /\ \A j \in 1 .. n : j # i => E2[j] = E[j]
    BY <2>1, <2>5
  <2>7. ~ Over(E2[i], Low) BY <2>4, <2>6 DEF Cut
  <2>8. Waiting' = {j \in 1 .. n : Over(E2[j], Low)} BY <2>3, <2>5, <2>6 DEF Waiting
  <2>9. Waiting' \subseteq Waiting
    <3>1. ASSUME NEW j \in 1 .. n, Over(E2[j], Low) PROVE Over(E[j], Low)
      BY <2>6, <2>7, <3>1
    <3> QED BY <3>1, <2>8, <1>11
  <2>10. i \in Waiting /\ i \notin Waiting' BY <2>1, <2>7, <2>8, <1>11
  <2> QED BY <2>9, <2>10
<1> QED BY <1>12, <1>13

\* A turn of populate_vmemmap_range's loop writes one struct page more, of supported memory.
LEMMA PageWaits ==
  ASSUME VInv, NoHole, PopulatePage
  PROVE  /\ Waiting' \subseteq Waiting
         /\ \E p \in Nat \ structs : p * PageSize < MaxSupport /\ structs' = structs \cup {p}
<1>1. PICK R : R = Regions(report) OBVIOUS
<1>2. Sound(R) BY <1>1, RegionsTold DEF VInv
<1>3. MemoryInv(R, Memory) /\ Queue(last, todo) /\ todo # <<>> /\ pc = "page"
  <2>1. Good(R, Memory, "page", last, todo, structs, backed, freed)
    BY <1>1 DEF VInv, PopulatePage
  <2> QED BY <2>1 DEF Good, Stages, PopulatePage
<1>4. PICK h \in Piece : h = Head(todo) BY <1>3, QueueShrinks
<1>5. PICK phy \in Nat : phy = h.base /\ Aligned(phy) BY DEF Piece, Region
<1>6. PICK p \in Nat : p = Pfn(phy) /\ phy = p * PageSize BY <1>5, PageAt
<1>7. StructAt(p) + StructSize \in Nat BY StructTyped
<1>8. PICK v \in Nat : v = Pfn(StructAt(p) + StructSize) BY <1>7, PageAt
<1>9. PICK identity : identity = MapPage(Memory, p, phy) OBVIOUS
<1>10. PICK got : got = AllocatePage(identity) OBVIOUS
<1>11. PICK next : next = MapPage(got, v, got.taken[Len(got.taken)]) OBVIOUS
<1>12. /\ IF NewBacking(p) THEN Becomes(next) ELSE Becomes(identity)
       /\ structs' = structs \cup {p}
  BY <1>4, <1>5, <1>6, <1>8, <1>9, <1>10, <1>11 DEF PopulatePage
<1>13. PICK n \in Nat : n = Len(R) BY <1>2, LenProperties DEF Sound
<1>14. Memory.entries = entries BY DEF Memory
<1>15. Waiting' \subseteq Waiting
  <2>1. ASSUME NEW new \in BOOLEAN, NEW m, m = IF new THEN next ELSE identity, Becomes(m)
        PROVE  Waiting' \subseteq Waiting
    <3>1. m = IF new THEN MapPage(got, v, got.taken[Len(got.taken)]) ELSE identity
      BY <2>1, <1>11
    <3>2. Turned(R, Memory, m, p, v, new) BY <1>2, <1>3, <1>9, <1>10, <3>1, PageTurned
    <3>3. MemoryInv(R, m) /\ Wears(Memory.entries, m.entries, Len(R))
      BY <3>2 DEF Turned, Evolves, Grows
    <3>4. Wears(entries, m.entries, n) BY <3>3, <1>13, <1>14
    <3>5. entries' = m.entries BY <2>1 DEF Becomes
    <3> QED BY <1>3, <1>13, <3>3, <3>4, <3>5, WaitingWears
  <2>2. CASE NewBacking(p)
    <3>1. Becomes(next) BY <1>12, <2>2
    <3>2. next = IF TRUE THEN next ELSE identity OBVIOUS
    <3> QED BY <2>1, <3>1, <3>2
  <2>3. CASE ~ NewBacking(p)
    <3>1. Becomes(identity) BY <1>12, <2>3
    <3>2. identity = IF FALSE THEN next ELSE identity OBVIOUS
    <3> QED BY <2>1, <3>1, <3>2
  <2> QED BY <2>2, <2>3
<1>16. p \notin structs
  <2> SUFFICES ASSUME p \in structs PROVE FALSE OBVIOUS
  <2>1. p < Pfn(Head(todo).base) BY <1>3 DEF NoHole
  <2> QED BY <2>1, <1>4, <1>5, <1>6
<1>17. p * PageSize < MaxSupport
  <2>1. PICK d \in Nat, M \in Nat, P \in Nat : d = h.limit /\ M = MaxSupport /\ P = PageSize
    BY EndTyped, VmemmapAssumption, MemblockAssumption DEF Piece
  <2>2. phy + d < M BY <1>5, <2>1 DEF Piece, End
  <2> QED BY <2>1, <2>2, <1>6
<1> QED BY <1>12, <1>15, <1>16, <1>17

\* The boot code's two loops go on only while they get somewhere: no region begins to wait
\* again for alloc_all_over_memory and no struct page is taken back, each turn of the outer
\* loop but the last takes a region from those that wait, and each turn of the inner one writes
\* a struct page that was not there, for a page frame below MaxSupport.
THEOREM BootShrinks ==
  Spec => [][/\ Waiting' \subseteq Waiting /\ structs \subseteq structs'
             /\ NextRange /\ pc' # "done" => Waiting' # Waiting
             /\ PopulatePage => \E p \in Nat \ structs : /\ p * PageSize < MaxSupport
                                                         /\ structs' = structs \cup {p}]_vars
<1>1. ASSUME VInv, NoHole, Next
      PROVE  /\ Waiting' \subseteq Waiting /\ structs \subseteq structs'
             /\ NextRange /\ pc' # "done" => Waiting' # Waiting
             /\ PopulatePage => \E p \in Nat \ structs : /\ p * PageSize < MaxSupport
                                                         /\ structs' = structs \cup {p}
  <2>1. CASE MapLow
    <3>1. structs' = structs /\ pc = "low" BY <2>1 DEF MapLow
    <3>2. ~ NextRange /\ ~ PopulatePage BY <3>1 DEF NextRange, PopulatePage
    <3> QED BY <1>1, <2>1, <3>1, <3>2, LowWaits
  <2>2. CASE NextRange
    <3>1. structs' = structs /\ pc = "range" BY <2>2 DEF NextRange
    <3>2. ~ PopulatePage BY <3>1 DEF PopulatePage
    <3> QED BY <1>1, <2>2, <3>1, <3>2, RangeWaits
  <2>3. CASE PopulatePage
    <3>1. pc = "page" BY <2>3 DEF PopulatePage
    <3>2. ~ NextRange BY <3>1 DEF NextRange
    <3> QED BY <1>1, <2>3, <3>2, PageWaits
  <2>4. CASE Done
    <3>1. Waiting' = Waiting /\ structs' = structs BY <2>4 DEF Done, vars, memory, Waiting
    <3>2. pc' = pc BY <2>4 DEF Done, vars
    <3>3. ~ PopulatePage /\ (NextRange => pc = "done")
      BY <2>4 DEF Done, Fed, NextRange, PopulatePage
    <3> QED BY <3>1, <3>2, <3>3
  <2> QED BY <1>1, <2>1, <2>2, <2>3, <2>4 DEF Next
<1>2. [Next]_vars /\ VInv /\ NoHole =>
        [/\ Waiting' \subseteq Waiting /\ structs \subseteq structs'
         /\ NextRange /\ pc' # "done" => Waiting' # Waiting
         /\ PopulatePage => \E p \in Nat \ structs : /\ p * PageSize < MaxSupport
                                                     /\ structs' = structs \cup {p}]_vars
  BY <1>1
<1> QED BY <1>2, Invariance, Seamless, PTL DEF Spec
=============================================================================
