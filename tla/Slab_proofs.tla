----------------------------- MODULE Slab_proofs -----------------------------
(***************************************************************************)
(* Theorems about the slab allocator, for every number of caches and       *)
(* pages, every page size and all object sizes up to it: objects that are  *)
(* handed out never overlap, the three counters agree, and the links of a  *)
(* page lead through its free objects.                                     *)
(***************************************************************************)
EXTENDS Slab, Induction, FiniteSetTheorems, TLAPS

\* Where the objects of a cache begin in a block, and the block's bytes.
Grid(p, c) == {FirstObj(p, c) + k * ObjSize[c] : k \in 0 .. Objects(p, c) - 1}

\* What the page allocator has given is apart.
BlocksApart ==
  /\ \A b \in given : Buddy!Frames(b[1], b[2]) \subseteq Page \ free
  /\ \A b, d \in given : b # d => Buddy!Frames(b[1], b[2]) \cap Buddy!Frames(d[1], d[2]) = {}

\* A slab page begins a block of its cache's and counts what fits into it.
Slabs == \A p \in SlabPages : /\ <<p, Order>> \in given
                              /\ page[p].tot = Objects(p, page[p].slab)
                              /\ page[p].inuse <= page[p].tot

Held == \A x \in objs : \E p \in SlabPages : page[p].slab = x[2] /\ x[1] \in Grid(p, x[2])

Left(p) == page[p].tot - page[p].inuse

\* s runs through left of the addresses in G, each once, as the links lead from
\* first; past the last of them the links say nothing.
IsChain(s, left, G, links, first) ==
  /\ s \in [1 .. left -> G]
  /\ \A m, n \in 1 .. left : s[m] = s[n] => m = n
  /\ \A n \in 1 .. left - 1 : links[s[n]] = s[n + 1]
  /\ first = IF left = 0 THEN Null ELSE s[1]

\* Each slab page's free objects are such a list.
FreeList(p, s) ==
  /\ IsChain(s, Left(p), Grid(p, page[p].slab), link, page[p].freelist)
  /\ \A n \in 1 .. Left(p) : <<s[n], page[p].slab>> \notin objs
Chains == \A p \in SlabPages : \E s : FreeList(p, s)

Counts ==
  /\ IsFiniteSet(objs)
  /\ \A p \in SlabPages : page[p].inuse = Cardinality(Out(p))
  /\ \A c \in Cache :
       /\ obj_count[c] = Cardinality({x \in objs : x[2] = c})
       /\ page_count[c] = 2 * Cardinality({p \in SlabPages : page[p].slab = c})

\* A cache has one page at most, linked to itself while it has an object to give.
Linkage == \A p \in SlabPages :
            /\ partial[page[p].slab] = p
            /\ lru[p] = IF page[p].inuse = page[p].tot THEN Unlinked ELSE Alone(p)

Orderly == BlocksApart /\ Slabs /\ Held /\ Chains /\ Counts /\ Linkage

IInv == TypeOK /\ ObjectsApart /\ (strayed \/ Orderly)

-----------------------------------------------------------------------------
(* Arithmetic *)

LEMMA Between ==
  ASSUME NEW P \in Nat \ {0}, NEW q \in Nat, NEW a \in Nat, q * P <= a, a < (q + 1) * P
  PROVE  a \div P = q
<1> DEFINE d == a \div P
<1>1. d \in Nat /\ P * d <= a /\ a < P * (d + 1) OBVIOUS
<1> HIDE DEF d
<1>2. ASSUME d < q PROVE FALSE
  <2>1. P * (d + 1) <= P * q BY <1>1, <1>2
  <2> QED BY <1>1, <2>1
<1>3. ASSUME q < d PROVE FALSE
  <2>1. P * (q + 1) <= P * d BY <1>1, <1>3
  <2> QED BY <1>1, <2>1
<1>4. d = q BY <1>1, <1>2, <1>3
<1> QED BY <1>4 DEF d

\* A multiple of a larger number is larger by at least one summand.
LEMMA Step ==
  ASSUME NEW S \in Nat \ {0}, NEW i \in Nat, NEW j \in Nat, i < j
  PROVE  i * S + S <= j * S /\ i * S \in Nat /\ j * S \in Nat
<1> DEFINE e == j - i - 1
<1>1. e \in Nat /\ j = i + 1 + e OBVIOUS
<1>2. j * S = i * S + S + e * S BY <1>1
<1>3. e * S \in Nat /\ i * S \in Nat /\ j * S \in Nat BY <1>1
<1> QED BY <1>2, <1>3

LEMMA Sizes == /\ PageSize \in Nat \ {0} /\ NPages \in Nat
               /\ \A c \in Cache : ObjSize[c] \in Nat \ {0} /\ ObjSize[c] <= PageSize
<1>1. PageSize \in Nat \ {0} /\ NPages \in Nat BY PageAssumption
<1>2. \A c \in Cache : ObjSize[c] \in 1 .. PageSize BY CacheAssumption
<1> QED BY <1>1, <1>2

\* The first object begins less than its size behind the block's beginning.
LEMMA First ==
  ASSUME NEW c \in Cache, NEW p \in Nat
  PROVE  /\ FirstObj(p, c) \in Nat /\ p * PageSize \in Nat
         /\ p * PageSize <= FirstObj(p, c) /\ FirstObj(p, c) < p * PageSize + ObjSize[c]
         /\ Limit(p) = p * PageSize + 2 * PageSize
<1> DEFINE va == p * PageSize  S == ObjSize[c]
<1>1. S \in Nat \ {0} /\ va \in Nat /\ PageSize \in Nat BY Sizes
<1>2. Limit(p) = va + 2 * PageSize BY <1>1 DEF Limit
<1> HIDE DEF va, S
<1>3. va % S \in 0 .. S - 1 BY <1>1
<1>4. FirstObj(p, c) = IF va % S = 0 THEN va ELSE va + (S - (va % S)) BY DEF FirstObj, va, S
<1>5. FirstObj(p, c) \in Nat /\ va <= FirstObj(p, c) /\ FirstObj(p, c) < va + S
  BY <1>1, <1>3, <1>4
<1> QED BY <1>1, <1>2, <1>5 DEF va, S

\* Objects counts the objects that end before the limit.
LEMMA Capacity ==
  ASSUME NEW c \in Cache, NEW p \in Nat
  PROVE  /\ Objects(p, c) \in Nat \ {0}
         /\ \A k \in 0 .. Objects(p, c) : FirstObj(p, c) + k * ObjSize[c] < Limit(p)
<1> DEFINE S == ObjSize[c]  F == FirstObj(p, c)  room == Limit(p) - F - 1
           m == room \div S
           N == 2 * PageSize
           Fits == {k \in 1 .. N : F + k * S < Limit(p)}
<1>1. /\ S \in Nat \ {0} /\ S <= PageSize /\ PageSize \in Nat \ {0}
      /\ F \in Nat /\ Limit(p) \in Nat /\ room \in Nat
      /\ S <= room /\ room < N
  BY Sizes, First
<1> HIDE DEF S, F, room
<1>2. m \in Nat /\ m * S <= room /\ room < m * S + S BY <1>1
<1>3. m >= 1
  <2>1. ASSUME m = 0 PROVE FALSE BY <1>1, <1>2, <2>1
  <2> QED BY <1>2, <2>1
<1>4. m <= room
  <2>1. m <= m * S BY <1>1, <1>2
  <2>2. m * S \in Nat BY <1>1, <1>2
  <2> QED BY <1>1, <1>2, <2>1, <2>2
<1> HIDE DEF m
<1>5. \A k \in Nat : k * S <= room <=> k <= m
  <2> SUFFICES ASSUME NEW k \in Nat PROVE k * S <= room <=> k <= m OBVIOUS
  <2>1. CASE k = m BY <1>2, <2>1
  <2>2. CASE k < m BY <1>1, <1>2, <2>2, Step
  <2>3. CASE m < k BY <1>1, <1>2, <2>3, Step
  <2> QED BY <1>2, <2>1, <2>2, <2>3
<1>6. \A k \in Nat : k * S \in Nat /\ (F + k * S < Limit(p) <=> k * S <= room)
  <2> SUFFICES ASSUME NEW k \in Nat
               PROVE  k * S \in Nat /\ (F + k * S < Limit(p) <=> k * S <= room)
    OBVIOUS
  <2>1. k * S \in Nat BY <1>1
  <2> QED BY <1>1, <2>1 DEF room
<1>7. Fits = 1 .. m BY <1>1, <1>2, <1>4, <1>5, <1>6
<1>8. Cardinality(1 .. m) = m BY <1>2, <1>3, FS_Interval
<1>9. Objects(p, c) = m BY <1>7, <1>8 DEF Objects, S, F
<1> QED BY <1>2, <1>3, <1>5, <1>6, <1>9 DEF S, F

-----------------------------------------------------------------------------
(* Objects and blocks *)

LEMMA FramesOf ==
  ASSUME NEW p \in Nat
  PROVE  Buddy!Frames(p, Order) = p .. p + 1 /\ Buddy!Frames(p, 0) = {p}
<1>1. /\ [o \in 0 .. 2 |-> <<1, 2, 4>>[o + 1]][0] = 1
      /\ [o \in 0 .. 2 |-> <<1, 2, 4>>[o + 1]][1] = 2
  OBVIOUS
<1>2. Buddy!Frames(p, Order) = p .. (p + 2 - 1) /\ Buddy!Frames(p, 0) = p .. (p + 1 - 1)
  BY <1>1 DEF Buddy!Frames, Order
<1> QED BY <1>2

\* An object lies in its block, and begins in one of the block's pages.
LEMMA GridInBlock ==
  ASSUME NEW c \in Cache, NEW p \in Nat, NEW a \in Grid(p, c)
  PROVE  /\ a \in Nat /\ p * PageSize \in Nat /\ Limit(p) = p * PageSize + 2 * PageSize
         /\ p * PageSize <= a /\ a + ObjSize[c] < Limit(p)
         /\ PageOf(a) \in {p, p + 1}
<1> DEFINE S == ObjSize[c]  F == FirstObj(p, c)
<1>1. S \in Nat \ {0} /\ PageSize \in Nat \ {0} /\ F \in Nat BY Sizes, First
<1>2. Objects(p, c) \in Nat /\ \A k \in 0 .. Objects(p, c) : F + k * S < Limit(p) BY Capacity
<1> HIDE DEF S, F
<1>3. PICK k \in 0 .. Objects(p, c) - 1 : a = F + k * S BY DEF Grid, S, F
<1>4. k \in Nat /\ k + 1 \in 0 .. Objects(p, c) BY <1>2, <1>3
<1>5. k * S \in Nat /\ (k + 1) * S = k * S + S BY <1>1, <1>4
<1>6. F + (k + 1) * S < Limit(p) BY <1>2, <1>4
<1>7. /\ p * PageSize \in Nat /\ p * PageSize <= F /\ Limit(p) = p * PageSize + 2 * PageSize
  BY First DEF F
<1>8. a \in Nat /\ p * PageSize <= a /\ a + S < Limit(p)
  BY <1>1, <1>3, <1>5, <1>6, <1>7
<1>9. (p + 1) * PageSize = p * PageSize + PageSize
      /\ (p + 1 + 1) * PageSize = p * PageSize + 2 * PageSize
  BY <1>1
<1>10. CASE a < (p + 1) * PageSize
  <2>1. a \div PageSize = p BY <1>1, <1>8, <1>10, Between
  <2> QED BY <1>7, <1>8, <2>1 DEF PageOf, S
<1>11. CASE ~(a < (p + 1) * PageSize)
  <2>1. a < (p + 1 + 1) * PageSize /\ (p + 1) * PageSize <= a
    BY <1>1, <1>7, <1>8, <1>9, <1>11
  <2>2. a \div PageSize = p + 1 BY <1>1, <1>8, <2>1, Between
  <2> QED BY <1>7, <1>8, <2>2 DEF PageOf, S
<1> QED BY <1>10, <1>11

\* Different objects of a block do not overlap.
LEMMA GridApart ==
  ASSUME NEW c \in Cache, NEW p \in Nat, NEW a \in Grid(p, c), NEW b \in Grid(p, c), a # b
  PROVE  a + ObjSize[c] <= b \/ b + ObjSize[c] <= a
<1> DEFINE S == ObjSize[c]  F == FirstObj(p, c)
<1>1. S \in Nat \ {0} /\ F \in Nat /\ Objects(p, c) \in Nat BY Sizes, First, Capacity
<1> HIDE DEF S, F
<1>2. PICK i \in 0 .. Objects(p, c) - 1 : a = F + i * S BY DEF Grid, S, F
<1>3. PICK j \in 0 .. Objects(p, c) - 1 : b = F + j * S BY DEF Grid, S, F
<1>4. i \in Nat /\ j \in Nat /\ i # j BY <1>1, <1>2, <1>3
<1>5. CASE i < j
  <2>1. i * S + S <= j * S /\ i * S \in Nat /\ j * S \in Nat BY <1>1, <1>4, <1>5, Step
  <2> QED BY <1>1, <1>2, <1>3, <2>1 DEF S
<1>6. CASE j < i
  <2>1. j * S + S <= i * S /\ i * S \in Nat /\ j * S \in Nat BY <1>1, <1>4, <1>6, Step
  <2> QED BY <1>1, <1>2, <1>3, <2>1 DEF S
<1> QED BY <1>4, <1>5, <1>6

\* A block's bytes are addresses, and blocks of other pages have other bytes.
LEMMA LimitInRange ==
  ASSUME NEW p \in Nat, p + 1 \in Page
  PROVE  Limit(p) <= NPages * PageSize /\ Limit(p) \in Nat /\ NPages * PageSize \in Nat
<1>1. PageSize \in Nat /\ NPages \in Nat /\ p + 2 <= NPages BY Sizes DEF Page
<1>2. PICK e \in Nat : NPages = p + 2 + e
  <2>1. NPages - p - 2 \in Nat /\ NPages = p + 2 + (NPages - p - 2) BY <1>1
  <2> QED BY <2>1
<1>3. NPages * PageSize = (p + 2) * PageSize + e * PageSize
  BY <1>1, <1>2
<1>4. e * PageSize \in Nat /\ (p + 2) * PageSize \in Nat BY <1>1, <1>2
<1> QED BY <1>3, <1>4 DEF Limit

LEMMA LimitBelow ==
  ASSUME NEW p \in Nat, NEW q \in Nat, p + 1 < q
  PROVE  Limit(p) <= q * PageSize /\ q * PageSize \in Nat /\ Limit(p) \in Nat
<1>1. PageSize \in Nat BY Sizes
<1>2. PICK e \in Nat : q = p + 2 + e
  <2>1. q - p - 2 \in Nat /\ q = p + 2 + (q - p - 2) OBVIOUS
  <2> QED BY <2>1
<1>3. q * PageSize = (p + 2) * PageSize + e * PageSize BY <1>1, <1>2
<1>4. e * PageSize \in Nat /\ (p + 2) * PageSize \in Nat BY <1>1, <1>2
<1> QED BY <1>3, <1>4 DEF Limit

\* The pages of a slab, and those of two slabs.
LEMMA SlabBlock ==
  ASSUME BlocksApart, Slabs, NEW p \in SlabPages
  PROVE  /\ p \in Nat /\ p \in Page /\ p + 1 \in Page /\ p \notin free /\ p + 1 \notin free
         /\ p + 1 \notin SlabPages
         /\ \A q \in SlabPages : q # p => p + 1 < q \/ q + 1 < p
<1>1. Page \subseteq Nat BY Sizes DEF Page
<1>2. ASSUME NEW q \in SlabPages
      PROVE  q \in Page /\ q \in Nat /\ <<q, Order>> \in given /\ Buddy!Frames(q, Order) = q .. q + 1
  BY <1>1, <1>2, FramesOf DEF Slabs, SlabPages
<1>3. ASSUME NEW q \in SlabPages PROVE q .. q + 1 \subseteq Page \ free
  <2> DEFINE b == <<q, Order>>
  <2>1. b \in given /\ b[1] = q /\ b[2] = Order BY <1>2
  <2> HIDE DEF b
  <2> QED BY <1>2, <2>1 DEF BlocksApart
<1>4. ASSUME NEW q \in SlabPages, NEW r \in SlabPages, q # r
      PROVE  q .. q + 1 \cap r .. r + 1 = {}
  <2> DEFINE b == <<q, Order>>  d == <<r, Order>>
  <2>1. b \in given /\ b[1] = q /\ b[2] = Order BY <1>2
  <2>2. d \in given /\ d[1] = r /\ d[2] = Order BY <1>2
  <2>3. b # d BY <1>4
  <2> HIDE DEF b, d
  <2>4. Buddy!Frames(q, Order) \cap Buddy!Frames(r, Order) = {}
    BY <2>1, <2>2, <2>3 DEF BlocksApart
  <2> QED BY <1>2, <2>4
<1>5. /\ p \in Nat /\ p \in Page /\ p + 1 \in Page /\ p \notin free /\ p + 1 \notin free
  <2>1. p \in Nat /\ p .. p + 1 \subseteq Page \ free BY <1>2, <1>3
  <2>2. p \in p .. p + 1 /\ p + 1 \in p .. p + 1 BY <2>1
  <2> QED BY <2>1, <2>2
<1>6. ASSUME NEW q \in SlabPages, q # p PROVE p + 1 < q \/ q + 1 < p
  <2>1. q \in Nat /\ p \in Nat BY <1>2
  <2>2. p \notin q .. q + 1 /\ q \notin p .. p + 1 BY <1>4, <1>6, <2>1
  <2> QED BY <2>1, <2>2
<1>7. p + 1 \notin SlabPages BY <1>5, <1>6
<1> QED BY <1>5, <1>6, <1>7

\* An object's block is the one that its first byte lies in.
LEMMA Owner ==
  ASSUME TypeOK, BlocksApart, Slabs, Held, NEW p \in SlabPages, NEW x \in objs
  PROVE  PageOf(x[1]) \in {p, p + 1} <=> page[p].slab = x[2] /\ x[1] \in Grid(p, x[2])
<1>1. x[2] \in Cache BY DEF TypeOK
<1>2. PICK q \in SlabPages : page[q].slab = x[2] /\ x[1] \in Grid(q, x[2]) BY DEF Held
<1>3. q \in Nat /\ p \in Nat BY SlabBlock
<1>4. PageOf(x[1]) \in {q, q + 1} BY <1>1, <1>2, <1>3, GridInBlock
<1>5. q # p => p + 1 < q \/ q + 1 < p BY SlabBlock
<1>6. PageOf(x[1]) \in {p, p + 1} => p = q BY <1>3, <1>4, <1>5
<1>7. x[1] \in Grid(p, x[2]) => PageOf(x[1]) \in {p, p + 1} BY <1>1, <1>3, GridInBlock
<1> QED BY <1>2, <1>6, <1>7

LEMMA Disjoint == ASSUME TypeOK, BlocksApart, Slabs, Held PROVE ObjectsApart
<1>1. ASSUME NEW x \in objs
      PROVE  \E p \in SlabPages : /\ page[p].slab = x[2] /\ <<p, Order>> \in given
                                  /\ p \in Nat /\ x[1] \in Grid(p, x[2])
                                  /\ Bytes(x) \subseteq p * PageSize .. Limit(p) - 1
  <2>1. x[2] \in Cache BY DEF TypeOK
  <2>2. PICK p \in SlabPages : page[p].slab = x[2] /\ x[1] \in Grid(p, x[2]) BY DEF Held
  <2>3. p \in Nat /\ <<p, Order>> \in given BY SlabBlock DEF Slabs
  <2>4. /\ x[1] \in Nat /\ p * PageSize \in Nat /\ Limit(p) \in Nat
        /\ p * PageSize <= x[1] /\ x[1] + ObjSize[x[2]] < Limit(p)
    BY <2>1, <2>2, <2>3, GridInBlock, Sizes
  <2>5. ObjSize[x[2]] \in Nat BY <2>1, Sizes
  <2>6. Bytes(x) \subseteq p * PageSize .. Limit(p) - 1 BY <2>4, <2>5 DEF Bytes
  <2> QED BY <2>2, <2>3, <2>6
<1>2. ASSUME NEW x \in objs, NEW y \in objs, x # y PROVE Bytes(x) \cap Bytes(y) = {}
  <2>1. x[2] \in Cache /\ y[2] \in Cache /\ x[1] \in Nat /\ y[1] \in Nat
        /\ x = <<x[1], x[2]>> /\ y = <<y[1], y[2]>>
    BY Sizes DEF TypeOK, Addr
  <2>2. ObjSize[x[2]] \in Nat /\ ObjSize[y[2]] \in Nat BY <2>1, Sizes
  <2>3. PICK p \in SlabPages : /\ page[p].slab = x[2] /\ p \in Nat /\ x[1] \in Grid(p, x[2])
                               /\ Bytes(x) \subseteq p * PageSize .. Limit(p) - 1
    BY <1>1
  <2>4. PICK q \in SlabPages : /\ page[q].slab = y[2] /\ q \in Nat /\ y[1] \in Grid(q, y[2])
                               /\ Bytes(y) \subseteq q * PageSize .. Limit(q) - 1
    BY <1>1
  <2>5. CASE p = q
    <3>1. x[2] = y[2] /\ x[1] # y[1] BY <1>2, <2>1, <2>3, <2>4, <2>5
    <3>2. x[1] + ObjSize[x[2]] <= y[1] \/ y[1] + ObjSize[y[2]] <= x[1]
      BY <2>1, <2>3, <2>4, <2>5, <3>1, GridApart
    <3> QED BY <2>1, <2>2, <3>2 DEF Bytes
  <2>6. CASE p + 1 < q
    <3>1. Limit(p) <= q * PageSize /\ q * PageSize \in Nat /\ Limit(p) \in Nat
      BY <2>3, <2>4, <2>6, LimitBelow
    <3> QED BY <2>3, <2>4, <3>1
  <2>7. CASE q + 1 < p
    <3>1. Limit(q) <= p * PageSize /\ p * PageSize \in Nat /\ Limit(q) \in Nat
      BY <2>3, <2>4, <2>7, LimitBelow
    <3> QED BY <2>3, <2>4, <3>1
  <2> QED BY <2>5, <2>6, <2>7, SlabBlock
<1> QED BY <1>1, <1>2 DEF ObjectsApart

-----------------------------------------------------------------------------
(* Lists of free objects *)

LEMMA ChainTail ==
  ASSUME NEW G, NEW left \in Nat \ {0}, NEW s, NEW links, NEW first,
         IsChain(s, left, G, links, first)
  PROVE  \E t : /\ IsChain(t, left - 1, G, links, IF left = 1 THEN Null ELSE links[s[1]])
               /\ \A n \in 1 .. left - 1 : t[n] # s[1] /\ \E m \in 1 .. left : t[n] = s[m]
<1> DEFINE t == [n \in 1 .. left - 1 |-> s[n + 1]]
<1>1. \A n \in 1 .. left - 1 : n + 1 \in 1 .. left /\ t[n] = s[n + 1] OBVIOUS
<1>2. 1 \in 1 .. left OBVIOUS
<1>3. t \in [1 .. left - 1 -> G] BY <1>1 DEF IsChain
<1>4. \A m, n \in 1 .. left - 1 : t[m] = t[n] => m = n BY <1>1 DEF IsChain
<1>5. \A n \in 1 .. (left - 1) - 1 : links[t[n]] = t[n + 1]
  <2> SUFFICES ASSUME NEW n \in 1 .. (left - 1) - 1 PROVE links[t[n]] = t[n + 1] OBVIOUS
  <2>1. n \in 1 .. left - 1 /\ n + 1 \in 1 .. left - 1 OBVIOUS
  <2>2. t[n] = s[n + 1] /\ t[n + 1] = s[n + 1 + 1] BY <2>1, <1>1
  <2>3. links[s[n + 1]] = s[n + 1 + 1] BY <2>1 DEF IsChain
  <2> QED BY <2>2, <2>3
<1>6. left # 1 => links[s[1]] = t[1] BY <1>1 DEF IsChain
<1>7. \A n \in 1 .. left - 1 : t[n] # s[1] /\ \E m \in 1 .. left : t[n] = s[m]
  BY <1>1, <1>2 DEF IsChain
<1> HIDE DEF t
<1>8. IsChain(t, left - 1, G, links, IF left = 1 THEN Null ELSE links[s[1]])
  BY <1>3, <1>4, <1>5, <1>6 DEF IsChain
<1> QED BY <1>7, <1>8

\* links2 leads from a to the list that links has.
Pushed(s, left, G, links, first, links2, a) ==
  /\ left \in Nat /\ a \in G /\ IsChain(s, left, G, links, first)
  /\ \A n \in 1 .. left : s[n] # a
  /\ links2[a] = first /\ \A b \in G : b # a => links2[b] = links[b]

\* t is such a list of one more: a and what s has.
IsLonger(t, s, left, G, links2, a) ==
  /\ IsChain(t, left + 1, G, links2, a)
  /\ \A n \in 1 .. left + 1 : t[n] = a \/ \E m \in 1 .. left : t[n] = s[m]

LEMMA ChainPush ==
  ASSUME NEW G, NEW left, NEW s, NEW links, NEW links2, NEW first, NEW a,
         Pushed(s, left, G, links, first, links2, a)
  PROVE  \E t : IsLonger(t, s, left, G, links2, a)
<1> USE DEF Pushed
<1> DEFINE t == [n \in 1 .. left + 1 |-> IF n = 1 THEN a ELSE s[n - 1]]
<1>1. \A n \in 2 .. left + 1 : n - 1 \in 1 .. left /\ t[n] = s[n - 1] OBVIOUS
<1>2. t[1] = a /\ \A n \in 1 .. left + 1 : n = 1 \/ n \in 2 .. left + 1 OBVIOUS
<1>3. t \in [1 .. left + 1 -> G] BY <1>1, <1>2 DEF IsChain
<1>4. \A m, n \in 1 .. left + 1 : t[m] = t[n] => m = n
  <2>1. \A m, n \in 2 .. left + 1 : t[m] = t[n] => m = n BY <1>1 DEF IsChain
  <2>2. \A n \in 2 .. left + 1 : t[n] # a BY <1>1
  <2> HIDE DEF t
  <2> QED BY <1>2, <2>1, <2>2
<1>5. \A n \in 1 .. left : links2[t[n]] = t[n + 1]
  <2> SUFFICES ASSUME NEW n \in 1 .. left PROVE links2[t[n]] = t[n + 1] OBVIOUS
  <2>1. n + 1 \in 2 .. left + 1 /\ t[n + 1] = s[n] OBVIOUS
  <2>2. CASE n = 1
    <3>1. first = s[1] BY <2>2 DEF IsChain
    <3> HIDE DEF t
    <3> QED BY <1>2, <2>1, <2>2, <3>1
  <2>3. CASE n # 1
    <3>1. n \in 2 .. left + 1 /\ n - 1 \in 1 .. left - 1 /\ n - 1 \in 1 .. left BY <2>3
    <3>2. t[n] = s[n - 1] BY <3>1, <1>1
    <3> HIDE DEF t
    <3>3. s[n - 1] \in G /\ s[n - 1] # a BY <3>1 DEF IsChain
    <3>4. links[s[n - 1]] = s[n - 1 + 1] BY <3>1 DEF IsChain
    <3> QED BY <2>1, <3>2, <3>3, <3>4
  <2> QED BY <2>2, <2>3
<1>8. \A n \in 1 .. left + 1 : t[n] = a \/ \E m \in 1 .. left : t[n] = s[m] BY <1>1, <1>2
<1> HIDE DEF t
<1>6. (left + 1) - 1 = left /\ left + 1 # 0 OBVIOUS
<1>7. IsChain(t, left + 1, G, links2, a) BY <1>2, <1>3, <1>4, <1>5, <1>6 DEF IsChain
<1>9. IsLonger(t, s, left, G, links2, a) BY <1>7, <1>8 DEF IsLonger
<1> QED BY <1>9

\* What init_slab_page_freelist leaves is such a list of all objects.
LEMMA ChainNew ==
  ASSUME NEW c \in Cache, NEW p \in Nat, p + 1 \in Page
  PROVE  IsChain([n \in 1 .. Objects(p, c) |-> FirstObj(p, c) + (n - 1) * ObjSize[c]],
                 Objects(p, c), Grid(p, c), Linked(p, c), FirstObj(p, c))
<1> DEFINE S == ObjSize[c]  F == FirstObj(p, c)  N == Objects(p, c)
           s == [n \in 1 .. N |-> F + (n - 1) * S]
<1>1. /\ S \in Nat \ {0} /\ F \in Nat /\ N \in Nat \ {0}
      /\ \A k \in 0 .. N : F + k * S < Limit(p)
  BY Sizes, First, Capacity
<1>2. Limit(p) <= NPages * PageSize /\ Limit(p) \in Nat /\ NPages * PageSize \in Nat
  BY LimitInRange
<1>3. Grid(p, c) = {F + k * S : k \in 0 .. N - 1} BY DEF Grid
<1>4. Linked(p, c) = [a \in Addr |-> IF \E k \in 0 .. N - 1 : a = F + k * S
                                     THEN a + S ELSE link[a]]
  BY DEF Linked
<1> HIDE DEF S, F, N
<1>5. \A n \in 1 .. N : n - 1 \in 0 .. N - 1 /\ s[n] = F + (n - 1) * S BY <1>1
<1>6. s \in [1 .. N -> Grid(p, c)] BY <1>1, <1>3, <1>5
<1>7. \A k \in 0 .. N - 1 : F + k * S \in Addr
  <2> SUFFICES ASSUME NEW k \in 0 .. N - 1 PROVE F + k * S \in Addr OBVIOUS
  <2>1. k \in Nat /\ k \in 0 .. N BY <1>1
  <2>2. k * S \in Nat BY <1>1, <2>1
  <2> QED BY <1>1, <1>2, <2>1, <2>2 DEF Addr
<1>8. ASSUME NEW m \in 1 .. N, NEW n \in 1 .. N, s[m] = s[n] PROVE m = n
  <2>1. m - 1 \in Nat /\ n - 1 \in Nat BY <1>1
  <2>2. (m - 1) * S = (n - 1) * S
    <3>1. (m - 1) * S \in Nat /\ (n - 1) * S \in Nat BY <1>1, <2>1
    <3> QED BY <1>1, <1>5, <1>8, <3>1
  <2>3. ~(m - 1 < n - 1)
    <3>1. m - 1 < n - 1 => (m - 1) * S + S <= (n - 1) * S /\ (m - 1) * S \in Nat
      BY <1>1, <2>1, Step
    <3> QED BY <1>1, <2>2, <3>1
  <2>4. ~(n - 1 < m - 1)
    <3>1. n - 1 < m - 1 => (n - 1) * S + S <= (m - 1) * S /\ (n - 1) * S \in Nat
      BY <1>1, <2>1, Step
    <3> QED BY <1>1, <2>2, <3>1
  <2> QED BY <2>1, <2>3, <2>4
<1>9. ASSUME NEW n \in 1 .. N - 1 PROVE Linked(p, c)[s[n]] = s[n + 1]
  <2>1. /\ n \in 1 .. N /\ n + 1 \in 1 .. N /\ n - 1 \in 0 .. N - 1
        /\ n \in Nat /\ n - 1 \in Nat
    BY <1>1
  <2>2. s[n] = F + (n - 1) * S /\ s[n + 1] = F + n * S BY <1>5, <2>1
  <2>3. s[n] \in Addr BY <1>7, <2>1, <2>2
  <2> HIDE DEF s
  <2>4. Linked(p, c)[s[n]] = s[n] + S BY <1>4, <2>1, <2>2, <2>3
  <2>5. n * S = (n - 1) * S + S /\ (n - 1) * S \in Nat
    <3>1. \A j \in Nat : (j + 1) * S = j * S + S /\ j * S \in Nat BY <1>1
    <3> QED BY <2>1, <3>1
  <2> QED BY <1>1, <2>2, <2>4, <2>5
<1>10. F = s[1] BY <1>1
<1> HIDE DEF s
<1>11. IsChain(s, N, Grid(p, c), Linked(p, c), F)
  BY <1>1, <1>6, <1>8, <1>9, <1>10 DEF IsChain
<1> QED BY <1>11 DEF s, S, F, N

\* Links outside a list's addresses do not matter to it.
LEMMA ChainFrame ==
  ASSUME NEW G, NEW left \in Nat, NEW s, NEW links, NEW links2, NEW first,
         IsChain(s, left, G, links, first), \A b \in G : links2[b] = links[b]
  PROVE  IsChain(s, left, G, links2, first)
<1>1. \A n \in 1 .. left - 1 : n \in 1 .. left OBVIOUS
<1> QED BY <1>1 DEF IsChain

-----------------------------------------------------------------------------
(* Calls of the page allocator *)

LEMMA AllocApart ==
  ASSUME BlocksApart, TypeOK, NEW o \in {0, Order}, Buddy!Alloc(o)
  PROVE  BlocksApart' /\ free' \subseteq Page /\ given' \subseteq Page \X {0, Order}
<1>1. PICK p \in Buddy!FreeBlocks(o) : /\ free' = free \ Buddy!Frames(p, o)
                                       /\ given' = given \cup {<<p, o>>}
  BY DEF Buddy!Alloc
<1>2. p \in free /\ Buddy!Frames(p, o) \subseteq free BY DEF Buddy!FreeBlocks
<1>3. free \subseteq Page /\ given \subseteq Page \X {0, Order} BY DEF TypeOK
<1> DEFINE e == <<p, o>>
<1>4. e[1] = p /\ e[2] = o /\ given' = given \cup {e} BY <1>1
<1> HIDE DEF e
<1>5. \A b \in given' : Buddy!Frames(b[1], b[2]) \subseteq Page \ free'
  BY <1>1, <1>2, <1>3, <1>4 DEF BlocksApart
<1>6. \A b \in given : Buddy!Frames(b[1], b[2]) \cap Buddy!Frames(p, o) = {}
  BY <1>2 DEF BlocksApart
<1>7. \A b, d \in given' : b # d =>
         Buddy!Frames(b[1], b[2]) \cap Buddy!Frames(d[1], d[2]) = {}
  BY <1>4, <1>6 DEF BlocksApart
<1>8. free' \subseteq Page /\ given' \subseteq Page \X {0, Order} BY <1>1, <1>2, <1>3
<1>9. BlocksApart' BY <1>5, <1>7 DEF BlocksApart
<1> QED BY <1>8, <1>9

LEMMA FreeApart ==
  ASSUME BlocksApart, TypeOK, NEW b \in given, Buddy!Free(b)
  PROVE  BlocksApart' /\ free' \subseteq Page /\ given' \subseteq Page \X {0, Order}
<1>1. given' = given \ {b} /\ free' = free \cup Buddy!Frames(b[1], b[2]) BY DEF Buddy!Free
<1>2. free \subseteq Page /\ given \subseteq Page \X {0, Order} BY DEF TypeOK
<1>3. Buddy!Frames(b[1], b[2]) \subseteq Page BY DEF BlocksApart
<1>4. \A d \in given' : Buddy!Frames(d[1], d[2]) \subseteq Page \ free'
  BY <1>1 DEF BlocksApart
<1>5. \A d, e \in given' : d # e =>
         Buddy!Frames(d[1], d[2]) \cap Buddy!Frames(e[1], e[2]) = {}
  BY <1>1 DEF BlocksApart
<1>6. BlocksApart' BY <1>4, <1>5 DEF BlocksApart
<1> QED BY <1>1, <1>2, <1>3, <1>6

-----------------------------------------------------------------------------
(* The links of a page that is in no list but its own *)

LEMMA MadeAlone ==
  ASSUME NEW l \in Links(Page), NEW p \in Page
  PROVE  /\ ListHeadInit(l, p) \in Links(Page) /\ ListHeadInit(l, p)[p] = Alone(p)
         /\ \A q \in Page : q # p => ListHeadInit(l, p)[q] = l[q]
BY DEF ListHeadInit, Links, Alone

LEMMA Cut ==
  ASSUME NEW l \in Links(Page), NEW p \in Page, l[p] = Alone(p)
  PROVE  /\ ListDel(l, p) \in Links(Page) /\ ListDel(l, p)[p] = Unlinked
         /\ \A q \in Page : q # p => ListDel(l, p)[q] = l[q]
<1>1. l[p].prev = p /\ l[p].next = p BY DEF Alone
<1> QED BY <1>1 DEF ListDel, Links, Unlinked

\* list_add_after with null links: the store through the null one is no page's.
LEMMA LinkedAgain ==
  ASSUME NEW l \in Links(Page), NEW p \in Page, l[p] = Unlinked
  PROVE  /\ ListAddAfter(l, p, p) \in Links(Page) /\ ListAddAfter(l, p, p)[p] = Alone(p)
         /\ \A q \in Page : q # p => ListAddAfter(l, p, p)[q] = l[q]
<1>1. l[p].next = Null BY DEF Unlinked
<1>2. Null \notin Page
  <2>1. Page \subseteq 0 .. NPages * PageSize BY PageAssumption DEF Page
  <2> QED BY <2>1, NullAssumption
<1> QED BY <1>1, <1>2 DEF ListAddAfter, Links, Alone

-----------------------------------------------------------------------------
LEMMA SlabNotNull == \A q \in SlabPages : q # Null
<1>1. Page \subseteq 0 .. NPages * PageSize BY PageAssumption DEF Page
<1> QED BY <1>1, NullAssumption DEF SlabPages

LEMMA PagesFinite == IsFiniteSet(SlabPages)
<1>1. IsFiniteSet(Page) BY Sizes, FS_Interval DEF Page
<1> QED BY <1>1, FS_Subset DEF SlabPages

LEMMA InitOK == Init => IInv
<1> SUFFICES ASSUME Init PROVE IInv OBVIOUS
<1> USE DEF Init
<1>1. SlabPages = {} BY DEF SlabPages, NoPage
<1>2. TypeOK BY DEF TypeOK, NoPage, Links, Unlinked
<1>3. BlocksApart /\ Slabs /\ Held /\ Chains BY <1>1 DEF BlocksApart, Slabs, Held, Chains
<1>4. Counts
  <2>1. {x \in objs : TRUE} = {} OBVIOUS
  <2>2. \A c \in Cache : {x \in objs : x[2] = c} = {} /\ {p \in SlabPages : page[p].slab = c} = {}
    BY <1>1
  <2> QED BY <1>1, <2>2, FS_EmptySet DEF Counts
<1>5. ObjectsApart BY <1>2, <1>3, Disjoint
<1>6. Linkage BY <1>1 DEF Linkage
<1> QED BY <1>2, <1>3, <1>4, <1>5, <1>6 DEF IInv, Orderly

\* Nothing but the page allocator's state changes.
LEMMA PagesOnly ==
  ASSUME IInv, ~strayed, BlocksApart', free' \subseteq Page, given' \subseteq Page \X {0, Order},
         UNCHANGED <<partial, obj_count, page_count, page, lru, link, objs, strayed>>,
         \A p \in SlabPages : <<p, Order>> \in given'
  PROVE  IInv'
<1> USE DEF IInv, Orderly
<1>0. SlabPages' = SlabPages BY DEF SlabPages
<1>1. TypeOK' BY DEF TypeOK
<1>2. Slabs' BY <1>0 DEF Slabs
<1>3. Held' BY <1>0 DEF Held
<1>4. Chains' BY <1>0 DEF Chains, FreeList, Left
<1>5. Counts' BY <1>0 DEF Counts, Out
<1>6. ObjectsApart' BY <1>0 DEF ObjectsApart
<1>7. Linkage' BY <1>0 DEF Linkage
<1> QED BY <1>1, <1>2, <1>3, <1>4, <1>5, <1>6, <1>7

LEMMA KmallocPageStep == ASSUME IInv, ~strayed, kmalloc_page PROVE IInv'
<1>1. BlocksApart' /\ free' \subseteq Page /\ given' \subseteq Page \X {0, Order}
  BY AllocApart DEF IInv, Orderly, kmalloc_page
<1>2. \A p \in SlabPages : <<p, Order>> \in given'
  BY DEF kmalloc_page, Buddy!Alloc, IInv, Orderly, Slabs
<1> QED BY <1>1, <1>2, PagesOnly DEF kmalloc_page

LEMMA KfreePageStep == ASSUME IInv, ~strayed, kfree_page PROVE IInv'
<1>1. PICK b \in given : b[2] = 0 /\ Buddy!Free(b) BY DEF kfree_page
<1>2. BlocksApart' /\ free' \subseteq Page /\ given' \subseteq Page \X {0, Order}
  BY <1>1, FreeApart DEF IInv, Orderly
<1>3. \A p \in SlabPages : <<p, Order>> \in given'
  <2> SUFFICES ASSUME NEW p \in SlabPages PROVE <<p, Order>> \in given' OBVIOUS
  <2>1. <<p, Order>> \in given /\ <<p, Order>>[2] = 1 BY DEF IInv, Orderly, Slabs, Order
  <2> QED BY <1>1, <2>1 DEF Buddy!Free
<1> QED BY <1>2, <1>3, PagesOnly DEF kfree_page

LEMMA KfreeSecondStep == ASSUME IInv, ~strayed, NEW x \in objs, kfree_second(x) PROVE IInv'
<1> USE DEF IInv, Orderly
<1>1. /\ page[PageOf(x[1])].slab = Null /\ objs' = objs \ {x}
      /\ free' = free \cup {PageOf(x[1])} /\ strayed' = TRUE
      /\ UNCHANGED <<given, partial, obj_count, page_count, page, lru, link>>
  BY DEF kfree_second
<1>2. PageOf(x[1]) \in Page
  <2>1. x[2] \in Cache BY DEF TypeOK
  <2>2. PICK p \in SlabPages : page[p].slab = x[2] /\ x[1] \in Grid(p, x[2]) BY DEF Held
  <2>3. p \in Nat /\ p \in Page /\ p + 1 \in Page BY SlabBlock
  <2> QED BY <2>1, <2>2, <2>3, GridInBlock
<1>3. SlabPages' = SlabPages BY <1>1 DEF SlabPages
<1>4. TypeOK' BY <1>1, <1>2 DEF TypeOK
<1>5. ObjectsApart' BY <1>1, <1>3 DEF ObjectsApart
<1> QED BY <1>1, <1>4, <1>5

-----------------------------------------------------------------------------
(* kmem_alloc *)

\* An object that is handed out is counted once, by its cache and no other.
LEMMA CountedUp ==
  ASSUME Counts, NEW c \in Cache, NEW a, <<a, c>> \notin objs,
         objs' = objs \cup {<<a, c>>}, obj_count' = [obj_count EXCEPT ![c] = @ + 1],
         obj_count \in [Cache -> Nat]
  PROVE  /\ IsFiniteSet(objs') /\ obj_count' \in [Cache -> Nat]
         /\ \A d \in Cache : obj_count'[d] = Cardinality({x \in objs' : x[2] = d})
<1>1. IsFiniteSet(objs') BY FS_AddElement DEF Counts
<1>2. obj_count' \in [Cache -> Nat] OBVIOUS
<1>3. ASSUME NEW d \in Cache PROVE obj_count'[d] = Cardinality({x \in objs' : x[2] = d})
  <2> DEFINE Of == {x \in objs : x[2] = d}
  <2>1. IsFiniteSet(Of) BY FS_Subset DEF Counts
  <2>2. obj_count[d] = Cardinality(Of) BY DEF Counts
  <2>3. CASE d = c
    <3>1. {x \in objs' : x[2] = d} = Of \cup {<<a, c>>} BY <2>3
    <3>2. <<a, c>> \notin Of OBVIOUS
    <3> HIDE DEF Of
    <3>3. Cardinality(Of \cup {<<a, c>>}) = Cardinality(Of) + 1 BY <2>1, <3>2, FS_AddElement
    <3> QED BY <2>2, <2>3, <3>1, <3>3
  <2>4. CASE d # c
    <3>1. {x \in objs' : x[2] = d} = Of BY <2>4
    <3> QED BY <2>2, <2>4, <3>1
  <2> QED BY <2>3, <2>4
<1> QED BY <1>1, <1>2, <1>3

LEMMA AllocPartialStep ==
  ASSUME IInv, ~strayed, NEW c \in Cache, kmem_alloc_partial(c), UNCHANGED strayed
  PROVE  IInv'
<1> USE DEF IInv, Orderly
<1>0. partial[c] \in Page /\ page[partial[c]].freelist \in Addr
  BY DEF kmem_alloc_partial, Usable, TypeOK
<1>p. PICK p \in Page : p = partial[c] BY <1>0
<1>g. PICK pg : pg = page[p] OBVIOUS
<1>a. PICK a \in Addr : a = pg.freelist BY <1>0, <1>p, <1>g
<1> DEFINE full == pg.inuse + 1 = pg.tot
<1>1. /\ p # Null /\ pg.slab = c /\ a # Null
      /\ page' = [page EXCEPT ![p] =
                    [pg EXCEPT !.inuse = @ + 1, !.freelist = IF full THEN Null ELSE link[@]]]
      /\ link' = link /\ objs' = objs \cup {<<a, c>>}
      /\ obj_count' = [obj_count EXCEPT ![c] = @ + 1]
      /\ lru' = IF full THEN ListDel(lru, p) ELSE lru
      /\ UNCHANGED <<free, given, partial, page_count, strayed>>
  BY <1>p, <1>g, <1>a DEF kmem_alloc_partial, Usable, Take
<1>2. /\ p \in Page /\ p \in SlabPages /\ p \in Nat
      /\ pg \in [slab : Cache \cup {Null}, tot : Nat, inuse : Nat, freelist : Addr \cup {Null}]
  <2>1. p \in SlabPages BY <1>1, <1>g, NullAssumption DEF SlabPages
  <2> QED BY <1>g, <2>1, SlabBlock DEF TypeOK
<1> HIDE DEF full
<1>3. PICK s : FreeList(p, s) BY <1>2 DEF Chains
<1>4. /\ pg.tot \in Nat /\ pg.inuse \in Nat /\ pg.inuse <= pg.tot
      /\ Left(p) = pg.tot - pg.inuse /\ pg.tot = Objects(p, c)
  BY <1>1, <1>2, <1>g DEF Slabs, Left
<1>5. Left(p) \in Nat \ {0}
  <2>1. Left(p) = 0 => a = Null BY <1>3, <1>g, <1>a DEF FreeList, IsChain
  <2> QED BY <1>1, <1>4, <2>1
<1>6. /\ a = s[1] /\ a \in Grid(p, c) /\ <<a, c>> \notin objs
      /\ IsChain(s, Left(p), Grid(p, c), link, a)
  <2>1. 1 \in 1 .. Left(p) BY <1>5
  <2>2. Grid(p, page[p].slab) = Grid(p, c) /\ page[p].slab = c /\ page[p].freelist = a
    BY <1>1, <1>g, <1>a
  <2> QED BY <1>3, <1>5, <2>1, <2>2 DEF FreeList, IsChain
<1>7. full <=> Left(p) = 1 BY <1>4 DEF full
<1>8. /\ page'[p].slab = c /\ page'[p].tot = pg.tot /\ page'[p].inuse = pg.inuse + 1
      /\ page'[p].freelist = (IF Left(p) = 1 THEN Null ELSE link[a])
      /\ \A q \in Page : q # p => page'[q] = page[q]
  BY <1>1, <1>2, <1>7, <1>a DEF TypeOK
<1>9. SlabPages' = SlabPages
  BY <1>1, <1>2, <1>8, NullAssumption, <1>g DEF SlabPages
<1>l. /\ lru' \in Links(Page) /\ lru'[p] = IF Left(p) = 1 THEN Unlinked ELSE Alone(p)
      /\ \A q \in Page : q # p => lru'[q] = lru[q]
  <2>1. lru \in Links(Page) BY DEF TypeOK
  <2>2. lru[p] = Alone(p) BY <1>2, <1>4, <1>5, <1>g DEF Linkage
  <2>3. CASE full BY <1>1, <1>2, <1>7, <2>1, <2>2, <2>3, Cut
  <2>4. CASE ~full BY <1>1, <1>7, <2>1, <2>2, <2>4
  <2> QED BY <2>3, <2>4
<1>10. TypeOK'
  <2>1. page'[p].freelist \in Addr \cup {Null}
    <3>1. a \in Addr BY <1>1, <1>2, <1>a
    <3> QED BY <1>8, <3>1 DEF TypeOK
  <2>2. [pg EXCEPT !.inuse = @ + 1, !.freelist = IF full THEN Null ELSE link[@]]
          \in [slab : Cache \cup {Null}, tot : Nat, inuse : Nat, freelist : Addr \cup {Null}]
    <3>1. (IF full THEN Null ELSE link[pg.freelist]) \in Addr \cup {Null}
      BY <1>7, <1>8, <1>a, <2>1
    <3>2. pg.inuse + 1 \in Nat BY <1>4
    <3> QED BY <1>2, <3>1, <3>2
  <2>3. page' \in [Page -> [slab : Cache \cup {Null}, tot : Nat, inuse : Nat,
                            freelist : Addr \cup {Null}]]
    BY <1>1, <2>2 DEF TypeOK
  <2>4. obj_count' \in [Cache -> Nat] BY <1>1, <1>6, CountedUp DEF TypeOK
  <2>5. objs' \subseteq Addr \X Cache BY <1>1, <1>2, <1>a DEF TypeOK
  <2> QED BY <1>1, <1>l, <2>3, <2>4, <2>5 DEF TypeOK
<1>11. BlocksApart' BY <1>1 DEF BlocksApart
<1>12. Slabs'
  <2>1. pg.inuse + 1 <= pg.tot BY <1>4, <1>5
  <2> QED BY <1>1, <1>2, <1>4, <1>8, <1>9, <2>1 DEF Slabs, SlabPages
<1>13. Held'
  <2>1. \A q \in SlabPages : page'[q].slab = page[q].slab
    BY <1>1, <1>2, <1>8, <1>g DEF SlabPages
  <2>2. ASSUME NEW x \in objs'
        PROVE  \E q \in SlabPages : page'[q].slab = x[2] /\ x[1] \in Grid(q, x[2])
    <3>1. CASE x \in objs BY <2>1, <3>1 DEF Held
    <3>2. CASE x = <<a, c>> BY <1>2, <1>6, <1>8, <3>2
    <3> QED BY <1>1, <3>1, <3>2
  <2> QED BY <1>9, <2>2 DEF Held
<1>14. Chains'
  <2>1. ASSUME NEW q \in SlabPages, q # p PROVE \E t : FreeList(q, t)'
    <3>1. PICK t : FreeList(q, t) BY DEF Chains
    <3>2. page'[q] = page[q] BY <1>8, <2>1 DEF SlabPages
    <3>3. <<a, c>> \in objs' /\ \A n \in 1 .. Left(q) : <<t[n], page[q].slab>> # <<a, c>>
      <4>1. SUFFICES ASSUME NEW n \in 1 .. Left(q), t[n] = a, page[q].slab = c PROVE FALSE
        BY <1>1
      <4>2. a \in Grid(q, c) BY <3>1, <4>1 DEF FreeList, IsChain
      <4>3. PageOf(a) \in {q, q + 1} /\ PageOf(a) \in {p, p + 1}
        <5>1. q \in Nat BY SlabBlock
        <5> QED BY <1>2, <1>6, <4>2, <5>1, GridInBlock
      <4>4. q \in Nat /\ (p + 1 < q \/ q + 1 < p) BY <1>2, <2>1, SlabBlock
      <4> QED BY <1>2, <4>3, <4>4
    <3>4. Left(q)' = Left(q) BY <3>2 DEF Left
    <3>5. \A n \in 1 .. Left(q) : <<t[n], page[q].slab>> \notin objs'
      BY <1>1, <3>1, <3>3 DEF FreeList
    <3>6. IsChain(t, Left(q), Grid(q, page[q].slab), link, page[q].freelist)
      BY <3>1 DEF FreeList
    <3>7. FreeList(q, t)' BY <1>1, <3>2, <3>4, <3>5, <3>6 DEF FreeList, IsChain
    <3> QED BY <3>7
  <2>2. \E t : FreeList(p, t)'
    <3>1. PICK t :
            /\ IsChain(t, Left(p) - 1, Grid(p, c), link, IF Left(p) = 1 THEN Null ELSE link[a])
            /\ \A n \in 1 .. Left(p) - 1 : t[n] # a /\ \E m \in 1 .. Left(p) : t[n] = s[m]
      BY <1>5, <1>6, ChainTail
    <3>2. Left(p)' = Left(p) - 1 BY <1>4, <1>8 DEF Left
    <3>3. \A n \in 1 .. Left(p) - 1 : <<t[n], c>> \notin objs'
      <4>1. \A m \in 1 .. Left(p) : <<s[m], c>> \notin objs BY <1>1, <1>3, <1>g DEF FreeList
      <4> QED BY <1>1, <3>1, <4>1
    <3>4. FreeList(p, t)'
      BY <1>1, <1>4, <1>8, <3>1, <3>2, <3>3 DEF FreeList, IsChain
    <3> QED BY <3>4
  <2> QED BY <1>9, <2>1, <2>2 DEF Chains
<1>15. Counts'
  <2>1. IsFiniteSet(objs') /\ \A d \in Cache : obj_count'[d] = Cardinality({x \in objs' : x[2] = d})
    BY <1>1, <1>6, CountedUp DEF TypeOK
  <2>2. PageOf(a) \in {p, p + 1} BY <1>2, <1>6, GridInBlock
  <2>3. ASSUME NEW q \in SlabPages' PROVE page'[q].inuse = Cardinality(Out(q)')
    <3>1. CASE q = p
      <4>1. Out(p)' = Out(p) \cup {<<a, c>>} BY <1>1, <2>2 DEF Out
      <4>2. IsFiniteSet(Out(p)) /\ <<a, c>> \notin Out(p) BY <1>6, FS_Subset DEF Counts, Out
      <4>3. Cardinality(Out(p)') = Cardinality(Out(p)) + 1 BY <4>1, <4>2, FS_AddElement
      <4>4. pg.inuse = Cardinality(Out(p)) BY <1>2, <1>g DEF Counts
      <4> QED BY <1>8, <3>1, <4>3, <4>4
    <3>2. CASE q # p
      <4>1. p + 1 < q \/ q + 1 < p BY <1>2, <1>9, <3>2, SlabBlock
      <4>2. q \in Nat BY <1>9, SlabBlock
      <4>3. Out(q)' = Out(q) BY <1>1, <1>2, <2>2, <4>1, <4>2 DEF Out
      <4>4. page'[q] = page[q] BY <1>8, <1>9, <3>2 DEF SlabPages
      <4> QED BY <1>9, <4>3, <4>4 DEF Counts
    <3> QED BY <3>1, <3>2
  <2>4. ASSUME NEW d \in Cache
        PROVE  page_count'[d] = 2 * Cardinality({q \in SlabPages' : page'[q].slab = d})
    <3> HIDE DEF IInv, Orderly
    <3>1. \A q \in SlabPages : page'[q].slab = page[q].slab
      BY <1>1, <1>2, <1>8, <1>g DEF SlabPages
    <3>2. {q \in SlabPages' : page'[q].slab = d} = {q \in SlabPages : page[q].slab = d}
      BY <1>9, <3>1
    <3> QED BY <1>1, <3>2 DEF Counts, IInv, Orderly
  <2> QED BY <2>1, <2>3, <2>4 DEF Counts
<1>16. ObjectsApart'
  <2>1. TypeOK' /\ BlocksApart' /\ Slabs' /\ Held' => ObjectsApart' BY Disjoint, PTL
  <2> QED BY <1>10, <1>11, <1>12, <1>13, <2>1
<1>17. Linkage'
  <2> SUFFICES ASSUME NEW q \in SlabPages
               PROVE  /\ partial'[page'[q].slab] = q
                      /\ lru'[q] = IF page'[q].inuse = page'[q].tot THEN Unlinked ELSE Alone(q)
    BY <1>9 DEF Linkage
  <2>1. q \in Page BY DEF SlabPages
  <2>2. CASE q = p
    <3>1. page'[p].inuse = page'[p].tot <=> Left(p) = 1 BY <1>4, <1>8
    <3> QED BY <1>1, <1>p, <1>8, <1>l, <2>2, <3>1
  <2>3. CASE q # p BY <1>1, <1>8, <1>l, <2>1, <2>3 DEF Linkage
  <2> QED BY <2>2, <2>3
<1> QED BY <1>10, <1>11, <1>12, <1>13, <1>14, <1>15, <1>16, <1>17

LEMMA GridAddr ==
  ASSUME NEW c \in Cache, NEW p \in Nat, p + 1 \in Page
  PROVE  Grid(p, c) \subseteq Addr
<1> SUFFICES ASSUME NEW a \in Grid(p, c) PROVE a \in Addr OBVIOUS
<1>1. a \in Nat /\ a + ObjSize[c] < Limit(p) BY GridInBlock
<1>2. Limit(p) <= NPages * PageSize /\ Limit(p) \in Nat /\ NPages * PageSize \in Nat
  BY LimitInRange
<1>3. ObjSize[c] \in Nat BY Sizes
<1> QED BY <1>1, <1>2, <1>3 DEF Addr

LEMMA Fields ==
  ASSUME NEW s \in Cache, NEW t \in Nat, NEW f \in Addr \cup {Null},
         NEW v \in Addr \cup {Null}, NEW pg, pg = [slab |-> s, tot |-> t, inuse |-> 0, freelist |-> f]
  PROVE  [pg EXCEPT !.inuse = 1, !.freelist = v]
         = [slab |-> s, tot |-> t, inuse |-> 1, freelist |-> v]
<1>1. PICK w : w = [pg EXCEPT !.inuse = 1] OBVIOUS
<1>2. w = [slab |-> s, tot |-> t, inuse |-> 1, freelist |-> f] BY <1>1
<1>3. [w EXCEPT !.freelist = v] = [slab |-> s, tot |-> t, inuse |-> 1, freelist |-> v] BY <1>2
<1> QED BY <1>1, <1>3

LEMMA AllocFirstStep ==
  ASSUME IInv, ~strayed, NEW c \in Cache, kmem_alloc_first(c), UNCHANGED strayed
  PROVE  IInv'
<1> USE DEF IInv, Orderly
<1>1. PICK p \in Buddy!FreeBlocks(Order) : /\ free' = free \ Buddy!Frames(p, Order)
                                           /\ given' = given \cup {<<p, Order>>}
  BY DEF kmem_alloc_first, Buddy!Alloc
<1>2. /\ p \in Nat /\ p \in Page /\ p + 1 \in Page /\ p \in free /\ p + 1 \in free
      /\ \A b \in given : p \notin Buddy!Frames(b[1], b[2]) /\ p + 1 \notin Buddy!Frames(b[1], b[2])
  <2>1. p \in free /\ Buddy!Frames(p, Order) \subseteq free BY DEF Buddy!FreeBlocks
  <2>2. free \subseteq Page /\ Page \subseteq Nat BY Sizes DEF TypeOK, Page
  <2>3. p \in Nat /\ p .. p + 1 \subseteq free BY <2>1, <2>2, FramesOf
  <2>4. p \in p .. p + 1 /\ p + 1 \in p .. p + 1 BY <2>3
  <2> QED BY <2>2, <2>3, <2>4 DEF BlocksApart
<1>3. <<p, Order>> \notin given
  <2> DEFINE e == <<p, Order>>
  <2>1. e[1] = p /\ e[2] = Order OBVIOUS
  <2> HIDE DEF e
  <2>2. p \in Buddy!Frames(e[1], e[2]) BY <1>2, <2>1, FramesOf
  <2>3. e \notin given BY <1>2, <2>2
  <2> QED BY <2>3 DEF e
<1>n. PICK n \in Nat \ {0} : n = Objects(p, c) BY <1>2, Capacity
<1>l. PICK links : links = Linked(p, c) OBVIOUS
<1>f. PICK a : a = FirstObj(p, c) OBVIOUS
<1>4. \A q \in SlabPages : q \in Nat /\ q # p /\ (p + 1 < q \/ q + 1 < p)
  <2> SUFFICES ASSUME NEW q \in SlabPages
               PROVE  q \in Nat /\ q # p /\ (p + 1 < q \/ q + 1 < p)
    OBVIOUS
  <2>1. q \in Nat /\ q \notin free /\ q + 1 \notin free BY SlabBlock
  <2>2. q # p /\ q # p + 1 /\ q + 1 # p BY <1>2, <2>1
  <2> QED BY <1>2, <2>1, <2>2
<1>5. \A x \in objs : PageOf(x[1]) \notin {p, p + 1}
  <2> SUFFICES ASSUME NEW x \in objs PROVE PageOf(x[1]) \notin {p, p + 1} OBVIOUS
  <2>1. x[2] \in Cache BY DEF TypeOK
  <2>2. PICK q \in SlabPages : x[1] \in Grid(q, x[2]) BY DEF Held
  <2>3. PageOf(x[1]) \in {q, q + 1} BY <1>4, <2>1, <2>2, GridInBlock
  <2> QED BY <1>2, <1>4, <2>3
<1>6. PICK s : s = [k \in 1 .. Objects(p, c) |-> FirstObj(p, c) + (k - 1) * ObjSize[c]] OBVIOUS
<1>7. IsChain(s, n, Grid(p, c), links, a) BY <1>2, <1>n, <1>l, <1>f, <1>6, ChainNew
<1>8. /\ a = s[1] /\ a \in Grid(p, c) /\ a \in Addr /\ PageOf(a) \in {p, p + 1}
       /\ <<a, c>> \notin objs
  <2>1. 1 \in 1 .. n /\ n # 0 OBVIOUS
  <2>2. a = s[1] /\ a \in Grid(p, c) BY <1>7, <2>1 DEF IsChain
  <2>3. PageOf(a) \in {p, p + 1} /\ a \in Addr BY <1>2, <2>2, GridInBlock, GridAddr
  <2> QED BY <1>5, <2>2, <2>3
<1>9. links \in [Addr -> Addr \cup {Null}]
  <2> SUFFICES ASSUME NEW b \in Addr PROVE Linked(p, c)[b] \in Addr \cup {Null}
    BY <1>l DEF Linked
  <2>1. CASE \E k \in 0 .. Objects(p, c) - 1 : b = FirstObj(p, c) + k * ObjSize[c]
    <3>1. b \in Grid(p, c) BY <2>1 DEF Grid
    <3>2. b \in Nat /\ b + ObjSize[c] < Limit(p) BY <1>2, <3>1, GridInBlock
    <3>3. Limit(p) <= NPages * PageSize /\ Limit(p) \in Nat /\ NPages * PageSize \in Nat
      BY <1>2, LimitInRange
    <3>4. b + ObjSize[c] \in Addr BY <3>2, <3>3, Sizes DEF Addr
    <3>5. Linked(p, c)[b] = b + ObjSize[c] BY <2>1 DEF Linked
    <3> QED BY <3>4, <3>5
  <2>2. CASE ~\E k \in 0 .. Objects(p, c) - 1 : b = FirstObj(p, c) + k * ObjSize[c]
    <3>1. Linked(p, c)[b] = link[b] BY <2>2 DEF Linked
    <3> QED BY <3>1 DEF TypeOK
  <2> QED BY <2>1, <2>2
<1>10. /\ page' = [page EXCEPT ![p] = [slab |-> c, tot |-> n, inuse |-> 1,
                                      freelist |-> IF n = 1 THEN Null ELSE links[a]]]
      /\ link' = links /\ objs' = objs \cup {<<a, c>>}
      /\ obj_count' = [obj_count EXCEPT ![c] = @ + 1]
      /\ partial' = [partial EXCEPT ![c] = p]
      /\ page_count' = [page_count EXCEPT ![c] = @ + 2]
      /\ lru' = IF n = 1 THEN ListDel(ListHeadInit(lru, p), p) ELSE ListHeadInit(lru, p)
  <2>1. PICK b \in given' \ given :
          /\ partial' = [partial EXCEPT ![c] = b[1]]
          /\ page_count' = [page_count EXCEPT ![c] = @ + 2]
          /\ Take(c, b[1], [slab |-> c, tot |-> Objects(b[1], c), inuse |-> 0,
                            freelist |-> FirstObj(b[1], c)], Linked(b[1], c),
                  ListHeadInit(lru, b[1]))
    BY DEF kmem_alloc_first
  <2>2. b[1] = p BY <1>1
  <2>3. Take(c, p, [slab |-> c, tot |-> n, inuse |-> 0, freelist |-> a], links,
             ListHeadInit(lru, p))
    BY <2>1, <2>2, <1>n, <1>l, <1>f
  <2> DEFINE pg == [slab |-> c, tot |-> n, inuse |-> 0, freelist |-> a]
             v  == IF n = 1 THEN Null ELSE links[a]
  <2>4. pg.inuse + 1 = 1 /\ pg.tot = n /\ pg.freelist = a OBVIOUS
  <2>5. /\ page' = [page EXCEPT ![p] =
                      [pg EXCEPT !.inuse = @ + 1,
                                 !.freelist = IF pg.inuse + 1 = pg.tot THEN Null ELSE links[@]]]
        /\ link' = links /\ objs' = objs \cup {<<pg.freelist, c>>}
        /\ obj_count' = [obj_count EXCEPT ![c] = @ + 1]
        /\ lru' = IF pg.inuse + 1 = pg.tot THEN ListDel(ListHeadInit(lru, p), p)
                                           ELSE ListHeadInit(lru, p)
    BY <2>3 DEF Take
  <2>6. [pg EXCEPT !.inuse = @ + 1,
                   !.freelist = IF pg.inuse + 1 = pg.tot THEN Null ELSE links[@]]
        = [slab |-> c, tot |-> n, inuse |-> 1, freelist |-> v]
    <3>1. v \in Addr \cup {Null} BY <1>8, <1>9
    <3>2. (IF pg.inuse + 1 = pg.tot THEN Null ELSE links[pg.freelist]) = v BY <2>4
    <3>3. pg = [slab |-> c, tot |-> n, inuse |-> 0, freelist |-> a] /\ a \in Addr \cup {Null}
      BY <1>8
    <3> HIDE DEF v, pg
    <3>4. [pg EXCEPT !.inuse = 1, !.freelist = v]
          = [slab |-> c, tot |-> n, inuse |-> 1, freelist |-> v]
      BY <3>1, <3>3, n \in Nat, c \in Cache, Fields, Zenon
    <3> QED BY <2>4, <3>2, <3>4
  <2> QED BY <2>1, <2>2, <2>4, <2>5, <2>6
<1>11. /\ page'[p].slab = c /\ page'[p].tot = n /\ page'[p].inuse = 1
      /\ page'[p].freelist = (IF n = 1 THEN Null ELSE links[a])
      /\ \A q \in Page : q # p => page'[q] = page[q]
  BY <1>2, <1>10 DEF TypeOK
<1>12. SlabPages' = SlabPages \cup {p} /\ p \notin SlabPages
      /\ \A q \in SlabPages : page'[q] = page[q]
  BY <1>2, <1>11, <1>4, NullAssumption DEF SlabPages
<1>e. /\ lru' \in Links(Page) /\ lru'[p] = IF n = 1 THEN Unlinked ELSE Alone(p)
      /\ \A q \in Page : q # p => lru'[q] = lru[q]
  <2>1. lru \in Links(Page) BY DEF TypeOK
  <2>2. PICK ring : ring = ListHeadInit(lru, p) OBVIOUS
  <2>3. ring \in Links(Page) /\ ring[p] = Alone(p) /\ \A q \in Page : q # p => ring[q] = lru[q]
    BY <1>2, <2>1, <2>2, MadeAlone
  <2>4. lru' = IF n = 1 THEN ListDel(ring, p) ELSE ring BY <1>10, <2>2
  <2>5. CASE n = 1 BY <1>2, <2>3, <2>4, <2>5, Cut
  <2>6. CASE n # 1 BY <2>3, <2>4, <2>6
  <2> QED BY <2>5, <2>6
<1>13. /\ BlocksApart' /\ free' \subseteq Page /\ given' \subseteq Page \X {0, Order}
  BY AllocApart DEF kmem_alloc_first
<1>14. TypeOK'
  <2>1. (IF n = 1 THEN Null ELSE links[a]) \in Addr \cup {Null} BY <1>8, <1>9
  <2>2. page' \in [Page -> [slab : Cache \cup {Null}, tot : Nat, inuse : Nat,
                            freelist : Addr \cup {Null}]]
    BY <1>10, <2>1 DEF TypeOK
  <2>3. obj_count' \in [Cache -> Nat] BY <1>10, <1>8, CountedUp DEF TypeOK
  <2>4. objs' \subseteq Addr \X Cache BY <1>10, <1>8 DEF TypeOK
  <2>5. partial' \in [Cache -> Page \cup {Null}] /\ page_count' \in [Cache -> Nat]
    BY <1>2, <1>10 DEF TypeOK
  <2>6. strayed' \in BOOLEAN BY DEF TypeOK
  <2> QED BY <1>10, <1>9, <1>e, <1>13, <2>2, <2>3, <2>4, <2>5, <2>6 DEF TypeOK
<1>15. Slabs'
  <2> SUFFICES ASSUME NEW q \in SlabPages'
               PROVE  /\ <<q, Order>> \in given' /\ page'[q].tot = Objects(q, page'[q].slab)
                      /\ page'[q].inuse <= page'[q].tot
    BY DEF Slabs
  <2>1. CASE q = p
    <3>1. 1 <= n OBVIOUS
    <3> QED BY <1>1, <1>11, <1>n, <2>1, <3>1
  <2>2. CASE q \in SlabPages BY <1>1, <1>12, <2>2 DEF Slabs
  <2> QED BY <1>12, <2>1, <2>2
<1>16. Held'
  <2>1. ASSUME NEW x \in objs'
        PROVE  \E q \in SlabPages' : page'[q].slab = x[2] /\ x[1] \in Grid(q, x[2])
    <3>1. CASE x \in objs BY <1>12, <3>1 DEF Held
    <3>2. CASE x = <<a, c>> BY <1>11, <1>12, <1>8, <3>2
    <3> QED BY <1>10, <3>1, <3>2
  <2> QED BY <2>1 DEF Held
<1>17. Chains'
  <2>1. ASSUME NEW q \in SlabPages PROVE \E t : FreeList(q, t)'
    <3>1. PICK t : FreeList(q, t) BY DEF Chains
    <3>2. page'[q] = page[q] /\ Left(q)' = Left(q) BY <1>12 DEF Left
    <3>3. q \in Nat /\ q + 1 \in Page /\ page[q].slab \in Cache
      BY SlabBlock DEF SlabPages, TypeOK
    <3>4. \A b \in Grid(q, page[q].slab) : PageOf(b) \notin {p, p + 1} /\ b \in Addr
      BY <1>2, <1>4, <3>3, GridInBlock, GridAddr
    <3>5. \A b \in Grid(q, page[q].slab) : links[b] = link[b]
      <4> SUFFICES ASSUME NEW b \in Grid(q, page[q].slab) PROVE Linked(p, c)[b] = link[b]
        BY <1>l
      <4>1. b \notin Grid(p, c) /\ b \in Addr BY <1>2, <3>4, GridInBlock
      <4> QED BY <4>1 DEF Linked, Grid
    <3>6. Left(q) \in Nat
      <4>1. page[q].tot \in Nat /\ page[q].inuse \in Nat /\ page[q].inuse <= page[q].tot
        BY DEF SlabPages, Slabs, TypeOK
      <4> QED BY <4>1 DEF Left
    <3>7. IsChain(t, Left(q), Grid(q, page[q].slab), links, page[q].freelist)
      BY <3>1, <3>5, <3>6, ChainFrame DEF FreeList
    <3>8. \A m \in 1 .. Left(q) : <<t[m], page[q].slab>> \notin objs'
      <4> SUFFICES ASSUME NEW m \in 1 .. Left(q) PROVE <<t[m], page[q].slab>> \notin objs'
        OBVIOUS
      <4>1. t[m] \in Grid(q, page[q].slab) BY <3>7 DEF IsChain
      <4>2. t[m] # a BY <1>8, <3>4, <4>1
      <4>3. <<t[m], page[q].slab>> \notin objs BY <3>1 DEF FreeList
      <4> QED BY <1>10, <4>2, <4>3
    <3>9. FreeList(q, t)' BY <1>10, <3>2, <3>7, <3>8 DEF FreeList, IsChain
    <3> QED BY <3>9
  <2>2. \E t : FreeList(p, t)'
    <3>1. PICK t :
            /\ IsChain(t, n - 1, Grid(p, c), links, IF n = 1 THEN Null ELSE links[s[1]])
            /\ \A m \in 1 .. n - 1 : t[m] # s[1] /\ \E k \in 1 .. n : t[m] = s[k]
      BY <1>7, ChainTail
    <3>2. Left(p)' = n - 1 BY <1>11 DEF Left
    <3>3. \A m \in 1 .. n - 1 : <<t[m], c>> \notin objs'
      <4> SUFFICES ASSUME NEW m \in 1 .. n - 1 PROVE <<t[m], c>> \notin objs' OBVIOUS
      <4>1. t[m] # a BY <1>8, <3>1
      <4>2. t[m] \in Grid(p, c) BY <3>1 DEF IsChain
      <4>3. PageOf(t[m]) \in {p, p + 1} BY <1>2, <4>2, GridInBlock
      <4>4. <<t[m], c>> \notin objs BY <1>5, <4>3
      <4> QED BY <1>10, <4>1, <4>4
    <3>4. IsChain(t, n - 1, Grid(p, c), links, page'[p].freelist) BY <1>11, <1>8, <3>1
    <3>5. FreeList(p, t)' BY <1>10, <1>11, <3>2, <3>3, <3>4 DEF FreeList, IsChain
    <3> QED BY <3>5
  <2> QED BY <1>12, <2>1, <2>2 DEF Chains
<1>18. Counts'
  <2>1. IsFiniteSet(objs') /\ \A d \in Cache : obj_count'[d] = Cardinality({x \in objs' : x[2] = d})
    BY <1>10, <1>8, CountedUp DEF TypeOK
  <2>2. ASSUME NEW q \in SlabPages' PROVE page'[q].inuse = Cardinality(Out(q)')
    <3>1. CASE q = p
      <4>1. Out(p)' = {<<a, c>>} BY <1>10, <1>5, <1>8 DEF Out
      <4>2. Cardinality({<<a, c>>}) = 1 BY FS_Singleton
      <4> QED BY <1>11, <3>1, <4>1, <4>2
    <3>2. CASE q \in SlabPages
      <4>1. q \in Nat /\ (p + 1 < q \/ q + 1 < p) BY <1>4, <3>2
      <4>2. Out(q)' = Out(q) BY <1>2, <1>10, <1>8, <4>1 DEF Out
      <4> QED BY <1>12, <3>2, <4>2 DEF Counts
    <3> QED BY <1>12, <3>1, <3>2
  <2>3. ASSUME NEW d \in Cache
        PROVE  page_count'[d] = 2 * Cardinality({q \in SlabPages' : page'[q].slab = d})
    <3> DEFINE Of == {q \in SlabPages : page[q].slab = d}
    <3>1. IsFiniteSet(Of) /\ p \notin Of BY <1>12, PagesFinite, FS_Subset
    <3>2. page_count[d] = 2 * Cardinality(Of) BY DEF Counts
    <3>3. CASE d = c
      <4>1. {q \in SlabPages' : page'[q].slab = d} = Of \cup {p} BY <1>11, <1>12, <3>3
      <4> HIDE DEF Of
      <4>2. Cardinality(Of \cup {p}) = Cardinality(Of) + 1 /\ Cardinality(Of) \in Nat
        BY <3>1, FS_AddElement, FS_CardinalityType
      <4>3. page_count'[d] = page_count[d] + 2 BY <1>10, <3>3 DEF TypeOK
      <4>4. PICK m \in Nat : m = Cardinality(Of) BY <4>2
      <4>5. page_count'[d] = 2 * (m + 1) BY <3>2, <4>3, <4>4
      <4> QED BY <4>1, <4>2, <4>4, <4>5
    <3>4. CASE d # c
      <4>1. {q \in SlabPages' : page'[q].slab = d} = Of BY <1>11, <1>12, <3>4
      <4>2. page_count'[d] = page_count[d] BY <1>10, <3>4 DEF TypeOK
      <4> QED BY <3>2, <4>1, <4>2
    <3> QED BY <3>3, <3>4
  <2> QED BY <2>1, <2>2, <2>3 DEF Counts
<1>19. ObjectsApart'
  <2>1. TypeOK' /\ BlocksApart' /\ Slabs' /\ Held' => ObjectsApart' BY Disjoint, PTL
  <2> QED BY <1>13, <1>14, <1>15, <1>16, <2>1
<1>20. Linkage'
  <2> SUFFICES ASSUME NEW q \in SlabPages'
               PROVE  /\ partial'[page'[q].slab] = q
                      /\ lru'[q] = IF page'[q].inuse = page'[q].tot THEN Unlinked ELSE Alone(q)
    BY DEF Linkage
  <2>1. CASE q = p BY <1>10, <1>11, <1>e, <2>1 DEF TypeOK
  <2>2. CASE q \in SlabPages
    <3>1. q \in Page /\ q # p /\ page'[q] = page[q] BY <1>4, <1>12, <2>2 DEF SlabPages
    <3>2. partial[page[q].slab] = q /\ partial[c] = Null BY <2>2 DEF Linkage, kmem_alloc_first
    <3>3. page[q].slab # c
      <4>1. q # Null BY <2>2, SlabNotNull
      <4> QED BY <3>2, <4>1
    <3> QED BY <1>10, <1>e, <2>2, <3>1, <3>2, <3>3 DEF Linkage, TypeOK
  <2> QED BY <1>12, <2>1, <2>2
<1> QED BY <1>13, <1>14, <1>15, <1>16, <1>17, <1>18, <1>19, <1>20

-----------------------------------------------------------------------------
(* kmem_free *)

\* An object that comes back is no longer counted by its cache.
LEMMA CountedDown ==
  ASSUME Counts, NEW x \in objs, NEW c \in Cache, x[2] = c,
         objs' = objs \ {x}, obj_count' = [obj_count EXCEPT ![c] = @ - 1],
         obj_count \in [Cache -> Nat]
  PROVE  /\ IsFiniteSet(objs') /\ obj_count' \in [Cache -> Nat]
         /\ \A d \in Cache : obj_count'[d] = Cardinality({y \in objs' : y[2] = d})
<1>1. IsFiniteSet(objs') BY FS_Subset DEF Counts
<1>2. ASSUME NEW d \in Cache
      PROVE  obj_count'[d] \in Nat /\ obj_count'[d] = Cardinality({y \in objs' : y[2] = d})
  <2> DEFINE Of == {y \in objs : y[2] = d}
  <2>1. IsFiniteSet(Of) BY FS_Subset DEF Counts
  <2>2. obj_count[d] = Cardinality(Of) BY DEF Counts
  <2>3. CASE d = c
    <3>1. {y \in objs' : y[2] = d} = Of \ {x} BY <2>3
    <3>2. x \in Of BY <2>3
    <3> HIDE DEF Of
    <3>3. IsFiniteSet(Of \ {x}) /\ Cardinality(Of \ {x}) = Cardinality(Of) - 1
      BY <2>1, <3>2, FS_RemoveElement
    <3>4. Cardinality(Of \ {x}) \in Nat BY <3>3, FS_CardinalityType
    <3> QED BY <2>2, <2>3, <3>1, <3>3, <3>4
  <2>4. CASE d # c
    <3>1. {y \in objs' : y[2] = d} = Of BY <2>4
    <3> QED BY <2>2, <2>4, <3>1
  <2> QED BY <2>3, <2>4
<1>3. obj_count' \in [Cache -> Nat] BY <1>2
<1> QED BY <1>1, <1>2, <1>3

\* The page that kmem_free finds is the one that begins the object's block.
LEMMA FreeOwner ==
  ASSUME IInv, ~strayed, NEW x \in objs, page[PageOf(x[1])].slab # Null
  PROVE  /\ PageOf(x[1]) \in SlabPages /\ page[PageOf(x[1])].slab = x[2] /\ x[2] \in Cache
         /\ x[1] \in Grid(PageOf(x[1]), x[2]) /\ x = <<x[1], x[2]>> /\ x[1] \in Addr
<1> USE DEF IInv, Orderly
<1>1. x[2] \in Cache /\ x = <<x[1], x[2]>> /\ x[1] \in Addr BY DEF TypeOK
<1>2. PICK q \in SlabPages : page[q].slab = x[2] /\ x[1] \in Grid(q, x[2]) BY DEF Held
<1>3. q \in Nat /\ q + 1 \in Page /\ q + 1 \notin SlabPages BY SlabBlock
<1>4. PageOf(x[1]) \in {q, q + 1} BY <1>1, <1>2, <1>3, GridInBlock
<1>5. PageOf(x[1]) = q BY <1>3, <1>4 DEF SlabPages
<1> QED BY <1>1, <1>2, <1>5

\* What is on a slab page stays there when an object of page p comes back.
LEMMA OutFreed ==
  ASSUME IInv, ~strayed, NEW x \in objs, NEW p \in SlabPages, PageOf(x[1]) = p,
         objs' = objs \ {x}
  PROVE  /\ IsFiniteSet(Out(p)) /\ x \in Out(p) /\ Out(p)' = Out(p) \ {x}
         /\ Cardinality(Out(p)) \in Nat \ {0} /\ Cardinality(Out(p)') = Cardinality(Out(p)) - 1
         /\ \A q \in SlabPages : q # p => Out(q)' = Out(q)
<1> USE DEF IInv, Orderly
<1>1. IsFiniteSet(Out(p)) BY FS_Subset DEF Counts, Out
<1>2. x \in Out(p) /\ Out(p)' = Out(p) \ {x} BY DEF Out
<1>3. Cardinality(Out(p)) \in Nat /\ Cardinality(Out(p)) # 0
  BY <1>1, <1>2, FS_CardinalityType, FS_EmptySet
<1>4. Cardinality(Out(p)') = Cardinality(Out(p)) - 1 BY <1>1, <1>2, FS_RemoveElement
<1>5. ASSUME NEW q \in SlabPages, q # p PROVE Out(q)' = Out(q)
  <2>1. q \in Nat /\ p \in Nat /\ (p + 1 < q \/ q + 1 < p) BY <1>5, SlabBlock
  <2>2. x \notin Out(q) BY <2>1 DEF Out
  <2> QED BY <2>2 DEF Out
<1> QED BY <1>1, <1>2, <1>3, <1>4, <1>5

\* The object goes to the front of its page's list.
LEMMA PutBackStep ==
  ASSUME IInv, ~strayed, NEW x \in objs, kmem_free(x), page[PageOf(x[1])].inuse # 1
  PROVE  IInv'
<1> USE DEF IInv, Orderly
<1>p. PICK p : p = PageOf(x[1]) OBVIOUS
<1>c. PICK c : c = page[p].slab OBVIOUS
<1>a. PICK a : a = x[1] OBVIOUS
<1>1. /\ c # Null /\ objs' = objs \ {x}
      /\ obj_count' = [obj_count EXCEPT ![c] = @ - 1]
      /\ page' = [page EXCEPT ![p].inuse = @ - 1, ![p].freelist = a]
      /\ link' = [link EXCEPT ![a] = page[p].freelist]
      /\ lru' = IF page[p].inuse = page[p].tot THEN ListAddAfter(lru, p, partial[c]) ELSE lru
      /\ UNCHANGED <<free, given, page_count, partial, strayed>>
  BY <1>p, <1>c, <1>a DEF kmem_free, PutBack, Relink
<1>2. /\ p \in SlabPages /\ p \in Page /\ p \in Nat /\ p + 1 \in Page
      /\ page[p].slab = c /\ x[2] = c /\ c \in Cache
      /\ a \in Grid(p, c) /\ x = <<a, c>> /\ a \in Addr
  BY <1>p, <1>c, <1>a, <1>1, FreeOwner, SlabBlock
<1>3. /\ page[p].tot \in Nat /\ page[p].inuse \in Nat /\ page[p].inuse >= 2
      /\ page[p].inuse <= page[p].tot /\ page[p].tot = Objects(p, c)
  <2>1. page[p].inuse = Cardinality(Out(p)) BY <1>2 DEF Counts
  <2>2. Cardinality(Out(p)) \in Nat \ {0} BY <1>1, <1>2, <1>p, OutFreed
  <2>3. page[p].inuse # 1 BY <1>p
  <2>4. page[p].tot \in Nat /\ page[p].inuse <= page[p].tot /\ page[p].tot = Objects(p, c)
    BY <1>2 DEF TypeOK, Slabs
  <2> QED BY <2>1, <2>2, <2>3, <2>4
<1>4. PICK left \in Nat : left = Left(p)
  <2>1. Left(p) \in Nat BY <1>3 DEF Left
  <2> QED BY <2>1
<1>5. /\ page'[p].slab = c /\ page'[p].tot = page[p].tot /\ page'[p].inuse = page[p].inuse - 1
      /\ page'[p].freelist = a /\ Left(p)' = left + 1
      /\ \A q \in Page : q # p => page'[q] = page[q]
      /\ page' \in [Page -> [slab : Cache \cup {Null}, tot : Nat, inuse : Nat,
                             freelist : Addr \cup {Null}]]
  <2>1. page \in [Page -> [slab : Cache \cup {Null}, tot : Nat, inuse : Nat,
                           freelist : Addr \cup {Null}]]
    BY DEF TypeOK
  <2>2. page[p].inuse - 1 \in Nat BY <1>3
  <2>3. /\ page'[p].slab = c /\ page'[p].tot = page[p].tot
        /\ page'[p].inuse = page[p].inuse - 1
        /\ page'[p].freelist = a
        /\ \A q \in Page : q # p => page'[q] = page[q]
    BY <1>1, <1>2, <2>1
  <2>4. page' \in [Page -> [slab : Cache \cup {Null}, tot : Nat, inuse : Nat,
                            freelist : Addr \cup {Null}]]
    BY <1>1, <1>2, <2>1, <2>2
  <2>5. Left(p)' = left + 1 BY <1>3, <1>4, <2>3 DEF Left
  <2> QED BY <2>3, <2>4, <2>5
<1>6. SlabPages' = SlabPages BY <1>1, <1>2, <1>5 DEF SlabPages
<1>7. IsFiniteSet(objs') /\ obj_count' \in [Cache -> Nat]
      /\ \A d \in Cache : obj_count'[d] = Cardinality({y \in objs' : y[2] = d})
  BY <1>1, <1>2, CountedDown DEF TypeOK
<1>l. /\ lru' \in Links(Page) /\ lru'[p] = Alone(p)
      /\ \A q \in Page : q # p => lru'[q] = lru[q]
  <2>1. lru \in Links(Page) BY DEF TypeOK
  <2>2. partial[c] = p BY <1>2 DEF Linkage
  <2>3. CASE page[p].inuse = page[p].tot
    <3>1. lru[p] = Unlinked BY <1>2, <2>3 DEF Linkage
    <3> QED BY <1>1, <1>2, <2>1, <2>2, <2>3, <3>1, LinkedAgain
  <2>4. CASE page[p].inuse # page[p].tot
    <3>1. lru[p] = Alone(p) BY <1>2, <2>4 DEF Linkage
    <3> QED BY <1>1, <2>1, <2>4, <3>1
  <2> QED BY <2>3, <2>4
<1>8. TypeOK'
  <2>1. link' \in [Addr -> Addr \cup {Null}] BY <1>1, <1>2 DEF TypeOK
  <2>2. objs' \subseteq Addr \X Cache BY <1>1 DEF TypeOK
  <2> QED BY <1>1, <1>5, <1>7, <1>l, <2>1, <2>2 DEF TypeOK
<1>9. BlocksApart' BY <1>1 DEF BlocksApart
<1>10. Slabs'
  <2>1. page[p].inuse - 1 <= page[p].tot BY <1>3
  <2> QED BY <1>1, <1>2, <1>3, <1>5, <1>6, <2>1 DEF Slabs, SlabPages
<1>11. Held'
  <2>1. \A q \in SlabPages : page'[q].slab = page[q].slab BY <1>2, <1>5 DEF SlabPages
  <2> QED BY <1>1, <1>6, <2>1 DEF Held
<1>12. Chains'
  <2>1. ASSUME NEW q \in SlabPages, q # p PROVE \E t : FreeList(q, t)'
    <3>1. PICK t : FreeList(q, t) BY DEF Chains
    <3>2. page'[q] = page[q] /\ Left(q)' = Left(q) BY <1>5, <2>1 DEF SlabPages, Left
    <3>3. q \in Nat /\ q + 1 \in Page /\ page[q].slab \in Cache /\ (p + 1 < q \/ q + 1 < p)
      BY <1>2, <2>1, SlabBlock DEF SlabPages, TypeOK
    <3>4. \A b \in Grid(q, page[q].slab) : link'[b] = link[b]
      <4> SUFFICES ASSUME NEW b \in Grid(q, page[q].slab) PROVE link'[b] = link[b]
        OBVIOUS
      <4>1. PageOf(b) \in {q, q + 1} /\ PageOf(a) \in {p, p + 1}
        BY <1>2, <3>3, GridInBlock
      <4>2. b # a BY <1>2, <3>3, <4>1
      <4>3. b \in Addr BY <3>3, GridAddr
      <4> QED BY <1>1, <4>2, <4>3 DEF TypeOK
    <3>5. Left(q) \in Nat
      <4>1. page[q].tot \in Nat /\ page[q].inuse \in Nat /\ page[q].inuse <= page[q].tot
        BY DEF SlabPages, Slabs, TypeOK
      <4> QED BY <4>1 DEF Left
    <3>6. IsChain(t, Left(q), Grid(q, page[q].slab), link', page[q].freelist)
      BY <3>1, <3>4, <3>5, ChainFrame DEF FreeList
    <3>7. \A n \in 1 .. Left(q) : <<t[n], page[q].slab>> \notin objs'
      BY <1>1, <3>1 DEF FreeList
    <3>8. FreeList(q, t)' BY <3>2, <3>6, <3>7 DEF FreeList, IsChain
    <3> QED BY <3>8
  <2>2. \E t : FreeList(p, t)'
    <3>1. PICK s : FreeList(p, s) BY <1>2 DEF Chains
    <3>2. /\ IsChain(s, left, Grid(p, c), link, page[p].freelist)
          /\ \A n \in 1 .. left : <<s[n], c>> \notin objs
      BY <1>2, <1>4, <3>1 DEF FreeList
    <3>3. \A n \in 1 .. left : s[n] # a BY <1>2, <3>2
    <3>4. link'[a] = page[p].freelist /\ \A b \in Grid(p, c) : b # a => link'[b] = link[b]
      BY <1>1, <1>2, GridAddr DEF TypeOK
    <3>5. PICK t : IsLonger(t, s, left, Grid(p, c), link', a)
      <4>1. PICK links : links = link' OBVIOUS
      <4>2. Pushed(s, left, Grid(p, c), link, page[p].freelist, links, a)
        BY <1>2, <1>4, <3>2, <3>3, <3>4, <4>1 DEF Pushed
      <4>3. \E t : IsLonger(t, s, left, Grid(p, c), links, a) BY <4>2, ChainPush
      <4> QED BY <4>1, <4>3
    <3>6. \A n \in 1 .. left + 1 : <<t[n], c>> \notin objs'
      BY <1>1, <1>2, <3>2, <3>5 DEF IsLonger
    <3>7. FreeList(p, t)' BY <1>5, <3>5, <3>6 DEF FreeList, IsChain, IsLonger
    <3> QED BY <3>7
  <2> QED BY <1>6, <2>1, <2>2 DEF Chains
<1>13. Counts'
  <2>1. ASSUME NEW q \in SlabPages' PROVE page'[q].inuse = Cardinality(Out(q)')
    <3>1. CASE q = p
      <4>1. page[p].inuse = Cardinality(Out(p)) BY <1>2 DEF Counts
      <4>2. Cardinality(Out(p)') = Cardinality(Out(p)) - 1 BY <1>1, <1>2, <1>p, OutFreed
      <4>3. page'[p].inuse = page[p].inuse - 1 BY <1>5
      <4> QED BY <3>1, <4>1, <4>2, <4>3
    <3>2. CASE q # p
      <4>1. Out(q)' = Out(q) BY <1>1, <1>2, <1>6, <1>p, <3>2, OutFreed
      <4>2. page'[q] = page[q] BY <1>5, <1>6, <3>2 DEF SlabPages
      <4> QED BY <1>6, <4>1, <4>2 DEF Counts
    <3> QED BY <3>1, <3>2
  <2>2. ASSUME NEW d \in Cache
        PROVE  page_count'[d] = 2 * Cardinality({q \in SlabPages' : page'[q].slab = d})
    <3> HIDE DEF IInv, Orderly
    <3>1. \A q \in SlabPages : page'[q].slab = page[q].slab BY <1>2, <1>5 DEF SlabPages
    <3>2. {q \in SlabPages' : page'[q].slab = d} = {q \in SlabPages : page[q].slab = d}
      BY <1>6, <3>1
    <3> QED BY <1>1, <3>2 DEF Counts, IInv, Orderly
  <2> QED BY <1>7, <2>1, <2>2 DEF Counts
<1>14. ObjectsApart'
  <2>1. TypeOK' /\ BlocksApart' /\ Slabs' /\ Held' => ObjectsApart' BY Disjoint, PTL
  <2> QED BY <1>8, <1>9, <1>10, <1>11, <2>1
<1>15. Linkage'
  <2> SUFFICES ASSUME NEW q \in SlabPages
               PROVE  /\ partial'[page'[q].slab] = q
                      /\ lru'[q] = IF page'[q].inuse = page'[q].tot THEN Unlinked ELSE Alone(q)
    BY <1>6 DEF Linkage
  <2>1. q \in Page BY DEF SlabPages
  <2>2. CASE q = p
    <3>1. page'[p].inuse # page'[p].tot BY <1>3, <1>5
    <3>2. partial[c] = p BY <1>2 DEF Linkage
    <3> QED BY <1>1, <1>5, <1>l, <2>2, <3>1, <3>2
  <2>3. CASE q # p BY <1>1, <1>5, <1>l, <2>1, <2>3 DEF Linkage
  <2> QED BY <2>2, <2>3
<1> QED BY <1>8, <1>9, <1>10, <1>11, <1>12, <1>13, <1>14, <1>15

\* The object was the only one of its page, which leaves the cache.
LEMMA DrainStep ==
  ASSUME IInv, ~strayed, NEW x \in objs, kmem_free(x), page[PageOf(x[1])].inuse = 1
  PROVE  IInv'
<1> USE DEF IInv, Orderly
<1>p. PICK p : p = PageOf(x[1]) OBVIOUS
<1>c. PICK c : c = page[p].slab OBVIOUS
<1>1. /\ c # Null /\ objs' = objs \ {x}
      /\ obj_count' = [obj_count EXCEPT ![c] = @ - 1]
      /\ page' = [page EXCEPT ![p].inuse = 0, ![p].slab = Null, ![p].freelist = Null]
      /\ page_count' = [page_count EXCEPT ![c] = @ - 2]
      /\ Buddy!Free(<<p, Order>>)
      /\ UNCHANGED <<lru, link, partial, strayed>>
  BY <1>p, <1>c DEF kmem_free, Drain
<1>2. /\ p \in SlabPages /\ p \in Page /\ p \in Nat /\ p + 1 \in Page
      /\ page[p].slab = c /\ x[2] = c /\ c \in Cache /\ page[p].inuse = 1
  BY <1>p, <1>c, <1>1, FreeOwner, SlabBlock
<1>3. /\ IsFiniteSet(Out(p)) /\ x \in Out(p) /\ Cardinality(Out(p)) = 1
      /\ \A q \in SlabPages : q # p => Out(q)' = Out(q)
  BY <1>1, <1>2, <1>p, OutFreed DEF Counts
<1>4. Out(p) = {x}
  <2>1. PICK y : Out(p) = {y} BY <1>3, FS_Singleton
  <2> QED BY <1>3, <2>1
<1>5. /\ page'[p].slab = Null
      /\ \A q \in Page : q # p => page'[q] = page[q]
      /\ page' \in [Page -> [slab : Cache \cup {Null}, tot : Nat, inuse : Nat,
                             freelist : Addr \cup {Null}]]
  <2>1. page \in [Page -> [slab : Cache \cup {Null}, tot : Nat, inuse : Nat,
                           freelist : Addr \cup {Null}]]
    BY DEF TypeOK
  <2>2. page'[p].slab = Null /\ \A q \in Page : q # p => page'[q] = page[q]
    BY <1>1, <1>2, <2>1
  <2>3. page' \in [Page -> [slab : Cache \cup {Null}, tot : Nat, inuse : Nat,
                            freelist : Addr \cup {Null}]]
    BY <1>1, <1>2, <2>1
  <2> QED BY <2>2, <2>3
<1>6. SlabPages' = SlabPages \ {p} /\ \A q \in SlabPages' : q \in SlabPages /\ page'[q] = page[q]
  BY <1>2, <1>5 DEF SlabPages
<1>7. IsFiniteSet(objs') /\ obj_count' \in [Cache -> Nat]
      /\ \A d \in Cache : obj_count'[d] = Cardinality({y \in objs' : y[2] = d})
  BY <1>1, <1>2, CountedDown DEF TypeOK
<1>8. /\ <<p, Order>> \in given /\ given' = given \ {<<p, Order>>}
      /\ BlocksApart' /\ free' \subseteq Page /\ given' \subseteq Page \X {0, Order}
  BY <1>1, <1>2, FreeApart DEF Slabs, Buddy!Free
<1>9. ASSUME NEW d \in Cache
      PROVE  /\ page_count'[d] \in Nat
             /\ page_count'[d] = 2 * Cardinality({q \in SlabPages' : page'[q].slab = d})
  <2> DEFINE Of == {q \in SlabPages : page[q].slab = d}
  <2>1. IsFiniteSet(Of) BY PagesFinite, FS_Subset
  <2>2. page_count[d] = 2 * Cardinality(Of) BY DEF Counts
  <2>3. CASE d = c
    <3>1. {q \in SlabPages' : page'[q].slab = d} = Of \ {p} BY <1>6
    <3>2. p \in Of BY <1>2, <2>3
    <3> HIDE DEF Of
    <3>3. IsFiniteSet(Of \ {p}) /\ Cardinality(Of \ {p}) = Cardinality(Of) - 1
          /\ Cardinality(Of) \in Nat
      BY <2>1, <3>2, FS_RemoveElement, FS_CardinalityType
    <3>4. Cardinality(Of \ {p}) \in Nat BY <3>3, FS_CardinalityType
    <3>5. PICK m \in Nat : m = Cardinality(Of \ {p}) BY <3>4
    <3>6. page_count[d] = 2 * (m + 1) BY <2>2, <3>3, <3>5
    <3>7. page_count'[d] = page_count[d] - 2 BY <1>1, <2>3 DEF TypeOK
    <3>8. page_count'[d] = 2 * m BY <3>6, <3>7
    <3>9. Cardinality({q \in SlabPages' : page'[q].slab = d}) = m BY <3>1, <3>5
    <3> QED BY <3>8, <3>9
  <2>4. CASE d # c
    <3>1. {q \in SlabPages' : page'[q].slab = d} = Of BY <1>2, <1>6, <2>4
    <3>2. page_count'[d] = page_count[d] /\ page_count[d] \in Nat BY <1>1, <2>4 DEF TypeOK
    <3> QED BY <2>2, <3>1, <3>2
  <2> QED BY <2>3, <2>4
<1>10. TypeOK'
  <2>1. page_count' \in [Cache -> Nat] BY <1>1, <1>9 DEF TypeOK
  <2>2. objs' \subseteq Addr \X Cache BY <1>1 DEF TypeOK
  <2> QED BY <1>1, <1>5, <1>7, <1>8, <2>1, <2>2 DEF TypeOK
<1>11. Slabs'
  <2>1. \A q \in SlabPages' : <<q, Order>> \in given' BY <1>6, <1>8 DEF Slabs
  <2> QED BY <1>6, <2>1 DEF Slabs
<1>12. Held'
  <2> SUFFICES ASSUME NEW y \in objs'
               PROVE  \E q \in SlabPages' : page'[q].slab = y[2] /\ y[1] \in Grid(q, y[2])
    BY DEF Held
  <2>1. y \in objs /\ y \notin Out(p) BY <1>1, <1>4
  <2>2. PICK q \in SlabPages : page[q].slab = y[2] /\ y[1] \in Grid(q, y[2])
    BY <2>1 DEF Held
  <2>3. q # p
    <3>1. y[2] \in Cache /\ q \in Nat BY <2>1, SlabBlock DEF TypeOK
    <3>2. PageOf(y[1]) \in {q, q + 1} BY <2>2, <3>1, GridInBlock
    <3> QED BY <2>1, <3>2 DEF Out
  <2> QED BY <1>6, <2>2, <2>3
<1>13. Chains'
  <2> SUFFICES ASSUME NEW q \in SlabPages' PROVE \E t : FreeList(q, t)' BY DEF Chains
  <2>1. q \in SlabPages /\ page'[q] = page[q] BY <1>6
  <2>2. PICK t : FreeList(q, t) BY <2>1 DEF Chains
  <2>3. Left(q)' = Left(q) BY <2>1 DEF Left
  <2>4. \A n \in 1 .. Left(q) : <<t[n], page[q].slab>> \notin objs' BY <1>1, <2>2 DEF FreeList
  <2>5. IsChain(t, Left(q), Grid(q, page[q].slab), link, page[q].freelist)
    BY <2>2 DEF FreeList
  <2>6. FreeList(q, t)' BY <1>1, <2>1, <2>3, <2>4, <2>5 DEF FreeList, IsChain
  <2> QED BY <2>6
<1>14. Counts'
  <2>1. \A q \in SlabPages' : page'[q].inuse = Cardinality(Out(q)')
    BY <1>3, <1>6 DEF Counts
  <2> QED BY <1>7, <1>9, <2>1 DEF Counts
<1>15. ObjectsApart'
  <2>1. TypeOK' /\ BlocksApart' /\ Slabs' /\ Held' => ObjectsApart' BY Disjoint, PTL
  <2> QED BY <1>8, <1>10, <1>11, <1>12, <2>1
<1>16. Linkage' BY <1>1, <1>6 DEF Linkage
<1> QED BY <1>8, <1>10, <1>11, <1>12, <1>13, <1>14, <1>15, <1>16

-----------------------------------------------------------------------------
LEMMA Stutter == ASSUME IInv, UNCHANGED vars PROVE IInv'
<1> USE DEF IInv, Orderly, vars
<1>1. SlabPages' = SlabPages BY DEF SlabPages
<1>2. TypeOK' BY DEF TypeOK
<1>3. ASSUME ~strayed PROVE BlocksApart' /\ Slabs' /\ Held' /\ Chains' /\ Counts' /\ Linkage'
  BY <1>1, <1>3 DEF BlocksApart, Slabs, Held, Chains, FreeList, Left, Counts, Out, Linkage
<1>4. ObjectsApart' BY <1>1 DEF ObjectsApart
<1> QED BY <1>2, <1>3, <1>4

LEMMA Inductive == IInv /\ [Next]_vars => IInv'
<1> SUFFICES ASSUME IInv, [Next]_vars PROVE IInv' OBVIOUS
<1>1. ASSUME NEW c \in Cache, ~strayed, kmalloc(c) PROVE IInv'
  BY <1>1, AllocFirstStep, AllocPartialStep DEF kmalloc
<1>2. ASSUME ~strayed, kmalloc_page PROVE IInv' BY <1>2, KmallocPageStep
<1>3. ASSUME NEW x \in objs, ~strayed, kmem_free(x) PROVE IInv'
  BY <1>3, PutBackStep, DrainStep
<1>4. ASSUME NEW x \in objs, ~strayed, kfree_second(x) PROVE IInv' BY <1>4, KfreeSecondStep
<1>5. ASSUME ~strayed, kfree_page PROVE IInv' BY <1>5, KfreePageStep
<1>6. CASE UNCHANGED vars BY <1>6, Stutter
<1> QED BY <1>1, <1>2, <1>3, <1>4, <1>5, <1>6 DEF Next, kfree

\* The inductive invariant holds of every behaviour.
THEOREM Invariance == Spec => []IInv
BY InitOK, Inductive, PTL DEF Spec

\* Every variable keeps its type; no counter drops below zero.
THEOREM TypeCorrect == Spec => []TypeOK
<1>1. IInv => TypeOK BY DEF IInv
<1> QED BY <1>1, Invariance, PTL

\* kmalloc never hands out a byte that a caller holds, nor one outside the
\* block its cache got from the page allocator.
THEOREM NoOverlap == Spec => []ObjectsApart
<1>1. IInv => ObjectsApart BY DEF IInv
<1> QED BY <1>1, Invariance, PTL

\* page->inuse, obj_count and page_count count what is handed out, and a page is
\* linked just while it has an object left, until kfree returns a page of a slab
\* to the page allocator.
THEOREM CountersAgree == Spec => []CountsMatch
<1>1. IInv => CountsMatch BY DEF IInv, Orderly, Counts, Linkage, CountsMatch
<1> QED BY <1>1, Invariance, PTL
-----------------------------------------------------------------------------
(* The links, followed.  A recursive function is any that satisfies its       *)
(* equation; this one is the list, or there would be a first place where the  *)
(* two differ.                                                                *)

Walks(w, left, links, first) ==
  w = [n \in 1 .. left |-> IF n = 1 THEN first ELSE links[w[n - 1]]]

LEMMA WalkIsChain ==
  ASSUME NEW G, NEW left \in Nat, NEW s, NEW links, NEW first, IsChain(s, left, G, links, first),
         NEW w, Walks(w, left, links, first)
  PROVE  w = s
<1> DEFINE T == {n \in 1 .. left : w[n] # s[n]}
<1> USE DEF Walks
<1>1. s = [n \in 1 .. left |-> s[n]] BY DEF IsChain
<1>2. ASSUME T # {} PROVE FALSE
  <2>1. T \in SUBSET Nat OBVIOUS
  <2>2. PICK n \in T : \A m \in T : n <= m
    <3> HIDE DEF T
    <3> QED BY <1>2, <2>1, Least
  <2>3. n \in 1 .. left /\ w[n] # s[n] /\ left # 0 OBVIOUS
  <2>4. CASE n = 1 BY <2>3, <2>4 DEF IsChain
  <2>5. CASE n # 1
    <3>1. n - 1 \in 1 .. left - 1 /\ n - 1 \in 1 .. left /\ n - 1 + 1 = n BY <2>3, <2>5
    <3>2. w[n - 1] = s[n - 1] BY <2>2, <3>1
    <3>3. links[s[n - 1]] = s[n] BY <3>1 DEF IsChain
    <3> QED BY <2>3, <2>5, <3>2, <3>3
  <2> QED BY <2>4, <2>5
<1>3. \A n \in 1 .. left : w[n] = s[n] BY <1>2
<1>4. w = [n \in 1 .. left |-> w[n]] OBVIOUS
<1> QED BY <1>1, <1>3, <1>4

\* A list satisfies the equation, so there is a function that does.
LEMMA ChainIsWalk ==
  ASSUME NEW G, NEW left \in Nat, NEW s, NEW links, NEW first, IsChain(s, left, G, links, first)
  PROVE  Walks(s, left, links, first)
<1> USE DEF Walks
<1>1. s = [n \in 1 .. left |-> s[n]] BY DEF IsChain
<1>2. ASSUME NEW n \in 1 .. left
      PROVE  s[n] = IF n = 1 THEN first ELSE links[s[n - 1]]
  <2>1. CASE n = 1 BY <2>1 DEF IsChain
  <2>2. CASE n # 1
    <3>1. n - 1 \in 1 .. left - 1 /\ n - 1 + 1 = n BY <2>2
    <3> QED BY <2>2, <3>1 DEF IsChain
  <2> QED BY <2>1, <2>2
<1> QED BY <1>1, <1>2

\* What the lists need, in every state: kfree of an object in the second page
\* of its block spoils what is known of the page allocator, and not the lists.
Lists == Chains /\ \A p \in SlabPages : p + 1 \in Page

LEMMA ListsUnstrayed == IInv /\ ~strayed => Lists
<1> SUFFICES ASSUME IInv, ~strayed PROVE \A p \in SlabPages : p + 1 \in Page
  BY DEF Lists, IInv, Orderly
<1> QED BY SlabBlock DEF IInv, Orderly

LEMMA ListsHold == IInv /\ Lists /\ [Next]_vars => Lists'
<1> SUFFICES ASSUME IInv, Lists, [Next]_vars PROVE Lists' OBVIOUS
<1>2. (IInv /\ ~strayed => Lists)' BY ListsUnstrayed, PTL
<1>3. IInv' BY Inductive
<1>4. CASE ~strayed' BY <1>2, <1>3, <1>4
<1>5. CASE UNCHANGED <<page, link>> /\ objs' \subseteq objs
  <2>1. SlabPages' = SlabPages BY <1>5 DEF SlabPages
  <2> QED BY <1>5, <2>1 DEF Lists, Chains, FreeList, Left
<1>6. ASSUME strayed', ~UNCHANGED vars
      PROVE  UNCHANGED <<page, link>> /\ objs' \subseteq objs
  <2>1. ~strayed /\ Next BY <1>6 DEF Next
  <2>2. ASSUME NEW c \in Cache, kmalloc(c) PROVE ~strayed' BY <2>1, <2>2 DEF kmalloc
  <2>3. ASSUME kmalloc_page PROVE ~strayed' BY <2>1, <2>3 DEF kmalloc_page
  <2>4. ASSUME kfree_page PROVE ~strayed' BY <2>1, <2>4 DEF kfree_page
  <2>5. ASSUME NEW x \in objs, kmem_free(x) PROVE ~strayed' BY <2>1, <2>5 DEF kmem_free
  <2>6. PICK x \in objs : kfree_second(x)
    BY <1>6, <2>1, <2>2, <2>3, <2>4, <2>5 DEF Next, kfree
  <2> QED BY <2>6 DEF kfree_second
<1>7. CASE UNCHANGED vars BY <1>5, <1>7 DEF vars
<1>8. strayed' \in BOOLEAN BY <1>3 DEF IInv, TypeOK
<1> QED BY <1>4, <1>5, <1>6, <1>7, <1>8

LEMMA ListsWalked == ASSUME TypeOK, Lists PROVE FreeObjectsLinked
<1> SUFFICES ASSUME NEW p \in SlabPages
             PROVE  LET left == page[p].tot - page[p].inuse
                        walk[n \in 1 .. left] ==
                          IF n = 1 THEN page[p].freelist ELSE link[walk[n - 1]]
                    IN  \A n \in 1 .. left :
                          /\ walk[n] # Null /\ <<walk[n], page[p].slab>> \notin objs
                          /\ PageOf(walk[n]) \in {p, p + 1}
                          /\ \A m \in 1 .. left : walk[m] = walk[n] => m = n
  BY DEF FreeObjectsLinked
<1> DEFINE left == page[p].tot - page[p].inuse
           walk[n \in 1 .. left] == IF n = 1 THEN page[p].freelist ELSE link[walk[n - 1]]
           first == page[p].freelist
           c == page[p].slab
<1>1. p \in Page /\ page[p].slab \in Cache /\ left \in Int BY DEF TypeOK, SlabPages
<1>2. p \in Nat /\ p + 1 \in Page BY <1>1, Sizes DEF Lists, Page
<1>3. PICK s : FreeList(p, s) BY DEF Lists, Chains
<1>4. CASE left \in Nat
  <2>1. IsChain(s, left, Grid(p, c), link, first) BY <1>3 DEF FreeList, Left
  <2>2. Walks(s, left, link, first)
    <3> HIDE DEF left, first, c, walk
    <3> QED BY <1>4, <2>1, ChainIsWalk
  <2>3. walk = CHOOSE w : Walks(w, left, link, first) BY DEF Walks
  <2>4. Walks(walk, left, link, first)
    <3> HIDE DEF left, first, c, walk
    <3> QED BY <2>2, <2>3
  <2>5. walk = s
    <3> HIDE DEF left, first, c, walk
    <3> QED BY <1>4, <2>1, <2>4, WalkIsChain
  <2>6. ASSUME NEW n \in 1 .. left
        PROVE  /\ s[n] # Null /\ <<s[n], c>> \notin objs
               /\ PageOf(s[n]) \in {p, p + 1}
               /\ \A m \in 1 .. left : s[m] = s[n] => m = n
    <3>1. s[n] \in Grid(p, c) BY <2>1 DEF IsChain
    <3>2. s[n] \in Addr /\ PageOf(s[n]) \in {p, p + 1} BY <1>1, <1>2, <3>1, GridInBlock, GridAddr
    <3>3. Null \notin Addr BY NullAssumption, Sizes DEF Addr
    <3>4. <<s[n], c>> \notin objs BY <1>3 DEF FreeList, Left
    <3>5. \A m \in 1 .. left : s[m] = s[n] => m = n BY <2>1 DEF IsChain
    <3> QED BY <3>2, <3>3, <3>4, <3>5
  <2>7. \A n \in 1 .. left :
          /\ walk[n] # Null /\ <<walk[n], page[p].slab>> \notin objs
          /\ PageOf(walk[n]) \in {p, p + 1}
          /\ \A m \in 1 .. left : walk[m] = walk[n] => m = n
    <3> HIDE DEF walk
    <3> QED BY <2>5, <2>6
  <2> QED BY <2>7
<1>5. CASE left \notin Nat
  <2>1. 1 .. left = {} BY <1>1, <1>5
  <2> QED BY <2>1
<1> QED BY <1>4, <1>5

\* The links from page->freelist lead through every object that is left of a
\* slab page, each once and none of them handed out, whatever the order in
\* which the others came back.
THEOREM FreeListsWhole == Spec => []FreeObjectsLinked
<1>1. Init => Lists
  <2>1. Init => SlabPages = {} BY DEF Init, SlabPages, NoPage
  <2> QED BY <2>1 DEF Lists, Chains
<1>2. IInv /\ Lists => FreeObjectsLinked BY ListsWalked DEF IInv
<1> QED BY <1>1, <1>2, Invariance, ListsHold, PTL DEF Spec
=============================================================================
