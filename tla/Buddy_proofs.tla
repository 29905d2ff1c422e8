---------------------------- MODULE Buddy_proofs -----------------------------
(***************************************************************************)
(* Theorems about the buddy allocator, for every number of orders and      *)
(* every memory: the free lists stay rings, the bitmap and the lists       *)
(* describe the same disjoint blocks, free_pages merges with listed        *)
(* buddies only, no frame is handed out twice or lost, free memory is      *)
(* always fully coalesced, every step of the allocator is a step of        *)
(* PageAlloc, and until a page is freed no list loses its head.            *)
(***************************************************************************)
EXTENDS Buddy, FiniteSetTheorems, TLAPS

-----------------------------------------------------------------------------
(* The ring operators of ListHead, for links over any set of nodes: what     *)
(* each list.h call makes of the ring it works on, and that it leaves every  *)
(* other ring alone.                                                         *)

\* IsRing looks at the links of the members only: links that agree on S form
\* the same ring (a list.h call on one list does not disturb another).
LEMMA RingFrame ==
  ASSUME NEW links, NEW l2, NEW S, IsRing(links, S), \A x \in S : l2[x] = links[x]
  PROVE  IsRing(l2, S)
  BY DEF IsRing

\* No page at all is a ring: the empty free list.
LEMMA RingEmpty == ASSUME NEW links PROVE IsRing(links, {})
  BY DEF IsRing

\* LIST_HEAD_INIT keeps the links well typed, touches only its node and
\* makes a ring of one.
LEMMA RingInit ==
  ASSUME NEW Node, NEW links \in Links(Node), NEW e \in Node
  PROVE  /\ ListHeadInit(links, e) \in Links(Node)
         /\ \A x \in Node \ {e} : ListHeadInit(links, e)[x] = links[x]
         /\ IsRing(ListHeadInit(links, e), {e})
<1> DEFINE l2 == ListHeadInit(links, e)
<1>1. l2 \in Links(Node) /\ \A x \in Node \ {e} : l2[x] = links[x]
  BY DEF ListHeadInit, Links
<1>2. l2[e] = [prev |-> e, next |-> e]
  BY DEF ListHeadInit, Links
<1>3. IsRing(l2, {e})
  BY <1>2 DEF IsRing
<1>. QED  BY <1>1, <1>3

\* list_add_after inserts a new node after any node of a ring: the result is
\* one ring with the new node, and no other node's links change.
LEMMA RingAdd ==
  ASSUME NEW Node, NEW links \in Links(Node), NEW S \in SUBSET Node,
         NEW h \in S, NEW e \in Node \ S, IsRing(links, S)
  PROVE  /\ ListAddAfter(links, e, h) \in Links(Node)
         /\ \A x \in Node \ (S \cup {e}) : ListAddAfter(links, e, h)[x] = links[x]
         /\ IsRing(ListAddAfter(links, e, h), S \cup {e})
<1> DEFINE l2 == ListAddAfter(links, e, h)
           n  == links[h].next
<1>1. n \in S /\ links[n].prev = h
  BY DEF IsRing
<1>2. l2 \in Links(Node)
  BY <1>1 DEF ListAddAfter, Links
<1>3. /\ l2[e].prev = h /\ l2[e].next = n
      /\ l2[h].next = e
      /\ l2[n].prev = e
      /\ \A x \in Node \ {e, h} : l2[x].next = links[x].next
      /\ \A x \in Node \ {e, n} : l2[x].prev = links[x].prev
  BY <1>1 DEF ListAddAfter, Links
<1>4. \A x \in Node \ (S \cup {e}) : l2[x] = links[x]
  BY <1>1 DEF ListAddAfter, Links
<1>5. ASSUME NEW x \in S \cup {e}
      PROVE  l2[x].next \in S \cup {e} /\ l2[l2[x].next].prev = x
  <2>1. CASE x = e  BY <2>1, <1>1, <1>3
  <2>2. CASE x = h  BY <2>2, <1>3
  <2>3. CASE x \in S \ {h}
    <3>1. links[x].next \in S /\ links[links[x].next].prev = x  BY <2>3 DEF IsRing
    <3>2. links[x].next # n  BY <3>1, <1>1, <2>3
    <3>. QED  BY <3>1, <3>2, <1>3, <2>3
  <2>. QED  BY <2>1, <2>2, <2>3
<1>6. ASSUME NEW x \in S \cup {e}
      PROVE  l2[x].prev \in S \cup {e} /\ l2[l2[x].prev].next = x
  <2>1. CASE x = e  BY <2>1, <1>3
  <2>2. CASE x = n  BY <2>2, <1>3, <1>1
  <2>3. CASE x \in S \ {n}
    <3>1. links[x].prev \in S /\ links[links[x].prev].next = x  BY <2>3 DEF IsRing
    <3>2. links[x].prev # h  BY <3>1, <2>3
    <3>. QED  BY <3>1, <3>2, <1>3, <2>3
  <2>. QED  BY <2>1, <2>2, <2>3
<1>7. ASSUME NEW T \in SUBSET (S \cup {e}), T # {}, \A x \in T : l2[x].next \in T
      PROVE  T = S \cup {e}
  <2> DEFINE U == T \ {e}
  <2>1. U # {}
    BY <1>7, <1>1, <1>3
  <2>2. \A x \in U : links[x].next \in U
    <3> SUFFICES ASSUME NEW x \in U PROVE links[x].next \in U
      OBVIOUS
    <3>1. CASE x = h
      <4>1. e \in T  BY <3>1, <1>7, <1>3
      <4>. QED  BY <4>1, <3>1, <1>7, <1>3, <1>1
    <3>2. CASE x # h
      <4>1. l2[x].next = links[x].next  BY <3>2, <1>3
      <4>2. links[x].next \in S  BY DEF IsRing
      <4>. QED  BY <4>1, <4>2, <1>7
    <3>. QED  BY <3>1, <3>2
  <2>3. U = S  BY <2>1, <2>2 DEF IsRing
  <2>4. e \in T  BY <2>3, <1>7, <1>3
  <2>. QED  BY <2>3, <2>4
<1>8. IsRing(l2, S \cup {e})
  BY <1>5, <1>6, <1>7 DEF IsRing
<1>. QED  BY <1>2, <1>4, <1>8

\* list_del takes any node out of its ring: what is left is one ring, or
\* nothing, and no node outside the ring changes.
LEMMA RingDel ==
  ASSUME NEW Node, NEW links \in Links(Node), NEW S \in SUBSET Node,
         NEW e \in S, IsRing(links, S)
  PROVE  /\ ListDel(links, e) \in Links(Node)
         /\ \A x \in Node \ S : ListDel(links, e)[x] = links[x]
         /\ IsRing(ListDel(links, e), S \ {e})
<1> DEFINE l2 == ListDel(links, e)
           p  == links[e].prev
           n  == links[e].next
<1>1. p \in S /\ n \in S /\ links[p].next = e /\ links[n].prev = e
  BY DEF IsRing
<1>2. l2 \in Links(Node)
  BY <1>1 DEF ListDel, Links, Unlinked
<1>3. /\ p # e => l2[p].next = n
      /\ n # e => l2[n].prev = p
      /\ \A x \in Node \ {e, p} : l2[x].next = links[x].next
      /\ \A x \in Node \ {e, n} : l2[x].prev = links[x].prev
  BY <1>1 DEF ListDel, Links, Unlinked
<1>4. \A x \in Node \ S : l2[x] = links[x]
  BY <1>1 DEF ListDel, Links
<1>5. p = e <=> n = e
  BY <1>1
<1>6. ASSUME NEW x \in S \ {e}
      PROVE  l2[x].next \in S \ {e} /\ l2[l2[x].next].prev = x
  <2>0. links[x].next \in S /\ links[links[x].next].prev = x  BY DEF IsRing
  <2>1. CASE x = p  BY <2>1, <1>1, <1>3, <1>5
  <2>2. CASE x # p
    <3>1. links[x].next # e  BY <2>0, <2>2
    <3>2. links[x].next # n  BY <2>0, <1>1
    <3>. QED  BY <3>1, <3>2, <2>0, <2>2, <1>3
  <2>. QED  BY <2>1, <2>2
<1>7. ASSUME NEW x \in S \ {e}
      PROVE  l2[x].prev \in S \ {e} /\ l2[l2[x].prev].next = x
  <2>0. links[x].prev \in S /\ links[links[x].prev].next = x  BY DEF IsRing
  <2>1. CASE x = n  BY <2>1, <1>1, <1>3, <1>5
  <2>2. CASE x # n
    <3>1. links[x].prev # e  BY <2>0, <2>2
    <3>2. links[x].prev # p  BY <2>0, <1>1
    <3>. QED  BY <3>1, <3>2, <2>0, <2>2, <1>3
  <2>. QED  BY <2>1, <2>2
<1>8. ASSUME NEW T \in SUBSET (S \ {e}), T # {}, \A x \in T : l2[x].next \in T
      PROVE  T = S \ {e}
  <2>1. CASE p \in T
    <3> DEFINE U == T \cup {e}
    <3>1. p # e /\ n \in T  BY <2>1, <1>8, <1>3
    <3>2. \A x \in U : links[x].next \in U
      <4> SUFFICES ASSUME NEW x \in U PROVE links[x].next \in U
        OBVIOUS
      <4>1. CASE x = e  BY <4>1, <3>1
      <4>2. CASE x = p  BY <4>2, <1>1
      <4>3. CASE x \in T \ {p}  BY <4>3, <1>8, <1>3
      <4>. QED  BY <4>1, <4>2, <4>3
    <3>3. U \in SUBSET S /\ U # {}  OBVIOUS
    <3>4. U = S
      <4> HIDE DEF U
      <4>. QED  BY <3>2, <3>3 DEF IsRing
    <3>. QED  BY <3>4
  <2>2. CASE p \notin T
    <3>1. \A x \in T : links[x].next \in T  BY <2>2, <1>8, <1>3
    <3>2. T = S  BY <3>1, <1>8 DEF IsRing
    <3>. QED  BY <3>2
  <2>. QED  BY <2>1, <2>2
<1>9. IsRing(l2, S \ {e})
  BY <1>6, <1>7, <1>8 DEF IsRing
<1>. QED  BY <1>2, <1>4, <1>9

-----------------------------------------------------------------------------
(* The arithmetic of buddy blocks: how two aligned blocks can lie to each    *)
(* other, and what splitting, merging, taking and giving back a block do to  *)
(* a set of disjoint blocks.  No state of the allocator occurs here.         *)

Aligned(p, o) == p % Size[o] = 0

\* <<first frame, order>> of a block, and its frames
Block == Nat \X Orders
FramesOf(b) == Frames(b[1], b[2])

\* The blocks of B are aligned, disjoint, and cover exactly the frames in F.
Tiles(B, F) ==
  /\ B \subseteq Block
  /\ \A b \in B : Aligned(b[1], b[2])
  /\ F = UNION {FramesOf(b) : b \in B}
  /\ \A b, c \in B : b # c => FramesOf(b) \cap FramesOf(c) = {}

-----------------------------------------------------------------------------
\* Division with remainder, as the provers know it for plain variables.
LEMMA DivMod ==
  ASSUME NEW n \in Nat, NEW d \in Nat \ {0}
  PROVE  n = d * (n \div d) + (n % d) /\ n \div d \in Nat
<1>1. n = d * (n \div d) + (n % d)  OBVIOUS
<1>2. n \div d \in Nat  OBVIOUS
<1>. QED  BY <1>1, <1>2

\* A position is aligned to an order iff it is a multiple of the block size.
LEMMA AlignedMultiple ==
  ASSUME NEW p \in Nat, NEW o \in 0 .. MaxOrderCnt
  PROVE  Aligned(p, o) <=> \E k \in Nat : p = k * Size[o]
<1> DEFINE s == Size[o]
<1>1. s \in Nat \ {0}
  BY SizeAssumption
<1> HIDE DEF s
<1>2. p = s * (p \div s) + (p % s) /\ p \div s \in Nat
  BY <1>1, DivMod
<1>3. \A k \in Nat : (k * s) % s = 0
  BY <1>1
<1>4. ASSUME p % s = 0 PROVE \E k \in Nat : p = k * s
  <2>1. p = (p \div s) * s  BY <1>1, <1>2, <1>4
  <2>. QED  BY <2>1, <1>2
<1>5. ASSUME NEW k \in Nat, p = k * s PROVE p % s = 0
  BY <1>3, <1>5
<1>. QED  BY <1>4, <1>5 DEF Aligned, s

\* The size of a larger order is a multiple of the size of a smaller one.
LEMMA SizeMultiple ==
  ASSUME NEW a \in 0 .. MaxOrderCnt, NEW b \in 0 .. MaxOrderCnt, a <= b
  PROVE  \E m \in Nat \ {0} : Size[b] = m * Size[a]
<1> DEFINE s == Size[a]
           t == Size[b]
<1>1. s \in Nat \ {0} /\ t \in Nat \ {0} /\ t % s = 0
  BY SizeAssumption
<1>2. t = s * (t \div s) + (t % s) /\ t \div s \in Nat
  BY <1>1, DivMod
<1> HIDE DEF s, t
<1>3. t = (t \div s) * s /\ t \div s # 0
  BY <1>1, <1>2
<1>. QED  BY <1>2, <1>3 DEF s, t

\* Two aligned blocks are nested or disjoint: a smaller one never straddles
\* the boundary of a larger one.
LEMMA Nesting ==
  ASSUME NEW a \in 0 .. MaxOrderCnt, NEW b \in 0 .. MaxOrderCnt, a <= b,
         NEW p \in Nat, NEW q \in Nat, Aligned(p, a), Aligned(q, b),
         Frames(p, a) \cap Frames(q, b) # {}
  PROVE  Frames(p, a) \subseteq Frames(q, b)
<1> DEFINE s == Size[a]
           t == Size[b]
<1>1. s \in Nat \ {0} /\ t \in Nat \ {0}
  BY SizeAssumption
<1>2. PICK k \in Nat : p = k * s
  BY AlignedMultiple
<1>3. PICK j \in Nat : q = j * t
  BY AlignedMultiple
<1>4. PICK m \in Nat \ {0} : t = m * s
  BY SizeMultiple
<1>5. PICK x \in Int : p <= x /\ x <= p + s - 1 /\ q <= x /\ x <= q + t - 1
  BY <1>1 DEF Frames
<1> HIDE DEF s, t
<1> DEFINE u == j * m
<1>6. u \in Nat /\ q = u * s /\ q + t = (u + m) * s
  BY <1>1, <1>3, <1>4
<1>7. u <= k
  <2>1. SUFFICES ASSUME k < u PROVE FALSE  BY <1>6
  <2>2. k + 1 <= u  BY <2>1, <1>6
  <2>3. (k + 1) * s <= u * s  BY <2>2, <1>1, <1>6
  <2>4. (k + 1) * s = p + s  BY <1>1, <1>2
  <2>. QED  BY <2>3, <2>4, <1>5, <1>6, <1>1
<1>8. k + 1 <= u + m
  <2>1. SUFFICES ASSUME u + m <= k PROVE FALSE  BY <1>6
  <2>2. (u + m) * s <= k * s  BY <2>1, <1>1, <1>6
  <2>. QED  BY <2>2, <1>2, <1>5, <1>6, <1>1
<1>9. u * s <= k * s /\ (k + 1) * s <= (u + m) * s
  BY <1>1, <1>6, <1>7, <1>8
<1>10. q <= p /\ p + s <= q + t
  BY <1>1, <1>2, <1>6, <1>9
<1>. QED  BY <1>1, <1>10 DEF Frames, s, t

\* The right half of a block starts Size[o] after the left one; both halves
\* are aligned, disjoint, and make up the block.
LEMMA Halves ==
  ASSUME NEW o \in Orders, NEW p \in Nat, Aligned(p, o + 1)
  PROVE  /\ p + Size[o] \in Nat
         /\ Aligned(p, o) /\ Aligned(p + Size[o], o)
         /\ Frames(p, o + 1) = Frames(p, o) \cup Frames(p + Size[o], o)
         /\ Frames(p, o) \cap Frames(p + Size[o], o) = {}
         /\ p \in Frames(p, o) /\ p + Size[o] \in Frames(p + Size[o], o)
<1> DEFINE s == Size[o]
<1>0. o \in 0 .. MaxOrderCnt /\ o + 1 \in 0 .. MaxOrderCnt
  BY MaxOrderCntAssumption DEF Orders
<1>1. s \in Nat \ {0} /\ Size[o + 1] = 2 * s
  BY SizeAssumption, <1>0
<1>2. PICK k \in Nat : p = k * Size[o + 1]
  BY AlignedMultiple, <1>0
<1> HIDE DEF s
<1>3. p = (2 * k) * s /\ p + s = (2 * k + 1) * s
  BY <1>1, <1>2
<1>4. Aligned(p, o) /\ Aligned(p + s, o)
  BY <1>0, <1>1, <1>3, AlignedMultiple DEF s
<1>. QED  BY <1>1, <1>4 DEF Frames, s

\* The buddy of an aligned block is the other half of the block one order up,
\* which starts at the lower of the two.
LEMMA BuddyLemma ==
  ASSUME NEW o \in Orders, NEW p \in Nat, Aligned(p, o)
  PROVE  LET q == BuddyOf(p, o)
             l == IF p > q THEN q ELSE p
         IN  /\ q \in Nat /\ l \in Nat
             /\ Aligned(q, o) /\ Aligned(l, o + 1)
             /\ Frames(l, o + 1) = Frames(p, o) \cup Frames(q, o)
             /\ Frames(p, o) \cap Frames(q, o) = {}
             /\ p # q
<1> DEFINE s == Size[o]
           t == Size[o + 1]
<1>0. o \in 0 .. MaxOrderCnt /\ o + 1 \in 0 .. MaxOrderCnt
  BY MaxOrderCntAssumption DEF Orders
<1>1. s \in Nat \ {0} /\ t = 2 * s
  BY SizeAssumption, <1>0
<1>2. PICK k \in Nat : p = k * s
  BY AlignedMultiple, <1>0
<1>3. CASE Aligned(p, o + 1)
  <2>1. BuddyOf(p, o) = p + s
    BY <1>3 DEF BuddyOf, Aligned
  <2>. QED  BY <2>1, <1>1, <1>3, Halves
<1>4. CASE ~Aligned(p, o + 1)
  <2>1. BuddyOf(p, o) = p - s
    BY <1>4 DEF BuddyOf, Aligned
  <2>2. PICK j \in Nat : k = 2 * j \/ k = 2 * j + 1
    <3>1. k = 2 * (k \div 2) \/ k = 2 * (k \div 2) + 1  OBVIOUS
    <3>. QED  BY <3>1
  <2>3. k = 2 * j + 1
    <3>1. SUFFICES ASSUME k = 2 * j PROVE FALSE  BY <2>2
    <3> HIDE DEF s, t
    <3>2. p = j * t  BY <3>1, <1>1, <1>2
    <3>. QED  BY <3>2, <1>0, <1>4, AlignedMultiple DEF t
  <2>4. p - s = j * t /\ p - s \in Nat
    <3> HIDE DEF s, t
    <3>1. p = j * (2 * s) + s  BY <1>1, <1>2, <2>3
    <3>. QED  BY <3>1, <1>1
  <2>5. Aligned(p - s, o + 1)
    BY <2>4, <1>0, AlignedMultiple
  <2>6. (p - s) + s = p  BY <1>1
  <2>. QED  BY <2>1, <2>4, <2>5, <2>6, <1>1, Halves
<1>. QED  BY <1>3, <1>4

-----------------------------------------------------------------------------
(* What the allocator's steps do to the set of free blocks. *)

\* Blocks are pairs, and no block is empty.
LEMMA BlockFrames ==
  ASSUME NEW b \in Block
  PROVE  /\ b = <<b[1], b[2]>> /\ b[1] \in Nat /\ b[2] \in Orders
         /\ b[2] \in 0 .. MaxOrderCnt
         /\ Size[b[2]] \in Nat \ {0}
         /\ b[1] \in FramesOf(b)
<1>1. b = <<b[1], b[2]>> /\ b[1] \in Nat /\ b[2] \in Orders
  BY DEF Block
<1>2. b[2] \in 0 .. MaxOrderCnt
  BY <1>1, MaxOrderCntAssumption DEF Orders
<1>3. Size[b[2]] \in Nat \ {0}
  BY <1>2, SizeAssumption
<1>. QED  BY <1>1, <1>2, <1>3 DEF FramesOf, Frames

\* Of two blocks of one order, one lies in the other only if they are the same.
LEMMA SameOrder ==
  ASSUME NEW o \in Orders, NEW p \in Nat, NEW q \in Nat,
         Frames(p, o) \subseteq Frames(q, o)
  PROVE  p = q
<1>1. Size[o] \in Nat \ {0}
  BY SizeAssumption, MaxOrderCntAssumption DEF Orders
<1>2. p \in Frames(p, o) /\ p + Size[o] - 1 \in Frames(p, o)
  BY <1>1 DEF Frames
<1>3. p \in Frames(q, o) /\ p + Size[o] - 1 \in Frames(q, o)
  BY <1>2
<1>. QED  BY <1>1, <1>3 DEF Frames

\* split_buddy_to_order replaces a block by its halves.
LEMMA TilesSplit ==
  ASSUME NEW B, NEW F, Tiles(B, F), NEW p \in Nat, NEW o \in Orders,
         o + 1 \in Orders, <<p, o + 1>> \in B
  PROVE  Tiles((B \ {<<p, o + 1>>}) \cup {<<p, o>>, <<p + Size[o], o>>}, F)
<1> DEFINE b  == <<p, o + 1>>
           l  == <<p, o>>
           r  == <<p + Size[o], o>>
           B2 == (B \ {b}) \cup {l, r}
<1>1. Aligned(p, o + 1)
  BY DEF Tiles
<1>2. /\ l \in Block /\ r \in Block /\ Aligned(l[1], l[2]) /\ Aligned(r[1], r[2])
      /\ FramesOf(b) = FramesOf(l) \cup FramesOf(r)
      /\ FramesOf(l) \cap FramesOf(r) = {}
  BY <1>1, Halves DEF FramesOf, Block
<1> HIDE DEF b, l, r
<1>3. b \in B
  BY DEF b
<1>4. B2 \subseteq Block /\ \A c \in B2 : Aligned(c[1], c[2])
  BY <1>2 DEF Tiles
<1>5. F = UNION {FramesOf(c) : c \in B2}
  BY <1>2, <1>3 DEF Tiles
<1>6. ASSUME NEW c \in B2, NEW d \in B2, c # d
      PROVE  FramesOf(c) \cap FramesOf(d) = {}
  <2>1. \A e \in B \ {b} : FramesOf(e) \cap FramesOf(b) = {}
    BY <1>3 DEF Tiles
  <2>2. \A e \in B \ {b} : FramesOf(e) \cap FramesOf(l) = {}
                        /\ FramesOf(e) \cap FramesOf(r) = {}
    BY <2>1, <1>2
  <2>. QED  BY <2>2, <1>2, <1>6 DEF Tiles
<1>. QED  BY <1>4, <1>5, <1>6 DEF Tiles, b, l, r

\* free_pages replaces two buddies by the block they make up.
LEMMA TilesMerge ==
  ASSUME NEW B, NEW F, Tiles(B, F), NEW p \in Nat, NEW o \in Orders,
         o + 1 \in Orders, <<p, o>> \in B, <<BuddyOf(p, o), o>> \in B
  PROVE  LET q == BuddyOf(p, o)
             l == IF p > q THEN q ELSE p
         IN  Tiles((B \ {<<p, o>>, <<q, o>>}) \cup {<<l, o + 1>>}, F)
<1> DEFINE q  == BuddyOf(p, o)
           l  == IF p > q THEN q ELSE p
           b  == <<p, o>>
           c  == <<q, o>>
           m  == <<l, o + 1>>
           B2 == (B \ {b, c}) \cup {m}
<1>1. Aligned(p, o)
  BY DEF Tiles
<1>2. /\ m \in Block /\ Aligned(m[1], m[2])
      /\ FramesOf(m) = FramesOf(b) \cup FramesOf(c)
  BY <1>1, BuddyLemma DEF FramesOf, Block
<1>3. b \in B /\ c \in B
  OBVIOUS
<1> HIDE DEF b, c, m
<1>4. B2 \subseteq Block /\ \A d \in B2 : Aligned(d[1], d[2])
  BY <1>2 DEF Tiles
<1>5. F = UNION {FramesOf(d) : d \in B2}
  BY <1>2, <1>3 DEF Tiles
<1>6. ASSUME NEW d \in B2, NEW e \in B2, d # e
      PROVE  FramesOf(d) \cap FramesOf(e) = {}
  <2>1. \A f \in B \ {b, c} : FramesOf(f) \cap FramesOf(b) = {}
                           /\ FramesOf(f) \cap FramesOf(c) = {}
    BY <1>3 DEF Tiles
  <2>2. \A f \in B \ {b, c} : FramesOf(f) \cap FramesOf(m) = {}
    BY <2>1, <1>2
  <2>. QED  BY <2>2, <1>6 DEF Tiles
<1>7. Tiles(B2, F)
  BY <1>4, <1>5, <1>6 DEF Tiles
<1>. QED  BY <1>7 DEF b, c, m

\* alloc_pages takes a block away with its frames.
LEMMA TilesTake ==
  ASSUME NEW B, NEW F, Tiles(B, F), NEW b \in B
  PROVE  Tiles(B \ {b}, F \ FramesOf(b)) /\ FramesOf(b) \subseteq F
  BY DEF Tiles

\* free_pages brings back a block of frames that were not free.
LEMMA TilesGive ==
  ASSUME NEW B, NEW F, Tiles(B, F), NEW b \in Block, Aligned(b[1], b[2]),
         FramesOf(b) \cap F = {}
  PROVE  Tiles(B \cup {b}, F \cup FramesOf(b))
<1>1. \A c \in B : FramesOf(c) \cap FramesOf(b) = {}
  BY DEF Tiles
<1>. QED  BY <1>1 DEF Tiles

-----------------------------------------------------------------------------
(* Coalescing: every aligned run of free frames lies in one free block.    *)

\* ... except, while a call splits or merges, the runs that contain the block
\* x of X that the call is working on.
Complete(B, F, X) ==
  \A o \in Orders : \A p \in Nat :
    Aligned(p, o) /\ Frames(p, o) \subseteq F =>
      \/ \E b \in B : o <= b[2] /\ Frames(p, o) \subseteq FramesOf(b)
      \/ \E x \in X : x[2] < o /\ FramesOf(x) \subseteq Frames(p, o)

\* Splitting: what lay in the block lies in one of its halves, or contains the
\* left one, which is split on.
LEMMA CompleteSplit ==
  ASSUME NEW B, NEW F, NEW X, Tiles(B, F), Complete(B, F, X),
         NEW p \in Nat, NEW o \in Orders, o + 1 \in Orders,
         <<p, o + 1>> \in B, X \subseteq {<<p, o + 1>>}
  PROVE  Complete((B \ {<<p, o + 1>>}) \cup {<<p, o>>, <<p + Size[o], o>>}, F,
                  {<<p, o>>})
<1> DEFINE b  == <<p, o + 1>>
           l  == <<p, o>>
           r  == <<p + Size[o], o>>
           B2 == (B \ {b}) \cup {l, r}
<1>1. /\ Aligned(p, o + 1) /\ Aligned(p, o) /\ Aligned(p + Size[o], o)
      /\ p + Size[o] \in Nat
      /\ FramesOf(b) = FramesOf(l) \cup FramesOf(r)
  BY Halves DEF FramesOf, Tiles
<1>2. SUFFICES ASSUME NEW s \in Orders, NEW q \in Nat, Aligned(q, s),
                      Frames(q, s) \subseteq F
      PROVE  \/ \E c \in B2 : s <= c[2] /\ Frames(q, s) \subseteq FramesOf(c)
             \/ o < s /\ FramesOf(l) \subseteq Frames(q, s)
  BY DEF Complete
<1>3. CASE \E c \in B \ {b} : s <= c[2] /\ Frames(q, s) \subseteq FramesOf(c)
  BY <1>3
<1>4. CASE s <= o + 1 /\ Frames(q, s) \subseteq FramesOf(b)
  <2>1. CASE s = o + 1
    <3>1. q = p  BY <2>1, <1>4, SameOrder DEF FramesOf
    <3>. QED  BY <3>1, <2>1, <1>1 DEF FramesOf, Orders
  <2>2. CASE s # o + 1
    <3>1. s <= o /\ s \in 0 .. MaxOrderCnt /\ o \in 0 .. MaxOrderCnt
      BY <2>2, <1>4, MaxOrderCntAssumption DEF Orders
    <3>2. Frames(q, s) # {}
      BY BlockFrames, <<q, s>> \in Block DEF Block, FramesOf
    <3>3. CASE Frames(q, s) \cap FramesOf(l) # {}
      <4>1. Frames(q, s) \subseteq FramesOf(l)
        BY <3>1, <3>3, <1>1, <1>2, Nesting DEF FramesOf
      <4>. QED  BY <4>1, <3>1
    <3>4. CASE Frames(q, s) \cap FramesOf(r) # {}
      <4>1. Frames(q, s) \subseteq FramesOf(r)
        BY <3>1, <3>4, <1>1, <1>2, Nesting DEF FramesOf
      <4>. QED  BY <4>1, <3>1
    <3>. QED  BY <3>2, <3>3, <3>4, <1>1, <1>4
  <2>. QED  BY <2>1, <2>2
<1>5. CASE o + 1 < s /\ FramesOf(b) \subseteq Frames(q, s)
  BY <1>5, <1>1 DEF Orders
<1>. QED  BY <1>2, <1>3, <1>4, <1>5 DEF Complete

\* Merging: what lay in a half or contained the block being freed lies in the
\* merged block or contains it.
LEMMA CompleteMerge ==
  ASSUME NEW B, NEW F, NEW p \in Nat, NEW o \in Orders, o + 1 \in Orders,
         Tiles(B, F), Complete(B, F, {<<p, o>>}),
         <<p, o>> \in B, <<BuddyOf(p, o), o>> \in B
  PROVE  LET q == BuddyOf(p, o)
             l == IF p > q THEN q ELSE p
         IN  Complete((B \ {<<p, o>>, <<q, o>>}) \cup {<<l, o + 1>>}, F,
                      {<<l, o + 1>>})
<1> DEFINE q  == BuddyOf(p, o)
           l  == IF p > q THEN q ELSE p
           m  == <<l, o + 1>>
           B2 == (B \ {<<p, o>>, <<q, o>>}) \cup {m}
<1>1. /\ Aligned(p, o) /\ Aligned(l, o + 1) /\ l \in Nat
      /\ FramesOf(m) = Frames(p, o) \cup Frames(q, o)
  BY BuddyLemma DEF FramesOf, Tiles
<1>2. SUFFICES ASSUME NEW s \in Orders, NEW r \in Nat, Aligned(r, s),
                      Frames(r, s) \subseteq F
      PROVE  \/ \E c \in B2 : s <= c[2] /\ Frames(r, s) \subseteq FramesOf(c)
             \/ o + 1 < s /\ FramesOf(m) \subseteq Frames(r, s)
  BY DEF Complete
<1> HIDE DEF q, l
<1>3. CASE \E c \in B \ {<<p, o>>, <<q, o>>} :
             s <= c[2] /\ Frames(r, s) \subseteq FramesOf(c)
  BY <1>3
<1>4. CASE s <= o /\ (Frames(r, s) \subseteq Frames(p, o) \/ Frames(r, s) \subseteq Frames(q, o))
  <2>1. s <= o + 1 /\ Frames(r, s) \subseteq FramesOf(m)
    BY <1>1, <1>4 DEF Orders
  <2>. QED  BY <2>1
<1>5. CASE o < s /\ Frames(p, o) \subseteq Frames(r, s)
  <2>1. o + 1 <= s /\ s \in 0 .. MaxOrderCnt /\ o + 1 \in 0 .. MaxOrderCnt
    BY <1>5, MaxOrderCntAssumption DEF Orders
  <2>2. p \in Frames(p, o)
    BY BlockFrames, <<p, o>> \in Block DEF Block, FramesOf
  <2>3. FramesOf(m) \cap Frames(r, s) # {}
    BY <2>2, <1>1, <1>5
  <2>4. FramesOf(m) \subseteq Frames(r, s)
    BY <2>1, <2>3, <1>1, <1>2, Nesting DEF FramesOf
  <2>5. CASE s = o + 1
    <3>1. l = r  BY <2>4, <2>5, <1>1, SameOrder DEF FramesOf
    <3>2. Frames(r, s) = FramesOf(m) /\ m[2] = s  BY <3>1, <2>5 DEF FramesOf
    <3>. QED  BY <3>2 DEF Orders
  <2>. QED  BY <2>1, <2>4, <2>5 DEF Orders
<1>. QED  BY <1>2, <1>3, <1>4, <1>5 DEF Complete, FramesOf, q

\* Taking a block away: nothing that overlapped it is free any more.
LEMMA CompleteTake ==
  ASSUME NEW B, NEW F, NEW X, Tiles(B, F), Complete(B, F, X),
         NEW b \in B, X \subseteq {b}
  PROVE  Complete(B \ {b}, F \ FramesOf(b), {})
<1>1. SUFFICES ASSUME NEW s \in Orders, NEW q \in Nat, Aligned(q, s),
                      Frames(q, s) \subseteq F \ FramesOf(b)
      PROVE  \E c \in B \ {b} : s <= c[2] /\ Frames(q, s) \subseteq FramesOf(c)
  BY DEF Complete
<1>2. Frames(q, s) # {}
  BY BlockFrames, <<q, s>> \in Block DEF Block, FramesOf
<1>3. FramesOf(b) # {}
  BY BlockFrames DEF Tiles
<1>4. ~ \E x \in X : FramesOf(x) \subseteq Frames(q, s)
  BY <1>1, <1>3
<1>5. PICK c \in B : s <= c[2] /\ Frames(q, s) \subseteq FramesOf(c)
  BY <1>1, <1>4 DEF Complete
<1>. QED  BY <1>1, <1>2, <1>5

\* Giving a block back: a run that was not free before lies in it or
\* contains it.
LEMMA CompleteGive ==
  ASSUME NEW B, NEW F, Complete(B, F, {}), NEW b \in Block, Aligned(b[1], b[2])
  PROVE  Complete(B \cup {b}, F \cup FramesOf(b), {b})
<1>1. SUFFICES ASSUME NEW s \in Orders, NEW q \in Nat, Aligned(q, s),
                      Frames(q, s) \subseteq F \cup FramesOf(b)
      PROVE  \/ \E c \in B \cup {b} : s <= c[2] /\ Frames(q, s) \subseteq FramesOf(c)
             \/ b[2] < s /\ FramesOf(b) \subseteq Frames(q, s)
  BY DEF Complete
<1>2. /\ b[1] \in Nat /\ b[2] \in Orders /\ b[2] \in 0 .. MaxOrderCnt
      /\ s \in 0 .. MaxOrderCnt
  BY BlockFrames, MaxOrderCntAssumption DEF Orders
<1>3. CASE Frames(q, s) \cap FramesOf(b) = {}
  BY <1>1, <1>3 DEF Complete
<1>4. CASE Frames(q, s) \cap FramesOf(b) # {} /\ s <= b[2]
  <2>1. Frames(q, s) \subseteq FramesOf(b)
    BY <1>1, <1>2, <1>4, Nesting DEF FramesOf
  <2>. QED  BY <2>1, <1>4
<1>5. CASE Frames(q, s) \cap FramesOf(b) # {} /\ b[2] < s
  <2>1. FramesOf(b) \subseteq Frames(q, s)
    BY <1>1, <1>2, <1>5, Nesting DEF FramesOf
  <2>. QED  BY <2>1, <1>5
<1>. QED  BY <1>2, <1>3, <1>4, <1>5 DEF Orders

\* When free_pages stops merging, no exception is left.
LEMMA CompleteStop ==
  ASSUME NEW B, NEW F, NEW p \in Nat, NEW o \in Orders, Aligned(p, o),
         Complete(B, F, {<<p, o>>}),
         o + 1 \notin Orders \/ ~(Frames(BuddyOf(p, o), o) \subseteq F)
  PROVE  Complete(B, F, {})
<1> DEFINE q == BuddyOf(p, o)
           l == IF p > q THEN q ELSE p
<1>1. SUFFICES ASSUME NEW s \in Orders, NEW r \in Nat, Aligned(r, s),
                      Frames(r, s) \subseteq F,
                      o < s, Frames(p, o) \subseteq Frames(r, s)
      PROVE  FALSE
  BY DEF Complete, FramesOf
<1>2. /\ o + 1 \in Orders /\ o + 1 <= s
      /\ s \in 0 .. MaxOrderCnt /\ o + 1 \in 0 .. MaxOrderCnt
  BY <1>1, MaxOrderCntAssumption DEF Orders
<1>3. /\ Aligned(l, o + 1) /\ l \in Nat
      /\ Frames(l, o + 1) = Frames(p, o) \cup Frames(q, o)
  BY BuddyLemma
<1> HIDE DEF q, l
<1>4. p \in Frames(p, o)
  BY BlockFrames, <<p, o>> \in Block DEF Block, FramesOf
<1>5. Frames(l, o + 1) \subseteq Frames(r, s)
  BY <1>1, <1>2, <1>3, <1>4, Nesting
<1>. QED  BY <1>1, <1>2, <1>3, <1>5 DEF q

\* A buddy whose bits are all set is itself a free block of that very order:
\* not part of a larger one, and not made up of smaller ones.
LEMMA BuddyIsListed ==
  ASSUME NEW B, NEW F, NEW p \in Nat, NEW o \in Orders, o + 1 \in Orders,
         Tiles(B, F), Complete(B, F, {<<p, o>>}), <<p, o>> \in B,
         Frames(BuddyOf(p, o), o) \subseteq F
  PROVE  <<BuddyOf(p, o), o>> \in B
<1> DEFINE q == BuddyOf(p, o)
           l == IF p > q THEN q ELSE p
<1>1. /\ q \in Nat /\ Aligned(q, o) /\ Aligned(l, o + 1) /\ l \in Nat
      /\ Frames(l, o + 1) = Frames(p, o) \cup Frames(q, o)
  BY BuddyLemma DEF Tiles
<1> HIDE DEF q, l
<1>2. PICK b \in B : o <= b[2] /\ Frames(q, o) \subseteq FramesOf(b)
  <2>1. Frames(q, o) \subseteq F  BY DEF q
  <2>2. \A x \in {<<p, o>>} : ~(x[2] < o)  BY DEF Orders
  <2>. QED  BY <1>1, <2>1, <2>2 DEF Complete
<1>3. /\ b = <<b[1], b[2]>> /\ b[1] \in Nat /\ b[2] \in Orders
      /\ b[2] \in 0 .. MaxOrderCnt /\ Aligned(b[1], b[2])
  BY BlockFrames DEF Tiles
<1>4. CASE b[2] = o
  <2>1. b[1] = q  BY <1>1, <1>2, <1>3, <1>4, SameOrder DEF FramesOf
  <2>. QED  BY <2>1, <1>3, <1>4 DEF q
<1>5. CASE b[2] # o
  <2>1. o + 1 <= b[2] /\ o + 1 \in 0 .. MaxOrderCnt
    BY <1>2, <1>3, <1>5, MaxOrderCntAssumption DEF Orders
  <2>2. q \in Frames(q, o) /\ p \in Frames(p, o)
    BY <1>1, BlockFrames, <<q, o>> \in Block, <<p, o>> \in Block DEF Block, FramesOf
  <2>3. Frames(l, o + 1) \subseteq FramesOf(b)
    BY <2>1, <2>2, <1>1, <1>2, <1>3, Nesting DEF FramesOf
  <2>4. p \in FramesOf(b) /\ p \in FramesOf(<<p, o>>)
    BY <2>2, <2>3, <1>1 DEF FramesOf
  <2>5. b # <<p, o>>
    BY <1>5
  <2>. QED  BY <2>4, <2>5 DEF Tiles
<1>. QED  BY <1>4, <1>5

-----------------------------------------------------------------------------
(* The invariant *)

\* The block that the exception of Complete is made for: the one being split
\* or merged, or the one alloc_pages is about to take.
Working ==
  IF pc \in {"split", "merge"} THEN {<<cur, now>>}
  ELSE IF pc = "take" /\ listed[want] # {} THEN {<<AfterHead(want), want>>}
  ELSE {}

\* page->type tells the order of a listed page and of the page being split.
OrdersRecorded ==
  /\ \A o \in Orders : \A p \in listed[o] : type[p] = o
  /\ pc = "split" => type[cur] = now

HeldAligned == \A p \in held : Aligned(p, type[p])

\* What the locals of a call say of the lists.
LocalsOK ==
  /\ pc = "scan" => /\ want < now
                    /\ \A o \in want .. now - 1 : listed[o] = {}
  /\ pc = "split" => want <= now /\ now < MaxOrderCnt
  /\ pc = "take" => (listed[want] = {} =>
                       \A o \in Orders : want <= o => listed[o] = {})
  /\ pc = "merge" => now < MaxOrderCnt
  /\ pc \in {"split", "merge"} => cur \notin listed[now]
  /\ boot < NPages => held = {} /\ pc \in {"idle", "merge"}

IInv == /\ TypeOK
        /\ FreeListsAreRings
        /\ Tiles(FreeBlocks, bitmap)
        /\ Complete(FreeBlocks, bitmap, Working)
        /\ OrdersRecorded
        /\ HeldAligned
        /\ FramesConserved
        /\ LocalsOK

-----------------------------------------------------------------------------
(* The free lists *)

ListTypes ==
  /\ nr_free \in [Orders -> Nat]
  /\ free_lst \in [Orders -> Pfns \cup {Null}]
  /\ lru \in Links(Pfns)
  /\ listed \in [Orders -> SUBSET Pfns]

ListsDisjoint ==
  \A a, b \in Orders : a # b => listed[a] \cap listed[b] = {}

LEMMA ListedFinite ==
  ASSUME ListTypes, NEW o \in Orders
  PROVE  IsFiniteSet(listed[o])
<1>1. IsFiniteSet(Pfns)
  BY FS_Interval, NPagesAssumption DEF Pfns
<1>. QED  BY <1>1, FS_Subset DEF ListTypes

\* add_page_to_free_list puts a page that is on no list behind the head of one
\* list, and leaves the other lists as they were.
LEMMA AddToList ==
  ASSUME ListTypes, FreeListsAreRings, ListsDisjoint,
         NEW o \in Orders, NEW p \in Pfns, \A a \in Orders : p \notin listed[a],
         ~HeadLost(o), add_page_to_free_list(p, o)
  PROVE  /\ ListTypes' /\ FreeListsAreRings'
         /\ listed' = [listed EXCEPT ![o] = @ \cup {p}]
         /\ lru'[free_lst'[o]].next = p
<1>1. listed' = [listed EXCEPT ![o] = @ \cup {p}] /\ nr_free' = [nr_free EXCEPT ![o] = @ + 1]
  BY DEF add_page_to_free_list
<1>2. /\ Cardinality(listed'[o]) = nr_free'[o]
      /\ listed'[o] = listed[o] \cup {p}
      /\ \A a \in Orders \ {o} : listed'[a] = listed[a] /\ nr_free'[a] = nr_free[a]
  <2>1. Cardinality(listed[o] \cup {p}) = Cardinality(listed[o]) + 1
    BY ListedFinite, FS_AddElement
  <2>. QED  BY <1>1, <2>1 DEF ListTypes, FreeListsAreRings
<1>3. CASE free_lst[o] = Null
  <2>1. listed[o] = {}
    BY <1>3 DEF FreeListsAreRings
  <2>2. lru' = ListHeadInit(lru, p) /\ free_lst' = [free_lst EXCEPT ![o] = p]
    BY <1>3 DEF add_page_to_free_list
  <2>3. /\ lru' \in Links(Pfns)
        /\ \A x \in Pfns \ {p} : lru'[x] = lru[x]
        /\ IsRing(lru', {p})
    BY <2>2, RingInit DEF ListTypes
  <2>4. IsRing(lru', listed'[o])
    BY <1>2, <2>1, <2>3
  <2>5. \A a \in Orders \ {o} : IsRing(lru', listed'[a])
    <3> SUFFICES ASSUME NEW a \in Orders \ {o} PROVE IsRing(lru', listed[a])
      BY <1>2
    <3>1. IsRing(lru, listed[a]) /\ \A x \in listed[a] : lru'[x] = lru[x]
      BY <2>3 DEF FreeListsAreRings, ListTypes
    <3>. QED  BY <3>1, RingFrame
  <2>6. \A a \in Orders : free_lst'[a] = Null <=> listed'[a] = {}
    BY <1>2, <2>2, NullAssumption DEF FreeListsAreRings, ListTypes
  <2>7. lru'[free_lst'[o]].next = p
    BY <2>2, <2>3 DEF ListTypes, IsRing
  <2>8. ListTypes'
    BY <1>1, <2>2, <2>3 DEF ListTypes
  <2>9. \A a \in Orders : nr_free'[a] = Cardinality(listed'[a])
    BY <1>2 DEF FreeListsAreRings
  <2>10. FreeListsAreRings'
    BY <2>4, <2>5, <2>6, <2>9 DEF FreeListsAreRings
  <2>. QED  BY <1>1, <2>7, <2>8, <2>10
<1>4. CASE free_lst[o] # Null
  <2> DEFINE h == free_lst[o]
  <2>1. h \in listed[o]
    BY <1>4 DEF FreeListsAreRings, HeadLost
  <2>2. lru' = ListAddAfter(lru, p, h) /\ free_lst' = free_lst
    BY <1>4 DEF add_page_to_free_list
  <2>3. /\ lru' \in Links(Pfns)
        /\ \A x \in Pfns \ (listed[o] \cup {p}) : lru'[x] = lru[x]
        /\ IsRing(lru', listed[o] \cup {p})
    BY <2>1, <2>2, RingAdd DEF ListTypes, FreeListsAreRings
  <2>4. \A a \in Orders \ {o} : IsRing(lru', listed'[a])
    <3> SUFFICES ASSUME NEW a \in Orders \ {o} PROVE IsRing(lru', listed[a])
      BY <1>2
    <3>1. IsRing(lru, listed[a])
      BY DEF FreeListsAreRings
    <3>2. \A x \in listed[a] : lru'[x] = lru[x]
      BY <2>3 DEF ListsDisjoint, ListTypes
    <3>. QED  BY <3>1, <3>2, RingFrame
  <2>5. \A a \in Orders : free_lst'[a] = Null <=> listed'[a] = {}
    BY <1>2, <2>1, <2>2, <1>4 DEF FreeListsAreRings
  <2>6. lru'[h].next = p
    BY <2>1, <2>2 DEF ListAddAfter, ListTypes, Links
  <2>7. ListTypes'
    BY <1>1, <2>2, <2>3 DEF ListTypes
  <2>8. \A a \in Orders : nr_free'[a] = Cardinality(listed'[a])
    BY <1>2 DEF FreeListsAreRings
  <2>9. FreeListsAreRings'
    BY <1>2, <2>3, <2>4, <2>5, <2>8 DEF FreeListsAreRings
  <2>. QED  BY <1>1, <2>2, <2>6, <2>7, <2>9
<1>. QED  BY <1>3, <1>4

\* remove_page_from_free_list takes any page off its list, the head included,
\* and leaves the other lists as they were.
LEMMA RemoveFromList ==
  ASSUME ListTypes, FreeListsAreRings, ListsDisjoint,
         NEW o \in Orders, NEW p \in listed[o], remove_page_from_free_list(p, o)
  PROVE  /\ ListTypes' /\ FreeListsAreRings'
         /\ listed' = [listed EXCEPT ![o] = @ \ {p}]
<1>1. /\ listed' = [listed EXCEPT ![o] = @ \ {p}]
      /\ nr_free' = [nr_free EXCEPT ![o] = @ - 1]
      /\ lru' = ListDel(lru, p)
      /\ free_lst' = IF nr_free'[o] = 0 THEN [free_lst EXCEPT ![o] = Null] ELSE free_lst
  BY DEF remove_page_from_free_list
<1>2. /\ nr_free[o] # 0
      /\ Cardinality(listed'[o]) = nr_free'[o]
      /\ listed'[o] = listed[o] \ {p} /\ IsFiniteSet(listed'[o])
      /\ \A a \in Orders \ {o} : listed'[a] = listed[a] /\ nr_free'[a] = nr_free[a]
  <2>1. Cardinality(listed[o] \ {p}) = Cardinality(listed[o]) - 1 /\ IsFiniteSet(listed[o] \ {p})
    BY ListedFinite, FS_RemoveElement
  <2>2. Cardinality(listed[o]) # 0
    BY ListedFinite, FS_EmptySet
  <2>. QED  BY <1>1, <2>1, <2>2 DEF ListTypes, FreeListsAreRings
<1>3. /\ lru' \in Links(Pfns)
      /\ \A x \in Pfns \ listed[o] : lru'[x] = lru[x]
      /\ IsRing(lru', listed[o] \ {p})
  <2>1. /\ lru \in Links(Pfns) /\ listed[o] \in SUBSET Pfns
        /\ IsRing(lru, listed[o])
    BY DEF ListTypes, FreeListsAreRings
  <2>. QED  BY <1>1, <2>1, RingDel
<1>4. \A a \in Orders \ {o} : IsRing(lru', listed'[a])
  <2> SUFFICES ASSUME NEW a \in Orders \ {o} PROVE IsRing(lru', listed[a])
    BY <1>2
  <2>1. IsRing(lru, listed[a])
    BY DEF FreeListsAreRings
  <2>2. \A x \in listed[a] : lru'[x] = lru[x]
    BY <1>3 DEF ListsDisjoint, ListTypes
  <2>. QED  BY <2>1, <2>2, RingFrame
<1>5. nr_free'[o] = 0 <=> listed'[o] = {}
  BY <1>2, FS_EmptySet
<1>6. \A a \in Orders : free_lst'[a] = Null <=> listed'[a] = {}
  BY <1>1, <1>2, <1>5 DEF FreeListsAreRings, ListTypes
<1>7. ListTypes'
  BY <1>1, <1>2, <1>3 DEF ListTypes
<1>8. \A a \in Orders : nr_free'[a] = Cardinality(listed'[a])
  BY <1>2 DEF FreeListsAreRings
<1>9. FreeListsAreRings'
  BY <1>2, <1>3, <1>4, <1>6, <1>8 DEF FreeListsAreRings
<1>. QED  BY <1>1, <1>7, <1>9

-----------------------------------------------------------------------------
(* The allocator's state *)

LEMMA OrderFacts ==
  /\ Orders \subseteq 0 .. MaxOrderCnt
  /\ \A o \in Orders : o \in Nat /\ o < MaxOrderCnt
  /\ \A n \in 0 .. MaxOrderCnt : n < MaxOrderCnt => n \in Orders
  /\ 0 \in Orders /\ Pfns \subseteq Nat
  /\ MaxOrderCnt \in Nat \ {0} /\ NPages \in Nat
  BY MaxOrderCntAssumption, NPagesAssumption DEF Orders, Pfns

\* A listed page is a free block of its list's order.
LEMMA ListedIsFree ==
  ASSUME TypeOK, NEW o \in Orders, NEW p \in listed[o]
  PROVE  <<p, o>> \in FreeBlocks /\ <<p, o>> \in Block /\ p \in FramesOf(<<p, o>>)
<1>1. p \in Pfns /\ <<p, o>> \in Pfns \X Orders
  BY DEF TypeOK
<1>2. <<p, o>> \in Block
  BY <1>1, OrderFacts DEF Block
<1>. QED  BY <1>1, <1>2, BlockFrames DEF FreeBlocks

\* The first frame of a free block is on no list but as that block.
LEMMA OneList ==
  ASSUME TypeOK, Tiles(FreeBlocks, bitmap), NEW b \in FreeBlocks,
         NEW o \in Orders, NEW p \in listed[o], p \in FramesOf(b)
  PROVE  b = <<p, o>>
  BY ListedIsFree DEF Tiles

LEMMA IInvLists ==
  ASSUME TypeOK, Tiles(FreeBlocks, bitmap)
  PROVE  ListTypes /\ ListsDisjoint
<1>1. ListTypes
  BY DEF TypeOK, ListTypes
<1>2. ASSUME NEW a \in Orders, NEW b \in Orders, NEW p \in listed[a], p \in listed[b]
      PROVE  a = b
  <2>1. <<p, a>> \in FreeBlocks /\ p \in FramesOf(<<p, a>>)
    BY ListedIsFree
  <2>2. <<p, a>> = <<p, b>>
    BY <1>2, <2>1, OneList
  <2>. QED  BY <2>2
<1>. QED  BY <1>1, <1>2 DEF ListsDisjoint

\* Less has to be covered when there are more exceptions.
LEMMA CompleteWeaken ==
  ASSUME NEW B, NEW F, NEW X, Complete(B, F, {})
  PROVE  Complete(B, F, X)
  BY DEF Complete

\* A free block lies in the bitmap and in vmemmap.
LEMMA FreeInPfns ==
  ASSUME TypeOK, Tiles(FreeBlocks, bitmap), NEW b \in FreeBlocks
  PROVE  /\ b \in Block /\ FramesOf(b) \subseteq bitmap /\ FramesOf(b) \subseteq Pfns
         /\ b[1] \in Pfns /\ b[2] \in Orders
<1>1. b \in Block /\ FramesOf(b) \subseteq bitmap
  BY DEF Tiles
<1>. QED  BY <1>1, BlockFrames DEF TypeOK

\* A held page is the first frame of its block and is not free.
LEMMA HeldNotFree ==
  ASSUME TypeOK, FramesConserved
  PROVE  \A p \in held : /\ p \in Pfns /\ <<p, type[p]>> \in Block
                         /\ p \in Frames(p, type[p]) /\ p \notin bitmap
<1> SUFFICES ASSUME NEW p \in held
             PROVE  /\ p \in Pfns /\ <<p, type[p]>> \in Block
                    /\ p \in Frames(p, type[p]) /\ p \notin bitmap
  OBVIOUS
<1>1. p \in Pfns /\ <<p, type[p]>> \in Block
  BY OrderFacts DEF TypeOK, Block
<1>2. p \in Frames(p, type[p])
  BY <1>1, BlockFrames DEF FramesOf
<1>. QED  BY <1>1, <1>2 DEF FramesConserved, HeldFrames

\* The block a call is working on is on no list.
LEMMA InFlightUnlisted ==
  ASSUME TypeOK, Tiles(FreeBlocks, bitmap), LocalsOK, pc \in {"split", "merge"}
  PROVE  /\ <<cur, now>> \in FreeBlocks /\ cur \in Pfns /\ now \in Orders
         /\ Aligned(cur, now) /\ cur \in FramesOf(<<cur, now>>)
         /\ \A a \in Orders : cur \notin listed[a]
<1>1. <<cur, now>> \in FreeBlocks
  BY DEF FreeBlocks, InFlight
<1>2. /\ cur \in Pfns /\ now \in Orders /\ Aligned(cur, now)
      /\ cur \in FramesOf(<<cur, now>>)
  BY <1>1, FreeInPfns, BlockFrames DEF Tiles
<1>3. ASSUME NEW a \in Orders, cur \in listed[a] PROVE FALSE
  <2>1. <<cur, now>> = <<cur, a>>
    BY <1>1, <1>2, <1>3, OneList
  <2>. QED  BY <1>3, <2>1 DEF LocalsOK
<1>. QED  BY <1>1, <1>2, <1>3

-----------------------------------------------------------------------------
(* Initially nothing is free and nothing is held. *)
LEMMA InitIInv == ASSUME Init PROVE IInv
<1> USE OrderFacts DEF Init
<1>1. TypeOK
  <2>1. lru \in Links(Pfns)
    BY DEF Links, Unlinked
  <2>2. boot \in 0 .. NPages /\ now \in 0 .. MaxOrderCnt
    BY NPagesAssumption, MaxOrderCntAssumption
  <2>. QED  BY <2>1, <2>2 DEF TypeOK
<1>2. FreeListsAreRings
  BY RingEmpty, FS_EmptySet DEF FreeListsAreRings
<1>3. FreeBlocks = {}
  BY DEF FreeBlocks, InFlight
<1>4. Tiles(FreeBlocks, bitmap)
  BY <1>3 DEF Tiles
<1>5. Complete(FreeBlocks, bitmap, Working)
  <2> SUFFICES ASSUME NEW o \in Orders, NEW p \in Nat, Frames(p, o) \subseteq {}
               PROVE  FALSE
    BY DEF Complete
  <2>. QED  BY BlockFrames, <<p, o>> \in Block DEF Block, FramesOf
<1>6. OrdersRecorded /\ HeldAligned /\ LocalsOK
  BY DEF OrdersRecorded, HeldAligned, LocalsOK
<1>7. FramesConserved
  <2>1. HeldFrames = {}
    BY DEF HeldFrames
  <2>2. \A p \in Usable : p \in Nat /\ ~(p < 0)
    BY UsableAssumption
  <2>. QED  BY <2>1, <2>2 DEF FramesConserved
<1>. QED  BY <1>1, <1>2, <1>4, <1>5, <1>6, <1>7 DEF IInv

-----------------------------------------------------------------------------
(* alloc_pages *)

\* Nothing is said of held frames that a step could disturb, unless it changes
\* the bitmap, page->type, the held pages or the boot loop's position.
LEMMA HeldUnchanged ==
  ASSUME FramesConserved, HeldAligned, UNCHANGED <<bitmap, type, held, boot>>
  PROVE  FramesConserved' /\ HeldAligned'
  BY DEF FramesConserved, HeldFrames, HeldAligned

LEMMA AllocStartIInv ==
  ASSUME IInv, NEW o \in Orders, AllocStart(o)
  PROVE  IInv'
<1> USE OrderFacts DEF AllocStart, lists
<1>1. TypeOK'
  BY DEF IInv, TypeOK
<1>2. FreeListsAreRings'
  BY DEF IInv, FreeListsAreRings
<1>3. FreeBlocks' = FreeBlocks
  BY DEF FreeBlocks, InFlight
<1>4. Tiles(FreeBlocks', bitmap')
  BY <1>3 DEF IInv
<1>5. Complete(FreeBlocks', bitmap', Working')
  <2>1. Working = {}
    BY DEF Working
  <2>. QED  BY <1>3, <2>1, CompleteWeaken DEF IInv
<1>6. OrdersRecorded' /\ LocalsOK'
  <2>1. nr_free[o] = 0 <=> listed[o] = {}
    BY ListedFinite, IInvLists, FS_EmptySet DEF IInv, FreeListsAreRings
  <2>2. OrdersRecorded'
    BY DEF IInv, OrdersRecorded
  <2>3. pc' = "scan" => want' < now' /\ \A a \in want' .. now' - 1 : listed'[a] = {}
    BY <2>1 DEF IInv, TypeOK
  <2>4. pc' = "take" => listed'[want'] # {}
    BY <2>1
  <2>. QED  BY <2>2, <2>3, <2>4 DEF IInv, LocalsOK
<1>7. FramesConserved' /\ HeldAligned'
  BY HeldUnchanged DEF IInv
<1>. QED  BY <1>1, <1>2, <1>4, <1>5, <1>6, <1>7 DEF IInv

LEMMA ScanIInv ==
  ASSUME IInv, SkipOrder \/ ScanEnd
  PROVE  IInv'
<1> USE OrderFacts DEF SkipOrder, ScanEnd, lists
<1>1. TypeOK'
  <2>1. now' \in 0 .. MaxOrderCnt
    BY DEF IInv, TypeOK
  <2>2. CASE SkipOrder  BY <2>1, <2>2 DEF IInv, TypeOK
  <2>3. CASE ScanEnd  BY <2>1, <2>3 DEF IInv, TypeOK
  <2>. QED  BY <2>2, <2>3
<1>2. FreeListsAreRings'
  BY DEF IInv, FreeListsAreRings
<1>3. FreeBlocks' = FreeBlocks
  BY DEF FreeBlocks, InFlight
<1>4. Tiles(FreeBlocks', bitmap')
  BY <1>3 DEF IInv
<1>5. Complete(FreeBlocks', bitmap', Working')
  <2>1. Working = {}
    BY DEF Working
  <2>. QED  BY <1>3, <2>1, CompleteWeaken DEF IInv
<1>6. OrdersRecorded'
  BY DEF IInv, OrdersRecorded
<1>7. LocalsOK'
  <2>1. CASE SkipOrder
    <3>1. now \in Orders /\ listed[now] = {}
      BY <2>1, ListedFinite, IInvLists, FS_EmptySet
         DEF IInv, FreeListsAreRings, TypeOK
    <3>2. \A a \in want .. now : listed[a] = {}
      BY <2>1, <3>1 DEF IInv, LocalsOK, TypeOK
    <3>3. want' < now' /\ \A a \in want' .. now' - 1 : listed'[a] = {}
      BY <2>1, <3>2 DEF IInv, LocalsOK, TypeOK
    <3>. QED  BY <2>1, <3>3 DEF IInv, LocalsOK
  <2>2. CASE ScanEnd
    <3>1. \A a \in Orders : want <= a => listed[a] = {}
      BY <2>2 DEF IInv, LocalsOK, TypeOK
    <3>. QED  BY <2>2, <3>1 DEF IInv, LocalsOK
  <2>. QED  BY <2>1, <2>2
<1>8. FramesConserved' /\ HeldAligned'
  BY HeldUnchanged DEF IInv
<1>. QED  BY <1>1, <1>2, <1>4, <1>5, <1>6, <1>7, <1>8 DEF IInv

LEMMA AllocFailIInv ==
  ASSUME IInv, AllocFail
  PROVE  IInv'
<1> USE OrderFacts DEF AllocFail, lists
<1>1. TypeOK'
  BY DEF IInv, TypeOK
<1>2. FreeListsAreRings'
  BY DEF IInv, FreeListsAreRings
<1>3. FreeBlocks' = FreeBlocks
  BY DEF FreeBlocks, InFlight
<1>4. Tiles(FreeBlocks', bitmap')
  BY <1>3 DEF IInv
<1>5. Complete(FreeBlocks', bitmap', Working')
  <2>1. listed[want] = {}
    BY ListedFinite, IInvLists, FS_EmptySet DEF IInv, FreeListsAreRings, TypeOK
  <2>2. Working = {} /\ Working' = {}
    BY <2>1 DEF Working
  <2>. QED  BY <1>3, <2>2 DEF IInv
<1>6. OrdersRecorded' /\ LocalsOK'
  BY DEF IInv, OrdersRecorded, LocalsOK
<1>7. FramesConserved' /\ HeldAligned'
  BY HeldUnchanged DEF IInv
<1>. QED  BY <1>1, <1>2, <1>4, <1>5, <1>6, <1>7 DEF IInv

LEMMA TakeLargerIInv ==
  ASSUME IInv, TakeLarger
  PROVE  IInv'
<1> DEFINE p == AfterHead(now)
<1>0. TypeOK /\ Tiles(FreeBlocks, bitmap) /\ ListTypes /\ ListsDisjoint
  BY IInvLists DEF IInv
<1>1. now \in Orders /\ listed[now] # {}
  <2>1. now \in Orders
    BY <1>0, OrderFacts DEF TakeLarger, TypeOK
  <2>2. Cardinality(listed[now]) # 0
    BY <2>1 DEF TakeLarger, IInv, FreeListsAreRings
  <2>. QED  BY <2>1, <2>2, FS_EmptySet
<1>2. p \in listed[now]
  BY <1>1 DEF TakeLarger, HeadLost, AfterHead, IInv, FreeListsAreRings, IsRing
<1>3. /\ ListTypes' /\ FreeListsAreRings'
      /\ listed' = [listed EXCEPT ![now] = @ \ {p}]
  BY <1>0, <1>1, <1>2, RemoveFromList DEF TakeLarger, IInv
<1>4. p \in Pfns /\ cur' = p /\ now' = now
  BY <1>0, <1>1, <1>2 DEF TakeLarger, TypeOK
<1> HIDE DEF p
<1>5. TypeOK'
  BY <1>0, <1>3, <1>4 DEF TakeLarger, TypeOK, ListTypes
<1>6. FreeBlocks' = FreeBlocks
  <2>1. InFlight = {} /\ InFlight' = {<<p, now>>}
    BY <1>4 DEF TakeLarger, InFlight
  <2>2. \A b \in Pfns \X Orders :
          b[1] \in listed'[b[2]] <=> b[1] \in listed[b[2]] /\ b # <<p, now>>
    BY <1>0, <1>1, <1>3, <1>4 DEF ListTypes
  <2>3. <<p, now>> \in Pfns \X Orders
    BY <1>1, <1>4
  <2>. QED  BY <1>2, <2>1, <2>2, <2>3 DEF FreeBlocks
<1>7. Tiles(FreeBlocks', bitmap')
  BY <1>0, <1>6 DEF TakeLarger
<1>8. Complete(FreeBlocks', bitmap', Working')
  <2>1. Working = {}
    BY DEF Working, TakeLarger
  <2>. QED  BY <1>6, <2>1, CompleteWeaken DEF TakeLarger, IInv
<1>9. OrdersRecorded'
  BY <1>0, <1>1, <1>2, <1>3, <1>4 DEF TakeLarger, IInv, OrdersRecorded, ListTypes
<1>10. LocalsOK'
  <2>1. cur' \notin listed'[now']
    BY <1>0, <1>1, <1>3, <1>4 DEF ListTypes
  <2>2. want' <= now' /\ now' < MaxOrderCnt /\ ~(boot' < NPages)
    BY <1>0, <1>4, OrderFacts DEF TakeLarger, IInv, LocalsOK, TypeOK
  <2>. QED  BY <2>1, <2>2 DEF TakeLarger, LocalsOK
<1>11. FramesConserved' /\ HeldAligned'
  BY HeldUnchanged DEF TakeLarger, IInv
<1>. QED  BY <1>3, <1>5, <1>7, <1>8, <1>9, <1>10, <1>11 DEF IInv

LEMMA SplitIInv ==
  ASSUME IInv, Split
  PROVE  IInv'
<1> DEFINE o    == now - 1
           half == cur + Size[now - 1]
<1>0. TypeOK /\ Tiles(FreeBlocks, bitmap) /\ ListTypes /\ ListsDisjoint
  BY IInvLists DEF IInv
<1>1. o \in Orders /\ now \in Orders /\ now = o + 1 /\ want <= o
  BY <1>0, OrderFacts DEF Split, TypeOK, IInv, LocalsOK, Orders
<1>2. /\ <<cur, now>> \in FreeBlocks /\ cur \in Pfns /\ cur \in Nat
      /\ Aligned(cur, now) /\ \A a \in Orders : cur \notin listed[a]
  BY <1>0, InFlightUnlisted, OrderFacts DEF Split, IInv
<1>3. /\ half \in Nat /\ half \in FramesOf(<<cur, now>>)
      /\ Aligned(cur, o) /\ Aligned(half, o)
      /\ half # cur
  <2>1. Size[o] \in Nat \ {0}
    BY <1>1, OrderFacts, SizeAssumption
  <2>2. /\ half \in Nat /\ half \in Frames(cur, o + 1)
        /\ Aligned(cur, o) /\ Aligned(half, o)
    BY <1>1, <1>2, Halves
  <2>. QED  BY <1>1, <1>2, <2>1, <2>2 DEF FramesOf
<1>4. half \in Pfns
  BY <1>0, <1>2, <1>3, FreeInPfns
<1>5. \A a \in Orders : half \notin listed[a] /\ cur \notin listed[a]
  <2>1. ASSUME NEW a \in Orders, half \in listed[a] PROVE FALSE
    BY <1>0, <1>2, <1>3, <2>1, OneList
  <2>. QED  BY <1>2, <2>1
<1>6. /\ ListTypes' /\ FreeListsAreRings'
      /\ listed' = [listed EXCEPT ![o] = @ \cup {half}]
  BY <1>0, <1>1, <1>4, <1>5, AddToList DEF Split, IInv
<1>7. /\ cur' = cur /\ now' = o /\ pc' = "split" /\ pc = "split"
      /\ type' = [type EXCEPT ![cur] = o, ![half] = o]
      /\ UNCHANGED <<bitmap, held, boot, released, want>>
  BY DEF Split
<1> HIDE DEF o, half
<1>8. TypeOK'
  BY <1>0, <1>1, <1>6, <1>7, OrderFacts DEF TypeOK, ListTypes
<1>9. FreeBlocks' = (FreeBlocks \ {<<cur, now>>}) \cup {<<cur, o>>, <<half, o>>}
  <2>1. InFlight = {<<cur, now>>} /\ InFlight' = {<<cur, o>>}
    BY <1>7 DEF InFlight
  <2>2. \A b \in Pfns \X Orders :
          b[1] \in listed'[b[2]] <=> b[1] \in listed[b[2]] \/ b = <<half, o>>
    BY <1>0, <1>1, <1>4, <1>6 DEF ListTypes
  <2>3. <<half, o>> \in Pfns \X Orders /\ cur \notin listed[now]
    BY <1>1, <1>4, <1>5
  <2>. QED  BY <2>1, <2>2, <2>3 DEF FreeBlocks
<1>10. Tiles(FreeBlocks', bitmap')
  <2>1. cur \in Nat /\ <<cur, o + 1>> \in FreeBlocks /\ o + 1 \in Orders /\ now = o + 1
    BY <1>1, <1>2
  <2>2. Tiles((FreeBlocks \ {<<cur, o + 1>>}) \cup {<<cur, o>>, <<cur + Size[o], o>>}, bitmap)
    BY <1>0, <1>1, <2>1, TilesSplit
  <2>. QED  BY <1>7, <1>9, <2>1, <2>2 DEF half, o
<1>11. Complete(FreeBlocks', bitmap', Working')
  <2>1. Working = {<<cur, now>>} /\ Working' = {<<cur, o>>}
    BY <1>7 DEF Working
  <2>2. cur \in Nat /\ <<cur, o + 1>> \in FreeBlocks /\ o + 1 \in Orders /\ now = o + 1
    BY <1>1, <1>2
  <2>3. Complete((FreeBlocks \ {<<cur, o + 1>>}) \cup {<<cur, o>>, <<cur + Size[o], o>>},
                 bitmap, {<<cur, o>>})
    BY <1>0, <1>1, <2>1, <2>2, CompleteSplit DEF IInv
  <2>. QED  BY <1>7, <1>9, <2>1, <2>2, <2>3 DEF half, o
<1>12. OrdersRecorded'
  <2>1. \A a \in Orders : \A p \in listed[a] : type[p] = a /\ p # cur /\ p # half
    BY <1>5 DEF IInv, OrdersRecorded
  <2>2. type'[half] = o /\ type'[cur] = o
    BY <1>0, <1>2, <1>4, <1>7 DEF TypeOK
  <2>3. \A a \in Orders : \A p \in listed[a] : type'[p] = a
    BY <1>0, <1>7, <2>1 DEF TypeOK
  <2>4. \A a \in Orders : \A p \in listed'[a] : type'[p] = a
    BY <1>0, <1>1, <1>6, <2>2, <2>3 DEF TypeOK
  <2>. QED  BY <1>7, <2>2, <2>4 DEF OrdersRecorded
<1>13. LocalsOK'
  <2>1. cur' \notin listed'[now']
    BY <1>0, <1>1, <1>3, <1>5, <1>6, <1>7 DEF ListTypes
  <2>2. want' <= now' /\ now' < MaxOrderCnt /\ ~(boot' < NPages)
    BY <1>1, <1>7, OrderFacts DEF IInv, LocalsOK
  <2>. QED  BY <1>7, <2>1, <2>2 DEF LocalsOK
<1>14. FramesConserved' /\ HeldAligned'
  <2>1. \A p \in held : p # cur /\ p # half
    <3>1. cur \in bitmap /\ half \in bitmap
      BY <1>0, <1>2, <1>3, FreeInPfns, BlockFrames
    <3>. QED  BY <3>1, HeldNotFree DEF IInv
  <2>2. \A p \in held : type'[p] = type[p]
    BY <1>0, <1>7, <2>1 DEF TypeOK
  <2>3. HeldFrames' = HeldFrames
    BY <1>7, <2>2 DEF HeldFrames
  <2>. QED  BY <1>7, <2>2, <2>3 DEF IInv, FramesConserved, HeldAligned
<1>. QED  BY <1>6, <1>8, <1>10, <1>11, <1>12, <1>13, <1>14 DEF IInv

LEMMA SplitEndIInv ==
  ASSUME IInv, SplitEnd
  PROVE  IInv'
<1>0. TypeOK /\ Tiles(FreeBlocks, bitmap) /\ ListTypes /\ ListsDisjoint
  BY IInvLists DEF IInv
<1>1. /\ <<cur, now>> \in FreeBlocks /\ cur \in Pfns /\ now \in Orders
      /\ \A a \in Orders : cur \notin listed[a]
  BY <1>0, InFlightUnlisted DEF SplitEnd, IInv
<1>2. /\ ListTypes' /\ FreeListsAreRings'
      /\ listed' = [listed EXCEPT ![now] = @ \cup {cur}]
      /\ AfterHead(now)' = cur
  BY <1>0, <1>1, AddToList DEF SplitEnd, IInv, AfterHead
<1>3. /\ pc = "split" /\ pc' = "take" /\ now = want
      /\ UNCHANGED <<bitmap, type, held, boot, released, want, cur, now>>
  BY DEF SplitEnd
<1>4. TypeOK'
  BY <1>0, <1>2, <1>3 DEF TypeOK, ListTypes
<1>5. FreeBlocks' = FreeBlocks
  <2>1. InFlight = {<<cur, now>>} /\ InFlight' = {}
    BY <1>3 DEF InFlight
  <2>2. \A b \in Pfns \X Orders :
          b[1] \in listed'[b[2]] <=> b[1] \in listed[b[2]] \/ b = <<cur, now>>
    BY <1>0, <1>1, <1>2 DEF ListTypes
  <2>. QED  BY <1>1, <2>1, <2>2 DEF FreeBlocks
<1>6. Tiles(FreeBlocks', bitmap')
  BY <1>0, <1>3, <1>5
<1>7. listed'[want] # {}
  BY <1>0, <1>1, <1>2, <1>3 DEF ListTypes
<1>8. Complete(FreeBlocks', bitmap', Working')
  <2>1. Working = {<<cur, now>>} /\ Working' = {<<cur, now>>}
    BY <1>2, <1>3, <1>7 DEF Working, AfterHead
  <2>. QED  BY <1>3, <1>5, <2>1 DEF IInv
<1>9. OrdersRecorded'
  BY <1>0, <1>1, <1>2, <1>3 DEF IInv, OrdersRecorded, ListTypes
<1>10. LocalsOK'
  BY <1>3, <1>7 DEF IInv, LocalsOK
<1>11. FramesConserved' /\ HeldAligned'
  BY <1>3, HeldUnchanged DEF IInv
<1>. QED  BY <1>2, <1>4, <1>6, <1>8, <1>9, <1>10, <1>11 DEF IInv

LEMMA AllocReturnIInv ==
  ASSUME IInv, AllocReturn
  PROVE  IInv'
<1> DEFINE p == AfterHead(want)
           b == <<p, want>>
<1>0. TypeOK /\ Tiles(FreeBlocks, bitmap) /\ ListTypes /\ ListsDisjoint
  BY IInvLists DEF IInv
<1>1. want \in Orders /\ listed[want] # {}
  <2>1. want \in Orders
    BY <1>0 DEF TypeOK
  <2>2. Cardinality(listed[want]) # 0
    BY <2>1 DEF AllocReturn, IInv, FreeListsAreRings
  <2>. QED  BY <2>1, <2>2, FS_EmptySet
<1>2. p \in listed[want]
  BY <1>1 DEF AllocReturn, HeadLost, AfterHead, IInv, FreeListsAreRings, IsRing
<1>3. /\ ListTypes' /\ FreeListsAreRings'
      /\ listed' = [listed EXCEPT ![want] = @ \ {p}]
  BY <1>0, <1>1, <1>2, RemoveFromList DEF AllocReturn, IInv
<1>4. /\ p \in Pfns /\ b \in FreeBlocks /\ p \in FramesOf(b)
      /\ FramesOf(b) \subseteq bitmap /\ Aligned(p, want)
  BY <1>0, <1>1, <1>2, ListedIsFree, FreeInPfns DEF TypeOK, Tiles
<1>5. bitmap' = bitmap \ FramesOf(b)
  BY <1>4 DEF AllocReturn, chg_bitmap, FramesOf
<1>6. /\ pc = "take" /\ pc' = "idle" /\ held' = held \cup {p}
      /\ UNCHANGED <<type, boot, released, want, cur, now>>
  BY DEF AllocReturn
<1> HIDE DEF p
<1>7. TypeOK'
  BY <1>0, <1>3, <1>4, <1>5, <1>6 DEF TypeOK, ListTypes
<1>8. FreeBlocks' = FreeBlocks \ {b}
  <2>1. InFlight = {} /\ InFlight' = {}
    BY <1>6 DEF InFlight
  <2>2. \A c \in Pfns \X Orders :
          c[1] \in listed'[c[2]] <=> c[1] \in listed[c[2]] /\ c # b
    BY <1>0, <1>1, <1>3, <1>4 DEF ListTypes
  <2>. QED  BY <2>1, <2>2 DEF FreeBlocks
<1>9. Tiles(FreeBlocks', bitmap')
  BY <1>0, <1>4, <1>5, <1>8, TilesTake
<1>10. Complete(FreeBlocks', bitmap', Working')
  <2>1. Working = {b} /\ Working' = {}
    BY <1>1, <1>6 DEF Working, p
  <2>. QED  BY <1>0, <1>4, <1>5, <1>8, <2>1, CompleteTake DEF IInv
<1>11. type[p] = want
  BY <1>1, <1>2 DEF IInv, OrdersRecorded
<1>12. OrdersRecorded'
  BY <1>0, <1>1, <1>3, <1>6 DEF IInv, OrdersRecorded, ListTypes
<1>13. LocalsOK'
  BY <1>6 DEF IInv, LocalsOK
<1>14. FramesConserved' /\ HeldAligned'
  <2>1. HeldFrames' = HeldFrames \cup FramesOf(b)
    BY <1>6, <1>11 DEF HeldFrames, FramesOf
  <2>2. HeldFrames \cap FramesOf(b) = {}
    BY <1>4 DEF IInv, FramesConserved
  <2>3. \A q \in held : Frames(q, type[q]) \cap Frames(p, type[p]) = {}
    BY <2>2, <1>11 DEF HeldFrames, FramesOf
  <2>4. \A q, r \in held' : q # r => Frames(q, type[q]) \cap Frames(r, type[r]) = {}
    BY <1>6, <2>3 DEF IInv, FramesConserved
  <2>5. HeldFrames' \cap bitmap' = {} /\ HeldFrames' \cup bitmap' = HeldFrames \cup bitmap
    BY <1>4, <1>5, <2>1 DEF IInv, FramesConserved
  <2>6. HeldAligned'
    BY <1>4, <1>6, <1>11 DEF IInv, HeldAligned
  <2>. QED  BY <1>6, <2>4, <2>5, <2>6 DEF IInv, FramesConserved
<1>. QED  BY <1>3, <1>7, <1>9, <1>10, <1>12, <1>13, <1>14 DEF IInv

-----------------------------------------------------------------------------
(* free_pages *)

\* On entry to free_pages with frames that are not free: they become free as
\* one block, which the call works on.
LEMMA FreeEntryFacts ==
  ASSUME IInv, pc = "idle", NEW p \in Pfns, NEW o \in Orders, Aligned(p, o),
         Frames(p, o) \cap bitmap = {}, Frames(p, o) \subseteq Pfns,
         FreeEntry(p, o)
  PROVE  /\ bitmap' = bitmap \cup Frames(p, o)
         /\ bitmap' \subseteq Pfns
         /\ FreeListsAreRings' /\ UNCHANGED lists /\ ListTypes'
         /\ Tiles(FreeBlocks', bitmap')
         /\ Complete(FreeBlocks', bitmap', Working')
         /\ pc' = "merge" /\ cur' = p /\ now' = o /\ want' = want
         /\ \A a \in Orders : p \notin listed[a]
<1> DEFINE b == <<p, o>>
<1>0. TypeOK /\ Tiles(FreeBlocks, bitmap) /\ ListTypes
  BY IInvLists DEF IInv
<1>1. /\ pc' = "merge" /\ cur' = p /\ now' = o /\ want' = want
      /\ UNCHANGED lists
  BY DEF FreeEntry
<1>2. bitmap' = bitmap \cup Frames(p, o) /\ bitmap' \subseteq Pfns
  BY <1>0 DEF FreeEntry, chg_bitmap, TypeOK
<1>3. FreeListsAreRings' /\ ListTypes'
  BY <1>0, <1>1 DEF IInv, FreeListsAreRings, ListTypes, lists
<1>4. FreeBlocks' = FreeBlocks \cup {b}
  BY <1>1 DEF FreeBlocks, InFlight, lists
<1>5. b \in Block /\ Aligned(b[1], b[2]) /\ FramesOf(b) = Frames(p, o) /\ p \in Frames(p, o)
  BY OrderFacts, BlockFrames DEF Block, FramesOf
<1>6. Tiles(FreeBlocks', bitmap')
  BY <1>0, <1>2, <1>4, <1>5, TilesGive
<1>7. Complete(FreeBlocks', bitmap', Working')
  <2>1. Working = {} /\ Working' = {b}
    BY <1>1 DEF Working
  <2>. QED  BY <1>2, <1>4, <1>5, <2>1, CompleteGive DEF IInv
<1>8. \A a \in Orders : p \notin listed[a]
  BY <1>0, <1>5, ListedIsFree, FreeInPfns
<1>. QED  BY <1>1, <1>2, <1>3, <1>6, <1>7, <1>8

LEMMA FreeStartIInv ==
  ASSUME IInv, NEW p \in held, FreeStart(p)
  PROVE  IInv'
<1> DEFINE o == type[p]
<1>0. TypeOK /\ FramesConserved
  BY DEF IInv
<1>1. /\ p \in Pfns /\ o \in Orders /\ Aligned(p, o)
      /\ Frames(p, o) \cap bitmap = {} /\ Frames(p, o) \subseteq Pfns
  <2>1. p \in Pfns /\ o \in Orders /\ Aligned(p, o)
    BY <1>0 DEF IInv, HeldAligned, TypeOK
  <2>2. Frames(p, o) \subseteq HeldFrames
    BY DEF HeldFrames
  <2>. QED  BY <1>0, <2>1, <2>2, UsableAssumption DEF FramesConserved
<1>2. /\ bitmap' = bitmap \cup Frames(p, o)
      /\ bitmap' \subseteq Pfns
      /\ FreeListsAreRings' /\ UNCHANGED lists /\ ListTypes'
      /\ Tiles(FreeBlocks', bitmap')
      /\ Complete(FreeBlocks', bitmap', Working')
      /\ pc' = "merge" /\ cur' = p /\ now' = o /\ want' = want
      /\ \A a \in Orders : p \notin listed[a]
  BY <1>1, FreeEntryFacts DEF FreeStart
<1>3. /\ held' = held \ {p} /\ released' = TRUE /\ UNCHANGED <<type, boot>>
  BY DEF FreeStart
<1>4. now' \in 0 .. MaxOrderCnt /\ now' < MaxOrderCnt
  BY <1>1, <1>2, OrderFacts
<1>5. TypeOK'
  BY <1>0, <1>1, <1>2, <1>3, <1>4 DEF TypeOK, ListTypes
<1>6. OrdersRecorded'
  BY <1>2, <1>3 DEF IInv, OrdersRecorded, lists
<1>7. LocalsOK'
  BY <1>1, <1>2, <1>3, <1>4 DEF IInv, LocalsOK, lists
<1>8. FramesConserved' /\ HeldAligned'
  <2>1. \A q \in held' : type'[q] = type[q]
    BY <1>3
  <2>2. HeldFrames = HeldFrames' \cup Frames(p, o)
    BY <1>3 DEF HeldFrames
  <2>3. HeldFrames' \cap Frames(p, o) = {}
    BY <1>0, <1>3 DEF HeldFrames, FramesConserved
  <2>4. HeldFrames' \cap bitmap' = {} /\ HeldFrames' \cup bitmap' = HeldFrames \cup bitmap
    BY <1>0, <1>2, <2>2, <2>3 DEF FramesConserved
  <2>. QED  BY <1>0, <1>3, <2>1, <2>4 DEF IInv, FramesConserved, HeldAligned
<1>. QED  BY <1>2, <1>5, <1>6, <1>7, <1>8 DEF IInv

LEMMA PopulateIInv ==
  ASSUME IInv, PopulatePage
  PROVE  IInv'
<1>0. TypeOK /\ FramesConserved /\ Tiles(FreeBlocks, bitmap) /\ ListTypes /\ held = {}
  BY IInvLists DEF IInv, LocalsOK, PopulatePage
<1>1. /\ boot \in Pfns /\ boot' = boot + 1 /\ boot' \in 0 .. NPages
      /\ type' = [type EXCEPT ![boot] = 0] /\ type' \in [Pfns -> Orders]
      /\ UNCHANGED <<held, released>> /\ pc = "idle"
  BY <1>0, OrderFacts DEF PopulatePage, TypeOK, Pfns
<1>2. HeldFrames = {} /\ HeldFrames' = {}
  BY <1>0, <1>1 DEF HeldFrames
<1>3. bitmap = {q \in Usable : q < boot}
  BY <1>0, <1>2 DEF FramesConserved
<1>4. \A a \in Orders : boot \notin listed[a]
  <2>1. boot \notin bitmap
    BY <1>1, <1>3, OrderFacts
  <2>2. ASSUME NEW a \in Orders, boot \in listed[a] PROVE boot \in bitmap
    BY <1>0, <2>2, ListedIsFree, FreeInPfns
  <2>. QED  BY <2>1, <2>2
<1>5. \A a \in Orders : \A q \in listed[a] : type'[q] = a
  BY <1>0, <1>1, <1>4 DEF IInv, OrdersRecorded, TypeOK
<1>6. \A q \in Usable : q \in Nat /\ (q < boot + 1 <=> q < boot \/ q = boot)
  BY <1>0, UsableAssumption, OrderFacts DEF TypeOK
<1>7. CASE boot \in Usable
  <2>1. FreeEntry(boot, 0)
    BY <1>7 DEF PopulatePage
  <2>2. Frames(boot, 0) = {boot} /\ Aligned(boot, 0)
    BY <1>1, OrderFacts, SizeAssumption DEF Frames, Aligned
  <2>3. /\ bitmap' = bitmap \cup {boot}
        /\ bitmap' \subseteq Pfns
        /\ FreeListsAreRings' /\ UNCHANGED lists /\ ListTypes'
        /\ Tiles(FreeBlocks', bitmap')
        /\ Complete(FreeBlocks', bitmap', Working')
        /\ pc' = "merge" /\ cur' = boot /\ now' = 0 /\ want' = want
    <3>1. Frames(boot, 0) \cap bitmap = {} /\ Frames(boot, 0) \subseteq Pfns
      BY <1>1, <1>3, <2>2, OrderFacts
    <3>. QED  BY <1>1, <2>1, <2>2, <3>1, FreeEntryFacts, OrderFacts
  <2>4. TypeOK'
    BY <1>0, <1>1, <2>3, OrderFacts DEF TypeOK, ListTypes
  <2>5. OrdersRecorded'
    BY <1>5, <2>3 DEF OrdersRecorded, lists
  <2>6. LocalsOK'
    BY <1>0, <1>1, <1>4, <2>3, OrderFacts DEF LocalsOK, lists
  <2>7. bitmap' = {q \in Usable : q < boot'}
    BY <1>1, <1>3, <1>6, <1>7, <2>3
  <2>8. FramesConserved' /\ HeldAligned'
    BY <1>0, <1>1, <1>2, <2>7 DEF FramesConserved, HeldAligned
  <2>. QED  BY <2>3, <2>4, <2>5, <2>6, <2>8 DEF IInv
<1>8. CASE boot \notin Usable
  <2>1. UNCHANGED <<bitmap, lists, pc, want, cur, now>>
    BY <1>8 DEF PopulatePage
  <2>2. TypeOK'
    BY <1>0, <1>1, <2>1 DEF TypeOK, lists
  <2>3. FreeListsAreRings'
    BY <2>1 DEF IInv, FreeListsAreRings, lists
  <2>4. FreeBlocks' = FreeBlocks
    BY <2>1 DEF FreeBlocks, InFlight, lists
  <2>5. Working = {} /\ Working' = {}
    BY <1>1, <2>1 DEF Working
  <2>6. Tiles(FreeBlocks', bitmap') /\ Complete(FreeBlocks', bitmap', Working')
    BY <2>1, <2>4, <2>5 DEF IInv
  <2>7. OrdersRecorded' /\ LocalsOK'
    BY <1>0, <1>1, <1>5, <2>1 DEF OrdersRecorded, LocalsOK, lists
  <2>8. bitmap' = {q \in Usable : q < boot'}
    BY <1>1, <1>3, <1>6, <1>8, <2>1
  <2>9. FramesConserved' /\ HeldAligned'
    BY <1>0, <1>1, <1>2, <2>8 DEF FramesConserved, HeldAligned
  <2>. QED  BY <2>2, <2>3, <2>6, <2>7, <2>9 DEF IInv
<1>. QED  BY <1>7, <1>8

LEMMA MergeIInv ==
  ASSUME IInv, Merge
  PROVE  IInv'
<1> DEFINE q == BuddyOf(cur, now)
           l == IF cur > q THEN q ELSE cur
           b == <<cur, now>>
           c == <<q, now>>
           m == <<l, now + 1>>
<1>0. TypeOK /\ Tiles(FreeBlocks, bitmap) /\ ListTypes /\ ListsDisjoint
  BY IInvLists DEF IInv
<1>1. /\ b \in FreeBlocks /\ cur \in Pfns /\ cur \in Nat /\ now \in Orders
      /\ Aligned(cur, now) /\ cur \in FramesOf(b)
      /\ \A a \in Orders : cur \notin listed[a]
  BY <1>0, InFlightUnlisted, OrderFacts DEF Merge, IInv
<1>2. now + 1 \in Orders /\ Frames(q, now) \subseteq bitmap
  BY <1>1, OrderFacts DEF Merge, MayMerge, buddy_free, Orders
<1>3. Complete(FreeBlocks, bitmap, {b})
  <2>1. Working = {b}
    BY DEF Working, Merge
  <2>. QED  BY <2>1 DEF IInv
<1>4. c \in FreeBlocks
  BY <1>0, <1>1, <1>2, <1>3, BuddyIsListed
<1>5. q \in Nat /\ l \in Nat /\ cur # q
  BY <1>1, BuddyLemma
<1>6. q \in Pfns /\ l \in Pfns /\ q \in FramesOf(c)
  BY <1>0, <1>1, <1>4, FreeInPfns, BlockFrames
<1>7. q \in listed[now]
  BY <1>4, <1>5 DEF FreeBlocks, InFlight
<1>8. /\ ListTypes' /\ FreeListsAreRings'
      /\ listed' = [listed EXCEPT ![now] = @ \ {q}]
  BY <1>0, <1>1, <1>7, RemoveFromList DEF Merge, IInv
<1>9. /\ cur' = l /\ now' = now + 1 /\ pc' = "merge" /\ pc = "merge"
      /\ UNCHANGED <<bitmap, type, held, boot, released, want>>
  BY DEF Merge
<1>10. \A a \in Orders : a # now => q \notin listed[a]
  BY <1>0, <1>1, <1>7 DEF ListsDisjoint
<1> HIDE DEF q, l
<1>11. TypeOK'
  BY <1>0, <1>2, <1>6, <1>8, <1>9, OrderFacts DEF TypeOK, ListTypes
<1>12. FreeBlocks' = (FreeBlocks \ {b, c}) \cup {m}
  <2>1. InFlight = {b} /\ InFlight' = {m}
    BY <1>9 DEF InFlight
  <2>2. \A d \in Pfns \X Orders :
          d[1] \in listed'[d[2]] <=> d[1] \in listed[d[2]] /\ d # c
    BY <1>0, <1>1, <1>6, <1>8 DEF ListTypes
  <2>3. cur \notin listed[now]
    BY <1>1
  <2>. QED  BY <2>1, <2>2, <2>3 DEF FreeBlocks
<1>13. Tiles(FreeBlocks', bitmap')
  <2>1. Tiles((FreeBlocks \ {b, c}) \cup {m}, bitmap)
    BY <1>0, <1>1, <1>2, <1>4, TilesMerge DEF q, l
  <2>. QED  BY <1>9, <1>12, <2>1
<1>14. Complete(FreeBlocks', bitmap', Working')
  <2>1. Complete((FreeBlocks \ {b, c}) \cup {m}, bitmap, {m})
    BY <1>0, <1>1, <1>2, <1>3, <1>4, CompleteMerge DEF q, l
  <2>2. Working' = {m}
    BY <1>9 DEF Working
  <2>. QED  BY <1>9, <1>12, <2>1, <2>2
<1>15. OrdersRecorded'
  BY <1>0, <1>1, <1>8, <1>9 DEF IInv, OrdersRecorded, ListTypes
<1>16. LocalsOK'
  <2>1. l \notin listed[now + 1]
    BY <1>1, <1>2, <1>10, OrderFacts DEF l
  <2>2. cur' \notin listed'[now'] /\ now' < MaxOrderCnt
    BY <1>0, <1>1, <1>2, <1>8, <1>9, <2>1, OrderFacts DEF ListTypes
  <2>. QED  BY <1>9, <2>2 DEF IInv, LocalsOK
<1>17. FramesConserved' /\ HeldAligned'
  BY <1>9, HeldUnchanged DEF IInv
<1>. QED  BY <1>8, <1>11, <1>13, <1>14, <1>15, <1>16, <1>17 DEF IInv

LEMMA FreeReturnIInv ==
  ASSUME IInv, FreeReturn
  PROVE  IInv'
<1>0. TypeOK /\ Tiles(FreeBlocks, bitmap) /\ ListTypes /\ ListsDisjoint
  BY IInvLists DEF IInv
<1>1. /\ <<cur, now>> \in FreeBlocks /\ cur \in Pfns /\ cur \in Nat /\ now \in Orders
      /\ Aligned(cur, now) /\ cur \in FramesOf(<<cur, now>>)
      /\ \A a \in Orders : cur \notin listed[a]
  BY <1>0, InFlightUnlisted, OrderFacts DEF FreeReturn, IInv
<1>2. /\ ListTypes' /\ FreeListsAreRings'
      /\ listed' = [listed EXCEPT ![now] = @ \cup {cur}]
  BY <1>0, <1>1, AddToList DEF FreeReturn, IInv
<1>3. /\ pc = "merge" /\ pc' = "idle" /\ type' = [type EXCEPT ![cur] = now]
      /\ UNCHANGED <<bitmap, held, boot, released, want, cur, now>>
  BY DEF FreeReturn
<1>4. TypeOK'
  BY <1>0, <1>1, <1>2, <1>3 DEF TypeOK, ListTypes
<1>5. FreeBlocks' = FreeBlocks
  <2>1. InFlight = {<<cur, now>>} /\ InFlight' = {}
    BY <1>3 DEF InFlight
  <2>2. \A b \in Pfns \X Orders :
          b[1] \in listed'[b[2]] <=> b[1] \in listed[b[2]] \/ b = <<cur, now>>
    BY <1>0, <1>1, <1>2 DEF ListTypes
  <2>. QED  BY <1>1, <2>1, <2>2 DEF FreeBlocks
<1>6. Tiles(FreeBlocks', bitmap')
  BY <1>0, <1>3, <1>5
<1>7. Complete(FreeBlocks', bitmap', Working')
  <2>1. Working = {<<cur, now>>} /\ Working' = {}
    BY <1>3 DEF Working
  <2>2. now + 1 \notin Orders \/ ~(Frames(BuddyOf(cur, now), now) \subseteq bitmap)
    BY <1>1, OrderFacts DEF FreeReturn, MayMerge, buddy_free
  <2>. QED  BY <1>1, <1>3, <1>5, <2>1, <2>2, CompleteStop DEF IInv
<1>8. OrdersRecorded'
  <2>1. type'[cur] = now
    BY <1>0, <1>1, <1>3 DEF TypeOK
  <2>2. \A a \in Orders : \A p \in listed[a] : p # cur /\ type'[p] = a
    BY <1>0, <1>1, <1>3 DEF IInv, OrdersRecorded, TypeOK
  <2>. QED  BY <1>1, <1>2, <1>3, <2>1, <2>2 DEF OrdersRecorded, ListTypes
<1>9. LocalsOK'
  BY <1>3 DEF IInv, LocalsOK
<1>10. FramesConserved' /\ HeldAligned'
  <2>1. \A p \in held : type'[p] = type[p]
    <3>1. cur \in bitmap
      BY <1>0, <1>1, FreeInPfns
    <3>2. \A p \in held : p # cur /\ p \in Pfns
      BY <1>0, <3>1, HeldNotFree DEF IInv
    <3>. QED  BY <1>0, <1>3, <3>2 DEF TypeOK
  <2>2. HeldFrames' = HeldFrames
    BY <1>3, <2>1 DEF HeldFrames
  <2>. QED  BY <1>3, <2>1, <2>2 DEF IInv, FramesConserved, HeldAligned
<1>. QED  BY <1>2, <1>4, <1>6, <1>7, <1>8, <1>9, <1>10 DEF IInv

-----------------------------------------------------------------------------
(* The theorems *)

LEMMA StutterIInv == ASSUME IInv, UNCHANGED vars PROVE IInv'
<1> USE DEF vars, lists
<1>1. FreeBlocks' = FreeBlocks /\ Working' = Working
  BY DEF FreeBlocks, InFlight, Working, AfterHead
<1>2. Tiles(FreeBlocks', bitmap') /\ Complete(FreeBlocks', bitmap', Working')
  BY <1>1 DEF IInv
<1>3. TypeOK' /\ FreeListsAreRings'
  BY DEF IInv, TypeOK, FreeListsAreRings
<1>4. OrdersRecorded' /\ LocalsOK'
  BY DEF IInv, OrdersRecorded, LocalsOK
<1>5. FramesConserved' /\ HeldAligned'
  BY HeldUnchanged DEF IInv
<1>. QED  BY <1>2, <1>3, <1>4, <1>5 DEF IInv

\* The inductive invariant: free lists, bitmap, held blocks, coalescing and
\* the locals of the running call, together.
THEOREM Invariance == Spec => []IInv
<1>1. Init => IInv
  BY InitIInv
<1>2. IInv /\ [Next]_vars => IInv'
  <2> SUFFICES ASSUME IInv, [Next]_vars PROVE IInv'
    OBVIOUS
  <2>1. CASE \E o \in Orders : AllocStart(o)  BY <2>1, AllocStartIInv
  <2>2. CASE \E p \in held : FreeStart(p)     BY <2>2, FreeStartIInv
  <2>3. CASE PopulatePage                     BY <2>3, PopulateIInv
  <2>4. CASE SkipOrder \/ ScanEnd             BY <2>4, ScanIInv
  <2>5. CASE TakeLarger                       BY <2>5, TakeLargerIInv
  <2>6. CASE Split                            BY <2>6, SplitIInv
  <2>7. CASE SplitEnd                         BY <2>7, SplitEndIInv
  <2>8. CASE AllocReturn                      BY <2>8, AllocReturnIInv
  <2>9. CASE AllocFail                        BY <2>9, AllocFailIInv
  <2>10. CASE Merge                           BY <2>10, MergeIInv
  <2>11. CASE FreeReturn                      BY <2>11, FreeReturnIInv
  <2>12. CASE UNCHANGED vars                  BY <2>12, StutterIInv
  <2>. QED
    BY <2>1, <2>2, <2>3, <2>4, <2>5, <2>6, <2>7, <2>8, <2>9, <2>10, <2>11, <2>12
       DEF Next, Call, Step
<1>. QED  BY <1>1, <1>2, PTL DEF Spec
\* Every variable keeps its type: what the code computes with a frame number
\* is always a page of vmemmap.
THEOREM TypeCorrect == Spec => []TypeOK
<1>1. IInv => TypeOK  BY DEF IInv
<1>. QED  BY <1>1, Invariance, PTL

\* The list.h calls never tear a free list or join two of them.
THEOREM RingsIntact == Spec => []FreeListsAreRings
<1>1. IInv => FreeListsAreRings  BY DEF IInv
<1>. QED  BY <1>1, Invariance, PTL

\* The bitmap that free_pages trusts always agrees with the free lists.
THEOREM BitmapSound == Spec => []BitmapMatchesLists
<1>1. IInv => BitmapMatchesLists
  BY DEF IInv, Tiles, FramesOf, BitmapMatchesLists
<1>. QED  BY <1>1, Invariance, PTL

\* No frame is handed out twice, handed out and free, or lost.
THEOREM NoFrameLost == Spec => []FramesConserved
<1>1. IInv => FramesConserved  BY DEF IInv
<1>. QED  BY <1>1, Invariance, PTL

\* Between two calls nothing is left to merge.
THEOREM AlwaysCoalesced == Spec => []Coalesced
<1>1. ASSUME IInv PROVE Coalesced
  <2>1. SUFFICES ASSUME pc = "idle", NEW o \in Orders, NEW p \in Pfns,
                        Aligned(p, o), Frames(p, o) \subseteq bitmap
        PROVE  \E b \in FreeBlocks :
                 o <= b[2] /\ Frames(p, o) \subseteq Frames(b[1], b[2])
    BY DEF Coalesced, Aligned
  <2>2. Working = {} /\ p \in Nat
    BY <2>1, OrderFacts DEF Working
  <2>. QED  BY <1>1, <2>1, <2>2 DEF IInv, Complete, FramesOf
<1>. QED  BY <1>1, Invariance, PTL

\* What is left in the lists when a call is about to return nullptr.
LEMMA NothingAbove ==
  ASSUME IInv, pc = "take" \/ pc = "scan", NEW o \in Orders,
         \A a \in Orders : o <= a => listed[a] = {}, Working = {}
  PROVE  ~ \E p \in Pfns : p % Size[o] = 0 /\ Frames(p, o) \subseteq bitmap
<1>1. SUFFICES ASSUME NEW p \in Pfns, Aligned(p, o), Frames(p, o) \subseteq bitmap
      PROVE  FALSE
  BY DEF Aligned
<1>2. PICK b \in FreeBlocks : o <= b[2]
  BY <1>1, OrderFacts DEF IInv, Complete
<1>3. b \in Pfns \X Orders /\ b[1] \in listed[b[2]]
  BY <1>2 DEF FreeBlocks, InFlight
<1>. QED  BY <1>2, <1>3

\* alloc_pages gives up only when memory has no aligned free block left.
THEOREM FailureSound == Spec => []FailsOnlyWhenFull
<1>1. ASSUME IInv PROVE FailsOnlyWhenFull
  <2>1. SUFFICES ASSUME pc = "take", nr_free[want] = 0
        PROVE  ~ \E p \in Pfns : p % Size[want] = 0 /\ Frames(p, want) \subseteq bitmap
    BY DEF FailsOnlyWhenFull
  <2>2. want \in Orders /\ listed[want] = {}
    BY <1>1, <2>1, ListedFinite, IInvLists, FS_EmptySet
       DEF IInv, FreeListsAreRings, TypeOK
  <2>3. Working = {} /\ \A a \in Orders : want <= a => listed[a] = {}
    BY <1>1, <2>1, <2>2 DEF Working, IInv, LocalsOK
  <2>. QED  BY <1>1, <2>1, <2>2, <2>3, NothingAbove
<1>. QED  BY <1>1, Invariance, PTL

-----------------------------------------------------------------------------
(* The allocator implements PageAlloc *)

Given   == {<<p, type[p]>> : p \in held}
Failing == IF pc = "take" /\ nr_free[want] = 0 THEN want ELSE -1

\* Steps that a caller cannot see.
LEMMA InnerSteps ==
  ASSUME IInv,
         \/ \E o \in Orders : AllocStart(o)
         \/ SkipOrder \/ TakeLarger \/ Split \/ SplitEnd \/ Merge \/ FreeReturn
  PROVE  UNCHANGED <<bitmap, Given, Failing>>
<1>0. TypeOK /\ Tiles(FreeBlocks, bitmap) /\ LocalsOK /\ FramesConserved
  BY DEF IInv
<1>1. CASE \E o \in Orders : AllocStart(o)
  BY <1>1 DEF AllocStart, lists, Given, Failing
<1>2. CASE SkipOrder
  BY <1>2 DEF SkipOrder, lists, Given, Failing
<1>3. CASE TakeLarger
  BY <1>3 DEF TakeLarger, Given, Failing
<1>4. ASSUME NEW f, f \in bitmap, \A p \in Pfns \ {cur, f} : type'[p] = type[p],
             cur \in bitmap, held' = held
      PROVE  Given' = Given
  <2>1. \A p \in held : type'[p] = type[p]
    BY <1>0, <1>4, HeldNotFree
  <2>. QED  BY <1>4, <2>1 DEF Given
<1>5. CASE Split
  <2> DEFINE half == cur + Size[now - 1]
  <2>1. cur \in bitmap /\ half \in bitmap
    <3>1. /\ cur \in Nat /\ now - 1 \in Orders /\ (now - 1) + 1 \in Orders
          /\ now = (now - 1) + 1 /\ Aligned(cur, now)
          /\ FramesOf(<<cur, now>>) \subseteq bitmap
          /\ cur \in FramesOf(<<cur, now>>)
      BY <1>0, <1>5, OrderFacts, InFlightUnlisted, FreeInPfns DEF Split, TypeOK
    <3>2. half \in Nat /\ Frames(half, now - 1) \subseteq Frames(cur, now)
      BY <3>1, Halves
    <3>3. half \in Frames(half, now - 1)
      BY <3>1, <3>2, BlockFrames, <<half, now - 1>> \in Block DEF Block, FramesOf
    <3>. QED  BY <3>1, <3>2, <3>3 DEF FramesOf
  <2>2. /\ type' = [type EXCEPT ![cur] = now - 1, ![half] = now - 1]
        /\ held' = held /\ bitmap' = bitmap /\ pc' = pc /\ pc = "split"
    BY <1>5 DEF Split
  <2>3. \A p \in Pfns \ {cur, half} : type'[p] = type[p]
    BY <2>2, <1>0 DEF TypeOK
  <2>4. Given' = Given
    BY <1>4, <2>1, <2>2, <2>3
  <2>. QED  BY <2>2, <2>4 DEF Failing
<1>6. CASE SplitEnd
  <2>1. nr_free'[want] # 0
    BY <1>0, <1>6 DEF SplitEnd, add_page_to_free_list, TypeOK
  <2>. QED  BY <1>6, <2>1 DEF SplitEnd, Given, Failing
<1>7. CASE Merge
  BY <1>7 DEF Merge, Given, Failing
<1>8. CASE FreeReturn
  <2>1. cur \in bitmap
    BY <1>0, <1>8, InFlightUnlisted, FreeInPfns DEF FreeReturn
  <2>2. \A p \in Pfns \ {cur, cur} : type'[p] = type[p]
    BY <1>0, <1>8 DEF FreeReturn, TypeOK
  <2>3. Given' = Given
    BY <1>4, <1>8, <2>1, <2>2 DEF FreeReturn
  <2>. QED  BY <1>8, <2>3 DEF FreeReturn, Failing
<1>. QED  BY <1>1, <1>2, <1>3, <1>5, <1>6, <1>7, <1>8

\* Every step of alloc_pages, free_pages and the boot loop is a step of the
\* abstract allocator, or one it does not see: a caller of the buddy allocator
\* can rely on PageAlloc alone.
THEOREM Refinement == Spec => ImplementsPageAlloc
<1> USE DEF PA!vars, PA!Orders, PA!Frames
<1>1. Init => PA!Init
  <2> SUFFICES ASSUME Init PROVE PA!Init
    OBVIOUS
  <2>. QED  BY DEF Init, PA!Init
<1>2. IInv /\ [Next]_vars => [PA!Next]_(PA!vars)
  <2> SUFFICES ASSUME IInv, [Next]_vars PROVE [PA!Next]_(PA!vars)
    OBVIOUS
  <2>0. /\ TypeOK /\ Tiles(FreeBlocks, bitmap) /\ LocalsOK /\ FramesConserved
        /\ PA!Orders = Orders /\ \A o \in Orders : o # -1
    BY OrderFacts DEF IInv, Orders
  <2>1. CASE \/ \E o \in Orders : AllocStart(o)
             \/ SkipOrder \/ TakeLarger \/ Split \/ SplitEnd \/ Merge \/ FreeReturn
    BY <2>1, InnerSteps DEF Given, Failing
  <2>2. CASE \E p \in held : FreeStart(p)
    <3> PICK p \in held : FreeStart(p)
      BY <2>2
    <3> DEFINE b == <<p, type[p]>>
    <3>1. Frames(p, type[p]) \cap bitmap = {}
      BY <2>0 DEF FramesConserved, HeldFrames
    <3>2. bitmap' = bitmap \cup Frames(b[1], b[2])
      BY <3>1 DEF FreeStart, FreeEntry, chg_bitmap
    <3>3. b \in Given /\ Given' = Given \ {b} /\ UNCHANGED Failing
      BY DEF FreeStart, FreeEntry, Given, Failing
    <3>4. PICK c \in {<<q, type[q]>> : q \in held} : c = b
      OBVIOUS
    <3>5. PA!Free(c)
      BY <3>2, <3>3, <3>4 DEF PA!Free, Given, Failing, Frames
    <3>6. PA!Next
      BY <3>4, <3>5 DEF PA!Next
    <3>. QED  BY <3>6
  <2>3. CASE PopulatePage
    <3>1. held = {} /\ held' = {} /\ pc = "idle" /\ pc' \in {"idle", "merge"}
      BY <2>0, <2>3 DEF PopulatePage, FreeEntry, LocalsOK
    <3>2. Given = {} /\ Given' = {} /\ Failing = -1 /\ Failing' = -1
      BY <3>1 DEF Given, Failing
    <3>3. CASE boot \in Usable
      <4>1. boot \in Pfns /\ Frames(boot, 0) = {boot} /\ boot \notin bitmap
        BY <2>0, <3>3, UsableAssumption, SizeAssumption, OrderFacts
           DEF Frames, FramesConserved
      <4>2. bitmap' = bitmap \cup {boot}
        BY <2>3, <3>3, <4>1 DEF PopulatePage, FreeEntry, chg_bitmap
      <4>3. PA!Populate(boot)
        BY <3>2, <3>3, <4>1, <4>2 DEF PA!Populate, Given, Failing
      <4>. QED  BY <3>3, <4>3 DEF PA!Next
    <3>4. CASE boot \notin Usable
      BY <2>3, <3>2, <3>4 DEF PopulatePage, Given, Failing
    <3>. QED  BY <3>3, <3>4
  <2>4. CASE ScanEnd
    <3>1. Working = {} /\ want \in Orders /\ \A a \in Orders : want <= a => listed[a] = {}
      BY <2>0, <2>4, OrderFacts DEF ScanEnd, Working, LocalsOK, TypeOK
    <3>2. nr_free[want] = 0
      BY <3>1, FS_EmptySet, OrderFacts DEF IInv, FreeListsAreRings
    <3>3. ~ \E p \in Pfns : p % Size[want] = 0 /\ Frames(p, want) \subseteq bitmap
      BY <2>4, <3>1, NothingAbove DEF ScanEnd
    <3>4. PA!FreeBlocks(want) = {}
      BY <2>0, <3>3 DEF PA!FreeBlocks, Frames, TypeOK
    <3>5. UNCHANGED <<bitmap, Given>> /\ Failing = -1 /\ Failing' = want
      BY <2>4, <3>2 DEF ScanEnd, lists, Given, Failing
    <3>6. PA!GiveUp(want)
      BY <3>4, <3>5 DEF PA!GiveUp, Given, Failing
    <3>. QED  BY <2>0, <3>1, <3>6 DEF PA!Next
  <2>5. CASE AllocReturn
    <3> DEFINE p == AfterHead(want)
    <3>1. /\ want \in Orders /\ p \in listed[want] /\ type[p] = want
          /\ p \in bitmap /\ Aligned(p, want) /\ Frames(p, want) \subseteq bitmap
      <4>1. want \in Orders /\ Cardinality(listed[want]) # 0
        BY <2>0, <2>5 DEF TypeOK, AllocReturn, IInv, FreeListsAreRings
      <4>2. p \in listed[want]
        BY <2>5, <4>1, FS_EmptySet
           DEF AllocReturn, HeadLost, AfterHead, IInv, FreeListsAreRings, IsRing
      <4>3. <<p, want>> \in FreeBlocks /\ p \in FramesOf(<<p, want>>)
        BY <2>0, <4>1, <4>2, ListedIsFree
      <4>4. FramesOf(<<p, want>>) \subseteq bitmap /\ Aligned(p, want)
        BY <2>0, <4>3, FreeInPfns DEF Tiles
      <4>. QED  BY <4>1, <4>2, <4>3, <4>4 DEF FramesOf, IInv, OrdersRecorded
    <3>2. /\ bitmap' = bitmap \ Frames(p, want) /\ held' = held \cup {p}
          /\ type' = type /\ pc' = "idle" /\ nr_free[want] # 0
      BY <2>5, <3>1 DEF AllocReturn, chg_bitmap
    <3> HIDE DEF p
    <3>3. Given' = Given \cup {<<p, want>>} /\ Failing = -1 /\ Failing' = -1
      BY <3>1, <3>2 DEF Given, Failing
    <3>4. PICK o \in PA!Orders : o = want
      BY <2>0, <3>1
    <3>5. PA!Alloc(o)
      BY <3>1, <3>2, <3>3, <3>4 DEF PA!Alloc, PA!FreeBlocks, Given, Failing, Frames, Aligned
    <3>6. PA!Next
      BY <3>4, <3>5 DEF PA!Next
    <3>. QED  BY <3>6
  <2>6. CASE AllocFail
    <3>1. UNCHANGED <<bitmap, Given>> /\ Failing # -1 /\ Failing' = -1
      BY <2>0, <2>6 DEF AllocFail, lists, Given, Failing, TypeOK
    <3>. QED  BY <3>1 DEF PA!Return, PA!Next, Given, Failing
  <2>7. CASE UNCHANGED vars
    BY <2>7 DEF vars, lists
  <2>. QED
    BY <2>1, <2>2, <2>3, <2>4, <2>5, <2>6, <2>7 DEF Next, Call, Step
<1>. QED  BY <1>1, <1>2, Invariance, PTL DEF Spec, ImplementsPageAlloc, PA!Spec

-----------------------------------------------------------------------------
(* Why the kernel boots with the merge of free_pages that can lose the head  *)
(* of a list: as long as nobody frees a page no list loses its head, for     *)
(* every number of orders and every memory.                                  *)

\* The head of each list is the lowest of its pages.
HeadLowest == \A o \in Orders : \A p \in listed[o] : free_lst[o] <= p

\* While the pages of the memory are populated, in ascending order, the heads
\* are the lowest pages and the page in hand is behind all of them.
HeadsKept ==
  ~released =>
    /\ \A o \in Orders : ~HeadLost(o)
    /\ pc = "merge" => HeadLowest /\ \A o \in Orders : \A p \in listed[o] : p < cur
    /\ pc = "idle" /\ boot < NPages => HeadLowest

HInv == IInv /\ HeadsKept

-----------------------------------------------------------------------------
LEMMA EmptyList ==
  ASSUME ListTypes, FreeListsAreRings, NEW o \in Orders
  PROVE  /\ nr_free[o] = 0 <=> listed[o] = {}
         /\ free_lst[o] = Null <=> listed[o] = {}
<1>1. IsFiniteSet(listed[o]) BY ListedFinite
<1>2. Cardinality(listed[o]) = 0 <=> listed[o] = {} BY <1>1, FS_EmptySet
<1>. QED  BY <1>2 DEF FreeListsAreRings

\* The page behind the head is another one, or the only one.
LEMMA BehindHead ==
  ASSUME FreeListsAreRings, NEW o \in Orders, free_lst[o] \in listed[o]
  PROVE  /\ AfterHead(o) \in listed[o]
         /\ AfterHead(o) = free_lst[o] => listed[o] = {free_lst[o]}
<1> DEFINE h == free_lst[o]
<1>1. IsRing(lru, listed[o]) BY DEF FreeListsAreRings
<1>2. AfterHead(o) \in listed[o] BY <1>1 DEF IsRing, AfterHead
<1>3. ASSUME AfterHead(o) = h PROVE listed[o] = {h}
  <2>1. {h} \in SUBSET listed[o] /\ {h} # {} /\ \A x \in {h} : lru[x].next \in {h}
    BY <1>3 DEF AfterHead
  <2>. QED  BY <1>1, <2>1 DEF IsRing
<1>. QED  BY <1>2, <1>3

\* A page that is not the head of others leaves the heads of all lists.
LEMMA RemoveKeepsHeads ==
  ASSUME ListTypes, FreeListsAreRings, ListsDisjoint, NEW o \in Orders, NEW p \in listed[o],
         remove_page_from_free_list(p, o),
         \A a \in Orders : ~HeadLost(a),
         p = free_lst[o] => listed[o] = {p}
  PROVE  /\ \A a \in Orders : ~HeadLost(a)'
         /\ \A a \in Orders : \A q \in listed'[a] :
              q \in listed[a] /\ q # p /\ free_lst'[a] = free_lst[a]
<1>1. /\ ListTypes' /\ FreeListsAreRings'
      /\ listed' = [listed EXCEPT ![o] = @ \ {p}]
  BY RemoveFromList
<1>2. nr_free'[o] = 0 <=> listed'[o] = {}
  <2>1. nr_free'[o] = Cardinality(listed'[o]) BY <1>1 DEF FreeListsAreRings
  <2>2. IsFiniteSet(listed'[o])
    <3>1. listed'[o] \subseteq listed[o] BY <1>1 DEF ListTypes
    <3>. QED  BY <3>1, ListedFinite, FS_Subset
  <2>. QED  BY <2>1, <2>2, FS_EmptySet
<1>3. \A a \in Orders : listed'[a] # {} => free_lst'[a] = free_lst[a]
  BY <1>2 DEF remove_page_from_free_list, ListTypes
<1>4. \A a \in Orders : \A q \in listed'[a] : q \in listed[a] /\ q # p
  BY <1>1 DEF ListTypes, ListsDisjoint
<1>5. ASSUME NEW a \in Orders, listed'[a] # {} PROVE free_lst'[a] \in listed'[a]
  <2>1. listed[a] # {} /\ free_lst[a] \in listed[a] /\ free_lst'[a] = free_lst[a]
    BY <1>3, <1>4, <1>5 DEF HeadLost
  <2>2. CASE a = o
    <3>1. free_lst[a] # p BY <1>4, <1>5, <2>2
    <3>. QED  BY <1>1, <2>1, <2>2, <3>1 DEF ListTypes
  <2>3. CASE a # o BY <1>1, <2>1, <2>3 DEF ListTypes
  <2>. QED  BY <2>2, <2>3
<1>. QED  BY <1>3, <1>4, <1>5 DEF HeadLost

\* A page that is added becomes the head of an empty list only.
LEMMA AddKeepsHeads ==
  ASSUME ListTypes, FreeListsAreRings, NEW o \in Orders, NEW p \in Pfns,
         add_page_to_free_list(p, o), \A a \in Orders : ~HeadLost(a)
  PROVE  /\ \A a \in Orders : ~HeadLost(a)'
         /\ \A a \in Orders : \A q \in listed'[a] :
              \/ q \in listed[a] /\ free_lst'[a] = free_lst[a]
              \/ q = p /\ free_lst'[a] = p
              \/ q = p /\ free_lst'[a] \in listed[a]
<1>1. listed' = [listed EXCEPT ![o] = @ \cup {p}]
  BY DEF add_page_to_free_list
<1>2. free_lst[o] = Null <=> listed[o] = {} BY EmptyList
<1>3. CASE listed[o] = {}
  <2>1. free_lst' = [free_lst EXCEPT ![o] = p] BY <1>2, <1>3 DEF add_page_to_free_list
  <2>2. listed'[o] = {p} /\ free_lst'[o] = p BY <1>1, <1>3, <2>1 DEF ListTypes
  <2>3. \A a \in Orders : a # o => listed'[a] = listed[a] /\ free_lst'[a] = free_lst[a]
    BY <1>1, <2>1 DEF ListTypes
  <2>. QED  BY <2>2, <2>3 DEF HeadLost
<1>4. CASE listed[o] # {}
  <2>1. free_lst' = free_lst BY <1>2, <1>4 DEF add_page_to_free_list
  <2>2. listed'[o] = listed[o] \cup {p} /\ free_lst[o] \in listed[o]
    BY <1>1, <1>4 DEF ListTypes, HeadLost
  <2>3. \A a \in Orders : a # o => listed'[a] = listed[a] BY <1>1 DEF ListTypes
  <2>. QED  BY <2>1, <2>2, <2>3 DEF HeadLost
<1>. QED  BY <1>3, <1>4

-----------------------------------------------------------------------------
(* The steps *)

LEMMA InitHeads == Init => HeadsKept
  BY DEF Init, HeadsKept, HeadLost, HeadLowest

\* Nothing of a list changes, and no call of free_pages is on its way.
LEMMA SameLists ==
  ASSUME HInv, UNCHANGED <<lists, boot, released>>,
         boot = NPages, pc' # "merge"
  PROVE  HeadsKept'
<1>1. \A o \in Orders : HeadLost(o)' <=> HeadLost(o) BY DEF HeadLost, lists
<1>2. ~(boot < NPages) BY NPagesAssumption
<1>. QED  BY <1>1, <1>2 DEF HInv, HeadsKept

LEMMA AllocBooted ==
  ASSUME IInv, pc \in {"scan", "split", "take"}
  PROVE  boot = NPages
  BY NPagesAssumption DEF IInv, LocalsOK, TypeOK

LEMMA FreeStartHeads == ASSUME NEW p \in held, FreeStart(p) PROVE HeadsKept'
  BY DEF FreeStart, HeadsKept

\* The pages that were populated before lie below the one that comes now.
LEMMA PopulateHeads == ASSUME HInv, PopulatePage PROVE HeadsKept'
<1>0. TypeOK /\ Tiles(FreeBlocks, bitmap) /\ FramesConserved /\ pc = "idle" /\ boot < NPages
  BY DEF HInv, IInv, PopulatePage
<1>1. UNCHANGED <<lists, released>> BY DEF PopulatePage, FreeEntry
<1>2. \A o \in Orders : HeadLost(o)' <=> HeadLost(o) BY <1>1 DEF HeadLost, lists
<1>3. HeadLowest' <=> HeadLowest BY <1>1 DEF HeadLowest, lists
<1>4. \A o \in Orders : \A p \in listed[o] : p < boot
  <2> SUFFICES ASSUME NEW o \in Orders, NEW p \in listed[o] PROVE p < boot OBVIOUS
  <2>1. <<p, o>> \in FreeBlocks /\ p \in FramesOf(<<p, o>>) BY <1>0, ListedIsFree
  <2>2. p \in bitmap BY <1>0, <2>1, FreeInPfns
  <2>. QED  BY <1>0, <2>2 DEF FramesConserved
<1>5. pc' = "merge" => cur' = boot BY <1>0 DEF PopulatePage, FreeEntry
<1>. QED  BY <1>0, <1>1, <1>2, <1>3, <1>4, <1>5 DEF HInv, HeadsKept, lists

LEMMA TakeLargerHeads == ASSUME HInv, TakeLarger PROVE HeadsKept'
<1>0. TypeOK /\ Tiles(FreeBlocks, bitmap) /\ ListTypes /\ ListsDisjoint /\ FreeListsAreRings
  BY IInvLists DEF HInv, IInv
<1>1. now \in Orders BY <1>0, OrderFacts DEF TakeLarger, TypeOK
<1>2. listed[now] # {} BY <1>0, <1>1, EmptyList DEF TakeLarger
<1>3. free_lst[now] \in listed[now] BY <1>2 DEF TakeLarger, HeadLost
<1>4. boot = NPages BY AllocBooted DEF TakeLarger, HInv
<1>5. ASSUME ~released PROVE \A a \in Orders : ~HeadLost(a)'
  <2>1. \A a \in Orders : ~HeadLost(a) BY <1>5 DEF HInv, HeadsKept
  <2>. QED  BY <1>0, <1>1, <1>3, <2>1, BehindHead, RemoveKeepsHeads DEF TakeLarger
<1>6. pc' = "split" /\ boot' = boot /\ released' = released BY DEF TakeLarger
<1>. QED  BY <1>4, <1>5, <1>6 DEF HeadsKept

LEMMA AllocReturnHeads == ASSUME HInv, AllocReturn PROVE HeadsKept'
<1>0. TypeOK /\ Tiles(FreeBlocks, bitmap) /\ ListTypes /\ ListsDisjoint /\ FreeListsAreRings
  BY IInvLists DEF HInv, IInv
<1>1. want \in Orders BY <1>0 DEF TypeOK
<1>2. listed[want] # {} BY <1>0, <1>1, EmptyList DEF AllocReturn
<1>3. free_lst[want] \in listed[want] BY <1>2 DEF AllocReturn, HeadLost
<1>4. boot = NPages /\ ~(boot < NPages) BY AllocBooted, NPagesAssumption DEF AllocReturn, HInv
<1>5. ASSUME ~released PROVE \A a \in Orders : ~HeadLost(a)'
  <2>1. \A a \in Orders : ~HeadLost(a) BY <1>5 DEF HInv, HeadsKept
  <2>. QED  BY <1>0, <1>1, <1>3, <2>1, BehindHead, RemoveKeepsHeads DEF AllocReturn
<1>6. pc' = "idle" /\ boot' = boot /\ released' = released BY DEF AllocReturn
<1>. QED  BY <1>4, <1>5, <1>6 DEF HeadsKept

LEMMA SplitHeads == ASSUME HInv, Split \/ SplitEnd PROVE HeadsKept'
<1>0. /\ TypeOK /\ Tiles(FreeBlocks, bitmap) /\ LocalsOK /\ pc = "split"
      /\ ListTypes /\ FreeListsAreRings
  BY IInvLists DEF HInv, IInv, Split, SplitEnd
<1>1. cur \in Pfns /\ now \in Orders BY <1>0, InFlightUnlisted
<1>2. boot = NPages BY <1>0, AllocBooted DEF HInv
<1>3. ASSUME ~released PROVE \A a \in Orders : ~HeadLost(a)'
  <2>1. \A a \in Orders : ~HeadLost(a) BY <1>3 DEF HInv, HeadsKept
  <2>2. CASE SplitEnd
    BY <1>0, <1>1, <2>1, <2>2, AddKeepsHeads DEF SplitEnd
  <2>3. CASE Split
    <3>1. now - 1 \in Orders
      BY <1>0, <1>1, <2>3, OrderFacts DEF Split, TypeOK
    <3>2. cur + Size[now - 1] \in Pfns
      <4>1. listed'[now - 1] = listed[now - 1] \cup {cur + Size[now - 1]}
        BY <1>0, <2>3, <3>1 DEF Split, add_page_to_free_list, ListTypes
      <4>2. TypeOK' BY <2>3, SplitIInv DEF HInv, IInv
      <4>. QED  BY <3>1, <4>1, <4>2 DEF TypeOK
    <3>. QED  BY <1>0, <2>1, <2>3, <3>1, <3>2, AddKeepsHeads DEF Split
  <2>. QED  BY <2>2, <2>3
<1>4. pc' # "merge" /\ pc' # "idle" /\ released' = released
  BY <1>0 DEF Split, SplitEnd
<1>. QED  BY <1>3, <1>4 DEF HeadsKept

\* A buddy to the left is the highest page of its list, so it is the head only
\* when it is alone; none lies to the right.
LEMMA MergeHeads == ASSUME HInv, Merge PROVE HeadsKept'
<1> DEFINE q == BuddyOf(cur, now)
<1>0. /\ TypeOK /\ Tiles(FreeBlocks, bitmap) /\ LocalsOK /\ pc = "merge"
      /\ ListTypes /\ ListsDisjoint /\ FreeListsAreRings
  BY IInvLists DEF HInv, IInv, Merge
<1>1. /\ <<cur, now>> \in FreeBlocks /\ cur \in Nat /\ now \in Orders /\ Aligned(cur, now)
  BY <1>0, InFlightUnlisted, OrderFacts
<1>2. now + 1 \in Orders /\ Frames(q, now) \subseteq bitmap
  BY <1>1, OrderFacts DEF Merge, MayMerge, buddy_free, Orders
<1>3. Complete(FreeBlocks, bitmap, {<<cur, now>>})
  <2>1. Working = {<<cur, now>>} BY <1>0 DEF Working
  <2>. QED  BY <2>1 DEF HInv, IInv
<1>4. <<q, now>> \in FreeBlocks BY <1>0, <1>1, <1>2, <1>3, BuddyIsListed
<1>5. q \in Nat /\ cur # q BY <1>1, BuddyLemma
<1>6. q \in listed[now] BY <1>4, <1>5 DEF FreeBlocks, InFlight
<1>7. SUFFICES ASSUME ~released PROVE HeadsKept' BY DEF Merge, HeadsKept
<1>8. /\ \A a \in Orders : ~HeadLost(a)
      /\ HeadLowest /\ \A a \in Orders : \A p \in listed[a] : p < cur
  BY <1>0, <1>7 DEF HInv, HeadsKept
<1>9. q < cur /\ cur = q + Size[now]
  <2>1. Size[now] \in Nat BY <1>1, OrderFacts, SizeAssumption
  <2>2. q < cur BY <1>1, <1>6, <1>8
  <2>3. q = cur + Size[now] \/ q = cur - Size[now] BY DEF BuddyOf
  <2>. QED  BY <1>1, <2>1, <2>2, <2>3
<1> HIDE DEF q
<1>10. \A a \in Orders : \A p \in listed[a] : p \in Nat /\ (p < q \/ p = q)
  <2> SUFFICES ASSUME NEW a \in Orders, NEW p \in listed[a], ~(p < q) PROVE p = q
    BY <1>0, OrderFacts DEF TypeOK
  <2>1. p \in Nat /\ p < cur BY <1>0, <1>8, OrderFacts DEF TypeOK
  <2>2. Size[now] \in Nat BY <1>1, OrderFacts, SizeAssumption
  <2>3. p \in q .. q + Size[now] - 1 BY <1>1, <1>5, <1>9, <2>1, <2>2
  <2>4. p \in FramesOf(<<q, now>>) BY <2>3 DEF FramesOf, Frames
  <2>5. <<q, now>> = <<p, a>> BY <1>0, <1>4, <2>4, OneList
  <2>. QED  BY <2>5
<1>11. q = free_lst[now] => listed[now] = {q}
  BY <1>1, <1>5, <1>6, <1>8, <1>10 DEF HeadLowest
<1>12. /\ \A a \in Orders : ~HeadLost(a)'
       /\ \A a \in Orders : \A p \in listed'[a] :
            p \in listed[a] /\ p # q /\ free_lst'[a] = free_lst[a]
  BY <1>0, <1>1, <1>6, <1>8, <1>11, RemoveKeepsHeads DEF Merge, q
<1>13. cur' = q BY <1>1, <1>5, <1>9 DEF Merge, q
<1>14. HeadLowest' BY <1>8, <1>12 DEF HeadLowest
<1>15. \A a \in Orders : \A p \in listed'[a] : p < cur' BY <1>10, <1>12, <1>13
<1>16. pc' = "merge" BY DEF Merge
<1>. QED  BY <1>12, <1>14, <1>15, <1>16 DEF HeadsKept

LEMMA FreeReturnHeads == ASSUME HInv, FreeReturn PROVE HeadsKept'
<1>0. /\ TypeOK /\ Tiles(FreeBlocks, bitmap) /\ LocalsOK /\ pc = "merge"
      /\ ListTypes /\ FreeListsAreRings
  BY IInvLists DEF HInv, IInv, FreeReturn
<1>1. cur \in Pfns /\ cur \in Nat /\ now \in Orders BY <1>0, InFlightUnlisted, OrderFacts
<1>2. SUFFICES ASSUME ~released PROVE HeadsKept' BY DEF FreeReturn, HeadsKept
<1>3. /\ \A a \in Orders : ~HeadLost(a)
      /\ HeadLowest /\ \A a \in Orders : \A p \in listed[a] : p < cur
  BY <1>0, <1>2 DEF HInv, HeadsKept
<1>4. /\ \A a \in Orders : ~HeadLost(a)'
      /\ \A a \in Orders : \A p \in listed'[a] :
           \/ p \in listed[a] /\ free_lst'[a] = free_lst[a]
           \/ p = cur /\ free_lst'[a] = cur
           \/ p = cur /\ free_lst'[a] \in listed[a]
  BY <1>0, <1>1, <1>3, AddKeepsHeads DEF FreeReturn
<1>5. \A a \in Orders : \A p \in listed[a] : p \in Nat BY <1>0, OrderFacts DEF TypeOK
<1>6. HeadLowest'
  <2> SUFFICES ASSUME NEW a \in Orders, NEW p \in listed'[a] PROVE free_lst'[a] <= p
    BY DEF HeadLowest
  <2>1. CASE p \in listed[a] /\ free_lst'[a] = free_lst[a] BY <1>3, <2>1 DEF HeadLowest
  <2>2. CASE p = cur /\ free_lst'[a] = cur BY <1>1, <2>2
  <2>3. CASE p = cur /\ free_lst'[a] \in listed[a]
    <3>1. free_lst'[a] < cur /\ free_lst'[a] \in Nat BY <1>3, <1>5, <2>3
    <3>. QED  BY <1>1, <2>3, <3>1
  <2>. QED  BY <1>4, <2>1, <2>2, <2>3
<1>7. pc' = "idle" BY DEF FreeReturn
<1>. QED  BY <1>4, <1>6, <1>7 DEF HeadsKept

LEMMA StutterHeads == ASSUME HInv, UNCHANGED vars PROVE HeadsKept'
<1>1. \A o \in Orders : HeadLost(o)' <=> HeadLost(o) BY DEF HeadLost, vars, lists
<1>2. HeadLowest' <=> HeadLowest BY DEF HeadLowest, vars, lists
<1>. QED  BY <1>1, <1>2 DEF HInv, HeadsKept, vars, lists

\* As long as no caller frees a page, no list loses its head: the pages are
\* populated in ascending order, so a merge takes the highest page of a list,
\* and alloc_pages takes the page behind the head.
THEOREM HeadsSurviveBoot == Spec => []HeadKeptUntilFree
<1>1. Init => HeadsKept BY InitHeads
<1>2. IInv /\ HeadsKept /\ [Next]_vars => HeadsKept'
  <2> SUFFICES ASSUME HInv, [Next]_vars PROVE HeadsKept' BY DEF HInv
  <2>1. CASE \E o \in Orders : AllocStart(o)
    BY <2>1, SameLists DEF AllocStart
  <2>2. CASE \E p \in held : FreeStart(p)     BY <2>2, FreeStartHeads
  <2>3. CASE PopulatePage                     BY <2>3, PopulateHeads
  <2>4. CASE SkipOrder \/ ScanEnd
    BY <2>4, SameLists, AllocBooted DEF SkipOrder, ScanEnd, HInv
  <2>5. CASE TakeLarger                       BY <2>5, TakeLargerHeads
  <2>6. CASE Split \/ SplitEnd                BY <2>6, SplitHeads
  <2>7. CASE AllocReturn                      BY <2>7, AllocReturnHeads
  <2>8. CASE AllocFail
    BY <2>8, SameLists, AllocBooted DEF AllocFail, HInv
  <2>9. CASE Merge                            BY <2>9, MergeHeads
  <2>10. CASE FreeReturn                      BY <2>10, FreeReturnHeads
  <2>11. CASE UNCHANGED vars                  BY <2>11, StutterHeads
  <2>. QED
    BY <2>1, <2>2, <2>3, <2>4, <2>5, <2>6, <2>7, <2>8, <2>9, <2>10, <2>11
       DEF Next, Call, Step
<1>3. HeadsKept => HeadKeptUntilFree BY DEF HeadsKept, HeadKeptUntilFree
<1>. QED  BY <1>1, <1>2, <1>3, Invariance, PTL DEF Spec

-----------------------------------------------------------------------------
\* How many steps the running call has left, at most: to the largest order and back to the
\* one that is wanted for alloc_pages, up to the largest for free_pages.
StepsLeft ==
  CASE pc = "scan"  -> 2 * MaxOrderCnt + 3 - now
    [] pc = "split" -> now - want + 2
    [] pc = "take"  -> 1
    [] pc = "merge" -> MaxOrderCnt - now + 1
    [] OTHER        -> 0

LEMMA StepsCounted ==
  ASSUME IInv
  PROVE  StepsLeft \in 0 .. 2 * MaxOrderCnt + 3
<1>1. PICK M \in Nat, n \in Nat, w \in Nat : M = MaxOrderCnt /\ n = now /\ w = want
  BY MaxOrderCntAssumption DEF IInv, TypeOK, Orders
<1>2. n <= M /\ w < M /\ pc \in {"idle", "scan", "split", "take", "merge"}
  BY <1>1 DEF IInv, TypeOK, Orders
<1>3. pc = "split" => w <= n BY <1>1 DEF IInv, LocalsOK
<1>4. CASE pc = "scan" BY <1>1, <1>2, <1>4 DEF StepsLeft
<1>5. CASE pc = "split" BY <1>1, <1>2, <1>3, <1>5 DEF StepsLeft
<1>6. CASE pc = "take" BY <1>1, <1>6 DEF StepsLeft
<1>7. CASE pc = "merge" BY <1>1, <1>2, <1>7 DEF StepsLeft
<1>8. CASE pc = "idle" BY <1>1, <1>8 DEF StepsLeft
<1>. QED  BY <1>2, <1>4, <1>5, <1>6, <1>7, <1>8

\* Every step of a call brings its end nearer.
LEMMA StepsShrink ==
  ASSUME IInv, Step
  PROVE  StepsLeft' < StepsLeft
<1>1. PICK M \in Nat, n \in Nat, w \in Nat : M = MaxOrderCnt /\ n = now /\ w = want
  BY MaxOrderCntAssumption DEF IInv, TypeOK, Orders
<1>2. n <= M /\ w < M BY <1>1 DEF IInv, TypeOK, Orders
<1>3. CASE SkipOrder
  <2>1. pc = "scan" /\ pc' = "scan" /\ now' = n + 1 BY <1>1, <1>3 DEF SkipOrder
  <2>2. StepsLeft = 2 * M + 3 - n /\ StepsLeft' = 2 * M + 3 - (n + 1)
    BY <1>1, <2>1 DEF StepsLeft
  <2>. QED  BY <2>2
<1>4. CASE ScanEnd
  <2>1. pc = "scan" /\ pc' = "take" BY <1>4 DEF ScanEnd
  <2>2. StepsLeft = 2 * M + 3 - n /\ StepsLeft' = 1 BY <1>1, <2>1 DEF StepsLeft
  <2>. QED  BY <1>2, <2>2
<1>5. CASE TakeLarger
  <2>1. pc = "scan" /\ pc' = "split" /\ now' = now /\ want' = want /\ n < M
    BY <1>1, <1>5 DEF TakeLarger
  <2>2. StepsLeft = 2 * M + 3 - n /\ StepsLeft' = n - w + 2 BY <1>1, <2>1 DEF StepsLeft
  <2>. QED  BY <2>1, <2>2
<1>6. CASE Split
  <2>1. pc = "split" /\ pc' = "split" /\ now' = n - 1 /\ want' = want BY <1>1, <1>6 DEF Split
  <2>2. StepsLeft = n - w + 2 /\ StepsLeft' = n - 1 - w + 2 BY <1>1, <2>1 DEF StepsLeft
  <2>. QED  BY <2>2
<1>7. CASE SplitEnd
  <2>1. pc = "split" /\ pc' = "take" /\ n = w BY <1>1, <1>7 DEF SplitEnd
  <2>2. StepsLeft = n - w + 2 /\ StepsLeft' = 1 BY <1>1, <2>1 DEF StepsLeft
  <2>. QED  BY <2>1, <2>2
<1>8. CASE AllocReturn \/ AllocFail
  <2>1. pc = "take" /\ pc' = "idle" BY <1>8 DEF AllocReturn, AllocFail
  <2>. QED  BY <2>1 DEF StepsLeft
<1>9. CASE Merge
  <2>1. pc = "merge" /\ pc' = "merge" /\ now' = n + 1 BY <1>1, <1>9 DEF Merge
  <2>2. StepsLeft = M - n + 1 /\ StepsLeft' = M - (n + 1) + 1 BY <1>1, <2>1 DEF StepsLeft
  <2>. QED  BY <2>2
<1>10. CASE FreeReturn
  <2>1. pc = "merge" /\ pc' = "idle" BY <1>10 DEF FreeReturn
  <2>2. StepsLeft = M - n + 1 /\ StepsLeft' = 0 BY <1>1, <2>1 DEF StepsLeft
  <2>. QED  BY <1>2, <2>2
<1>. QED  BY <1>3, <1>4, <1>5, <1>6, <1>7, <1>8, <1>9, <1>10 DEF Step

\* No call goes on for ever, whatever the lists look like: each of its steps uses up one of at
\* most 2 * MaxOrderCnt + 3.
THEOREM CallsBounded ==
  Spec => [][/\ StepsLeft \in 0 .. 2 * MaxOrderCnt + 3
             /\ Step => StepsLeft' < StepsLeft]_vars
<1>1. IInv => /\ StepsLeft \in 0 .. 2 * MaxOrderCnt + 3
              /\ Step => StepsLeft' < StepsLeft
  BY StepsCounted, StepsShrink
<1>. QED  BY <1>1, Invariance, PTL
=============================================================================
