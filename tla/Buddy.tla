-------------------------------- MODULE Buddy --------------------------------
(***************************************************************************)
(* memory/page_allocator.cc: the buddy allocator of page frames, and the   *)
(* boot loop of memory/mmap.cc that fills it.                              *)
(*                                                                         *)
(* A call of alloc_pages or free_pages is a sequence of steps, one for     *)
(* each turn of its loops, as the allocator is entered by one caller at a  *)
(* time here (it takes no lock and is not reentrant).  A page frame number *)
(* stands for the struct page of that frame.                               *)
(***************************************************************************)
EXTENDS Integers, ListHead

CONSTANTS MaxOrderCnt,   \* MAX_PAGE_ORDER_CNT
          Size,          \* Size[o] = 1 << o
          NPages,        \* the struct pages that vmemmap holds
          Usable         \* the frames that e820 reports as RAM

Orders == 0 .. MaxOrderCnt - 1
Pfns   == 0 .. NPages - 1

ASSUME MaxOrderCntAssumption == MaxOrderCnt \in Nat \ {0}
ASSUME NPagesAssumption == NPages \in Nat
ASSUME UsableAssumption == Usable \subseteq Pfns
ASSUME NullAssumption == Null \notin Pfns
ASSUME SizeAssumption ==
  /\ Size \in [0 .. MaxOrderCnt -> Nat \ {0}]
  /\ Size[0] = 1
  /\ \A o \in Orders : Size[o + 1] = 2 * Size[o]
  /\ \A a, b \in 0 .. MaxOrderCnt : a <= b => Size[b] % Size[a] = 0

VARIABLES
  bitmap,     \* buddy_bitmap, as the set of the frames whose bit is set
  nr_free,    \* free_areas[o].nr_free
  free_lst,   \* free_areas[o].free_lst, Null or the page whose lru it points to
  lru,        \* page->lru
  type,       \* the order that SET_PAGE_ORDER keeps in page->type
  listed,     \* auxiliary: the pages put on the list of each order
  held,       \* the pages that alloc_pages has returned to its callers
  boot,       \* the next page populate_vmemmap_range comes to
  released,   \* auxiliary: has a caller ever called free_pages?
  pc,         \* where the current call is
  want,       \* alloc_pages' parameter `order`
  cur,        \* lpage in split_buddy_to_order, pg in free_pages
  now         \* now_order in split_buddy_to_order, order in free_pages

lists == <<nr_free, free_lst, lru, listed>>
vars  == <<bitmap, lists, type, held, boot, released, pc, want, cur, now>>

Frames(p, o) == p .. (p + Size[o] - 1)

\* Faulty variant: the buddy is always the block to the right.
BuddyOf_AlwaysRight(p, o) == p + Size[o]

\* buddy_pfn of free_pages
BuddyOf(p, o) == IF p % Size[o + 1] = 0 THEN p + Size[o] ELSE p - Size[o]

chg_bitmap(p, o) ==
  bitmap' = (bitmap \ Frames(p, o)) \cup (Frames(p, o) \ bitmap)

buddy_free(p, o) == Frames(p, o) \subseteq bitmap

add_page_to_free_list(p, o) ==
  /\ nr_free' = [nr_free EXCEPT ![o] = @ + 1]
  /\ listed' = [listed EXCEPT ![o] = @ \cup {p}]
  /\ IF free_lst[o] = Null
       THEN /\ free_lst' = [free_lst EXCEPT ![o] = p]
            /\ lru' = ListHeadInit(lru, p)
       ELSE /\ lru' = ListAddAfter(lru, p, free_lst[o])
            /\ UNCHANGED free_lst

\* Faulty variant: the head is not reset when the list becomes empty.
remove_page_NoReset(p, o) ==
  /\ nr_free' = [nr_free EXCEPT ![o] = @ - 1]
  /\ listed' = [listed EXCEPT ![o] = @ \ {p}]
  /\ lru' = ListDel(lru, p)
  /\ UNCHANGED free_lst

remove_page_from_free_list(p, o) ==
  /\ nr_free' = [nr_free EXCEPT ![o] = @ - 1]
  /\ listed' = [listed EXCEPT ![o] = @ \ {p}]
  /\ lru' = ListDel(lru, p)
  /\ free_lst' = IF nr_free'[o] = 0 THEN [free_lst EXCEPT ![o] = Null]
                                    ELSE free_lst

\* Faulty variant: the head itself is taken.
AfterHead_TakesHead(o) == free_lst[o]

\* LIST_ENTRY(free_areas[o].free_lst->next)
AfterHead(o) == lru[free_lst[o]].next

\* free_lst points to a page that has left the list, as it does after
\* remove_page_from_free_list has taken out the head and left other pages.
HeadLost(o) == listed[o] # {} /\ free_lst[o] \notin listed[o]

Init ==
  /\ bitmap = {}
  /\ nr_free = [o \in Orders |-> 0]
  /\ free_lst = [o \in Orders |-> Null]
  /\ lru = [p \in Pfns |-> Unlinked]
  /\ type = [p \in Pfns |-> 0]
  /\ listed = [o \in Orders |-> {}]
  /\ held = {}
  /\ boot = 0
  /\ released = FALSE
  /\ pc = "idle" /\ want = 0 /\ cur = 0 /\ now = 0

-----------------------------------------------------------------------------
(* alloc_pages and, inlined in it, split_buddy_to_order *)

AllocStart(o) ==
  /\ pc = "idle" /\ boot = NPages
  /\ want' = o
  /\ now' = o + 1
  /\ pc' = IF nr_free[o] = 0 THEN "scan" ELSE "take"
  /\ UNCHANGED <<bitmap, lists, type, held, boot, released, cur>>

\* Faulty variant: the search does not go on to the next order.
SkipOrder_NoIncrement ==
  /\ pc = "scan" /\ now < MaxOrderCnt /\ nr_free[now] = 0
  /\ UNCHANGED vars

\* The loop that looks for an order with a free block,
SkipOrder ==
  /\ pc = "scan" /\ now < MaxOrderCnt /\ nr_free[now] = 0
  /\ now' = now + 1
  /\ UNCHANGED <<bitmap, lists, type, held, boot, released, pc, want, cur>>

\* Faulty variant: the search stops one order early.
ScanEnd_OneEarly ==
  /\ pc = "scan" /\ now >= MaxOrderCnt - 1
  /\ pc' = "take"
  /\ UNCHANGED <<bitmap, lists, type, held, boot, released, want, cur, now>>

\* its end, when there is none,
ScanEnd ==
  /\ pc = "scan" /\ now = MaxOrderCnt
  /\ pc' = "take"
  /\ UNCHANGED <<bitmap, lists, type, held, boot, released, want, cur, now>>

\* and the block it takes.
TakeLarger ==
  /\ pc = "scan" /\ now < MaxOrderCnt /\ nr_free[now] # 0
  /\ ~HeadLost(now)
  /\ cur' = AfterHead(now)
  /\ remove_page_from_free_list(AfterHead(now), now)
  /\ pc' = "split"
  /\ UNCHANGED <<bitmap, type, held, boot, released, want, now>>

\* Faulty variant: the right half keeps its old order.
Split_OldOrder ==
  /\ pc = "split" /\ now > want
  /\ ~HeadLost(now - 1)
  /\ type' = [type EXCEPT ![cur] = now - 1]
  /\ add_page_to_free_list(cur + Size[now - 1], now - 1)
  /\ now' = now - 1
  /\ UNCHANGED <<bitmap, held, boot, released, pc, want, cur>>

\* Faulty variant: the right half is computed before the order goes down.
Split_WrongHalf ==
  /\ pc = "split" /\ now > want
  /\ ~HeadLost(now - 1)
  /\ LET half == cur + Size[now]
     IN  /\ type' = [type EXCEPT ![cur] = now - 1, ![half] = now - 1]
         /\ add_page_to_free_list(half, now - 1)
  /\ now' = now - 1
  /\ UNCHANGED <<bitmap, held, boot, released, pc, want, cur>>

\* One turn of the splitting loop puts the right half on its list.
Split ==
  /\ pc = "split" /\ now > want
  /\ ~HeadLost(now - 1)
  /\ LET half == cur + Size[now - 1]
     IN  /\ type' = [type EXCEPT ![cur] = now - 1, ![half] = now - 1]
         /\ add_page_to_free_list(half, now - 1)
  /\ now' = now - 1
  /\ UNCHANGED <<bitmap, held, boot, released, pc, want, cur>>

\* The left half that remains goes to the list of the wanted order.
SplitEnd ==
  /\ pc = "split" /\ now = want
  /\ ~HeadLost(now)
  /\ add_page_to_free_list(cur, now)
  /\ pc' = "take"
  /\ UNCHANGED <<bitmap, type, held, boot, released, want, cur, now>>

AllocReturn ==
  /\ pc = "take" /\ nr_free[want] # 0
  /\ ~HeadLost(want)
  /\ remove_page_from_free_list(AfterHead(want), want)
  /\ chg_bitmap(AfterHead(want), want)
  /\ held' = held \cup {AfterHead(want)}
  /\ pc' = "idle"
  /\ UNCHANGED <<type, boot, released, want, cur, now>>

AllocFail ==
  /\ pc = "take" /\ nr_free[want] = 0
  /\ pc' = "idle"
  /\ UNCHANGED <<bitmap, lists, type, held, boot, released, want, cur, now>>

-----------------------------------------------------------------------------
(* free_pages and populate_vmemmap_range *)

\* chg_bitmap and the locals, on entry to free_pages.
FreeEntry(p, o) ==
  /\ chg_bitmap(p, o)
  /\ cur' = p
  /\ now' = o
  /\ pc' = "merge"
  /\ UNCHANGED <<lists, want>>

FreeStart(p) ==
  /\ pc = "idle"
  /\ held' = held \ {p}
  /\ released' = TRUE
  /\ FreeEntry(p, type[p])
  /\ UNCHANGED <<type, boot>>

\* Each page's type is cleared, and the page is freed if it is RAM.
PopulatePage ==
  /\ pc = "idle" /\ boot < NPages
  /\ type' = [type EXCEPT ![boot] = 0]
  /\ boot' = boot + 1
  /\ IF boot \in Usable
       THEN FreeEntry(boot, 0)
       ELSE UNCHANGED <<bitmap, lists, pc, want, cur, now>>
  /\ UNCHANGED <<held, released>>

\* Faulty variants: only the first bit of the buddy is looked at; the largest
\* order is never reached.
MayMerge_FirstBit == now + 1 < MaxOrderCnt /\ BuddyOf(cur, now) \in bitmap
MayMerge_OneShort ==
  now + 2 < MaxOrderCnt /\ buddy_free(BuddyOf(cur, now), now)

MayMerge == now + 1 < MaxOrderCnt /\ buddy_free(BuddyOf(cur, now), now)

Merge ==
  /\ pc = "merge" /\ MayMerge
  /\ LET buddy == BuddyOf(cur, now)
     IN  /\ remove_page_from_free_list(buddy, now)
         /\ cur' = IF cur > buddy THEN buddy ELSE cur
  /\ now' = now + 1
  /\ UNCHANGED <<bitmap, type, held, boot, released, pc, want>>

FreeReturn ==
  /\ pc = "merge" /\ ~MayMerge
  /\ ~HeadLost(now)
  /\ type' = [type EXCEPT ![cur] = now]
  /\ add_page_to_free_list(cur, now)
  /\ pc' = "idle"
  /\ UNCHANGED <<bitmap, held, boot, released, want, cur, now>>

-----------------------------------------------------------------------------
(* The list whose head->next the current call is about to follow. *)
ListInUse ==
  CASE pc = "scan" /\ now < MaxOrderCnt    -> now
    [] pc = "split"                        -> IF now > want THEN now - 1 ELSE now
    [] pc = "take"                         -> want
    [] pc = "merge" /\ ~MayMerge           -> now
    [] OTHER                               -> -1

\* The call is about to follow the null or reused links of a page that has
\* left the list.  What comes then (LIST_ENTRY of a null pointer, stores
\* through it) is outside the allocator's own data: the model stops here.
AtLostHead == ListInUse # -1 /\ HeadLost(ListInUse)

Call == \/ \E o \in Orders : AllocStart(o)
        \/ \E p \in held : FreeStart(p)
        \/ PopulatePage

Step == \/ SkipOrder \/ ScanEnd \/ TakeLarger \/ Split \/ SplitEnd
        \/ AllocReturn \/ AllocFail
        \/ Merge \/ FreeReturn

Next == Call \/ Step

\* A call that has begun is executed to its end; nobody has to make one.
Spec == Init /\ [][Next]_vars /\ WF_vars(Step)

-----------------------------------------------------------------------------
(* Properties *)

\* Every variable of the allocator has its type; in particular every page the
\* code computes by arithmetic on a frame number is a page of vmemmap.
TypeOK ==
  /\ bitmap \subseteq Pfns
  /\ nr_free \in [Orders -> Nat]
  /\ free_lst \in [Orders -> Pfns \cup {Null}]
  /\ lru \in Links(Pfns)
  /\ type \in [Pfns -> Orders]
  /\ listed \in [Orders -> SUBSET Pfns]
  /\ held \subseteq Pfns
  /\ boot \in 0 .. NPages
  /\ released \in BOOLEAN
  /\ pc \in {"idle", "scan", "split", "take", "merge"}
  /\ want \in Orders
  /\ cur \in Pfns \cup {0}
  /\ now \in 0 .. MaxOrderCnt

\* The free list of every order is one ring through exactly the pages put on
\* it, nr_free counts them, and free_lst is null only when there are none: the
\* list.h calls of one order never tear or join the rings of another.
FreeListsAreRings ==
  \A o \in Orders :
    /\ IsRing(lru, listed[o])
    /\ nr_free[o] = Cardinality(listed[o])
    /\ free_lst[o] = Null <=> listed[o] = {}

\* The block a call has taken off the lists and not yet put back.
InFlight == IF pc \in {"split", "merge"} THEN {<<cur, now>>} ELSE {}

FreeBlocks == {b \in Pfns \X Orders : b[1] \in listed[b[2]]} \cup InFlight

\* The bitmap, which free_pages trusts when it merges, and the free lists,
\* which alloc_pages serves from, describe the same memory: a frame's bit is
\* set exactly when one free block, and only one, covers the frame.
BitmapMatchesLists ==
  /\ bitmap = UNION {Frames(b[1], b[2]) : b \in FreeBlocks}
  /\ \A b, c \in FreeBlocks :
       b # c => Frames(b[1], b[2]) \cap Frames(c[1], c[2]) = {}

HeldFrames == UNION {Frames(p, type[p]) : p \in held}

\* No frame is handed to two callers or handed out and free at once, and none
\* is lost: page->type of a held page still tells what the caller was given.
FramesConserved ==
  /\ \A p, q \in held : p # q => Frames(p, type[p]) \cap Frames(q, type[q]) = {}
  /\ HeldFrames \cap bitmap = {}
  /\ HeldFrames \cup bitmap = {p \in Usable : p < boot}

\* Between two calls free blocks are merged as far as they can be: an aligned
\* run of free frames always lies inside one free block.
Coalesced ==
  pc = "idle" =>
    \A o \in Orders : \A p \in Pfns :
      p % Size[o] = 0 /\ Frames(p, o) \subseteq bitmap =>
        \E b \in FreeBlocks : o <= b[2] /\ Frames(p, o) \subseteq Frames(b[1], b[2])

\* alloc_pages returns nullptr only when no aligned block of the order is free,
\* wherever in the larger orders it would have to be found.
FailsOnlyWhenFull ==
  pc = "take" /\ nr_free[want] = 0 =>
    ~ \E p \in Pfns : p % Size[want] = 0 /\ Frames(p, want) \subseteq bitmap

\* As long as no caller frees a page, no list loses its head: populating in
\* ascending order and allocating never removes the first page of a list that
\* keeps others.  This is why the kernel boots with the merge of line 99.
HeadKeptUntilFree == ~released => \A o \in Orders : ~HeadLost(o)

\* alloc_pages: the page it returns, next to the head of the list of its
\* order, is a free page of that order.
AllocTakesFreePage ==
  pc = "take" /\ nr_free[want] # 0 => ~HeadLost(want)

\* Every call of the allocator returns, unless it meets a lost head.
CallsReturn == pc # "idle" ~> pc = "idle" \/ AtLostHead

\* The allocator keeps the promise of PageAlloc.
PA == INSTANCE PageAlloc WITH
        free    <- bitmap,
        given   <- {<<p, type[p]>> : p \in held},
        failing <- IF pc = "take" /\ nr_free[want] = 0 THEN want ELSE -1

ImplementsPageAlloc == PA!Spec
=============================================================================
