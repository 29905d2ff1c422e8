----------------------------- MODULE PageAlloc ------------------------------
(***************************************************************************)
(* What the page allocator promises its callers, with no word on lists,    *)
(* bitmaps or splitting: a call of alloc_pages(order) hands out a block of *)
(* 1 << order frames, aligned to its size, of which none is handed out     *)
(* already; it fails only when no such block is left; free_pages takes the *)
(* whole block back.                                                       *)
(***************************************************************************)
EXTENDS Integers

CONSTANTS MaxOrderCnt,  \* MAX_PAGE_ORDER_CNT
          Size,         \* Size[o] = 1 << o
          Usable        \* the frames that the boot code hands over

VARIABLES free,         \* the frames nobody holds
          given,        \* the blocks handed out, as <<first frame, order>>
          failing       \* the order of a call about to return nullptr, or -1

vars == <<free, given, failing>>

Orders == 0 .. MaxOrderCnt - 1

Frames(p, o) == p .. (p + Size[o] - 1)

FreeBlocks(o) == {p \in free : p % Size[o] = 0 /\ Frames(p, o) \subseteq free}

Init == free = {} /\ given = {} /\ failing = -1

\* The boot code hands a frame over.
Populate(p) ==
  /\ p \in Usable \ free
  /\ \A b \in given : p \notin Frames(b[1], b[2])
  /\ free' = free \cup {p}
  /\ UNCHANGED <<given, failing>>

Alloc(o) == \E p \in FreeBlocks(o) :
  /\ free' = free \ Frames(p, o)
  /\ given' = given \cup {<<p, o>>}
  /\ UNCHANGED failing

\* alloc_pages gives up, which it may do only when no block is left.
GiveUp(o) ==
  /\ failing = -1 /\ FreeBlocks(o) = {}
  /\ failing' = o
  /\ UNCHANGED <<free, given>>

Return ==
  /\ failing # -1
  /\ failing' = -1
  /\ UNCHANGED <<free, given>>

Free(b) ==
  /\ given' = given \ {b}
  /\ free' = free \cup Frames(b[1], b[2])
  /\ UNCHANGED failing

Next == \/ \E p \in Usable : Populate(p)
        \/ \E o \in Orders : Alloc(o) \/ GiveUp(o)
        \/ Return
        \/ \E b \in given : Free(b)

Spec == Init /\ [][Next]_vars
=============================================================================
