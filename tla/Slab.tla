-------------------------------- MODULE Slab ---------------------------------
(***************************************************************************)
(* memory/slab.cc: caches of equal objects cut out of blocks of pages, and *)
(* kmalloc and kfree above them.  The pages come from PageAlloc, what the  *)
(* buddy allocator promises.  Addresses are numbers and objects are the    *)
(* bytes they occupy, so that two objects can be seen to overlap.          *)
(*                                                                         *)
(* Each function is one step: the allocator is entered by one caller at a  *)
(* time (it takes no lock).                                                *)
(***************************************************************************)
EXTENDS Integers, ListHead

CONSTANTS Cache,       \* the kmem_caches of kmalloc_cache_lst
          ObjSize,     \* cache->obj_size; cache->align is 1 for each
          PageSize,    \* PAGE_SIZE
          NPages       \* the pages that the buddy allocator manages

\* kmalloc asks a cache for at most half a page.
ASSUME CacheAssumption == ObjSize \in [Cache -> 1 .. PageSize]
ASSUME PageAssumption  == PageSize \in Nat \ {0} /\ NPages \in Nat
ASSUME NullAssumption  == Null \notin Cache /\ Null \notin 0 .. NPages * PageSize

Page == 0 .. NPages - 1
Addr == 0 .. NPages * PageSize - 1
NoPage == [slab |-> Null, tot |-> 0, inuse |-> 0, freelist |-> Null]

VARIABLES
  free, given,  \* the buddy allocator, see PageAlloc
  partial,      \* cache->partial
  obj_count,    \* cache->obj_count
  page_count,   \* cache->page_count
  page,         \* the slab fields of struct page
  lru,          \* page->lru, while the page is part of a slab
  link,         \* the word in a free object that holds the next one's address
  objs,         \* the objects handed out, as <<address, cache>>
  strayed       \* has kfree returned a page of a slab to the buddy allocator?

vars == <<free, given, partial, obj_count, page_count, page, lru, link, objs, strayed>>

\* alloc_pages and free_pages
Buddy == INSTANCE PageAlloc WITH
           MaxOrderCnt <- 2, Size <- [o \in 0 .. 2 |-> <<1, 2, 4>>[o + 1]],
           Usable <- Page, failing <- -1

\* Every cache that kmem_create_slab makes for kmalloc has order 1.
Order == 1

PageOf(a) == a \div PageSize

Init ==
  /\ free = Page /\ given = {}
  /\ partial = [c \in Cache |-> Null]
  /\ obj_count = [c \in Cache |-> 0] /\ page_count = [c \in Cache |-> 0]
  /\ page = [p \in Page |-> NoPage]
  /\ lru = [p \in Page |-> Unlinked]
  /\ link = [a \in Addr |-> Null]
  /\ objs = {} /\ strayed = FALSE

-----------------------------------------------------------------------------
(* kmem_alloc *)

\* init_slab_page_freelist: the first address in the block that is a multiple
\* of the object size, and as many objects behind it as the loop counts.
FirstObj(p, c) ==
  LET va == p * PageSize
  IN  IF va % ObjSize[c] = 0 THEN va ELSE va + (ObjSize[c] - (va % ObjSize[c]))

Limit(p) == (p + 2) * PageSize

\* Faulty variant: the loop tests the address it has, not the one it links to.
Objects_PastEnd(p, c) ==
  Cardinality({k \in 1 .. 2 * PageSize : FirstObj(p, c) + (k - 1) * ObjSize[c] < Limit(p)})

Objects(p, c) ==
  Cardinality({k \in 1 .. 2 * PageSize : FirstObj(p, c) + k * ObjSize[c] < Limit(p)})

\* Every object that is counted gets a link to the next.
Linked(p, c) ==
  [a \in Addr |->
     IF \E k \in 0 .. Objects(p, c) - 1 : a = FirstObj(p, c) + k * ObjSize[c]
       THEN a + ObjSize[c] ELSE link[a]]

\* Faulty variant: the cache does not count the object.
Take_NoCount(c, p, pg, links, ring) ==
  LET full == pg.inuse + 1 = pg.tot
  IN  /\ page' = [page EXCEPT ![p] =
                    [pg EXCEPT !.inuse = @ + 1,
                               !.freelist = IF full THEN Null ELSE links[@]]]
      /\ lru' = IF full THEN ListDel(ring, p) ELSE ring
      /\ link' = links
      /\ objs' = objs \cup {<<pg.freelist, c>>}
      /\ UNCHANGED obj_count

\* The first free object of page p, whose fields are pg, is handed out; with
\* the last one the page is unlinked.
Take(c, p, pg, links, ring) ==
  LET full == pg.inuse + 1 = pg.tot
  IN  /\ page' = [page EXCEPT ![p] =
                    [pg EXCEPT !.inuse = @ + 1,
                               !.freelist = IF full THEN Null ELSE links[@]]]
      /\ lru' = IF full THEN ListDel(ring, p) ELSE ring
      /\ link' = links
      /\ objs' = objs \cup {<<pg.freelist, c>>}
      /\ obj_count' = [obj_count EXCEPT ![c] = @ + 1]

\* The cache has no page yet: it gets a block.  When there is none, the code
\* stores through the null pointer that alloc_pages returns; that is not
\* modelled.
kmem_alloc_first(c) ==
  /\ partial[c] = Null
  /\ Buddy!Alloc(Order)
  /\ \E b \in given' \ given :
       LET p == b[1] IN
       /\ partial' = [partial EXCEPT ![c] = p]
       /\ page_count' = [page_count EXCEPT ![c] = @ + 2]
       /\ Take(c, p, [slab |-> c, tot |-> Objects(p, c), inuse |-> 0,
                      freelist |-> FirstObj(p, c)], Linked(p, c), ListHeadInit(lru, p))

\* cache->partial is a page of the cache with an object to give.
Usable(c) == /\ page[partial[c]].slab = c
             /\ page[partial[c]].freelist # Null

\* Otherwise kmem_alloc reads its list of free objects through a null pointer,
\* or takes an object from a page that is free or belongs to another cache:
\* the model goes no further with that cache.
kmem_alloc_partial(c) ==
  /\ partial[c] # Null /\ Usable(c)
  /\ Take(c, partial[c], page[partial[c]], link, lru)
  /\ UNCHANGED <<free, given, partial, page_count>>

\* kmalloc of at most half a page
kmalloc(c) ==
  /\ kmem_alloc_first(c) \/ kmem_alloc_partial(c)
  /\ UNCHANGED strayed

\* kmalloc of more than half a page: `pg_cnt` is 1 whatever the size.
kmalloc_page ==
  /\ Buddy!Alloc(0)
  /\ UNCHANGED <<partial, obj_count, page_count, page, lru, link, objs, strayed>>

-----------------------------------------------------------------------------
(* kfree *)

\* A page that had no object to give is linked in behind cache->partial.  That
\* is the page itself, whose links are null since it was unlinked: list_add
\* stores `prev` through its null `next`, at address 0, which is mapped and no
\* page's, and the page is a ring of its own again.
Relink(p) ==
  lru' = IF page[p].inuse = page[p].tot THEN ListAddAfter(lru, p, partial[page[p].slab])
                                        ELSE lru

\* Faulty variant: the object's link is not stored.
PutBack_NoLink(p, a) ==
  /\ Relink(p)
  /\ page' = [page EXCEPT ![p].inuse = @ - 1, ![p].freelist = a]
  /\ UNCHANGED <<link, free, given, page_count>>

\* The object becomes the first free one of its page.
PutBack(p, a) ==
  /\ Relink(p)
  /\ page' = [page EXCEPT ![p].inuse = @ - 1, ![p].freelist = a]
  /\ link' = [link EXCEPT ![a] = page[p].freelist]
  /\ UNCHANGED <<free, given, page_count>>

\* Faulty variant: the pages of the cache are not counted down.
Drain_NoCount(p, c) ==
  /\ page' = [page EXCEPT ![p].inuse = 0, ![p].slab = Null, ![p].freelist = Null]
  /\ Buddy!Free(<<p, Order>>)
  /\ UNCHANGED <<lru, link, page_count>>

\* The last object of a page comes back: so does the page.  cache->partial
\* stays as it is.
Drain(p, c) ==
  /\ page' = [page EXCEPT ![p].inuse = 0, ![p].slab = Null, ![p].freelist = Null]
  /\ page_count' = [page_count EXCEPT ![c] = @ - 2]
  /\ Buddy!Free(<<p, Order>>)
  /\ UNCHANGED <<lru, link>>

\* kmem_free, for an object whose address lies in the first page of its block:
\* that is the page whose struct page names the cache.
kmem_free(x) ==
  LET p == PageOf(x[1])
      c == page[p].slab
  IN  /\ c # Null
      /\ objs' = objs \ {x}
      /\ obj_count' = [obj_count EXCEPT ![c] = @ - 1]
      /\ IF page[p].inuse = 1 THEN Drain(p, c) ELSE PutBack(p, x[1])
      /\ UNCHANGED <<partial, strayed>>

\* A page that kmalloc took from the buddy allocator goes back to it.
kfree_page ==
  /\ \E b \in given : b[2] = 0 /\ page[b[1]].slab = Null /\ Buddy!Free(b)
  /\ UNCHANGED <<partial, obj_count, page_count, page, lru, link, objs, strayed>>

\* For an object whose address lies in the second page of its block, kfree
\* finds no cache and gives that page to the buddy allocator, as a block of
\* the order its struct page happens to hold, which is 0 since the boot.  The
\* model ends here.
kfree_second(x) ==
  LET p == PageOf(x[1])
  IN  /\ page[p].slab = Null
      /\ objs' = objs \ {x}
      /\ free' = free \cup {p}
      /\ strayed' = TRUE
      /\ UNCHANGED <<given, partial, obj_count, page_count, page, lru, link>>

kfree(x) == kmem_free(x) \/ kfree_second(x)

Next ==
  /\ ~strayed
  /\ \/ \E c \in Cache : kmalloc(c)
     \/ kmalloc_page
     \/ \E x \in objs : kfree(x)
     \/ kfree_page

Spec == Init /\ [][Next]_vars

-----------------------------------------------------------------------------
(* Properties *)

\* Every variable has its type; no counter drops below zero.
TypeOK ==
  /\ free \subseteq Page /\ given \subseteq Page \X {0, Order}
  /\ partial \in [Cache -> Page \cup {Null}]
  /\ obj_count \in [Cache -> Nat] /\ page_count \in [Cache -> Nat]
  /\ page \in [Page -> [slab : Cache \cup {Null}, tot : Nat, inuse : Nat,
                        freelist : Addr \cup {Null}]]
  /\ lru \in Links(Page)
  /\ link \in [Addr -> Addr \cup {Null}]
  /\ objs \subseteq Addr \X Cache
  /\ strayed \in BOOLEAN

SlabPages == {p \in Page : page[p].slab # Null}

\* The links of a list of one page.
Alone(p) == [prev |-> p, next |-> p]

Bytes(x) == x[1] .. (x[1] + ObjSize[x[2]] - 1)

\* The objects of a slab page that are handed out.
Out(p) == {x \in objs : PageOf(x[1]) \in {p, p + 1}}

\* No byte is handed out twice: the objects that callers hold do not overlap,
\* and each lies within the block that its cache got from the buddy allocator.
ObjectsApart ==
  /\ \A x, y \in objs : x # y => Bytes(x) \cap Bytes(y) = {}
  /\ \A x \in objs : \E p \in SlabPages :
       /\ page[p].slab = x[2] /\ <<p, Order>> \in given
       /\ Bytes(x) \subseteq p * PageSize .. Limit(p) - 1

\* Following the links from page->freelist meets as many objects as are left,
\* each once and none of them handed out.  Past them the links are not valid,
\* and kmem_alloc never comes there.
FreeObjectsLinked ==
  \A p \in SlabPages :
    LET left == page[p].tot - page[p].inuse
        walk[n \in 1 .. left] ==
          IF n = 1 THEN page[p].freelist ELSE link[walk[n - 1]]
    IN  \A n \in 1 .. left :
          /\ walk[n] # Null /\ <<walk[n], page[p].slab>> \notin objs
          /\ PageOf(walk[n]) \in {p, p + 1}
          /\ \A m \in 1 .. left : walk[m] = walk[n] => m = n

\* The three counters agree with what is handed out: a page's objects in use,
\* a cache's objects, and the pages of a cache.  And a page is linked, in a ring
\* of its own, just while its counters leave it an object, although it is linked
\* in again behind links that are null.
CountsMatch ==
  ~strayed =>
    /\ \A p \in SlabPages :
         /\ page[p].inuse = Cardinality(Out(p))
         /\ lru[p] = IF page[p].inuse = page[p].tot THEN Unlinked ELSE Alone(p)
    /\ \A c \in Cache :
         /\ obj_count[c] = Cardinality({x \in objs : x[2] = c})
         /\ page_count[c] = 2 * Cardinality({p \in SlabPages : page[p].slab = c})

\* slab.cc: a page is taken from the partial list when all of its objects are
\* handed out, and kmem_alloc gets a block from the buddy allocator when the
\* partial list is empty.  So where kmem_alloc starts, cache->partial is null
\* or a page of the cache with an object to give.
PartialUsable == \A c \in Cache : partial[c] = Null \/ Usable(c)

\* slab.cc: a slab page is released when all of its objects are.  So no object
\* that a caller holds lies on a page of the buddy allocator.
ReleasedWhenEmpty ==
  \A x \in objs : \A a \in Bytes(x) : PageOf(a) \notin free
=============================================================================
