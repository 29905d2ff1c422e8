------------------------------- MODULE Vmemmap -------------------------------
(***************************************************************************)
(* memory/mmap.cc on top of memory/mem_block.cc: the boot code maps low    *)
(* memory one to one, then takes region after region of the e820 map above *)
(* it, maps each of its pages, writes the page's struct page into an array *)
(* that is itself mapped page by page as it grows, and hands the page to   *)
(* free_pages if it is RAM.                                                *)
(***************************************************************************)
EXTENDS Memblock, FiniteSets

CONSTANTS Reports,      \* what firmware may report of memory
          Low,          \* 0x20000000, the end of the identity map
          MaxSupport,   \* MAX_SUPPORT_MEM
          Fan,          \* PAGE_ENTRY_CNT
          StructSize,   \* sizeof(struct page)
          VBase         \* VMEME_MAP_BASE, as the number of a virtual page

\* The array of struct pages lies above all addresses that are mapped one to one.
ASSUME VmemmapAssumption ==
  /\ Low \in Nat \ {0} /\ Low % PageSize = 0 /\ KernelEnd <= Low /\ Low < Word
  /\ Fan \in Nat \ {0} /\ StructSize \in 1 .. PageSize - 1
  /\ MaxSupport \in Nat /\ VBase \in Nat
  /\ Low <= VBase * PageSize /\ MaxSupport <= VBase * PageSize

ASSUME ReportAssumption ==
  \A report \in Reports :
    /\ report.answers \in Seq([base : Nat, limit : Nat, type : 1 .. 7,
                               size : {0, 20, 24}, valid : BOOLEAN])
    /\ report.carry \in BOOLEAN
    /\ 2 * Len(report.answers) <= MaxE820 + 1
    /\ \A i \in DOMAIN report.answers : End(report.answers[i]) < Word

VARIABLES
  report,   \* what the firmware says
  entries,  \* free_entries
  taken,    \* the pages mblock_allocate has returned, in order
  starved,  \* auxiliary: has mblock_allocate returned nullptr?
  tabs,     \* the page tables present, as <<level, index of what it maps>>
  map,      \* the page tables' leaves: virtual page to physical address
  pc,       \* "low", "range", "page" or "done"
  last,     \* last_mem_range
  todo,     \* the ranges populate_vmemmap_range is at, the first one's rest first
  backed,   \* cur_vmemmap_addr, as the number of a virtual page
  structs,  \* the page frames whose struct page has been written
  freed     \* the page frames handed to free_pages

memory == <<entries, taken, starved, tabs, map>>
vars   == <<report, memory, pc, last, todo, backed, structs, freed>>

\* The regions that the boot code starts from.
Regions(r) == init_memblock(memory_detect(r))

NoRange == [base |-> 0, limit |-> 0, type |-> 0]

Pfn(a) == a \div PageSize

Init ==
  /\ report \in Reports
  /\ entries = Regions(report)
  /\ taken = <<>> /\ starved = FALSE
  /\ tabs = {} /\ map = <<>>
  /\ pc = "low" /\ last = NoRange /\ todo = <<>>
  /\ backed = 0 /\ structs = {} /\ freed = {}

-----------------------------------------------------------------------------
(* mblock_allocate and map_virt_to_phy_early, on a record of the memory *)

Memory == [entries |-> entries, taken |-> taken, starved |-> starved,
           tabs |-> tabs, map |-> map]

\* mblock_allocate: without a page it returns nullptr, which no caller tests.
AllocatePage(m) ==
  LET i == FirstFit(m.entries)
  IN  IF i = 0
        THEN [entries |-> m.entries, taken |-> Append(m.taken, 0), starved |-> TRUE,
              tabs |-> m.tabs, map |-> m.map]
        ELSE [entries |-> [m.entries EXCEPT ![i] = AfterPage(m.entries[i])],
              taken |-> Append(m.taken, AlignUp(m.entries[i].base)),
              starved |-> m.starved, tabs |-> m.tabs, map |-> m.map]

\* The page tables on the way to virtual page v, below the static one.
Path(v) == { <<2, v \div (Fan * Fan * Fan)>>, <<3, v \div (Fan * Fan)>>, <<4, v \div Fan>> }

\* The missing tables are allocated, and the leaf is written in any case.
MapPage(m, v, phy) ==
  LET missing == Path(v) \ m.tabs
      with[n \in 0 .. 3] == IF n = 0 THEN m ELSE AllocatePage(with[n - 1])
      end == with[Cardinality(missing)]
  IN  [entries |-> end.entries, taken |-> end.taken, starved |-> end.starved,
       tabs |-> m.tabs \cup missing,
       map |-> [u \in DOMAIN m.map \cup {v} |-> IF u = v THEN phy ELSE m.map[u]]]

Becomes(m) ==
  /\ entries' = m.entries /\ taken' = m.taken /\ starved' = m.starved
  /\ tabs' = m.tabs /\ map' = m.map

\* A page that mblock_allocate could not give was written to at address 0:
\* the model goes no further.
Fed == ~starved

-----------------------------------------------------------------------------
(* init_mem_page, init_sparse_vmemmap *)

\* Faulty variant: the second half of low memory is not mapped.
LowPages_Half == Pfn(Low) \div 2

LowPages == Pfn(Low)

MapLow ==
  /\ pc = "low"
  /\ LET mapped[n \in 0 .. LowPages] ==
           IF n = 0 THEN Memory ELSE MapPage(mapped[n - 1], n - 1, (n - 1) * PageSize)
     IN  Becomes(mapped[LowPages])
  /\ pc' = "range"
  /\ UNCHANGED <<report, last, todo, backed, structs, freed>>

\* What the code expects of the regions above the identity map, and does not test: they
\* begin and end on page boundaries, and what is left of one that begins below is at
\* least as long as the identity map when its page tables are taken off, or the
\* subtraction in alloc_all_over_memory wraps around.
LowTables == UNION {Path(v) : v \in 0 .. LowPages - 1}

ASSUME RegionAssumption ==
  \A r \in Reports : \A e \in Range(Regions(r)) :
    End(e) > Low =>
      /\ e.base % PageSize = 0 /\ End(e) % PageSize = 0
      /\ e.base < Low => e.limit >= Low + Cardinality(LowTables) * PageSize

\* The end of a range as the code computes it.
EndOf(r) == End(r) % Word

\* What populate_vmemmap_range is called for and does not return from at once.
Populated(r) == IF EndOf(r) < MaxSupport /\ r.limit >= PageSize THEN <<r>> ELSE <<>>

\* Faulty variant: the gap ends one byte early.
Gap_Inclusive(range) ==
  IF last.base > 0 /\ EndOf(last) < range.base
    THEN Populated([base |-> EndOf(last), limit |-> range.base - 1 - EndOf(last), type |-> 5])
    ELSE << >>

\* Addresses between two ranges are unusable, E820_TYPE_UNUSABLE, but get their
\* struct page.
Gap(range) ==
  IF last.base > 0 /\ EndOf(last) < range.base
    THEN Populated([base |-> EndOf(last), limit |-> range.base - EndOf(last), type |-> 5])
    ELSE << >>

\* One turn of init_sparse_vmemmap's loop, up to the pages of its ranges.
NextRange ==
  /\ pc = "range" /\ Fed
  /\ LET i == FirstOver(entries, Low)
         range == HandedOut(entries[i], Low)
         ranges == Gap(range) \o Populated(range)
     IN  IF i = 0
           THEN pc' = "done" /\ UNCHANGED <<entries, last, todo>>
           ELSE /\ entries' = [entries EXCEPT ![i] = Remaining(entries[i], Low)]
                /\ last' = range
                /\ todo' = ranges
                /\ pc' = IF ranges = <<>> THEN "range" ELSE "page"
  /\ UNCHANGED <<report, taken, starved, tabs, map, backed, structs, freed>>

\* The bytes of the array that hold the struct page of frame p.
StructAt(p) == VBase * PageSize + p * StructSize

\* Faulty variant: the page that the struct begins in is looked at.
NewBacking_Begin(p) == StructAt(p) - backed * PageSize >= PageSize

\* Does the struct reach beyond the page mapped last?
NewBacking(p) == StructAt(p) + StructSize - backed * PageSize > PageSize

\* One turn of populate_vmemmap_range's loop.
PopulatePage ==
  /\ pc = "page" /\ Fed
  /\ LET r == Head(todo)
         p == Pfn(r.base)
         v == Pfn(StructAt(p) + StructSize)
         identity == MapPage(Memory, p, r.base)
         got == AllocatePage(identity)
         rest == [base |-> r.base + PageSize, limit |-> r.limit - PageSize, type |-> r.type]
         rests == (IF rest.limit >= PageSize THEN <<rest>> ELSE <<>>) \o Tail(todo)
     IN  /\ IF NewBacking(p)
              THEN backed' = v /\ Becomes(MapPage(got, v, got.taken[Len(got.taken)]))
              ELSE UNCHANGED backed /\ Becomes(identity)
         /\ structs' = structs \cup {p}
         /\ freed' = IF r.type = RAM THEN freed \cup {p} ELSE freed
         /\ todo' = rests
         /\ pc' = IF rests = <<>> THEN "range" ELSE "page"
  /\ UNCHANGED <<report, last>>

\* The boot code goes on elsewhere, or has written to address 0.
Done == (Fed => pc = "done") /\ UNCHANGED vars

Next == MapLow \/ NextRange \/ PopulatePage \/ Done

Spec == Init /\ [][Next]_vars

-----------------------------------------------------------------------------
(* Properties *)

\* Every variable has its type; no length of a region falls below zero.
TypeOK ==
  /\ \A e \in Range(entries) \cup Range(todo) \cup {last} :
       e.base \in Nat /\ e.limit \in 0 .. Word - 1 /\ e.type \in 0 .. 7
  /\ \A i \in DOMAIN taken : taken[i] \in Nat
  /\ pc \in {"low", "range", "page", "done"} /\ (pc = "page" <=> todo # <<>>)
  /\ backed \in Nat /\ structs \subseteq Nat /\ freed \subseteq structs
  /\ starved \in BOOLEAN

\* The sanitised map is sorted, its regions are disjoint, and each address has
\* the worst type that the firmware reported for it, in answers of either size
\* (memory_detect, sanitize_e820_entries); if there is a map at all.
MapSanitized ==
  LET clean == sanitize(memory_detect(report))
      said  == Reported(report)
  IN  /\ \A i, j \in 1 .. Len(clean) : i < j => End(clean[i]) <= clean[j].base
      /\ Failed(report) \/
           \A a \in UNION {Bytes(e) : e \in Range(report.answers)} :
             TypeAt(said, a) = TypeAt(Range(clean), a)

\* The bytes of page frame p
Page(p) == p * PageSize .. (p + 1) * PageSize - 1

\* No page serves twice: the pages that the boot code keeps for page tables and
\* struct pages are different, and none of them goes to free_pages; all of them
\* are RAM behind the kernel.
PagesApart ==
  LET kept == {Pfn(taken[i]) : i \in DOMAIN taken}
  IN  Fed =>
      /\ IsInjective(taken)
      /\ kept \cap freed = {}
      /\ \A p \in kept \cup freed : \A a \in Page(p) :
           a >= KernelEnd /\ TypeAt(Reported(report), a) = RAM

\* The page tables themselves lie in memory that is mapped once they are in use.
TablesMapped ==
  pc # "low" /\ Fed =>
    \A i \in DOMAIN taken : Pfn(taken[i]) \in DOMAIN map /\ map[Pfn(taken[i])] = taken[i]

\* When a struct page is written, every page of the array that it reaches into
\* is mapped, straddling or not, and mapped to a page of its own.  The lowest
\* frame is left out: if its struct straddles two pages or ends one, the page
\* that it begins in is never mapped.
StructBacked ==
  Fed => \A p \in structs : (\E q \in structs : q < p) =>
           \A v \in Pfn(StructAt(p)) .. Pfn(StructAt(p) + StructSize - 1) :
             v \in DOMAIN map /\ map[v] \in Range(taken)

\* Frames are populated in ascending order, each once, without a hole between
\* them, whatever ranges and gaps they come from: the page allocator's boot order
\* relies on it, and a frame populated again would lose its struct page.
NoHole ==
  /\ pc = "page" => \A q \in structs : q < Pfn(Head(todo).base)
  /\ \A p, q \in structs : p < q => p .. q \subseteq structs

\* When all ranges are done, each frame of a region that begins above the
\* identity map and ends below the supported limit is the page allocator's or
\* is in use by the boot code.
HighMemoryUsed ==
  pc = "done" =>
    \A e \in Range(sanitize(memory_detect(report))) :
      e.type = RAM /\ e.base >= Low /\ End(e) < MaxSupport =>
        \A p \in Pfn(AlignUp(e.base)) .. Pfn(End(e)) - 1 :
          p \in freed \/ \E i \in DOMAIN taken : Pfn(taken[i]) = p

\* mem_block.cc: alloc_all_over_memory hands out all available memory above its
\* start address.  So that holds for a region that straddles the address, too.
AllHandedOut ==
  pc = "done" =>
    \A e \in Range(sanitize(memory_detect(report))) :
      e.type = RAM /\ End(e) > Low /\ End(e) < MaxSupport =>
        \A p \in Pfn(Low) .. Pfn(End(e)) - 1 :
          p * PageSize >= e.base =>
            p \in freed \/ \E i \in DOMAIN taken : Pfn(taken[i]) = p
=============================================================================
