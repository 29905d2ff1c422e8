------------------------------ MODULE Memblock -------------------------------
(***************************************************************************)
(* bootloader/boot.asm's memory_detect and memory/mem_block.cc: from what  *)
(* the firmware says of memory to a list of disjoint regions behind the    *)
(* kernel, and the allocator that serves the boot code from it.  A region  *)
(* is [base, limit, type], where `limit` is its length; addresses are byte *)
(* addresses.                                                              *)
(***************************************************************************)
EXTENDS Integers, SequencesExt

CONSTANTS KernelEnd,    \* &__KERNEL_END__
          PageSize,     \* PAGE_SIZE
          MaxE820,      \* MAX_E820_ENTRY
          Word          \* 2^64

ASSUME MemblockAssumption ==
  /\ PageSize \in Nat \ {0} /\ KernelEnd \in Nat
  /\ MaxE820 \in Nat \ {0} /\ Word \in Nat \ {0}

RAM == 1   \* E820_TYPE_RAM; the larger types are memory nobody may use

End(e) == e.base + e.limit

-----------------------------------------------------------------------------
(* memory_detect.  A report is the firmware's answers and how they end: with *)
(* a carry in place of one more, or with the continuation of the last one    *)
(* zero.  An answer has a region, its size, and in the largest size a bit    *)
(* that says whether it counts.                                              *)

Counts(a) == a.size # 0 /\ (a.size > 20 => a.valid) /\ a.limit # 0

\* A first answer that is a carry or the last one is taken for a failure.  The
\* hlt there lasts until the firmware's next interrupt; then the boot goes on
\* without a count, where the image read from disk has zeros.
Failed(report) == Len(report.answers) = 0 \/ (Len(report.answers) = 1 /\ ~report.carry)

Entry(a) == [base |-> a.base, limit |-> a.limit, type |-> a.type]

memory_detect(report) ==
  IF Failed(report) THEN <<>>
  ELSE FlattenSeq([i \in DOMAIN report.answers |->
                     IF Counts(report.answers[i]) THEN <<Entry(report.answers[i])>>
                                                  ELSE <<>>])

-----------------------------------------------------------------------------
(* sanitize_e820_entries *)

Max0(S) == IF S = {} THEN 0 ELSE Max(S)

\* The two ends of each region, as the indexes of the region and the address.
EndPoints(table) ==
  [k \in 1 .. 2 * Len(table) |->
     LET i == (k + 1) \div 2
     IN  [ent |-> i, addr |-> IF k % 2 = 1 THEN table[i].base ELSE End(table[i])]]

\* At one address the ends come before the beginnings.
Later(table, p, q) ==
  \/ p.addr > q.addr
  \/ p.addr = q.addr /\ End(table[p.ent]) > End(table[q.ent])

\* sort_end_points brings to place i, for each i in turn, the least of the points
\* that are left, by exchanging two of them whenever they are the wrong way round.
Exchanged(table, t, i, j) ==
  IF Later(table, t[i], t[j]) THEN [t EXCEPT ![i] = t[j], ![j] = t[i]] ELSE t

Settled(table, t, i) ==
  LET turn[j \in 0 .. Len(t)] ==
        IF j <= i THEN t ELSE Exchanged(table, turn[j - 1], i, j)
  IN  turn[Len(t)]

sort_end_points(table, t) ==
  LET sorted[i \in 0 .. Len(t)] ==
        IF i = 0 THEN t ELSE Settled(table, sorted[i - 1], i)
  IN  sorted[Len(t)]

NoSegment == [open |-> {}, type |-> 0, addr |-> 0, out |-> <<>>]

\* Faulty variant: the type of any open region will do.
OpenType_Any(table, open) == IF open = {} THEN 0 ELSE table[CHOOSE i \in open : TRUE].type

\* Where regions overlap, the largest type counts.
OpenType(table, open) == Max0({table[i].type : i \in open})

\* One turn of the sweep over the end points: `open` is overlap_list, `addr`
\* and `type` are last_addr and last_type, `out` the entries completed.
Sweep(table, s, p) ==
  LET open == IF p.addr = table[p.ent].base THEN s.open \cup {p.ent}
                                            ELSE s.open \ {p.ent}
      type == OpenType(table, open)
      done == IF s.type # 0 /\ p.addr > s.addr
                THEN << [base |-> s.addr, limit |-> p.addr - s.addr, type |-> s.type] >>
                ELSE << >>
  IN  IF Len(s.out) > MaxE820 THEN s
      ELSE [open |-> open, type |-> type,
            addr |-> IF type # s.type /\ type # 0 THEN p.addr ELSE s.addr,
            out  |-> IF type # s.type THEN s.out \o done ELSE s.out]

sanitize(table) ==
  LET known == FlattenSeq([i \in 1 .. Min({MaxE820, Len(table)}) |->
                             IF table[i].limit # 0 THEN <<table[i]>> ELSE <<>>])
      points == sort_end_points(known, EndPoints(known))
      swept[i \in 0 .. Len(points)] ==
        IF i = 0 THEN NoSegment ELSE Sweep(known, swept[i - 1], points[i])
  IN  swept[Len(points)].out

-----------------------------------------------------------------------------
(* init_memblock *)

\* Faulty variant: regions below the kernel's end are clipped as well.
Behind_All(e) == TRUE

Behind(e) == End(e) >= KernelEnd

\* Whatever lies below the kernel's end is taken off the region.
Clipped(e) ==
  IF e.base < KernelEnd
    THEN [base |-> KernelEnd, limit |-> e.limit - KernelEnd + e.base, type |-> e.type]
    ELSE e

init_memblock(table) ==
  LET clean == sanitize(table)
  IN  FlattenSeq([i \in DOMAIN clean |->
                    IF Behind(clean[i]) THEN <<Clipped(clean[i])>> ELSE <<>>])

-----------------------------------------------------------------------------
(* mblock_allocate(PAGE_SIZE, PAGE_ALIGN), as all callers but one use it *)

AlignUp(a) == IF a % PageSize = 0 THEN a ELSE a + PageSize - (a % PageSize)

Taken(e) == AlignUp(e.base) - e.base + PageSize

Fits(e) == Taken(e) <= e.limit /\ e.type = RAM

\* The index of the first region that has a page, or 0.
FirstFit(entries) == SelectInSeq(entries, Fits)

\* Faulty variant: the region keeps its base.
AfterPage_SameBase(e) == [e EXCEPT !.limit = @ - Taken(e)]

\* The region without the page and the padding in front of it.
AfterPage(e) == [base |-> AlignUp(e.base) + PageSize, limit |-> e.limit - Taken(e),
                 type |-> e.type]

-----------------------------------------------------------------------------
(* alloc_all_over_memory(start, PAGE_SIZE) *)

AllocBase(start) == start + (start % PageSize)

\* Faulty variant: regions that begin at the address are passed over as well.
Over_Skips(e, start) == e.limit # 0 /\ End(e) > AllocBase(start) /\ e.base # AllocBase(start)

Over(e, start) == e.limit # 0 /\ End(e) > AllocBase(start)

\* The index of the first region that reaches beyond the address, or 0.
FirstOver(entries, start) == SelectInSeq(entries, LAMBDA e : Over(e, start))

\* What is handed out of region e, and what stays.  Of a region that begins
\* below the address, the code subtracts the address from the length.
HandedOut(e, start) ==
  IF e.base < AllocBase(start)
    THEN [base |-> AllocBase(start),
          limit |-> (e.limit - AllocBase(start) + Word) % Word, type |-> e.type]
    ELSE e

Remaining(e, start) ==
  [base |-> e.base, type |-> e.type,
   limit |-> IF e.base < AllocBase(start) THEN AllocBase(start) - e.base ELSE 0]

-----------------------------------------------------------------------------
(* Reference definitions *)

Bytes(e) == e.base .. End(e) - 1

\* The regions that the firmware reports, as its interface defines them: answers
\* of the largest size count if their bit is set.
Reported(report) ==
  {a \in Range(report.answers) : a.size = 20 \/ (a.size = 24 /\ a.valid)}

\* The type of an address by a set of regions: that of the worst.
TypeAt(regions, a) == Max0({e.type : e \in {r \in regions : a \in Bytes(r)}})
=============================================================================
