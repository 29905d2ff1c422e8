----------------------------- MODULE MCVmemmap -------------------------------
(* Instances of Vmemmap for TLC: pages of 7 bytes, low memory of 22 pages. *)
EXTENDS Vmemmap

Region(from, pages, type) ==
  [base |-> from * PageSize, limit |-> pages * PageSize, type |-> type]

\* Two pieces below the kernel's end, and RAM from there up to page `top`.
LowRegions(top) == << [base |-> 0, limit |-> 6, type |-> 1],
                      [base |-> 6, limit |-> 4, type |-> 2],
                      [base |-> 10, limit |-> top * PageSize - 10, type |-> 1] >>

HighRegions(from) ==
  {Region(b, n, t) : b \in {from, from + 2, from + 3}, n \in {1, 3}, t \in {1, 2}}

\* RAM ends with low memory, or goes on so far beyond it that no length wraps
\* around; behind it come any two regions, which may overlap.
MCMaps ==
  UNION { {LowRegions(top) \o <<x, y>> : x, y \in HighRegions(top)} : top \in {22, 40} }

Answer(e, size, valid) ==
  [base |-> e.base, limit |-> e.limit, type |-> e.type, size |-> size, valid |-> valid]

Short(regions) == [i \in 1 .. Len(regions) |-> Answer(regions[i], 20, TRUE)]

\* What may come between the others: a long answer that counts or does not, one
\* of no size and a region of no length.
Extra == { Answer(Region(39, 2, 2), 24, TRUE), Answer(Region(39, 2, 2), 24, FALSE),
           Answer(Region(39, 2, 2), 0, TRUE), Answer(Region(39, 0, 2), 20, TRUE) }

One == Short(<<Region(0, 40, 1)>>)

MCReports ==
  {[answers |-> Short(m), carry |-> FALSE] : m \in MCMaps}
  \cup {[answers |-> Append(Short(LowRegions(40)), x), carry |-> c] : x \in Extra, c \in BOOLEAN}
  \cup {[answers |-> s, carry |-> TRUE] : s \in {<<>>, One}}
  \cup {[answers |-> One, carry |-> FALSE]}
==============================================================================
