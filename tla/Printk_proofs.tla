---------------------------- MODULE Printk_proofs ----------------------------
(***************************************************************************)
(* Proofs about Printk: the lock excludes, and printk and ld_print         *)
(* implement Console.                                                      *)
(*                                                                         *)
(* IInv says what the tickets mean, TInv how far the caller inside is: the *)
(* pieces of its call that are done are on the screen or in out, and the   *)
(* loop's variables are those that the next piece needs (Prints).  The     *)
(* lemmas before it are about the operators: the screen that a text buffer *)
(* stands for, folds and concatenations, and numbers.                      *)
(***************************************************************************)
EXTENDS Printk, FiniteSetTheorems, SequenceTheorems, Induction, TLAPS

-----------------------------------------------------------------------------
\* The lock: tickets, and who is inside.

\* Who has drawn a ticket and not given the lock back, and who is how many
\* releases away from its turn.
Queue == {c \in Caller : pc[c] \in {"spin", "loop", "unlock"}}
Place(c) == IF ticket[c] >= head THEN ticket[c] - head ELSE ticket[c] + Mod - head

Typed == /\ phase \in {"loader", "kernel"} /\ torn \in BOOLEAN
         /\ head \in 0 .. Mod - 1 /\ tail \in 0 .. Mod - 1
         /\ pc \in [Caller -> {"idle", "lock", "xadd", "spin", "loop", "unlock"}]
         /\ reg \in [Caller -> 0 .. Mod - 1] /\ ticket \in [Caller -> 0 .. Mod - 1]

\* Nobody calls before clear_text_screnn.
Started == \A c \in Caller : pc[c] # "idle" => phase = "kernel"
Fresh   == phase = "loader" => ~torn

\* Tickets are drawn in order, tail is the next one, head that of the holder.
Distinct == \A c, d \in Queue : ticket[c] = ticket[d] => c = d
Served   == \A c \in Queue : Place(c) < Cardinality(Queue)
NextDraw == tail = IF head + Cardinality(Queue) < Mod THEN head + Cardinality(Queue)
                   ELSE head + Cardinality(Queue) - Mod
Holder   == \A c \in Inside : ticket[c] = head
Loaded   == \A c \in Caller : pc[c] = "unlock" => reg[c] = head
Order == ~torn => Distinct /\ Served /\ NextDraw /\ Holder /\ Loaded

IInv == Typed /\ Started /\ Fresh /\ Order

LEMMA QueueSize ==
  /\ IsFiniteSet(Queue) /\ Cardinality(Queue) \in Nat
  /\ \A c \in Caller \ Queue : Cardinality(Queue) < Mod
<1>1. Queue \in SUBSET Caller BY DEF Queue
<1>2. IsFiniteSet(Queue) BY <1>1, CallerAssumption, FS_Subset
<1>3. Cardinality(Queue) \in Nat BY <1>2, FS_CardinalityType
<1>4. ASSUME NEW c \in Caller \ Queue PROVE Cardinality(Queue) < Mod
  <2>1. Cardinality(Queue \cup {c}) = Cardinality(Queue) + 1 BY <1>2, <1>4, FS_AddElement
  <2>2. Queue \cup {c} \subseteq Caller BY <1>1
  <2>3. Cardinality(Queue \cup {c}) <= Cardinality(Caller) BY <2>2, CallerAssumption, FS_Subset
  <2>4. Cardinality(Caller) \in Nat BY CallerAssumption, FS_CardinalityType
  <2> QED BY <2>1, <2>3, <2>4, <1>3, CallerAssumption, LockAssumption
<1> QED BY <1>2, <1>3, <1>4

\* Before the tickets overlap only one caller is inside.
LEMMA AloneInside ==
  ASSUME IInv, ~torn, NEW c \in Inside, NEW d \in Inside PROVE c = d
<1>1. c \in Queue /\ d \in Queue BY DEF Inside, Queue
<1>2. ticket[c] = ticket[d] BY DEF IInv, Order, Holder
<1> QED BY <1>1, <1>2 DEF IInv, Order, Distinct

LEMMA InitI == Init => IInv
<1> SUFFICES ASSUME Init PROVE IInv OBVIOUS
<1>1. Queue = {} BY DEF Init, Queue
<1>2. Inside = {} BY DEF Init, Inside
<1>3. Cardinality(Queue) = 0 BY <1>1, FS_EmptySet
<1>4. Typed
  <2>1. 0 \in 0 .. Mod - 1 BY LockAssumption
  <2>2. /\ phase = "loader" /\ torn = FALSE /\ head = 0 /\ tail = 0 /\ pc = [c \in Caller |-> "idle"]
        /\ reg = [c \in Caller |-> 0] /\ ticket = [c \in Caller |-> 0]
    BY DEF Init
  <2> QED BY <2>1, <2>2 DEF Typed
<1>5. Started /\ Fresh BY DEF Init, Started, Fresh
<1>6. Order BY <1>1, <1>2, <1>3, LockAssumption DEF Init, Order, Distinct, Served, NextDraw, Holder, Loaded
<1> QED BY <1>4, <1>5, <1>6 DEF IInv

\* A step that leaves the lock and the queue alone.
LEMMA SameQueue ==
  ASSUME IInv, Typed', Started', Fresh', UNCHANGED <<head, tail, torn, ticket>>,
         Queue' = Queue, Inside' = Inside,
         \A c \in Caller : pc'[c] = "unlock" => pc[c] = "unlock" /\ reg'[c] = reg[c]
  PROVE  IInv'
<1>1. \A c \in Queue : Place(c)' = Place(c) BY DEF Place
<1>2. Order' BY <1>1 DEF IInv, Order, Distinct, Served, NextDraw, Holder, Loaded
<1> QED BY <1>2 DEF IInv

LEMMA LogI == ASSUME IInv, NEW call \in LoaderCall, Log(call) PROVE IInv'
<1>1. UNCHANGED <<phase, head, tail, torn, pc, reg, ticket>> BY DEF Log, lock
<1>2. Queue' = Queue /\ Inside' = Inside BY <1>1 DEF Queue, Inside
<1>3. Typed' /\ Started' /\ Fresh' BY <1>1 DEF IInv, Typed, Started, Fresh
<1> QED BY <1>1, <1>2, <1>3, SameQueue

LEMMA ClearI == ASSUME IInv, clear_text_screnn PROVE IInv'
<1>1. phase' = "kernel" /\ UNCHANGED <<head, tail, torn, pc, reg, ticket>> BY DEF clear_text_screnn, lock
<1>2. Queue' = Queue /\ Inside' = Inside BY <1>1 DEF Queue, Inside
<1>3. Typed' /\ Started' /\ Fresh' BY <1>1 DEF IInv, Typed, Started, Fresh
<1> QED BY <1>1, <1>2, <1>3, SameQueue

LEMMA CallI ==
  ASSUME IInv, NEW c \in Caller, NEW call \in KernelCall, Call(c, call) PROVE IInv'
<1>1. /\ UNCHANGED <<phase, head, tail, torn, reg, ticket>> /\ phase = "kernel"
      /\ pc[c] = "idle" /\ (UNCHANGED pc \/ pc' = [pc EXCEPT ![c] = "lock"])
  BY DEF Call, lock, Keep, Go
<1>2. pc \in [Caller -> {"idle", "lock", "xadd", "spin", "loop", "unlock"}] BY DEF IInv, Typed
<1>3. Queue' = Queue /\ Inside' = Inside BY <1>1, <1>2 DEF Queue, Inside
<1>4. Typed' /\ Started' /\ Fresh' BY <1>1 DEF IInv, Typed, Started, Fresh
<1>5. \A d \in Caller : pc'[d] = "unlock" => pc[d] = "unlock" /\ reg'[d] = reg[d] BY <1>1, <1>2
<1> QED BY <1>1, <1>3, <1>4, <1>5, SameQueue

LEMMA LoadTailI == ASSUME IInv, NEW c \in Caller, LoadTail(c) PROVE IInv'
<1>1. /\ UNCHANGED <<phase, head, tail, torn, ticket>> /\ pc[c] = "lock"
      /\ pc' = [pc EXCEPT ![c] = "xadd"] /\ reg' = [reg EXCEPT ![c] = tail]
  BY DEF LoadTail, lock, Keep, Go
<1>2. pc \in [Caller -> {"idle", "lock", "xadd", "spin", "loop", "unlock"}] BY DEF IInv, Typed
<1>3. Queue' = Queue /\ Inside' = Inside BY <1>1, <1>2 DEF Queue, Inside
<1>4. Typed' /\ Started' /\ Fresh' BY <1>1 DEF IInv, Typed, Started, Fresh
<1>5. \A d \in Caller : pc'[d] = "unlock" => pc[d] = "unlock" /\ reg'[d] = reg[d]
  BY <1>1, <1>2 DEF IInv, Typed
<1> QED BY <1>1, <1>3, <1>4, <1>5, SameQueue

LEMMA Wraps == ASSUME NEW n \in 0 .. Mod - 1
               PROVE (n + 1) % Mod = IF n + 1 < Mod THEN n + 1 ELSE 0
<1>1. CASE n + 1 < Mod BY <1>1, LockAssumption
<1>2. CASE n + 1 = Mod BY <1>2, LockAssumption
<1> QED BY <1>1, <1>2, LockAssumption

LEMMA StoreTailI == ASSUME IInv, ~torn, NEW c \in Caller, StoreTail(c) PROVE IInv'
<1>1. /\ UNCHANGED <<phase, head, reg>> /\ pc[c] = "xadd"
      /\ pc' = [pc EXCEPT ![c] = "spin"] /\ ticket' = [ticket EXCEPT ![c] = reg[c]]
      /\ tail' = (reg[c] + 1) % Mod /\ torn' = (torn \/ tail # reg[c])
  BY DEF StoreTail, Keep, Go
<1>2. Typed BY DEF IInv
<1>3. Typed' /\ Started' /\ Fresh'
  <2>1. tail' \in 0 .. Mod - 1 BY <1>1, <1>2, LockAssumption DEF Typed
  <2>2. phase = "kernel" BY <1>1 DEF IInv, Started
  <2>3. Typed' BY <2>1, <1>1, <1>2 DEF Typed
  <2> QED BY <2>2, <2>3, <1>1 DEF Started, Fresh
<1>4. ASSUME ~torn' PROVE (Distinct /\ Served /\ NextDraw /\ Holder /\ Loaded)'
  <2> DEFINE N == Cardinality(Queue)
  <2>1. tail = reg[c] /\ Distinct /\ Served /\ NextDraw /\ Holder /\ Loaded
    BY <1>1, <1>4 DEF IInv, Order
  <2>2. Queue' = Queue \cup {c} /\ c \notin Queue /\ Inside' = Inside /\ c \notin Inside
    BY <1>1, <1>2 DEF Queue, Inside, Typed
  <2>3. N \in Nat /\ N < Mod /\ IsFiniteSet(Queue) BY <2>2, QueueSize
  <2>4. Cardinality(Queue') = N + 1 BY <2>2, <2>3, FS_AddElement
  <2>5. \A d \in Queue : d \in Caller /\ d # c /\ ticket'[d] = ticket[d] /\ Place(d)' = Place(d)
    BY <1>1, <1>2, <2>2 DEF Place, Queue, Typed
  <2>6. ticket'[c] = tail BY <1>1, <1>2, <2>1 DEF Typed
  <2>7. Place(c)' = N BY <2>6, <2>1, <2>3, <1>1, <1>2, LockAssumption DEF Place, NextDraw, Typed
  <2>8. Served' BY <2>2, <2>3, <2>4, <2>5, <2>7, <2>1, <1>2, LockAssumption DEF Served, Place, Typed
  <2>9. \A d \in Queue : ticket[d] # tail
    <3> SUFFICES ASSUME NEW d \in Queue, ticket[d] = tail PROVE FALSE OBVIOUS
    <3>1. Place(d) = N BY <2>1, <2>3, <1>2, LockAssumption DEF Place, NextDraw, Typed
    <3> QED BY <3>1, <2>1, <2>3 DEF Served
  <2>10. Distinct' BY <2>2, <2>5, <2>6, <2>9, <2>1 DEF Distinct
  <2>11. NextDraw'
    <3>1. tail' = IF tail + 1 < Mod THEN tail + 1 ELSE 0 BY <1>1, <2>1, <1>2, Wraps DEF Typed
    <3> QED BY <3>1, <2>1, <2>3, <2>4, <1>1, <1>2, LockAssumption DEF NextDraw, Typed
  <2>12. Holder' BY <2>2, <2>1, <1>1, <1>2 DEF Holder, Inside, Typed
  <2>13. Loaded' BY <2>1, <1>1, <1>2 DEF Loaded, Typed
  <2> QED BY <2>8, <2>10, <2>11, <2>12, <2>13
<1> QED BY <1>3, <1>4 DEF IInv, Order

LEMMA EnterI == ASSUME IInv, ~torn, NEW c \in Caller, Enter(c) PROVE IInv'
<1>1. /\ UNCHANGED <<phase, head, tail, torn, reg, ticket>> /\ pc[c] = "spin"
      /\ pc' = [pc EXCEPT ![c] = "loop"] /\ head = ticket[c]
  BY DEF Enter, lock, Keep, Go
<1>2. Typed BY DEF IInv
<1>3. Queue' = Queue /\ Inside' = Inside \cup {c} BY <1>1, <1>2 DEF Queue, Inside, Typed
<1>4. Typed' /\ Started' /\ Fresh' BY <1>1 DEF IInv, Typed, Started, Fresh
<1>5. Distinct /\ Served /\ NextDraw /\ Holder /\ Loaded BY DEF IInv, Order
<1>6. Distinct' /\ NextDraw' BY <1>1, <1>3, <1>5 DEF Distinct, NextDraw
<1>7. Served' BY <1>1, <1>3, <1>5 DEF Served, Place
<1>8. Holder' BY <1>1, <1>3, <1>5 DEF Holder
<1>9. Loaded' BY <1>1, <1>2, <1>5 DEF Loaded, Typed
<1> QED BY <1>4, <1>6, <1>7, <1>8, <1>9 DEF IInv, Order

LEMMA LoadHeadI == ASSUME IInv, ~torn, NEW c \in Caller, LoadHead(c) PROVE IInv'
<1>1. /\ UNCHANGED <<phase, head, tail, torn, ticket>> /\ pc[c] = "loop"
      /\ pc' = [pc EXCEPT ![c] = "unlock"] /\ reg' = [reg EXCEPT ![c] = head]
  BY DEF LoadHead, lock, Keep, Go
<1>2. Typed BY DEF IInv
<1>3. Queue' = Queue /\ Inside' = Inside BY <1>1, <1>2 DEF Queue, Inside, Typed
<1>4. Typed' /\ Started' /\ Fresh' BY <1>1 DEF IInv, Typed, Started, Fresh
<1>5. Distinct /\ Served /\ NextDraw /\ Holder /\ Loaded BY DEF IInv, Order
<1>6. Distinct' /\ NextDraw' BY <1>1, <1>3, <1>5 DEF Distinct, NextDraw
<1>7. Served' BY <1>1, <1>3, <1>5 DEF Served, Place
<1>8. Holder' BY <1>1, <1>3, <1>5 DEF Holder
<1>9. Loaded' BY <1>1, <1>2, <1>5 DEF Loaded, Typed
<1> QED BY <1>4, <1>6, <1>7, <1>8, <1>9 DEF IInv, Order

LEMMA StoreHeadI == ASSUME IInv, ~torn, NEW c \in Caller, StoreHead(c) PROVE IInv'
<1>1. /\ UNCHANGED <<phase, tail, torn>> /\ pc[c] = "unlock"
      /\ pc' = [pc EXCEPT ![c] = "idle"] /\ reg' = [reg EXCEPT ![c] = 0]
      /\ ticket' = [ticket EXCEPT ![c] = 0] /\ head' = (reg[c] + 1) % Mod
  BY DEF StoreHead, Keep, Go
<1>2. Typed BY DEF IInv
<1>3. Distinct /\ Served /\ NextDraw /\ Holder /\ Loaded BY DEF IInv, Order
<1>4. c \in Queue /\ c \in Inside /\ ticket[c] = head /\ reg[c] = head
  BY <1>1, <1>3 DEF Queue, Inside, Holder, Loaded
<1>5. Queue' = Queue \ {c} BY <1>1, <1>2 DEF Queue, Typed
<1>6. Inside' = {}
  <2>1. \A d \in Inside : d = c BY <1>4, AloneInside
  <2> QED BY <2>1, <1>1, <1>2 DEF Inside, Typed
<1>7. IsFiniteSet(Queue) /\ Cardinality(Queue) \in Nat BY QueueSize
<1>8. Cardinality(Queue') = Cardinality(Queue) - 1 BY <1>4, <1>5, <1>7, FS_RemoveElement
<1>9. Cardinality(Queue) >= 1 BY <1>4, <1>7, <1>3, LockAssumption, <1>2 DEF Served, Place, Typed
<1>10. head' = IF head + 1 < Mod THEN head + 1 ELSE 0 BY <1>1, <1>4, <1>2, Wraps DEF Typed
<1>11. Typed' /\ Started' /\ Fresh'
  <2>1. head' \in 0 .. Mod - 1 BY <1>10, <1>2, LockAssumption DEF Typed
  <2>2. Typed' BY <2>1, <1>1, <1>2, LockAssumption DEF Typed
  <2> QED BY <2>2, <1>1 DEF IInv, Started, Fresh, Typed
<1>12. Distinct' BY <1>5, <1>1, <1>2, <1>3 DEF Distinct, Queue, Typed
<1>13. Served'
  <2> SUFFICES ASSUME NEW d \in Queue' PROVE Place(d)' < Cardinality(Queue') BY DEF Served
  <2>1. d \in Queue /\ d # c /\ d \in Caller BY <1>5 DEF Queue
  <2>2. ticket'[d] = ticket[d] /\ ticket[d] # head BY <2>1, <1>1, <1>2, <1>3, <1>4 DEF Distinct, Typed
  <2>3. Place(d) < Cardinality(Queue) BY <2>1, <1>3 DEF Served
  <2>4. Place(d)' = Place(d) - 1 BY <2>1, <2>2, <1>10, <1>2, LockAssumption DEF Place, Typed
  <2>5. Place(d) \in Int BY <2>1, <1>2, LockAssumption DEF Place, Typed
  <2> QED BY <2>3, <2>4, <2>5, <1>7, <1>8
<1>14. NextDraw' BY <1>3, <1>7, <1>8, <1>9, <1>10, <1>1, <1>2, LockAssumption DEF NextDraw, Typed
<1>15. Holder' BY <1>6 DEF Holder
<1>16. Loaded' BY <1>6 DEF Loaded, Inside
<1> QED BY <1>11, <1>12, <1>13, <1>14, <1>15, <1>16 DEF IInv, Order

LEMMA WriteFrame ==
  ASSUME NEW c \in Caller, Loop(c) \/ Put(c)
  PROVE  /\ UNCHANGED <<phase, head, tail, torn, pc, reg, ticket, before>>
         /\ pc[c] = "loop"
<1>1. CASE Put(c) BY <1>1 DEF Put, lock, Keep
<1>2. CASE Loop(c)
  BY <1>2, Zenon DEF Loop, Directive, LongDirective, Plain, Newline, Iteration, lock, Keep
<1> QED BY <1>1, <1>2

LEMMA WriteI == ASSUME IInv, NEW c \in Caller, Loop(c) \/ Put(c) PROVE IInv'
<1>1. UNCHANGED <<phase, head, tail, torn, pc, reg, ticket>> BY WriteFrame
<1>2. Queue' = Queue /\ Inside' = Inside BY <1>1 DEF Queue, Inside
<1>3. Typed' /\ Started' /\ Fresh' BY <1>1 DEF IInv, Typed, Started, Fresh
<1> QED BY <1>1, <1>2, <1>3, SameQueue

LEMMA NextI == ASSUME IInv, [Next]_vars PROVE IInv'
<1>1. CASE UNCHANGED vars
  <2>1. UNCHANGED <<phase, head, tail, torn, pc, reg, ticket>> BY <1>1 DEF vars, lock
  <2>2. Queue' = Queue /\ Inside' = Inside BY <2>1 DEF Queue, Inside
  <2>3. Typed' /\ Started' /\ Fresh' BY <2>1 DEF IInv, Typed, Started, Fresh
  <2> QED BY <2>1, <2>2, <2>3, SameQueue
<1>2. CASE Next
  <2>1. ASSUME NEW call \in LoaderCall, Log(call) PROVE IInv' BY <2>1, LogI
  <2>2. CASE clear_text_screnn BY <2>2, ClearI
  <2>3. ASSUME NEW c \in Caller, NEW call \in KernelCall, Call(c, call) PROVE IInv' BY <2>3, CallI
  <2>4. ASSUME NEW c \in Caller, Step(c) PROVE IInv'
    BY <2>4, LoadTailI, StoreTailI, EnterI, WriteI, LoadHeadI, StoreHeadI DEF Step
  <2> QED BY <1>2, <2>1, <2>2, <2>3, <2>4 DEF Next
<1> QED BY <1>1, <1>2

\* Until two draws of a ticket have overlapped, spin_lock and spin_unlock let
\* one caller at a time into printk's loop, however often the tickets wrap
\* around and although head++ is a load and a store.
THEOREM Exclusion == Spec => [](~torn => \A c, d \in Inside : c = d)
<1>1. Spec => []IInv BY InitI, NextI, PTL DEF Spec
<1>2. IInv => (~torn => \A c, d \in Inside : c = d) BY AloneInside
<1> QED BY <1>1, <1>2, PTL

-----------------------------------------------------------------------------
\* The screen: rows and columns of a cell, and what putc and putn do to it.

LEMMA CellAddress ==
  ASSUME NEW r \in 1 .. Height, NEW k \in 1 .. Width
  PROVE  (r - 1) * Width + k - 1 \in 0 .. Cells - 1
<1>1. Width \in Nat /\ Height \in Nat BY ScreenAssumption
<1>2. (r - 1) * Width >= 0 BY <1>1
<1>3. Height * Width = (r - 1) * Width + (Height - r) * Width + Width BY <1>1
<1>4. (Height - r) * Width >= 0 BY <1>1
<1>5. Cells = Height * Width BY <1>1 DEF Cells
<1>6. (r - 1) * Width \in Int /\ (Height - r) * Width \in Int BY <1>1
<1> QED BY <1>1, <1>2, <1>3, <1>4, <1>5, <1>6

LEMMA CellsPositive == Cells \in Nat /\ Cells > 0 /\ Cells >= Width
<1>1. Width \in Nat /\ Height \in Nat /\ Width > 1 /\ Height > 1 BY ScreenAssumption
<1>2. Width * Height = Width * (Height - 1) + Width BY <1>1
<1>3. Width * (Height - 1) \in Nat BY <1>1
<1> QED BY <1>1, <1>2, <1>3 DEF Cells

LEMMA CellsRows == /\ (Height - 1) * Width \in Nat /\ Cells = (Height - 1) * Width + Width
                   /\ Width * (Height - 1) = (Height - 1) * Width /\ Width \in Nat /\ Width > 1 /\ Height \in Nat /\ Height > 1
BY ScreenAssumption DEF Cells

Rows(v) == [r \in 1 .. Height |-> [k \in 1 .. Width |-> Seen(v[(r - 1) * Width + k - 1])]]

LEMMA ScreenOf ==
  ASSUME NEW v, NEW i \in Nat, i # Cells
  PROVE  LET d == i \div Width
         IN  AsScreen(v, i) = [rows |-> Rows(v), row |-> d + 1, col |-> i - d * Width]
<1> DEFINE d == i \div Width
           q == IF i = Cells THEN Height ELSE d + 1
<1>1. AsScreen(v, i) = [rows |-> Rows(v), row |-> q, col |-> i - (q - 1) * Width]
  BY DEF AsScreen, Rows
<1>2. q = d + 1 OBVIOUS
<1>3. d \in Int BY ScreenAssumption
<1> HIDE DEF d, q
<1>4. i - (q - 1) * Width = i - d * Width BY <1>2, <1>3, ScreenAssumption
<1>5. AsScreen(v, i) = [rows |-> Rows(v), row |-> d + 1, col |-> i - d * Width] BY <1>1, <1>2, <1>4
<1> QED BY <1>5 DEF d

LEMMA ScreenFull ==
  ASSUME NEW v
  PROVE  AsScreen(v, Cells) = [rows |-> Rows(v), row |-> Height, col |-> Width]
<1>1. AsScreen(v, Cells) = [rows |-> Rows(v), row |-> Height, col |-> Cells - (Height - 1) * Width]
  BY DEF AsScreen, Rows
<1>2. Cells - (Height - 1) * Width = Width BY CellsRows
<1> QED BY <1>1, <1>2

\* Two positions are the same only if row and column are.
LEMMA SamePlace ==
  ASSUME NEW a \in Int, NEW b \in 0 .. Width - 1, NEW c \in Int, NEW d \in 0 .. Width - 1,
         a * Width + b = c * Width + d
  PROVE  a = c /\ b = d
<1>1. ASSUME a < c PROVE FALSE
  <2>1. PICK e \in Nat : c = a + 1 + e BY <1>1
  <2>2. c * Width = a * Width + Width + e * Width BY <2>1, CellsRows
  <2>3. e * Width \in Nat /\ a * Width \in Int BY <2>1, CellsRows
  <2> QED BY <2>2, <2>3, CellsRows
<1>2. ASSUME c < a PROVE FALSE
  <2>1. PICK e \in Nat : a = c + 1 + e BY <1>2
  <2>2. a * Width = c * Width + Width + e * Width BY <2>1, CellsRows
  <2>3. e * Width \in Nat /\ c * Width \in Int BY <2>1, CellsRows
  <2> QED BY <2>2, <2>3, CellsRows
<1>3. a = c BY <1>1, <1>2
<1>4. a * Width \in Int BY CellsRows
<1> QED BY <1>3, <1>4

LEMMA RowAndColumn ==
  ASSUME NEW a \in Nat, NEW b \in 0 .. Width - 1
  PROVE  /\ a * Width + b \in Nat
         /\ (a * Width + b) \div Width = a /\ (a * Width + b) % Width = b
<1> DEFINE i == a * Width + b
<1>1. i \in Nat BY CellsRows
<1> HIDE DEF i
<1>2. PICK d \in Nat : d = i \div Width BY <1>1, ScreenAssumption
<1>3. PICK m \in 0 .. Width - 1 : m = i % Width BY <1>1, ScreenAssumption
<1>4. i = d * Width + m BY <1>1, <1>2, <1>3, ScreenAssumption
<1>5. a = d /\ b = m BY <1>4, SamePlace DEF i
<1> QED BY <1>1, <1>2, <1>3, <1>5 DEF i

LEMMA Position ==
  ASSUME NEW i \in 0 .. Cells - 1
  PROVE  \E a \in 0 .. Height - 1, b \in 0 .. Width - 1 : i = a * Width + b
<1>1. PICK d \in Nat : d = i \div Width BY ScreenAssumption, CellsPositive
<1>2. PICK m \in 0 .. Width - 1 : m = i % Width BY ScreenAssumption, CellsPositive
<1>3. i = d * Width + m BY <1>1, <1>2, ScreenAssumption, CellsPositive
<1>4. ASSUME d >= Height PROVE FALSE
  <2>1. PICK e \in Nat : d = Height - 1 + 1 + e BY <1>4, CellsRows
  <2>2. d * Width = (Height - 1) * Width + Width + e * Width BY <2>1, CellsRows
  <2>3. e * Width \in Nat BY CellsRows
  <2> QED BY <2>2, <2>3, <1>3, CellsRows
<1> QED BY <1>3, <1>4, CellsRows

LEMMA ScreenAt ==
  ASSUME NEW v, NEW a \in 0 .. Height - 1, NEW b \in 0 .. Width - 1
  PROVE  /\ a * Width + b \in 0 .. Cells - 1
         /\ AsScreen(v, a * Width + b) = [rows |-> Rows(v), row |-> a + 1, col |-> b]
<1> DEFINE i == a * Width + b
<1>1. (a + 1 - 1) * Width + (b + 1) - 1 \in 0 .. Cells - 1 BY CellAddress, CellsRows
<1>2. (a + 1 - 1) * Width + (b + 1) - 1 = i BY CellsRows
<1>3. i \in 0 .. Cells - 1 BY <1>1, <1>2
<1>4. i \div Width = a BY RowAndColumn, CellsRows
<1>5. i - a * Width = b BY CellsRows
<1> DEFINE d == i \div Width
<1>6. AsScreen(v, i) = [rows |-> Rows(v), row |-> d + 1, col |-> i - d * Width]
  BY <1>3, CellsPositive, ScreenOf
<1>7. d = a BY <1>4
<1> HIDE DEF i, d
<1>8. AsScreen(v, i) = [rows |-> Rows(v), row |-> a + 1, col |-> b] BY <1>5, <1>6, <1>7
<1> QED BY <1>3, <1>8 DEF i

IsText(v) == v = [i \in 0 .. Cells - 1 |-> v[i]]

LEMMA ScrollShown ==
  ASSUME NEW v, NEW i, IsText(v)
  PROVE  LET s == scroll_text_screen([vmem |-> v, idx |-> i])
         IN  /\ IsText(s.vmem) /\ s.idx = (Height - 1) * Width
             /\ s = [vmem |-> s.vmem, idx |-> s.idx]
             /\ AsScreen(s.vmem, s.idx) = [rows |-> Append(Tail(Rows(v)), Abstract!BlankRow), row |-> Height, col |-> 0]
<1> DEFINE w == [n \in 0 .. Cells - 1 |-> IF n < Cells - Width THEN v[n + Width] ELSE Zero]
           s == scroll_text_screen([vmem |-> v, idx |-> i])
<1>1. s = [vmem |-> w, idx |-> (Height - 1) * Width] BY CellsRows DEF scroll_text_screen
<1>2. IsText(w) BY DEF IsText
<1>3. ASSUME NEW r \in 1 .. Height - 1, NEW k \in 1 .. Width
      PROVE  w[(r - 1) * Width + k - 1] = v[(r + 1 - 1) * Width + k - 1]
  <2> DEFINE n == (r - 1) * Width + k - 1
  <2>1. n \in 0 .. Cells - 1 BY CellAddress, CellsRows
  <2>2. (r + 1 - 1) * Width + k - 1 \in 0 .. Cells - 1 BY CellAddress, CellsRows
  <2>3. (r + 1 - 1) * Width + k - 1 = n + Width BY CellsRows
  <2> HIDE DEF n
  <2>4. n < Cells - Width BY <2>1, <2>2, <2>3, CellsRows
  <2>5. w[n] = v[n + Width] BY <2>1, <2>4
  <2> QED BY <2>5, <2>3 DEF n
<1>4. ASSUME NEW k \in 1 .. Width PROVE w[(Height - 1) * Width + k - 1] = Zero
  <2>1. (Height - 1) * Width + k - 1 \in 0 .. Cells - 1 BY CellAddress, CellsRows
  <2>2. ~ ((Height - 1) * Width + k - 1 < Cells - Width) BY CellsRows
  <2> QED BY <2>1, <2>2
<1> HIDE DEF w
<1> DEFINE row(x, r) == [k \in 1 .. Width |-> Seen(x[(r - 1) * Width + k - 1])]
<1>5. \A r \in 1 .. Height - 1 : row(w, r) = row(v, r + 1) BY <1>3
<1>6. row(w, Height) = Abstract!BlankRow BY <1>4 DEF Seen, Blank, Zero, Abstract!BlankRow
<1>7. Rows(w) = Append(Tail(Rows(v)), Abstract!BlankRow)
  <2> DEFINE R == Rows(v)
             T == [r \in 1 .. Height - 1 |-> R[r + 1]]
  <2>1. R \in Seq(Range(R)) /\ Len(R) = Height /\ DOMAIN R = 1 .. Height
    <3>1. R = [r \in 1 .. Height |-> R[r]] /\ \A r \in 1 .. Height : R[r] \in Range(R) BY DEF Rows, Range
    <3> HIDE DEF R
    <3> QED BY <3>1, CellsRows
  <2>2. \A r \in 1 .. Height : R[r] = row(v, r) BY DEF Rows
  <2> HIDE DEF R
  <2> DEFINE S == Range(R) \cup {Abstract!BlankRow}
             A == Append(Tail(R), Abstract!BlankRow)
  <2>3. R \in Seq(S) /\ R # <<>> BY <2>1, SeqMonotonic, CellsRows, EmptySeq
  <2> HIDE DEF S
  <2>4. /\ Tail(R) \in Seq(S) /\ Len(Tail(R)) = Height - 1
        /\ \A r \in 1 .. Height - 1 : Tail(R)[r] = R[r + 1]
    BY <2>1, <2>3, HeadTailProperties
  <2>5. A = [r \in 1 .. Height |-> IF r = Height THEN Abstract!BlankRow ELSE R[r + 1]]
    <3>1. Abstract!BlankRow \in S BY DEF S
    <3>2. /\ A \in Seq(S) /\ Len(A) = Height - 1 + 1 /\ A[Height - 1 + 1] = Abstract!BlankRow
          /\ \A r \in 1 .. Height - 1 : A[r] = Tail(R)[r]
      BY <2>4, <3>1, AppendProperties
    <3> HIDE DEF A
    <3>3. DOMAIN A = 1 .. Height /\ A = [r \in DOMAIN A |-> A[r]] BY <3>2, LenProperties, CellsRows
    <3>4. \A r \in 1 .. Height : A[r] = IF r = Height THEN Abstract!BlankRow ELSE R[r + 1]
      BY <3>2, <2>4, CellsRows
    <3> QED BY <3>3, <3>4
  <2>6. Rows(w) = [r \in 1 .. Height |-> row(w, r)] BY DEF Rows
  <2> HIDE DEF row, A
  <2>7. \A r \in 1 .. Height : row(w, r) = IF r = Height THEN Abstract!BlankRow ELSE R[r + 1]
    BY <2>2, <1>5, <1>6, CellsRows
  <2>8. Rows(w) = A BY <2>5, <2>6, <2>7
  <2> QED BY <2>8 DEF R, A
<1>8. AsScreen(w, (Height - 1) * Width + 0) = [rows |-> Rows(w), row |-> Height - 1 + 1, col |-> 0]
  <2>1. Height - 1 \in 0 .. Height - 1 /\ 0 \in 0 .. Width - 1 BY CellsRows
  <2> QED BY <2>1, ScreenAt, Zenon
<1>9. (Height - 1) * Width + 0 = (Height - 1) * Width /\ Height - 1 + 1 = Height BY CellsRows
<1>10. AsScreen(w, (Height - 1) * Width) = [rows |-> Rows(w), row |-> Height, col |-> 0] BY <1>8, <1>9
<1> HIDE DEF s
<1>11. /\ IsText(s.vmem) /\ s.idx = (Height - 1) * Width /\ s = [vmem |-> s.vmem, idx |-> s.idx]
       /\ AsScreen(s.vmem, s.idx) = [rows |-> Append(Tail(Rows(v)), Abstract!BlankRow), row |-> Height, col |-> 0]
  BY <1>1, <1>2, <1>7, <1>10
<1> QED BY <1>11 DEF s

\* A character goes to the cell under the cursor, and the cursor moves on.
LEMMA StoredShown ==
  ASSUME NEW v, IsText(v), NEW i \in 0 .. Cells - 1, NEW ch, ch # Zero
  PROVE  LET s == Stored([vmem |-> v, idx |-> i], ch)
         IN  /\ IsText(s.vmem) /\ s.idx = i + 1
             /\ s = [vmem |-> s.vmem, idx |-> s.idx]
             /\ AsScreen(s.vmem, s.idx) = Abstract!Placed(AsScreen(v, i), ch)
<1> DEFINE w == [v EXCEPT ![i] = ch]
           s == Stored([vmem |-> v, idx |-> i], ch)
<1>1. s = [vmem |-> w, idx |-> i + 1] BY DEF Stored
<1>2. IsText(w) BY DEF IsText
<1>3. PICK a \in 0 .. Height - 1, b \in 0 .. Width - 1 : i = a * Width + b BY Position
<1> DEFINE R == [Rows(v) EXCEPT ![a + 1][b + 1] = ch]
<1>4. Rows(w) = R
  <2>1. ASSUME NEW r \in 1 .. Height, NEW k \in 1 .. Width
        PROVE  Seen(w[(r - 1) * Width + k - 1]) = R[r][k]
    <3> DEFINE n == (r - 1) * Width + k - 1
    <3>1. n \in 0 .. Cells - 1 BY CellAddress
    <3>2. n = i => r = a + 1 /\ k = b + 1
      <4>1. (r - 1) * Width + (k - 1) = n BY CellsRows
      <4>2. k - 1 \in 0 .. Width - 1 /\ r - 1 \in Int BY CellsRows
      <4> HIDE DEF n
      <4>3. n = i => r - 1 = a /\ k - 1 = b BY <4>1, <4>2, <1>3, SamePlace
      <4> QED BY <4>3
    <3>3. CASE r = a + 1 /\ k = b + 1
      <4>1. n = i BY <3>3, <1>3, CellsRows
      <4> HIDE DEF n
      <4>2. w[n] = ch BY <4>1, <1>2 DEF IsText
      <4>3. R[r][k] = ch BY <3>3, CellsRows DEF Rows
      <4> QED BY <4>2, <4>3 DEF Seen, n
    <3>4. CASE ~ (r = a + 1 /\ k = b + 1)
      <4>1. n # i BY <3>2, <3>4
      <4>2. w[n] = v[n] BY <4>1, <3>1 DEF IsText
      <4>3. Rows(v)[r][k] = Seen(v[n]) BY DEF Rows
      <4>4. R[r][k] = Rows(v)[r][k] BY <3>4, CellsRows DEF Rows
      <4> HIDE DEF n, w, R
      <4> QED BY <4>2, <4>3, <4>4 DEF n
    <3> QED BY <3>3, <3>4
  <2>2. R = [r \in 1 .. Height |-> [k \in 1 .. Width |-> R[r][k]]] BY CellsRows DEF Rows
  <2> HIDE DEF R, w
  <2> QED BY <2>1, <2>2 DEF Rows
<1>5. AsScreen(v, i) = [rows |-> Rows(v), row |-> a + 1, col |-> b] BY <1>3, ScreenAt
<1> DEFINE t == [rows |-> R, row |-> a + 1, col |-> b + 1]
<1>6. Abstract!Placed(AsScreen(v, i), ch) =
        IF b + 1 = Width /\ a + 1 < Height THEN Abstract!NextRow(t) ELSE t
  BY <1>5 DEF Abstract!Placed
<1> HIDE DEF w, R
<1>7. AsScreen(w, i + 1) = IF b + 1 = Width /\ a + 1 < Height THEN Abstract!NextRow(t) ELSE t
  <2>1. CASE b + 1 < Width
    <3>1. b + 1 \in 0 .. Width - 1 /\ a * Width + (b + 1) = i + 1 BY <2>1, <1>3, CellsRows
    <3>2. AsScreen(w, i + 1) = [rows |-> Rows(w), row |-> a + 1, col |-> b + 1] BY <3>1, ScreenAt
    <3> QED BY <3>2, <1>4, <2>1, CellsRows
  <2>2. CASE b + 1 = Width /\ a + 1 < Height
    <3>1. a + 1 \in 0 .. Height - 1 /\ 0 \in 0 .. Width - 1 /\ (a + 1) * Width + 0 = i + 1
      BY <2>2, <1>3, CellsRows
    <3>2. AsScreen(w, i + 1) = [rows |-> Rows(w), row |-> a + 1 + 1, col |-> 0] BY <3>1, ScreenAt, Zenon
    <3>3. Abstract!NextRow(t) = [rows |-> R, row |-> a + 1 + 1, col |-> 0]
      BY <2>2, CellsRows DEF Abstract!NextRow
    <3> QED BY <3>2, <3>3, <1>4, <2>2
  <2>3. CASE b + 1 = Width /\ a + 1 = Height
    <3>1. i + 1 = Cells BY <2>3, <1>3, CellsRows
    <3>2. AsScreen(w, Cells) = [rows |-> Rows(w), row |-> Height, col |-> Width] BY ScreenFull
    <3> QED BY <3>1, <3>2, <1>4, <2>3, CellsRows
  <2> QED BY <2>1, <2>2, <2>3, CellsRows
<1> HIDE DEF s, t
<1>8. /\ IsText(s.vmem) /\ s.idx = i + 1 /\ s = [vmem |-> s.vmem, idx |-> s.idx]
      /\ AsScreen(s.vmem, s.idx) = Abstract!Placed(AsScreen(v, i), ch)
  BY <1>1, <1>2, <1>6, <1>7
<1> QED BY <1>8 DEF s

\* The text buffer and a cursor that is not behind last, and their screen.
Board(s, last) == /\ s = [vmem |-> s.vmem, idx |-> s.idx]
                  /\ IsText(s.vmem) /\ s.idx \in 0 .. last
Screen(s) == AsScreen(s.vmem, s.idx)

\* Any character but the end of a string and of a line.
Printable(ch) == ch # Zero /\ ch # "\n"

LEMMA BoardOf == ASSUME NEW v, NEW i, NEW last, IsText(v), i \in 0 .. last
                 PROVE  LET s == [vmem |-> v, idx |-> i] IN Board(s, last) /\ Screen(s) = AsScreen(v, i)
BY DEF Board, Screen

LEMMA Scrolling ==
  ASSUME NEW s, NEW last, Board(s, last)
  PROVE  LET t == scroll_text_screen(s)
         IN  /\ Board(t, Cells - 1) /\ t.idx = (Height - 1) * Width
             /\ Screen(t) = Abstract!Scrolled(Screen(s))
<1> DEFINE t == scroll_text_screen(s)
           v == s.vmem
           i == s.idx
<1>1. s = [vmem |-> v, idx |-> i] /\ IsText(v) BY DEF Board
<1> HIDE DEF v, i, t
<1>2. t = scroll_text_screen([vmem |-> v, idx |-> i]) BY <1>1 DEF t
<1>3. /\ IsText(t.vmem) /\ t.idx = (Height - 1) * Width /\ t = [vmem |-> t.vmem, idx |-> t.idx]
      /\ AsScreen(t.vmem, t.idx) = [rows |-> Append(Tail(Rows(v)), Abstract!BlankRow), row |-> Height, col |-> 0]
  BY <1>1, <1>2, ScrollShown
<1>4. (Height - 1) * Width \in 0 .. Cells - 1 BY CellsRows
<1>5. Screen(s).rows = Rows(v) BY DEF Screen, AsScreen, Rows, v
<1>6. Screen(t) = Abstract!Scrolled(Screen(s)) BY <1>3, <1>5 DEF Abstract!Scrolled, Screen
<1>7. Board(t, Cells - 1) BY <1>3, <1>4 DEF Board
<1> QED BY <1>3, <1>6, <1>7 DEF t

LEMMA Storing ==
  ASSUME NEW s, Board(s, Cells - 1), NEW ch, ch # Zero
  PROVE  LET t == Stored(s, ch)
         IN  Board(t, Cells) /\ t.idx = s.idx + 1 /\ Screen(t) = Abstract!Placed(Screen(s), ch)
<1> DEFINE t == Stored(s, ch)
           v == s.vmem
           i == s.idx
<1>1. s = [vmem |-> v, idx |-> i] /\ IsText(v) /\ i \in 0 .. Cells - 1 BY DEF Board
<1>2. Screen(s) = AsScreen(v, i) BY DEF Screen
<1> HIDE DEF v, i, t
<1>3. t = Stored([vmem |-> v, idx |-> i], ch) BY <1>1 DEF t
<1>4. /\ IsText(t.vmem) /\ t.idx = i + 1 /\ t = [vmem |-> t.vmem, idx |-> t.idx]
      /\ AsScreen(t.vmem, t.idx) = Abstract!Placed(AsScreen(v, i), ch)
  BY <1>1, <1>3, StoredShown
<1>5. i + 1 \in 0 .. Cells BY <1>1, CellsPositive
<1>6. Board(t, Cells) /\ Screen(t) = Abstract!Placed(Screen(s), ch) BY <1>2, <1>4, <1>5 DEF Board, Screen
<1> QED BY <1>4, <1>6 DEF t, i

\* Row and column of a cursor.
LEMMA Cursor ==
  ASSUME NEW s, Board(s, Cells)
  PROVE  \/ /\ s.idx = Cells /\ Screen(s).row = Height /\ Screen(s).col = Width
         \/ \E a \in 0 .. Height - 1, b \in 0 .. Width - 1 :
              /\ s.idx = a * Width + b /\ s.idx \in 0 .. Cells - 1
              /\ Screen(s) = [rows |-> Screen(s).rows, row |-> a + 1, col |-> b]
<1>1. CASE s.idx = Cells BY <1>1, ScreenFull DEF Screen
<1>2. CASE s.idx \in 0 .. Cells - 1
  <2>1. PICK a \in 0 .. Height - 1, b \in 0 .. Width - 1 : s.idx = a * Width + b BY <1>2, Position
  <2>2. Screen(s) = [rows |-> Rows(s.vmem), row |-> a + 1, col |-> b] BY <2>1, ScreenAt DEF Screen
  <2> QED BY <1>2, <2>1, <2>2
<1> QED BY <1>1, <1>2, CellsPositive DEF Board

LEMMA PutKernel ==
  ASSUME NEW s, Board(s, Cells), NEW ch, Printable(ch)
  PROVE  Board(putc(s, ch), Cells) /\ Screen(putc(s, ch)) = Abstract!PutChar(Screen(s), ch, "kernel")
<1>1. Abstract!PutChar(Screen(s), ch, "kernel") =
        Abstract!Placed(IF Screen(s).col >= Width THEN Abstract!Scrolled(Screen(s)) ELSE Screen(s), ch)
  BY DEF Abstract!PutChar, Abstract!Usable, Printable
<1>2. CASE s.idx = Cells
  <2>1. Screen(s).col = Width BY <1>2, ScreenFull DEF Screen
  <2>2. putc(s, ch) = Stored(scroll_text_screen(s), ch) BY <1>2, CellsPositive DEF putc
  <2> DEFINE t == scroll_text_screen(s)
  <2>3. Board(t, Cells - 1) /\ Screen(t) = Abstract!Scrolled(Screen(s)) BY Scrolling
  <2> HIDE DEF t
  <2>4. Board(Stored(t, ch), Cells) /\ Screen(Stored(t, ch)) = Abstract!Placed(Screen(t), ch)
    BY <2>3, Storing DEF Printable
  <2>5. Screen(s).col >= Width BY <2>1, CellsRows
  <2> QED BY <1>1, <2>2, <2>3, <2>4, <2>5 DEF t
<1>3. CASE s.idx # Cells
  <2>1. PICK a \in 0 .. Height - 1, b \in 0 .. Width - 1 :
          /\ s.idx = a * Width + b /\ s.idx \in 0 .. Cells - 1
          /\ Screen(s) = [rows |-> Screen(s).rows, row |-> a + 1, col |-> b]
    BY <1>3, Cursor
  <2>2. putc(s, ch) = Stored(s, ch) BY <2>1, CellsPositive DEF putc
  <2>3. Board(s, Cells - 1) BY <2>1 DEF Board
  <2>4. Screen(s).col = b BY <2>1
  <2>5. ~ (Screen(s).col >= Width) BY <2>4, CellsRows
  <2>6. Board(Stored(s, ch), Cells) /\ Screen(Stored(s, ch)) = Abstract!Placed(Screen(s), ch)
    BY <2>3, Storing DEF Printable
  <2> QED BY <1>1, <2>2, <2>5, <2>6
<1> QED BY <1>2, <1>3

LEMMA PutLoader ==
  ASSUME NEW s, Board(s, Cells - 1), NEW ch, Printable(ch)
  PROVE  Board(ld_putc(s, ch), Cells - 1)
         /\ Screen(ld_putc(s, ch)) = Abstract!PutChar(Screen(s), ch, "loader")
<1>0. Board(s, Cells) /\ s.idx # Cells BY CellsPositive DEF Board
<1>1. PICK a \in 0 .. Height - 1, b \in 0 .. Width - 1 :
        /\ s.idx = a * Width + b /\ s.idx \in 0 .. Cells - 1
        /\ Screen(s) = [rows |-> Screen(s).rows, row |-> a + 1, col |-> b]
  BY <1>0, Cursor
<1>2. Screen(s).row = a + 1 /\ Screen(s).col = b BY <1>1
<1>3. Abstract!PutChar(Screen(s), ch, "loader") =
        Abstract!Placed(IF Screen(s).col >= (IF Screen(s).row = Height THEN Width - 1 ELSE Width)
                        THEN Abstract!Scrolled(Screen(s)) ELSE Screen(s), ch)
  BY DEF Abstract!PutChar, Abstract!Usable, Printable
<1>4. CASE s.idx + 1 = Cells
  <2>1. a = Height - 1 /\ b = Width - 1
    <3>1. Height - 1 \in Int /\ Width - 1 \in 0 .. Width - 1 /\ a * Width + b = (Height - 1) * Width + (Width - 1)
      BY <1>1, <1>4, CellsRows
    <3> QED BY <3>1, SamePlace
  <2>2. Screen(s).col >= (IF Screen(s).row = Height THEN Width - 1 ELSE Width) BY <1>2, <2>1, CellsRows
  <2>3. ld_putc(s, ch) = Stored(scroll_text_screen(s), ch) BY <1>4, CellsPositive DEF ld_putc
  <2> DEFINE t == scroll_text_screen(s)
  <2>4. Board(t, Cells - 1) /\ t.idx = (Height - 1) * Width /\ Screen(t) = Abstract!Scrolled(Screen(s))
    BY Scrolling
  <2> HIDE DEF t
  <2>5. /\ Board(Stored(t, ch), Cells) /\ Stored(t, ch).idx = t.idx + 1
        /\ Screen(Stored(t, ch)) = Abstract!Placed(Screen(t), ch)
    BY <2>4, Storing DEF Printable
  <2>6. t.idx + 1 \in 0 .. Cells - 1 BY <2>4, CellsRows
  <2>7. Board(Stored(t, ch), Cells - 1) BY <2>5, <2>6 DEF Board
  <2> QED BY <1>3, <2>2, <2>3, <2>4, <2>5, <2>7 DEF t
<1>5. CASE s.idx + 1 # Cells
  <2>1. ~ (Screen(s).col >= (IF Screen(s).row = Height THEN Width - 1 ELSE Width))
    <3>1. ~ (a = Height - 1 /\ b = Width - 1) BY <1>1, <1>5, CellsRows
    <3> QED BY <3>1, <1>2, CellsRows
  <2>2. ld_putc(s, ch) = Stored(s, ch) BY <1>1, <1>5, CellsPositive DEF ld_putc
  <2>3. /\ Board(Stored(s, ch), Cells) /\ Stored(s, ch).idx = s.idx + 1
        /\ Screen(Stored(s, ch)) = Abstract!Placed(Screen(s), ch)
    BY Storing DEF Printable
  <2>4. s.idx + 1 \in 0 .. Cells - 1 BY <1>1, <1>5, CellsPositive
  <2>5. Board(Stored(s, ch), Cells - 1) BY <2>3, <2>4 DEF Board
  <2> QED BY <1>3, <2>1, <2>2, <2>3, <2>5
<1> QED BY <1>4, <1>5

LEMMA NewRow ==
  ASSUME NEW s, Board(s, Cells), NEW who_
  PROVE  Board(putn(s), Cells - 1) /\ Screen(putn(s)) = Abstract!PutChar(Screen(s), "\n", who_)
<1>1. Abstract!PutChar(Screen(s), "\n", who_) = Abstract!NextRow(Screen(s)) BY DEF Abstract!PutChar
<1>2. CASE s.idx >= (Height - 1) * Width
  <2>1. Screen(s).row = Height
    <3>1. CASE s.idx = Cells BY <3>1, ScreenFull DEF Screen
    <3>2. CASE s.idx # Cells
      <4>1. PICK a \in 0 .. Height - 1, b \in 0 .. Width - 1 :
              /\ s.idx = a * Width + b /\ s.idx \in 0 .. Cells - 1
              /\ Screen(s) = [rows |-> Screen(s).rows, row |-> a + 1, col |-> b]
        BY <3>2, Cursor
      <4>2. ASSUME a < Height - 1 PROVE FALSE
        <5>1. PICK e \in Nat : Height - 1 = a + 1 + e BY <4>2, CellsRows
        <5>2. (Height - 1) * Width = a * Width + Width + e * Width BY <5>1, CellsRows
        <5>3. e * Width \in Nat /\ a * Width \in Nat BY CellsRows
        <5> QED BY <5>2, <5>3, <4>1, <1>2, CellsRows
      <4>3. a + 1 = Height BY <4>2, CellsRows
      <4> QED BY <4>1, <4>3
    <3> QED BY <3>1, <3>2
  <2>2. putn(s) = scroll_text_screen(s) BY <1>2 DEF putn
  <2> QED BY <1>1, <2>1, <2>2, Scrolling DEF Abstract!NextRow
<1>3. CASE ~ (s.idx >= (Height - 1) * Width)
  <2>1. s.idx # Cells BY <1>3, CellsRows
  <2>2. PICK a \in 0 .. Height - 1, b \in 0 .. Width - 1 :
          /\ s.idx = a * Width + b /\ s.idx \in 0 .. Cells - 1
          /\ Screen(s) = [rows |-> Screen(s).rows, row |-> a + 1, col |-> b]
    BY <2>1, Cursor
  <2>3. a # Height - 1 BY <1>3, <2>2, CellsRows
  <2>4. s.idx % Width = b BY <2>2, RowAndColumn
  <2>5. s.idx + Width - (s.idx % Width) = (a + 1) * Width + 0 BY <2>2, <2>4, CellsRows
  <2>6. putn(s) = [vmem |-> s.vmem, idx |-> (a + 1) * Width + 0] BY <1>3, <2>5 DEF putn
  <2>7. a + 1 \in 0 .. Height - 1 /\ 0 \in 0 .. Width - 1 BY <2>3, CellsRows
  <2> DEFINE i == (a + 1) * Width + 0
  <2>8. i \in 0 .. Cells - 1 /\ AsScreen(s.vmem, i) = [rows |-> Rows(s.vmem), row |-> a + 1 + 1, col |-> 0]
    BY <2>7, ScreenAt, Zenon
  <2>9. putn(s) = [vmem |-> s.vmem, idx |-> i] BY <2>6
  <2> HIDE DEF i
  <2>10. Screen(s).rows = Rows(s.vmem) BY DEF Screen, AsScreen, Rows
  <2>11. Abstract!NextRow(Screen(s)) = [rows |-> Rows(s.vmem), row |-> a + 1 + 1, col |-> 0]
    <3>1. Screen(s).row = a + 1 BY <2>2
    <3>2. a + 1 # Height BY <2>3, CellsRows
    <3> QED BY <3>1, <3>2, <2>10 DEF Abstract!NextRow
  <2>12. Board(putn(s), Cells - 1) /\ Screen(putn(s)) = AsScreen(s.vmem, i)
    <3>1. IsText(s.vmem) BY DEF Board
    <3> QED BY <3>1, <2>8, <2>9 DEF Board, Screen
  <2> QED BY <1>1, <2>8, <2>11, <2>12
<1> QED BY <1>2, <1>3, CellsRows

-----------------------------------------------------------------------------
\* Folds: a text and a format string, character by character.

\* A set of positions that is not empty has a last one.
LEMMA LastOne ==
  ASSUME NEW n \in Nat, NEW q \in SUBSET (1 .. n), q # {}
  PROVE  Max(q) \in q /\ \A y \in q : Max(q) >= y
<1> DEFINE T == {n - x : x \in q}
<1>0. \A y \in q : y \in Nat /\ n - y \in Nat OBVIOUS
<1>1. T \in SUBSET Nat /\ T # {} BY <1>0
<1>2. PICK t \in T : \A y \in T : t <= y
  <2> HIDE DEF T
  <2> QED BY <1>1, Least
<1>3. PICK x \in q : t = n - x BY <1>2
<1>4. \A y \in q : x >= y
  <2> SUFFICES ASSUME NEW y \in q PROVE x >= y OBVIOUS
  <2>1. n - x <= n - y BY <1>2, <1>3
  <2> QED BY <2>1, <1>0
<1> QED BY <1>4 DEF Max

LEMMA Front1 ==
  ASSUME NEW k \in Nat, NEW q \in SUBSET (1 .. k + 1), ~ (q \subseteq 1 .. k)
  PROVE  Max(q) = k + 1 /\ q # {} /\ q \ {Max(q)} \subseteq 1 .. k
<1>1. k + 1 \in q OBVIOUS
<1>0. k + 1 \in Nat OBVIOUS
<1>2. Max(q) \in q /\ \A y \in q : Max(q) >= y BY <1>0, <1>1, LastOne
<1>4. Max(q) \in 1 .. k + 1 /\ Max(q) >= k + 1 BY <1>1, <1>2
<1>3. Max(q) = k + 1 BY <1>4
<1> QED BY <1>1, <1>3

\* The function FoldLeft is defined with exists; on the first k positions it is ...
ShowEquation(it, s, text, w, n) ==
  it = [q \in SUBSET (1 .. n) |->
          IF q = {} THEN s ELSE Abstract!PutChar(it[q \ {Max(q)}], text[Max(q)], w)]

LEMMA ShowExists ==
  ASSUME NEW s, NEW text, NEW w, NEW n \in Nat
  PROVE  \E it : ShowEquation(it, s, text, w, n)
<1> DEFINE E(f, q) == IF q = {} THEN s ELSE Abstract!PutChar(f[q \ {Max(q)}], text[Max(q)], w)
           T == {k \in Nat : \E f : f = [q \in SUBSET (1 .. k) |-> E(f, q)]}
<1>1. 0 \in T
  <2> DEFINE f == [q \in SUBSET (1 .. 0) |-> s]
  <2>1. \A q \in SUBSET (1 .. 0) : q = {} OBVIOUS
  <2>2. f = [q \in SUBSET (1 .. 0) |-> E(f, q)] BY <2>1
  <2> QED BY <2>2
<1>2. ASSUME NEW k \in T PROVE k + 1 \in T
  <2>1. PICK f : f = [q \in SUBSET (1 .. k) |-> E(f, q)] BY <1>2
  <2> DEFINE g == [q \in SUBSET (1 .. k + 1) |->
                     IF q \subseteq 1 .. k THEN f[q] ELSE E(f, q)]
  <2>2. ASSUME NEW q \in SUBSET (1 .. k + 1) PROVE g[q] = E(g, q)
    <3>1. CASE q \subseteq 1 .. k
      <4>1. g[q] = E(f, q) BY <2>1, <3>1
      <4>2. q # {} => q \ {Max(q)} \subseteq 1 .. k BY <3>1
      <4>3. q # {} => g[q \ {Max(q)}] = f[q \ {Max(q)}] BY <4>2
      <4> HIDE DEF g
      <4> QED BY <4>1, <4>3
    <3>2. CASE ~ (q \subseteq 1 .. k)
      <4>1. q # {} /\ q \ {Max(q)} \subseteq 1 .. k BY <3>2, Front1
      <4>2. g[q] = E(f, q) BY <3>2
      <4>3. g[q \ {Max(q)}] = f[q \ {Max(q)}] BY <4>1
      <4> HIDE DEF g
      <4> QED BY <4>1, <4>2, <4>3
    <3> QED BY <3>1, <3>2
  <2>3. g = [q \in SUBSET (1 .. k + 1) |-> g[q]] OBVIOUS
  <2> HIDE DEF g, E
  <2>4. g = [q \in SUBSET (1 .. k + 1) |-> E(g, q)] BY <2>2, <2>3
  <2> QED BY <2>4
<1>3. T = Nat
  <2> HIDE DEF T
  <2>1. T \in SUBSET Nat BY DEF T
  <2> QED BY <1>1, <1>2, <2>1, Successors
<1>4. n \in T BY <1>3
<1> QED BY <1>4 DEF ShowEquation

LEMMA Prefixing ==
  ASSUME NEW n \in Nat, NEW k \in 1 .. n
  PROVE  1 .. k # {} /\ Max(1 .. k) = k /\ (1 .. k) \ {k} = 1 .. (k - 1)
<1>1. k \in 1 .. k /\ k \in Nat OBVIOUS
<1> DEFINE q == 1 .. k
<1>2. q \in SUBSET (1 .. k) /\ q # {} BY <1>1
<1> HIDE DEF q
<1>3. Max(q) \in q /\ \A y \in q : Max(q) >= y BY <1>1, <1>2, LastOne
<1>4. Max(1 .. k) \in 1 .. k /\ Max(1 .. k) >= k BY <1>1, <1>3 DEF q
<1> QED BY <1>1, <1>4

\* F leads from screen to screen through the text.
ShowPath(F, s, text, w, n) ==
  /\ F[0] = s /\ Abstract!Show(s, text, w) = F[n]
  /\ \A k \in 1 .. n : F[k] = Abstract!PutChar(F[k - 1], text[k], w)

LEMMA ShowSteps ==
  ASSUME NEW s, NEW text, NEW w, NEW n \in Nat, DOMAIN text = 1 .. n
  PROVE  \E F : ShowPath(F, s, text, w, n)
<1> DEFINE it == CHOOSE it : ShowEquation(it, s, text, w, n)
           F == [k \in 0 .. n |-> it[1 .. k]]
<1>1. ShowEquation(it, s, text, w, n) BY ShowExists
<1>2. Abstract!Show(s, text, w) = it[1 .. n]
  BY DEF ShowEquation, Abstract!Show, Abstract!FoldLeft, Abstract!MapThenFoldSet, Abstract!Max, Max
<1> HIDE DEF it
<1>3. F[n] = it[1 .. n] OBVIOUS
<1>4. F[0] = s
  <2>1. 1 .. 0 = {} OBVIOUS
  <2>2. it[{}] = s BY <1>1 DEF ShowEquation
  <2> QED BY <2>1, <2>2
<1>5. ASSUME NEW k \in 1 .. n PROVE F[k] = Abstract!PutChar(F[k - 1], text[k], w)
  <2>1. 1 .. k # {} /\ Max(1 .. k) = k /\ (1 .. k) \ {k} = 1 .. (k - 1) BY Prefixing
  <2>2. 1 .. k \in SUBSET (1 .. n) OBVIOUS
  <2>3. it[1 .. k] = Abstract!PutChar(it[1 .. (k - 1)], text[k], w) BY <1>1, <2>1, <2>2 DEF ShowEquation
  <2>4. F[k] = it[1 .. k] /\ F[k - 1] = it[1 .. (k - 1)] OBVIOUS
  <2> QED BY <2>3, <2>4
<1> HIDE DEF F
<1>6. ShowPath(F, s, text, w, n) BY <1>2, <1>3, <1>4, <1>5 DEF ShowPath
<1> QED BY <1>6

LEMMA ShowNothing == ASSUME NEW s, NEW w PROVE Abstract!Show(s, <<>>, w) = s
<1>1. DOMAIN <<>> = 1 .. 0 /\ 0 \in Nat OBVIOUS
<1>2. PICK F : F[0] = s /\ Abstract!Show(s, <<>>, w) = F[0] BY <1>1, ShowSteps DEF ShowPath
<1> QED BY <1>2

LEMMA ShowJoined ==
  ASSUME NEW s, NEW S, NEW a \in Seq(S), NEW b \in Seq(S), NEW w
  PROVE  Abstract!Show(s, a \o b, w) = Abstract!Show(Abstract!Show(s, a, w), b, w)
<1> DEFINE m == Len(a)
           n == Len(b)
           ab == a \o b
<1>1. m \in Nat /\ n \in Nat /\ DOMAIN a = 1 .. m /\ DOMAIN b = 1 .. n BY LenProperties
<1>2. /\ ab \in Seq(S) /\ Len(ab) = m + n
      /\ \A i \in 1 .. m + n : ab[i] = IF i <= m THEN a[i] ELSE b[i - m]
  BY ConcatProperties
<1>3. DOMAIN ab = 1 .. m + n BY <1>2, LenProperties
<1> HIDE DEF m, n, ab
<1>4. PICK F : ShowPath(F, s, ab, w, m + n)
  <2>1. m + n \in Nat BY <1>1
  <2> QED BY <2>1, <1>3, ShowSteps
<1>5. PICK G : ShowPath(G, s, a, w, m) BY <1>1, ShowSteps
<1>6. PICK H : ShowPath(H, G[m], b, w, n) BY <1>1, ShowSteps
<1>7. F[m] = G[m]
  <2> DEFINE T == {k \in Nat : k <= m => F[k] = G[k]}
  <2>1. 0 \in T BY <1>4, <1>5 DEF ShowPath
  <2>2. ASSUME NEW k \in T PROVE k + 1 \in T
    <3> SUFFICES ASSUME k + 1 <= m PROVE F[k + 1] = G[k + 1] OBVIOUS
    <3>1. k + 1 \in 1 .. m /\ k + 1 \in 1 .. m + n /\ k + 1 - 1 = k BY <1>1
    <3>2. F[k] = G[k] BY <1>1
    <3>3. ab[k + 1] = a[k + 1] BY <1>2, <3>1
    <3>4. F[k + 1] = Abstract!PutChar(F[k], ab[k + 1], w) BY <1>4, <3>1 DEF ShowPath
    <3>5. G[k + 1] = Abstract!PutChar(G[k], a[k + 1], w) BY <1>5, <3>1 DEF ShowPath
    <3> QED BY <3>2, <3>3, <3>4, <3>5
  <2> HIDE DEF T
  <2>3. T = Nat
    <3>1. T \in SUBSET Nat BY DEF T
    <3> QED BY <2>1, <2>2, <3>1, Successors
  <2> QED BY <2>3, <1>1 DEF T
<1>8. F[m + n] = H[n]
  <2> DEFINE T == {k \in Nat : k <= n => F[m + k] = H[k]}
  <2>1. 0 \in T BY <1>1, <1>6, <1>7 DEF ShowPath
  <2>2. ASSUME NEW k \in T PROVE k + 1 \in T
    <3> SUFFICES ASSUME k + 1 <= n PROVE F[m + (k + 1)] = H[k + 1] OBVIOUS
    <3>1. k + 1 \in 1 .. n /\ k + 1 - 1 = k BY <1>1
    <3>2. F[m + k] = H[k] BY <1>1
    <3>3. PICK j \in 1 .. m + n : /\ j = m + (k + 1) /\ j - 1 = m + k /\ ~ (j <= m) /\ j - m = k + 1
      BY <1>1, <3>1
    <3>4. ab[j] = b[k + 1] BY <1>2, <3>3
    <3>5. F[j] = Abstract!PutChar(F[j - 1], ab[j], w) BY <1>4 DEF ShowPath
    <3>6. H[k + 1] = Abstract!PutChar(H[k], b[k + 1], w) BY <1>6, <3>1 DEF ShowPath
    <3>7. F[j] = H[k + 1] BY <3>2, <3>3, <3>4, <3>5, <3>6
    <3> QED BY <3>3, <3>7
  <2> HIDE DEF T
  <2>3. T = Nat
    <3>1. T \in SUBSET Nat BY DEF T
    <3> QED BY <2>1, <2>2, <3>1, Successors
  <2> QED BY <2>3, <1>1 DEF T
<1> QED BY <1>4, <1>5, <1>6, <1>8 DEF ab, ShowPath

LEMMA ShowOne == ASSUME NEW s, NEW ch, NEW w PROVE Abstract!Show(s, <<ch>>, w) = Abstract!PutChar(s, ch, w)
<1> DEFINE text == <<ch>>
<1>1. DOMAIN text = 1 .. 1 /\ 1 \in Nat /\ text[1] = ch OBVIOUS
<1> HIDE DEF text
<1>2. PICK F : ShowPath(F, s, text, w, 1) BY <1>1, ShowSteps
<1>3. F[1] = Abstract!PutChar(F[1 - 1], text[1], w) BY <1>2 DEF ShowPath
<1>4. 1 - 1 = 0 OBVIOUS
<1> QED BY <1>1, <1>2, <1>3, <1>4 DEF text, ShowPath

PutAll(s, text) == FoldLeft(ld_putc, s, text)

WordEquation(it, s, text, n) ==
  it = [q \in SUBSET (1 .. n) |->
          IF q = {} THEN s ELSE ld_putc(it[q \ {Max(q)}], text[Max(q)])]

LEMMA WordExists ==
  ASSUME NEW s, NEW text, NEW n \in Nat
  PROVE  \E it : WordEquation(it, s, text, n)
<1> DEFINE E(f, q) == IF q = {} THEN s ELSE ld_putc(f[q \ {Max(q)}], text[Max(q)])
           T == {k \in Nat : \E f : f = [q \in SUBSET (1 .. k) |-> E(f, q)]}
<1>1. 0 \in T
  <2> DEFINE f == [q \in SUBSET (1 .. 0) |-> s]
  <2>1. \A q \in SUBSET (1 .. 0) : q = {} OBVIOUS
  <2>2. f = [q \in SUBSET (1 .. 0) |-> E(f, q)] BY <2>1
  <2> QED BY <2>2
<1>2. ASSUME NEW k \in T PROVE k + 1 \in T
  <2>1. PICK f : f = [q \in SUBSET (1 .. k) |-> E(f, q)] BY <1>2
  <2> DEFINE g == [q \in SUBSET (1 .. k + 1) |->
                     IF q \subseteq 1 .. k THEN f[q] ELSE E(f, q)]
  <2>2. ASSUME NEW q \in SUBSET (1 .. k + 1) PROVE g[q] = E(g, q)
    <3>1. CASE q \subseteq 1 .. k
      <4>1. g[q] = E(f, q) BY <2>1, <3>1
      <4>2. q # {} => q \ {Max(q)} \subseteq 1 .. k BY <3>1
      <4>3. q # {} => g[q \ {Max(q)}] = f[q \ {Max(q)}] BY <4>2
      <4> HIDE DEF g
      <4> QED BY <4>1, <4>3
    <3>2. CASE ~ (q \subseteq 1 .. k)
      <4>1. q # {} /\ q \ {Max(q)} \subseteq 1 .. k BY <3>2, Front1
      <4>2. g[q] = E(f, q) BY <3>2
      <4>3. g[q \ {Max(q)}] = f[q \ {Max(q)}] BY <4>1
      <4> HIDE DEF g
      <4> QED BY <4>1, <4>2, <4>3
    <3> QED BY <3>1, <3>2
  <2>3. g = [q \in SUBSET (1 .. k + 1) |-> g[q]] OBVIOUS
  <2> HIDE DEF g, E
  <2>4. g = [q \in SUBSET (1 .. k + 1) |-> E(g, q)] BY <2>2, <2>3
  <2> QED BY <2>4
<1>3. T = Nat
  <2> HIDE DEF T
  <2>1. T \in SUBSET Nat BY DEF T
  <2> QED BY <1>1, <1>2, <2>1, Successors
<1>4. n \in T BY <1>3
<1> QED BY <1>4 DEF WordEquation

\* F leads from screen to screen through the text.
WordPath(F, s, text, n) ==
  /\ F[0] = s /\ PutAll(s, text) = F[n]
  /\ \A k \in 1 .. n : F[k] = ld_putc(F[k - 1], text[k])

LEMMA WordSteps ==
  ASSUME NEW s, NEW text, NEW n \in Nat, DOMAIN text = 1 .. n
  PROVE  \E F : WordPath(F, s, text, n)
<1> DEFINE it == CHOOSE it : WordEquation(it, s, text, n)
           F == [k \in 0 .. n |-> it[1 .. k]]
<1>1. WordEquation(it, s, text, n) BY WordExists
<1>2. PutAll(s, text) = it[1 .. n]
  BY DEF WordEquation, PutAll, FoldLeft, MapThenFoldSet, Max
<1> HIDE DEF it
<1>3. F[n] = it[1 .. n] OBVIOUS
<1>4. F[0] = s
  <2>1. 1 .. 0 = {} OBVIOUS
  <2>2. it[{}] = s BY <1>1 DEF WordEquation
  <2> QED BY <2>1, <2>2
<1>5. ASSUME NEW k \in 1 .. n PROVE F[k] = ld_putc(F[k - 1], text[k])
  <2>1. 1 .. k # {} /\ Max(1 .. k) = k /\ (1 .. k) \ {k} = 1 .. (k - 1) BY Prefixing
  <2>2. 1 .. k \in SUBSET (1 .. n) OBVIOUS
  <2>3. it[1 .. k] = ld_putc(it[1 .. (k - 1)], text[k]) BY <1>1, <2>1, <2>2 DEF WordEquation
  <2>4. F[k] = it[1 .. k] /\ F[k - 1] = it[1 .. (k - 1)] OBVIOUS
  <2> QED BY <2>3, <2>4
<1> HIDE DEF F
<1>6. WordPath(F, s, text, n) BY <1>2, <1>3, <1>4, <1>5 DEF WordPath
<1> QED BY <1>6

Run(s, text) == FoldLeft(LdChar, s, text)

RunEquation(it, s, text, n) ==
  it = [q \in SUBSET (1 .. n) |->
          IF q = {} THEN s ELSE LdChar(it[q \ {Max(q)}], text[Max(q)])]

LEMMA RunExists ==
  ASSUME NEW s, NEW text, NEW n \in Nat
  PROVE  \E it : RunEquation(it, s, text, n)
<1> DEFINE E(f, q) == IF q = {} THEN s ELSE LdChar(f[q \ {Max(q)}], text[Max(q)])
           T == {k \in Nat : \E f : f = [q \in SUBSET (1 .. k) |-> E(f, q)]}
<1>1. 0 \in T
  <2> DEFINE f == [q \in SUBSET (1 .. 0) |-> s]
  <2>1. \A q \in SUBSET (1 .. 0) : q = {} OBVIOUS
  <2>2. f = [q \in SUBSET (1 .. 0) |-> E(f, q)] BY <2>1
  <2> QED BY <2>2
<1>2. ASSUME NEW k \in T PROVE k + 1 \in T
  <2>1. PICK f : f = [q \in SUBSET (1 .. k) |-> E(f, q)] BY <1>2
  <2> DEFINE g == [q \in SUBSET (1 .. k + 1) |->
                     IF q \subseteq 1 .. k THEN f[q] ELSE E(f, q)]
  <2>2. ASSUME NEW q \in SUBSET (1 .. k + 1) PROVE g[q] = E(g, q)
    <3>1. CASE q \subseteq 1 .. k
      <4>1. g[q] = E(f, q) BY <2>1, <3>1
      <4>2. q # {} => q \ {Max(q)} \subseteq 1 .. k BY <3>1
      <4>3. q # {} => g[q \ {Max(q)}] = f[q \ {Max(q)}] BY <4>2
      <4> HIDE DEF g
      <4> QED BY <4>1, <4>3
    <3>2. CASE ~ (q \subseteq 1 .. k)
      <4>1. q # {} /\ q \ {Max(q)} \subseteq 1 .. k BY <3>2, Front1
      <4>2. g[q] = E(f, q) BY <3>2
      <4>3. g[q \ {Max(q)}] = f[q \ {Max(q)}] BY <4>1
      <4> HIDE DEF g
      <4> QED BY <4>1, <4>2, <4>3
    <3> QED BY <3>1, <3>2
  <2>3. g = [q \in SUBSET (1 .. k + 1) |-> g[q]] OBVIOUS
  <2> HIDE DEF g, E
  <2>4. g = [q \in SUBSET (1 .. k + 1) |-> E(g, q)] BY <2>2, <2>3
  <2> QED BY <2>4
<1>3. T = Nat
  <2> HIDE DEF T
  <2>1. T \in SUBSET Nat BY DEF T
  <2> QED BY <1>1, <1>2, <2>1, Successors
<1>4. n \in T BY <1>3
<1> QED BY <1>4 DEF RunEquation

\* F leads from screen to screen through the text.
RunPath(F, s, text, n) ==
  /\ F[0] = s /\ Run(s, text) = F[n]
  /\ \A k \in 1 .. n : F[k] = LdChar(F[k - 1], text[k])

LEMMA RunSteps ==
  ASSUME NEW s, NEW text, NEW n \in Nat, DOMAIN text = 1 .. n
  PROVE  \E F : RunPath(F, s, text, n)
<1> DEFINE it == CHOOSE it : RunEquation(it, s, text, n)
           F == [k \in 0 .. n |-> it[1 .. k]]
<1>1. RunEquation(it, s, text, n) BY RunExists
<1>2. Run(s, text) = it[1 .. n]
  BY DEF RunEquation, Run, FoldLeft, MapThenFoldSet, Max
<1> HIDE DEF it
<1>3. F[n] = it[1 .. n] OBVIOUS
<1>4. F[0] = s
  <2>1. 1 .. 0 = {} OBVIOUS
  <2>2. it[{}] = s BY <1>1 DEF RunEquation
  <2> QED BY <2>1, <2>2
<1>5. ASSUME NEW k \in 1 .. n PROVE F[k] = LdChar(F[k - 1], text[k])
  <2>1. 1 .. k # {} /\ Max(1 .. k) = k /\ (1 .. k) \ {k} = 1 .. (k - 1) BY Prefixing
  <2>2. 1 .. k \in SUBSET (1 .. n) OBVIOUS
  <2>3. it[1 .. k] = LdChar(it[1 .. (k - 1)], text[k]) BY <1>1, <2>1, <2>2 DEF RunEquation
  <2>4. F[k] = it[1 .. k] /\ F[k - 1] = it[1 .. (k - 1)] OBVIOUS
  <2> QED BY <2>3, <2>4
<1> HIDE DEF F
<1>6. RunPath(F, s, text, n) BY <1>2, <1>3, <1>4, <1>5 DEF RunPath
<1> QED BY <1>6

LEMMA RunJoined ==
  ASSUME NEW s, NEW S, NEW a \in Seq(S), NEW b \in Seq(S)
  PROVE  Run(s, a \o b) = Run(Run(s, a), b)
<1> DEFINE m == Len(a)
           n == Len(b)
           ab == a \o b
<1>1. m \in Nat /\ n \in Nat /\ DOMAIN a = 1 .. m /\ DOMAIN b = 1 .. n BY LenProperties
<1>2. /\ ab \in Seq(S) /\ Len(ab) = m + n
      /\ \A i \in 1 .. m + n : ab[i] = IF i <= m THEN a[i] ELSE b[i - m]
  BY ConcatProperties
<1>3. DOMAIN ab = 1 .. m + n BY <1>2, LenProperties
<1> HIDE DEF m, n, ab
<1>4. PICK F : RunPath(F, s, ab, m + n)
  <2>1. m + n \in Nat BY <1>1
  <2> QED BY <2>1, <1>3, RunSteps
<1>5. PICK G : RunPath(G, s, a, m) BY <1>1, RunSteps
<1>6. PICK H : RunPath(H, G[m], b, n) BY <1>1, RunSteps
<1>7. F[m] = G[m]
  <2> DEFINE T == {k \in Nat : k <= m => F[k] = G[k]}
  <2>1. 0 \in T BY <1>4, <1>5 DEF RunPath
  <2>2. ASSUME NEW k \in T PROVE k + 1 \in T
    <3> SUFFICES ASSUME k + 1 <= m PROVE F[k + 1] = G[k + 1] OBVIOUS
    <3>1. k + 1 \in 1 .. m /\ k + 1 \in 1 .. m + n /\ k + 1 - 1 = k BY <1>1
    <3>2. F[k] = G[k] BY <1>1
    <3>3. ab[k + 1] = a[k + 1] BY <1>2, <3>1
    <3>4. F[k + 1] = LdChar(F[k], ab[k + 1]) BY <1>4, <3>1 DEF RunPath
    <3>5. G[k + 1] = LdChar(G[k], a[k + 1]) BY <1>5, <3>1 DEF RunPath
    <3> QED BY <3>2, <3>3, <3>4, <3>5
  <2> HIDE DEF T
  <2>3. T = Nat
    <3>1. T \in SUBSET Nat BY DEF T
    <3> QED BY <2>1, <2>2, <3>1, Successors
  <2> QED BY <2>3, <1>1 DEF T
<1>8. F[m + n] = H[n]
  <2> DEFINE T == {k \in Nat : k <= n => F[m + k] = H[k]}
  <2>1. 0 \in T BY <1>1, <1>6, <1>7 DEF RunPath
  <2>2. ASSUME NEW k \in T PROVE k + 1 \in T
    <3> SUFFICES ASSUME k + 1 <= n PROVE F[m + (k + 1)] = H[k + 1] OBVIOUS
    <3>1. k + 1 \in 1 .. n /\ k + 1 - 1 = k BY <1>1
    <3>2. F[m + k] = H[k] BY <1>1
    <3>3. PICK j \in 1 .. m + n : /\ j = m + (k + 1) /\ j - 1 = m + k /\ ~ (j <= m) /\ j - m = k + 1
      BY <1>1, <3>1
    <3>4. ab[j] = b[k + 1] BY <1>2, <3>3
    <3>5. F[j] = LdChar(F[j - 1], ab[j]) BY <1>4 DEF RunPath
    <3>6. H[k + 1] = LdChar(H[k], b[k + 1]) BY <1>6, <3>1 DEF RunPath
    <3>7. F[j] = H[k + 1] BY <3>2, <3>3, <3>4, <3>5, <3>6
    <3> QED BY <3>3, <3>7
  <2> HIDE DEF T
  <2>3. T = Nat
    <3>1. T \in SUBSET Nat BY DEF T
    <3> QED BY <2>1, <2>2, <3>1, Successors
  <2> QED BY <2>3, <1>1 DEF T
<1> QED BY <1>4, <1>5, <1>6, <1>8 DEF ab, RunPath

-----------------------------------------------------------------------------
\* A call is its pieces, joined.

LEMMA FlatOne == ASSUME NEW S, NEW x \in Seq(S)
                 PROVE FlattenSeq(<<x>>) = x /\ FlattenSeq(<<>>) = <<>>
<1>1. <<x>> \in Seq(Seq(S)) /\ Len(<<x>>) = 1 /\ <<x>>[1] = x OBVIOUS
<1>2. PICK F : FlatPath(F, <<x>>, 1) BY <1>1, FlatSteps
<1>3. F[1] = Cat(F[1 - 1], <<x>>[1]) /\ 1 - 1 = 0 BY <1>2 DEF FlatPath
<1>4. FlattenSeq(<<x>>) = Cat(<<>>, x) BY <1>1, <1>2, <1>3 DEF FlatPath
<1>5. Cat(<<>>, x) = x BY CatNothing
<1>6. FlattenSeq(<<>>) = <<>> BY DEF FlattenSeq
<1> QED BY <1>4, <1>5, <1>6

LEMMA FlatJoined ==
  ASSUME NEW S, NEW a \in Seq(Seq(S)), NEW b \in Seq(Seq(S))
  PROVE  /\ FlattenSeq(a \o b) = FlattenSeq(a) \o FlattenSeq(b)
         /\ FlattenSeq(a) \in Seq(S)
<1> DEFINE m == Len(a)
           n == Len(b)
           ab == a \o b
<1>1. m \in Nat /\ n \in Nat /\ (\A i \in 1 .. m : a[i] \in Seq(S)) /\ (\A i \in 1 .. n : b[i] \in Seq(S))
  BY LenProperties, ElementOfSeq
<1>2. /\ ab \in Seq(Seq(S)) /\ Len(ab) = m + n
      /\ \A i \in 1 .. m + n : ab[i] = IF i <= m THEN a[i] ELSE b[i - m]
  BY ConcatProperties
<1>3. (\E F : FlatPath(F, ab, Len(ab))) /\ (\E G : FlatPath(G, a, m)) /\ (\E H : FlatPath(H, b, n))
  <2> HIDE DEF ab
  <2> QED BY <1>2, FlatSteps
<1>4. PICK F : FlatPath(F, ab, m + n) BY <1>2, <1>3
<1>5. PICK G : FlatPath(G, a, m) BY <1>3
<1>6. PICK H : FlatPath(H, b, n) BY <1>3
<1>7. (\A k \in 0 .. m : G[k] \in Seq(S)) /\ (\A k \in 0 .. n : H[k] \in Seq(S))
  BY <1>5, <1>6, FlatTyped
<1> HIDE DEF m, n, ab
<1>8. F[m] = G[m]
  <2> DEFINE T == {k \in Nat : k <= m => F[k] = G[k]}
  <2>1. 0 \in T BY <1>4, <1>5 DEF FlatPath
  <2>2. ASSUME NEW k \in T PROVE k + 1 \in T
    <3> SUFFICES ASSUME k + 1 <= m PROVE F[k + 1] = G[k + 1] OBVIOUS
    <3>1. k + 1 \in 1 .. m /\ k + 1 \in 1 .. m + n /\ k + 1 - 1 = k BY <1>1
    <3>2. F[k] = G[k] BY <1>1
    <3>3. ab[k + 1] = a[k + 1] BY <1>2, <3>1
    <3>4. F[k + 1] = Cat(F[k], ab[k + 1]) BY <1>4, <3>1 DEF FlatPath
    <3>5. G[k + 1] = Cat(G[k], a[k + 1]) BY <1>5, <3>1 DEF FlatPath
    <3> QED BY <3>2, <3>3, <3>4, <3>5
  <2> HIDE DEF T
  <2>3. T = Nat
    <3>1. T \in SUBSET Nat BY DEF T
    <3> QED BY <2>1, <2>2, <3>1, Successors
  <2> QED BY <2>3, <1>1 DEF T
<1>9. F[m + n] = Cat(G[m], H[n])
  <2> DEFINE T == {k \in Nat : k <= n => F[m + k] = Cat(G[m], H[k])}
  <2>1. 0 \in T
    <3>1. Cat(G[m], <<>>) = G[m]
      <4>1. PICK x \in Seq(S) : x = G[m] BY <1>1, <1>7
      <4>2. Cat(x, <<>>) = x BY CatNothing
      <4> QED BY <4>1, <4>2
    <3>2. m + 0 = m BY <1>1
    <3>3. H[0] = <<>> BY <1>6 DEF FlatPath
    <3> QED BY <3>1, <3>2, <3>3, <1>8
  <2>2. ASSUME NEW k \in T PROVE k + 1 \in T
    <3> SUFFICES ASSUME k + 1 <= n PROVE F[m + (k + 1)] = Cat(G[m], H[k + 1]) OBVIOUS
    <3>1. k + 1 \in 1 .. n /\ k + 1 - 1 = k /\ k \in 0 .. n BY <1>1
    <3>2. F[m + k] = Cat(G[m], H[k]) BY <1>1
    <3>3. PICK i \in 1 .. m + n : /\ i = m + (k + 1) /\ i - 1 = m + k /\ ~ (i <= m) /\ i - m = k + 1
      BY <1>1, <3>1
    <3>4. ab[i] = b[k + 1] BY <1>2, <3>3
    <3>5. F[i] = Cat(F[i - 1], ab[i]) BY <1>4 DEF FlatPath
    <3>6. H[k + 1] = Cat(H[k], b[k + 1]) BY <1>6, <3>1 DEF FlatPath
    <3>7. Cat(Cat(G[m], H[k]), b[k + 1]) = Cat(G[m], Cat(H[k], b[k + 1]))
      <4>1. G[m] \in Seq(S) /\ H[k] \in Seq(S) /\ b[k + 1] \in Seq(S) BY <1>1, <1>7, <3>1
      <4>2. PICK x \in Seq(S), y \in Seq(S), z \in Seq(S) : x = G[m] /\ y = H[k] /\ z = b[k + 1] BY <4>1
      <4>3. Cat(Cat(x, y), z) = Cat(x, Cat(y, z)) BY CatAssociative
      <4> QED BY <4>2, <4>3
    <3>8. F[i] = Cat(G[m], H[k + 1]) BY <3>2, <3>3, <3>4, <3>5, <3>6, <3>7
    <3> QED BY <3>3, <3>8
  <2> HIDE DEF T
  <2>3. T = Nat
    <3>1. T \in SUBSET Nat BY DEF T
    <3> QED BY <2>1, <2>2, <3>1, Successors
  <2> QED BY <2>3, <1>1 DEF T
<1>10. m \in 0 .. m BY <1>1
<1> QED BY <1>4, <1>5, <1>6, <1>7, <1>9, <1>10 DEF ab, FlatPath, Cat

\* Console's FlattenSeq is the same.
LEMMA SameFlatten == ASSUME NEW seqs PROVE Abstract!FlattenSeq(seqs) = FlattenSeq(seqs)
BY DEF FlattenSeq, Abstract!FlattenSeq

\* Numbers.  The sixteen digits, and that both programs write a number with
\* the digits that a reader expects.
Shades == {Symbols[i] : i \in 1 .. 16}

LEMMA DigitFacts ==
  /\ Abstract!Digit = Symbols
  /\ \A i \in 0 .. 15 : Symbols[i + 1] \in Shades
  /\ "0" \in Shades /\ Symbols[1] = "0"
  /\ \A ch \in Shades : Printable(ch)
<1>1. Abstract!Digit = Symbols BY DEF Abstract!Digit, Symbols
<1>2. \A i \in 0 .. 15 : Symbols[i + 1] \in Shades
  <2>1. \A i \in 0 .. 15 : i + 1 \in 1 .. 16 OBVIOUS
  <2> QED BY <2>1 DEF Shades
<1>3. Symbols[1] = "0" BY DEF Symbols
<1>4. "0" \in Shades BY <1>2, <1>3
<1>5. \A i \in 1 .. 16 : Symbols[i] # "" /\ Symbols[i] # "\n"
  <2>1. /\ Symbols[1] = "0"
        /\ Symbols[2] = "1"
        /\ Symbols[3] = "2"
        /\ Symbols[4] = "3"
        /\ Symbols[5] = "4"
        /\ Symbols[6] = "5"
        /\ Symbols[7] = "6"
        /\ Symbols[8] = "7"
        /\ Symbols[9] = "8"
        /\ Symbols[10] = "9"
        /\ Symbols[11] = "a"
        /\ Symbols[12] = "b"
        /\ Symbols[13] = "c"
        /\ Symbols[14] = "d"
        /\ Symbols[15] = "e"
        /\ Symbols[16] = "f"
    BY DEF Symbols
  <2>2. \A i \in 1 .. 16 : \/ i = 1 \/ i = 2 \/ i = 3 \/ i = 4 \/ i = 5 \/ i = 6 \/ i = 7 \/ i = 8
                            \/ i = 9 \/ i = 10 \/ i = 11 \/ i = 12 \/ i = 13 \/ i = 14 \/ i = 15 \/ i = 16 OBVIOUS
  <2> QED BY <2>1, <2>2
<1>6. \A ch \in Shades : Printable(ch) BY <1>5 DEF Shades, Printable, Zero
<1> QED BY <1>1, <1>2, <1>3, <1>4, <1>6

LEMMA ReverseFront ==
  ASSUME NEW S, NEW x \in S, NEW s \in Seq(S)
  PROVE  /\ Reverse(s) \in Seq(S)
         /\ Reverse(<<x>> \o s) = Append(Reverse(s), x)
<1> DEFINE n == Len(s)
           r == Reverse(s)
           u == <<x>> \o s
           a == Append(r, x)
           b == Reverse(u)
<1>1. n \in Nat /\ \A i \in 1 .. n : s[i] \in S BY LenProperties, ElementOfSeq
<1>2. r = [i \in 1 .. n |-> s[(n - i) + 1]] BY DEF Reverse
<1>3. <<x>> \in Seq(S) /\ Len(<<x>>) = 1 /\ <<x>>[1] = x OBVIOUS
<1>4. /\ u \in Seq(S) /\ Len(u) = 1 + n
      /\ \A i \in 1 .. 1 + n : u[i] = IF i <= 1 THEN <<x>>[i] ELSE s[i - 1]
  BY <1>3, ConcatProperties
<1> HIDE DEF u, n
<1>5. b = [i \in 1 .. 1 + n |-> u[((1 + n) - i) + 1]]
  <2> DEFINE R(q) == [i \in 1 .. q |-> u[(q - i) + 1]]
  <2>1. b = R(Len(u)) BY DEF Reverse
  <2>2. Len(u) = 1 + n BY <1>4
  <2> HIDE DEF b, R
  <2>3. b = R(1 + n) BY <2>1, <2>2
  <2> QED BY <2>3 DEF R
<1> HIDE DEF r, b
<1>6. r \in Seq(S) /\ Len(r) = n
  <2>1. \A i \in 1 .. n : s[(n - i) + 1] \in S
    <3>1. \A i \in 1 .. n : (n - i) + 1 \in 1 .. n BY <1>1
    <3> QED BY <3>1, <1>1
  <2>2. r \in [1 .. n -> S] BY <2>1, <1>2
  <2> QED BY <2>2, <1>1
<1>7. b \in Seq(S) /\ Len(b) = 1 + n
  <2>0. \A i \in 1 .. 1 + n : u[i] \in S BY <1>4, ElementOfSeq
  <2>1. \A i \in 1 .. 1 + n : u[((1 + n) - i) + 1] \in S
    <3>1. \A i \in 1 .. 1 + n : ((1 + n) - i) + 1 \in 1 .. 1 + n BY <1>1
    <3> QED BY <3>1, <2>0
  <2>2. b \in [1 .. 1 + n -> S] BY <2>1, <1>5
  <2>3. 1 + n \in Nat BY <1>1
  <2> QED BY <2>2, <2>3
<1>8. /\ a \in Seq(S) /\ Len(a) = n + 1
      /\ (\A i \in 1 .. n : a[i] = r[i]) /\ a[n + 1] = x
  <2>1. /\ a \in Seq(S) /\ Len(a) = Len(r) + 1
        /\ (\A i \in 1 .. Len(r) : a[i] = r[i]) /\ a[Len(r) + 1] = x
    BY <1>6, AppendProperties
  <2> HIDE DEF a
  <2> QED BY <1>6, <2>1
<1> HIDE DEF a
<1>9. ASSUME NEW i \in 1 .. Len(a) PROVE a[i] = b[i]
  <2>1. PICK k \in 1 .. 1 + n : k = ((1 + n) - i) + 1 /\ b[i] = u[k]
    <3>1. i \in 1 .. 1 + n /\ ((1 + n) - i) + 1 \in 1 .. 1 + n BY <1>8, <1>1
    <3> QED BY <3>1, <1>5
  <2>2. CASE i = n + 1
    <3>1. k = 1 BY <2>1, <2>2, <1>1
    <3>2. u[1] = <<x>>[1]
      <4>1. 1 \in 1 .. 1 + n /\ 1 <= 1 BY <1>1
      <4> QED BY <4>1, <1>4
    <3>3. b[i] = x BY <3>1, <3>2, <2>1, <1>3
    <3>4. a[i] = x BY <2>2, <1>8
    <3> QED BY <3>3, <3>4
  <2>3. CASE i # n + 1
    <3>1. i \in 1 .. n /\ ~ (k <= 1) /\ k - 1 = (n - i) + 1 BY <2>1, <2>3, <1>8, <1>1
    <3>2. a[i] = s[(n - i) + 1] BY <3>1, <1>2, <1>8
    <3> QED BY <3>1, <3>2, <2>1, <1>4
  <2> QED BY <2>2, <2>3
<1>10. Len(a) = Len(b) BY <1>1, <1>7, <1>8
<1>11. a = b BY <1>7, <1>8, <1>9, <1>10, SeqEqual
<1> QED BY <1>6, <1>11 DEF a, b, r, u

\* The last digit of a number, and the rest of it.
Quotient(n, base) == n \div base
Rest(n, base) == n % base

Divided(n, base) ==
  /\ Rest(n, base) \in 0 .. 15 /\ Quotient(n, base) \in 0 .. n
  /\ n # 0 => Quotient(n, base) < n
  /\ n < base => Quotient(n, base) = 0 /\ Rest(n, base) = n
  /\ ~ (n < base) => Quotient(n, base) # 0 /\ n # 0

LEMMA Division == ASSUME NEW base \in {10, 16}, NEW n \in Nat PROVE Divided(n, base)
<1>1. CASE base = 10
  <2>1. /\ n % 10 \in 0 .. 15 /\ n \div 10 \in 0 .. n /\ (n # 0 => n \div 10 < n)
        /\ (n < 10 => n \div 10 = 0 /\ n % 10 = n) /\ (n >= 10 => n \div 10 > 0)
    OBVIOUS
  <2> QED BY <1>1, <2>1 DEF Quotient, Rest, Divided
<1>2. CASE base = 16
  <2>1. /\ n % 16 \in 0 .. 15 /\ n \div 16 \in 0 .. n /\ (n # 0 => n \div 16 < n)
        /\ (n < 16 => n \div 16 = 0 /\ n % 16 = n) /\ (n >= 16 => n \div 16 > 0)
    OBVIOUS
  <2> QED BY <1>2, <2>1 DEF Quotient, Rest, Divided
<1> QED BY <1>1, <1>2

BufEquation(f, d, base) ==
  f = [n \in 0 .. d |-> IF n = 0 THEN <<>> ELSE <<Symbols[Rest(n, base) + 1]>> \o f[Quotient(n, base)]]
DigEquation(f, d, base) ==
  f = [n \in 0 .. d |-> IF n < base THEN <<Symbols[n + 1]>>
                        ELSE Append(f[Quotient(n, base)], Symbols[Rest(n, base) + 1])]

LEMMA BufExists ==
  ASSUME NEW base \in {10, 16}, NEW d \in Nat PROVE \E f : BufEquation(f, d, base)
<1> DEFINE E(f, n) == IF n = 0 THEN <<>> ELSE <<Symbols[Rest(n, base) + 1]>> \o f[Quotient(n, base)]
           T == {k \in Nat : \E f : f = [n \in 0 .. k |-> E(f, n)]}
<1>1. 0 \in T
  <2> DEFINE f == [n \in 0 .. 0 |-> <<>>]
  <2>1. \A n \in 0 .. 0 : n = 0 OBVIOUS
  <2>2. f = [n \in 0 .. 0 |-> E(f, n)] BY <2>1
  <2> QED BY <2>2
<1>2. ASSUME NEW k \in T PROVE k + 1 \in T
  <2>1. PICK f : f = [n \in 0 .. k |-> E(f, n)] BY <1>2
  <2> DEFINE g == [n \in 0 .. k + 1 |-> IF n \in 0 .. k THEN f[n] ELSE E(f, n)]
  <2>2. ASSUME NEW n \in 0 .. k + 1 PROVE g[n] = E(g, n)
    <3>1. n # 0 => Quotient(n, base) \in 0 .. k /\ Quotient(n, base) \in 0 .. k + 1
      <4>0. n \in Nat BY <1>2
      <4>1. Divided(n, base) BY <4>0, Division, Zenon
      <4> QED BY <4>1 DEF Divided
    <3>2. n # 0 => g[Quotient(n, base)] = f[Quotient(n, base)] BY <3>1
    <3>3. g[n] = E(f, n) BY <2>1
    <3> HIDE DEF g
    <3> QED BY <3>2, <3>3
  <2>3. g = [n \in 0 .. k + 1 |-> g[n]] OBVIOUS
  <2> HIDE DEF g, E
  <2>4. g = [n \in 0 .. k + 1 |-> E(g, n)] BY <2>2, <2>3
  <2> QED BY <2>4
<1>3. T = Nat
  <2> HIDE DEF T
  <2>1. T \in SUBSET Nat BY DEF T
  <2> QED BY <1>1, <1>2, <2>1, Successors
<1>4. d \in T BY <1>3
<1> QED BY <1>4 DEF BufEquation

LEMMA DigExists ==
  ASSUME NEW base \in {10, 16}, NEW d \in Nat PROVE \E f : DigEquation(f, d, base)
<1> DEFINE E(f, n) == IF n < base THEN <<Symbols[n + 1]>>
                      ELSE Append(f[Quotient(n, base)], Symbols[Rest(n, base) + 1])
           T == {k \in Nat : \E f : f = [n \in 0 .. k |-> E(f, n)]}
<1>1. 0 \in T
  <2> DEFINE f == [n \in 0 .. 0 |-> <<Symbols[n + 1]>>]
  <2>1. \A n \in 0 .. 0 : n < base OBVIOUS
  <2>2. f = [n \in 0 .. 0 |-> E(f, n)] BY <2>1
  <2> QED BY <2>2
<1>2. ASSUME NEW k \in T PROVE k + 1 \in T
  <2>1. PICK f : f = [n \in 0 .. k |-> E(f, n)] BY <1>2
  <2> DEFINE g == [n \in 0 .. k + 1 |-> IF n \in 0 .. k THEN f[n] ELSE E(f, n)]
  <2>2. ASSUME NEW n \in 0 .. k + 1 PROVE g[n] = E(g, n)
    <3>1. ~ (n < base) => Quotient(n, base) \in 0 .. k /\ Quotient(n, base) \in 0 .. k + 1
      <4>0. n \in Nat BY <1>2
      <4>1. Divided(n, base) BY <4>0, Division, Zenon
      <4> QED BY <4>1 DEF Divided
    <3>2. ~ (n < base) => g[Quotient(n, base)] = f[Quotient(n, base)] BY <3>1
    <3>3. g[n] = E(f, n) BY <2>1
    <3> HIDE DEF g
    <3> QED BY <3>2, <3>3
  <2>3. g = [n \in 0 .. k + 1 |-> g[n]] OBVIOUS
  <2> HIDE DEF g, E
  <2>4. g = [n \in 0 .. k + 1 |-> E(g, n)] BY <2>2, <2>3
  <2> QED BY <2>4
<1>3. T = Nat
  <2> HIDE DEF T
  <2>1. T \in SUBSET Nat BY DEF T
  <2> QED BY <1>1, <1>2, <2>1, Successors
<1>4. d \in T BY <1>3
<1> QED BY <1>4 DEF DigEquation

LEMMA Numbers ==
  ASSUME NEW base \in {10, 16}, NEW d \in Nat
  PROVE  /\ Buffered(d, base) = Abstract!Digits(d, base)
         /\ Buffered(d, base) \in Seq(Shades)
<1> DEFINE f == CHOOSE f : BufEquation(f, d, base)
           g == CHOOSE g : DigEquation(g, d, base)
<1>1. BufEquation(f, d, base) BY BufExists
<1>2. DigEquation(g, d, base) BY DigExists
<1>3. Buffered(d, base) = Reverse(IF d = 0 THEN <<"0">> ELSE f[d])
  BY DEF Buffered, BufEquation, Rest, Quotient
<1>4. Abstract!Digits(d, base) = g[d]
  BY DigitFacts DEF Abstract!Digits, DigEquation, Rest, Quotient
<1> HIDE DEF f, g
<1> DEFINE Good(n) == f[n] \in Seq(Shades) /\ Reverse(f[n]) = g[n]
           Bad == {n \in 1 .. d : ~ Good(n)}
<1>5. ASSUME Bad # {} PROVE FALSE
  <2>1. PICK n \in 1 .. d : ~ Good(n) /\ \A k \in Bad : n <= k
    <3>1. Bad \in SUBSET Nat OBVIOUS
    <3>2. \E n \in Bad : \A k \in Bad : n <= k
      <4> HIDE DEF Bad
      <4> QED BY <1>5, <3>1, Least
    <3> QED BY <3>2
  <2>2. n \in 1 .. d /\ n \in Nat /\ n \in 0 .. d /\ n # 0 /\ ~ Good(n) BY <2>1
  <2> DEFINE q == Quotient(n, base)
             x == Symbols[Rest(n, base) + 1]
  <2>3. /\ q \in 0 .. n /\ q < n /\ Rest(n, base) \in 0 .. 15
        /\ (n < base => q = 0 /\ Rest(n, base) = n) /\ (~ (n < base) => q # 0)
    <3>1. Divided(n, base) BY <2>2, Division, Zenon
    <3> QED BY <2>2, <3>1 DEF Divided
  <2>4. x \in Shades BY <2>3, DigitFacts
  <2> HIDE DEF Bad
  <2>5. q # 0 => Good(q)
    <3> HIDE DEF Good, q
    <3> QED BY <2>1, <2>2, <2>3 DEF Bad
  <2>6. f[n] = <<x>> \o f[q] BY <1>1, <2>2 DEF BufEquation
  <2>7. g[n] = IF n < base THEN <<Symbols[n + 1]>> ELSE Append(g[q], x) BY <1>2, <2>2 DEF DigEquation
  <2>8. f[0] = <<>> BY <1>1 DEF BufEquation
  <2> HIDE DEF q, x
  <2>9. CASE n < base
    <3>1. f[q] = <<>> /\ <<>> \in Seq(Shades) BY <2>3, <2>8, <2>9
    <3>2. PICK s \in Seq(Shades) : s = f[q] /\ s = <<>> BY <3>1
    <3>3. Reverse(<<x>> \o s) = Append(Reverse(s), x) BY <2>4, ReverseFront
    <3>4. <<x>> \o s \in Seq(Shades) BY <2>4, ConcatProperties
    <3>5. Reverse(s) = <<>> BY <3>2 DEF Reverse
    <3>6. Append(<<>>, x) = <<x>> OBVIOUS
    <3>7. x = Symbols[n + 1] BY <2>3, <2>9 DEF x
    <3> QED BY <2>2, <2>6, <2>7, <2>9, <3>2, <3>3, <3>4, <3>5, <3>6, <3>7
  <2>10. CASE ~ (n < base)
    <3>1. Good(q) BY <2>3, <2>5, <2>10
    <3>2. PICK s \in Seq(Shades) : s = f[q] /\ Reverse(s) = g[q] BY <3>1
    <3>3. Reverse(<<x>> \o s) = Append(Reverse(s), x) BY <2>4, ReverseFront
    <3>4. <<x>> \o s \in Seq(Shades) BY <2>4, ConcatProperties
    <3> QED BY <2>2, <2>6, <2>7, <2>10, <3>2, <3>3, <3>4
  <2> QED BY <2>9, <2>10
<1>6. CASE d = 0
  <2>1. g[0] = <<"0">> BY <1>2, <1>6, DigitFacts DEF DigEquation
  <2>2. Reverse(<<"0">>) = <<"0">>
    <3>1. Reverse(<<>>) = <<>> /\ <<>> \in Seq(Shades) /\ "0" \in Shades BY DigitFacts DEF Reverse
    <3>2. Reverse(<<"0">> \o <<>>) = Append(Reverse(<<>>), "0") BY <3>1, ReverseFront
    <3> QED BY <3>1, <3>2
  <2>3. <<"0">> \in Seq(Shades) BY DigitFacts
  <2> QED BY <1>3, <1>4, <1>6, <2>1, <2>2, <2>3
<1>7. CASE d # 0
  <2>1. Good(d) BY <1>5, <1>7
  <2>2. PICK s \in Seq(Shades) : s = f[d] /\ Reverse(s) = g[d] BY <2>1
  <2>3. Reverse(s) \in Seq(Shades) BY <2>2, DigitFacts, ReverseFront
  <2> QED BY <1>3, <1>4, <1>7, <2>2, <2>3
<1> QED BY <1>6, <1>7

\* A call's pieces, one after the other.  G says what a piece stands for.
Flat(G, call) == FlattenSeq([i \in DOMAIN call |-> G[call[i]]])

LEMMA Mapping ==
  ASSUME NEW R, NEW S, NEW G \in [R -> Seq(S)], NEW a \in Seq(R)
  PROVE  [i \in DOMAIN a |-> G[a[i]]] \in Seq(Seq(S))
<1> DEFINE n == Len(a)
           g == [i \in DOMAIN a |-> G[a[i]]]
<1>1. n \in Nat /\ DOMAIN a = 1 .. n /\ \A i \in 1 .. n : a[i] \in R BY LenProperties, ElementOfSeq
<1> HIDE DEF n
<1>2. g \in [1 .. n -> Seq(S)] BY <1>1
<1> HIDE DEF g
<1>3. g \in Seq(Seq(S)) BY <1>1, <1>2
<1> QED BY <1>3 DEF g

LEMMA Flattened ==
  ASSUME NEW R, NEW S, NEW G \in [R -> Seq(S)], NEW a \in Seq(R), NEW b \in Seq(R)
  PROVE  /\ Flat(G, a) \in Seq(S)
         /\ Flat(G, a \o b) = Flat(G, a) \o Flat(G, b)
<1> DEFINE m == Len(a)
           n == Len(b)
           ab == a \o b
           ga == [i \in DOMAIN a |-> G[a[i]]]
           gb == [i \in DOMAIN b |-> G[b[i]]]
           gab == [i \in DOMAIN ab |-> G[ab[i]]]
           g == ga \o gb
<1>1. /\ m \in Nat /\ DOMAIN a = 1 .. m /\ n \in Nat /\ DOMAIN b = 1 .. n
      /\ (\A i \in 1 .. m : a[i] \in R) /\ (\A i \in 1 .. n : b[i] \in R)
  BY LenProperties, ElementOfSeq
<1>2. ga \in Seq(Seq(S)) /\ gb \in Seq(Seq(S)) BY Mapping
<1>3. /\ ab \in Seq(R) /\ Len(ab) = m + n
      /\ \A i \in 1 .. m + n : ab[i] = IF i <= m THEN a[i] ELSE b[i - m]
  BY ConcatProperties
<1>4. DOMAIN ab = 1 .. m + n BY <1>3, LenProperties
<1>5. gab \in Seq(Seq(S))
  <2> HIDE DEF ab
  <2> QED BY <1>3, Mapping
<1> HIDE DEF m, n, ab
<1>6. ga = [i \in 1 .. m |-> G[a[i]]] /\ gb = [i \in 1 .. n |-> G[b[i]]] /\ gab = [i \in 1 .. m + n |-> G[ab[i]]]
  BY <1>1, <1>4
<1> HIDE DEF ga, gb, gab
<1>7. Len(ga) = m /\ Len(gb) = n /\ Len(gab) = m + n
  <2>1. DOMAIN ga = 1 .. Len(ga) /\ Len(ga) \in Nat /\ DOMAIN gb = 1 .. Len(gb) /\ Len(gb) \in Nat BY <1>2, LenProperties
  <2>2. DOMAIN gab = 1 .. Len(gab) /\ Len(gab) \in Nat BY <1>5, LenProperties
  <2> QED BY <2>1, <2>2, <1>1, <1>6
<1>8. /\ g \in Seq(Seq(S)) /\ Len(g) = m + n
      /\ \A i \in 1 .. m + n : g[i] = IF i <= m THEN ga[i] ELSE gb[i - m]
  BY <1>2, <1>7, ConcatProperties
<1> HIDE DEF g
<1>9. ASSUME NEW i \in 1 .. Len(g) PROVE g[i] = gab[i]
  <2>1. i \in 1 .. m + n BY <1>8
  <2>2. CASE i <= m
    <3>1. i \in 1 .. m BY <2>1, <2>2, <1>1
    <3> QED BY <3>1, <2>1, <2>2, <1>3, <1>6, <1>8
  <2>3. CASE ~ (i <= m)
    <3>1. i - m \in 1 .. n BY <2>1, <2>3, <1>1
    <3> QED BY <3>1, <2>1, <2>3, <1>3, <1>6, <1>8
  <2> QED BY <2>2, <2>3
<1>10. g = gab BY <1>5, <1>7, <1>8, <1>9, SeqEqual
<1>11. FlattenSeq(ga \o gb) = FlattenSeq(ga) \o FlattenSeq(gb) /\ FlattenSeq(ga) \in Seq(S)
  BY <1>2, FlatJoined
<1> QED BY <1>10, <1>11 DEF Flat, g, ga, gb, gab, ab

LEMMA FlattenedOne ==
  ASSUME NEW R, NEW S, NEW G \in [R -> Seq(S)], NEW p \in R
  PROVE  Flat(G, <<p>>) = G[p] /\ Flat(G, <<>>) = <<>>
<1>1. [i \in DOMAIN <<p>> |-> G[<<p>>[i]]] = <<G[p]>> OBVIOUS
<1>2. [i \in DOMAIN <<>> |-> G[<<>>[i]]] = <<>> OBVIOUS
<1>3. G[p] \in Seq(S) OBVIOUS
<1>4. PICK x \in Seq(S) : x = G[p] BY <1>3
<1>5. FlattenSeq(<<x>>) = x /\ FlattenSeq(<<>>) = <<>> BY FlatOne
<1> QED BY <1>1, <1>2, <1>4, <1>5 DEF Flat

\* What is written of a piece and what is shown of it, for the pieces R.
Spell(R, w) == [p \in R |-> Spelled(p, w)]
Given(R)    == [p \in R |-> IF p.kind \in Directives THEN <<p.v>> ELSE <<>>]
Reading(R)  == [p \in R |-> Abstract!Shown(p)]

LEMMA AsFlat ==
  ASSUME NEW R, NEW call \in Seq(R), NEW w
  PROVE  /\ Pattern(call, w) = Flat(Spell(R, w), call)
         /\ Arguments(call) = Flat(Given(R), call)
         /\ Abstract!Text(call) = Flat(Reading(R), call)
<1>1. \A i \in DOMAIN call : call[i] \in R BY LenProperties, ElementOfSeq
<1>2. [i \in DOMAIN call |-> Spelled(call[i], w)] = [i \in DOMAIN call |-> Spell(R, w)[call[i]]]
  BY <1>1 DEF Spell
<1>3. [i \in DOMAIN call |-> IF call[i].kind \in Directives THEN <<call[i].v>> ELSE <<>>]
      = [i \in DOMAIN call |-> Given(R)[call[i]]]
  BY <1>1 DEF Given
<1>4. [i \in DOMAIN call |-> Abstract!Shown(call[i])] = [i \in DOMAIN call |-> Reading(R)[call[i]]]
  BY <1>1 DEF Reading
<1> QED BY <1>2, <1>3, <1>4, SameFlatten DEF Flat, Pattern, Arguments, Abstract!Text

\* The characters of the calls.  Only a newline is not printable.
Tint(R) == Shades \cup {"-", "x", " ", "%", "\n"} \cup {p.v : p \in R} \cup UNION {Range(p.v) : p \in R}
Ink(R)  == {ch \in Tint(R) : Printable(ch)}
Letter(R) == {"\n", "\t", "%", "c", "s", "d", "u", "x", "l"} \cup {p.v : p \in R}

Nat64 == 0 .. Word - 1

LEMMA Residue ==
  /\ \A v \in Int : v % Word \in Nat
  /\ \A v \in Nat64 : v % Word = v
<1>1. Word \in Nat \ {0} BY CallAssumption
<1>2. ASSUME NEW v \in Int PROVE v % Word \in Nat BY <1>1
<1>3. ASSUME NEW v \in Nat64 PROVE v % Word = v BY <1>1 DEF Nat64
<1> QED BY <1>2, <1>3

LEMMA Decimal ==
  ASSUME NEW v \in Int
  PROVE  print_decimal(v) = Abstract!Digits(v % Word, 10) /\ print_decimal(v) \in Seq(Shades)
<1>1. PICK d \in Nat : d = v % Word BY Residue
<1>2. 10 \in {10, 16} OBVIOUS
<1>3. Buffered(d, 10) = Abstract!Digits(d, 10) /\ Buffered(d, 10) \in Seq(Shades) BY <1>2, Numbers
<1> QED BY <1>1, <1>3 DEF print_decimal

LEMMA Hexadecimal ==
  ASSUME NEW v \in Int
  PROVE  /\ print_hex(v) = <<"0", "x">> \o Abstract!Digits(v % Word, 16)
         /\ print_hex(v) \in Seq(Shades \cup {"x"})
<1>1. PICK d \in Nat : d = v % Word BY Residue
<1>2. 16 \in {10, 16} OBVIOUS
<1>3. Buffered(d, 16) = Abstract!Digits(d, 16) /\ Buffered(d, 16) \in Seq(Shades) BY <1>2, Numbers
<1>4. PICK s \in Seq(Shades) : s = Buffered(d, 16) BY <1>3
<1>5. s \in Seq(Shades \cup {"x"}) BY SeqMonotonic
<1>6. <<"0", "x">> \in Seq(Shades \cup {"x"}) BY DigitFacts
<1>7. <<"0", "x">> \o s \in Seq(Shades \cup {"x"}) BY <1>5, <1>6, ConcatProperties
<1> QED BY <1>1, <1>3, <1>4, <1>7 DEF print_hex

LEMMA MinusHex == <<"-">> \o <<"0", "x">> = <<"-", "0", "x">>
<1> DEFINE a == <<"-">>
           b == <<"0", "x">>
           e == <<"-", "0", "x">>
           q == a \o b
<1>1. a \in Seq({"-", "0", "x"}) /\ Len(a) = 1 /\ a[1] = "-" OBVIOUS
<1>2. b \in Seq({"-", "0", "x"}) /\ Len(b) = 2 /\ b[1] = "0" /\ b[2] = "x" OBVIOUS
<1>3. e \in Seq({"-", "0", "x"}) /\ Len(e) = 3 /\ e[1] = "-" /\ e[2] = "0" /\ e[3] = "x" OBVIOUS
<1> HIDE DEF a, b, e
<1>4. /\ q \in Seq({"-", "0", "x"}) /\ Len(q) = 1 + 2
      /\ \A i \in 1 .. 1 + 2 : q[i] = IF i <= 1 THEN a[i] ELSE b[i - 1]
  BY <1>1, <1>2, ConcatProperties
<1> HIDE DEF q
<1>5. q[1] = "-" /\ q[2] = "0" /\ q[3] = "x"
  <2>1. 1 \in 1 .. 1 + 2 /\ 2 \in 1 .. 1 + 2 /\ 3 \in 1 .. 1 + 2 /\ 2 - 1 = 1 /\ 3 - 1 = 2 OBVIOUS
  <2>2. q[1] = a[1] /\ q[2] = b[2 - 1] /\ q[3] = b[3 - 1] BY <2>1, <1>4
  <2> QED BY <2>1, <2>2, <1>1, <1>2
<1>6. \A i \in 1 .. Len(q) : q[i] = e[i]
  <2>1. \A i \in 1 .. Len(q) : i = 1 \/ i = 2 \/ i = 3 BY <1>4
  <2> QED BY <2>1, <1>3, <1>5
<1>7. Len(q) = Len(e) BY <1>3, <1>4
<1>8. q = e BY <1>3, <1>4, <1>6, <1>7, SeqEqual
<1> QED BY <1>8 DEF q, a, b, e

\* A number for %ld or %lx.
LEMMA Signed ==
  ASSUME NEW v \in 1 - Word .. Word - 1, NEW u \in BOOLEAN, u => v >= 0
  PROVE  /\ print_num(v, u, FALSE) =
              IF v < 0 THEN <<"-">> \o Abstract!Digits(-v, 10) ELSE Abstract!Digits(v, 10)
         /\ print_num(v, u, TRUE) =
              IF v < 0 THEN <<"-", "0", "x">> \o Abstract!Digits(-v, 16)
              ELSE <<"0", "x">> \o Abstract!Digits(v, 16)
         /\ print_num(v, u, FALSE) \in Seq(Shades \cup {"-", "x"})
         /\ print_num(v, u, TRUE) \in Seq(Shades \cup {"-", "x"})
<1> DEFINE S == Shades \cup {"-", "x"}
<1>0. Word \in Nat \ {0} BY CallAssumption
<1>1. PICK n \in Nat64 : n = IF v < 0 THEN -v ELSE v BY <1>0 DEF Nat64
<1>2. n \in Int /\ n % Word = n BY <1>0, Residue DEF Nat64
<1>3. print_decimal(n) = Abstract!Digits(n, 10) /\ print_decimal(n) \in Seq(Shades) BY <1>2, Decimal
<1>4. print_hex(n) = <<"0", "x">> \o Abstract!Digits(n, 16) /\ print_hex(n) \in Seq(Shades \cup {"x"})
  BY <1>2, Hexadecimal
<1>5. PICK ds \in Seq(Shades) : ds = print_decimal(n) BY <1>3
<1>6. PICK hs \in Seq(Shades \cup {"x"}) : hs = print_hex(n) BY <1>4
<1>7. ds \in Seq(S) /\ hs \in Seq(S) BY SeqMonotonic
<1>8. <<"-">> \in Seq(S) /\ <<>> \in Seq(S) OBVIOUS
<1>9. /\ <<"-">> \o ds \in Seq(S) /\ <<"-">> \o hs \in Seq(S)
      /\ <<>> \o ds = ds /\ <<>> \o hs = hs
  <2> HIDE DEF S
  <2> QED BY <1>7, <1>8, ConcatProperties, ConcatEmptySeq
<1>10. PICK ls \in Seq(Shades) : ls = Abstract!Digits(n, 16)
  <2>1. Buffered(n, 16) = Abstract!Digits(n, 16) /\ Buffered(n, 16) \in Seq(Shades)
    <3>1. 16 \in {10, 16} /\ n \in Nat BY DEF Nat64
    <3> QED BY <3>1, Numbers
  <2> QED BY <2>1
<1>11. <<"-">> \o (<<"0", "x">> \o ls) = <<"-", "0", "x">> \o ls
  <2>1. ls \in Seq(S) /\ <<"0", "x">> \in Seq(S) BY SeqMonotonic, DigitFacts
  <2>2. <<"-">> \o <<"0", "x">> = <<"-", "0", "x">> BY MinusHex
  <2> HIDE DEF S
  <2>3. (<<"-">> \o <<"0", "x">>) \o ls = <<"-">> \o (<<"0", "x">> \o ls) BY <1>8, <2>1, ConcatAssociative
  <2> QED BY <2>2, <2>3
<1>12. CASE v < 0
  <2>1. ~u /\ n = -v BY <1>1, <1>12
  <2>2. print_num(v, u, FALSE) = <<"-">> \o print_decimal(n) /\ print_num(v, u, TRUE) = <<"-">> \o print_hex(n)
    BY <2>1, <1>12 DEF print_num
  <2> QED BY <2>1, <2>2, <1>3, <1>4, <1>5, <1>6, <1>9, <1>10, <1>11, <1>12
<1>13. CASE ~ (v < 0)
  <2>1. n = v BY <1>1, <1>13
  <2>2. print_num(v, u, FALSE) = <<>> \o print_decimal(n) /\ print_num(v, u, TRUE) = <<>> \o print_hex(n)
    BY <2>1, <1>13 DEF print_num
  <2> QED BY <2>1, <2>2, <1>3, <1>4, <1>5, <1>6, <1>7, <1>9, <1>13
<1> QED BY <1>12, <1>13

\* A number for %lud.
LEMMA Unsigned ==
  ASSUME NEW v \in Int
  PROVE  /\ print_num(v, TRUE, FALSE) = Abstract!Digits(v % Word, 10)
         /\ print_num(v, TRUE, FALSE) \in Seq(Shades)
<1>1. print_decimal(v) = Abstract!Digits(v % Word, 10) /\ print_decimal(v) \in Seq(Shades) BY Decimal
<1>2. PICK s \in Seq(Shades) : s = print_decimal(v) BY <1>1
<1>3. <<>> \o s = s BY ConcatEmptySeq
<1>4. print_num(v, TRUE, FALSE) = <<>> \o print_decimal(v) BY DEF print_num
<1> QED BY <1>1, <1>2, <1>3, <1>4

\* The pieces of a call of printk.
Single == {"lit", "newline", "tab"}
Double == {"percent", "char", "str", "int", "hex"}
\* The letter after the '%' or the 'l'.
Sign(p) == CASE p.kind = "percent" -> "%" [] p.kind = "char" -> "c" [] p.kind = "str" -> "s"
             [] p.kind \in {"int", "unsigned", "long", "unsignedlong"} -> "d"
             [] p.kind \in {"hex", "longhex"} -> "x"
Mark(p) == CASE p.kind = "lit" -> p.v [] p.kind = "newline" -> "\n" [] p.kind = "tab" -> "\t"

LEMMA Kinds ==
  ASSUME NEW p, FitsKernel(p)
  PROVE  \/ p.kind \in Single /\ Spelled(p, "kernel") = <<Mark(p)>>
         \/ p.kind \in Double /\ Spelled(p, "kernel") = <<"%", Sign(p)>>
         \/ p.kind = "unsigned" /\ Spelled(p, "kernel") = <<"%", "u", "d">>
         \/ p.kind \in {"long", "longhex"} /\ Spelled(p, "kernel") = <<"%", "l", Sign(p)>>
         \/ p.kind = "unsignedlong" /\ Spelled(p, "kernel") = <<"%", "l", "u", "d">>
<1>1. CASE p.kind = "lit" BY <1>1 DEF Spelled, Mark, Single
<1>2. CASE p.kind = "newline" BY <1>2 DEF Spelled, Mark, Single
<1>3. CASE p.kind = "tab" BY <1>3 DEF Spelled, Mark, Single
<1>4. CASE p.kind = "percent" BY <1>4 DEF Spelled, Sign, Double
<1>5. CASE p.kind = "char" BY <1>5 DEF Spelled, Sign, Double
<1>6. CASE p.kind = "str" BY <1>6 DEF Spelled, Sign, Double
<1>7. CASE p.kind = "int" BY <1>7 DEF Spelled, Sign, Double
<1>8. CASE p.kind = "hex" BY <1>8 DEF Spelled, Sign, Double
<1>9. CASE p.kind = "unsigned" BY <1>9 DEF Spelled
<1>10. CASE p.kind = "long" BY <1>10 DEF Spelled, Sign
<1>11. CASE p.kind = "longhex" BY <1>11 DEF Spelled, Sign
<1>12. CASE p.kind = "unsignedlong" BY <1>12 DEF Spelled
<1> QED BY <1>1, <1>2, <1>3, <1>4, <1>5, <1>6, <1>7, <1>8, <1>9, <1>10, <1>11, <1>12 DEF FitsKernel, FitsLoader

LEMMA Tuple1 == ASSUME NEW S, NEW a \in S
                PROVE <<>> \in Seq(S) /\ <<a>> \in Seq(S) /\ Len(<<a>>) = 1
OBVIOUS
LEMMA Tuple2 == ASSUME NEW S, NEW a \in S, NEW b \in S
                PROVE <<a, b>> \in Seq(S) /\ Len(<<a, b>>) = 2
OBVIOUS
LEMMA Tuple3 == ASSUME NEW S, NEW a \in S, NEW b \in S, NEW k \in S
                PROVE <<a, b, k>> \in Seq(S) /\ Len(<<a, b, k>>) = 3
OBVIOUS
LEMMA Tuple4 == ASSUME NEW S, NEW a \in S, NEW b \in S, NEW k \in S, NEW d \in S
                PROVE <<a, b, k, d>> \in Seq(S) /\ Len(<<a, b, k, d>>) = 4
OBVIOUS

LEMMA SpelledTyped ==
  ASSUME NEW R, NEW p \in R, FitsKernel(p)
  PROVE  /\ Spelled(p, "kernel") \in Seq(Letter(R)) /\ Len(Spelled(p, "kernel")) \in 1 .. 4
         /\ Given(R)[p] \in Seq({q.v : q \in R})
<1> DEFINE L == Letter(R)
<1>1. /\ p.kind \in Single => Mark(p) \in L
      /\ p.kind \in Double \cup {"long", "longhex"} => Sign(p) \in L
      /\ "%" \in L /\ "l" \in L /\ "u" \in L /\ "d" \in L
  BY DEF Mark, Sign, Single, Double, Letter
<1>2. Given(R)[p] \in Seq({q.v : q \in R})
  <2>1. p.v \in {q.v : q \in R} OBVIOUS
  <2>2. Given(R)[p] = <<p.v>> \/ Given(R)[p] = <<>> BY DEF Given
  <2> DEFINE V == {q.v : q \in R}
  <2>3. PICK v \in V : v = p.v BY <2>1
  <2> HIDE DEF V
  <2>4. <<v>> \in Seq(V) /\ <<>> \in Seq(V) BY Tuple1
  <2>5. Given(R)[p] \in Seq(V) BY <2>2, <2>3, <2>4
  <2> QED BY <2>5 DEF V
<1> HIDE DEF L
<1>3. Spelled(p, "kernel") \in Seq(L) /\ Len(Spelled(p, "kernel")) \in 1 .. 4
  <2>1. CASE p.kind \in Single /\ Spelled(p, "kernel") = <<Mark(p)>>
    <3>1. PICK a \in L : a = Mark(p) BY <1>1, <2>1
    <3>2. <<a>> \in Seq(L) /\ Len(<<a>>) = 1 BY Tuple1
    <3>3. Spelled(p, "kernel") = <<a>> BY <2>1, <3>1
    <3>4. Len(Spelled(p, "kernel")) \in 1 .. 4 BY <3>2, <3>3
    <3> QED BY <3>2, <3>3, <3>4
  <2>2. CASE p.kind \in Double /\ Spelled(p, "kernel") = <<"%", Sign(p)>>
    <3>1. PICK a \in L, b \in L : a = "%" /\ b = Sign(p) BY <1>1, <2>2
    <3>2. <<a, b>> \in Seq(L) /\ Len(<<a, b>>) = 2 BY Tuple2
    <3>3. Spelled(p, "kernel") = <<a, b>> BY <2>2, <3>1
    <3>4. Len(Spelled(p, "kernel")) \in 1 .. 4 BY <3>2, <3>3
    <3> QED BY <3>2, <3>3, <3>4
  <2>3. CASE Spelled(p, "kernel") = <<"%", "u", "d">>
    <3>1. PICK a \in L, b \in L, d \in L : a = "%" /\ b = "u" /\ d = "d" BY <1>1, <2>3
    <3>2. <<a, b, d>> \in Seq(L) /\ Len(<<a, b, d>>) = 3 BY Tuple3
    <3>3. Spelled(p, "kernel") = <<a, b, d>> BY <2>3, <3>1
    <3>4. Len(Spelled(p, "kernel")) \in 1 .. 4 BY <3>2, <3>3
    <3> QED BY <3>2, <3>3, <3>4
  <2>4. CASE p.kind \in {"long", "longhex"} /\ Spelled(p, "kernel") = <<"%", "l", Sign(p)>>
    <3>1. PICK a \in L, b \in L, d \in L : a = "%" /\ b = "l" /\ d = Sign(p) BY <1>1, <2>4
    <3>2. <<a, b, d>> \in Seq(L) /\ Len(<<a, b, d>>) = 3 BY Tuple3
    <3>3. Spelled(p, "kernel") = <<a, b, d>> BY <2>4, <3>1
    <3>4. Len(Spelled(p, "kernel")) \in 1 .. 4 BY <3>2, <3>3
    <3> QED BY <3>2, <3>3, <3>4
  <2>5. CASE Spelled(p, "kernel") = <<"%", "l", "u", "d">>
    <3>1. PICK a \in L, b \in L, d \in L, e \in L : a = "%" /\ b = "l" /\ d = "u" /\ e = "d" BY <1>1, <2>5
    <3>2. <<a, b, d, e>> \in Seq(L) /\ Len(<<a, b, d, e>>) = 4 BY Tuple4
    <3>3. Spelled(p, "kernel") = <<a, b, d, e>> BY <2>5, <3>1
    <3>4. Len(Spelled(p, "kernel")) \in 1 .. 4 BY <3>2, <3>3
    <3> QED BY <3>2, <3>3, <3>4
  <2> QED BY <2>1, <2>2, <2>3, <2>4, <2>5, Kinds
<1> QED BY <1>2, <1>3 DEF L

\* A newline shows as itself, any other piece as printable characters.
LEMMA ShownTyped ==
  ASSUME NEW R, NEW p \in R, FitsKernel(p)
  PROVE  /\ p.kind = "newline" => Abstract!Shown(p) = <<"\n">>
         /\ p.kind # "newline" => Abstract!Shown(p) \in Seq(Ink(R))
         /\ Abstract!Shown(p) \in Seq(Tint(R))
<1> DEFINE s == Abstract!Shown(p)
<1>1. Shades \subseteq Ink(R) BY DigitFacts DEF Ink, Tint
<1>2. {"-", "x", " ", "%"} \subseteq Ink(R) BY DEF Ink, Tint, Printable, Zero
<1>3. Shades \cup {"-", "x"} \subseteq Ink(R) /\ Ink(R) \subseteq Tint(R) /\ "0" \in Ink(R) /\ "\n" \in Tint(R)
  BY <1>1, <1>2, DigitFacts DEF Ink, Tint
<1>4. \A q \in Seq(Shades) : q \in Seq(Ink(R)) BY <1>1, SeqMonotonic
<1>5. \A q \in Seq(Shades \cup {"-", "x"}) : q \in Seq(Ink(R)) BY <1>3, SeqMonotonic
<1>6. \A q \in Seq(Shades \cup {"x"}) : q \in Seq(Ink(R))
  <2>1. Shades \cup {"x"} \subseteq Ink(R) BY <1>3
  <2> QED BY <2>1, SeqMonotonic
<1>7. CASE p.kind = "newline"
  <2>1. s = <<"\n">> BY <1>7 DEF Abstract!Shown
  <2>2. s \in Seq(Tint(R)) BY <2>1, <1>3, Tuple1
  <2> QED BY <1>7, <2>1, <2>2
<1>8. CASE p.kind # "newline"
  <2>8. s \in Seq(Ink(R))
    <3>1. CASE p.kind \in {"lit", "char"}
      <4>1. s = <<p.v>> BY <3>1 DEF Abstract!Shown
      <4>2. p.v \in Ink(R) BY <3>1 DEF FitsKernel, FitsLoader, Ink, Tint, Printable
      <4> QED BY <4>1, <4>2, Tuple1
    <3>2. CASE p.kind = "percent"
      <4>1. s = <<"%">> BY <3>2 DEF Abstract!Shown
      <4> QED BY <4>1, <1>2, Tuple1
    <3>3. CASE p.kind = "tab"
      <4>1. s = <<" ", " ", " ", " ">> BY <3>3 DEF Abstract!Shown
      <4> QED BY <4>1, <1>2, Tuple4
    <3>4. CASE p.kind = "str"
      <4>1. s = p.v BY <3>4 DEF Abstract!Shown
      <4>2. p.v \in Seq(Range(p.v) \ {Zero, "\n"}) BY <3>4 DEF FitsKernel, FitsLoader
      <4>3. Range(p.v) \ {Zero, "\n"} \subseteq Ink(R) BY DEF Ink, Tint, Printable
      <4> QED BY <4>1, <4>2, <4>3, SeqMonotonic
    <3>5. CASE p.kind \in {"int", "unsigned", "unsignedlong"}
      <4>1. s = Abstract!Digits(p.v % Word, 10) BY <3>5 DEF Abstract!Shown
      <4>2. p.v \in Int BY <3>5 DEF FitsKernel, FitsLoader
      <4> QED BY <4>1, <4>2, Decimal, <1>4
    <3>6. CASE p.kind = "hex"
      <4>1. s = <<"0", "x">> \o Abstract!Digits(p.v % Word, 16) BY <3>6 DEF Abstract!Shown
      <4>2. p.v \in Int BY <3>6 DEF FitsKernel, FitsLoader
      <4> QED BY <4>1, <4>2, Hexadecimal, <1>6
    <3>7. CASE p.kind \in {"long", "longhex"}
      <4>1. p.v \in 1 - Word .. Word - 1 BY <3>7 DEF FitsKernel, FitsLoader
      <4>2. PICK v \in 1 - Word .. Word - 1 : v = p.v BY <4>1
      <4>3. PICK u \in BOOLEAN : u = FALSE OBVIOUS
      <4>4. u => v >= 0 BY <4>3
      <4>5. /\ print_num(v, u, FALSE) =
                 IF v < 0 THEN <<"-">> \o Abstract!Digits(-v, 10) ELSE Abstract!Digits(v, 10)
            /\ print_num(v, u, TRUE) =
                 IF v < 0 THEN <<"-", "0", "x">> \o Abstract!Digits(-v, 16)
                 ELSE <<"0", "x">> \o Abstract!Digits(v, 16)
            /\ print_num(v, u, FALSE) \in Seq(Shades \cup {"-", "x"})
            /\ print_num(v, u, TRUE) \in Seq(Shades \cup {"-", "x"})
        BY <4>4, Signed
      <4>6. p.kind = "long" => s = print_num(v, u, FALSE) BY <4>2, <4>5 DEF Abstract!Shown
      <4>7. p.kind = "longhex" => s = print_num(v, u, TRUE) BY <4>2, <4>5 DEF Abstract!Shown
      <4> QED BY <3>7, <4>5, <4>6, <4>7, <1>5
    <3> QED BY <1>8, <3>1, <3>2, <3>3, <3>4, <3>5, <3>6, <3>7 DEF FitsKernel, FitsLoader
  <2> HIDE DEF s
  <2>9. s \in Seq(Tint(R)) BY <2>8, <1>3, SeqMonotonic
  <2> QED BY <1>8, <2>8, <2>9 DEF s
<1> QED BY <1>7, <1>8

LEMMA FrontAdded ==
  ASSUME NEW S, NEW x \in S, NEW s \in Seq(S)
  PROVE  Head(<<x>> \o s) = x /\ Tail(<<x>> \o s) = s
<1> DEFINE a == <<x>>
           q == a \o s
           t == Tail(q)
<1>1. a \in Seq(S) /\ Len(a) = 1 /\ a[1] = x OBVIOUS
<1>2. Len(s) \in Nat BY LenProperties
<1> HIDE DEF a
<1>3. /\ q \in Seq(S) /\ Len(q) = 1 + Len(s)
      /\ \A i \in 1 .. 1 + Len(s) : q[i] = IF i <= 1 THEN a[i] ELSE s[i - 1]
  <2>1. /\ q \in Seq(S) /\ Len(q) = Len(a) + Len(s)
        /\ \A i \in 1 .. Len(a) + Len(s) : q[i] = IF i <= Len(a) THEN a[i] ELSE s[i - Len(a)]
    BY <1>1, ConcatProperties
  <2> QED BY <1>1, <2>1
<1> HIDE DEF q
<1>4. q # <<>> BY <1>2, <1>3, EmptySeq
<1>5. t \in Seq(S) /\ Len(t) = Len(q) - 1 /\ \A i \in 1 .. Len(t) : t[i] = q[i + 1]
  BY <1>3, <1>4, HeadTailProperties
<1> HIDE DEF t
<1>6. Head(q) = x
  <2>1. Head(q) = q[1] BY <1>3, <1>4
  <2>2. 1 \in 1 .. 1 + Len(s) /\ 1 <= 1 BY <1>2
  <2> QED BY <2>1, <2>2, <1>1, <1>3
<1>7. Len(t) = Len(s) BY <1>2, <1>3, <1>5
<1>8. ASSUME NEW i \in 1 .. Len(t) PROVE t[i] = s[i]
  <2>1. i + 1 \in 1 .. 1 + Len(s) /\ ~ (i + 1 <= 1) /\ i + 1 - 1 = i BY <1>2, <1>7
  <2>2. PICK k \in 1 .. 1 + Len(s) : k = i + 1 /\ ~ (k <= 1) /\ k - 1 = i BY <2>1
  <2>3. q[k] = s[k - 1] BY <1>3, <2>2
  <2> QED BY <1>5, <2>2, <2>3
<1>9. t = s BY <1>5, <1>7, <1>8, SeqEqual
<1> QED BY <1>6, <1>9 DEF t, q, a

LEMMA Taken ==
  ASSUME NEW S, NEW s \in Seq(S), s # <<>>
  PROVE  Head(s) \in S /\ Tail(s) \in Seq(S) /\ s = <<Head(s)>> \o Tail(s)
<1> DEFINE t == Tail(s)
           x == Head(s)
           a == <<x>>
           q == a \o t
<1>1. x \in S /\ t \in Seq(S) /\ Len(t) = Len(s) - 1 /\ \A i \in 1 .. Len(t) : t[i] = s[i + 1]
  BY HeadTailProperties
<1>2. x = s[1] /\ Len(s) \in Nat /\ Len(s) # 0 BY EmptySeq, LenProperties
<1> HIDE DEF t, x
<1>3. a \in Seq(S) /\ Len(a) = 1 /\ a[1] = x BY <1>1
<1> HIDE DEF a
<1>4. /\ q \in Seq(S) /\ Len(q) = 1 + Len(t)
      /\ \A i \in 1 .. 1 + Len(t) : q[i] = IF i <= 1 THEN a[i] ELSE t[i - 1]
  <2>1. /\ q \in Seq(S) /\ Len(q) = Len(a) + Len(t)
        /\ \A i \in 1 .. Len(a) + Len(t) : q[i] = IF i <= Len(a) THEN a[i] ELSE t[i - Len(a)]
    <3>1. a \in Seq(S) /\ t \in Seq(S) BY <1>1, <1>3
    <3> QED BY <3>1, ConcatProperties
  <2> QED BY <1>3, <2>1
<1> HIDE DEF q
<1>5. ASSUME NEW i \in 1 .. Len(q) PROVE q[i] = s[i]
  <2>1. CASE i = 1
    <3>1. 1 \in 1 .. 1 + Len(t) /\ 1 <= 1 BY <2>1, <1>4
    <3> QED BY <2>1, <3>1, <1>2, <1>3, <1>4
  <2>2. CASE i # 1
    <3>1. i \in 1 .. 1 + Len(t) /\ ~ (i <= 1) /\ i - 1 \in 1 .. Len(t) /\ i - 1 + 1 = i BY <2>2, <1>1, <1>2, <1>4
    <3>2. PICK k \in 1 .. Len(t) : k = i - 1 /\ k + 1 = i BY <3>1
    <3>3. q[i] = t[i - 1] BY <3>1, <1>4
    <3>4. t[k] = s[k + 1] BY <1>1
    <3> QED BY <3>2, <3>3, <3>4
  <2> QED BY <2>1, <2>2
<1>6. Len(q) = Len(s) BY <1>1, <1>2, <1>4
<1>7. q = s BY <1>4, <1>5, <1>6, SeqEqual
<1> QED BY <1>1, <1>7 DEF q, a, t, x

LEMMA Pieces ==
  ASSUME NEW call \in KernelCall
  PROVE  LET R == Range(call)
         IN  /\ call \in Seq(R) /\ \A p \in R : FitsKernel(p)
             /\ Spell(R, "kernel") \in [R -> Seq(Letter(R))]
             /\ Given(R) \in [R -> Seq({q.v : q \in R})]
             /\ Reading(R) \in [R -> Seq(Tint(R))]
<1> DEFINE R == Range(call)
<1>1. call \in Seq(R) /\ \A i \in DOMAIN call : FitsKernel(call[i]) BY CallAssumption
<1>2. \A p \in R : FitsKernel(p) BY <1>1 DEF Range
<1> HIDE DEF R
<1>3. Spell(R, "kernel") \in [R -> Seq(Letter(R))] BY <1>2, SpelledTyped DEF Spell
<1>4. Given(R) \in [R -> Seq({q.v : q \in R})]
  <2>1. \A p \in R : Given(R)[p] \in Seq({q.v : q \in R}) BY <1>2, SpelledTyped
  <2>2. Given(R) = [p \in R |-> Given(R)[p]] BY DEF Given
  <2> DEFINE V == Seq({q.v : q \in R})
             G == Given(R)
  <2> HIDE DEF V, G
  <2>3. G \in [R -> V] BY <2>1, <2>2 DEF V, G
  <2> QED BY <2>3 DEF V, G
<1>5. Reading(R) \in [R -> Seq(Tint(R))]
  <2>1. \A p \in R : Abstract!Shown(p) \in Seq(Tint(R)) BY <1>2, ShownTyped
  <2> QED BY <2>1 DEF Reading
<1> QED BY <1>1, <1>2, <1>3, <1>4, <1>5 DEF R

Joining(G, R, S) == /\ \A a \in Seq(R) : Flat(G, a) \in Seq(S)
                    /\ \A a, b \in Seq(R) : Flat(G, a \o b) = Flat(G, a) \o Flat(G, b)

LEMMA Joins == ASSUME NEW R, NEW S, NEW G \in [R -> Seq(S)] PROVE Joining(G, R, S)
BY Flattened DEF Joining

\* A call, cut between two pieces.
LEMMA CutEnd ==
  ASSUME NEW call \in KernelCall, NEW done \in Seq(Range(call)), call = done \o <<>>
  PROVE  done = call /\ Arguments(<<>>) = <<>>
<1>1. done \o <<>> = done BY ConcatEmptySeq
<1>2. Arguments(<<>>) = <<>> BY DEF Arguments, FlattenSeq
<1> QED BY <1>1, <1>2

\* A call, cut at the piece p.
CutAt(call, done, p, more) ==
  LET now == done \o <<p>>
      n == Len(Pattern(done, "kernel"))
  IN  /\ now \in Seq(Range(call)) /\ call = now \o more
      /\ n \in Nat /\ Len(Pattern(now, "kernel")) = n + Len(Spelled(p, "kernel"))
      /\ Len(Pattern(call, "kernel")) \in Nat
      /\ Len(Pattern(now, "kernel")) <= Len(Pattern(call, "kernel"))
      /\ \A k \in 1 .. Len(Spelled(p, "kernel")) :
            Pattern(call, "kernel")[n + k] = Spelled(p, "kernel")[k]
      /\ Arguments(<<p>> \o more) = Given(Range(call))[p] \o Arguments(more)
      /\ Arguments(more) \in Seq({q.v : q \in Range(call)})
      /\ Abstract!Text(now) = Abstract!Text(done) \o Abstract!Shown(p)
      /\ Abstract!Text(done) \in Seq(Tint(Range(call)))

LEMMA Cut ==
  ASSUME NEW call \in KernelCall, NEW done \in Seq(Range(call)), NEW p \in Range(call),
         NEW more \in Seq(Range(call)), call = done \o (<<p>> \o more)
  PROVE  CutAt(call, done, p, more)
<1> DEFINE R == Range(call)
           V == {q.v : q \in R}
           one == <<p>>
           now == done \o one
           G == Spell(R, "kernel")
           A == Given(R)
           T == Reading(R)
           L == Letter(R)
           Q == Tint(R)
<1>1. /\ call \in Seq(R) /\ FitsKernel(p)
      /\ G \in [R -> Seq(L)] /\ A \in [R -> Seq(V)] /\ T \in [R -> Seq(Q)]
  BY Pieces
<1>2. one \in Seq(R) OBVIOUS
<1>3. G[p] = Spelled(p, "kernel") /\ T[p] = Abstract!Shown(p) BY DEF Spell, Reading
<1>4. Spelled(p, "kernel") \in Seq(L) BY <1>1, SpelledTyped
<1> HIDE DEF R, V, G, A, T, L, Q
<1>5. Flat(G, one) = G[p] /\ Flat(T, one) = T[p] /\ Flat(A, one) = A[p]
  <2>1. p \in R BY DEF R
  <2> QED BY <1>1, <2>1, FlattenedOne
<1> HIDE DEF one
<1>6. done \in Seq(R) /\ more \in Seq(R) BY DEF R
<1>7. now \in Seq(R) /\ call = now \o more
  <2>1. now \in Seq(R) BY <1>2, <1>6, ConcatProperties
  <2>2. (done \o one) \o more = done \o (one \o more) BY <1>2, <1>6, ConcatAssociative
  <2> QED BY <2>1, <2>2 DEF one
<1> HIDE DEF now
<1>8. now = done \o one BY DEF now
<1> DEFINE Both == Joining(G, R, L) /\ Joining(T, R, Q) /\ Joining(A, R, V)
<1>20. Both BY <1>1, Joins
<1>9. Flat(G, now) = Flat(G, done) \o Flat(G, one) /\ Flat(T, now) = Flat(T, done) \o Flat(T, one)
  BY <1>20, <1>2, <1>6, <1>8 DEF Joining
<1>10. /\ Flat(G, call) = Flat(G, now) \o Flat(G, more)
       /\ Flat(G, done) \in Seq(L) /\ Flat(G, now) \in Seq(L) /\ Flat(G, more) \in Seq(L) /\ Flat(G, call) \in Seq(L)
       /\ Flat(T, done) \in Seq(Q) /\ Flat(A, more) \in Seq(V)
  BY <1>20, <1>1, <1>6, <1>7 DEF Joining
<1>11. Flat(A, one \o more) = Flat(A, one) \o Flat(A, more) BY <1>20, <1>2, <1>6 DEF Joining
<1>12. /\ Pattern(call, "kernel") = Flat(G, call) /\ Pattern(now, "kernel") = Flat(G, now)
       /\ Pattern(done, "kernel") = Flat(G, done)
       /\ Abstract!Text(now) = Flat(T, now) /\ Abstract!Text(done) = Flat(T, done)
       /\ Arguments(more) = Flat(A, more)
  BY <1>1, <1>6, <1>7, AsFlat DEF G, T, A
<1>13. Arguments(one \o more) = Flat(A, one \o more)
  <2>1. one \o more \in Seq(R) BY <1>2, <1>6, ConcatProperties
  <2> QED BY <2>1, AsFlat DEF A
<1> DEFINE d == Flat(G, done)
           w == Flat(G, now)
           e == Flat(G, more)
           x == Spelled(p, "kernel")
           y == Flat(G, call)
<1>14. w = d \o x /\ y = w \o e BY <1>3, <1>5, <1>9, <1>10
<1>15. d \in Seq(L) /\ w \in Seq(L) /\ e \in Seq(L) /\ x \in Seq(L) BY <1>4, <1>10
<1> HIDE DEF d, w, e, x, y
<1>16. /\ Len(w) = Len(d) + Len(x) /\ Len(y) = Len(w) + Len(e)
       /\ Len(d) \in Nat /\ Len(x) \in Nat /\ Len(e) \in Nat
       /\ \A i \in 1 .. Len(d) + Len(x) : w[i] = IF i <= Len(d) THEN d[i] ELSE x[i - Len(d)]
       /\ \A i \in 1 .. Len(w) + Len(e) : y[i] = IF i <= Len(w) THEN w[i] ELSE e[i - Len(w)]
  BY <1>14, <1>15, ConcatProperties, LenProperties
<1>24. Len(d) \in Nat /\ Len(x) \in Nat /\ Len(w) = Len(d) + Len(x) BY <1>16
<1>17. ASSUME NEW k \in 1 .. Len(x) PROVE y[Len(d) + k] = x[k]
  <2>0. Len(d) + k \in 1 .. Len(w) /\ ~ (Len(d) + k <= Len(d)) /\ (Len(d) + k) - Len(d) = k BY <1>24
  <2>1. PICK i \in 1 .. Len(w) : i = Len(d) + k /\ ~ (i <= Len(d)) /\ i - Len(d) = k BY <2>0
  <2>2. i \in 1 .. Len(w) + Len(e) /\ i <= Len(w) /\ i \in 1 .. Len(d) + Len(x) BY <2>1, <1>16
  <2>3. y[i] = w[i] BY <2>2, <1>16
  <2>4. w[i] = x[i - Len(d)] BY <2>1, <2>2, <1>16
  <2> QED BY <2>1, <2>3, <2>4
<1>18. /\ Pattern(call, "kernel") = y /\ Pattern(now, "kernel") = w /\ Pattern(done, "kernel") = d
  BY <1>12 DEF y, w, d
<1>19. /\ Len(d) \in Nat /\ Len(w) = Len(d) + Len(x) /\ Len(y) \in Nat /\ Len(w) <= Len(y) BY <1>16
<1>23. Abstract!Text(now) = Abstract!Text(done) \o Abstract!Shown(p) BY <1>3, <1>5, <1>9, <1>12
<1>21. Arguments(one \o more) = A[p] \o Arguments(more) BY <1>5, <1>11, <1>12, <1>13
<1>22. Arguments(more) \in Seq(V) /\ Abstract!Text(done) \in Seq(Q) BY <1>10, <1>12
<1> QED BY <1>7, <1>17, <1>18, <1>19, <1>23, <1>21, <1>22 DEF CutAt, R, V, A, Q, now, one, x

-----------------------------------------------------------------------------
\* printk's loop, and how far it is in a call.

\* How far printk's loop is in a call: the pieces done are on the screen, or
\* in out, and j characters of the next one are read.
Locals(i, args, fmt, long, unsigned, out) ==
  [i |-> i, args |-> args, fmt |-> fmt, long |-> long, unsigned |-> unsigned, out |-> out]

HasUnsigned(done) == \E i \in DOMAIN done : done[i].kind = "unsigned"

\* The flags say what has been read of the next piece, p.
Flags(done, p, j, fmt, long, unsigned) ==
  /\ fmt <=> (j = 1 \/ (j = 2 /\ p.kind = "unsigned"))
  /\ long <=> (j >= 2 /\ p.kind # "unsigned")
  /\ unsigned => \/ HasUnsigned(done)
                 \/ j >= 2 /\ p.kind \in {"unsigned", "unsignedlong"}
  /\ j = 3 => unsigned
  /\ j < Len(Spelled(p, "kernel"))

\* What is on the screen and what is still in out.
Shows(call, done, s, s0, out) ==
  /\ Board(s, Cells) /\ out \in Seq(Ink(Range(call)))
  /\ Abstract!Show(Screen(s), out, "kernel") =
       Abstract!Show(Screen(s0), Abstract!Text(done), "kernel")

Reads(call, done, p, more, j, l, s, s0, out) ==
  /\ done \in Seq(Range(call)) /\ p \in Range(call) /\ more \in Seq(Range(call))
  /\ call = done \o (<<p>> \o more) /\ j \in 0 .. 3
  /\ \E fmt, long, unsigned \in BOOLEAN :
       /\ Flags(done, p, j, fmt, long, unsigned)
       /\ l = Locals(Len(Pattern(done, "kernel")) + 1 + j, Arguments(<<p>> \o more),
                     fmt, long, unsigned, out)
  /\ Shows(call, done, s, s0, out)

\* Nothing is left to read.
Ends(call, l, s, s0, out) ==
  /\ \E unsigned \in BOOLEAN :
       l = Locals(Len(Pattern(call, "kernel")) + 1, <<>>, FALSE, FALSE, unsigned, out)
  /\ Shows(call, call, s, s0, out)

Prints(call, l, s, s0) ==
  \E out \in Seq(Ink(Range(call))) :
    \/ Ends(call, l, s, s0, out)
    \/ \E done, more \in Seq(Range(call)), p \in Range(call), j \in 0 .. 3 :
         Reads(call, done, p, more, j, l, s, s0, out)

\* Between two pieces.
LEMMA Between ==
  ASSUME NEW call \in KernelCall, NEW done \in Seq(Range(call)), NEW rest \in Seq(Range(call)),
         call = done \o rest, NEW unsigned \in BOOLEAN, unsigned => HasUnsigned(done),
         NEW s, NEW s0, NEW out, Shows(call, done, s, s0, out)
  PROVE  Prints(call, Locals(Len(Pattern(done, "kernel")) + 1, Arguments(rest),
                             FALSE, FALSE, unsigned, out), s, s0)
<1> DEFINE R == Range(call)
           l == Locals(Len(Pattern(done, "kernel")) + 1, Arguments(rest), FALSE, FALSE, unsigned, out)
<1>1. out \in Seq(Ink(R)) BY DEF Shows
<1>2. CASE rest = <<>>
  <2>1. done = call /\ Arguments(<<>>) = <<>> BY <1>2, CutEnd
  <2>2. l = Locals(Len(Pattern(call, "kernel")) + 1, <<>>, FALSE, FALSE, unsigned, out)
    BY <1>2, <2>1
  <2> HIDE DEF l
  <2>3. Ends(call, l, s, s0, out) BY <2>1, <2>2 DEF Ends
  <2> HIDE DEF R
  <2>4. Prints(call, l, s, s0) BY <1>1, <2>3 DEF Prints, R
  <2> QED BY <2>4 DEF l
<1>3. CASE rest # <<>>
  <2>1. PICK p \in R, more \in Seq(R) : rest = <<p>> \o more BY <1>3, Taken
  <2>2. FitsKernel(p) BY Pieces
  <2>3. Len(Spelled(p, "kernel")) \in 1 .. 4 BY <2>2, SpelledTyped
  <2>4. Len(Pattern(done, "kernel")) \in Nat BY <2>1, Cut DEF CutAt
  <2>5. l = Locals(Len(Pattern(done, "kernel")) + 1 + 0, Arguments(<<p>> \o more), FALSE, FALSE, unsigned, out)
    BY <2>1, <2>4
  <2>6. Flags(done, p, 0, FALSE, FALSE, unsigned)
    <3>1. PICK x \in 1 .. 4 : x = Len(Spelled(p, "kernel")) BY <2>3
    <3>2. 0 # 1 /\ 0 # 2 /\ 0 # 3 OBVIOUS
    <3>3. ~ (0 >= 2) OBVIOUS
    <3>4. 0 < x OBVIOUS
    <3> QED BY <3>1, <3>2, <3>3, <3>4, Zenon DEF Flags
  <2> HIDE DEF l
  <2>7. Reads(call, done, p, more, 0, l, s, s0, out)
    <3>1. FALSE \in BOOLEAN /\ 0 \in 0 .. 3 /\ call = done \o (<<p>> \o more) BY <2>1
    <3> QED BY <2>1, <2>5, <2>6, <3>1, Zenon DEF Reads, R
  <2>8. 0 \in 0 .. 3 OBVIOUS
  <2>9. Prints(call, l, s, s0) BY <1>1, <2>1, <2>7, <2>8, Zenon DEF Prints, R
  <2> QED BY <2>9 DEF l
<1> QED BY <1>2, <1>3

\* The screen does not change when nothing is in out.
LEMMA Quiet ==
  ASSUME NEW call, NEW done, NEW s, NEW s0, Shows(call, done, s, s0, <<>>)
  PROVE  Screen(s) = Abstract!Show(Screen(s0), Abstract!Text(done), "kernel")
BY ShowNothing DEF Shows

\* What a piece shows is given out, or put.
LEMMA GivesOut ==
  ASSUME NEW call \in KernelCall, NEW done \in Seq(Range(call)), NEW p \in Range(call),
         NEW more \in Seq(Range(call)), call = done \o (<<p>> \o more),
         NEW s, NEW s0, Shows(call, done, s, s0, <<>>)
  PROVE  /\ p.kind # "newline" => Shows(call, done \o <<p>>, s, s0, Abstract!Shown(p))
         /\ p.kind = "newline" => Shows(call, done \o <<p>>, putn(s), s0, <<>>)
<1> DEFINE now == done \o <<p>>
           R == Range(call)
           old == Abstract!Show(Screen(s0), Abstract!Text(done), "kernel")
<1>1. Screen(s) = old /\ Board(s, Cells) BY Quiet DEF Shows
<1>2. Abstract!Text(now) = Abstract!Text(done) \o Abstract!Shown(p) /\ Abstract!Text(done) \in Seq(Tint(R))
  BY Cut DEF CutAt
<1>3. /\ p.kind = "newline" => Abstract!Shown(p) = <<"\n">>
      /\ p.kind # "newline" => Abstract!Shown(p) \in Seq(Ink(R))
      /\ Abstract!Shown(p) \in Seq(Tint(R))
  BY Pieces, ShownTyped
<1> HIDE DEF now, R
<1>4. PICK a \in Seq(Tint(R)), b \in Seq(Tint(R)) : a = Abstract!Text(done) /\ b = Abstract!Shown(p)
  BY <1>2, <1>3
<1>5. Abstract!Show(Screen(s0), Abstract!Text(now), "kernel") = Abstract!Show(old, b, "kernel")
  BY <1>2, <1>4, ShowJoined
<1>6. ASSUME p.kind # "newline" PROVE Shows(call, now, s, s0, Abstract!Shown(p))
  BY <1>1, <1>3, <1>4, <1>5, <1>6 DEF Shows, R
<1>7. ASSUME p.kind = "newline" PROVE Shows(call, now, putn(s), s0, <<>>)
  <2>1. Board(putn(s), Cells - 1) /\ Screen(putn(s)) = Abstract!PutChar(Screen(s), "\n", "kernel")
    BY <1>1, NewRow
  <2>2. Board(putn(s), Cells) BY <2>1, CellsPositive DEF Board
  <2>3. Abstract!Show(old, <<"\n">>, "kernel") = Abstract!PutChar(old, "\n", "kernel") BY ShowOne
  <2>4. Abstract!Show(Screen(putn(s)), <<>>, "kernel") = Screen(putn(s)) BY ShowNothing
  <2>5. <<>> \in Seq(Ink(R)) OBVIOUS
  <2> QED BY <1>1, <1>3, <1>4, <1>5, <1>7, <2>1, <2>2, <2>3, <2>4, <2>5 DEF Shows, R
<1> QED BY <1>6, <1>7 DEF now

\* What an iteration does with the next character, ch.
Cur == [vmem |-> vmem, idx |-> idx]

Goes(c, i, args, fmt, long, unsigned, out) ==
  /\ local' = [local EXCEPT ![c] = Locals(i + 1, args, fmt, long, unsigned, out)]
  /\ UNCHANGED <<vmem, idx>>

LEMMA LocalsFields ==
  ASSUME NEW i, NEW args, NEW fmt, NEW long, NEW unsigned, NEW out
  PROVE  LET l == Locals(i, args, fmt, long, unsigned, out)
         IN  /\ l.i = i /\ l.args = args /\ l.out = out
             /\ l.fmt = fmt /\ l.long = long /\ l.unsigned = unsigned
BY DEF Locals

AfterSign(c, i, args, fmt, long, unsigned, ch) ==
  /\ ch = "%" => Goes(c, i, args, FALSE, long, unsigned, <<"%">>)
  /\ ch = "d" => Goes(c, i, Tail(args), FALSE, long, unsigned, print_decimal(Head(args)))
  /\ ch = "x" => Goes(c, i, Tail(args), FALSE, long, unsigned, print_hex(Head(args)))
  /\ ch = "l" => Goes(c, i, args, FALSE, TRUE, unsigned, <<>>)
  /\ ch = "c" => Goes(c, i, Tail(args), FALSE, long, unsigned, <<Head(args)>>)
  /\ ch = "s" => Goes(c, i, Tail(args), FALSE, long, unsigned, Head(args))
  /\ ch = "u" => Goes(c, i, args, fmt, long, TRUE, <<>>)
AfterL(c, i, args, fmt, long, unsigned, ch) ==
  /\ ch = "u" => Goes(c, i, args, fmt, long, TRUE, <<>>)
  /\ ch = "d" => Goes(c, i, Tail(args), fmt, FALSE, FALSE, print_num(Head(args), unsigned, FALSE))
  /\ ch = "x" => Goes(c, i, Tail(args), fmt, FALSE, FALSE, print_num(Head(args), unsigned, TRUE))
Outside(c, i, args, fmt, long, unsigned, ch) ==
  /\ ch = "\n" => /\ local' = [local EXCEPT ![c] = Locals(i + 1, args, fmt, long, unsigned, <<>>)]
                  /\ vmem' = putn(Cur).vmem /\ idx' = putn(Cur).idx
  /\ ch = "\t" => Goes(c, i, args, fmt, long, unsigned, <<" ", " ", " ", " ">>)
  /\ ch = "%" => Goes(c, i, args, TRUE, long, unsigned, <<>>)
  /\ ch \notin {"\n", "\t", "%"} => Goes(c, i, args, fmt, long, unsigned, <<ch>>)

LEMMA Effect ==
  ASSUME NEW c \in Caller, Loop(c),
         NEW i, NEW args, NEW fmt \in BOOLEAN, NEW long \in BOOLEAN, NEW unsigned \in BOOLEAN, NEW out,
         local[c] = Locals(i, args, fmt, long, unsigned, out),
         NEW ch, ch = KernelPattern[msg[c]][i]
  PROVE  /\ out = <<>> /\ i <= Len(KernelPattern[msg[c]])
         /\ fmt => AfterSign(c, i, args, fmt, long, unsigned, ch)
         /\ ~fmt /\ long => AfterL(c, i, args, fmt, long, unsigned, ch)
         /\ ~fmt /\ ~long => Outside(c, i, args, fmt, long, unsigned, ch)
<1> DEFINE l == local[c]
<1>0. l.i = i /\ l.args = args /\ l.out = out /\ l.fmt = fmt /\ l.long = long /\ l.unsigned = unsigned
  BY LocalsFields
<1>1. out = <<>> /\ i <= Len(KernelPattern[msg[c]]) BY <1>0 DEF Loop
<1>2. \/ fmt /\ ch \in AfterPercent /\ Directive(c, ch, l)
      \/ ~ (fmt /\ ch \in AfterPercent) /\ long /\ ch \in AfterLong /\ LongDirective(c, ch, l)
      \/ ~ (fmt /\ ch \in AfterPercent) /\ ~ (long /\ ch \in AfterLong) /\ Plain(c, ch, l)
  BY <1>0, Zenon DEF Loop
<1> HIDE DEF l
<1>3. \A x, f, g, u, o : Iteration(c, o, x, f, g, u) => Goes(c, i, x, f, g, u, o)
  BY <1>0, Zenon DEF Iteration, Goes, Locals, l, board
<1>4. ASSUME fmt PROVE AfterSign(c, i, args, fmt, long, unsigned, ch)
  <2>1. ch \in AfterPercent => Directive(c, ch, l) BY <1>2, <1>4, Zenon
  <2>2. {"%", "d", "x", "l", "u", "c", "s"} = AfterPercent BY DEF AfterPercent
  <2>3. ch \in AfterPercent =>
          \/ ch = "%" /\ Goes(c, i, args, FALSE, long, unsigned, <<ch>>)
          \/ ch = "d" /\ Goes(c, i, Tail(args), FALSE, long, unsigned, print_decimal(Head(args)))
          \/ ch = "x" /\ Goes(c, i, Tail(args), FALSE, long, unsigned, print_hex(Head(args)))
          \/ ch = "l" /\ Goes(c, i, args, FALSE, TRUE, unsigned, <<>>)
          \/ ch = "c" /\ Goes(c, i, Tail(args), FALSE, long, unsigned, <<Head(args)>>)
          \/ ch = "s" /\ Goes(c, i, Tail(args), FALSE, long, unsigned, Head(args))
          \/ ch = "u" /\ Goes(c, i, args, fmt, long, TRUE, <<>>)
    BY <2>1, <1>0, <1>3, Zenon DEF Directive
  <2> QED BY <2>2, <2>3, Zenon DEF AfterSign
<1>5. ASSUME ~fmt, long PROVE AfterL(c, i, args, fmt, long, unsigned, ch)
  <2>1. ch \in AfterLong => LongDirective(c, ch, l) BY <1>2, <1>5, Zenon
  <2>2. {"u", "d", "x"} = AfterLong BY DEF AfterLong
  <2>3. ch \in AfterLong =>
          \/ ch = "u" /\ Goes(c, i, args, fmt, long, TRUE, <<>>)
          \/ ch \in {"d", "x"} /\ Goes(c, i, Tail(args), fmt, FALSE, FALSE, print_num(Head(args), unsigned, ch = "x"))
    BY <2>1, <1>0, <1>3, Zenon DEF LongDirective
  <2>4. ("d" = "x") = FALSE /\ ("x" = "x") = TRUE OBVIOUS
  <2> QED BY <2>2, <2>3, <2>4, Zenon DEF AfterL
<1>6. ASSUME ~fmt, ~long PROVE Outside(c, i, args, fmt, long, unsigned, ch)
  <2>1. Plain(c, ch, l) BY <1>2, <1>6, Zenon
  <2>2. /\ ch = "\n" => Newline(c, l)
        /\ ch = "\t" => Goes(c, i, args, fmt, long, unsigned, <<" ", " ", " ", " ">>)
        /\ ch = "%" => Goes(c, i, args, TRUE, long, unsigned, <<>>)
        /\ ch \notin {"\n", "\t", "%"} => Goes(c, i, args, fmt, long, unsigned, <<ch>>)
    BY <2>1, <1>0, <1>3, Zenon DEF Plain
  <2>3. Newline(c, l) => /\ local' = [local EXCEPT ![c] = Locals(i + 1, args, fmt, long, unsigned, out)]
                         /\ vmem' = putn(Cur).vmem /\ idx' = putn(Cur).idx
    <3>1. [l EXCEPT !.i = l.i + 1] = Locals(i + 1, args, fmt, long, unsigned, out)
      <4>1. PICK k : k = l.i + 1 OBVIOUS
      <4>2. [l EXCEPT !.i = k] = Locals(k, args, fmt, long, unsigned, out) BY DEF l, Locals
      <4> QED BY <4>1, <4>2, <1>0
    <3> QED BY <3>1, Zenon DEF Newline, Cur
  <2> QED BY <2>2, <2>3, <1>1, Zenon DEF Outside
<1> QED BY <1>1, <1>4, <1>5, <1>6, Zenon

LEMMA CutLength ==
  ASSUME NEW call \in KernelCall, NEW done \in Seq(Range(call)), NEW p \in Range(call),
         NEW more \in Seq(Range(call)), call = done \o (<<p>> \o more)
  PROVE  /\ Len(Pattern(done, "kernel")) \in Nat
         /\ Len(Pattern(done \o <<p>>, "kernel")) = Len(Pattern(done, "kernel")) + Len(Spelled(p, "kernel"))
<1> DEFINE n == Len(Pattern(done, "kernel"))
           m == Len(Pattern(done \o <<p>>, "kernel"))
           x == Len(Spelled(p, "kernel"))
<1>0. CutAt(call, done, p, more) BY Cut
<1>3. n \in Nat BY <1>0 DEF CutAt
<1>4. m = n + x BY <1>0, Zenon DEF CutAt
<1> QED BY <1>3, <1>4

\* The argument of a directive is taken with it.
LEMMA ArgumentOf ==
  ASSUME NEW call \in KernelCall, NEW done \in Seq(Range(call)), NEW p \in Range(call),
         NEW more \in Seq(Range(call)), call = done \o (<<p>> \o more)
  PROVE  /\ p.kind \in Directives => /\ Head(Arguments(<<p>> \o more)) = p.v
                                     /\ Tail(Arguments(<<p>> \o more)) = Arguments(more)
         /\ p.kind \notin Directives => Arguments(<<p>> \o more) = Arguments(more)
<1> DEFINE V == {q.v : q \in Range(call)}
           all == Arguments(<<p>> \o more)
<1>1. all = Given(Range(call))[p] \o Arguments(more) /\ Arguments(more) \in Seq(V) BY Cut DEF CutAt
<1>2. PICK a \in Seq(V) : a = Arguments(more) BY <1>1
<1>3. PICK v \in V : v = p.v OBVIOUS
<1> HIDE DEF V, all
<1>4. CASE p.kind \in Directives
  <2>1. all = <<v>> \o a BY <1>1, <1>2, <1>3, <1>4 DEF Given
  <2>2. Head(<<v>> \o a) = v /\ Tail(<<v>> \o a) = a BY FrontAdded
  <2> QED BY <1>2, <1>3, <1>4, <2>1, <2>2 DEF all
<1>5. CASE p.kind \notin Directives
  <2>1. all = <<>> \o a BY <1>1, <1>2, <1>5 DEF Given
  <2>2. <<>> \o a = a BY ConcatEmptySeq
  <2> QED BY <1>2, <1>5, <2>1, <2>2 DEF all
<1> QED BY <1>4, <1>5

LEMMA OneMore ==
  ASSUME NEW n \in Nat, NEW i \in 1 .. n, NEW y \in Nat
  PROVE  /\ n + 1 \in 1 .. n + 1 /\ ~ (n + 1 <= n) /\ (n + 1) - n = 1 /\ i < n + 1
         /\ n + 1 \in 1 .. n + 1 + y /\ n + 1 <= n + 1
         /\ i \in 1 .. n + 1 + y /\ i <= n + 1 /\ i \in 1 .. n + 1 /\ i <= n
OBVIOUS

\* A %ld or %lx after a %ud has no negative argument.
LEMMA NotNegative ==
  ASSUME NEW call \in KernelCall, NEW done \in Seq(Range(call)), NEW p \in Range(call),
         NEW more \in Seq(Range(call)), call = done \o (<<p>> \o more),
         HasUnsigned(done), p.kind \in {"long", "longhex"}
  PROVE  p.v >= 0
<1> DEFINE R == Range(call)
           n == Len(done)
           one == <<p>>
           rest == one \o more
           now == done \o one
<1>1. PICK i \in DOMAIN done : done[i].kind = "unsigned" BY DEF HasUnsigned
<1>2. n \in Nat /\ i \in 1 .. n BY LenProperties
<1>3. now \in Seq(R) /\ call = now \o more BY Cut DEF CutAt
<1>13. p \in R OBVIOUS
<1> HIDE DEF R
<1>4. one \in Seq(R) /\ Len(one) = 1 /\ one[1] = p
  <2>1. one \in Seq(R) /\ Len(one) = 1 BY <1>13, Tuple1
  <2>2. one[1] = p OBVIOUS
  <2> QED BY <2>1, <2>2
<1> HIDE DEF one
<1>5. done \in Seq(R) /\ more \in Seq(R) /\ Len(more) \in Nat BY LenProperties DEF R
<1>6. Len(now) = n + 1 /\ \A k \in 1 .. n + 1 : now[k] = IF k <= n THEN done[k] ELSE one[k - n]
  <2>1. Len(now) = Len(done) + Len(one)
        /\ \A k \in 1 .. Len(done) + Len(one) : now[k] = IF k <= Len(done) THEN done[k] ELSE one[k - Len(done)]
    BY <1>4, <1>5, ConcatProperties
  <2> HIDE DEF now
  <2> QED BY <1>4, <2>1
<1> HIDE DEF now, n
<1>7. /\ Len(call) = n + 1 + Len(more)
      /\ \A k \in 1 .. n + 1 + Len(more) : call[k] = IF k <= n + 1 THEN now[k] ELSE more[k - (n + 1)]
  <2>1. Len(now \o more) = Len(now) + Len(more)
        /\ \A k \in 1 .. Len(now) + Len(more) : (now \o more)[k] = IF k <= Len(now) THEN now[k] ELSE more[k - Len(now)]
    BY <1>3, <1>5, ConcatProperties
  <2> QED BY <1>3, <1>6, <2>1
<1>14. n \in Nat /\ i \in 1 .. n /\ Len(more) \in Nat BY <1>2, <1>5
<1>8. PICK k : k = n + 1 /\ k \in 1 .. n + 1 /\ ~ (k <= n) /\ k - n = 1 /\ i < k
               /\ k \in 1 .. n + 1 + Len(more) /\ k <= n + 1
  BY <1>14, OneMore, Zenon
<1>9. i \in 1 .. n + 1 + Len(more) /\ i <= n + 1 /\ i \in 1 .. n + 1 /\ i <= n
  BY <1>14, OneMore, Zenon
<1>10. call[k] = p
  <2>1. call[k] = now[k] BY <1>7, <1>8
  <2>2. now[k] = one[k - n] BY <1>6, <1>8
  <2> QED BY <2>1, <2>2, <1>4, <1>8
<1>11. call[i] = done[i]
  <2>1. call[i] = now[i] BY <1>7, <1>9
  <2>2. now[i] = done[i] BY <1>6, <1>9
  <2> QED BY <2>1, <2>2
<1>12. DOMAIN call = 1 .. n + 1 + Len(more)
  <2>1. call \in Seq(Range(call)) BY CallAssumption
  <2>2. DOMAIN call = 1 .. Len(call) BY <2>1, LenProperties
  <2> QED BY <2>2, <1>7
<1> QED BY <1>1, <1>8, <1>9, <1>10, <1>11, <1>12, CallAssumption

\* What an iteration gives out for a directive is what its piece shows.
LEMMA Converted ==
  ASSUME NEW p, FitsKernel(p)
  PROVE  /\ p.kind \in {"lit", "char"} => Abstract!Shown(p) = <<p.v>>
         /\ p.kind = "tab" => Abstract!Shown(p) = <<" ", " ", " ", " ">>
         /\ p.kind = "percent" => Abstract!Shown(p) = <<"%">>
         /\ p.kind = "str" => Abstract!Shown(p) = p.v
         /\ p.kind \in {"int", "unsigned"} => Abstract!Shown(p) = print_decimal(p.v)
         /\ p.kind = "hex" => Abstract!Shown(p) = print_hex(p.v)
         /\ p.kind = "unsignedlong" => Abstract!Shown(p) = print_num(p.v, TRUE, FALSE)
<1>1. CASE p.kind \in {"lit", "char"} BY <1>1 DEF Abstract!Shown
<1>2. CASE p.kind = "tab" BY <1>2 DEF Abstract!Shown
<1>3. CASE p.kind = "percent" BY <1>3 DEF Abstract!Shown
<1>4. CASE p.kind = "str" BY <1>4 DEF Abstract!Shown
<1>5. CASE p.kind \in {"int", "unsigned"}
  <2>1. p.v \in Int BY <1>5 DEF FitsKernel, FitsLoader
  <2>2. Abstract!Shown(p) = Abstract!Digits(p.v % Word, 10) BY <1>5 DEF Abstract!Shown
  <2> QED BY <1>5, <2>1, <2>2, Decimal
<1>6. CASE p.kind = "hex"
  <2>1. p.v \in Int BY <1>6 DEF FitsKernel, FitsLoader
  <2>2. Abstract!Shown(p) = <<"0", "x">> \o Abstract!Digits(p.v % Word, 16) BY <1>6 DEF Abstract!Shown
  <2> QED BY <1>6, <2>1, <2>2, Hexadecimal
<1>7. CASE p.kind = "unsignedlong"
  <2>1. p.v \in Int BY <1>7 DEF FitsKernel, FitsLoader
  <2>2. Abstract!Shown(p) = Abstract!Digits(p.v % Word, 10) BY <1>7 DEF Abstract!Shown
  <2> QED BY <1>7, <2>1, <2>2, Unsigned
<1> QED BY <1>1, <1>2, <1>3, <1>4, <1>5, <1>6, <1>7

LEMMA ConvertedLong ==
  ASSUME NEW p, FitsKernel(p), NEW u \in BOOLEAN, u => p.v >= 0
  PROVE  /\ p.kind = "long" => Abstract!Shown(p) = print_num(p.v, u, FALSE)
         /\ p.kind = "longhex" => Abstract!Shown(p) = print_num(p.v, u, TRUE)
<1> SUFFICES ASSUME p.kind \in {"long", "longhex"}
             PROVE  /\ p.kind = "long" => Abstract!Shown(p) = print_num(p.v, u, FALSE)
                    /\ p.kind = "longhex" => Abstract!Shown(p) = print_num(p.v, u, TRUE)
  OBVIOUS
<1>1. PICK v \in 1 - Word .. Word - 1 : v = p.v BY DEF FitsKernel, FitsLoader
<1>2. u => v >= 0 BY <1>1
<1>3. /\ print_num(v, u, FALSE) =
           IF v < 0 THEN <<"-">> \o Abstract!Digits(-v, 10) ELSE Abstract!Digits(v, 10)
      /\ print_num(v, u, TRUE) =
           IF v < 0 THEN <<"-", "0", "x">> \o Abstract!Digits(-v, 16)
           ELSE <<"0", "x">> \o Abstract!Digits(v, 16)
  BY <1>2, Signed
<1>4. p.kind = "long" => Abstract!Shown(p) =
        IF v < 0 THEN <<"-">> \o Abstract!Digits(-v, 10) ELSE Abstract!Digits(v, 10)
  BY <1>1 DEF Abstract!Shown
<1>5. p.kind = "longhex" => Abstract!Shown(p) =
        IF v < 0 THEN <<"-", "0", "x">> \o Abstract!Digits(-v, 16) ELSE <<"0", "x">> \o Abstract!Digits(v, 16)
  BY <1>1 DEF Abstract!Shown
<1> QED BY <1>1, <1>3, <1>4, <1>5

LEMMA HasAdded ==
  ASSUME NEW R, NEW done \in Seq(R), NEW p \in R, HasUnsigned(done) \/ p.kind = "unsigned"
  PROVE  HasUnsigned(done \o <<p>>)
<1> DEFINE n == Len(done)
           one == <<p>>
           now == done \o one
<1>1. one \in Seq(R) /\ Len(one) = 1 /\ one[1] = p OBVIOUS
<1>2. n \in Nat /\ DOMAIN done = 1 .. n BY LenProperties
<1> HIDE DEF one
<1>3. now \in Seq(R) /\ Len(now) = Len(done) + Len(one)
      /\ \A k \in 1 .. Len(done) + Len(one) : now[k] = IF k <= Len(done) THEN done[k] ELSE one[k - Len(done)]
  BY <1>1, ConcatProperties
<1> HIDE DEF now
<1>4. Len(now) = n + 1 /\ \A k \in 1 .. n + 1 : now[k] = IF k <= n THEN done[k] ELSE one[k - n]
  BY <1>1, <1>3
<1>5. DOMAIN now = 1 .. n + 1 BY <1>3, <1>4, LenProperties
<1> HIDE DEF n
<1>6. CASE HasUnsigned(done)
  <2>1. PICK i \in 1 .. n : done[i].kind = "unsigned" BY <1>2, <1>6 DEF HasUnsigned
  <2>2. i \in 1 .. n + 1 /\ i <= n BY <1>2
  <2>3. now[i] = done[i] BY <1>4, <2>2
  <2>4. HasUnsigned(now) BY <1>5, <2>1, <2>2, <2>3 DEF HasUnsigned
  <2> QED BY <2>4 DEF now, one
<1>7. CASE p.kind = "unsigned"
  <2>1. n + 1 \in 1 .. n + 1 /\ ~ (n + 1 <= n) /\ (n + 1) - n = 1 BY <1>2
  <2>2. PICK k \in 1 .. n + 1 : k = n + 1 /\ ~ (k <= n) /\ k - n = 1 BY <2>1
  <2>3. now[k] = one[k - n] BY <1>4, <2>2
  <2>4. now[k] = p BY <1>1, <2>2, <2>3
  <2>5. HasUnsigned(now) BY <1>5, <1>7, <2>4 DEF HasUnsigned
  <2> QED BY <2>5 DEF now, one
<1> QED BY <1>6, <1>7

LEMMA PieceDone ==
  ASSUME NEW call \in KernelCall, NEW done \in Seq(Range(call)), NEW p \in Range(call),
         NEW more \in Seq(Range(call)), call = done \o (<<p>> \o more),
         NEW s, NEW s0, Shows(call, done, s, s0, <<>>),
         NEW unsigned \in BOOLEAN, unsigned => HasUnsigned(done) \/ p.kind = "unsigned"
  PROVE  LET i == Len(Pattern(done, "kernel")) + 1 + Len(Spelled(p, "kernel"))
         IN  /\ p.kind # "newline" =>
                  Prints(call, Locals(i, Arguments(more), FALSE, FALSE, unsigned, Abstract!Shown(p)), s, s0)
             /\ p.kind = "newline" =>
                  Prints(call, Locals(i, Arguments(more), FALSE, FALSE, unsigned, <<>>), putn(s), s0)
<1> DEFINE R == Range(call)
           now == done \o <<p>>
           n == Len(Pattern(done, "kernel"))
           x == Len(Spelled(p, "kernel"))
           m == Len(Pattern(now, "kernel"))
<1>0. n \in Nat /\ m = n + x BY CutLength, Zenon
<1>1. now \in Seq(R) /\ call = now \o more BY Cut DEF CutAt
<1>2. unsigned => HasUnsigned(now) BY HasAdded
<1>3. FitsKernel(p) BY Pieces
<1>4. PICK y \in 1 .. 4 : y = x BY <1>3, SpelledTyped
<1>5. m + 1 = n + 1 + x
  <2>1. PICK k \in Nat : k = n BY <1>0
  <2>2. m = k + y BY <1>0, <1>4, <2>1
  <2>3. (k + y) + 1 = k + 1 + y OBVIOUS
  <2> HIDE DEF m, n, x
  <2> QED BY <1>4, <2>1, <2>2, <2>3
<1>6. /\ p.kind # "newline" => Shows(call, now, s, s0, Abstract!Shown(p))
      /\ p.kind = "newline" => Shows(call, now, putn(s), s0, <<>>)
  BY GivesOut
<1> HIDE DEF now, n, x
<1>7. ASSUME p.kind # "newline"
      PROVE  Prints(call, Locals(m + 1, Arguments(more), FALSE, FALSE, unsigned, Abstract!Shown(p)), s, s0)
  BY <1>1, <1>2, <1>6, <1>7, Between
<1>8. ASSUME p.kind = "newline"
      PROVE  Prints(call, Locals(m + 1, Arguments(more), FALSE, FALSE, unsigned, <<>>), putn(s), s0)
  BY <1>1, <1>2, <1>6, <1>8, Between
<1> HIDE DEF m
<1> QED BY <1>5, <1>7, <1>8 DEF n, x

\* The loop's state before an iteration, and what the iteration may do.
Reached(call, done, p, more, s0) ==
  /\ call \in KernelCall /\ done \in Seq(Range(call)) /\ p \in Range(call)
  /\ more \in Seq(Range(call)) /\ call = done \o (<<p>> \o more)
  /\ DOMAIN local = Caller /\ Shows(call, done, Cur, s0, <<>>)

Place1(done, j) == Len(Pattern(done, "kernel")) + 1 + j

Moves(c, i, args, fmt, long, unsigned, ch) ==
  /\ fmt => AfterSign(c, i, args, fmt, long, unsigned, ch)
  /\ ~fmt /\ long => AfterL(c, i, args, fmt, long, unsigned, ch)
  /\ ~fmt /\ ~long => Outside(c, i, args, fmt, long, unsigned, ch)

LEMMA FlagsRead ==
  ASSUME NEW done, NEW p, NEW fmt \in BOOLEAN, NEW long \in BOOLEAN, NEW unsigned \in BOOLEAN
  PROVE  /\ Flags(done, p, 0, fmt, long, unsigned) =>
              fmt = FALSE /\ long = FALSE /\ (unsigned => HasUnsigned(done))
         /\ Flags(done, p, 1, fmt, long, unsigned) =>
              fmt = TRUE /\ long = FALSE /\ (unsigned => HasUnsigned(done))
         /\ Flags(done, p, 2, fmt, long, unsigned) =>
              /\ p.kind = "unsigned" => fmt = TRUE /\ long = FALSE
              /\ p.kind # "unsigned" => fmt = FALSE /\ long = TRUE
              /\ p.kind \in {"long", "longhex"} => (unsigned => HasUnsigned(done))
         /\ Flags(done, p, 3, fmt, long, unsigned) =>
              /\ p.kind # "unsigned" => fmt = FALSE /\ long = TRUE
              /\ unsigned = TRUE
<1>1. 0 # 1 /\ 0 # 2 /\ 0 # 3 /\ 1 # 2 /\ 1 # 3 /\ 2 # 1 /\ 2 # 3 /\ 3 # 1 /\ 3 # 2 OBVIOUS
<1>2. ~ (0 >= 2) /\ ~ (1 >= 2) /\ 2 >= 2 /\ 3 >= 2 OBVIOUS
<1>3. "long" # "unsigned" /\ "longhex" # "unsigned" /\ "long" # "unsignedlong" /\ "longhex" # "unsignedlong"
  OBVIOUS
<1>4. Flags(done, p, 0, fmt, long, unsigned) =>
        fmt = FALSE /\ long = FALSE /\ (unsigned => HasUnsigned(done))
  BY <1>1, <1>2, Zenon DEF Flags
<1>5. Flags(done, p, 1, fmt, long, unsigned) =>
        fmt = TRUE /\ long = FALSE /\ (unsigned => HasUnsigned(done))
  BY <1>1, <1>2, Zenon DEF Flags
<1>6. Flags(done, p, 2, fmt, long, unsigned) =>
        /\ p.kind = "unsigned" => fmt = TRUE /\ long = FALSE
        /\ p.kind # "unsigned" => fmt = FALSE /\ long = TRUE
        /\ p.kind \in {"long", "longhex"} => (unsigned => HasUnsigned(done))
  <2>1. Flags(done, p, 2, fmt, long, unsigned) => (p.kind = "unsigned" => fmt = TRUE /\ long = FALSE)
    BY <1>1, <1>2, Zenon DEF Flags
  <2>2. Flags(done, p, 2, fmt, long, unsigned) => (p.kind # "unsigned" => fmt = FALSE /\ long = TRUE)
    BY <1>1, <1>2, Zenon DEF Flags
  <2>3. Flags(done, p, 2, fmt, long, unsigned) =>
          (p.kind \in {"long", "longhex"} => (unsigned => HasUnsigned(done)))
    BY <1>1, <1>3, Zenon DEF Flags
  <2> QED BY <2>1, <2>2, <2>3, Zenon
<1>7. Flags(done, p, 3, fmt, long, unsigned) =>
        /\ p.kind # "unsigned" => fmt = FALSE /\ long = TRUE
        /\ unsigned = TRUE
  BY <1>1, <1>2, Zenon DEF Flags
<1> QED BY <1>4, <1>5, <1>6, <1>7, Zenon

LEMMA FlagsKept ==
  ASSUME NEW done, NEW p, NEW unsigned \in BOOLEAN
  PROVE  /\ (unsigned => HasUnsigned(done)) /\ 1 < Len(Spelled(p, "kernel"))
            => Flags(done, p, 1, TRUE, FALSE, unsigned)
         /\ p.kind = "unsigned" /\ 2 < Len(Spelled(p, "kernel"))
            => Flags(done, p, 2, TRUE, FALSE, TRUE)
         /\ p.kind # "unsigned" /\ (unsigned => HasUnsigned(done)) /\ 2 < Len(Spelled(p, "kernel"))
            => Flags(done, p, 2, FALSE, TRUE, unsigned)
         /\ p.kind = "unsignedlong" /\ 3 < Len(Spelled(p, "kernel"))
            => Flags(done, p, 3, FALSE, TRUE, TRUE)
<1>1. 1 # 2 /\ 1 # 3 /\ 2 # 1 /\ 2 # 3 /\ 3 # 1 /\ 3 # 2 OBVIOUS
<1>2. ~ (1 >= 2) /\ 2 >= 2 /\ 3 >= 2 OBVIOUS
<1>3. "unsignedlong" # "unsigned" OBVIOUS
<1>4. (unsigned => HasUnsigned(done)) /\ 1 < Len(Spelled(p, "kernel"))
      => Flags(done, p, 1, TRUE, FALSE, unsigned)
  BY <1>1, <1>2, Zenon DEF Flags
<1>5. p.kind = "unsigned" /\ 2 < Len(Spelled(p, "kernel")) => Flags(done, p, 2, TRUE, FALSE, TRUE)
  BY <1>1, <1>2, Zenon DEF Flags
<1>6. p.kind # "unsigned" /\ (unsigned => HasUnsigned(done)) /\ 2 < Len(Spelled(p, "kernel"))
      => Flags(done, p, 2, FALSE, TRUE, unsigned)
  BY <1>1, <1>2, Zenon DEF Flags
<1>7. p.kind = "unsignedlong" /\ 3 < Len(Spelled(p, "kernel")) => Flags(done, p, 3, FALSE, TRUE, TRUE)
  BY <1>1, <1>2, <1>3, Zenon DEF Flags
<1> QED BY <1>4, <1>5, <1>6, <1>7, Zenon

\* The iteration that reads another character of the piece.
Continues(c, done, p, more, j, k, fmt, long, unsigned) ==
  /\ j \in 0 .. 2 /\ k \in 0 .. 3 /\ k = j + 1
  /\ fmt \in BOOLEAN /\ long \in BOOLEAN /\ unsigned \in BOOLEAN
  /\ Flags(done, p, k, fmt, long, unsigned)
  /\ Goes(c, Place1(done, j), Arguments(<<p>> \o more), fmt, long, unsigned, <<>>)

LEMMA GoesOn ==
  ASSUME NEW c \in Caller, NEW call, NEW done, NEW p, NEW more, NEW s0,
         Reached(call, done, p, more, s0),
         NEW j, NEW k, NEW fmt, NEW long, NEW unsigned,
         Continues(c, done, p, more, j, k, fmt, long, unsigned)
  PROVE  Prints(call, local'[c], Cur', s0)
<1>0. /\ j \in 0 .. 2 /\ k \in 0 .. 3 /\ k = j + 1
      /\ fmt \in BOOLEAN /\ long \in BOOLEAN /\ unsigned \in BOOLEAN
      /\ Flags(done, p, k, fmt, long, unsigned)
      /\ Goes(c, Place1(done, j), Arguments(<<p>> \o more), fmt, long, unsigned, <<>>)
  BY DEF Continues
<1> DEFINE args == Arguments(<<p>> \o more)
<1>1. local'[c] = Locals(Place1(done, j) + 1, args, fmt, long, unsigned, <<>>)
  BY <1>0, Zenon DEF Goes, Reached
<1>2. Cur' = Cur BY <1>0 DEF Goes, Cur
<1>3. Place1(done, j) + 1 = Len(Pattern(done, "kernel")) + 1 + k
  <2>1. PICK n \in Nat : n = Len(Pattern(done, "kernel")) BY CutLength DEF Reached
  <2>2. n + 1 + j + 1 = n + 1 + k BY <1>0
  <2> QED BY <2>1, <2>2 DEF Place1
<1> DEFINE l == Locals(Len(Pattern(done, "kernel")) + 1 + k, args, fmt, long, unsigned, <<>>)
<1>4. Reads(call, done, p, more, k, l, Cur, s0, <<>>) BY <1>0, Zenon DEF Reads, Reached
<1>5. /\ done \in Seq(Range(call)) /\ p \in Range(call) /\ more \in Seq(Range(call))
      /\ <<>> \in Seq(Ink(Range(call)))
  BY DEF Reached
<1>6. local'[c] = l BY <1>1, <1>3
<1> HIDE DEF l
<1>7. Prints(call, l, Cur, s0) BY <1>0, <1>4, <1>5, Zenon DEF Prints
<1> QED BY <1>2, <1>6, <1>7

\* The iteration that reads the last character of the piece.
Finishes(c, call, done, p, more, s0, j, unsigned) ==
  /\ p.kind # "newline" /\ Goes(c, Place1(done, j), Arguments(more), FALSE, FALSE, unsigned, Abstract!Shown(p))
     => Prints(call, local'[c], Cur', s0)
  /\ /\ p.kind = "newline"
     /\ local' = [local EXCEPT ![c] =
                    Locals(Place1(done, j) + 1, Arguments(more), FALSE, FALSE, unsigned, <<>>)]
     /\ vmem' = putn(Cur).vmem /\ idx' = putn(Cur).idx
     => Prints(call, local'[c], Cur', s0)

LEMMA GoesDone ==
  ASSUME NEW c \in Caller, NEW call, NEW done, NEW p, NEW more, NEW s0,
         Reached(call, done, p, more, s0),
         NEW j \in 0 .. 3, Len(Spelled(p, "kernel")) = j + 1,
         NEW unsigned \in BOOLEAN, unsigned => HasUnsigned(done) \/ p.kind = "unsigned"
  PROVE  Finishes(c, call, done, p, more, s0, j, unsigned)
<1> DEFINE i == Len(Pattern(done, "kernel")) + 1 + Len(Spelled(p, "kernel"))
<1>1. Place1(done, j) + 1 = i
  <2>1. PICK n \in Nat : n = Len(Pattern(done, "kernel")) BY CutLength DEF Reached
  <2>2. n + 1 + j + 1 = n + 1 + (j + 1) OBVIOUS
  <2> QED BY <2>1, <2>2 DEF Place1
<1>2. /\ p.kind # "newline" =>
           Prints(call, Locals(i, Arguments(more), FALSE, FALSE, unsigned, Abstract!Shown(p)), Cur, s0)
      /\ p.kind = "newline" =>
           Prints(call, Locals(i, Arguments(more), FALSE, FALSE, unsigned, <<>>), putn(Cur), s0)
  BY PieceDone, Zenon DEF Reached
<1> HIDE DEF i
<1>3. DOMAIN local = Caller BY DEF Reached
<1>4. ASSUME p.kind # "newline",
             Goes(c, Place1(done, j), Arguments(more), FALSE, FALSE, unsigned, Abstract!Shown(p))
      PROVE  Prints(call, local'[c], Cur', s0)
  <2>1. local'[c] = Locals(i, Arguments(more), FALSE, FALSE, unsigned, Abstract!Shown(p))
    BY <1>1, <1>3, <1>4, Zenon DEF Goes
  <2>2. Cur' = Cur BY <1>4 DEF Goes, Cur
  <2> QED BY <1>2, <1>4, <2>1, <2>2
<1>5. ASSUME p.kind = "newline",
             local' = [local EXCEPT ![c] =
                         Locals(Place1(done, j) + 1, Arguments(more), FALSE, FALSE, unsigned, <<>>)],
             vmem' = putn(Cur).vmem, idx' = putn(Cur).idx
      PROVE  Prints(call, local'[c], Cur', s0)
  <2>1. local'[c] = Locals(i, Arguments(more), FALSE, FALSE, unsigned, <<>>)
    BY <1>1, <1>3, <1>5, Zenon
  <2>2. Cur' = putn(Cur)
    <3>1. Cur' = [vmem |-> putn(Cur).vmem, idx |-> putn(Cur).idx] BY <1>5 DEF Cur
    <3>2. putn(Cur) = [vmem |-> putn(Cur).vmem, idx |-> putn(Cur).idx] BY DEF putn, scroll_text_screen
    <3> QED BY <3>1, <3>2
  <2> QED BY <1>2, <1>5, <2>1, <2>2
<1> QED BY <1>4, <1>5, Zenon DEF Finishes

\* One iteration, by the piece that it reads in.
Before(c, call, done, p, more, s0, j, fmt, long, unsigned) ==
  /\ Reached(call, done, p, more, s0) /\ Flags(done, p, j, fmt, long, unsigned)
  /\ Moves(c, Place1(done, j), Arguments(<<p>> \o more), fmt, long, unsigned,
           Spelled(p, "kernel")[j + 1])

LEMMA ReadingOne ==
  ASSUME NEW c \in Caller, NEW call, NEW done, NEW p, NEW more, NEW s0, NEW j \in 0 .. 3,
         NEW fmt \in BOOLEAN, NEW long \in BOOLEAN, NEW unsigned \in BOOLEAN,
         Before(c, call, done, p, more, s0, j, fmt, long, unsigned),
         p.kind \in Single, Spelled(p, "kernel") = <<Mark(p)>>
  PROVE  Prints(call, local'[c], Cur', s0)
<1> DEFINE args == Arguments(<<p>> \o more)
           i == Place1(done, j)
<1>1. Reached(call, done, p, more, s0) /\ Flags(done, p, j, fmt, long, unsigned) BY DEF Before
<1>2. Len(Spelled(p, "kernel")) = 1 /\ Spelled(p, "kernel")[1] = Mark(p) OBVIOUS
<1>3. j = 0
  <2>1. j < 1 BY <1>1, <1>2 DEF Flags
  <2> QED BY <2>1
<1>4. fmt = FALSE /\ long = FALSE /\ (unsigned => HasUnsigned(done)) BY <1>1, <1>3, FlagsRead
<1>5. args = Arguments(more)
  <2>1. p.kind \notin Directives BY DEF Single, Directives
  <2> QED BY <2>1, <1>1, ArgumentOf DEF Reached
<1>6. Outside(c, i, args, FALSE, FALSE, unsigned, Mark(p))
  <2>1. j + 1 = 1 BY <1>3
  <2>2. Moves(c, i, args, FALSE, FALSE, unsigned, Spelled(p, "kernel")[j + 1]) BY <1>4 DEF Before
  <2> QED BY <2>1, <2>2, <1>2 DEF Moves
<1>7. Len(Spelled(p, "kernel")) = j + 1 BY <1>2, <1>3
<1>13. Finishes(c, call, done, p, more, s0, j, unsigned) BY <1>1, <1>4, <1>7, GoesDone
<1>8. /\ p.kind # "newline" /\ Goes(c, i, Arguments(more), FALSE, FALSE, unsigned, Abstract!Shown(p))
         => Prints(call, local'[c], Cur', s0)
      /\ /\ p.kind = "newline"
         /\ local' = [local EXCEPT ![c] =
                        Locals(i + 1, Arguments(more), FALSE, FALSE, unsigned, <<>>)]
         /\ vmem' = putn(Cur).vmem /\ idx' = putn(Cur).idx
         => Prints(call, local'[c], Cur', s0)
  BY <1>13, Zenon DEF Finishes
<1>9. FitsKernel(p) BY <1>1, Pieces DEF Reached
<1> HIDE DEF args, i
<1>10. CASE p.kind = "lit"
  <2>1. Mark(p) = p.v BY <1>10 DEF Mark
  <2>2. p.v \notin {"\n", "\t", "%"} BY <1>9, <1>10 DEF FitsKernel, FitsLoader
  <2>3. Abstract!Shown(p) = <<p.v>> BY <1>9, <1>10, Converted
  <2>4. Goes(c, i, args, FALSE, FALSE, unsigned, <<p.v>>) BY <1>6, <2>1, <2>2, Zenon DEF Outside
  <2>5. p.kind # "newline" BY <1>10
  <2> QED BY <1>5, <1>8, <2>3, <2>4, <2>5, Zenon
<1>11. CASE p.kind = "newline"
  <2>1. Mark(p) = "\n" BY <1>11 DEF Mark
  <2> QED BY <1>5, <1>6, <1>8, <1>11, <2>1, Zenon DEF Outside
<1>12. CASE p.kind = "tab"
  <2>1. Mark(p) = "\t" BY <1>12 DEF Mark
  <2>3. Abstract!Shown(p) = <<" ", " ", " ", " ">> BY <1>9, <1>12, Converted
  <2>4. Goes(c, i, args, FALSE, FALSE, unsigned, <<" ", " ", " ", " ">>) BY <1>6, <2>1, Zenon DEF Outside
  <2>5. p.kind # "newline" BY <1>12
  <2> QED BY <1>5, <1>8, <2>3, <2>4, <2>5, Zenon
<1> QED BY <1>10, <1>11, <1>12 DEF Single

\* The '%' that begins a directive.
LEMMA ReadingSign ==
  ASSUME NEW c \in Caller, NEW call, NEW done, NEW p, NEW more, NEW s0, NEW j \in 0 .. 3, j = 0,
         NEW fmt \in BOOLEAN, NEW long \in BOOLEAN, NEW unsigned \in BOOLEAN,
         Before(c, call, done, p, more, s0, j, fmt, long, unsigned),
         1 < Len(Spelled(p, "kernel")), Spelled(p, "kernel")[1] = "%"
  PROVE  Prints(call, local'[c], Cur', s0)
<1> DEFINE args == Arguments(<<p>> \o more)
           i == Place1(done, j)
<1>1. Reached(call, done, p, more, s0) /\ Flags(done, p, j, fmt, long, unsigned) BY DEF Before
<1>2. fmt = FALSE /\ long = FALSE /\ (unsigned => HasUnsigned(done)) BY <1>1, FlagsRead
<1>3. Outside(c, i, args, FALSE, FALSE, unsigned, "%")
  <2>1. j + 1 = 1 OBVIOUS
  <2>2. Moves(c, i, args, FALSE, FALSE, unsigned, Spelled(p, "kernel")[j + 1]) BY <1>2 DEF Before
  <2> QED BY <2>1, <2>2 DEF Moves
<1>4. Goes(c, i, args, TRUE, FALSE, unsigned, <<>>) BY <1>3, Zenon DEF Outside
<1>5. Flags(done, p, 1, TRUE, FALSE, unsigned) BY <1>2, FlagsKept
<1>6. Continues(c, done, p, more, j, 1, TRUE, FALSE, unsigned)
  <2>1. j \in 0 .. 2 /\ 1 \in 0 .. 3 /\ 1 = j + 1 OBVIOUS
  <2> QED BY <1>4, <1>5, <2>1, Zenon DEF Continues
<1> QED BY <1>1, <1>6, GoesOn

\* The letter that ends a directive of two characters.
LEMMA ReadingLetter ==
  ASSUME NEW c \in Caller, NEW call, NEW done, NEW p, NEW more, NEW s0, NEW j \in 0 .. 3, j = 1,
         NEW fmt \in BOOLEAN, NEW long \in BOOLEAN, NEW unsigned \in BOOLEAN,
         Before(c, call, done, p, more, s0, j, fmt, long, unsigned),
         p.kind \in Double, Spelled(p, "kernel") = <<"%", Sign(p)>>
  PROVE  Prints(call, local'[c], Cur', s0)
<1> DEFINE args == Arguments(<<p>> \o more)
           i == Place1(done, j)
<1>1. Reached(call, done, p, more, s0) /\ Flags(done, p, j, fmt, long, unsigned) BY DEF Before
<1>2. fmt = TRUE /\ long = FALSE /\ (unsigned => HasUnsigned(done)) BY <1>1, FlagsRead
<1>3. Len(Spelled(p, "kernel")) = 2 /\ Spelled(p, "kernel")[2] = Sign(p) OBVIOUS
<1>4. AfterSign(c, i, args, TRUE, FALSE, unsigned, Sign(p))
  <2>1. j + 1 = 2 OBVIOUS
  <2>2. Moves(c, i, args, TRUE, FALSE, unsigned, Spelled(p, "kernel")[j + 1]) BY <1>2 DEF Before
  <2> QED BY <2>1, <2>2, <1>3 DEF Moves
<1>5. Len(Spelled(p, "kernel")) = j + 1 /\ p.kind # "newline" BY <1>3 DEF Double
<1>14. Finishes(c, call, done, p, more, s0, j, unsigned) BY <1>1, <1>2, <1>5, GoesDone
<1>6. Goes(c, i, Arguments(more), FALSE, FALSE, unsigned, Abstract!Shown(p))
      => Prints(call, local'[c], Cur', s0)
  BY <1>5, <1>14, Zenon DEF Finishes
<1>7. FitsKernel(p) BY <1>1, Pieces DEF Reached
<1>8. /\ p.kind \in Directives => Head(args) = p.v /\ Tail(args) = Arguments(more)
      /\ p.kind \notin Directives => args = Arguments(more)
  BY <1>1, ArgumentOf DEF Reached
<1> HIDE DEF args, i
<1>9. CASE p.kind = "percent"
  <2>1. Sign(p) = "%" /\ p.kind \notin Directives BY <1>9 DEF Sign, Directives
  <2>2. Abstract!Shown(p) = <<"%">> BY <1>7, <1>9, Converted
  <2>3. Goes(c, i, args, FALSE, FALSE, unsigned, <<"%">>) BY <1>4, <2>1, Zenon DEF AfterSign
  <2> QED BY <1>6, <1>8, <2>1, <2>2, <2>3, Zenon
<1>10. CASE p.kind = "char"
  <2>1. Sign(p) = "c" /\ p.kind \in Directives BY <1>10 DEF Sign, Directives
  <2>2. Abstract!Shown(p) = <<p.v>> BY <1>7, <1>10, Converted
  <2>3. Goes(c, i, Tail(args), FALSE, FALSE, unsigned, <<Head(args)>>) BY <1>4, <2>1, Zenon DEF AfterSign
  <2> QED BY <1>6, <1>8, <2>1, <2>2, <2>3, Zenon
<1>11. CASE p.kind = "str"
  <2>1. Sign(p) = "s" /\ p.kind \in Directives BY <1>11 DEF Sign, Directives
  <2>2. Abstract!Shown(p) = p.v BY <1>7, <1>11, Converted
  <2>3. Goes(c, i, Tail(args), FALSE, FALSE, unsigned, Head(args)) BY <1>4, <2>1, Zenon DEF AfterSign
  <2> QED BY <1>6, <1>8, <2>1, <2>2, <2>3, Zenon
<1>12. CASE p.kind = "int"
  <2>1. Sign(p) = "d" /\ p.kind \in Directives BY <1>12 DEF Sign, Directives
  <2>2. Abstract!Shown(p) = print_decimal(p.v) BY <1>7, <1>12, Converted
  <2>3. Goes(c, i, Tail(args), FALSE, FALSE, unsigned, print_decimal(Head(args)))
    BY <1>4, <2>1, Zenon DEF AfterSign
  <2> QED BY <1>6, <1>8, <2>1, <2>2, <2>3, Zenon
<1>13. CASE p.kind = "hex"
  <2>1. Sign(p) = "x" /\ p.kind \in Directives BY <1>13 DEF Sign, Directives
  <2>2. Abstract!Shown(p) = print_hex(p.v) BY <1>7, <1>13, Converted
  <2>3. Goes(c, i, Tail(args), FALSE, FALSE, unsigned, print_hex(Head(args)))
    BY <1>4, <2>1, Zenon DEF AfterSign
  <2> QED BY <1>6, <1>8, <2>1, <2>2, <2>3, Zenon
<1> QED BY <1>9, <1>10, <1>11, <1>12, <1>13 DEF Double

Long == {"long", "longhex"}

\* The characters of a piece, one by one.
LEMMA Letters ==
  ASSUME NEW p, FitsKernel(p)
  PROVE  LET x == Spelled(p, "kernel")
         IN  \/ p.kind \in Single /\ x = <<Mark(p)>>
             \/ p.kind \in Double /\ x = <<"%", Sign(p)>> /\ Len(x) = 2 /\ x[1] = "%"
             \/ p.kind = "unsigned" /\ Len(x) = 3 /\ x[1] = "%" /\ x[2] = "u" /\ x[3] = "d"
             \/ p.kind \in Long /\ Len(x) = 3 /\ x[1] = "%" /\ x[2] = "l" /\ x[3] = Sign(p)
             \/ p.kind = "unsignedlong" /\ Len(x) = 4
                /\ x[1] = "%" /\ x[2] = "l" /\ x[3] = "u" /\ x[4] = "d"
<1> DEFINE x == Spelled(p, "kernel")
<1>1. CASE p.kind \in Single /\ x = <<Mark(p)>> BY <1>1
<1>2. CASE p.kind \in Double /\ x = <<"%", Sign(p)>>
  <2>1. Len(x) = 2 BY <1>2
  <2>2. x[1] = "%" BY <1>2
  <2> QED BY <1>2, <2>1, <2>2
<1>3. CASE p.kind = "unsigned" /\ x = <<"%", "u", "d">>
  <2>1. Len(x) = 3 BY <1>3
  <2>2. x[1] = "%" BY <1>3
  <2>3. x[2] = "u" BY <1>3
  <2>4. x[3] = "d" BY <1>3
  <2> QED BY <1>3, <2>1, <2>2, <2>3, <2>4, Zenon
<1>4. CASE p.kind \in {"long", "longhex"} /\ x = <<"%", "l", Sign(p)>>
  <2>0. x = <<"%", "l", Sign(p)>> BY <1>4
  <2>1. Len(x) = 3 BY <2>0
  <2>2. x[1] = "%" BY <2>0
  <2>3. x[2] = "l" BY <2>0
  <2>4. x[3] = Sign(p) BY <2>0
  <2>5. p.kind \in Long BY <1>4 DEF Long
  <2> QED BY <2>1, <2>2, <2>3, <2>4, <2>5, Zenon
<1>5. CASE p.kind = "unsignedlong" /\ x = <<"%", "l", "u", "d">>
  <2>0. x = <<"%", "l", "u", "d">> BY <1>5
  <2>1. Len(x) = 4 BY <2>0
  <2>2. x[1] = "%" BY <2>0
  <2>3. x[2] = "l" BY <2>0
  <2>4. x[3] = "u" BY <2>0
  <2>5. x[4] = "d" BY <2>0
  <2> QED BY <1>5, <2>1, <2>2, <2>3, <2>4, <2>5, Zenon
<1> QED BY <1>1, <1>2, <1>3, <1>4, <1>5, Kinds

\* After the '%' of %ud, %ld, %lx and %lud.
LEMMA ReadingUnsigned ==
  ASSUME NEW c \in Caller, NEW call, NEW done, NEW p, NEW more, NEW s0, NEW j \in 1 .. 2,
         NEW fmt \in BOOLEAN, NEW long \in BOOLEAN, NEW unsigned \in BOOLEAN,
         Before(c, call, done, p, more, s0, j, fmt, long, unsigned),
         p.kind = "unsigned", Len(Spelled(p, "kernel")) = 3,
         Spelled(p, "kernel")[2] = "u", Spelled(p, "kernel")[3] = "d"
  PROVE  Prints(call, local'[c], Cur', s0)
<1> DEFINE args == Arguments(<<p>> \o more)
           i == Place1(done, j)
<1>1. Reached(call, done, p, more, s0) /\ Flags(done, p, j, fmt, long, unsigned) BY DEF Before
<1>2. /\ Len(Spelled(p, "kernel")) = 3
      /\ Spelled(p, "kernel")[2] = "u" /\ Spelled(p, "kernel")[3] = "d"
  OBVIOUS
<1>3. fmt = TRUE /\ long = FALSE
  <2>1. j = 1 \/ j = 2 OBVIOUS
  <2> QED BY <1>1, <2>1, FlagsRead
<1>4. AfterSign(c, i, args, TRUE, FALSE, unsigned, Spelled(p, "kernel")[j + 1])
  <2>1. Moves(c, i, args, TRUE, FALSE, unsigned, Spelled(p, "kernel")[j + 1]) BY <1>3 DEF Before
  <2> QED BY <2>1 DEF Moves
<1>5. CASE j = 1
  <2>1. j + 1 = 2 BY <1>5
  <2>2. AfterSign(c, i, args, TRUE, FALSE, unsigned, "u") BY <1>2, <1>4, <2>1
  <2>3. Goes(c, i, args, TRUE, FALSE, TRUE, <<>>) BY <2>2, Zenon DEF AfterSign
  <2>4. Flags(done, p, 2, TRUE, FALSE, TRUE)
    <3>1. 2 < Len(Spelled(p, "kernel")) BY <1>2
    <3> QED BY <3>1, FlagsKept
  <2>5. Continues(c, done, p, more, j, 2, TRUE, FALSE, TRUE)
    <3>1. j \in 0 .. 2 /\ 2 \in 0 .. 3 /\ 2 = j + 1 BY <1>5
    <3> QED BY <2>3, <2>4, <3>1, Zenon DEF Continues
  <2> QED BY <1>1, <2>5, GoesOn
<1>6. CASE j = 2
  <2>1. j + 1 = 3 /\ Len(Spelled(p, "kernel")) = j + 1 /\ j \in 0 .. 3 BY <1>2, <1>6
  <2>2. AfterSign(c, i, args, TRUE, FALSE, unsigned, "d") BY <1>2, <1>4, <2>1
  <2>3. Goes(c, i, Tail(args), FALSE, FALSE, unsigned, print_decimal(Head(args)))
    BY <2>2, Zenon DEF AfterSign
  <2>4. Head(args) = p.v /\ Tail(args) = Arguments(more)
    <3>1. p.kind \in Directives BY DEF Directives
    <3> QED BY <1>1, <3>1, ArgumentOf DEF Reached
  <2>5. Abstract!Shown(p) = print_decimal(p.v)
    <3>1. FitsKernel(p) BY <1>1, Pieces DEF Reached
    <3> QED BY <3>1, Converted
  <2>6. Finishes(c, call, done, p, more, s0, j, unsigned) BY <1>1, <2>1, GoesDone
  <2>7. p.kind # "newline" OBVIOUS
  <2> HIDE DEF args, i
  <2>8. Goes(c, i, Arguments(more), FALSE, FALSE, unsigned, Abstract!Shown(p)) BY <2>3, <2>4, <2>5, Zenon
  <2> QED BY <2>6, <2>7, <2>8, Zenon DEF Finishes, i
<1> QED BY <1>5, <1>6

\* The 'l' of a long directive.
LEMMA ReadingL ==
  ASSUME NEW c \in Caller, NEW call, NEW done, NEW p, NEW more, NEW s0, NEW j \in 0 .. 3, j = 1,
         NEW fmt \in BOOLEAN, NEW long \in BOOLEAN, NEW unsigned \in BOOLEAN,
         Before(c, call, done, p, more, s0, j, fmt, long, unsigned),
         p.kind # "unsigned", 2 < Len(Spelled(p, "kernel")), Spelled(p, "kernel")[2] = "l"
  PROVE  Prints(call, local'[c], Cur', s0)
<1> DEFINE args == Arguments(<<p>> \o more)
           i == Place1(done, j)
<1>1. Reached(call, done, p, more, s0) /\ Flags(done, p, j, fmt, long, unsigned) BY DEF Before
<1>2. fmt = TRUE /\ long = FALSE /\ (unsigned => HasUnsigned(done)) BY <1>1, FlagsRead
<1>3. AfterSign(c, i, args, TRUE, FALSE, unsigned, "l")
  <2>1. j + 1 = 2 OBVIOUS
  <2>2. Moves(c, i, args, TRUE, FALSE, unsigned, Spelled(p, "kernel")[j + 1]) BY <1>2 DEF Before
  <2> QED BY <2>1, <2>2 DEF Moves
<1>4. Goes(c, i, args, FALSE, TRUE, unsigned, <<>>) BY <1>3, Zenon DEF AfterSign
<1>5. Flags(done, p, 2, FALSE, TRUE, unsigned) BY <1>2, FlagsKept
<1>6. Continues(c, done, p, more, j, 2, FALSE, TRUE, unsigned)
  <2>1. j \in 0 .. 2 /\ 2 \in 0 .. 3 /\ 2 = j + 1 OBVIOUS
  <2> QED BY <1>4, <1>5, <2>1, Zenon DEF Continues
<1> QED BY <1>1, <1>6, GoesOn

\* The letter that ends %ld or %lx.
LEMMA ReadingLong ==
  ASSUME NEW c \in Caller, NEW call, NEW done, NEW p, NEW more, NEW s0, NEW j \in 0 .. 3, j = 2,
         NEW fmt \in BOOLEAN, NEW long \in BOOLEAN, NEW unsigned \in BOOLEAN,
         Before(c, call, done, p, more, s0, j, fmt, long, unsigned),
         p.kind \in Long, Len(Spelled(p, "kernel")) = 3,
         Spelled(p, "kernel")[3] = Sign(p)
  PROVE  Prints(call, local'[c], Cur', s0)
<1> DEFINE args == Arguments(<<p>> \o more)
           i == Place1(done, j)
<1>1. Reached(call, done, p, more, s0) /\ Flags(done, p, j, fmt, long, unsigned) BY DEF Before
<1>2. fmt = FALSE /\ long = TRUE /\ (unsigned => HasUnsigned(done)) BY <1>1, FlagsRead DEF Long
<1>3. Len(Spelled(p, "kernel")) = 3 /\ Spelled(p, "kernel")[3] = Sign(p) OBVIOUS
<1>4. AfterL(c, i, args, FALSE, TRUE, unsigned, Sign(p))
  <2>1. j + 1 = 3 OBVIOUS
  <2>2. Moves(c, i, args, FALSE, TRUE, unsigned, Spelled(p, "kernel")[j + 1]) BY <1>2 DEF Before
  <2> QED BY <2>1, <2>2, <1>3 DEF Moves
<1>5. FitsKernel(p) BY <1>1, Pieces DEF Reached
<1>6. unsigned => p.v >= 0 BY <1>1, <1>2, NotNegative DEF Reached, Long
<1>7. Head(args) = p.v /\ Tail(args) = Arguments(more)
  <2>1. p.kind \in Directives BY DEF Directives, Long
  <2> QED BY <1>1, <2>1, ArgumentOf DEF Reached
<1>8. Finishes(c, call, done, p, more, s0, j, FALSE)
  <2>1. PICK f \in BOOLEAN : f = FALSE OBVIOUS
  <2>2. Len(Spelled(p, "kernel")) = j + 1 BY <1>3
  <2>3. f => HasUnsigned(done) \/ p.kind = "unsigned" BY <2>1
  <2> QED BY <1>1, <2>1, <2>2, <2>3, GoesDone
<1>9. p.kind # "newline" BY DEF Long
<1>10. /\ p.kind = "long" => Abstract!Shown(p) = print_num(p.v, unsigned, FALSE)
       /\ p.kind = "longhex" => Abstract!Shown(p) = print_num(p.v, unsigned, TRUE)
  BY <1>5, <1>6, ConvertedLong
<1> HIDE DEF args, i
<1>11. Goes(c, i, Arguments(more), FALSE, FALSE, FALSE, Abstract!Shown(p))
  <2>1. CASE p.kind = "long"
    <3>1. Sign(p) = "d" BY <2>1 DEF Sign
    <3> QED BY <1>4, <1>7, <1>10, <2>1, <3>1, Zenon DEF AfterL
  <2>2. CASE p.kind = "longhex"
    <3>1. Sign(p) = "x" BY <2>2 DEF Sign
    <3> QED BY <1>4, <1>7, <1>10, <2>2, <3>1, Zenon DEF AfterL
  <2> QED BY <2>1, <2>2 DEF Long
<1> QED BY <1>8, <1>9, <1>11, Zenon DEF Finishes, i

\* The end of %lud.
LEMMA ReadingUnsignedLong ==
  ASSUME NEW c \in Caller, NEW call, NEW done, NEW p, NEW more, NEW s0, NEW j \in 2 .. 3,
         NEW fmt \in BOOLEAN, NEW long \in BOOLEAN, NEW unsigned \in BOOLEAN,
         Before(c, call, done, p, more, s0, j, fmt, long, unsigned),
         p.kind = "unsignedlong", Len(Spelled(p, "kernel")) = 4,
         Spelled(p, "kernel")[3] = "u", Spelled(p, "kernel")[4] = "d"
  PROVE  Prints(call, local'[c], Cur', s0)
<1> DEFINE args == Arguments(<<p>> \o more)
           i == Place1(done, j)
<1>1. Reached(call, done, p, more, s0) /\ Flags(done, p, j, fmt, long, unsigned) BY DEF Before
<1>2. /\ Len(Spelled(p, "kernel")) = 4
      /\ Spelled(p, "kernel")[3] = "u" /\ Spelled(p, "kernel")[4] = "d"
  OBVIOUS
<1>0. j = 2 \/ j = 3 OBVIOUS
<1>3. fmt = FALSE /\ long = TRUE /\ (j = 3 => unsigned = TRUE)
  <2>2. p.kind # "unsigned" OBVIOUS
  <2> QED BY <1>0, <1>1, <2>2, FlagsRead
<1>4. AfterL(c, i, args, FALSE, TRUE, unsigned, Spelled(p, "kernel")[j + 1])
  <2>1. Moves(c, i, args, FALSE, TRUE, unsigned, Spelled(p, "kernel")[j + 1]) BY <1>3 DEF Before
  <2> QED BY <2>1 DEF Moves
<1>5. CASE j = 2
  <2>1. j + 1 = 3 BY <1>5
  <2>2. AfterL(c, i, args, FALSE, TRUE, unsigned, "u") BY <1>2, <1>4, <2>1
  <2>3. Goes(c, i, args, FALSE, TRUE, TRUE, <<>>) BY <2>2, Zenon DEF AfterL
  <2>4. Flags(done, p, 3, FALSE, TRUE, TRUE)
    <3>1. 3 < Len(Spelled(p, "kernel")) BY <1>2
    <3> QED BY <3>1, FlagsKept
  <2>5. Continues(c, done, p, more, j, 3, FALSE, TRUE, TRUE)
    <3>1. j \in 0 .. 2 /\ 3 \in 0 .. 3 /\ 3 = j + 1 BY <1>5
    <3> QED BY <2>3, <2>4, <3>1, Zenon DEF Continues
  <2> QED BY <1>1, <2>5, GoesOn
<1>6. CASE j = 3
  <2>1. j + 1 = 4 /\ Len(Spelled(p, "kernel")) = j + 1 /\ j \in 0 .. 3 BY <1>2, <1>6
  <2>2. AfterL(c, i, args, FALSE, TRUE, TRUE, "d") BY <1>2, <1>3, <1>4, <1>6, <2>1
  <2>3. Goes(c, i, Tail(args), FALSE, FALSE, FALSE, print_num(Head(args), TRUE, FALSE))
    BY <2>2, Zenon DEF AfterL
  <2>4. Head(args) = p.v /\ Tail(args) = Arguments(more)
    <3>1. p.kind \in Directives BY DEF Directives
    <3> QED BY <1>1, <3>1, ArgumentOf DEF Reached
  <2>5. Abstract!Shown(p) = print_num(p.v, TRUE, FALSE)
    <3>1. FitsKernel(p) BY <1>1, Pieces DEF Reached
    <3> QED BY <3>1, Converted
  <2>6. Finishes(c, call, done, p, more, s0, j, FALSE)
    <3>1. PICK f \in BOOLEAN : f = FALSE OBVIOUS
    <3>2. f => HasUnsigned(done) \/ p.kind = "unsigned" BY <3>1
    <3> QED BY <1>1, <2>1, <3>1, <3>2, GoesDone
  <2>7. p.kind # "newline" OBVIOUS
  <2> HIDE DEF args, i
  <2>8. Goes(c, i, Arguments(more), FALSE, FALSE, FALSE, Abstract!Shown(p)) BY <2>3, <2>4, <2>5, Zenon
  <2> QED BY <2>6, <2>7, <2>8, Zenon DEF Finishes, i
<1> QED BY <1>0, <1>5, <1>6

LEMMA PatternLength == ASSUME NEW call \in KernelCall PROVE Len(Pattern(call, "kernel")) \in Nat
<1> DEFINE R == Range(call)
           G == Spell(R, "kernel")
           L == Letter(R)
<1>1. call \in Seq(R) /\ G \in [R -> Seq(L)] BY Pieces
<1>2. Joining(G, R, L)
  <2> HIDE DEF R, G, L
  <2> QED BY <1>1, Joins
<1>3. Flat(G, call) \in Seq(L)
  <2> HIDE DEF R, G, L
  <2> QED BY <1>1, <1>2 DEF Joining
<1>4. Pattern(call, "kernel") = Flat(G, call) BY <1>1, AsFlat
<1> HIDE DEF G, L
<1> QED BY <1>3, <1>4, LenProperties

LEMMA ReadingAny ==
  ASSUME NEW c \in Caller, NEW call, NEW done, NEW p, NEW more, NEW s0, NEW j \in 0 .. 3,
         NEW fmt \in BOOLEAN, NEW long \in BOOLEAN, NEW unsigned \in BOOLEAN,
         Before(c, call, done, p, more, s0, j, fmt, long, unsigned),
         FitsKernel(p), j < Len(Spelled(p, "kernel"))
  PROVE  Prints(call, local'[c], Cur', s0)
<1> DEFINE x == Spelled(p, "kernel")
<1>1. PICK m : m = Len(x) OBVIOUS
<1>2. j < m BY <1>1
<1>14. CASE p.kind \in Single /\ x = <<Mark(p)>> BY <1>14, ReadingOne
<1>15. CASE p.kind \in Double /\ x = <<"%", Sign(p)>> /\ Len(x) = 2 /\ x[1] = "%"
  <2>9. m = 2 BY <1>1, <1>15, Zenon
  <2>1. Len(x) = 2 /\ x[1] = "%" BY <1>15, Zenon
  <2>2. j = 0 \/ j = 1 BY <1>2, <2>9
  <2>3. CASE j = 0
    <3>1. 1 < Len(x)
      <4>1. 1 < m BY <2>9
      <4> QED BY <1>1, <4>1
    <3> QED BY <2>1, <2>3, <3>1, ReadingSign
  <2>4. CASE j = 1 BY <1>15, <2>4, ReadingLetter
  <2> QED BY <2>2, <2>3, <2>4
<1>16. CASE p.kind = "unsigned" /\ Len(x) = 3 /\ x[1] = "%" /\ x[2] = "u" /\ x[3] = "d"
  <2>5. p.kind = "unsigned" BY <1>16
  <2>9. m = 3 BY <1>1, <1>16, Zenon
  <2>1. Len(x) = 3 /\ x[1] = "%" /\ x[2] = "u" /\ x[3] = "d" BY <1>16
  <2>2. j = 0 \/ j \in 1 .. 2 BY <1>2, <2>9
  <2>3. CASE j = 0
    <3>1. 1 < Len(x)
      <4>1. 1 < m BY <2>9
      <4> QED BY <1>1, <4>1
    <3> QED BY <2>1, <2>3, <3>1, ReadingSign
  <2>4. CASE j \in 1 .. 2 BY <2>1, <2>4, <2>5, ReadingUnsigned
  <2> QED BY <2>2, <2>3, <2>4
<1>17. CASE p.kind \in Long /\ Len(x) = 3 /\ x[1] = "%" /\ x[2] = "l" /\ x[3] = Sign(p)
  <2>6. p.kind \in Long BY <1>17
  <2>9. m = 3 BY <1>1, <1>17, Zenon
  <2>1. Len(x) = 3 /\ x[1] = "%" /\ x[2] = "l" /\ x[3] = Sign(p) BY <1>17
  <2>2. j = 0 \/ j = 1 \/ j = 2 BY <1>2, <2>9
  <2>3. CASE j = 0
    <3>1. 1 < Len(x)
      <4>1. 1 < m BY <2>9
      <4> QED BY <1>1, <4>1
    <3> QED BY <2>1, <2>3, <3>1, ReadingSign
  <2>4. CASE j = 1
    <3>1. 2 < Len(x)
      <4>1. 2 < m BY <2>9
      <4> QED BY <1>1, <4>1
    <3>2. p.kind # "unsigned" BY <2>6 DEF Long
    <3> QED BY <2>1, <2>4, <3>1, <3>2, ReadingL
  <2>5. CASE j = 2 BY <2>1, <2>5, <2>6, ReadingLong
  <2> QED BY <2>2, <2>3, <2>4, <2>5
<1>18. CASE p.kind = "unsignedlong" /\ Len(x) = 4
             /\ x[1] = "%" /\ x[2] = "l" /\ x[3] = "u" /\ x[4] = "d"
  <2>6. p.kind = "unsignedlong" BY <1>18
  <2>9. m = 4 BY <1>1, <1>18, Zenon
  <2>1. Len(x) = 4 /\ x[1] = "%" /\ x[2] = "l" /\ x[3] = "u" /\ x[4] = "d" BY <1>18
  <2>2. j = 0 \/ j = 1 \/ j \in 2 .. 3 OBVIOUS
  <2>3. CASE j = 0
    <3>1. 1 < Len(x)
      <4>1. 1 < m BY <2>9
      <4> QED BY <1>1, <4>1
    <3> QED BY <2>1, <2>3, <3>1, ReadingSign
  <2>4. CASE j = 1
    <3>1. 2 < Len(x)
      <4>1. 2 < m BY <2>9
      <4> QED BY <1>1, <4>1
    <3>2. p.kind # "unsigned" BY <2>6 DEF Long
    <3> QED BY <2>1, <2>4, <3>1, <3>2, ReadingL
  <2>5. CASE j \in 2 .. 3 BY <2>1, <2>5, <2>6, ReadingUnsignedLong
  <2> QED BY <2>2, <2>3, <2>4, <2>5
<1> QED BY <1>14, <1>15, <1>16, <1>17, <1>18, Letters, Zenon

\* An iteration keeps the loop where its call is printed.
LEMMA LoopPrints ==
  ASSUME NEW c \in Caller, DOMAIN local = Caller, NEW call \in KernelCall, msg[c] = call,
         Loop(c), NEW s0, Prints(call, local[c], Cur, s0)
  PROVE  Prints(call, local'[c], Cur', s0)
<1> DEFINE l == local[c]
<1>1. KernelPattern[call] = Pattern(call, "kernel") BY DEF KernelPattern
<1>2. PICK out \in Seq(Ink(Range(call))) :
        \/ Ends(call, l, Cur, s0, out)
        \/ \E done, more \in Seq(Range(call)), p \in Range(call), j \in 0 .. 3 :
             Reads(call, done, p, more, j, l, Cur, s0, out)
  BY DEF Prints
<1>3. ~ Ends(call, l, Cur, s0, out)
  <2> SUFFICES ASSUME Ends(call, l, Cur, s0, out) PROVE FALSE OBVIOUS
  <2>1. PICK n \in Nat : n = Len(Pattern(call, "kernel")) BY PatternLength
  <2>2. PICK unsigned \in BOOLEAN : l = Locals(n + 1, <<>>, FALSE, FALSE, unsigned, out) BY <2>1 DEF Ends
  <2>3. local[c].i <= n BY <1>1, <2>1 DEF Loop
  <2> HIDE DEF l
  <2>4. l.i = n + 1 BY <2>2, Zenon DEF Locals
  <2>5. l.i <= n BY <2>3 DEF l
  <2> QED BY <2>4, <2>5
<1>4. PICK done \in Seq(Range(call)), more \in Seq(Range(call)), p \in Range(call), j \in 0 .. 3 :
        Reads(call, done, p, more, j, l, Cur, s0, out)
  BY <1>2, <1>3
<1> DEFINE args == Arguments(<<p>> \o more)
           i == Len(Pattern(done, "kernel")) + 1 + j
           x == Spelled(p, "kernel")
<1>5. PICK fmt \in BOOLEAN, long \in BOOLEAN, unsigned \in BOOLEAN :
        Flags(done, p, j, fmt, long, unsigned) /\ l = Locals(i, args, fmt, long, unsigned, out)
  BY <1>4 DEF Reads
<1>6. call = done \o (<<p>> \o more) /\ Shows(call, done, Cur, s0, out) BY <1>4 DEF Reads
<1>7. /\ out = <<>> /\ i <= Len(KernelPattern[msg[c]])
      /\ fmt => AfterSign(c, i, args, fmt, long, unsigned, KernelPattern[msg[c]][i])
      /\ ~fmt /\ long => AfterL(c, i, args, fmt, long, unsigned, KernelPattern[msg[c]][i])
      /\ ~fmt /\ ~long => Outside(c, i, args, fmt, long, unsigned, KernelPattern[msg[c]][i])
  <2> HIDE DEF i, args
  <2>1. PICK ch : ch = KernelPattern[msg[c]][i] OBVIOUS
  <2> QED BY <1>5, <2>1, Effect
<1>8. KernelPattern[msg[c]][i] = x[j + 1]
  <2>1. CutAt(call, done, p, more) BY <1>6, Cut
  <2>2. PICK n \in Nat : n = Len(Pattern(done, "kernel")) BY <1>6, CutLength
  <2>3. \A k \in 1 .. Len(x) : Pattern(call, "kernel")[n + k] = x[k] BY <2>1, <2>2, Zenon DEF CutAt
  <2>4. PICK y \in 1 .. 4 : y = Len(x)
    <3>1. FitsKernel(p) BY Pieces
    <3> QED BY <3>1, SpelledTyped
  <2>5. j < y BY <1>5, <2>4 DEF Flags
  <2> HIDE DEF x
  <2>6. j + 1 \in 1 .. y /\ n + 1 + j = n + (j + 1) BY <2>5
  <2>7. Pattern(call, "kernel")[n + (j + 1)] = x[j + 1] BY <2>3, <2>4, <2>6
  <2> QED BY <1>1, <2>2, <2>6, <2>7
<1>9. Moves(c, i, args, fmt, long, unsigned, x[j + 1]) BY <1>7, <1>8, Zenon DEF Moves
<1>10. Reached(call, done, p, more, s0) BY <1>6, <1>7 DEF Reached
<1>11. Before(c, call, done, p, more, s0, j, fmt, long, unsigned)
  BY <1>5, <1>9, <1>10 DEF Before, Place1
<1>12. j < Len(x) BY <1>5 DEF Flags
<1>13. FitsKernel(p) BY Pieces
<1> QED BY <1>11, <1>12, <1>13, ReadingAny

\* A character of out reaches the screen.
LEMMA ShownMore ==
  ASSUME NEW call, NEW done, NEW s, NEW s0, NEW out, Shows(call, done, s, s0, out), out # <<>>
  PROVE  Shows(call, done, putc(s, Head(out)), s0, Tail(out))
<1> DEFINE S == Ink(Range(call))
<1>1. out \in Seq(S) /\ Board(s, Cells) BY DEF Shows
<1>2. Head(out) \in S /\ Tail(out) \in Seq(S) /\ out = <<Head(out)>> \o Tail(out)
  <2> HIDE DEF S
  <2> QED BY <1>1, Taken
<1>3. PICK ch \in S, t \in Seq(S) : ch = Head(out) /\ t = Tail(out) BY <1>2
<1>4. Printable(ch) BY DEF Ink
<1>5. Board(putc(s, ch), Cells) /\ Screen(putc(s, ch)) = Abstract!PutChar(Screen(s), ch, "kernel")
  BY <1>1, <1>4, PutKernel
<1> HIDE DEF S
<1>6. PICK a \in Seq(S) : a = <<ch>> BY Tuple1
<1>7. Abstract!Show(Screen(s), a \o t, "kernel") =
        Abstract!Show(Abstract!Show(Screen(s), a, "kernel"), t, "kernel")
  BY ShowJoined
<1>8. Abstract!Show(Screen(s), a, "kernel") = Abstract!PutChar(Screen(s), ch, "kernel") BY <1>6, ShowOne
<1>9. out = a \o t BY <1>2, <1>3, <1>6
<1>10. Abstract!Show(Screen(putc(s, ch)), t, "kernel") =
         Abstract!Show(Screen(s0), Abstract!Text(done), "kernel")
  BY <1>5, <1>7, <1>8, <1>9 DEF Shows
<1> QED BY <1>3, <1>5, <1>10 DEF Shows, S

LEMMA PutPrints ==
  ASSUME NEW c \in Caller, DOMAIN local = Caller, NEW call \in KernelCall,
         Put(c), NEW s0, Prints(call, local[c], Cur, s0)
  PROVE  Prints(call, local'[c], Cur', s0)
<1> DEFINE l == local[c]
<1>1. PICK out \in Seq(Ink(Range(call))) :
        \/ Ends(call, l, Cur, s0, out)
        \/ \E done, more \in Seq(Range(call)), p \in Range(call), j \in 0 .. 3 :
             Reads(call, done, p, more, j, l, Cur, s0, out)
  BY DEF Prints
<1>2. PICK t : t = Tail(out) OBVIOUS
<1>3. /\ l.out = out => out # <<>> /\ Cur' = putc(Cur, Head(out))
                        /\ local' = [local EXCEPT ![c] = [l EXCEPT !.out = t]]
  <2>1. Put(c) => /\ l.out # <<>> /\ vmem' = putc(Cur, Head(l.out)).vmem /\ idx' = putc(Cur, Head(l.out)).idx
                  /\ local' = [local EXCEPT ![c] = [local[c] EXCEPT !.out = Tail(l.out)]]
    BY DEF Put, Cur
  <2>2. \A ch : putc(Cur, ch) = [vmem |-> putc(Cur, ch).vmem, idx |-> putc(Cur, ch).idx] BY DEF putc, Stored
  <2>3. Cur' = [vmem |-> vmem', idx |-> idx'] BY DEF Cur
  <2> QED BY <1>2, <2>1, <2>2, <2>3
<1>4. CASE Ends(call, l, Cur, s0, out)
  <2>1. PICK unsigned \in BOOLEAN :
          l = Locals(Len(Pattern(call, "kernel")) + 1, <<>>, FALSE, FALSE, unsigned, out)
    BY <1>4 DEF Ends
  <2>2. PICK i : i = Len(Pattern(call, "kernel")) + 1 OBVIOUS
  <2>3. l.out = out /\ [l EXCEPT !.out = t] = Locals(i, <<>>, FALSE, FALSE, unsigned, t)
    <3>1. PICK f, o : f = FALSE /\ o = <<>> OBVIOUS
    <3>2. l = [i |-> i, args |-> o, fmt |-> f, long |-> f, unsigned |-> unsigned, out |-> out]
      BY <2>1, <2>2, <3>1 DEF Locals
    <3> HIDE DEF l
    <3>3. l.out = out BY <3>2
    <3>4. [l EXCEPT !.out = t] =
            [i |-> i, args |-> o, fmt |-> f, long |-> f, unsigned |-> unsigned, out |-> t]
      BY <3>2
    <3> QED BY <3>1, <3>3, <3>4, Zenon DEF Locals
  <2>4. local'[c] = Locals(i, <<>>, FALSE, FALSE, unsigned, t) BY <1>3, <2>3
  <2>8. Shows(call, call, Cur, s0, out) BY <1>4 DEF Ends
  <2>5. Shows(call, call, Cur', s0, t) BY <1>2, <1>3, <2>3, <2>8, ShownMore
  <2>6. Ends(call, local'[c], Cur', s0, t) BY <2>2, <2>4, <2>5 DEF Ends
  <2>7. t \in Seq(Ink(Range(call))) BY <2>5 DEF Shows
  <2> QED BY <2>6, <2>7, Zenon DEF Prints
<1>5. ASSUME NEW done \in Seq(Range(call)), NEW more \in Seq(Range(call)), NEW p \in Range(call), NEW j \in 0 .. 3,
             Reads(call, done, p, more, j, l, Cur, s0, out)
      PROVE  Prints(call, local'[c], Cur', s0)
  <2> DEFINE args == Arguments(<<p>> \o more)
             i == Len(Pattern(done, "kernel")) + 1 + j
  <2>1. PICK fmt \in BOOLEAN, long \in BOOLEAN, unsigned \in BOOLEAN :
          Flags(done, p, j, fmt, long, unsigned) /\ l = Locals(i, args, fmt, long, unsigned, out)
    BY <1>5 DEF Reads
  <2>2. PICK k, a : k = i /\ a = args OBVIOUS
  <2>3. l.out = out /\ [l EXCEPT !.out = t] = Locals(k, a, fmt, long, unsigned, t)
    <3>1. l = [i |-> k, args |-> a, fmt |-> fmt, long |-> long, unsigned |-> unsigned, out |-> out]
      BY <2>1, <2>2 DEF Locals
    <3> HIDE DEF l
    <3>2. l.out = out BY <3>1
    <3>3. [l EXCEPT !.out = t] =
            [i |-> k, args |-> a, fmt |-> fmt, long |-> long, unsigned |-> unsigned, out |-> t]
      BY <3>1
    <3> QED BY <3>2, <3>3, Zenon DEF Locals
  <2>4. local'[c] = Locals(i, args, fmt, long, unsigned, t) BY <1>3, <2>2, <2>3
  <2>5. Shows(call, done, Cur, s0, out) /\ call = done \o (<<p>> \o more) BY <1>5 DEF Reads
  <2>6. Shows(call, done, Cur', s0, t) BY <1>2, <1>3, <2>3, <2>5, ShownMore
  <2> HIDE DEF l
  <2>7. Reads(call, done, p, more, j, local'[c], Cur', s0, t) BY <2>1, <2>4, <2>5, <2>6, Zenon DEF Reads
  <2>8. t \in Seq(Ink(Range(call))) BY <2>6 DEF Shows
  <2> QED BY <2>7, <2>8, Zenon DEF Prints
<1> QED BY <1>1, <1>4, <1>5

\* The loop begins with nothing printed.
LEMMA EnterPrints ==
  ASSUME NEW c \in Caller, DOMAIN local = Caller, NEW call \in KernelCall, msg[c] = call,
         Enter(c), Board(Cur, Cells)
  PROVE  Prints(call, local'[c], Cur', Cur)
<1>1. call \in Seq(Range(call)) BY CallAssumption
<1>2. PICK args : args = Arguments(call) OBVIOUS
<1>3. [StartLocals EXCEPT !.args = args] = Locals(1, args, FALSE, FALSE, FALSE, <<>>)
  <2>1. PICK f, n, o : f = FALSE /\ n = 1 /\ o = <<>> OBVIOUS
  <2>2. StartLocals = [i |-> n, args |-> o, fmt |-> f, long |-> f, unsigned |-> f, out |-> o]
    BY <2>1 DEF StartLocals
  <2>3. [StartLocals EXCEPT !.args = args] =
          [i |-> n, args |-> args, fmt |-> f, long |-> f, unsigned |-> f, out |-> o]
    BY <2>2
  <2> QED BY <2>1, <2>3 DEF Locals
<1>4. local'[c] = Locals(1, args, FALSE, FALSE, FALSE, <<>>)
  <2>1. local' = [local EXCEPT ![c] = [StartLocals EXCEPT !.args = args]] BY <1>2 DEF Enter
  <2> QED BY <1>3, <2>1
<1>5. Cur' = Cur BY DEF Enter, Cur, board
<1>6. PICK none : none = <<>> OBVIOUS
<1>7. none \in Seq(Range(call)) /\ call = none \o call /\ Pattern(none, "kernel") = <<>>
      /\ Abstract!Text(none) = <<>>
  <2>1. none \in Seq(Range(call)) BY <1>6
  <2>2. call = none \o call BY <1>1, <1>6, ConcatEmptySeq
  <2>3. Pattern(none, "kernel") = <<>> BY <1>6 DEF Pattern, FlattenSeq
  <2>4. Abstract!Text(none) = <<>>
    <3>1. PICK t : t = [i \in DOMAIN none |-> Abstract!Shown(none[i])] OBVIOUS
    <3>2. t = <<>>
      <4>1. DOMAIN none = 1 .. 0 BY <1>6
      <4> QED BY <3>1, <4>1
    <3>3. FlattenSeq(t) = <<>> BY <3>2 DEF FlattenSeq
    <3> QED BY <3>1, <3>3, SameFlatten DEF Abstract!Text
  <2> QED BY <2>1, <2>2, <2>3, <2>4
<1>8. Shows(call, none, Cur, Cur, <<>>)
  <2>1. <<>> \in Seq(Ink(Range(call))) OBVIOUS
  <2> QED BY <1>7, <2>1 DEF Shows
<1>9. PICK f \in BOOLEAN : f = FALSE OBVIOUS
<1>10. PICK u : u = Cur OBVIOUS
<1>11. Prints(call, Locals(Len(Pattern(none, "kernel")) + 1, Arguments(call), FALSE, FALSE, f, <<>>), u, u)
  <2>1. f => HasUnsigned(none) BY <1>9
  <2>2. Shows(call, none, u, u, <<>>) BY <1>8, <1>10
  <2> QED BY <1>1, <1>7, <2>1, <2>2, Between
<1>12. Len(Pattern(none, "kernel")) + 1 = 1
  <2>1. Len(<<>>) = 0 OBVIOUS
  <2>2. PICK z : z = Len(<<>>) OBVIOUS
  <2> QED BY <1>7, <2>1, <2>2
<1> QED BY <1>2, <1>4, <1>5, <1>9, <1>10, <1>11, <1>12

\* Where the loop ends the whole text is on the screen.
LEMMA Printed ==
  ASSUME NEW c \in Caller, NEW call \in KernelCall, msg[c] = call, LoadHead(c),
         NEW s0, Prints(call, local[c], Cur, s0)
  PROVE  Board(Cur, Cells) /\ Screen(Cur) = Abstract!Show(Screen(s0), Abstract!Text(call), "kernel")
<1> DEFINE l == local[c]
<1>1. PICK out \in Seq(Ink(Range(call))) :
        \/ Ends(call, l, Cur, s0, out)
        \/ \E done, more \in Seq(Range(call)), p \in Range(call), j \in 0 .. 3 :
             Reads(call, done, p, more, j, l, Cur, s0, out)
  BY DEF Prints
<1>2. KernelPattern[call] = Pattern(call, "kernel") BY DEF KernelPattern
<1>3. l.out = <<>> /\ l.i > Len(Pattern(call, "kernel")) BY <1>2 DEF LoadHead
<1>4. CASE Ends(call, l, Cur, s0, out)
  <2>1. PICK unsigned \in BOOLEAN :
          l = Locals(Len(Pattern(call, "kernel")) + 1, <<>>, FALSE, FALSE, unsigned, out)
    BY <1>4 DEF Ends
  <2> HIDE DEF l
  <2>2. l.out = out BY <2>1, Zenon DEF Locals
  <2>3. Shows(call, call, Cur, s0, <<>>) BY <1>3, <1>4, <2>2 DEF Ends
  <2> QED BY <2>3, Quiet DEF Shows
<1>5. ASSUME NEW done \in Seq(Range(call)), NEW more \in Seq(Range(call)), NEW p \in Range(call), NEW j \in 0 .. 3,
             Reads(call, done, p, more, j, l, Cur, s0, out)
      PROVE  FALSE
  <2> DEFINE args == Arguments(<<p>> \o more)
             i == Len(Pattern(done, "kernel")) + 1 + j
  <2>1. PICK fmt \in BOOLEAN, long \in BOOLEAN, unsigned \in BOOLEAN :
          Flags(done, p, j, fmt, long, unsigned) /\ l = Locals(i, args, fmt, long, unsigned, out)
    BY <1>5 DEF Reads
  <2> HIDE DEF l
  <2>2. l.i = i BY <2>1, Zenon DEF Locals
  <2>3. call = done \o (<<p>> \o more) BY <1>5 DEF Reads
  <2>4. CutAt(call, done, p, more) BY <2>3, Cut
  <2>5. PICK n \in Nat : n = Len(Pattern(done, "kernel")) BY <2>3, CutLength
  <2>6. PICK y \in 1 .. 4 : y = Len(Spelled(p, "kernel"))
    <3>1. FitsKernel(p) BY Pieces
    <3> QED BY <3>1, SpelledTyped
  <2>7. PICK z \in Nat : z = Len(Pattern(call, "kernel")) BY PatternLength
  <2>8. n + y <= z
    <3>1. Len(Pattern(done \o <<p>>, "kernel")) = n + y BY <2>3, <2>5, <2>6, CutLength
    <3>2. Len(Pattern(done \o <<p>>, "kernel")) <= z BY <2>4, <2>7, Zenon DEF CutAt
    <3> QED BY <3>1, <3>2
  <2>9. j < y BY <2>1, <2>6 DEF Flags
  <2>10. n + 1 + j > z BY <1>3, <2>2, <2>5, <2>7
  <2> QED BY <2>8, <2>9, <2>10
<1> QED BY <1>1, <1>4, <1>5

-----------------------------------------------------------------------------
\* The loader's printer.

\* ld_print.  A call of the loader's fits the kernel's printer too.
LEMMA LoaderFits == ASSUME NEW p, FitsLoader(p) PROVE FitsKernel(p)
<1>1. CASE p.kind \in {"int", "long"}
  <2>1. p.v \in 0 .. Word - 1 BY <1>1 DEF FitsLoader
  <2>2. Word \in Nat \ {0} BY CallAssumption
  <2>3. p.v \in Int /\ p.v \in 1 - Word .. Word - 1 BY <2>1, <2>2
  <2> QED BY <1>1, <2>3 DEF FitsKernel
<1>2. CASE p.kind \notin {"int", "long"} BY <1>2 DEF FitsKernel
<1> QED BY <1>1, <1>2

\* The text reaches the screen character by character.
LEMMA PutText ==
  ASSUME NEW s, NEW R, NEW text \in Seq(Ink(R)), Board(s, Cells - 1)
  PROVE  /\ Board(PutAll(s, text), Cells - 1)
         /\ Screen(PutAll(s, text)) = Abstract!Show(Screen(s), text, "loader")
<1> DEFINE n == Len(text)
<1>1. n \in Nat /\ DOMAIN text = 1 .. n BY LenProperties
<1>2. \A k \in 1 .. n : Printable(text[k])
  <2>1. \A k \in 1 .. n : text[k] \in Ink(R) BY ElementOfSeq
  <2> QED BY <2>1 DEF Ink
<1> HIDE DEF n
<1>3. PICK F : WordPath(F, s, text, n) BY <1>1, WordSteps
<1>4. PICK G : ShowPath(G, Screen(s), text, "loader", n) BY <1>1, ShowSteps
<1> DEFINE T == {k \in Nat : k <= n => Board(F[k], Cells - 1) /\ Screen(F[k]) = G[k]}
<1>5. 0 \in T
  <2>1. F[0] = s /\ G[0] = Screen(s) BY <1>3, <1>4 DEF WordPath, ShowPath
  <2> QED BY <2>1
<1>6. ASSUME NEW k \in T PROVE k + 1 \in T
  <2>1. k \in Nat OBVIOUS
  <2> SUFFICES ASSUME k + 1 <= n PROVE Board(F[k + 1], Cells - 1) /\ Screen(F[k + 1]) = G[k + 1]
    BY <2>1
  <2>2. k + 1 \in 1 .. n /\ k + 1 - 1 = k /\ k <= n BY <1>1, <2>1
  <2>3. Board(F[k], Cells - 1) /\ Screen(F[k]) = G[k] BY <2>2
  <2>4. F[k + 1] = ld_putc(F[k], text[k + 1]) BY <1>3, <2>2 DEF WordPath
  <2>5. G[k + 1] = Abstract!PutChar(G[k], text[k + 1], "loader") BY <1>4, <2>2 DEF ShowPath
  <2>6. Printable(text[k + 1]) BY <1>2, <2>2
  <2> QED BY <2>3, <2>4, <2>5, <2>6, PutLoader
<1>7. T \in SUBSET Nat OBVIOUS
<1> HIDE DEF T
<1>8. T = Nat BY <1>5, <1>6, <1>7, Successors
<1>9. Board(F[n], Cells - 1) /\ Screen(F[n]) = G[n] BY <1>1, <1>8 DEF T
<1>10. F[n] = PutAll(s, text) /\ G[n] = Abstract!Show(Screen(s), text, "loader")
  BY <1>3, <1>4 DEF WordPath, ShowPath
<1> QED BY <1>9, <1>10

\* The state of ld_print's loop.
At(s, flag, args) == [s |-> s, flag |-> flag, args |-> args]

LdCase(s, args, ch) ==
  /\ ch = "%" => LdChar(At(s, FALSE, args), ch) = At(s, TRUE, args)
  /\ ch = "\n" => LdChar(At(s, FALSE, args), ch) = At(putn(s), FALSE, args)
  /\ ch \notin {"%", "\n"} => LdChar(At(s, FALSE, args), ch) = At(ld_putc(s, ch), FALSE, args)
  /\ ch = "%" => LdChar(At(s, TRUE, args), ch) = At(ld_putc(s, "%"), FALSE, args)
  /\ ch \in {"d", "l"} => LdChar(At(s, TRUE, args), ch) =
                            At(PutAll(s, Buffered(Head(args), 10)), FALSE, Tail(args))
  /\ ch = "c" => LdChar(At(s, TRUE, args), ch) = At(ld_putc(s, Head(args)), FALSE, Tail(args))
  /\ ch = "s" => LdChar(At(s, TRUE, args), ch) = At(PutAll(s, Head(args)), FALSE, Tail(args))

LEMMA LdCases == ASSUME NEW s, NEW args, NEW ch PROVE LdCase(s, args, ch)
<1> DEFINE t == At(s, FALSE, args)
           u == At(s, TRUE, args)
<1>1. t.s = s /\ t.flag = FALSE /\ t.args = args /\ u.s = s /\ u.flag = TRUE /\ u.args = args BY DEF At
<1> HIDE DEF t, u
<1>2. ch = "%" => LdChar(t, ch) = At(s, TRUE, args) BY <1>1 DEF LdChar, At
<1>3. ch = "\n" => LdChar(t, ch) = At(putn(s), FALSE, args) BY <1>1 DEF LdChar, At
<1>4. ch \notin {"%", "\n"} => LdChar(t, ch) = At(ld_putc(s, ch), FALSE, args) BY <1>1 DEF LdChar, At
<1>5. ch = "%" => LdChar(u, ch) = At(ld_putc(s, "%"), FALSE, args) BY <1>1 DEF LdChar, At
<1>6. ch \in {"d", "l"} => LdChar(u, ch) = At(PutAll(s, Buffered(Head(args), 10)), FALSE, Tail(args))
  BY <1>1 DEF LdChar, At, PutAll
<1>7. ch = "c" => LdChar(u, ch) = At(ld_putc(s, Head(args)), FALSE, Tail(args)) BY <1>1 DEF LdChar, At
<1>8. ch = "s" => LdChar(u, ch) = At(PutAll(s, Head(args)), FALSE, Tail(args)) BY <1>1 DEF LdChar, At, PutAll
<1> QED BY <1>2, <1>3, <1>4, <1>5, <1>6, <1>7, <1>8, Zenon DEF t, u, LdCase

RunOf(t, a, b) == /\ Run(t, <<>>) = t /\ Run(t, <<a>>) = LdChar(t, a)
                  /\ Run(t, <<a, b>>) = LdChar(LdChar(t, a), b)

LEMMA RunFew == ASSUME NEW t, NEW a, NEW b PROVE RunOf(t, a, b)
<1>1. Run(t, <<>>) = t
  <2> DEFINE x == <<>>
  <2>1. DOMAIN x = 1 .. 0 /\ 0 \in Nat OBVIOUS
  <2> HIDE DEF x
  <2>2. PICK F : RunPath(F, t, x, 0) BY <2>1, RunSteps
  <2> QED BY <2>2 DEF RunPath, x
<1>2. Run(t, <<a>>) = LdChar(t, a)
  <2> DEFINE x == <<a>>
  <2>1. DOMAIN x = 1 .. 1 /\ 1 \in Nat /\ x[1] = a OBVIOUS
  <2> HIDE DEF x
  <2>2. PICK F : RunPath(F, t, x, 1) BY <2>1, RunSteps
  <2>3. F[1] = LdChar(F[1 - 1], x[1]) BY <2>2 DEF RunPath
  <2>4. 1 - 1 = 0 OBVIOUS
  <2> QED BY <2>1, <2>2, <2>3, <2>4 DEF RunPath, x
<1>3. Run(t, <<a, b>>) = LdChar(LdChar(t, a), b)
  <2> DEFINE x == <<a, b>>
  <2>1. DOMAIN x = 1 .. 2 /\ 2 \in Nat /\ x[1] = a /\ x[2] = b OBVIOUS
  <2> HIDE DEF x
  <2>2. PICK F : RunPath(F, t, x, 2) BY <2>1, RunSteps
  <2>3. 1 \in 1 .. 2 /\ 2 \in 1 .. 2 /\ 1 - 1 = 0 /\ 2 - 1 = 1 OBVIOUS
  <2>4. F[1] = LdChar(F[0], x[1]) /\ F[2] = LdChar(F[1], x[2]) BY <2>2, <2>3 DEF RunPath
  <2> QED BY <2>1, <2>2, <2>4 DEF RunPath, x
<1> QED BY <1>1, <1>2, <1>3 DEF RunOf

\* The pieces of a call of ld_print.
LEMMA LdKinds ==
  ASSUME NEW p, FitsLoader(p)
  PROVE  \/ p.kind = "lit" /\ Spelled(p, "loader") = <<p.v>>
         \/ p.kind = "newline" /\ Spelled(p, "loader") = <<"\n">>
         \/ p.kind = "percent" /\ Spelled(p, "loader") = <<"%", "%">>
         \/ p.kind = "char" /\ Spelled(p, "loader") = <<"%", "c">>
         \/ p.kind = "str" /\ Spelled(p, "loader") = <<"%", "s">>
         \/ p.kind = "int" /\ Spelled(p, "loader") = <<"%", "d">>
         \/ p.kind = "long" /\ Spelled(p, "loader") = <<"%", "l">>
<1>1. CASE p.kind = "lit" BY <1>1 DEF Spelled
<1>2. CASE p.kind = "newline" BY <1>2 DEF Spelled
<1>3. CASE p.kind = "percent" BY <1>3 DEF Spelled
<1>4. CASE p.kind = "char" BY <1>4 DEF Spelled
<1>5. CASE p.kind = "str" BY <1>5 DEF Spelled
<1>6. CASE p.kind = "int" BY <1>6 DEF Spelled
<1>7. CASE p.kind = "long" BY <1>7 DEF Spelled
<1> QED BY <1>1, <1>2, <1>3, <1>4, <1>5, <1>6, <1>7 DEF FitsLoader

LEMMA LdTyped ==
  ASSUME NEW R, NEW p \in R, FitsLoader(p)
  PROVE  Spelled(p, "loader") \in Seq(Letter(R))
<1> DEFINE L == Letter(R)
           x == Spelled(p, "loader")
<1>1. p.v \in L /\ "\n" \in L /\ "%" \in L /\ "c" \in L /\ "s" \in L /\ "d" \in L /\ "l" \in L
  BY DEF Letter
<1> HIDE DEF L
<1>2. (\A a \in L : <<a>> \in Seq(L)) /\ (\A a, b \in L : <<a, b>> \in Seq(L)) BY Tuple1, Tuple2
<1>3. \/ x = <<p.v>> \/ x = <<"\n">> \/ x = <<"%", "%">> \/ x = <<"%", "c">>
      \/ x = <<"%", "s">> \/ x = <<"%", "d">> \/ x = <<"%", "l">>
  BY LdKinds, Zenon
<1> HIDE DEF x
<1>4. x \in Seq(L) BY <1>1, <1>2, <1>3, Zenon
<1> QED BY <1>4 DEF L, x

LEMMA LdPieces ==
  ASSUME NEW R, \A p \in R : FitsLoader(p)
  PROVE  /\ Spell(R, "loader") \in [R -> Seq(Letter(R))]
         /\ Given(R) \in [R -> Seq({q.v : q \in R})]
         /\ Reading(R) \in [R -> Seq(Tint(R))]
<1>0. \A p \in R : FitsKernel(p) BY LoaderFits
<1>3. Spell(R, "loader") \in [R -> Seq(Letter(R))]
  <2>1. \A p \in R : Spelled(p, "loader") \in Seq(Letter(R)) BY LdTyped
  <2> QED BY <2>1 DEF Spell
<1>4. Given(R) \in [R -> Seq({q.v : q \in R})]
  <2>1. \A p \in R : Given(R)[p] \in Seq({q.v : q \in R}) BY <1>0, SpelledTyped
  <2>2. Given(R) = [p \in R |-> Given(R)[p]] BY DEF Given
  <2> DEFINE V == Seq({q.v : q \in R})
             G == Given(R)
  <2> HIDE DEF V, G
  <2>3. G \in [R -> V] BY <2>1, <2>2 DEF V, G
  <2> QED BY <2>3 DEF V, G
<1>5. Reading(R) \in [R -> Seq(Tint(R))]
  <2>1. \A p \in R : Abstract!Shown(p) \in Seq(Tint(R)) BY <1>0, ShownTyped
  <2> QED BY <2>1 DEF Reading
<1> QED BY <1>3, <1>4, <1>5

\* A call of ld_print, cut at the piece p.
LdCutAt(R, done, p, more) ==
  LET now == done \o <<p>>
  IN  /\ now \in Seq(R)
      /\ Pattern(now, "loader") = Pattern(done, "loader") \o Spelled(p, "loader")
      /\ Pattern(done, "loader") \in Seq(Letter(R))
      /\ Arguments(<<p>> \o more) = Given(R)[p] \o Arguments(more)
      /\ Arguments(more) \in Seq({q.v : q \in R})
      /\ Abstract!Text(now) = Abstract!Text(done) \o Abstract!Shown(p)
      /\ Abstract!Text(done) \in Seq(Tint(R))

LEMMA LdCut ==
  ASSUME NEW R, \A q \in R : FitsLoader(q),
         NEW done \in Seq(R), NEW p \in R, NEW more \in Seq(R)
  PROVE  LdCutAt(R, done, p, more)
<1> DEFINE V == {q.v : q \in R}
           one == <<p>>
           now == done \o one
           G == Spell(R, "loader")
           A == Given(R)
           T == Reading(R)
           L == Letter(R)
           Q == Tint(R)
<1>1. G \in [R -> Seq(L)] /\ A \in [R -> Seq(V)] /\ T \in [R -> Seq(Q)] BY LdPieces
<1>2. one \in Seq(R) OBVIOUS
<1>3. G[p] = Spelled(p, "loader") /\ T[p] = Abstract!Shown(p) BY DEF Spell, Reading
<1> HIDE DEF V, G, A, T, L, Q
<1>5. Flat(G, one) = G[p] /\ Flat(T, one) = T[p] /\ Flat(A, one) = A[p] BY <1>1, FlattenedOne
<1> HIDE DEF one
<1>7. now \in Seq(R) BY <1>2, ConcatProperties
<1> HIDE DEF now
<1>8. now = done \o one BY DEF now
<1> DEFINE Both == Joining(G, R, L) /\ Joining(T, R, Q) /\ Joining(A, R, V)
<1>20. Both BY <1>1, Joins
<1>9. Flat(G, now) = Flat(G, done) \o Flat(G, one) /\ Flat(T, now) = Flat(T, done) \o Flat(T, one)
  BY <1>20, <1>2, <1>8 DEF Joining
<1>10. Flat(G, done) \in Seq(L) /\ Flat(T, done) \in Seq(Q) /\ Flat(A, more) \in Seq(V)
  BY <1>20 DEF Joining
<1>11. Flat(A, one \o more) = Flat(A, one) \o Flat(A, more) BY <1>20, <1>2 DEF Joining
<1>12. /\ Pattern(now, "loader") = Flat(G, now) /\ Pattern(done, "loader") = Flat(G, done)
       /\ Abstract!Text(now) = Flat(T, now) /\ Abstract!Text(done) = Flat(T, done)
       /\ Arguments(more) = Flat(A, more)
  BY <1>7, AsFlat DEF G, T, A
<1>13. Arguments(one \o more) = Flat(A, one \o more)
  <2>1. one \o more \in Seq(R) BY <1>2, ConcatProperties
  <2> QED BY <2>1, AsFlat DEF A
<1>14. Pattern(now, "loader") = Pattern(done, "loader") \o Spelled(p, "loader")
  BY <1>3, <1>5, <1>9, <1>12
<1>15. Abstract!Text(now) = Abstract!Text(done) \o Abstract!Shown(p) BY <1>3, <1>5, <1>9, <1>12
<1>16. Arguments(one \o more) = A[p] \o Arguments(more) BY <1>5, <1>11, <1>12, <1>13
<1>17. Pattern(done, "loader") \in Seq(L) /\ Abstract!Text(done) \in Seq(Q) /\ Arguments(more) \in Seq(V)
  BY <1>10, <1>12
<1> QED BY <1>7, <1>14, <1>15, <1>16, <1>17 DEF LdCutAt, V, A, L, Q, now, one

\* The argument of a directive is taken with it.
LEMMA LdArgument ==
  ASSUME NEW R, \A q \in R : FitsLoader(q), NEW p \in R, NEW more \in Seq(R)
  PROVE  /\ p.kind \in Directives => /\ Head(Arguments(<<p>> \o more)) = p.v
                                     /\ Tail(Arguments(<<p>> \o more)) = Arguments(more)
         /\ p.kind \notin Directives => Arguments(<<p>> \o more) = Arguments(more)
<1> DEFINE V == {q.v : q \in R}
           all == Arguments(<<p>> \o more)
<1>0. PICK none \in Seq(R) : none = <<>>
  <2> DEFINE z == <<>>
  <2>1. z \in Seq(R) BY Tuple1
  <2> QED BY <2>1
<1>6. LdCutAt(R, none, p, more) BY LdCut
<1>1. all = Given(R)[p] \o Arguments(more) /\ Arguments(more) \in Seq(V) BY <1>6 DEF LdCutAt
<1>2. PICK a \in Seq(V) : a = Arguments(more) BY <1>1
<1>3. PICK v \in V : v = p.v OBVIOUS
<1> HIDE DEF V, all
<1>4. CASE p.kind \in Directives
  <2>1. all = <<v>> \o a BY <1>1, <1>2, <1>3, <1>4 DEF Given
  <2>2. Head(<<v>> \o a) = v /\ Tail(<<v>> \o a) = a BY FrontAdded
  <2> QED BY <1>2, <1>3, <1>4, <2>1, <2>2 DEF all
<1>5. CASE p.kind \notin Directives
  <2>1. all = <<>> \o a BY <1>1, <1>2, <1>5 DEF Given
  <2>2. <<>> \o a = a BY ConcatEmptySeq
  <2> QED BY <1>2, <1>5, <2>1, <2>2 DEF all
<1> QED BY <1>4, <1>5

\* What ld_print does with a piece.
LdGoes(p, s, u) == /\ Board(u, Cells - 1)
                   /\ Screen(u) = Abstract!Show(Screen(s), Abstract!Shown(p), "loader")

Ready(p, args) == p.kind \in Directives => Head(args) = p.v
LdTakes(p, s, args) ==
  \E u : /\ LdGoes(p, s, u)
         /\ Run(At(s, FALSE, args), Spelled(p, "loader")) =
              At(u, FALSE, IF p.kind \in Directives THEN Tail(args) ELSE args)

LEMMA LdPiece ==
  ASSUME NEW R, NEW p \in R, FitsLoader(p), NEW s, Board(s, Cells - 1),
         NEW args, Ready(p, args)
  PROVE  LdTakes(p, s, args)
<1> DEFINE x == Spelled(p, "loader")
           t == At(s, FALSE, args)
<1>0. FitsKernel(p) BY LoaderFits
<1>1. Board(s, Cells) BY CellsPositive DEF Board
<1>2. ASSUME NEW ch, Printable(ch)
      PROVE  /\ Board(ld_putc(s, ch), Cells - 1)
             /\ Screen(ld_putc(s, ch)) = Abstract!Show(Screen(s), <<ch>>, "loader")
  BY <1>2, PutLoader, ShowOne
<1>8. LdCase(s, args, "%") /\ LdCase(s, args, "c") /\ LdCase(s, args, "s") /\ LdCase(s, args, "\n")
      /\ LdCase(s, args, p.v) /\ \A ch : LdCase(s, args, ch)
  BY LdCases
<1>9. \A a, b : RunOf(t, a, b) BY RunFew
<1>10. LdChar(t, "%") = At(s, TRUE, args) BY <1>8, Zenon DEF LdCase
<1>11. \A b : Run(t, <<"%", b>>) = LdChar(At(s, TRUE, args), b)
  <2> TAKE b
  <2>1. RunOf(t, "%", b) BY <1>9
  <2> QED BY <2>1, <1>10, Zenon DEF RunOf
<1>12. \A a : Run(t, <<a>>) = LdChar(t, a)
  <2> TAKE a
  <2>1. RunOf(t, a, a) BY <1>9
  <2> QED BY <2>1, Zenon DEF RunOf
<1> HIDE DEF x, t
<1>3. CASE p.kind = "lit"
  <2>1. p.v \notin {"", "\n", "\t", "%"} BY <1>3, Zenon DEF FitsLoader, Zero
  <2>2. Printable(p.v) /\ p.v \notin {"%", "\n"} BY <2>1, Zenon DEF Printable, Zero
  <2>3. x = <<p.v>> BY <1>3, LdKinds, Zenon DEF x
  <2>7. LdChar(t, p.v) = At(ld_putc(s, p.v), FALSE, args) BY <1>8, <2>2, Zenon DEF LdCase, t
  <2>4. Run(t, x) = At(ld_putc(s, p.v), FALSE, args) BY <2>3, <2>7, <1>12, Zenon
  <2>5. p.kind \notin Directives BY <1>3, Zenon DEF Directives
  <2>6. Abstract!Shown(p) = <<p.v>> BY <1>0, <1>3, Converted, Zenon
  <2> QED BY <1>2, <2>2, <2>4, <2>5, <2>6, Zenon DEF LdGoes, LdTakes, x, t
<1>4. CASE p.kind = "newline"
  <2>1. x = <<"\n">> BY <1>4, LdKinds, Zenon DEF x
  <2>6. LdChar(t, "\n") = At(putn(s), FALSE, args) BY <1>8, Zenon DEF LdCase, t
  <2>2. Run(t, x) = At(putn(s), FALSE, args) BY <2>1, <2>6, <1>12, Zenon
  <2>3. p.kind \notin Directives BY <1>4, Zenon DEF Directives
  <2>4. Abstract!Shown(p) = <<"\n">> BY <1>0, <1>4, ShownTyped, Zenon
  <2>5. Board(putn(s), Cells - 1) /\ Screen(putn(s)) = Abstract!Show(Screen(s), <<"\n">>, "loader")
    BY <1>1, NewRow, ShowOne
  <2> QED BY <2>2, <2>3, <2>4, <2>5, Zenon DEF LdGoes, LdTakes, x, t
<1>5. CASE p.kind = "percent"
  <2>1. x = <<"%", "%">> BY <1>5, LdKinds, Zenon DEF x
  <2>4. LdChar(At(s, TRUE, args), "%") = At(ld_putc(s, "%"), FALSE, args) BY <1>8, Zenon DEF LdCase
  <2>2. Run(t, x) = At(ld_putc(s, "%"), FALSE, args) BY <2>1, <2>4, <1>11, Zenon
  <2>5. p.kind \notin Directives BY <1>5, Zenon DEF Directives
  <2>6. Abstract!Shown(p) = <<"%">> BY <1>0, <1>5, Converted, Zenon
  <2>7. Printable("%") BY DEF Printable, Zero
  <2> QED BY <1>2, <2>2, <2>5, <2>6, <2>7, Zenon DEF LdGoes, LdTakes, x, t
<1>6. CASE p.kind = "char"
  <2>1. p.v \notin {"", "\n"} BY <1>6, Zenon DEF FitsLoader, Zero
  <2>2. Printable(p.v) BY <2>1, Zenon DEF Printable, Zero
  <2>3. x = <<"%", "c">> BY <1>6, LdKinds, Zenon DEF x
  <2>7. p.kind \in Directives BY <1>6, Zenon DEF Directives
  <2>6. LdChar(At(s, TRUE, args), "c") = At(ld_putc(s, Head(args)), FALSE, Tail(args)) BY <1>8, Zenon DEF LdCase
  <2>4. Run(t, x) = At(ld_putc(s, p.v), FALSE, Tail(args))
    <3>1. Head(args) = p.v BY <2>7 DEF Ready
    <3> QED BY <2>3, <2>6, <3>1, <1>11, Zenon
  <2>8. Abstract!Shown(p) = <<p.v>> BY <1>0, <1>6, Converted, Zenon
  <2> QED BY <1>2, <2>2, <2>4, <2>7, <2>8, Zenon DEF LdGoes, LdTakes, x, t
<1>7. CASE p.kind \in {"str", "int", "long"}
  <2>1. Abstract!Shown(p) \in Seq(Ink(R))
    <3>1. p.kind # "newline" BY <1>7
    <3> QED BY <1>0, <3>1, ShownTyped
  <2>2. PICK text \in Seq(Ink(R)) : text = Abstract!Shown(p) BY <2>1
  <2>3. /\ Board(PutAll(s, text), Cells - 1)
        /\ Screen(PutAll(s, text)) = Abstract!Show(Screen(s), text, "loader")
    BY PutText
  <2>5. p.kind \in Directives BY <1>7, Zenon DEF Directives
  <2>6. Head(args) = p.v BY <2>5 DEF Ready
  <2>7. CASE p.kind = "str"
    <3>1. x = <<"%", "s">> BY <2>7, LdKinds, Zenon DEF x
    <3>3. LdChar(At(s, TRUE, args), "s") = At(PutAll(s, Head(args)), FALSE, Tail(args)) BY <1>8, Zenon DEF LdCase
    <3>2. Run(t, x) = At(PutAll(s, Head(args)), FALSE, Tail(args)) BY <3>1, <3>3, <1>11, Zenon
    <3>4. text = p.v BY <1>0, <2>2, <2>7, Converted, Zenon
    <3> QED BY <2>2, <2>3, <2>5, <2>6, <3>2, <3>4, Zenon DEF LdGoes, LdTakes, x, t
  <2>8. CASE p.kind \in {"int", "long"}
    <3>1. PICK n \in Nat64 : n = p.v
      <4>1. p.v \in 0 .. Word - 1 BY <2>8 DEF FitsLoader
      <4> QED BY <4>1 DEF Nat64
    <3>2. n \in Nat /\ n % Word = n BY Residue, CallAssumption DEF Nat64
    <3>3. Buffered(n, 10) = Abstract!Digits(n, 10) BY <3>2, Numbers
    <3>4. ~ (n < 0) BY <3>2
    <3>5. text = Buffered(n, 10)
      <4>1. CASE p.kind = "int"
        <5>1. Abstract!Shown(p) = Abstract!Digits(p.v % Word, 10) BY <4>1 DEF Abstract!Shown
        <5> QED BY <5>1, <2>2, <3>1, <3>2, <3>3
      <4>2. CASE p.kind = "long"
        <5>1. Abstract!Shown(p) = IF p.v < 0 THEN <<"-">> \o Abstract!Digits(-p.v, 10) ELSE Abstract!Digits(p.v, 10)
          BY <4>2 DEF Abstract!Shown
        <5> QED BY <5>1, <2>2, <3>1, <3>3, <3>4, Zenon
      <4> QED BY <2>8, <4>1, <4>2
    <3>6. PICK ch \in {"d", "l"} : x = <<"%", ch>> BY <2>8, LdKinds, Zenon DEF x
    <3>9. LdCase(s, args, ch) BY <1>8
    <3>8. LdChar(At(s, TRUE, args), ch) = At(PutAll(s, Buffered(Head(args), 10)), FALSE, Tail(args))
      BY <3>9, Zenon DEF LdCase
    <3>7. Run(t, x) = At(PutAll(s, text), FALSE, Tail(args)) BY <2>6, <3>1, <3>5, <3>6, <3>8, <1>11, Zenon
    <3> QED BY <2>2, <2>3, <2>5, <3>7, Zenon DEF LdGoes, LdTakes, x, t
  <2> QED BY <1>7, <2>7, <2>8, Zenon
<1> QED BY <1>3, <1>4, <1>5, <1>6, <1>7, LdKinds, Zenon

\* The first pieces of a call are on the screen.
Logged(s0, call, done, rest) ==
  \E u : /\ Board(u, Cells - 1)
         /\ Screen(u) = Abstract!Show(Screen(s0), Abstract!Text(done), "loader")
         /\ Run(At(s0, FALSE, Arguments(call)), Pattern(done, "loader")) = At(u, FALSE, Arguments(rest))

LEMMA LogOne ==
  ASSUME NEW R, \A q \in R : FitsLoader(q),
         NEW done \in Seq(R), NEW p \in R, NEW more \in Seq(R), NEW s0, NEW call,
         Logged(s0, call, done, <<p>> \o more)
  PROVE  Logged(s0, call, done \o <<p>>, more)
<1> DEFINE now == done \o <<p>>
           t == At(s0, FALSE, Arguments(call))
<1>1. PICK u : /\ Board(u, Cells - 1)
               /\ Screen(u) = Abstract!Show(Screen(s0), Abstract!Text(done), "loader")
               /\ Run(t, Pattern(done, "loader")) = At(u, FALSE, Arguments(<<p>> \o more))
  BY DEF Logged
<1>2. LdCutAt(R, done, p, more) BY LdCut
<1>3. /\ p.kind \in Directives => /\ Head(Arguments(<<p>> \o more)) = p.v
                                  /\ Tail(Arguments(<<p>> \o more)) = Arguments(more)
      /\ p.kind \notin Directives => Arguments(<<p>> \o more) = Arguments(more)
  BY LdArgument
<1>4. PICK args : args = Arguments(<<p>> \o more) OBVIOUS
<1>5. FitsLoader(p) /\ FitsKernel(p) BY LoaderFits
<1>6. PICK w : /\ LdGoes(p, u, w)
               /\ Run(At(u, FALSE, args), Spelled(p, "loader")) =
                    At(w, FALSE, IF p.kind \in Directives THEN Tail(args) ELSE args)
  <2>1. Ready(p, args) BY <1>3, <1>4 DEF Ready
  <2>2. LdTakes(p, u, args) BY <1>1, <1>5, <2>1, LdPiece
  <2> QED BY <2>2 DEF LdTakes
<1>7. Run(At(u, FALSE, args), Spelled(p, "loader")) = At(w, FALSE, Arguments(more))
  BY <1>3, <1>4, <1>6
<1> HIDE DEF now, t
<1>8. /\ Pattern(now, "loader") = Pattern(done, "loader") \o Spelled(p, "loader")
      /\ Abstract!Text(now) = Abstract!Text(done) \o Abstract!Shown(p)
  BY <1>2, Zenon DEF LdCutAt, now
<1>9. PICK d \in Seq(Letter(R)), x \in Seq(Letter(R)) : d = Pattern(done, "loader") /\ x = Spelled(p, "loader")
  BY <1>2, <1>5, LdTyped DEF LdCutAt
<1>10. PICK a \in Seq(Tint(R)), b \in Seq(Tint(R)) : a = Abstract!Text(done) /\ b = Abstract!Shown(p)
  BY <1>2, <1>5, ShownTyped DEF LdCutAt
<1>11. Run(t, d \o x) = Run(Run(t, d), x) BY RunJoined
<1>12. Abstract!Show(Screen(s0), a \o b, "loader") =
         Abstract!Show(Abstract!Show(Screen(s0), a, "loader"), b, "loader")
  BY ShowJoined
<1>13. Run(t, Pattern(now, "loader")) = At(w, FALSE, Arguments(more))
  BY <1>1, <1>4, <1>7, <1>8, <1>9, <1>11
<1>14. Board(w, Cells - 1) /\ Screen(w) = Abstract!Show(Screen(s0), Abstract!Text(now), "loader")
  BY <1>1, <1>6, <1>8, <1>10, <1>12 DEF LdGoes
<1> QED BY <1>13, <1>14 DEF Logged, now, t

\* Some first pieces, k of them, are on the screen.
Far(s0, call, R, k) ==
  \E done, rest \in Seq(R) : Len(done) = k /\ call = done \o rest /\ Logged(s0, call, done, rest)

LEMMA FarNothing ==
  ASSUME NEW R, NEW call \in Seq(R), NEW s0, Board(s0, Cells - 1)
  PROVE  Far(s0, call, R, 0)
<1> DEFINE none == <<>>
           t == At(s0, FALSE, Arguments(call))
<1>1. none \in Seq(R) /\ Len(none) = 0 /\ call = none \o call
  <2>1. none \in Seq(R) BY Tuple1
  <2>2. call = none \o call BY ConcatEmptySeq
  <2> QED BY <2>1, <2>2
<1>2. Pattern(none, "loader") = <<>> /\ Abstract!Text(none) = <<>>
  <2>1. Pattern(none, "loader") = <<>> BY DEF Pattern, FlattenSeq
  <2>2. PICK x : x = [i \in DOMAIN none |-> Abstract!Shown(none[i])] OBVIOUS
  <2>3. x = <<>>
    <3>1. DOMAIN none = 1 .. 0 OBVIOUS
    <3> QED BY <2>2, <3>1
  <2>4. FlattenSeq(x) = <<>> BY <2>3 DEF FlattenSeq
  <2> QED BY <2>1, <2>2, <2>4, SameFlatten DEF Abstract!Text
<1> HIDE DEF none, t
<1>3. Run(t, <<>>) = t
  <2>1. RunOf(t, t, t) BY RunFew
  <2> QED BY <2>1 DEF RunOf
<1>4. Abstract!Show(Screen(s0), <<>>, "loader") = Screen(s0) BY ShowNothing
<1>5. Logged(s0, call, none, call)
  <2>1. Run(t, Pattern(none, "loader")) = t BY <1>2, <1>3
  <2>2. Screen(s0) = Abstract!Show(Screen(s0), Abstract!Text(none), "loader") BY <1>2, <1>4
  <2> QED BY <2>1, <2>2 DEF Logged, t
<1> QED BY <1>1, <1>5 DEF Far

LEMMA FarOne ==
  ASSUME NEW R, \A q \in R : FitsLoader(q), NEW call \in Seq(R), NEW s0,
         NEW k \in Nat, k < Len(call), Far(s0, call, R, k)
  PROVE  Far(s0, call, R, k + 1)
<1>1. PICK done \in Seq(R), rest \in Seq(R) :
        Len(done) = k /\ call = done \o rest /\ Logged(s0, call, done, rest)
  BY DEF Far
<1>2. rest # <<>>
  <2> SUFFICES ASSUME rest = <<>> PROVE FALSE OBVIOUS
  <2>1. done \o <<>> = done BY ConcatEmptySeq
  <2>2. call = done BY <1>1, <2>1
  <2> QED BY <1>1, <2>2
<1>3. Head(rest) \in R /\ Tail(rest) \in Seq(R) /\ rest = <<Head(rest)>> \o Tail(rest) BY <1>2, Taken
<1>4. PICK p \in R, more \in Seq(R) : rest = <<p>> \o more BY <1>3
<1>5. Logged(s0, call, done \o <<p>>, more) BY <1>1, <1>4, LogOne
<1> DEFINE one == <<p>>
           now == done \o one
<1>6. one \in Seq(R) /\ Len(one) = 1 BY Tuple1
<1> HIDE DEF one
<1>7. now \in Seq(R) /\ Len(now) = Len(done) + Len(one) BY <1>6, ConcatProperties
<1>8. now \o more = done \o (one \o more) BY <1>6, ConcatAssociative
<1>9. call = now \o more BY <1>1, <1>4, <1>8 DEF one
<1> HIDE DEF now
<1>10. Len(now) = k + 1 BY <1>1, <1>6, <1>7
<1>11. Logged(s0, call, now, more) BY <1>5 DEF now, one
<1> QED BY <1>7, <1>9, <1>10, <1>11 DEF Far

LEMMA FarAll ==
  ASSUME NEW R, \A q \in R : FitsLoader(q), NEW call \in Seq(R), NEW s0, Board(s0, Cells - 1)
  PROVE  Logged(s0, call, call, <<>>)
<1> DEFINE n == Len(call)
           T == {k \in Nat : k <= n => Far(s0, call, R, k)}
<1>1. n \in Nat BY LenProperties
<1>2. 0 \in T BY FarNothing
<1>3. ASSUME NEW k \in T PROVE k + 1 \in T
  <2> SUFFICES ASSUME k + 1 <= n PROVE Far(s0, call, R, k + 1) OBVIOUS
  <2>1. k \in Nat /\ k < n /\ k <= n BY <1>1
  <2>2. Far(s0, call, R, k) BY <2>1
  <2> QED BY <2>1, <2>2, FarOne
<1>4. T \in SUBSET Nat OBVIOUS
<1> HIDE DEF T
<1>5. T = Nat BY <1>2, <1>3, <1>4, Successors
<1>6. Far(s0, call, R, n) BY <1>1, <1>5 DEF T
<1>7. PICK done \in Seq(R), rest \in Seq(R) :
        Len(done) = n /\ call = done \o rest /\ Logged(s0, call, done, rest)
  BY <1>6 DEF Far
<1>8. Len(call) = Len(done) + Len(rest) /\ Len(rest) \in Nat BY <1>7, ConcatProperties, LenProperties
<1>9. PICK m \in Nat : m = Len(rest) /\ n = n + m BY <1>7, <1>8
<1>10. m = 0 BY <1>1, <1>9
<1>11. rest = <<>>
  <2>1. Len(rest) = 0 BY <1>9, <1>10
  <2> QED BY <2>1, EmptySeq
<1>12. done \o <<>> = done BY ConcatEmptySeq
<1>13. call = done BY <1>7, <1>11, <1>12
<1> QED BY <1>7, <1>11, <1>13

\* A call of ld_print shows its whole text.
LEMMA LogShows ==
  ASSUME NEW call \in LoaderCall, Log(call), Board(Cur, Cells - 1)
  PROVE  /\ Board(Cur', Cells - 1)
         /\ Screen(Cur') = Abstract!Show(Screen(Cur), Abstract!Text(call), "loader")
<1> DEFINE R == Range(call)
           t == At(Cur, FALSE, Arguments(call))
<1>1. call \in Seq(R) /\ \A q \in R : FitsLoader(q) BY CallAssumption DEF Range
<1> HIDE DEF R
<1>2. PICK s0 : s0 = Cur OBVIOUS
<1>3. Logged(s0, call, call, <<>>) BY <1>1, <1>2, FarAll
<1>4. PICK u : /\ Board(u, Cells - 1)
               /\ Screen(u) = Abstract!Show(Screen(Cur), Abstract!Text(call), "loader")
               /\ Run(t, Pattern(call, "loader")) = At(u, FALSE, Arguments(<<>>))
  BY <1>2, <1>3 DEF Logged
<1>5. vmem' = Run(t, Pattern(call, "loader")).s.vmem /\ idx' = Run(t, Pattern(call, "loader")).s.idx
  BY Zenon DEF Log, ld_print, Run, At, Cur
<1>6. At(u, FALSE, Arguments(<<>>)).s = u BY DEF At
<1>7. vmem' = u.vmem /\ idx' = u.idx BY <1>4, <1>5, <1>6
<1>8. Cur' = [vmem |-> vmem', idx |-> idx'] BY DEF Cur
<1>9. Cur' = u BY <1>4, <1>7, <1>8 DEF Board
<1> QED BY <1>4, <1>9

-----------------------------------------------------------------------------
\* Refinement.

\* The steps that the reader of the screen does not see.
LEMMA ClearStarts == ASSUME IInv, clear_text_screnn PROVE Abstract!Start
<1>1. /\ phase = "loader" /\ phase' = "kernel" /\ UNCHANGED pc
      /\ vmem' = [i \in 0 .. Cells - 1 |-> Blank] /\ idx' = 0
  BY DEF clear_text_screnn
<1>2. Inside' = {} BY <1>1 DEF IInv, Started, Inside
<1>3. Committed' = AsScreen(vmem', 0) BY <1>1, <1>2 DEF Committed
<1> DEFINE blank == [r \in 1 .. Height |-> [k \in 1 .. Width |-> " "]]
<1>4. ASSUME NEW r \in 1 .. Height, NEW k \in 1 .. Width
      PROVE  Seen(vmem'[(r - 1) * Width + k - 1]) = " "
  BY <1>1, CellAddress DEF Seen, Blank, Zero
<1>5. Rows(vmem') = blank BY <1>4 DEF Rows
<1>6. 0 \in Nat /\ 0 # Cells /\ 0 \div Width = 0 /\ 0 + 1 = 1 /\ 0 - 0 * Width = 0
  BY CellsPositive, ScreenAssumption
<1>7. AsScreen(vmem', 0) = [rows |-> blank, row |-> 1, col |-> 0]
  <2> DEFINE d == 0 \div Width
  <2>1. AsScreen(vmem', 0) = [rows |-> Rows(vmem'), row |-> d + 1, col |-> 0 - d * Width]
    BY <1>6, ScreenOf
  <2>2. d = 0 BY <1>6
  <2> HIDE DEF blank, d
  <2> QED BY <1>5, <1>6, <2>1, <2>2
<1> QED BY <1>1, <1>3, <1>7 DEF Abstract!Start, Abstract!BlankRow

\* A step that neither enters nor leaves, and writes only inside.
LEMMA SameText ==
  ASSUME Inside' = Inside, UNCHANGED before, Inside = {} => UNCHANGED <<vmem, idx>>
  PROVE  UNCHANGED Committed
<1>1. CASE Inside = {} BY <1>1 DEF Committed
<1>2. CASE Inside # {} BY <1>2 DEF Committed
<1> QED BY <1>1, <1>2

LEMMA EnterHides == ASSUME IInv, ~torn, NEW c \in Caller, Enter(c) PROVE UNCHANGED Committed
<1>1. /\ UNCHANGED <<vmem, idx>> /\ pc[c] = "spin" /\ head = ticket[c]
      /\ pc' = [pc EXCEPT ![c] = "loop"] /\ before' = [vmem |-> vmem, idx |-> idx]
  BY DEF Enter, board, Go
<1>2. Inside = {}
  <2> SUFFICES ASSUME NEW d \in Inside PROVE FALSE OBVIOUS
  <2>1. d \in Queue /\ c \in Queue /\ d # c BY <1>1 DEF Inside, Queue
  <2>2. ticket[d] = ticket[c] BY <1>1 DEF IInv, Order, Holder
  <2> QED BY <2>1, <2>2 DEF IInv, Order, Distinct
<1>3. Inside' # {} BY <1>1 DEF Inside, IInv, Typed
<1> QED BY <1>1, <1>2, <1>3 DEF Committed

LEMMA WaitHides ==
  ASSUME IInv, NEW c \in Caller, LoadTail(c) \/ StoreTail(c) \/ LoadHead(c)
  PROVE  UNCHANGED Committed
<1>1. /\ UNCHANGED <<vmem, idx, before>> /\ pc[c] \in {"lock", "xadd", "loop"}
      /\ pc[c] = "loop" => pc' = [pc EXCEPT ![c] = "unlock"]
      /\ pc[c] = "lock" => pc' = [pc EXCEPT ![c] = "xadd"]
      /\ pc[c] = "xadd" => pc' = [pc EXCEPT ![c] = "spin"]
  BY DEF LoadTail, StoreTail, LoadHead, board, Go
<1>2. Inside' = Inside BY <1>1 DEF IInv, Typed, Inside
<1> QED BY <1>1, <1>2, SameText

LEMMA WriteHides ==
  ASSUME IInv, NEW c \in Caller, Loop(c) \/ Put(c) PROVE UNCHANGED Committed
<1>1. UNCHANGED <<pc, before>> /\ pc[c] = "loop" BY WriteFrame
<1>2. Inside' = Inside /\ Inside # {} BY <1>1 DEF Inside
<1> QED BY <1>1, <1>2, SameText

LEMMA CallHides ==
  ASSUME IInv, NEW c \in Caller, NEW call \in KernelCall, Call(c, call)
  PROVE  UNCHANGED <<Committed, phase, torn>>
<1>1. /\ UNCHANGED <<phase, torn, vmem, idx, before>>
      /\ pc[c] = "idle" /\ (UNCHANGED pc \/ pc' = [pc EXCEPT ![c] = "lock"])
  BY DEF Call, lock, board, Keep, Go
<1>2. Inside' = Inside BY <1>1 DEF IInv, Typed, Inside
<1> QED BY <1>1, <1>2, SameText

\* What printk has done so far is what the calls say.
Made    == /\ logs \in 0 .. MaxLogs /\ made \in [Caller -> 0 .. MaxCalls]
           /\ \A c \in Caller : pc[c] # "idle" => made[c] < MaxCalls
Shaped  == DOMAIN local = Caller /\ DOMAIN msg = Caller
Boards  == Board(Cur, Cells) /\ (phase = "loader" => Board(Cur, Cells - 1))
Called  == \A c \in Caller : pc[c] # "idle" => msg[c] \in KernelCall
Halfway == \A c \in Caller : pc[c] = "loop" => Prints(msg[c], local[c], Cur, before)
Wholly  == \A c \in Caller : pc[c] = "unlock" =>
             Screen(Cur) = Abstract!Show(Screen(before), Abstract!Text(msg[c]), "kernel")
TInv == Made /\ Shaped /\ Boards /\ Called /\ (~torn => Halfway /\ Wholly)

LEMMA InitT == Init => TInv
<1> SUFFICES ASSUME Init PROVE TInv OBVIOUS
<1>1. Made BY BoundAssumption DEF Init, Made
<1>2. Shaped BY DEF Init, Shaped
<1>3. Boards
  <2>1. IsText(vmem) /\ idx = 0 BY DEF Init, IsText
  <2>2. 0 \in 0 .. Cells /\ 0 \in 0 .. Cells - 1 BY CellsPositive
  <2> QED BY <2>1, <2>2, BoardOf DEF Boards, Cur
<1>4. Called /\ Halfway /\ Wholly
  <2>1. \A c \in Caller : pc[c] = "idle" BY DEF Init
  <2> QED BY <2>1 DEF Called, Halfway, Wholly
<1> QED BY <1>1, <1>2, <1>3, <1>4 DEF TInv

LEMMA LogT == ASSUME IInv, TInv, NEW call \in LoaderCall, Log(call) PROVE TInv'
<1>1. /\ phase = "loader" /\ logs < MaxLogs /\ logs' = logs + 1
      /\ UNCHANGED <<phase, torn, pc, msg, local, made, before>>
  BY DEF Log, lock
<1>2. Board(Cur', Cells - 1)
  <2>1. Board(Cur, Cells - 1) BY <1>1 DEF TInv, Boards
  <2> QED BY <2>1, LogShows
<1>3. Boards'
  <2>1. Board(Cur', Cells) BY <1>2, CellsPositive DEF Board
  <2> QED BY <1>2, <2>1 DEF Boards
<1>4. \A c \in Caller : pc[c] = "idle" BY <1>1 DEF IInv, Started
<1>5. Made' BY <1>1, BoundAssumption DEF TInv, Made
<1>6. Shaped' /\ Called' BY <1>1 DEF TInv, Shaped, Called
<1>7. Halfway' /\ Wholly' BY <1>1, <1>4 DEF Halfway, Wholly
<1> QED BY <1>3, <1>5, <1>6, <1>7 DEF TInv

LEMMA ClearT == ASSUME IInv, TInv, clear_text_screnn PROVE TInv'
<1>1. /\ phase = "loader" /\ phase' = "kernel" /\ logs' = 0 /\ idx' = 0
      /\ vmem' = [i \in 0 .. Cells - 1 |-> Blank]
      /\ UNCHANGED <<torn, pc, msg, local, made, before>>
  BY DEF clear_text_screnn, lock
<1>2. Boards'
  <2>1. IsText(vmem') BY <1>1 DEF IsText
  <2>2. 0 \in 0 .. Cells BY CellsPositive
  <2> QED BY <1>1, <2>1, <2>2, BoardOf DEF Boards, Cur
<1>3. \A c \in Caller : pc[c] = "idle" BY <1>1 DEF IInv, Started
<1>4. Made' BY <1>1, BoundAssumption DEF TInv, Made
<1>5. Shaped' /\ Called' BY <1>1 DEF TInv, Shaped, Called
<1>6. Halfway' /\ Wholly' BY <1>1, <1>3 DEF Halfway, Wholly
<1> QED BY <1>2, <1>4, <1>5, <1>6 DEF TInv

LEMMA CallT ==
  ASSUME IInv, TInv, NEW c \in Caller, NEW call \in KernelCall, Call(c, call) PROVE TInv'
<1>1. /\ UNCHANGED <<phase, torn, vmem, idx, local, before, logs>> /\ pc[c] = "idle" /\ made[c] < MaxCalls
      /\ \/ made' = [made EXCEPT ![c] = made[c] + 1] /\ UNCHANGED <<pc, msg>>
         \/ pc' = [pc EXCEPT ![c] = "lock"] /\ msg' = [msg EXCEPT ![c] = call] /\ UNCHANGED made
  BY DEF Call, lock, board, Keep, Go
<1>2. pc \in [Caller -> {"idle", "lock", "xadd", "spin", "loop", "unlock"}] BY DEF IInv, Typed
<1>3. Made /\ Shaped /\ Boards /\ Called /\ (~torn => Halfway /\ Wholly) BY DEF TInv
<1>4. Made' BY <1>1, <1>2, <1>3, BoundAssumption DEF Made
<1>5. Shaped' BY <1>1, <1>3 DEF Shaped
<1>6. Cur' = Cur BY <1>1 DEF Cur
<1>7. Boards' BY <1>1, <1>3, <1>6 DEF Boards
<1>8. Called' BY <1>1, <1>2, <1>3 DEF Called, Shaped
<1>9. \A d \in Caller : pc'[d] \in {"loop", "unlock"} => pc[d] = pc'[d] /\ msg'[d] = msg[d]
  BY <1>1, <1>2, <1>3 DEF Shaped
<1>10. ASSUME ~torn' PROVE Halfway' /\ Wholly'
  <2>1. Halfway /\ Wholly BY <1>1, <1>3, <1>10
  <2>2. Halfway' BY <1>1, <1>6, <1>9, <2>1 DEF Halfway
  <2>3. Wholly' BY <1>1, <1>6, <1>9, <2>1 DEF Wholly
  <2> QED BY <2>2, <2>3
<1> QED BY <1>4, <1>5, <1>7, <1>8, <1>10 DEF TInv

\* Drawing a ticket.
LEMMA DrawT ==
  ASSUME IInv, TInv, ~torn, NEW c \in Caller, LoadTail(c) \/ StoreTail(c) PROVE TInv'
<1>1. /\ UNCHANGED <<phase, vmem, idx, local, before, logs, made, msg>>
      /\ \/ pc[c] = "lock" /\ pc' = [pc EXCEPT ![c] = "xadd"]
         \/ pc[c] = "xadd" /\ pc' = [pc EXCEPT ![c] = "spin"]
  BY DEF LoadTail, StoreTail, lock, board, Keep, Go
<1>2. pc \in [Caller -> {"idle", "lock", "xadd", "spin", "loop", "unlock"}] BY DEF IInv, Typed
<1>3. Made /\ Shaped /\ Boards /\ Called /\ Halfway /\ Wholly BY DEF TInv
<1>4. Made' BY <1>1, <1>2, <1>3 DEF Made
<1>5. Shaped' BY <1>1, <1>3 DEF Shaped
<1>6. Cur' = Cur BY <1>1 DEF Cur
<1>7. Boards' BY <1>1, <1>3, <1>6 DEF Boards
<1>8. Called' BY <1>1, <1>2, <1>3 DEF Called
<1>9. \A d \in Caller : pc'[d] \in {"loop", "unlock"} => pc[d] = pc'[d] BY <1>1, <1>2
<1>10. Halfway' BY <1>1, <1>3, <1>6, <1>9 DEF Halfway
<1>11. Wholly' BY <1>1, <1>3, <1>6, <1>9 DEF Wholly
<1> QED BY <1>4, <1>5, <1>7, <1>8, <1>10, <1>11 DEF TInv

\* Nobody is inside when a caller enters.
LEMMA EntersEmpty == ASSUME IInv, ~torn, NEW c \in Caller, Enter(c) PROVE Inside = {}
<1>1. pc[c] = "spin" /\ head = ticket[c] BY DEF Enter
<1> SUFFICES ASSUME NEW d \in Inside PROVE FALSE OBVIOUS
<1>2. d \in Queue /\ c \in Queue /\ d # c BY <1>1 DEF Inside, Queue
<1>3. ticket[d] = ticket[c] BY <1>1 DEF IInv, Order, Holder
<1> QED BY <1>2, <1>3 DEF IInv, Order, Distinct

LEMMA EnterT == ASSUME IInv, TInv, ~torn, NEW c \in Caller, Enter(c) PROVE TInv'
<1>1. /\ UNCHANGED <<phase, vmem, idx, logs, made, msg>> /\ pc[c] = "spin"
      /\ pc' = [pc EXCEPT ![c] = "loop"] /\ before' = Cur
      /\ DOMAIN local' = DOMAIN local
  BY DEF Enter, board, Keep, Go, Cur
<1>2. pc \in [Caller -> {"idle", "lock", "xadd", "spin", "loop", "unlock"}] BY DEF IInv, Typed
<1>3. Made /\ Shaped /\ Boards /\ Called BY DEF TInv
<1>4. Made' BY <1>1, <1>2, <1>3 DEF Made
<1>5. Shaped' BY <1>1, <1>3 DEF Shaped
<1>6. Cur' = Cur BY <1>1 DEF Cur
<1>7. Boards' BY <1>1, <1>3, <1>6 DEF Boards
<1>8. Called' BY <1>1, <1>2, <1>3 DEF Called
<1>9. \A d \in Caller : pc'[d] \in {"loop", "unlock"} => d = c /\ pc'[d] = "loop"
  BY <1>1, <1>2, EntersEmpty DEF Inside
<1>10. Prints(msg'[c], local'[c], Cur', before')
  <2>1. msg[c] \in KernelCall BY <1>1, <1>3 DEF Called
  <2>2. PICK call \in KernelCall : msg[c] = call BY <2>1
  <2>3. DOMAIN local = Caller /\ Board(Cur, Cells) BY <1>3 DEF Shaped, Boards
  <2>4. Prints(call, local'[c], Cur', Cur) BY <2>2, <2>3, EnterPrints
  <2> QED BY <1>1, <2>2, <2>4
<1>11. Halfway' /\ Wholly' BY <1>9, <1>10 DEF Halfway, Wholly
<1> QED BY <1>4, <1>5, <1>7, <1>8, <1>11 DEF TInv

LEMMA PrintsBoard == ASSUME NEW call, NEW l, NEW s, NEW s0, Prints(call, l, s, s0) PROVE Board(s, Cells)
BY Zenon DEF Prints, Ends, Reads, Shows

LEMMA WriteT == ASSUME IInv, TInv, ~torn, NEW c \in Caller, Loop(c) \/ Put(c) PROVE TInv'
<1>1. UNCHANGED <<phase, torn, pc, before>> /\ pc[c] = "loop" BY WriteFrame
<1>2. UNCHANGED <<logs, made, msg>> /\ DOMAIN local' = DOMAIN local
  <2>1. CASE Put(c) BY <2>1 DEF Put, Keep
  <2>2. CASE Loop(c)
    <3>1. UNCHANGED <<logs, made, msg>> /\ \E x : local' = [local EXCEPT ![c] = x]
      BY <2>2, Zenon DEF Loop, Directive, LongDirective, Plain, Newline, Iteration, Keep
    <3> QED BY <3>1
  <2> QED BY <2>1, <2>2
<1>3. Made /\ Shaped /\ Boards /\ Called /\ Halfway BY DEF TInv
<1>4. Made' BY <1>1, <1>2, <1>3 DEF Made
<1>5. Shaped' BY <1>2, <1>3 DEF Shaped
<1>6. PICK call \in KernelCall : msg[c] = call BY <1>1, <1>3 DEF Called
<1>7. Prints(call, local'[c], Cur', before)
  <2>1. DOMAIN local = Caller /\ Prints(call, local[c], Cur, before) BY <1>1, <1>3, <1>6 DEF Shaped, Halfway
  <2>2. PICK s0 : s0 = before OBVIOUS
  <2>3. Prints(call, local[c], Cur, s0) BY <2>1, <2>2
  <2>4. Prints(call, local'[c], Cur', s0) BY <1>6, <2>1, <2>3, PutPrints, LoopPrints
  <2> QED BY <2>2, <2>4
<1>8. Boards'
  <2>1. Board(Cur', Cells) BY <1>7, PrintsBoard
  <2>2. phase = "kernel" BY <1>1 DEF IInv, Started
  <2> QED BY <1>1, <2>1, <2>2 DEF Boards
<1>9. Called' BY <1>1, <1>2, <1>3 DEF Called
<1>10. \A d \in Caller : pc[d] \in {"loop", "unlock"} => d = c
  <2>1. c \in Inside BY <1>1 DEF Inside
  <2> QED BY <2>1, AloneInside DEF Inside
<1>11. Halfway' /\ Wholly' BY <1>1, <1>2, <1>6, <1>7, <1>10 DEF Halfway, Wholly
<1> QED BY <1>4, <1>5, <1>8, <1>9, <1>11 DEF TInv

LEMMA LoadHeadT == ASSUME IInv, TInv, ~torn, NEW c \in Caller, LoadHead(c) PROVE TInv'
<1>1. /\ UNCHANGED <<phase, vmem, idx, local, before, logs, made, msg>> /\ pc[c] = "loop"
      /\ pc' = [pc EXCEPT ![c] = "unlock"]
  BY DEF LoadHead, lock, board, Keep, Go
<1>2. pc \in [Caller -> {"idle", "lock", "xadd", "spin", "loop", "unlock"}] BY DEF IInv, Typed
<1>3. Made /\ Shaped /\ Boards /\ Called /\ Halfway /\ Wholly BY DEF TInv
<1>4. Made' BY <1>1, <1>2, <1>3 DEF Made
<1>5. Shaped' BY <1>1, <1>3 DEF Shaped
<1>6. Cur' = Cur BY <1>1 DEF Cur
<1>7. Boards' BY <1>1, <1>3, <1>6 DEF Boards
<1>8. Called' BY <1>1, <1>2, <1>3 DEF Called
<1>9. \A d \in Caller : pc'[d] \in {"loop", "unlock"} => d = c /\ pc'[d] = "unlock"
  <2>1. c \in Inside BY <1>1 DEF Inside
  <2>2. \A d \in Caller : pc[d] \in {"loop", "unlock"} => d = c BY <2>1, AloneInside DEF Inside
  <2> QED BY <1>1, <1>2, <2>2
<1>10. Screen(Cur) = Abstract!Show(Screen(before), Abstract!Text(msg[c]), "kernel")
  <2>1. PICK call \in KernelCall : msg[c] = call BY <1>1, <1>3 DEF Called
  <2>2. PICK s0 : s0 = before OBVIOUS
  <2>3. Prints(call, local[c], Cur, s0) BY <1>1, <1>3, <2>1, <2>2 DEF Halfway
  <2>4. Screen(Cur) = Abstract!Show(Screen(s0), Abstract!Text(call), "kernel") BY <2>1, <2>3, Printed
  <2> QED BY <2>1, <2>2, <2>4
<1>11. Halfway' /\ Wholly' BY <1>1, <1>6, <1>9, <1>10 DEF Halfway, Wholly
<1> QED BY <1>4, <1>5, <1>7, <1>8, <1>11 DEF TInv

LEMMA StoreHeadT == ASSUME IInv, TInv, ~torn, NEW c \in Caller, StoreHead(c) PROVE TInv'
<1>1. /\ UNCHANGED <<phase, vmem, idx, logs>> /\ pc[c] = "unlock"
      /\ pc' = [pc EXCEPT ![c] = "idle"] /\ made' = [made EXCEPT ![c] = made[c] + 1]
      /\ DOMAIN local' = DOMAIN local /\ msg' = [msg EXCEPT ![c] = <<>>]
  BY DEF StoreHead, lock, board, Keep, Go
<1>2. pc \in [Caller -> {"idle", "lock", "xadd", "spin", "loop", "unlock"}] BY DEF IInv, Typed
<1>3. Made /\ Shaped /\ Boards /\ Called BY DEF TInv
<1>4. Made' BY <1>1, <1>2, <1>3, BoundAssumption DEF Made
<1>5. Shaped' BY <1>1, <1>3 DEF Shaped
<1>6. Cur' = Cur BY <1>1 DEF Cur
<1>7. Boards' BY <1>1, <1>3, <1>6 DEF Boards
<1>8. Called' BY <1>1, <1>2, <1>3 DEF Called, Shaped
<1>9. \A d \in Caller : pc'[d] \notin {"loop", "unlock"}
  <2>1. c \in Inside BY <1>1 DEF Inside
  <2>2. \A d \in Caller : pc[d] \in {"loop", "unlock"} => d = c BY <2>1, AloneInside DEF Inside
  <2> QED BY <1>1, <1>2, <2>2
<1>10. Halfway' /\ Wholly' BY <1>9 DEF Halfway, Wholly
<1> QED BY <1>4, <1>5, <1>7, <1>8, <1>10 DEF TInv

LEMMA NextT == ASSUME IInv, TInv, [Next]_vars PROVE TInv'
<1>1. CASE UNCHANGED vars
  <2>1. UNCHANGED <<phase, vmem, idx, torn, pc, local, before, logs, made, msg>> BY <1>1 DEF vars, lock, board
  <2>2. Cur' = Cur BY <2>1 DEF Cur
  <2> QED BY <2>1, <2>2 DEF TInv, Made, Shaped, Boards, Called, Halfway, Wholly
<1>2. CASE Next
  <2>1. ASSUME NEW call \in LoaderCall, Log(call) PROVE TInv' BY <2>1, LogT
  <2>2. CASE clear_text_screnn BY <2>2, ClearT
  <2>3. ASSUME NEW c \in Caller, NEW call \in KernelCall, Call(c, call) PROVE TInv' BY <2>3, CallT
  <2>4. ASSUME NEW c \in Caller, Step(c) PROVE TInv'
    BY <2>4, DrawT, EnterT, WriteT, LoadHeadT, StoreHeadT DEF Step
  <2> QED BY <1>2, <2>1, <2>2, <2>3, <2>4 DEF Next
<1> QED BY <1>1, <1>2

-----------------------------------------------------------------------------
\* The screen at the start.
LEMMA InitStarts == Init => Abstract!Init
<1> SUFFICES ASSUME Init PROVE Abstract!Init OBVIOUS
<1>1. PICK junk \in Junk : vmem = [i \in 0 .. Cells - 1 |-> junk] BY DEF Init
<1>2. Inside = {} /\ idx = 0 /\ phase = "loader" /\ torn = FALSE BY DEF Init, Inside
<1>3. Committed = AsScreen(vmem, 0) BY <1>2 DEF Committed
<1>4. 0 \in 0 .. Height - 1 /\ 0 \in 0 .. Width - 1 /\ 0 * Width + 0 = 0 /\ 0 + 1 = 1 BY CellsRows
<1>5. AsScreen(vmem, 0) = [rows |-> Rows(vmem), row |-> 1, col |-> 0]
  <2>1. AsScreen(vmem, 0 * Width + 0) = [rows |-> Rows(vmem), row |-> 0 + 1, col |-> 0]
    BY <1>4, ScreenAt, Zenon
  <2> QED BY <1>4, <2>1
<1>6. Rows(vmem) \in [1 .. Height -> [1 .. Width -> {Seen(g) : g \in Junk}]]
  <2>1. \A r \in 1 .. Height, k \in 1 .. Width : vmem[(r - 1) * Width + k - 1] = junk
    BY <1>1, CellAddress
  <2> QED BY <2>1 DEF Rows
<1> QED BY <1>2, <1>3, <1>5, <1>6 DEF Abstract!Init

LEMMA LogPrints ==
  ASSUME IInv, TInv, NEW call \in LoaderCall, Log(call)
  PROVE  UNCHANGED <<phase, torn>> /\ phase = "loader"
         /\ Committed' = Abstract!Show(Committed, Abstract!Text(call), phase)
<1>1. phase = "loader" /\ UNCHANGED <<phase, torn, pc>> BY DEF Log, lock
<1>2. Inside = {} /\ Inside' = {} BY <1>1 DEF IInv, Started, Inside
<1>3. Committed = Screen(Cur) BY <1>2 DEF Committed, Screen, Cur
<1>4. Committed' = Screen(Cur') BY <1>2 DEF Committed, Screen, Cur
<1>5. Board(Cur, Cells - 1) BY <1>1 DEF TInv, Boards
<1>6. Screen(Cur') = Abstract!Show(Screen(Cur), Abstract!Text(call), "loader") BY <1>5, LogShows
<1> QED BY <1>1, <1>3, <1>4, <1>6

LEMMA ReturnPrints ==
  ASSUME IInv, TInv, ~torn, NEW c \in Caller, StoreHead(c)
  PROVE  UNCHANGED <<phase, torn>> /\ phase = "kernel" /\ msg[c] \in KernelCall
         /\ Committed' = Abstract!Show(Committed, Abstract!Text(msg[c]), phase)
<1>1. /\ UNCHANGED <<phase, torn, vmem, idx>> /\ pc[c] = "unlock" /\ pc' = [pc EXCEPT ![c] = "idle"]
  BY DEF StoreHead, board, Keep, Go
<1>2. pc \in [Caller -> {"idle", "lock", "xadd", "spin", "loop", "unlock"}] BY DEF IInv, Typed
<1>3. c \in Inside BY <1>1 DEF Inside
<1>4. \A d \in Inside : d = c BY <1>3, AloneInside
<1>5. Inside' = {} BY <1>1, <1>2, <1>4 DEF Inside
<1>6. phase = "kernel" BY <1>1 DEF IInv, Started
<1>7. Committed = Screen(before) BY <1>3 DEF Committed, Screen
<1>8. Committed' = Screen(Cur) BY <1>1, <1>5 DEF Committed, Screen, Cur
<1>9. msg[c] \in KernelCall BY <1>1 DEF TInv, Called
<1>10. Screen(Cur) = Abstract!Show(Screen(before), Abstract!Text(msg[c]), "kernel") BY <1>1 DEF TInv, Wholly
<1> QED BY <1>1, <1>6, <1>7, <1>8, <1>9, <1>10

\* Every step is a step of Console.
LEMMA NextPrints == ASSUME IInv, TInv, [Next]_vars PROVE [Abstract!Next]_(Abstract!vars)
<1> DEFINE Same == UNCHANGED <<Committed, phase, torn>>
           Goal == Abstract!Next \/ Same
<1>0. Same => UNCHANGED Abstract!vars BY DEF Abstract!vars
<1> SUFFICES Goal BY <1>0
<1>1. CASE UNCHANGED vars
  <2>1. UNCHANGED <<phase, vmem, idx, torn, pc, before>> BY <1>1 DEF vars, lock, board
  <2> QED BY <2>1, SameText DEF Inside
<1>2. ASSUME NEW call \in LoaderCall, Log(call) PROVE Goal
  <2>1. /\ UNCHANGED <<phase, torn>> /\ phase = "loader"
        /\ Committed' = Abstract!Show(Committed, Abstract!Text(call), phase)
    BY <1>2, LogPrints
  <2>2. Committed' # Committed => Abstract!Printed(LoaderCall) BY <2>1 DEF Abstract!Printed
  <2> QED BY <2>1, <2>2 DEF Abstract!Next
<1>3. CASE clear_text_screnn
  <2>1. UNCHANGED torn /\ phase = "loader" BY <1>3 DEF clear_text_screnn, lock
  <2>2. Abstract!Start BY <1>3, ClearStarts
  <2> QED BY <2>1, <2>2 DEF Abstract!Next
<1>4. ASSUME NEW c \in Caller, NEW call \in KernelCall, Call(c, call) PROVE Goal
  BY <1>4, CallHides
<1>5. ASSUME NEW c \in Caller, Step(c) PROVE Goal
  <2>0. ~torn BY <1>5 DEF Step
  <2>1. CASE LoadTail(c) BY <2>1, WaitHides DEF LoadTail, lock, Keep
  <2>2. CASE StoreTail(c)
    <3>1. torn' \/ UNCHANGED <<phase, torn>> BY <2>2, <2>0 DEF StoreTail, Keep, IInv, Typed
    <3>2. torn' => Abstract!Next BY DEF Abstract!Next
    <3> QED BY <3>1, <3>2, <2>2, WaitHides
  <2>3. CASE Enter(c)
    <3>1. UNCHANGED <<phase, torn>> BY <2>3 DEF Enter, lock, Keep
    <3> QED BY <3>1, <2>0, <2>3, EnterHides
  <2>4. CASE Loop(c) \/ Put(c)
    <3>1. UNCHANGED <<phase, torn>> BY <2>4, WriteFrame
    <3> QED BY <3>1, <2>4, WriteHides
  <2>5. CASE LoadHead(c) BY <2>5, WaitHides DEF LoadHead, lock, Keep
  <2>6. CASE StoreHead(c)
    <3>1. /\ UNCHANGED <<phase, torn>> /\ phase = "kernel" /\ msg[c] \in KernelCall
          /\ Committed' = Abstract!Show(Committed, Abstract!Text(msg[c]), phase)
      BY <2>0, <2>6, ReturnPrints
    <3>2. Committed' # Committed => Abstract!Printed(KernelCall) BY <3>1 DEF Abstract!Printed
    <3> QED BY <3>1, <3>2 DEF Abstract!Next
  <2> QED BY <1>5, <2>1, <2>2, <2>3, <2>4, <2>5, <2>6 DEF Step
<1> QED BY <1>1, <1>2, <1>3, <1>4, <1>5 DEF Next

\* printk and ld_print, with the lock, the two cursors and the scrolling,
\* implement Console: until two draws have overlapped each call's whole text
\* appears at once behind the texts before it, and nothing else changes the
\* screen.
THEOREM Refines == Spec => ImplementsConsole
<1>1. Spec => [](IInv /\ TInv)
  <2>1. Init => IInv /\ TInv BY InitI, InitT
  <2>2. IInv /\ TInv /\ [Next]_vars => (IInv /\ TInv)' BY NextI, NextT
  <2> QED BY <2>1, <2>2, PTL DEF Spec
<1>2. Init => Abstract!Init BY InitStarts
<1>3. IInv /\ TInv /\ [Next]_vars => [Abstract!Next]_(Abstract!vars) BY NextPrints
<1> QED BY <1>1, <1>2, <1>3, PTL DEF Spec, ImplementsConsole, Abstract!Spec

\* Every variable of the printers has its type; neither cursor ever stands
\* where the next putc would write behind the text buffer.
THEOREM TypeCorrect == Spec => []TypeOK
<1>1. Init => IInv /\ TInv BY InitI, InitT
<1>2. IInv /\ TInv /\ [Next]_vars => (IInv /\ TInv)' BY NextI, NextT
<1>3. IInv /\ TInv => TypeOK
  <2> SUFFICES ASSUME IInv, TInv PROVE TypeOK OBVIOUS
  <2>1. Typed BY DEF IInv
  <2>2. DOMAIN vmem = 0 .. Cells - 1 BY DEF TInv, Boards, Board, IsText, Cur
  <2>3. idx \in 0 .. IF phase = "loader" THEN Cells - 1 ELSE Cells BY DEF TInv, Boards, Board, Cur
  <2>4. Made BY DEF TInv
  <2> QED BY <2>1, <2>2, <2>3, <2>4 DEF TypeOK, Typed, Made
<1> QED BY <1>1, <1>2, <1>3, PTL DEF Spec
==============================================================================
