------------------------------- MODULE Printk -------------------------------
(***************************************************************************)
(* io/printk.cc and cpu/spinlock.cc of the kernel, called from several     *)
(* threads or processors, and before them print.c of the loader, which     *)
(* writes to the same screen with a cursor of its own and without a lock.  *)
(*                                                                         *)
(* The kernel is compiled without optimisation: spin_lock loads lock->tail *)
(* into a register, xadd exchanges two registers, and the sum is stored    *)
(* back, so a ticket is drawn in two steps and two callers may draw the    *)
(* same one.  lock->head++ is a load and a store as well.  An iteration of *)
(* printk's loop and each call of putc is one action.  After two draws     *)
(* have overlapped two callers may be inside the lock and the code         *)
(* promises nothing: the model stops there.                                *)
(***************************************************************************)
EXTENDS Integers, FiniteSets, SequencesExt

CONSTANTS Caller,                  \* the threads that call printk
          Mod,                     \* 2^8: head and tail are uint8
          Width, Height, Word,
          MaxLen,                  \* MAX_PRINTK_BUF_LEN
          LoaderCall, KernelCall,  \* calls, as sequences of pieces
          Junk,                    \* what a cell may show at power-on
          MaxLogs, MaxCalls        \* bounds: calls of ld_print, of a caller

ASSUME LockAssumption == Mod \in Nat \ {0} /\ Caller # {}
\* There are eight processors and 256 tickets.
ASSUME CallerAssumption == IsFiniteSet(Caller) /\ Cardinality(Caller) <= Mod
ASSUME ScreenAssumption == Width \in Nat \ {0, 1} /\ Height \in Nat \ {0, 1}
ASSUME BoundAssumption == MaxLogs \in Nat /\ MaxCalls \in Nat /\ MaxLen \in Nat

VARIABLES
  phase,      \* "loader", then "kernel"
  vmem,       \* the text buffer at 0xB8000
  idx,        \* the cursor of the program that prints: each has its own
  head, tail,         \* print_lock
  pc, reg, ticket,    \* per caller: place in printk, register, cur_tail
  msg, local,         \* per caller: the call, and the loop's variables
  logs, made,         \* calls so far
  torn,       \* auxiliary: two draws of a ticket have overlapped
  before      \* auxiliary: vmem and idx when the lock was taken

lock  == <<head, tail, torn>>
board == <<vmem, idx>>
vars == <<phase, board, lock, pc, reg, ticket, msg, local, logs, made, before>>

Cells == Width * Height
Zero  == ""     \* what a scroll leaves on the bottom row
Blank == " "

-----------------------------------------------------------------------------
\* The format string and the arguments that a call's pieces stand for.

Spelled(p, who) ==
  CASE p.kind = "lit"      -> <<p.v>>
    [] p.kind = "newline"  -> <<"\n">>
    [] p.kind = "tab"      -> <<"\t">>
    [] p.kind = "percent"  -> <<"%", "%">>
    [] p.kind = "char"     -> <<"%", "c">>
    [] p.kind = "str"      -> <<"%", "s">>
    [] p.kind = "int"      -> <<"%", "d">>
    [] p.kind = "unsigned" -> <<"%", "u", "d">>
    [] p.kind = "hex"      -> <<"%", "x">>
    [] p.kind = "long"     -> IF who = "loader" THEN <<"%", "l">> ELSE <<"%", "l", "d">>
    [] p.kind = "longhex" -> <<"%", "l", "x">>
    [] p.kind = "unsignedlong" -> <<"%", "l", "u", "d">>

Pattern(call, who) == FlattenSeq([i \in DOMAIN call |-> Spelled(call[i], who)])

KernelPattern == [call \in KernelCall |-> Pattern(call, "kernel")]

Directives == {"char", "str", "int", "unsigned", "hex",
               "long", "longhex", "unsignedlong"}
Arguments(call) ==
  FlattenSeq([i \in DOMAIN call |->
                IF call[i].kind \in Directives THEN <<call[i].v>> ELSE <<>>])

\* The calls that are made: an argument is of the type its directive stands
\* for, and no character of it is the end of a string or of a line.
FitsLoader(p) ==
  \/ p.kind = "lit" /\ p.v \notin {Zero, "\n", "\t", "%"}
  \/ p.kind \in {"newline", "percent"}
  \/ p.kind = "char" /\ p.v \notin {Zero, "\n"}
  \/ p.kind = "str" /\ p.v \in Seq(Range(p.v) \ {Zero, "\n"})
  \/ p.kind \in {"int", "long"} /\ p.v \in 0 .. Word - 1
FitsKernel(p) ==
  \/ p.kind \notin {"int", "long"} /\ FitsLoader(p)
  \/ p.kind = "tab"
  \/ p.kind \in {"int", "unsigned", "hex", "unsignedlong"} /\ p.v \in Int
  \/ p.kind \in {"long", "longhex"} /\ p.v \in 1 - Word .. Word - 1

\* A %ud is not followed by a negative number for %ld or %lx: its flag is
\* still set there.
ASSUME CallAssumption ==
  /\ Word \in Nat \ {0}
  /\ \A call \in LoaderCall : /\ call \in Seq(Range(call))
                             /\ \A i \in DOMAIN call : FitsLoader(call[i])
  /\ \A call \in KernelCall :
       /\ call \in Seq(Range(call))
       /\ \A i \in DOMAIN call : FitsKernel(call[i])
       /\ \A i, j \in DOMAIN call :
            /\ i < j /\ call[i].kind = "unsigned"
            /\ call[j].kind \in {"long", "longhex"}
            => call[j].v >= 0

-----------------------------------------------------------------------------
\* The screen.  s is [vmem, idx].

scroll_text_screen(s) ==
  [vmem |-> [i \in 0 .. Cells - 1 |->
               IF i < Cells - Width THEN s.vmem[i + Width] ELSE Zero],
   idx  |-> Width * (Height - 1)]

Stored(s, ch) == [vmem |-> [s.vmem EXCEPT ![s.idx] = ch], idx |-> s.idx + 1]

\* Faulty variant: the cursor is not tested.
PutcBlind(s, ch) == Stored(s, ch)

putc(s, ch) == Stored(IF s.idx >= Cells THEN scroll_text_screen(s) ELSE s, ch)

putn(s) == IF s.idx >= (Height - 1) * Width THEN scroll_text_screen(s)
           ELSE [vmem |-> s.vmem, idx |-> s.idx + Width - (s.idx % Width)]

\* What a conversion hands to putc, in order.  The digits of a number are
\* stored from the last to the first and put from the first to the last.
Symbols == <<"0", "1", "2", "3", "4", "5", "6", "7",
             "8", "9", "a", "b", "c", "d", "e", "f">>
Buffered(d, base) ==
  LET buf[n \in 0 .. d] == IF n = 0 THEN <<>>
                           ELSE <<Symbols[(n % base) + 1]>> \o buf[n \div base]
  IN  Reverse(IF d = 0 THEN <<"0">> ELSE buf[d])

print_decimal(d) == Buffered(d % Word, 10)
print_hex(d) == <<"0", "x">> \o Buffered(d % Word, 16)

print_num(val, u_sign, hex) ==
  LET negative == val < 0 /\ ~u_sign
      value == IF negative THEN -val ELSE val
  IN  (IF negative THEN <<"-">> ELSE <<>>)
      \o (IF hex THEN print_hex(value) ELSE print_decimal(value))

-----------------------------------------------------------------------------
\* print.c: the loader's printer.

\* A character is put only below the last cell.
ld_putc(s, ch) == Stored(IF s.idx + 1 >= Cells THEN scroll_text_screen(s) ELSE s, ch)

\* One iteration of ld_print's loop; t is [s, flag, args].
LdChar(t, ch) ==
  LET Now(s, flag) == [s |-> s, flag |-> flag, args |-> t.args]
      Took(s)      == [s |-> s, flag |-> FALSE, args |-> Tail(t.args)]
      Text(str)    == FoldLeft(ld_putc, t.s, str)
  IN  CASE t.flag /\ ch = "%" -> Now(ld_putc(t.s, "%"), FALSE)
        [] t.flag /\ ch \in {"d", "l"} -> Took(Text(Buffered(Head(t.args), 10)))
        [] t.flag /\ ch = "c" -> Took(ld_putc(t.s, Head(t.args)))
        [] t.flag /\ ch = "s" -> Took(Text(Head(t.args)))
        [] ~t.flag /\ ch = "%" -> Now(t.s, TRUE)
        [] ~t.flag /\ ch = "\n" -> Now(putn(t.s), FALSE)
        [] ~t.flag /\ ch \notin {"%", "\n"} -> Now(ld_putc(t.s, ch), FALSE)

ld_print(call) ==
  LET t == [s |-> [vmem |-> vmem, idx |-> idx], flag |-> FALSE,
            args |-> Arguments(call)]
      end == FoldLeft(LdChar, t, Pattern(call, "loader")).s
  IN  vmem' = end.vmem /\ idx' = end.idx

\* The loader runs alone: a call is one step.
Log(call) == /\ phase = "loader" /\ logs < MaxLogs
             /\ ld_print(call)
             /\ logs' = logs + 1
             /\ UNCHANGED <<phase, lock, pc, reg, ticket, msg, local, made, before>>

\* init_kernel's first call; the kernel's own idx is 0, from .data.
clear_text_screnn ==
  /\ phase = "loader"
  /\ phase' = "kernel"
  /\ vmem' = [i \in 0 .. Cells - 1 |-> Blank]
  /\ idx' = 0 /\ logs' = 0
  /\ UNCHANGED <<lock, pc, reg, ticket, msg, local, made, before>>

-----------------------------------------------------------------------------
\* spin_lock and spin_unlock, step by step.

Go(c, to) == pc' = [pc EXCEPT ![c] = to]
Keep == UNCHANGED <<phase, logs>>

LoadTail(c) == /\ pc[c] = "lock" /\ Go(c, "xadd")
               /\ reg' = [reg EXCEPT ![c] = tail]
               /\ UNCHANGED <<board, lock, ticket, msg, local, made, before>> /\ Keep

StoreTail(c) == /\ pc[c] = "xadd" /\ Go(c, "spin")
                /\ tail' = (reg[c] + 1) % Mod
                /\ ticket' = [ticket EXCEPT ![c] = reg[c]]
                /\ torn' = (torn \/ tail # reg[c])
                /\ UNCHANGED <<board, head, reg, msg, local, made, before>> /\ Keep

StartLocals == [i |-> 1, args |-> <<>>, fmt |-> FALSE, long |-> FALSE,
                unsigned |-> FALSE, out |-> <<>>]

NoSnapshot == [vmem |-> <<>>, idx |-> 0]

\* Faulty variant: the caller does not wait for its ticket.
EnterAtOnce(c) == /\ pc[c] = "spin"
                  /\ Go(c, "loop")
                  /\ local' = [local EXCEPT ![c] =
                                 [StartLocals EXCEPT !.args = Arguments(msg[c])]]
                  /\ before' = [vmem |-> vmem, idx |-> idx]
                  /\ UNCHANGED <<board, lock, reg, ticket, msg, made>> /\ Keep

\* The lock is taken and printk's loop begins.
Enter(c) == /\ pc[c] = "spin" /\ head = ticket[c]
            /\ Go(c, "loop")
            /\ local' = [local EXCEPT ![c] =
                           [StartLocals EXCEPT !.args = Arguments(msg[c])]]
            /\ before' = [vmem |-> vmem, idx |-> idx]
            /\ UNCHANGED <<board, lock, reg, ticket, msg, made>> /\ Keep

LoadHead(c) == /\ pc[c] = "loop" /\ local[c].i > Len(KernelPattern[msg[c]])
               /\ local[c].out = <<>>
               /\ Go(c, "unlock")
               /\ reg' = [reg EXCEPT ![c] = head]
               /\ UNCHANGED <<board, lock, ticket, msg, local, made, before>> /\ Keep

\* Faulty variant: head is wider than tail.
StoreWideHead(c) == /\ pc[c] = "unlock" /\ Go(c, "idle")
                /\ head' = reg[c] + 1
                /\ made' = [made EXCEPT ![c] = @ + 1]
                /\ reg' = [reg EXCEPT ![c] = 0] /\ ticket' = [ticket EXCEPT ![c] = 0]
                /\ msg' = [msg EXCEPT ![c] = <<>>]
                /\ local' = [local EXCEPT ![c] = StartLocals]
                /\ before' = NoSnapshot
                /\ UNCHANGED <<board, tail, torn>> /\ Keep

\* printk returns, and its variables are gone.
StoreHead(c) == /\ pc[c] = "unlock" /\ Go(c, "idle")
                /\ head' = (reg[c] + 1) % Mod
                /\ made' = [made EXCEPT ![c] = @ + 1]
                /\ reg' = [reg EXCEPT ![c] = 0] /\ ticket' = [ticket EXCEPT ![c] = 0]
                /\ msg' = [msg EXCEPT ![c] = <<>>]
                /\ local' = [local EXCEPT ![c] = StartLocals]
                /\ before' = NoSnapshot
                /\ UNCHANGED <<board, tail, torn>> /\ Keep

-----------------------------------------------------------------------------
\* printk.

\* A caller calls printk: a format that is too long is dropped.  Bound: the
\* calls of a caller.
Call(c, call) ==
  /\ phase = "kernel" /\ pc[c] = "idle" /\ made[c] < MaxCalls /\ ~torn
  /\ \/ /\ Len(KernelPattern[call]) > MaxLen
        /\ made' = [made EXCEPT ![c] = @ + 1]
        /\ UNCHANGED <<pc, msg>>
     \/ /\ Len(KernelPattern[call]) <= MaxLen
        /\ Go(c, "lock")
        /\ msg' = [msg EXCEPT ![c] = call]
        /\ UNCHANGED made
  /\ UNCHANGED <<board, lock, reg, ticket, local, before>> /\ Keep

\* An iteration gives out to putc and sets the loop's variables.
Iteration(c, out, args, fmt, long, unsigned) ==
  /\ local' = [local EXCEPT ![c] =
                 [i |-> local[c].i + 1, args |-> args, fmt |-> fmt, long |-> long,
                  unsigned |-> unsigned, out |-> out]]
  /\ UNCHANGED <<board, lock, pc, reg, ticket, msg, made, before>> /\ Keep

\* The characters that mean something after a '%', and after an 'l'.
AfterPercent == {"%", "d", "x", "l", "u", "c", "s"}
AfterLong    == {"u", "d", "x"}

Directive(c, ch, l) ==
  LET arg  == Head(l.args)
      Took(out) == Iteration(c, out, Tail(l.args), FALSE, l.long, l.unsigned)
  IN  \/ ch = "%" /\ Iteration(c, <<ch>>, l.args, FALSE, l.long, l.unsigned)
      \/ ch = "d" /\ Took(print_decimal(arg))
      \/ ch = "x" /\ Took(print_hex(arg))
      \/ ch = "l" /\ Iteration(c, <<>>, l.args, FALSE, TRUE, l.unsigned)
      \/ ch = "c" /\ Took(<<arg>>)
      \/ ch = "s" /\ Took(arg)
      \/ ch = "u" /\ Iteration(c, <<>>, l.args, l.fmt, l.long, TRUE)

LongDirective(c, ch, l) ==
  \/ ch = "u" /\ Iteration(c, <<>>, l.args, l.fmt, l.long, TRUE)
  \/ /\ ch \in {"d", "x"}
     /\ Iteration(c, print_num(Head(l.args), l.unsigned, ch = "x"),
                  Tail(l.args), l.fmt, FALSE, FALSE)

\* A newline is put by putn in the same step.
Newline(c, l) == /\ vmem' = putn([vmem |-> vmem, idx |-> idx]).vmem
                 /\ idx'  = putn([vmem |-> vmem, idx |-> idx]).idx
                 /\ local' = [local EXCEPT ![c] = [l EXCEPT !.i = l.i + 1]]
                 /\ UNCHANGED <<lock, pc, reg, ticket, msg, made, before>> /\ Keep

Plain(c, ch, l) ==
  LET Same(out, fmt) == Iteration(c, out, l.args, fmt, l.long, l.unsigned)
  IN  \/ ch = "\n" /\ Newline(c, l)
      \/ ch = "\t" /\ Same(<<" ", " ", " ", " ">>, l.fmt)
      \/ ch = "%"  /\ Same(<<>>, TRUE)
      \/ ch \notin {"\n", "\t", "%"} /\ Same(<<ch>>, l.fmt)

Loop(c) ==
  LET l  == local[c]
      ch == KernelPattern[msg[c]][l.i]
      directive == l.fmt /\ ch \in AfterPercent
      long      == ~directive /\ l.long /\ ch \in AfterLong
  IN  /\ pc[c] = "loop" /\ l.out = <<>> /\ l.i <= Len(KernelPattern[msg[c]])
      /\ \/ directive /\ Directive(c, ch, l)
         \/ long /\ LongDirective(c, ch, l)
         \/ ~directive /\ ~long /\ Plain(c, ch, l)

\* The next character reaches the screen.
Put(c) ==
  LET s == putc([vmem |-> vmem, idx |-> idx], Head(local[c].out))
  IN  /\ pc[c] = "loop" /\ local[c].out # <<>>
      /\ vmem' = s.vmem /\ idx' = s.idx
      /\ local' = [local EXCEPT ![c] = [@ EXCEPT !.out = Tail(local[c].out)]]
      /\ UNCHANGED <<lock, pc, reg, ticket, msg, made, before>> /\ Keep

-----------------------------------------------------------------------------
Init == /\ phase = "loader"
        /\ \E junk \in Junk : vmem = [i \in 0 .. Cells - 1 |-> junk]
        /\ idx = 0 /\ head = 0 /\ tail = 0 /\ torn = FALSE
        /\ pc = [c \in Caller |-> "idle"]
        /\ reg = [c \in Caller |-> 0] /\ ticket = [c \in Caller |-> 0]
        /\ msg = [c \in Caller |-> <<>>]
        /\ local = [c \in Caller |-> StartLocals]
        /\ logs = 0 /\ made = [c \in Caller |-> 0]
        /\ before = NoSnapshot

\* What a caller does between its call and its return.  Bound: the model
\* stops when two draws have overlapped.
Step(c) == /\ ~torn
           /\ \/ LoadTail(c) \/ StoreTail(c) \/ Enter(c)
              \/ Loop(c) \/ Put(c) \/ LoadHead(c) \/ StoreHead(c)

Next == \/ \E call \in LoaderCall : Log(call)
        \/ clear_text_screnn
        \/ \E c \in Caller, call \in KernelCall : Call(c, call)
        \/ \E c \in Caller : Step(c)

\* Every thread gets the processor again and again; nobody has to call.
Spec == Init /\ [][Next]_vars /\ \A c \in Caller : WF_vars(Step(c))

-----------------------------------------------------------------------------
\* Every variable has its type; the kernel's cursor is never past the end of
\* the text buffer and the loader's never at it.
TypeOK ==
  /\ phase \in {"loader", "kernel"} /\ torn \in BOOLEAN
  /\ DOMAIN vmem = 0 .. Cells - 1
  /\ idx \in 0 .. IF phase = "loader" THEN Cells - 1 ELSE Cells
  /\ head \in 0 .. Mod - 1 /\ tail \in 0 .. Mod - 1
  /\ pc \in [Caller -> {"idle", "lock", "xadd", "spin", "loop", "unlock"}]
  /\ reg \in [Caller -> 0 .. Mod - 1] /\ ticket \in [Caller -> 0 .. Mod - 1]
  /\ logs \in 0 .. MaxLogs /\ made \in [Caller -> 0 .. MaxCalls]

\* The screen of Console that vmem and a cursor stand for.  While a caller is
\* inside the lock its text is not there yet.
Seen(cell) == IF cell = Zero THEN Blank ELSE cell
AsScreen(v, i) ==
  LET row == IF i = Cells THEN Height ELSE i \div Width + 1
  IN  [rows |-> [r \in 1 .. Height |-> [k \in 1 .. Width |-> Seen(v[(r - 1) * Width + k - 1])]],
       row |-> row, col |-> i - (row - 1) * Width]

Inside == {c \in Caller : pc[c] \in {"loop", "unlock"}}
Committed == IF Inside = {} THEN AsScreen(vmem, idx)
             ELSE AsScreen(before.vmem, before.idx)

Abstract == INSTANCE Console WITH screen <- Committed, who <- phase, broken <- torn,
                                  Glyph <- {Seen(g) : g \in Junk}

\* Until two draws of a ticket have overlapped, every call of printk puts its
\* whole text on the screen in one piece, with the arguments where the format
\* has its directives, and so did every ld_print before: the cursor, the
\* scrolling and the lock together behave as Console says.
ImplementsConsole == Abstract!Spec

\* Until two draws have overlapped every caller of printk returns, although
\* the tickets wrap around.
CallsReturn == \A c \in Caller : pc[c] # "idle" ~> (pc[c] = "idle" \/ torn)
=============================================================================
