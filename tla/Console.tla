------------------------------ MODULE Console ------------------------------
(***************************************************************************)
(* What the text console promises, whoever prints and however the calls    *)
(* overlap: every call of ld_print or printk puts its whole text on the    *)
(* screen at once, after the text of the calls before it.                  *)
(*                                                                         *)
(* A call is a sequence of pieces, [kind, v]: a literal character, a       *)
(* control character or a directive with its argument.  What a piece looks *)
(* like in a format string is Printk's concern; here is what the reader    *)
(* sees.  The screen is a stack of Height rows and a cursor.  A full row   *)
(* moves the cursor to the next row at once, except at the bottom, where   *)
(* the cursor waits for the next character: a newline that comes first     *)
(* leaves no blank row there, and leaves one anywhere else.                *)
(***************************************************************************)
EXTENDS Integers, SequencesExt

CONSTANTS Width, Height,
          Word,        \* 2^64
          LoaderCall, KernelCall,  \* the calls made by each program
          Glyph        \* what a cell may show
VARIABLES screen,      \* [rows, row, col]
          who,         \* the program that prints: "loader", then "kernel"
          broken       \* two draws of a ticket have overlapped
vars == <<screen, who, broken>>

Digit == <<"0", "1", "2", "3", "4", "5", "6", "7",
           "8", "9", "a", "b", "c", "d", "e", "f">>

\* n in the given base, most significant digit first, no leading zero.
Digits(n, base) ==
  LET d[m \in 0 .. n] == IF m < base THEN <<Digit[m + 1]>>
                         ELSE Append(d[m \div base], Digit[(m % base) + 1])
  IN  d[n]

\* What a reader sees of a piece.  Only the long directives know a sign: an
\* int is shown as the 64-bit word it is extended to.
Shown(p) ==
  CASE p.kind \in {"lit", "char"} -> <<p.v>>
    [] p.kind = "percent"  -> <<"%">>
    [] p.kind = "newline"  -> <<"\n">>
    [] p.kind = "tab"      -> <<" ", " ", " ", " ">>
    [] p.kind = "str"      -> p.v
    [] p.kind \in {"int", "unsigned", "unsignedlong"} -> Digits(p.v % Word, 10)
    [] p.kind = "hex"      -> <<"0", "x">> \o Digits(p.v % Word, 16)
    [] p.kind = "long"     -> IF p.v < 0 THEN <<"-">> \o Digits(-p.v, 10)
                                         ELSE Digits(p.v, 10)
    [] p.kind = "longhex" -> IF p.v < 0
                              THEN <<"-", "0", "x">> \o Digits(-p.v, 16)
                              ELSE <<"0", "x">> \o Digits(p.v, 16)

Text(call) == FlattenSeq([i \in DOMAIN call |-> Shown(call[i])])

BlankRow == [i \in 1 .. Width |-> " "]

Scrolled(s) == [rows |-> Append(Tail(s.rows), BlankRow), row |-> Height, col |-> 0]

NextRow(s) == IF s.row = Height THEN Scrolled(s)
                                ELSE [rows |-> s.rows, row |-> s.row + 1, col |-> 0]

\* The loader leaves the last cell of the bottom row empty.
Usable(s, w) == IF s.row = Height /\ w = "loader" THEN Width - 1 ELSE Width

Placed(s, ch) ==
  LET t == [rows |-> [s.rows EXCEPT ![s.row][s.col + 1] = ch],
            row  |-> s.row, col |-> s.col + 1]
  IN  IF t.col = Width /\ t.row < Height THEN NextRow(t) ELSE t

PutChar(s, ch, w) ==
  IF ch = "\n" THEN NextRow(s)
  ELSE Placed(IF s.col >= Usable(s, w) THEN Scrolled(s) ELSE s, ch)

Show(s, text, w) == FoldLeft(LAMBDA t, ch : PutChar(t, ch, w), s, text)

Init == /\ screen \in [rows : [1 .. Height -> [1 .. Width -> Glyph]],
                       row : {1}, col : {0}]
        /\ who = "loader" /\ broken = FALSE

Printed(calls) == /\ screen' # screen
                  /\ \E call \in calls : screen' = Show(screen, Text(call), who)

\* The kernel starts on a clean screen, at its top.
Start == /\ who' = "kernel"
         /\ screen' = [rows |-> [r \in 1 .. Height |-> BlankRow], row |-> 1, col |-> 0]

Next == \/ broken'
        \/ UNCHANGED broken /\ who = "loader" /\ Start
        \/ UNCHANGED <<who, broken>> /\ who = "loader" /\ Printed(LoaderCall)
        \/ UNCHANGED <<who, broken>> /\ who = "kernel" /\ Printed(KernelCall)

Spec == Init /\ [][Next]_vars
=============================================================================
