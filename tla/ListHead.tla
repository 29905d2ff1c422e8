------------------------------ MODULE ListHead ------------------------------
(***************************************************************************)
(* include/list.h: the intrusive circular list that the buddy allocator's  *)
(* free lists, the slab's partial lists and the scheduler's task ring are  *)
(* made of.  The links are a function from nodes to [prev, next] records;  *)
(* the operators return the links after the stores of one list.h call.     *)
(***************************************************************************)
EXTENDS FiniteSets

CONSTANT Null       \* nullptr

Links(Node) == [Node -> [prev : Node \cup {Null}, next : Node \cup {Null}]]

Unlinked == [prev |-> Null, next |-> Null]

\* LIST_HEAD_INIT: ele becomes a ring of its own.
ListHeadInit(lru, ele) == [lru EXCEPT ![ele] = [prev |-> ele, next |-> ele]]

\* list_add(ele, prev, next) with the arguments list_add_after gives it.
ListAddAfter(lru, ele, head) ==
  [lru EXCEPT ![lru[head].next].prev = ele,
              ![ele] = [prev |-> head, next |-> lru[head].next],
              ![head].next = ele]

\* list_del: the neighbours are joined, the links of ele become null.
ListDel(lru, ele) ==
  [lru EXCEPT ![lru[ele].prev].next = lru[ele].next,
              ![lru[ele].next].prev = lru[ele].prev,
              ![ele] = Unlinked]

\* S is what following `next` from any of its members visits: prev and next
\* are inverse on S, and S does not fall into several cycles.
IsRing(lru, S) ==
  /\ \A x \in S : lru[x].next \in S /\ lru[lru[x].next].prev = x
  /\ \A x \in S : lru[x].prev \in S /\ lru[lru[x].prev].next = x
  /\ \A T \in SUBSET S :
       T # {} /\ (\A x \in T : lru[x].next \in T) => T = S
=============================================================================
