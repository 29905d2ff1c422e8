---------------------------- MODULE Sched_proofs ----------------------------
(***************************************************************************)
(* Theorems about the scheduler, for every number of threads, every period *)
(* and every clock bound: types, the ring and the contexts, and that a     *)
(* sleep in company lasts as long as it was asked to.  They are about      *)
(* ticks that are Prompt, and there the processor never goes astray.  For  *)
(* finitely many threads, that nobody is overtaken on the way round.       *)
(***************************************************************************)
EXTENDS Sched, Induction, TLAPS

\* linked are the threads that have begun to exist; each creator has one new
\* thread, which is nobody else's.
Members ==
  /\ cur_task \in linked
  /\ \A t \in Task : t \in linked <=> pc[t] # "none"
  /\ \A t \in Task : pc[t] \in Creating <=> new[t] # Null
  /\ \A t \in Task : new[t] # Null => pc[new[t]] = "none"
  /\ \A t, u \in Task : new[t] # Null /\ new[t] = new[u] => t = u

\* The ring forwards, and what the threads remember of it backwards.
Closed == \A t \in linked : list[t].next \in linked
OneCycle == \A S \in SUBSET linked :
              S # {} /\ (\A t \in S : list[t].next \in S) => S = linked
Backwards == \A t \in linked : LET n == list[t].next IN
               /\ pc[n] \in Creating => head[n] = t
               /\ list[n].prev = IF Adding(n) THEN new[n] ELSE t

\* Where a creator is cut off, the variables of list_add hold its neighbours.
Halfway ==
  \A t \in Task :
    /\ pc[t] \in Creating => head[t] \in linked /\ list[head[t]].next = t
    /\ pc[t] \in Creating \ {"next"} => nxt[t] = t
    /\ pc[t] \in {"add3", "add4"} => list[new[t]].prev = head[t]
    /\ pc[t] = "add4" => list[new[t]].next = t

\* Each thread is resumed where it was left.
Contexts ==
  /\ intr = TRUE /\ cpu \in {"task", "switch"}
  /\ cpu = "switch" <=> pc[cur_task] = "born"
  /\ \A t \in Task : pc[t] = "born" => context[t] = Fresh
  /\ \A t \in Task : new[t] # Null => context[new[t]] = Fresh
  /\ \A t \in linked : t # cur_task /\ pc[t] # "born" => context[t] = InTimer

\* The clock is read at whole periods, and the deadline of a sleeper in company
\* is what it was set to.
Whole(n) == \E k \in Nat : n = Period * k
Deadlines ==
  /\ Whole(ms) /\ \A t \in Task : Whole(since[t])
  /\ \A t \in Task :
       /\ pc[t] = "deadline" => since[t] + asked[t] + Period <= MaxMs
       /\ pc[t] = "sleep" /\ ~alone[t] => sleep_time[t] = since[t] + asked[t]

Ring == Closed /\ OneCycle /\ Backwards
IInv == TypeOK /\ Members /\ Ring /\ Halfway /\ Contexts /\ Deadlines

-----------------------------------------------------------------------------
(* Arithmetic *)

LEMMA ModInRange == ASSUME NEW n \in Int, NEW w \in Nat \ {0}
                    PROVE  n % w \in 0 .. w - 1
OBVIOUS

LEMMA Milliseconds == /\ \A a \in Sleeps \cup {0} : a \in Nat
                      /\ \A n \in 0 .. MaxMs : n \in Nat
<1>1. Sleeps \subseteq Nat /\ MaxMs \in Nat BY TimeAssumption
<1> QED BY <1>1

LEMMA WholeNext == ASSUME NEW n \in Nat, Whole(n) PROVE Whole(n + Period)
<1>1. PICK k \in Nat : n = Period * k BY DEF Whole
<1>2. k + 1 \in Nat /\ n + Period = Period * (k + 1) BY <1>1, TimeAssumption
<1> QED BY <1>2 DEF Whole

\* Between two whole periods that lie more than a apart.
LEMMA WholePeriods ==
  ASSUME NEW m \in Nat, NEW s \in Nat, NEW a \in Nat, Whole(m), Whole(s), m - s > a
  PROVE  /\ a % Period = 0 => Certain(s, m) >= a
         /\ a - Certain(s, m) < Period
<1>1. PICK i \in Nat : m = Period * i BY DEF Whole
<1>2. PICK j \in Nat : s = Period * j BY DEF Whole
<1> DEFINE P == Period  k == i - j  q == a \div P
<1>3. P \in Nat \ {0} /\ k \in Int /\ i \in Nat /\ j \in Nat BY TimeAssumption
<1>4. m - s = P * k BY <1>1, <1>2, <1>3
<1> HIDE DEF P, k
<1>5. ASSUME a % P = 0 PROVE m - s - P >= a
  <2>1. q \in Nat /\ P * q = a BY <1>3, <1>5
  <2> HIDE DEF q
  <2>2. P * k > P * q BY <1>4, <2>1
  <2>3. k >= q + 1
    <3>1. SUFFICES ASSUME k <= q PROVE FALSE BY <1>3, <2>1
    <3>2. P * k <= P * q BY <3>1, <1>3, <2>1
    <3> QED BY <3>2, <2>2, <1>3, <2>1
  <2>4. P * k >= P * (q + 1) BY <2>3, <1>3, <2>1
  <2>5. P * (q + 1) = P * q + P BY <1>3, <2>1
  <2> QED BY <2>1, <2>4, <2>5, <1>3, <1>4
<1>6. a - (m - s - P) < P BY <1>3
<1> QED BY <1>5, <1>6 DEF P, Certain

-----------------------------------------------------------------------------
(* The ring *)

\* Every thread in the ring comes behind one.
LEMMA Predecessor ==
  ASSUME Closed, OneCycle, NEW t \in linked
  PROVE  \E p \in linked : list[p].next = t
<1> DEFINE S == {list[x].next : x \in linked}
<1>1. S \in SUBSET linked /\ S # {} BY DEF Closed
<1>2. \A x \in S : list[x].next \in S BY <1>1
<1>3. S = linked BY <1>1, <1>2 DEF OneCycle
<1> QED BY <1>3

\* Outside its own stores, a thread's prev is that one.
LEMMA PrevIsPredecessor ==
  ASSUME Ring, NEW t \in linked, ~Adding(t)
  PROVE  list[t].prev \in linked /\ list[list[t].prev].next = t
<1>1. PICK p \in linked : list[p].next = t BY Predecessor DEF Ring
<1> QED BY <1>1 DEF Ring, Backwards

\* next is one to one.
LEMMA NextInjective ==
  ASSUME Ring, NEW t \in linked, NEW u \in linked, list[t].next = list[u].next
  PROVE  t = u
BY DEF Ring, Backwards, Adding, Creating

-----------------------------------------------------------------------------
LEMMA InitOK == Init => IInv
<1> SUFFICES ASSUME Init PROVE IInv OBVIOUS
<1> USE TaskAssumption, TimeAssumption DEF Init
<1>l. list[Boot] = [prev |-> Boot, next |-> Boot] /\ list \in Links(Task)
  BY DEF BootRing, ListHeadInit, Unlinked, Links
<1>1. TypeOK
  <2>1. sleep_time \in [Task -> 0 .. Word - 1] OBVIOUS
  <2>2. /\ pc \in [Task -> {"none", "born", "run", "deadline", "sleep"} \cup Creating]
        /\ \A t \in Task : pc[t] \notin Creating
    BY DEF Creating
  <2>3. ms \in 0 .. MaxMs /\ since \in [Task -> 0 .. MaxMs] OBVIOUS
  <2> QED BY <1>l, <2>1, <2>2, <2>3 DEF TypeOK
<1>2. Members BY DEF Members, Creating
<1>3. Ring BY <1>l DEF Ring, Closed, OneCycle, Backwards, Creating, Adding
<1>4. Halfway BY DEF Halfway, Creating
<1>5. Contexts BY DEF Contexts
<1>6. Deadlines
  <2>1. Whole(0) BY DEF Whole
  <2> QED BY <2>1 DEF Deadlines
<1> QED BY <1>1, <1>2, <1>3, <1>4, <1>5, <1>6 DEF IInv

\* An action that leaves the ring and the creators alone keeps what is about them.
LEMMA RingUntouched ==
  ASSUME IInv, list' = list, linked' = linked, UNCHANGED create,
         \A t \in Task : pc[t] \in Creating \/ pc'[t] \in Creating \/ pc[t] = "none"
                           \/ pc'[t] = "none" => pc'[t] = pc[t],
         cur_task' \in linked
  PROVE  Members' /\ Ring' /\ Halfway'
<1> USE DEF IInv, create
<1>t. linked \subseteq Task /\ \A t \in linked : list[t].next \in linked
  BY DEF TypeOK, Ring, Closed
<1>1. Members' BY DEF Members, Creating, TypeOK
<1>2. Ring' BY <1>t DEF Ring, Closed, OneCycle, Backwards, Creating, Adding
<1>3. Halfway' BY DEF Halfway, Creating
<1> QED BY <1>1, <1>2, <1>3

-----------------------------------------------------------------------------
(* Every step keeps the invariant. *)

LEMMA TickStep == ASSUME IInv, Prompt, Tick PROVE IInv'
<1> USE DEF IInv
<1> DEFINE next == list[cur_task].next
<1>1. /\ cpu = "task" /\ intr = TRUE
      /\ UNCHANGED <<ring, pc, create, asked, since>>
  BY DEF Tick, Contexts
<1>2. cur_task \in linked /\ next \in linked /\ linked \subseteq Task /\ cur_task' = next
  BY DEF Tick, schedule, Members, Ring, Closed, TypeOK
<1>3. Members' /\ Ring' /\ Halfway' BY <1>1, <1>2, RingUntouched DEF ring
<1>4. /\ pc[cur_task] \notin {"born", "none"}
      /\ context' = [context EXCEPT ![cur_task] = InTimer]
  BY <1>1, <1>2 DEF Contexts, Members, Tick, schedule, save
<1>5. context'[next] = IF pc[next] = "born" THEN Fresh ELSE InTimer
  BY <1>2, <1>4 DEF Contexts, TypeOK
<1>6. /\ cpu' = IF pc[next] = "born" THEN "switch" ELSE "task"
      /\ intr' = TRUE
  BY <1>1, <1>2, <1>5 DEF Tick, schedule, resume, flags, save, Fresh, InTimer
<1>7. Contexts'
  <2>1. \A t \in Task : new[t] # Null => new[t] \in Task /\ new[t] # cur_task
    BY <1>2 DEF Members, TypeOK
  <2> QED BY <1>1, <1>2, <1>4, <1>6, <2>1 DEF Contexts, TypeOK, ring, create
<1>8. sleep_time' \in [Task -> 0 .. Word - 1]
      /\ \A t \in Task : sleep_time'[t] # sleep_time[t] =>
           t = cur_task /\ Single
  <2>1. Word \in Nat \ {0} /\ Period \in Nat BY TimeAssumption
  <2>2. sleep_time[cur_task] \in Nat BY <1>2 DEF TypeOK
  <2> DEFINE n == sleep_time[cur_task] - Period + Word
  <2>3. n \in Int BY <2>1, <2>2
  <2> HIDE DEF n
  <2>4. n % Word \in 0 .. Word - 1 BY <2>1, <2>3, ModInRange
  <2>5. (sleep_time[cur_task] - Period + Word) % Word \in 0 .. Word - 1 BY <2>4 DEF n
  <2> QED BY <1>2, <2>5 DEF TypeOK, Tick, schedule, countdown
<1>9. ms' \in 0 .. MaxMs /\ Whole(ms')
  BY WholeNext, TimeAssumption DEF Tick, add_running_time, TimeLeft, TypeOK, Deadlines
<1>10. alone' \in [Task -> BOOLEAN]
       /\ \A t \in Task : /\ ~alone'[t] => ~alone[t]
                          /\ t = cur_task /\ Single /\ pc[t] = "sleep" => alone'[t]
  BY <1>2 DEF Tick, schedule, TypeOK
<1>11. Deadlines' BY <1>1, <1>8, <1>9, <1>10 DEF Deadlines, Whole
<1>12. TypeOK'
  BY <1>1, <1>2, <1>4, <1>6, <1>8, <1>9, <1>10 DEF TypeOK, ring, create
<1> QED BY <1>3, <1>7, <1>11, <1>12

LEMMA EnterStep == ASSUME IInv, EnterThread PROVE IInv'
<1> USE DEF IInv
<1>1. /\ cur_task \in linked /\ linked \subseteq Task /\ pc[cur_task] = "born"
      /\ pc' = [pc EXCEPT ![cur_task] = "run"] /\ cpu' = "task"
      /\ UNCHANGED <<ring, cur_task, context, intr, ms, sleep_time, create, sleeper>>
  BY DEF EnterThread, Members, TypeOK, Contexts
<1>2. Members' /\ Ring' /\ Halfway' BY <1>1, RingUntouched DEF ring, TypeOK, Creating
<1>3. Contexts' BY <1>1 DEF Contexts, TypeOK, ring, create
<1>4. Deadlines' BY <1>1 DEF Deadlines, TypeOK, sleeper, Whole
<1>5. TypeOK' BY <1>1 DEF TypeOK, ring, create, sleeper, Creating
<1> QED BY <1>2, <1>3, <1>4, <1>5

LEMMA CreateStep == ASSUME IInv, NEW t \in Task, Create(t) PROVE IInv'
<1> USE DEF IInv
<1>1. PICK n \in Task :
        /\ Running(t) /\ pc[t] = "run" /\ pc[n] = "none" /\ \A s \in Task : new[s] # n
        /\ new' = [new EXCEPT ![t] = n]
        /\ context' = [context EXCEPT ![n] = Fresh]
        /\ head' = [head EXCEPT ![t] = list[t].prev]
        /\ pc' = [pc EXCEPT ![t] = "next"]
        /\ UNCHANGED <<ring, cur_task, intr, cpu, ms, sleep_time, nxt, sleeper>>
  BY DEF Create, NewContext, InsertAfter
<1>2. t = cur_task /\ cpu = "task" /\ t \in linked /\ n \notin linked /\ n # t /\ n # Null
      /\ linked \subseteq Task
  BY <1>1, TaskAssumption DEF Running, Members, TypeOK
<1>3. list[t].prev \in linked /\ list[list[t].prev].next = t /\ list[t].prev # Null
  BY <1>1, <1>2, PrevIsPredecessor, TaskAssumption DEF Adding
<1>4. Members' BY <1>1, <1>2 DEF Members, TypeOK, ring, Creating
<1>5. Ring'
  <2>1. \A x \in linked : list[x].next = t => x = list[t].prev BY <1>2, <1>3, NextInjective
  <2> QED BY <1>1, <1>2, <2>1 DEF Ring, Closed, OneCycle, Backwards, ring, TypeOK, Creating, Adding
<1>6. Halfway' BY <1>1, <1>2, <1>3 DEF Halfway, ring, TypeOK, Creating
<1>7. Contexts' BY <1>1, <1>2 DEF Contexts, ring, TypeOK
<1>8. Deadlines' BY <1>1 DEF Deadlines, TypeOK, sleeper, Whole
<1>9. TypeOK' BY <1>1, <1>2, <1>3, TaskAssumption DEF TypeOK, ring, sleeper, Creating
<1> QED BY <1>4, <1>5, <1>6, <1>7, <1>8, <1>9

LEMMA ReadNextStep == ASSUME IInv, NEW t \in Task, ReadNext(t) PROVE IInv'
<1> USE DEF IInv
<1>1. /\ pc[t] = "next" /\ nxt' = [nxt EXCEPT ![t] = list[head[t]].next]
      /\ pc' = [pc EXCEPT ![t] = "add1"]
      /\ UNCHANGED <<ring, cur_task, context, intr, cpu, ms, sleep_time, new, head, sleeper>>
  BY DEF ReadNext
<1>2. list[head[t]].next = t /\ t # Null BY <1>1, TaskAssumption DEF Halfway, Creating
<1>4. Members' BY <1>1 DEF Members, TypeOK, ring, Creating
<1>5. Ring' BY <1>1 DEF Ring, Closed, OneCycle, Backwards, ring, TypeOK, Creating, Adding
<1>6. Halfway' BY <1>1, <1>2 DEF Halfway, ring, TypeOK, Creating
<1>7. Contexts' BY <1>1 DEF Contexts, ring, TypeOK
<1>8. Deadlines' BY <1>1 DEF Deadlines, TypeOK, sleeper, Whole
<1>9. TypeOK' BY <1>1, <1>2 DEF TypeOK, ring, sleeper, Creating
<1> QED BY <1>4, <1>5, <1>6, <1>7, <1>8, <1>9

LEMMA ListAddStep == ASSUME IInv, NEW t \in Task, ListAdd(t) PROVE IInv'
<1> USE DEF IInv
<1>1. /\ pc[t] \in {"add1", "add2", "add3"}
      /\ list' = Stores(t)[pc[t]] /\ pc' = [pc EXCEPT ![t] = After[pc[t]]]
      /\ UNCHANGED <<linked, cur_task, context, intr, cpu, ms, sleep_time, create, sleeper>>
  BY DEF ListAdd, After
<1> DEFINE n == new[t]  h == head[t]
<1>2. /\ t \in linked /\ linked \subseteq Task /\ n \in Task \ linked /\ n # Null /\ t # Null
      /\ h \in linked /\ list[h].next = t /\ nxt[t] = t
      /\ list \in Links(Task)
  BY <1>1, TaskAssumption DEF TypeOK, Members, Halfway, Creating
<1>3. \A s \in Task : new[s] # Null /\ s # t => new[s] # n BY <1>2 DEF Members
<1>4. /\ pc[t] = "add1" => list' = [list EXCEPT ![t].prev = n] /\ pc' = [pc EXCEPT ![t] = "add2"]
      /\ pc[t] = "add2" => list' = [list EXCEPT ![n].prev = h] /\ pc' = [pc EXCEPT ![t] = "add3"]
      /\ pc[t] = "add3" => list' = [list EXCEPT ![n].next = t] /\ pc' = [pc EXCEPT ![t] = "add4"]
  <2>1. /\ Stores(t).add1 = [list EXCEPT ![t].prev = n]
        /\ Stores(t).add2 = [list EXCEPT ![n].prev = h]
        /\ Stores(t).add3 = [list EXCEPT ![n].next = t]
    BY <1>2 DEF Stores
  <2>2. After.add1 = "add2" /\ After.add2 = "add3" /\ After.add3 = "add4" BY DEF After
  <2>3. CASE pc[t] = "add1" BY <1>1, <2>1, <2>2, <2>3
  <2>4. CASE pc[t] = "add2" BY <1>1, <2>1, <2>2, <2>4
  <2>5. CASE pc[t] = "add3" BY <1>1, <2>1, <2>2, <2>5
  <2> QED BY <1>1, <2>3, <2>4, <2>5
<1>5. /\ list' \in Links(Task)
      /\ \A x \in linked : /\ list'[x].next = list[x].next
                           /\ x # t => list'[x].prev = list[x].prev
      /\ list'[t].prev = IF pc[t] = "add1" THEN n ELSE list[t].prev
      /\ \A x \in Task : x \notin linked /\ x # n => list'[x] = list[x]
      /\ pc[t] = "add2" => list'[n].prev = h
      /\ pc[t] = "add3" => list'[n].prev = list[n].prev /\ list'[n].next = t
  <2> HIDE DEF n, h
  <2>1. CASE pc[t] = "add1" BY <1>2, <1>4, <2>1 DEF Links
  <2>2. CASE pc[t] = "add2" BY <1>2, <1>4, <2>2 DEF Links
  <2>3. CASE pc[t] = "add3" BY <1>2, <1>4, <2>3 DEF Links
  <2> QED BY <1>1, <2>1, <2>2, <2>3
<1>6. /\ pc' \in [Task -> {"none", "born", "run", "deadline", "sleep"} \cup Creating]
      /\ pc'[t] \in {"add2", "add3", "add4"} /\ \A x \in Task : x # t => pc'[x] = pc[x]
      /\ pc'[t] = "add3" => pc[t] = "add2"
      /\ pc'[t] = "add4" => pc[t] = "add3"
  BY <1>1, <1>4 DEF TypeOK, Creating
<1> HIDE DEF n, h
<1>7. Members' BY <1>1, <1>6 DEF Members, create, Creating
<1>8. Ring'
  <2>1. Closed' /\ OneCycle' BY <1>1, <1>5 DEF Ring, Closed, OneCycle
  <2>2. ASSUME NEW x \in linked
        PROVE  LET m == list'[x].next IN
                 /\ pc'[m] \in Creating => head'[m] = x
                 /\ list'[m].prev = IF pc'[m] \in {"add2", "add3", "add4"} THEN new'[m] ELSE x
    <3>1. list[x].next \in linked /\ list'[x].next = list[x].next
      BY <1>5 DEF Ring, Closed
    <3>2. CASE list[x].next = t
      BY <1>1, <1>2, <1>5, <1>6, <3>1, <3>2 DEF Ring, Backwards, Creating, Adding, create, n
    <3>3. CASE list[x].next # t
      BY <1>1, <1>2, <1>5, <1>6, <3>1, <3>3 DEF Ring, Backwards, Adding, create
    <3> QED BY <3>2, <3>3
  <2> QED BY <1>1, <2>1, <2>2 DEF Ring, Backwards, Adding
<1>9. Halfway'
  <2>1. ASSUME NEW s \in Task, s # t
        PROVE  /\ pc'[s] \in Creating => head'[s] \in linked' /\ list'[head'[s]].next = s
               /\ pc'[s] \in Creating \ {"next"} => nxt'[s] = s
               /\ pc'[s] \in {"add3", "add4"} => list'[new'[s]].prev = head'[s]
               /\ pc'[s] = "add4" => list'[new'[s]].next = s
    <3>1. pc[s] \in Creating => new[s] \in Task \ linked /\ new[s] # n
      BY <1>2, <1>3, <2>1 DEF Members, TypeOK
    <3> QED BY <1>1, <1>5, <1>6, <2>1, <3>1 DEF Halfway, create, Creating
  <2>2. /\ head'[t] \in linked' /\ list'[head'[t]].next = t /\ nxt'[t] = t
        /\ pc'[t] = "add3" => list'[new'[t]].prev = head'[t]
        /\ pc'[t] = "add4" => list'[new'[t]].prev = head'[t] /\ list'[new'[t]].next = t
    BY <1>1, <1>2, <1>5, <1>6 DEF Halfway, create, n, h
  <2> QED BY <1>6, <2>1, <2>2 DEF Halfway
<1>10. Contexts' BY <1>1, <1>6 DEF Contexts, create
<1>11. Deadlines' BY <1>1, <1>6 DEF Deadlines, sleeper, Whole
<1>12. TypeOK'
  <2>1. \A s \in Task : /\ pc'[s] \in Creating => pc[s] \in Creating
                        /\ pc'[s] \in Creating \ {"next"} => pc[s] \in Creating \ {"next"}
    BY <1>1, <1>6 DEF Creating
  <2> QED BY <1>1, <1>5, <1>6, <2>1 DEF TypeOK, create, sleeper
<1> QED BY <1>7, <1>8, <1>9, <1>10, <1>11, <1>12

LEMMA ListAddEndStep == ASSUME IInv, NEW t \in Task, ListAddEnd(t) PROVE IInv'
<1> USE DEF IInv
<1> DEFINE n == new[t]  h == head[t]
<1>1. /\ Running(t) /\ pc[t] = "add4"
      /\ list' = [list EXCEPT ![h].next = n]
      /\ linked' = linked \cup {n}
      /\ pc' = [pc EXCEPT ![t] = "run", ![n] = "born"]
      /\ new' = [new EXCEPT ![t] = Null]
      /\ head' = [head EXCEPT ![t] = Null] /\ nxt' = [nxt EXCEPT ![t] = Null]
      /\ UNCHANGED <<cur_task, context, intr, cpu, ms, sleep_time, sleeper>>
  BY DEF ListAddEnd, Stores
<1>2. /\ t \in linked /\ linked \subseteq Task /\ n \in Task \ linked /\ n # Null /\ t # Null
      /\ h \in linked /\ list[h].next = t /\ list[n].prev = h /\ list[n].next = t
      /\ list \in Links(Task) /\ n # t /\ n # h /\ pc[n] = "none" /\ list[t].prev = n
  BY <1>1, TaskAssumption DEF TypeOK, Members, Halfway, Creating, Ring, Backwards, Adding
<1>3. \A s \in Task : new[s] # Null /\ s # t => new[s] # n BY <1>2 DEF Members
<1>4. /\ list' \in Links(Task)
      /\ \A x \in Task : list'[x].prev = list[x].prev
      /\ \A x \in Task : x # h => list'[x].next = list[x].next
      /\ list'[h].next = n
  BY <1>1, <1>2 DEF Links
<1>5. /\ pc' \in [Task -> {"none", "born", "run", "deadline", "sleep"} \cup Creating]
      /\ pc'[t] = "run" /\ pc'[n] = "born" /\ \A x \in Task : x # t /\ x # n => pc'[x] = pc[x]
      /\ new' \in [Task -> Task \cup {Null}] /\ new'[t] = Null
      /\ \A x \in Task : x # t => new'[x] = new[x] /\ head'[x] = head[x] /\ nxt'[x] = nxt[x]
  BY <1>1, <1>2 DEF TypeOK, Creating
<1> HIDE DEF n, h
<1>6. Members'
  <2>1. new[n] = Null BY <1>2 DEF Members, Creating, TypeOK
  <2> QED BY <1>1, <1>2, <1>3, <1>5, <2>1 DEF Members, Creating
<1>7. Closed' BY <1>1, <1>2, <1>4 DEF Ring, Closed
<1>8. OneCycle'
  <2>1. SUFFICES ASSUME NEW S \in SUBSET linked', S # {}, \A x \in S : list'[x].next \in S
                 PROVE  S = linked'
    BY DEF OneCycle
  <2> DEFINE R == S \ {n}
  <2>2. R \in SUBSET linked BY <1>1
  <2>3. R # {} BY <1>2, <1>4, <2>1
  <2>4. ASSUME NEW x \in R PROVE list[x].next \in R
    <3>1. CASE x = h BY <1>2, <1>4, <2>1, <3>1
    <3>2. CASE x # h
      <4>1. list[x].next \in linked BY <2>2 DEF Ring, Closed
      <4> QED BY <1>2, <1>4, <2>1, <2>2, <3>2, <4>1
    <3> QED BY <3>1, <3>2
  <2>5. R = linked BY <2>2, <2>3, <2>4 DEF Ring, OneCycle
  <2>6. n \in S BY <1>2, <1>4, <2>1, <2>5
  <2> QED BY <1>1, <2>5, <2>6
<1>9. Backwards'
  <2>1. ASSUME NEW x \in linked'
        PROVE  LET m == list'[x].next IN
                 /\ pc'[m] \in Creating => head'[m] = x
                 /\ list'[m].prev = IF pc'[m] \in {"add2", "add3", "add4"} THEN new'[m] ELSE x
    <3>1. CASE x = h BY <1>2, <1>4, <1>5, <3>1 DEF Creating, Adding
    <3>2. CASE x = n BY <1>1, <1>2, <1>4, <1>5, <3>2 DEF Creating, Adding
    <3>3. CASE x # h /\ x # n
      <4>1. x \in linked /\ list'[x].next = list[x].next /\ list[x].next \in linked
        BY <1>1, <1>2, <1>4, <3>3 DEF Ring, Closed
      <4>2. list[x].next # t /\ list[x].next # n BY <1>2, <3>3, <4>1, NextInjective
      <4> QED BY <1>2, <1>4, <1>5, <4>1, <4>2 DEF Ring, Backwards, Adding
    <3> QED BY <3>1, <3>2, <3>3
  <2> QED BY <2>1 DEF Backwards, Adding
<1>10. Halfway'
  <2>1. SUFFICES ASSUME NEW s \in Task, pc'[s] \in Creating
        PROVE  /\ head'[s] \in linked' /\ list'[head'[s]].next = s
               /\ pc'[s] \in Creating \ {"next"} => nxt'[s] = s
               /\ pc'[s] \in {"add3", "add4"} => list'[new'[s]].prev = head'[s]
               /\ pc'[s] = "add4" => list'[new'[s]].next = s
    BY DEF Halfway, Creating
  <2>2. s # t /\ s # n /\ pc[s] \in Creating BY <1>5, <2>1 DEF Creating
  <2>3. new[s] \in Task \ linked /\ new[s] # n /\ new[s] # h
    BY <1>2, <1>3, <2>2 DEF Members, TypeOK
  <2>4. head[s] \in linked /\ list[head[s]].next = s /\ head[s] # h
    BY <1>2, <2>2 DEF Halfway
  <2> QED BY <1>1, <1>2, <1>4, <1>5, <2>2, <2>3, <2>4 DEF Halfway, Creating
<1>11. Contexts'
  <2>1. context[n] = Fresh BY <1>2 DEF Contexts, n
  <2>2. t = cur_task /\ cpu = "task" BY <1>1 DEF Running
  <2> QED BY <1>1, <1>2, <1>5, <2>1, <2>2 DEF Contexts
<1>12. Deadlines' BY <1>1, <1>2, <1>5 DEF Deadlines, sleeper, Whole
<1>13. TypeOK'
  <2>1. \A s \in Task : /\ pc'[s] \in Creating => pc[s] \in Creating /\ s # t
                        /\ pc'[s] \in Creating \ {"next"} => pc[s] \in Creating \ {"next"}
    BY <1>5 DEF Creating
  <2> QED BY <1>1, <1>2, <1>4, <1>5, <2>1 DEF TypeOK, sleeper
<1> QED BY <1>6, <1>7, <1>8, <1>9, <1>10, <1>11, <1>12, <1>13 DEF Ring

LEMMA SleepStartStep == ASSUME IInv, NEW t \in Task, SleepStart(t) PROVE IInv'
<1> USE DEF IInv
<1>1. PICK a \in Sleeps :
        /\ pc[t] = "run" /\ ms + a + Period <= MaxMs
        /\ asked' = [asked EXCEPT ![t] = a]
        /\ since' = [since EXCEPT ![t] = ms]
        /\ alone' = [alone EXCEPT ![t] = FALSE]
        /\ pc' = [pc EXCEPT ![t] = "deadline"]
        /\ UNCHANGED <<ring, cur_task, context, intr, cpu, ms, sleep_time, create>>
  BY DEF SleepStart
<1>2. cur_task' \in linked /\ list' = list /\ linked' = linked BY <1>1 DEF Members, ring
<1>3. Members' /\ Ring' /\ Halfway' BY <1>1, <1>2, RingUntouched DEF TypeOK, Creating
<1>4. Contexts' BY <1>1, <1>2 DEF Contexts, TypeOK, create
<1>5. Deadlines' BY <1>1 DEF Deadlines, TypeOK, Whole
<1>6. TypeOK' BY <1>1, <1>2 DEF TypeOK, create, Creating
<1> QED BY <1>3, <1>4, <1>5, <1>6

LEMMA SetDeadlineStep == ASSUME IInv, NEW t \in Task, SetDeadline(t) PROVE IInv'
<1> USE DEF IInv
<1>1. /\ pc[t] = "deadline"
      /\ sleep_time' = [sleep_time EXCEPT ![t] = (since[t] + asked[t]) % Word]
      /\ pc' = [pc EXCEPT ![t] = "sleep"]
      /\ UNCHANGED <<ring, cur_task, context, intr, cpu, ms, create, sleeper>>
  BY DEF SetDeadline
<1>2. (since[t] + asked[t]) % Word = since[t] + asked[t]
      /\ since[t] + asked[t] \in 0 .. Word - 1
  <2>1. /\ since[t] \in Nat /\ asked[t] \in Nat /\ since[t] + asked[t] + Period <= MaxMs
        /\ Period \in Nat /\ MaxMs \in Nat /\ Word \in Nat /\ MaxMs < Word
    <3>1. asked[t] \in Sleeps \cup {0} /\ since[t] \in 0 .. MaxMs BY DEF TypeOK
    <3>2. since[t] \in Nat /\ asked[t] \in Nat BY <3>1, Milliseconds
    <3> QED BY <1>1, <3>2, TimeAssumption DEF Deadlines
  <2>2. since[t] + asked[t] \in 0 .. Word - 1 BY <2>1
  <2>3. \A n \in 0 .. Word - 1 : n % Word = n BY <2>1
  <2> QED BY <2>2, <2>3
<1>3. cur_task' \in linked /\ list' = list /\ linked' = linked BY <1>1 DEF Members, ring
<1>4. Members' /\ Ring' /\ Halfway' BY <1>1, <1>3, RingUntouched DEF TypeOK, Creating
<1>5. Contexts' BY <1>1, <1>3 DEF Contexts, TypeOK, create
<1>6. Deadlines' BY <1>1, <1>2 DEF Deadlines, TypeOK, Whole, sleeper
<1>7. TypeOK' BY <1>1, <1>2, <1>3 DEF TypeOK, create, Creating, sleeper
<1> QED BY <1>4, <1>5, <1>6, <1>7

LEMMA WakeStep == ASSUME IInv, NEW t \in Task, Wake(t) PROVE IInv'
<1> USE DEF IInv
<1>1. /\ pc[t] = "sleep"
      /\ pc' = [pc EXCEPT ![t] = "run"]
      /\ asked' = [asked EXCEPT ![t] = 0]
      /\ since' = [since EXCEPT ![t] = 0]
      /\ alone' = [alone EXCEPT ![t] = FALSE]
      /\ UNCHANGED <<ring, cur_task, context, intr, cpu, ms, sleep_time, create>>
  BY DEF Wake
<1>2. cur_task' \in linked /\ list' = list /\ linked' = linked BY <1>1 DEF Members, ring
<1>3. Members' /\ Ring' /\ Halfway' BY <1>1, <1>2, RingUntouched DEF TypeOK, Creating
<1>4. Contexts' BY <1>1, <1>2 DEF Contexts, TypeOK, create
<1>5. Deadlines'
  <2>1. Whole(0) BY TimeAssumption DEF Whole
  <2> QED BY <1>1, <2>1 DEF Deadlines, TypeOK, Whole
<1>6. TypeOK' BY <1>1, <1>2, TimeAssumption DEF TypeOK, create, Creating
<1> QED BY <1>3, <1>4, <1>5, <1>6

LEMMA StutterStep == ASSUME IInv, UNCHANGED vars PROVE IInv'
<1> USE DEF vars, ring, create, sleeper, IInv
<1>1. Members' /\ Ring' /\ Halfway' BY RingUntouched DEF Members
<1>2. Contexts' BY DEF Contexts
<1>3. Deadlines' BY DEF Deadlines, Whole
<1>4. TypeOK' BY DEF TypeOK
<1> QED BY <1>1, <1>2, <1>3, <1>4

LEMMA Inductive == ASSUME IInv, Prompt, [Next]_vars PROVE IInv'
<1>1. CASE Tick BY <1>1, TickStep
<1>2. CASE EnterThread BY <1>2, EnterStep
<1>3. ASSUME NEW t \in Task, Call(t) PROVE IInv'
  BY <1>3, CreateStep, SleepStartStep DEF Call
<1>4. ASSUME NEW t \in Task, GoesOn(t) PROVE IInv'
  BY <1>4, ReadNextStep, ListAddStep, ListAddEndStep, SetDeadlineStep, WakeStep DEF GoesOn
<1>5. CASE UNCHANGED vars BY <1>5, StutterStep
<1> QED BY <1>1, <1>2, <1>3, <1>4, <1>5 DEF Next

\* A sleep that returns has lasted, unless its thread was alone meanwhile.
LEMMA WakesLate ==
  ASSUME IInv, [Next]_vars, NEW t \in Task, pc[t] = "sleep", pc'[t] = "run", ~alone[t]
  PROVE  /\ asked[t] % Period = 0 => Certain(since[t], ms) >= asked[t]
         /\ asked[t] - Certain(since[t], ms) < Period
<1> USE DEF IInv
<1>1. ms > sleep_time[t]
  <2>1. CASE Tick BY <2>1 DEF Tick
  <2>2. CASE EnterThread BY <2>2 DEF EnterThread, Contexts, TypeOK
  <2>3. ASSUME NEW u \in Task, Create(u) PROVE FALSE BY <2>3 DEF Create, TypeOK
  <2>4. ASSUME NEW u \in Task, SleepStart(u) PROVE FALSE BY <2>4 DEF SleepStart, TypeOK
  <2>5. ASSUME NEW u \in Task, ReadNext(u) PROVE FALSE BY <2>5 DEF ReadNext, TypeOK
  <2>6. ASSUME NEW u \in Task, ListAdd(u) PROVE FALSE BY <2>6 DEF ListAdd, After, TypeOK
  <2>7. ASSUME NEW u \in Task, ListAddEnd(u) PROVE FALSE
    <3>1. pc[u] = "add4" /\ pc' = [pc EXCEPT ![u] = "run", ![new[u]] = "born"]
      BY <2>7 DEF ListAddEnd
    <3> QED BY <3>1 DEF TypeOK
  <2>8. ASSUME NEW u \in Task, SetDeadline(u) PROVE FALSE BY <2>8 DEF SetDeadline, TypeOK
  <2>9. ASSUME NEW u \in Task, Wake(u) PROVE ms > sleep_time[t] BY <2>9 DEF Wake, TypeOK
  <2>10. CASE UNCHANGED vars BY <2>10 DEF vars
  <2> QED BY <2>1, <2>2, <2>3, <2>4, <2>5, <2>6, <2>7, <2>8, <2>9, <2>10
          DEF Next, Call, GoesOn
<1>2. /\ ms \in Nat /\ since[t] \in Nat /\ asked[t] \in Nat
      /\ Whole(ms) /\ Whole(since[t]) /\ sleep_time[t] = since[t] + asked[t]
  <2>1. asked[t] \in Sleeps \cup {0} /\ since[t] \in 0 .. MaxMs /\ ms \in 0 .. MaxMs
    BY DEF TypeOK
  <2>2. Whole(ms) /\ Whole(since[t]) /\ sleep_time[t] = since[t] + asked[t]
    BY DEF Deadlines
  <2>3. asked[t] \in Nat /\ since[t] \in Nat /\ ms \in Nat BY <2>1, Milliseconds
  <2> QED BY <2>2, <2>3
<1> QED BY <1>1, <1>2, WholePeriods

-----------------------------------------------------------------------------
(* Theorems.  All of them are about handlers that end before the next tick. *)

\* IInv in its temporal form.
THEOREM Invariance == ASSUME Prompt PROVE Spec => []IInv
<1>1. IInv /\ [Next]_vars => IInv' BY Inductive
<1> QED BY <1>1, InitOK, PTL DEF Spec

\* Every variable of the scheduler has its type, and no pointer that
\* kthread_create or schedule follows is null.
THEOREM TypeCorrect == ASSUME Prompt PROVE Spec => []TypeOK
<1>1. IInv => TypeOK BY DEF IInv
<1> QED BY <1>1, Invariance, PTL

\* However many threads are cut off in kthread_create, the ring that schedule
\* follows goes through every thread that exists and no other, and every thread
\* that has not run is still entered at its function.
THEOREM RingIntact == ASSUME Prompt PROVE Spec => []RingKept
<1>1. IInv => RingKept
  <2>1. SUFFICES ASSUME IInv PROVE RingKept OBVIOUS
  <2>2. linked \subseteq Task BY <2>1 DEF IInv, TypeOK
  <2>3. \A t \in linked : pc[t] = "born" => context[t].at = "entry"
    BY <2>1, <2>2 DEF IInv, Contexts, Fresh
  <2> QED BY <2>1, <2>3 DEF IInv, Ring, Closed, OneCycle, Backwards, RingKept
<1> QED BY <1>1, Invariance, PTL

\* A sleep of a whole number of periods lasts at least what was asked for, any
\* other falls short by less than a period, if no tick found its thread alone and
\* handlers end before the next tick.
THEOREM SleepLasts == ASSUME Prompt PROVE Spec => SleepsInCompany
<1>1. IInv /\ [Next]_vars =>
        [\A t \in Task :
           pc[t] = "sleep" /\ pc'[t] = "run" /\ ~alone[t] =>
             /\ asked[t] % Period = 0 => Certain(since[t], ms) >= asked[t]
             /\ asked[t] - Certain(since[t], ms) < Period]_vars
  BY WakesLate
<1> QED BY <1>1, Invariance, PTL DEF Spec, SleepsInCompany

-----------------------------------------------------------------------------
(* Places in the ring *)

\* w goes N steps from c along the links l.
Walks(w, N, c, l) == w = [k \in 0 .. N |-> IF k = 0 THEN c ELSE l[w[k - 1]].next]

\* Place, of any ring.
PlaceIn(t, N, c, l) ==
  LET walk[k \in 0 .. N] == IF k = 0 THEN c ELSE l[walk[k - 1]].next
  IN  CHOOSE k \in 0 .. N : walk[k] = t /\ \A m \in 0 .. k - 1 : walk[m] # t

LEMMA WalkSteps ==
  ASSUME NEW N \in Nat, NEW c, NEW l, NEW w, Walks(w, N, c, l)
  PROVE  /\ DOMAIN w = 0 .. N /\ w[0] = c
         /\ \A k \in 1 .. N : w[k] = l[w[k - 1]].next
<1>1. \A k \in 0 .. N : w[k] = IF k = 0 THEN c ELSE l[w[k - 1]].next BY DEF Walks
<1>2. DOMAIN w = 0 .. N BY DEF Walks
<1>3. w[0] = c BY <1>1
<1>4. ASSUME NEW k \in 1 .. N PROVE w[k] = l[w[k - 1]].next
  <2>1. k \in 0 .. N /\ k # 0 OBVIOUS
  <2> QED BY <1>1, <2>1
<1> QED BY <1>2, <1>3, <1>4

\* There is such a walk, of any length,
LEMMA WalkExists ==
  ASSUME NEW N \in Nat, NEW c, NEW l
  PROVE  \E w : Walks(w, N, c, l)
<1> DEFINE T == {n \in Nat : \E w : Walks(w, n, c, l)}
<1>1. 0 \in T
  <2> DEFINE w == [k \in 0 .. 0 |-> c]
  <2>1. w = [k \in 0 .. 0 |-> IF k = 0 THEN c ELSE l[w[k - 1]].next] OBVIOUS
  <2>2. Walks(w, 0, c, l) BY <2>1 DEF Walks
  <2> QED BY <2>2
<1>2. ASSUME NEW n \in T PROVE n + 1 \in T
  <2>1. PICK w : Walks(w, n, c, l) OBVIOUS
  <2> DEFINE v == [k \in 0 .. n + 1 |-> IF k <= n THEN w[k] ELSE l[w[n]].next]
  <2>2. \A k \in 0 .. n + 1 : v[k] = IF k = 0 THEN c ELSE l[v[k - 1]].next
    <3> SUFFICES ASSUME NEW k \in 0 .. n + 1
                 PROVE  v[k] = IF k = 0 THEN c ELSE l[v[k - 1]].next
      OBVIOUS
    <3>1. CASE k = 0 BY <2>1, <3>1, WalkSteps
    <3>2. CASE k \in 1 .. n
      <4>1. v[k] = w[k] /\ v[k - 1] = w[k - 1] BY <3>2
      <4> QED BY <2>1, <3>2, <4>1, WalkSteps
    <3>3. CASE k = n + 1
      <4>1. v[k] = l[w[n]].next /\ v[k - 1] = w[n] BY <3>3
      <4> QED BY <3>3, <4>1
    <3> QED BY <3>1, <3>2, <3>3
  <2>3. v = [k \in 0 .. n + 1 |-> v[k]] OBVIOUS
  <2>4. Walks(v, n + 1, c, l)
    <3> HIDE DEF v
    <3> QED BY <2>2, <2>3 DEF Walks
  <2> QED BY <2>4
<1> HIDE DEF T
<1>3. T \in SUBSET Nat BY DEF T
<1>4. T = Nat BY <1>1, <1>2, <1>3, Successors
<1> QED BY <1>4 DEF T

\* and no other.
LEMMA WalkUnique ==
  ASSUME NEW N \in Nat, NEW c, NEW l, NEW v, NEW w, Walks(v, N, c, l), Walks(w, N, c, l)
  PROVE  v = w
<1> DEFINE T == {k \in 0 .. N : v[k] # w[k]}
<1>1. ASSUME T # {} PROVE FALSE
  <2>1. T \in SUBSET Nat OBVIOUS
  <2>2. PICK k \in T : \A m \in T : k <= m
    <3> HIDE DEF T
    <3> QED BY <1>1, <2>1, Least
  <2>3. k \in 1 .. N BY WalkSteps
  <2>4. k - 1 \in 0 .. N /\ v[k - 1] = w[k - 1] BY <2>2, <2>3
  <2> QED BY <2>3, <2>4, WalkSteps
<1>2. \A k \in 0 .. N : v[k] = w[k] BY <1>1
<1>3. v = [k \in 0 .. N |-> v[k]] /\ w = [k \in 0 .. N |-> w[k]] BY DEF Walks
<1> QED BY <1>2, <1>3

\* The place is where the walk comes to t first.
LEMMA PlaceIs ==
  ASSUME NEW N \in Nat, NEW c, NEW l, NEW t, NEW w, Walks(w, N, c, l),
         NEW n \in 0 .. N, w[n] = t, \A m \in 0 .. n - 1 : w[m] # t
  PROVE  PlaceIn(t, N, c, l) = n
<1> DEFINE walk[k \in 0 .. N] == IF k = 0 THEN c ELSE l[walk[k - 1]].next
           First(k) == w[k] = t /\ \A m \in 0 .. k - 1 : w[m] # t
<1>1. walk = CHOOSE v : Walks(v, N, c, l) BY DEF Walks
<1>2. walk = w
  <2> HIDE DEF walk
  <2>1. Walks(walk, N, c, l) BY <1>1
  <2> QED BY <2>1, WalkUnique
<1>3. PlaceIn(t, N, c, l) = CHOOSE k \in 0 .. N : walk[k] = t /\ \A m \in 0 .. k - 1 : walk[m] # t
  BY DEF PlaceIn
<1>4. PlaceIn(t, N, c, l) = CHOOSE k \in 0 .. N : First(k)
  <2> HIDE DEF walk
  <2> QED BY <1>2, <1>3
<1>5. First(n) OBVIOUS
<1>6. \A k \in 0 .. N : First(k) => k = n
  <2> SUFFICES ASSUME NEW k \in 0 .. N, First(k) PROVE k = n OBVIOUS
  <2>1. ~(k < n) BY DEF First
  <2>2. ~(n < k) BY DEF First
  <2> QED BY <2>1, <2>2
<1> HIDE DEF First, walk
<1> QED BY <1>4, <1>5, <1>6

\* A walk from the current thread stays in the ring,
LEMMA WalkInRing ==
  ASSUME Closed, cur_task \in linked, NEW N \in Nat, NEW w, Walks(w, N, cur_task, list)
  PROVE  \A k \in 0 .. N : w[k] \in linked
<1> DEFINE T == {k \in 0 .. N : w[k] \notin linked}
<1>1. ASSUME T # {} PROVE FALSE
  <2>1. T \in SUBSET Nat OBVIOUS
  <2>2. PICK k \in T : \A m \in T : k <= m
    <3> HIDE DEF T
    <3> QED BY <1>1, <2>1, Least
  <2>3. k \in 1 .. N BY WalkSteps
  <2>4. k - 1 \in 0 .. N /\ w[k - 1] \in linked BY <2>2, <2>3
  <2> QED BY <2>3, <2>4, WalkSteps DEF Closed
<1> QED BY <1>1

\* has passed every thread when it comes to one for the second time,
LEMMA Round ==
  ASSUME Closed, OneCycle, cur_task \in linked,
         NEW N \in Nat, NEW w, Walks(w, N, cur_task, list),
         NEW i \in 0 .. N, NEW j \in 0 .. N, i < j, w[i] = w[j]
  PROVE  linked = {w[k] : k \in 0 .. j - 1}
<1> DEFINE S == {w[k] : k \in 0 .. j - 1}
<1>1. S \in SUBSET linked /\ S # {}
  <2>1. 0 .. j - 1 \subseteq 0 .. N /\ 0 \in 0 .. j - 1 OBVIOUS
  <2> QED BY <2>1, WalkInRing
<1>2. ASSUME NEW k \in 0 .. j - 1 PROVE list[w[k]].next \in S
  <2>1. k + 1 \in 1 .. N /\ w[k + 1] = list[w[k]].next
    <3>1. k + 1 \in 1 .. N /\ (k + 1) - 1 = k OBVIOUS
    <3> QED BY <3>1, WalkSteps
  <2>2. CASE k + 1 = j
    <3>1. i \in 0 .. j - 1 OBVIOUS
    <3> QED BY <2>1, <2>2, <3>1
  <2>3. CASE k + 1 # j
    <3>1. k + 1 \in 0 .. j - 1 BY <2>3
    <3> QED BY <2>1, <3>1
  <2> QED BY <2>2, <2>3
<1>3. \A x \in S : list[x].next \in S BY <1>2
<1> HIDE DEF S
<1> QED BY <1>1, <1>3 DEF OneCycle, S

\* and comes to every thread in as many steps as there are tasks.
LEMMA Reached ==
  ASSUME Closed, OneCycle, cur_task \in linked, linked \subseteq Task, IsFiniteSet(Task),
         NEW t \in linked, NEW w, Walks(w, Cardinality(Task), cur_task, list)
  PROVE  \E n \in 0 .. Cardinality(Task) : w[n] = t /\ \A m \in 0 .. n - 1 : w[m] # t
<1> DEFINE N == Cardinality(Task)
<1>1. N \in Nat BY FS_CardinalityType
<1>2. IsFiniteSet(linked) /\ Cardinality(linked) <= N /\ Cardinality(linked) \in Nat
  BY FS_Subset, FS_CardinalityType
<1>3. IsFiniteSet(0 .. N) /\ Cardinality(0 .. N) = N + 1
  <2> HIDE DEF N
  <2>1. ~(0 > N) /\ N - 0 + 1 = N + 1 BY <1>1
  <2> QED BY <1>1, <2>1, FS_Interval
<1> HIDE DEF N
<1>4. Walks(w, N, cur_task, list) BY DEF N
<1>5. w \in [0 .. N -> linked] BY <1>1, <1>4, WalkInRing DEF Walks
<1>6. PICK i, j \in 0 .. N : i # j /\ w[i] = w[j]
  <2>1. Cardinality(linked) < Cardinality(0 .. N) BY <1>1, <1>2, <1>3
  <2> QED BY <1>2, <1>3, <1>5, <2>1, FS_PigeonHole
<1>7. \E k \in 0 .. N : w[k] = t
  <2>1. CASE i < j
    <3>1. linked = {w[k] : k \in 0 .. j - 1} BY <1>1, <1>4, <1>6, <2>1, Round
    <3> QED BY <1>1, <3>1
  <2>2. CASE j < i
    <3>1. linked = {w[k] : k \in 0 .. i - 1} BY <1>1, <1>4, <1>6, <2>2, Round
    <3> QED BY <1>1, <3>1
  <2> QED BY <1>1, <1>6, <2>1, <2>2
<1> DEFINE T == {k \in 0 .. N : w[k] = t}
<1>8. T \in SUBSET Nat /\ T # {} BY <1>1, <1>7
<1>9. PICK n \in T : \A m \in T : n <= m
  <2> HIDE DEF T
  <2> QED BY <1>8, Least
<1>10. \A m \in 0 .. n - 1 : w[m] # t BY <1>1, <1>9
<1> QED BY <1>9, <1>10 DEF N

\* A step other than a tick lets only the last thread of the round point elsewhere.
LEMMA NextKept ==
  ASSUME IInv, [Next]_vars, ~Tick
  PROVE  /\ cur_task' = cur_task
         /\ \A x \in linked : list[x].next # cur_task => list'[x].next = list[x].next
<1> USE DEF IInv
<1>1. ASSUME NEW t \in Task, ListAdd(t)
      PROVE  \A x \in linked : list'[x].next = list[x].next
  <2>1. /\ list \in Links(Task) /\ linked \subseteq Task /\ new[t] \notin linked
        /\ pc[t] \in {"add1", "add2", "add3"} /\ list' = Stores(t)[pc[t]]
    BY <1>1 DEF ListAdd, After, TypeOK, Members, Creating
  <2>2. CASE pc[t] = "add1"
    <3>1. list' = [list EXCEPT ![nxt[t]].prev = new[t]] BY <2>1, <2>2 DEF Stores
    <3> QED BY <2>1, <3>1 DEF Links
  <2>3. CASE pc[t] = "add2"
    <3>1. list' = [list EXCEPT ![new[t]].prev = head[t]] BY <2>1, <2>3 DEF Stores
    <3> QED BY <2>1, <3>1 DEF Links
  <2>4. CASE pc[t] = "add3"
    <3>1. list' = [list EXCEPT ![new[t]].next = nxt[t]] BY <2>1, <2>4 DEF Stores
    <3> QED BY <2>1, <3>1 DEF Links
  <2> QED BY <2>1, <2>2, <2>3, <2>4
<1>2. ASSUME NEW t \in Task, ListAddEnd(t)
      PROVE  \A x \in linked : list[x].next # cur_task => list'[x].next = list[x].next
  BY <1>2 DEF ListAddEnd, Stores, Running, TypeOK, Links, Members, Halfway, Creating
<1>3. CASE UNCHANGED <<list, cur_task>> BY <1>3
<1>4. ASSUME NEW t \in Task, Call(t) \/ GoesOn(t), ~ListAdd(t), ~ListAddEnd(t)
      PROVE  UNCHANGED <<list, cur_task>>
  BY <1>4 DEF Call, GoesOn, Create, SleepStart, ReadNext, SetDeadline, Wake, ring
<1>5. EnterThread \/ UNCHANGED vars => UNCHANGED <<list, cur_task>>
  BY DEF EnterThread, vars, ring
<1>6. ASSUME NEW t \in Task, ListAdd(t) \/ ListAddEnd(t) PROVE cur_task' = cur_task
  BY <1>6 DEF ListAdd, ListAddEnd
<1> QED BY <1>1, <1>2, <1>3, <1>4, <1>5, <1>6 DEF Next

LEMMA TickPlaces ==
  ASSUME IInv, Tick, IsFiniteSet(Task), NEW t \in linked \ {cur_task}
  PROVE  PlaceIn(t, Cardinality(Task), cur_task', list')
           = IF cur_task' = cur_task THEN PlaceIn(t, Cardinality(Task), cur_task, list)
             ELSE PlaceIn(t, Cardinality(Task), cur_task, list) - 1
<1> DEFINE N == Cardinality(Task)
<1>1. list' = list /\ cur_task' = list[cur_task].next BY DEF Tick, schedule, ring
<1>2. CASE cur_task' = cur_task BY <1>1, <1>2
<1>3. CASE cur_task' # cur_task
  <2>1. N \in Nat BY FS_CardinalityType
  <2>2. PICK w : Walks(w, N, cur_task, list)
    <3> HIDE DEF N
    <3> QED BY <2>1, WalkExists
  <2>3. PICK n \in 0 .. N : w[n] = t /\ \A m \in 0 .. n - 1 : w[m] # t
    BY <2>2, Reached DEF IInv, Members, Ring, TypeOK
  <2> HIDE DEF N
  <2>4. PlaceIn(t, N, cur_task, list) = n BY <2>1, <2>2, <2>3, PlaceIs
  <2>5. n # 0 /\ n - 1 \in 0 .. N BY <2>1, <2>2, <2>3, WalkSteps
  <2> DEFINE v == [k \in 0 .. N |-> list[w[k]].next]
  <2>6. \A k \in 0 .. N : v[k] = IF k = 0 THEN cur_task' ELSE list[v[k - 1]].next
    <3> SUFFICES ASSUME NEW k \in 0 .. N
                 PROVE  v[k] = IF k = 0 THEN cur_task' ELSE list[v[k - 1]].next
      OBVIOUS
    <3>1. CASE k = 0 BY <1>1, <2>1, <2>2, <3>1, WalkSteps
    <3>2. CASE k # 0
      <4>1. k \in 1 .. N /\ k - 1 \in 0 .. N BY <2>1, <3>2
      <4>2. v[k - 1] = w[k] BY <2>1, <2>2, <4>1, WalkSteps
      <4> QED BY <3>2, <4>2
    <3> QED BY <3>1, <3>2
  <2>7. v = [k \in 0 .. N |-> v[k]] OBVIOUS
  <2>8. \A k \in 0 .. n - 1 : v[k] = w[k + 1]
    <3> SUFFICES ASSUME NEW k \in 0 .. n - 1 PROVE v[k] = w[k + 1] OBVIOUS
    <3>1. k + 1 \in 1 .. N /\ (k + 1) - 1 = k BY <2>1
    <3> QED BY <2>1, <2>2, <3>1, WalkSteps
  <2> HIDE DEF v
  <2>9. Walks(v, N, cur_task', list) BY <2>6, <2>7 DEF Walks
  <2>10. v[n - 1] = t /\ \A m \in 0 .. (n - 1) - 1 : v[m] # t BY <2>1, <2>3, <2>5, <2>8
  <2>11. PlaceIn(t, N, cur_task', list) = n - 1 BY <2>1, <2>5, <2>9, <2>10, PlaceIs
  <2> QED BY <1>1, <1>3, <2>4, <2>11 DEF N
<1> QED BY <1>2, <1>3

LEMMA OtherPlaces ==
  ASSUME IInv, [Next]_vars, ~Tick, IsFiniteSet(Task), NEW t \in linked \ {cur_task}
  PROVE  PlaceIn(t, Cardinality(Task), cur_task', list') = PlaceIn(t, Cardinality(Task), cur_task, list)
<1> DEFINE N == Cardinality(Task)
<1>1. N \in Nat BY FS_CardinalityType
<1>2. PICK w : Walks(w, N, cur_task, list)
  <2> HIDE DEF N
  <2> QED BY <1>1, WalkExists
<1>3. PICK v : Walks(v, N, cur_task, list')
  <2> HIDE DEF N
  <2> QED BY <1>1, WalkExists
<1>4. PICK n \in 0 .. N : w[n] = t /\ \A m \in 0 .. n - 1 : w[m] # t
  BY <1>2, Reached DEF IInv, Members, Ring, TypeOK
<1> HIDE DEF N
<1>5. PlaceIn(t, N, cur_task, list) = n BY <1>1, <1>2, <1>4, PlaceIs
<1>6. \A k \in 0 .. n : w[k] \in linked
  BY <1>1, <1>2, WalkInRing DEF IInv, Members, Ring
<1>7. ASSUME NEW k \in 1 .. n PROVE w[k] # cur_task
  <2>1. k \in 0 .. N /\ 0 \in 0 .. N /\ 0 < k BY <1>1
  <2>2. ASSUME w[k] = cur_task PROVE FALSE
    <3>1. w[0] = w[k] BY <1>1, <1>2, <2>2, WalkSteps
    <3>2. linked = {w[m] : m \in 0 .. k - 1}
      BY <1>1, <1>2, <2>1, <3>1, Round DEF IInv, Members, Ring
    <3> QED BY <1>4, <3>2
  <2> QED BY <2>2
<1> DEFINE T == {k \in 0 .. n : v[k] # w[k]}
<1>8. ASSUME T # {} PROVE FALSE
  <2>1. T \in SUBSET Nat OBVIOUS
  <2>2. PICK k \in T : \A m \in T : k <= m
    <3> HIDE DEF T
    <3> QED BY <1>8, <2>1, Least
  <2>3. k \in 1 .. n /\ k \in 1 .. N BY <1>1, <1>2, <1>3, WalkSteps
  <2>4. k - 1 \in 0 .. n /\ v[k - 1] = w[k - 1] BY <2>2, <2>3
  <2>5. w[k] = list[w[k - 1]].next /\ v[k] = list'[v[k - 1]].next
    BY <1>1, <1>2, <1>3, <2>3, WalkSteps
  <2>6. w[k - 1] \in linked /\ list[w[k - 1]].next # cur_task BY <1>6, <1>7, <2>3, <2>4, <2>5
  <2> QED BY <2>4, <2>5, <2>6, NextKept
<1>9. v[n] = t /\ \A m \in 0 .. n - 1 : v[m] # t BY <1>4, <1>8
<1>10. PlaceIn(t, N, cur_task, list') = n BY <1>1, <1>3, <1>9, PlaceIs
<1> QED BY <1>5, <1>10, NextKept DEF N

\* Each tick brings every waiting thread one place nearer, and nothing else
\* moves it: kthread_create puts new threads behind all that wait.
THEOREM RoundRobin == ASSUME Prompt, IsFiniteSet(Task) PROVE Spec => NoOvertaking
<1>1. \A t : Place(t) = PlaceIn(t, Cardinality(Task), cur_task, list) BY DEF Place, PlaceIn
<1>2. \A t : Place(t)' = PlaceIn(t, Cardinality(Task), cur_task', list') BY DEF Place, PlaceIn
<1>3. IInv /\ [Next]_vars =>
        [\A t \in linked \ {cur_task} :
           Place(t)' = IF cur_task' = cur_task THEN Place(t) ELSE Place(t) - 1]_vars
  <2> SUFFICES ASSUME IInv, [Next]_vars, NEW t \in linked \ {cur_task}
               PROVE  Place(t)' = IF cur_task' = cur_task THEN Place(t) ELSE Place(t) - 1
    OBVIOUS
  <2>1. CASE Tick BY <1>1, <1>2, <2>1, TickPlaces
  <2>2. CASE ~Tick BY <1>1, <1>2, <2>2, OtherPlaces, NextKept
  <2> QED BY <2>1, <2>2
<1> QED BY <1>3, Invariance, PTL DEF Spec, NoOvertaking
=============================================================================
