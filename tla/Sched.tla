-------------------------------- MODULE Sched --------------------------------
(***************************************************************************)
(* task/task.cc and task/sched.asm, with interrupt/timer.cc and the timer  *)
(* path of interrupt/isr_entry.asm: the ring of kernel threads that the    *)
(* timer interrupt goes round, kthread_create and sleep.                   *)
(*                                                                         *)
(* One processor executes the kernel.  From the entry of isr32 to the      *)
(* iretq, or to the popfq of switch_task for a thread that runs for the    *)
(* first time, interrupts are off: that stretch is one action, Tick.       *)
(* Every other step is taken by the current thread with interrupts on, and *)
(* a tick may fall between any two of them.                                *)
(***************************************************************************)
EXTENDS Integers, ListHead

CONSTANTS Task,      \* the task_structs that kmalloc may ever return
          Boot,      \* the one init_task makes
          Period,    \* 1000 / __INTERRUPT_TIMER_FREQUENCY
          Word,      \* 2^64
          Garbage,   \* what the memory of a task_struct may hold beforehand
          Sleeps,    \* the arguments of sleep
          MaxMs,     \* bound: time stands still from here on
          Prompt     \* does a tick's handler end before the next tick comes?

ASSUME TaskAssumption == Boot \in Task /\ Null \notin Task
ASSUME TimeAssumption ==
  /\ Period \in Nat \ {0} /\ Word \in Nat /\ MaxMs \in Nat
  /\ Sleeps \subseteq Nat \ {0} /\ Period < Word /\ MaxMs < Word
  /\ Garbage \subseteq 0 .. Word - 1
ASSUME PromptAssumption == Prompt \in BOOLEAN

VARIABLES
  list,        \* task->list
  cur_task,
  context,     \* where switch_task(.., &task->context) goes, and with what IF
  intr,        \* the interrupt flag
  cpu,         \* "task": in a thread's own code; "switch": after popfq, on the
               \* stack of the thread before; "astray": on a reused stack
  ms,          \* timer.cc's clock
  sleep_time,  \* task->sleep_time
  pc,          \* where each thread is in its own code
  new, head, nxt,       \* locals of kthread_create and list_add, per caller
  asked, since, alone,  \* sleep's parameter and, auxiliary, the clock when it
                        \* was called and whether a tick found no other thread
  linked       \* auxiliary: the threads whose kthread_create has returned

ring    == <<list, linked>>
create  == <<new, head, nxt>>
sleeper == <<asked, since, alone>>
vars == <<ring, cur_task, context, intr, cpu, ms, sleep_time, pc, create, sleeper>>

\* How a saved context is resumed: at the thread's function, in the timer
\* handler on its own stack, or in the middle of a switch on another's stack.
Fresh   == [at |-> "entry", if |-> TRUE]
InTimer == [at |-> "timer", if |-> FALSE]
Midway  == [at |-> "switch", if |-> FALSE]
NoContext == [at |-> "none", if |-> FALSE]

\* The current thread executes its own code.
Running(t) == cpu = "task" /\ cur_task = t

\* Faulty variant: init_task leaves one link of its task null.
BootRing_NoPrev == [t \in Task |-> IF t = Boot THEN [prev |-> Null, next |-> Boot]
                                              ELSE Unlinked]

\* The links after init_task: a ring of one.
BootRing == ListHeadInit([t \in Task |-> Unlinked], Boot)

\* After init_task, init_timer and the sti of init_kernel.  Neither init_task
\* nor kthread_create sets sleep_time.
Init ==
  /\ list = BootRing
  /\ linked = {Boot} /\ cur_task = Boot
  /\ context = [t \in Task |-> NoContext]
  /\ intr = TRUE /\ cpu = "task" /\ ms = 0
  /\ sleep_time \in [Task -> Garbage]
  /\ pc = [t \in Task |-> IF t = Boot THEN "run" ELSE "none"]
  /\ new = [t \in Task |-> Null]
  /\ head = [t \in Task |-> Null] /\ nxt = [t \in Task |-> Null]
  /\ asked = [t \in Task |-> 0] /\ since = [t \in Task |-> 0]
  /\ alone = [t \in Task |-> FALSE]

-----------------------------------------------------------------------------
(* isr32: isr_pic_dispatcher, timer_handler, schedule, switch_task *)

Single == list[cur_task].next = cur_task

\* At the bound time stands still as a whole: a tick changes threads and neither
\* raises the clock nor lowers a deadline.
TimeLeft == ms + Period <= MaxMs

add_running_time == ms' = IF TimeLeft THEN ms + Period ELSE ms

\* Faulty variant: the time of every thread is counted down.
countdown_Always(t) == sleep_time[t] > 0 /\ TimeLeft

\* The condition under which schedule lowers cur_task->sleep_time.
countdown(t) == Single /\ sleep_time[t] > 0 /\ TimeLeft

\* What switch_task stores for the interrupted thread: its registers are
\* those of the timer handler, wherever the stack pointer stands.
save(t) == IF cpu = "task" THEN InTimer ELSE Midway

\* Where the second half of switch_task leads: back through the handler it was
\* called from, or as far as the popfq for a thread that has not been entered.
resume(c) ==
  cpu' = CASE c.at = "timer" -> "task"
           [] c.at = "entry" -> "switch"
           [] OTHER          -> "astray"

\* A handler ends with iretq, which brings back the flags of the code that was
\* interrupted; popfq loads those that kthread_create has put into the context.
flags(c) == intr' = IF c.at = "entry" THEN c.if ELSE TRUE

schedule ==
  LET next  == list[cur_task].next
      saved == [context EXCEPT ![cur_task] = save(cur_task)]
  IN  /\ sleep_time' = IF countdown(cur_task)
           THEN [sleep_time EXCEPT ![cur_task] = (@ - Period + Word) % Word]
           ELSE sleep_time
      /\ alone' = [alone EXCEPT
                     ![cur_task] = @ \/ (Single /\ pc[cur_task] = "sleep")]
      /\ cur_task' = next
      /\ context' = saved
      /\ resume(saved[next]) /\ flags(saved[next])

\* The end-of-interrupt goes out before the handler is called, so that nothing
\* but the interrupt flag holds back the next tick.
Tick ==
  /\ intr /\ cpu # "astray"
  /\ cpu = "switch" => ~Prompt
  /\ add_running_time
  /\ schedule
  /\ UNCHANGED <<ring, pc, create, asked, since>>

\* The rest of switch_task for a thread that runs for the first time: the
\* stack pointer of the context is loaded and ret enters the function.
EnterThread ==
  /\ cpu = "switch"
  /\ cpu' = "task"
  /\ pc' = [pc EXCEPT ![cur_task] = "run"]
  /\ UNCHANGED <<ring, cur_task, context, intr, ms, sleep_time, create, sleeper>>

-----------------------------------------------------------------------------
(* kthread_create, called by the current thread t *)

\* Faulty variant: the interrupt flag is clear in the new thread's context.
NewContext_Masked == [at |-> "entry", if |-> FALSE]
NewContext == Fresh

\* Faulty variant: the new thread goes behind its creator.
InsertAfter_Current(t) == t

\* list_add_after's second argument, cur_task->list.prev
InsertAfter(t) == list[t].prev

\* The task_struct is allocated and filled in; its list is not.
Create(t) == \E n \in Task :
  /\ Running(t) /\ pc[t] = "run"
  /\ pc[n] = "none" /\ \A s \in Task : new[s] # n
  /\ new' = [new EXCEPT ![t] = n]
  /\ context' = [context EXCEPT ![n] = NewContext]
  /\ head' = [head EXCEPT ![t] = InsertAfter(t)]
  /\ pc' = [pc EXCEPT ![t] = "next"]
  /\ UNCHANGED <<ring, cur_task, intr, cpu, ms, sleep_time, nxt, sleeper>>

ReadNext(t) ==
  /\ Running(t) /\ pc[t] = "next"
  /\ nxt' = [nxt EXCEPT ![t] = list[head[t]].next]
  /\ pc' = [pc EXCEPT ![t] = "add1"]
  /\ UNCHANGED <<ring, cur_task, context, intr, cpu, ms, sleep_time, new, head, sleeper>>

\* Faulty variant: list_add links the new element in before it has links.
Stores_LinkFirst(t) ==
  [add1 |-> [list EXCEPT ![head[t]].next = new[t]],
   add2 |-> [list EXCEPT ![nxt[t]].prev = new[t]],
   add3 |-> [list EXCEPT ![new[t]].prev = head[t]],
   add4 |-> [list EXCEPT ![new[t]].next = nxt[t]]]

\* The four stores of list_add, in their order.
Stores(t) ==
  [add1 |-> [list EXCEPT ![nxt[t]].prev = new[t]],
   add2 |-> [list EXCEPT ![new[t]].prev = head[t]],
   add3 |-> [list EXCEPT ![new[t]].next = nxt[t]],
   add4 |-> [list EXCEPT ![head[t]].next = new[t]]]

After == [add1 |-> "add2", add2 |-> "add3", add3 |-> "add4"]

ListAdd(t) ==
  /\ Running(t) /\ pc[t] \in DOMAIN After
  /\ list' = Stores(t)[pc[t]]
  /\ pc' = [pc EXCEPT ![t] = After[pc[t]]]
  /\ UNCHANGED <<linked, cur_task, context, intr, cpu, ms, sleep_time, create, sleeper>>

\* The last store, and the return of kthread_create.
ListAddEnd(t) ==
  /\ Running(t) /\ pc[t] = "add4"
  /\ list' = Stores(t).add4
  /\ linked' = linked \cup {new[t]}
  /\ pc' = [pc EXCEPT ![t] = "run", ![new[t]] = "born"]
  /\ new' = [new EXCEPT ![t] = Null]
  /\ head' = [head EXCEPT ![t] = Null] /\ nxt' = [nxt EXCEPT ![t] = Null]
  /\ UNCHANGED <<cur_task, context, intr, cpu, ms, sleep_time, sleeper>>

-----------------------------------------------------------------------------
(* sleep, called by the current thread t *)

\* The clock is read; the bound leaves the clock room to pass the deadline.
SleepStart(t) == \E a \in Sleeps :
  /\ Running(t) /\ pc[t] = "run" /\ ms + a + Period <= MaxMs
  /\ asked' = [asked EXCEPT ![t] = a]
  /\ since' = [since EXCEPT ![t] = ms]
  /\ alone' = [alone EXCEPT ![t] = FALSE]
  /\ pc' = [pc EXCEPT ![t] = "deadline"]
  /\ UNCHANGED <<ring, cur_task, context, intr, cpu, ms, sleep_time, create>>

SetDeadline(t) ==
  /\ Running(t) /\ pc[t] = "deadline"
  /\ sleep_time' = [sleep_time EXCEPT ![t] = (since[t] + asked[t]) % Word]
  /\ pc' = [pc EXCEPT ![t] = "sleep"]
  /\ UNCHANGED <<ring, cur_task, context, intr, cpu, ms, create, sleeper>>

\* Faulty variant: the deadline has to be met exactly.
Wake_Exact(t) ==
  /\ Running(t) /\ pc[t] = "sleep" /\ ms = sleep_time[t]
  /\ pc' = [pc EXCEPT ![t] = "run"]
  /\ asked' = [asked EXCEPT ![t] = 0]
  /\ since' = [since EXCEPT ![t] = 0]
  /\ alone' = [alone EXCEPT ![t] = FALSE]
  /\ UNCHANGED <<ring, cur_task, context, intr, cpu, ms, sleep_time, create>>

\* A turn of sleep's loop that finds the deadline passed; the other turns
\* change nothing.
Wake(t) ==
  /\ Running(t) /\ pc[t] = "sleep" /\ ms > sleep_time[t]
  /\ pc' = [pc EXCEPT ![t] = "run"]
  /\ asked' = [asked EXCEPT ![t] = 0]
  /\ since' = [since EXCEPT ![t] = 0]
  /\ alone' = [alone EXCEPT ![t] = FALSE]
  /\ UNCHANGED <<ring, cur_task, context, intr, cpu, ms, sleep_time, create>>

-----------------------------------------------------------------------------
\* What a thread does by calling, and what a call then goes on to do.
Call(t)   == Create(t) \/ SleepStart(t)
GoesOn(t) == ReadNext(t) \/ ListAdd(t) \/ ListAddEnd(t) \/ SetDeadline(t) \/ Wake(t)

Next == Tick \/ EnterThread \/ \E t \in Task : Call(t) \/ GoesOn(t)

\* The timer goes on ticking, whenever interrupts are on at last; and its
\* period is so much longer than its handler that a thread which gets its turn
\* again and again also gets to execute.  Nobody has to call.
Spec == /\ Init /\ [][Next]_vars
        /\ SF_vars(Tick) /\ WF_vars(EnterThread)
        /\ \A t \in Task : SF_vars(GoesOn(t))

-----------------------------------------------------------------------------
(* Properties *)

Creating == {"next", "add1", "add2", "add3", "add4"}

\* Every variable of the scheduler has its type; neither cur_task nor a pointer
\* that kthread_create follows is ever null.
TypeOK ==
  /\ list \in Links(Task)
  /\ cur_task \in Task /\ linked \subseteq Task
  /\ context \in [Task -> {NoContext, Fresh, InTimer, Midway}]
  /\ intr \in BOOLEAN /\ cpu \in {"task", "switch", "astray"}
  /\ ms \in 0 .. MaxMs
  /\ sleep_time \in [Task -> 0 .. Word - 1]
  /\ pc \in [Task -> {"none", "born", "run", "deadline", "sleep"} \cup Creating]
  /\ new \in [Task -> Task \cup {Null}]
  /\ head \in [Task -> Task \cup {Null}] /\ nxt \in [Task -> Task \cup {Null}]
  /\ \A t \in Task :
       /\ pc[t] \in Creating => new[t] # Null /\ head[t] # Null
       /\ pc[t] \in Creating \ {"next"} => nxt[t] # Null
  /\ asked \in [Task -> Sleeps \cup {0}] /\ since \in [Task -> 0 .. MaxMs]
  /\ alone \in [Task -> BOOLEAN]

\* Thread t has written next->prev and not yet prev->next.
Adding(t) == pc[t] \in {"add2", "add3", "add4"}

\* Whatever stores of list_add a tick cuts off, and however many threads are
\* cut off in kthread_create at once, the ring that schedule follows goes
\* through every thread whose creation has returned, and no other; backwards it
\* is intact too, but for the gap in front of a creator in the middle of its
\* stores.  Nor has a switch overwritten the context of a thread in the ring that
\* has not been entered, which is so only while ticks are Prompt.
RingKept ==
  /\ \A t \in linked : list[t].next \in linked
  /\ \A S \in SUBSET linked :
       S # {} /\ (\A t \in S : list[t].next \in S) => S = linked
  /\ \A t \in linked : LET n == list[t].next IN
       list[n].prev = IF Adding(n) THEN new[n] ELSE t
  /\ \A t \in linked : pc[t] = "born" => context[t].at = "entry"

\* The place in the ring, counted from the current thread, at which t stands.
Place(t) ==
  LET walk[n \in 0 .. Cardinality(Task)] ==
        IF n = 0 THEN cur_task ELSE list[walk[n - 1]].next
  IN  CHOOSE n \in 0 .. Cardinality(Task) :
        walk[n] = t /\ \A m \in 0 .. n - 1 : walk[m] # t

\* Round robin: a waiting thread comes one place nearer with each tick and is
\* never put back, by no thread that is created meanwhile.
NoOvertaking ==
  [][\A t \in linked \ {cur_task} :
       Place(t)' = IF cur_task' = cur_task THEN Place(t) ELSE Place(t) - 1]_vars

\* The time that has certainly passed between two readings of the clock: k
\* ticks lie k - 1 whole periods apart.
Certain(from, to) == to - from - Period

\* A sleep of a whole number of periods lasts at least the milliseconds asked
\* for; any other falls short of them by less than a period, and the code gives
\* no more.  It is so if no tick came while the ring held this thread only, for
\* then schedule brings the deadline nearer.
SleepsInCompany ==
  [][\A t \in Task :
       pc[t] = "sleep" /\ pc'[t] = "run" /\ ~alone[t] =>
         /\ asked[t] % Period = 0 => Certain(since[t], ms) >= asked[t]
         /\ asked[t] - Certain(since[t], ms) < Period]_vars

\* boot_ap.asm: sleep(10) is a 10-millisecond sleep, also for the boot thread,
\* which makes this call while it is the only thread.
SleepsAsAsked ==
  [][\A t \in Task :
       pc[t] = "sleep" /\ pc'[t] = "run" => Certain(since[t], ms) >= asked[t]]_vars

\* A thread that has been created is entered at its function.
Starts == \A t \in Task : pc[t] = "born" ~> pc[t] = "run"

\* sleep returns to a thread that is not the only one, and to one that is if its
\* argument is a whole number of periods.  Of other arguments nothing is said: the
\* deadline of a lone thread is lowered while it is not zero, so that one between
\* 0 and a period goes below 0, which is 2^64 less a little (sleep(3) at 0 ms).
SleepEnds ==
  \A t \in Task :
    pc[t] = "sleep" /\ (linked # {t} \/ asked[t] % Period = 0) ~> pc[t] # "sleep"
=============================================================================
