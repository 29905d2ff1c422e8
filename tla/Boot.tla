-------------------------------- MODULE Boot --------------------------------
(***************************************************************************)
(* How the processors get into the kernel: the boot processor through      *)
(* boot.asm, loader_main, entry.asm, kernel_entry and init_kernel, and the *)
(* others, which start_multi_core wakes by INIT and SIPI, through the same *)
(* loader and entry code with stacks chosen by APIC id.  All of them run   *)
(* at once; the timer cuts into the boot processor's initialisation from   *)
(* the moment idt_flush turns interrupts on.                               *)
(*                                                                         *)
(* What find_kernel_file_and_read and the memory part of init_kernel do is *)
(* modelled elsewhere (Loader, Vmemmap, Slab): here they succeed or not.   *)
(***************************************************************************)
EXTENDS Integers, FiniteSets

CONSTANTS Cpu,       \* the APIC ids of the processors
          Bsp,       \* that of the boot processor
          MaxId,     \* the largest id that ap_main lets pass
          MaxCpu,    \* __MAX_CPU: how many processors are supported
          RealTop, RealStack,      \* 7c00h and 400h
          KernelTop, KernelStack,  \* STACK_TOP and 8192
          Period,    \* 1000 / __INTERRUPT_TIMER_FREQUENCY
          Delays,    \* the arguments of the two sleeps of start_multi_core
          Word,      \* 2^64
          Garbage,   \* what an uninitialised word may hold
          MaxMs      \* bound: time stands still from here on, but for a sleep

ASSUME CpuAssumption == Bsp \in Cpu /\ Cpu \subseteq Nat /\ MaxId \in Nat
\* The stacks of real mode lie above address 0 and below the kernel's.
ASSUME StackAssumption ==
  /\ RealTop \in Nat /\ KernelTop \in Nat
  /\ RealStack \in 1 .. RealTop /\ KernelStack \in Nat \ {0}
  /\ \A c \in Cpu : /\ c <= MaxId => RealStack * (c + 1) <= RealTop
                    /\ RealTop <= KernelTop - KernelStack * (c + 1)

VARIABLES
  at,            \* where each processor is
  disk,          \* what the loader finds on it
  bsp_cpu_id, kernel_entry,    \* kloader.c: -1 and 0 at first
  bsp,                         \* kernel_entry.cc: -1 at first
  stack,         \* [top, size] of each processor's stack
  intr,          \* the boot processor's interrupt flag
  idt,           \* has the kernel's descriptor table been loaded?
  handler,       \* int_handler[32]: "garbage", "null" or "timer"
  cur_task,      \* has cur_task been set?
  ms, sleep_time,              \* timer.cc's clock, cur_task->sleep_time
  lost           \* auxiliary: an interrupt found no gate, handler or task

shared == <<disk, bsp_cpu_id, kernel_entry, bsp>>
timer  == <<idt, handler, cur_task, ms, sleep_time, lost>>
vars == <<at, shared, stack, intr, timer>>

Unset  == -1
NoEntry == 0
Entry  == 1

\* Ids take their stack downwards from the top.
RealSlot(id)   == [top |-> RealTop - RealStack * id, size |-> RealStack]
KernelSlot(id) == [top |-> KernelTop - KernelStack * id, size |-> KernelStack]
NoStack == [top |-> 0, size |-> 0]

Go(c, from, to) == at[c] = from /\ at' = [at EXCEPT ![c] = to]

-----------------------------------------------------------------------------
\* The way into the kernel, for every processor.

\* boot.asm, from start to the jump into the loader: the boot processor's
\* stack begins at 7c00h whatever its id, and interrupts are off from then on.
Start == /\ Go(Bsp, "reset", "loader")
         /\ stack' = [stack EXCEPT ![Bsp] = RealSlot(0)]
         /\ intr' = FALSE
         /\ UNCHANGED <<shared, timer>>

\* ap_main: an id that is too large stops the processor.
ApMain(c) == /\ at[c] = "ap_main"
             /\ \/ /\ c <= MaxId
                   /\ Go(c, "ap_main", "loader")
                   /\ stack' = [stack EXCEPT ![c] = RealSlot(c)]
                \/ /\ c > MaxId
                   /\ Go(c, "ap_main", "stopped")
                   /\ UNCHANGED stack
             /\ UNCHANGED <<shared, intr, timer>>

\* jump_to_kernel: without an entry point the processor runs through memory.
Jump(c, entry) == at' = [at EXCEPT ![c] = IF entry = Entry THEN "entry" ELSE "astray"]

\* loader_main's test: the first processor to come here is to load the kernel,
\* the others jump to it.
loader_main(c) ==
  /\ at[c] = "loader"
  /\ \/ bsp_cpu_id = Unset /\ Go(c, "loader", "claim loader")
     \/ bsp_cpu_id # Unset /\ Jump(c, kernel_entry)
  /\ UNCHANGED <<shared, stack, intr, timer>>

\* get_apic_id comes between the test and the store.
ClaimLoader(c) ==
  /\ Go(c, "claim loader", "load")
  /\ bsp_cpu_id' = c
  /\ UNCHANGED <<disk, kernel_entry, bsp, stack, intr, timer>>

\* Faulty variant: the entry point is jumped to and not stored.
LoadKernel_NotStored(c) ==
  /\ at[c] = "load"
  /\ \/ disk = "kernel" /\ Jump(c, Entry)
     \/ disk = "empty" /\ Jump(c, kernel_entry)
     \/ disk = "foreign" /\ Go(c, "load", "stopped")
  /\ UNCHANGED <<shared, stack, intr, timer>>

\* Without a file system or an ELF file the loader stops; without a kernel
\* file it returns to loader_main, which jumps all the same.
find_kernel_file_and_read(c) ==
  /\ at[c] = "load"
  /\ \/ disk = "kernel" /\ kernel_entry' = Entry /\ Jump(c, Entry)
     \/ disk = "empty" /\ Jump(c, kernel_entry) /\ UNCHANGED kernel_entry
     \/ disk = "foreign" /\ Go(c, "load", "stopped") /\ UNCHANGED kernel_entry
  /\ UNCHANGED <<disk, bsp_cpu_id, bsp, stack, intr, timer>>

\* Faulty variant: the processor goes on with its real-mode stack.
Start_KeepStack(c) == Go(c, "entry", "kernel_entry") /\ UNCHANGED <<shared, stack, intr, timer>>

\* entry.asm
_start(c) == /\ Go(c, "entry", "kernel_entry")
             /\ stack' = [stack EXCEPT ![c] = KernelSlot(c)]
             /\ UNCHANGED <<shared, intr, timer>>

\* kernel_entry's test: the first processor to come here is to initialise the
\* kernel, the others return to the hlt of entry.asm.
KernelEntry(c) ==
  /\ \/ bsp = Unset /\ Go(c, "kernel_entry", "claim kernel")
     \/ bsp # Unset /\ Go(c, "kernel_entry", "hlt")
  /\ UNCHANGED <<shared, stack, intr, timer>>

\* Faulty variant: the processor does not say that it initialises the kernel.
ClaimKernel_Silent(c) == Go(c, "claim kernel", "memory") /\ UNCHANGED <<shared, stack, intr, timer>>

\* Here too get_apic_id comes between the test and the store.
ClaimKernel(c) ==
  /\ Go(c, "claim kernel", "memory")
  /\ bsp' = c
  /\ UNCHANGED <<disk, bsp_cpu_id, kernel_entry, stack, intr, timer>>

-----------------------------------------------------------------------------
\* init_kernel.

\* init_memblock, init_buddy, init_mem_page and init_kmem_cache.
InitMemory(c) == /\ Go(c, "memory", "handlers")
                 /\ UNCHANGED <<shared, stack, intr, timer>>

\* Faulty variant: the table of handlers is not cleared.
InitHandlers_Dirty(c) == Go(c, "handlers", "idt") /\ UNCHANGED <<shared, stack, intr, timer>>

\* init_interrupt up to the last port: the table of handlers is cleared.
InitHandlers(c) == /\ Go(c, "handlers", "idt")
                   /\ handler' = "null"
                   /\ UNCHANGED <<shared, stack, intr, idt, cur_task, ms, sleep_time, lost>>

\* The gates, and idt_flush, which ends with sti.
idt_flush(c) == /\ Go(c, "idt", "task")
                /\ idt' = TRUE /\ intr' = TRUE
                /\ UNCHANGED <<shared, stack, handler, cur_task, ms, sleep_time, lost>>

\* The task comes from kmalloc; its sleep_time is what was there.
init_task(c) == /\ Go(c, "task", "clock")
                /\ cur_task' = TRUE
                /\ sleep_time' \in Garbage
                /\ UNCHANGED <<shared, stack, intr, idt, handler, ms, lost>>

\* init_timer: the clock is cleared first, then cli.
InitClock(c) == /\ Go(c, "clock", "bind")
                /\ ms' = 0 /\ intr' = FALSE
                /\ UNCHANGED <<shared, stack, idt, handler, cur_task, sleep_time, lost>>

\* The handler is bound and the timer chip programmed; the sti is init_kernel's.
BindTimer(c) == /\ Go(c, "bind", "startup")
                /\ handler' = "timer" /\ intr' = TRUE
                /\ UNCHANGED <<shared, stack, idt, cur_task, ms, sleep_time, lost>>

-----------------------------------------------------------------------------
\* startup_ap, boot_ap.asm.

\* INIT to all others, then sleep(10).
SendInit(c) ==
  /\ at[c] = "startup"
  /\ at' = [p \in Cpu |-> IF p = c THEN "sleep init" ELSE "wait"]
  /\ sleep_time' = ms + Delays[1]
  /\ UNCHANGED <<shared, stack, intr, idt, handler, cur_task, ms, lost>>

\* SIPI to all others, then sleep(200).
SendSipi(c) ==
  /\ at[c] = "sleep init" /\ ms > sleep_time
  /\ at' = [p \in Cpu |-> IF p = c THEN "sleep sipi"
                          ELSE IF at[p] = "wait" THEN "ap_main" ELSE at[p]]
  /\ sleep_time' = ms + Delays[2]
  /\ UNCHANGED <<shared, stack, intr, idt, handler, cur_task, ms, lost>>

\* sleep has left the clock in eax, so that the second command is no SIPI: it
\* names an illegal vector and has no effect.  Then the welcome, and entry.asm.
Welcome(c) == /\ ms > sleep_time
              /\ Go(c, "sleep sipi", "hlt")
              /\ UNCHANGED <<shared, stack, intr, timer>>

-----------------------------------------------------------------------------
\* Interrupts of the boot processor.

\* At the bound time stands still, clock and deadline alike, unless the boot
\* processor is in a sleep whose deadline is yet to pass.
TimeLeft ==
  \/ ms + Period <= MaxMs
  \/ at[Bsp] \in {"sleep init", "sleep sipi"} /\ ms <= sleep_time

\* timer_handler: the clock, and schedule, which turns the deadline of a
\* lone task down and switches from the task to itself.
timer_handler ==
  /\ ms' = IF TimeLeft THEN ms + Period ELSE ms
  /\ sleep_time' = IF sleep_time > 0 /\ TimeLeft
                    THEN (sleep_time - Period + Word) % Word ELSE sleep_time
  /\ lost' = (lost \/ ~cur_task)

\* isr_pic_dispatcher for the timer.  The hlt of entry.asm is not in a loop:
\* after it the processor returns to an address nobody has pushed.
Tick ==
  /\ intr
  /\ IF idt /\ handler = "timer"
     THEN timer_handler
     ELSE /\ lost' = (lost \/ ~idt \/ handler = "garbage")
          /\ UNCHANGED <<ms, sleep_time>>
  /\ at' = [at EXCEPT ![Bsp] = IF @ = "hlt" THEN "astray" ELSE @]
  /\ UNCHANGED <<shared, stack, intr, idt, handler, cur_task>>

-----------------------------------------------------------------------------
Init == /\ at = [c \in Cpu |-> IF c = Bsp THEN "reset" ELSE "off"]
        /\ disk \in {"kernel", "empty", "foreign"}
        /\ bsp_cpu_id = Unset /\ kernel_entry = NoEntry /\ bsp = Unset
        /\ stack = [c \in Cpu |-> NoStack]
        /\ intr = FALSE /\ idt = FALSE /\ handler = "garbage" /\ cur_task = FALSE
        /\ ms \in Garbage /\ sleep_time = 0 /\ lost = FALSE

Step(c) == \/ ApMain(c) \/ loader_main(c) \/ ClaimLoader(c) \/ find_kernel_file_and_read(c)
           \/ _start(c) \/ KernelEntry(c) \/ ClaimKernel(c)
           \/ InitMemory(c) \/ InitHandlers(c) \/ idt_flush(c) \/ init_task(c)
           \/ InitClock(c) \/ BindTimer(c)
           \/ SendInit(c) \/ SendSipi(c) \/ Welcome(c)

Next == Start \/ Tick \/ \E c \in Cpu : Step(c)

\* Every processor goes on executing, and the timer goes on ticking.
Spec == /\ Init /\ [][Next]_vars
        /\ WF_vars(Start) /\ WF_vars(Tick) /\ \A c \in Cpu : WF_vars(Step(c))

-----------------------------------------------------------------------------
\* Where only the boot processor may be.
Initialising == {"claim loader", "load", "claim kernel", "memory", "handlers", "idt", "task", "clock", "bind",
                 "startup", "sleep init", "sleep sipi"}

\* However the processors run through the shared code, one of them loads the
\* kernel and initialises it: neither test is atomic with the store that follows,
\* and no other processor gets to one before the boot processor has stored.
OneInitialises == \A c \in Cpu \ {Bsp} : at[c] \notin Initialising

\* No two processors use the same stack at a time, although the boot processor
\* begins on the one that belongs to id 0, and every processor changes stacks
\* in the course of its start.
StacksApart ==
  \A c, d \in Cpu : c # d =>
    \/ stack[c].top <= stack[d].top - stack[d].size
    \/ stack[d].top <= stack[c].top - stack[c].size

\* From the sti in idt_flush on, whenever the timer ticks in the middle of
\* init_kernel, there is a gate for it and a handler, and once the handler is
\* timer_handler there is a task to schedule.
InterruptsServed == ~lost

\* With a kernel on the disk, the boot processor and every one with an id below
\* the number that is supported gets as far as the hlt behind kernel_entry, and
\* one that ap_main does not let pass stops.
AllStart ==
  disk = "kernel" =>
    \A c \in Cpu : /\ c = Bsp \/ c < MaxCpu => <>(at[c] = "hlt")
                   /\ c # Bsp /\ c > MaxId  => <>(at[c] = "stopped")
=============================================================================
