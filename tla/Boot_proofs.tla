----------------------------- MODULE Boot_proofs -----------------------------
(***************************************************************************)
(* Theorems about the start of the processors, for every set of processors *)
(* and every boot processor: only the boot processor loads and initialises *)
(* the kernel, no two stacks overlap, and no tick comes too early.         *)
(***************************************************************************)
EXTENDS Boot, TLAPS

Others == Cpu \ {Bsp}

\* Where a processor other than the boot processor can be, before and after
\* it has been woken.
Asleep == {"off", "wait"}
Awake  == {"ap_main", "loader", "entry", "kernel_entry", "hlt", "stopped", "astray"}

\* Where the boot processor is once the others may run.
Behind == {"sleep sipi", "hlt", "astray"}

\* Stretches of the boot processor's way: idt_flush has been executed, the
\* kernel has been entered.
Interrupted == {"task", "clock", "bind", "startup", "sleep init", "sleep sipi"}
InInit      == {"memory", "handlers", "idt"} \cup Interrupted
Entered     == {"kernel_entry", "claim kernel"}

\* The tests of bsp_cpu_id and bsp come after the boot processor's stores.
Order ==
  /\ at \in [Cpu -> {"reset", "claim loader", "load", "claim kernel"} \cup Asleep \cup Awake \cup InInit]
  /\ \A c \in Others : at[c] \in Asleep \cup Awake
  /\ at[Bsp] \notin Asleep \cup {"ap_main"}
  /\ at[Bsp] \notin {"reset", "loader", "claim loader"} => bsp_cpu_id # Unset
  /\ at[Bsp] \in InInit => bsp # Unset
  /\ \A c \in Others : at[c] \in Awake =>
       at[Bsp] \in Behind /\ bsp_cpu_id # Unset /\ bsp # Unset

\* Who has which stack.
Stacks ==
  /\ stack \in [Cpu -> [top : Int, size : Int]]
  /\ \A c \in Others :
       stack[c] \in {NoStack, KernelSlot(c)} \cup (IF c <= MaxId THEN {RealSlot(c)} ELSE {})
  /\ stack[Bsp] \in {NoStack, RealSlot(0), KernelSlot(Bsp)}
  /\ at[Bsp] \in Entered \cup InInit => stack[Bsp] = KernelSlot(Bsp)
  /\ \A c \in Others : /\ stack[c] # NoStack => at[c] \in Awake
                       /\ at[c] \in Awake => stack[Bsp] = KernelSlot(Bsp)

\* What a tick relies on has been set up before.
SetUp ==
  /\ intr \in BOOLEAN /\ lost = FALSE
  /\ at[Bsp] \in {"idt"} \cup Interrupted => handler # "garbage"
  /\ at[Bsp] \in Interrupted => idt
  /\ at[Bsp] \in Interrupted \ {"task"} => cur_task
  /\ intr => idt /\ handler # "garbage"
  /\ handler = "timer" => cur_task

IInv == Order /\ Stacks /\ SetUp

-----------------------------------------------------------------------------
LEMMA InitOK == Init => IInv
<1> SUFFICES ASSUME Init PROVE IInv OBVIOUS
<1> USE CpuAssumption DEF Init, Others, Asleep, Awake, Behind, Interrupted, Entered, InInit
<1>1. Order BY DEF Order
<1>2. Stacks BY DEF Stacks, NoStack
<1>3. SetUp BY DEF SetUp
<1> QED BY <1>1, <1>2, <1>3 DEF IInv

LEMMA OrderStep == IInv /\ [Next]_vars => Order'
<1> SUFFICES ASSUME IInv, [Next]_vars PROVE Order' OBVIOUS
<1>u. Bsp \in Cpu /\ \A c \in Cpu : c # Unset BY CpuAssumption DEF Unset
<1> USE <1>u DEF Order, Others, Asleep, Awake, Behind, Interrupted, Entered, InInit, Go, Jump,
        IInv, shared, timer
<1>1. CASE Start BY <1>1 DEF Start
<1>2. CASE Tick BY <1>2 DEF Tick
<1>3. ASSUME NEW c \in Cpu, Step(c) PROVE Order'
  <2>1. CASE ApMain(c) BY <2>1 DEF ApMain
  <2>2. CASE loader_main(c)
    <3>1. CASE c = Bsp BY <2>2, <3>1 DEF loader_main
    <3>2. CASE c # Bsp BY <2>2, <3>2 DEF loader_main
    <3> QED BY <3>1, <3>2
  <2>3. CASE find_kernel_file_and_read(c) BY <2>3 DEF find_kernel_file_and_read
  <2>4. CASE _start(c) BY <2>4 DEF _start
  <2>5. CASE KernelEntry(c)
    <3>1. CASE c = Bsp BY <2>5, <3>1 DEF KernelEntry
    <3>2. CASE c # Bsp BY <2>5, <3>2 DEF KernelEntry
    <3> QED BY <3>1, <3>2
  <2>6. CASE InitMemory(c) BY <2>6 DEF InitMemory
  <2>7. CASE InitHandlers(c) BY <2>7 DEF InitHandlers
  <2>8. CASE idt_flush(c) BY <2>8 DEF idt_flush
  <2>9. CASE init_task(c) BY <2>9 DEF init_task
  <2>10. CASE InitClock(c) BY <2>10 DEF InitClock
  <2>11. CASE BindTimer(c) BY <2>11 DEF BindTimer
  <2>12. CASE SendInit(c) BY <2>12 DEF SendInit
  <2>13. CASE SendSipi(c) BY <2>13 DEF SendSipi
  <2>14. CASE Welcome(c) BY <2>14 DEF Welcome
  <2>15. CASE ClaimLoader(c) BY <2>15 DEF ClaimLoader
  <2>16. CASE ClaimKernel(c) BY <2>16 DEF ClaimKernel
  <2> QED BY <1>3, <2>1, <2>2, <2>3, <2>4, <2>5, <2>6, <2>7, <2>8, <2>9, <2>10, <2>11, <2>12,
             <2>13, <2>14, <2>15, <2>16 DEF Step
<1>4. CASE UNCHANGED vars BY <1>4 DEF vars
<1> QED BY <1>1, <1>2, <1>3, <1>4 DEF Next

\* A processor that goes on with the stack it has.
LEMMA OnSameStack ==
  ASSUME IInv, NEW c \in Cpu, NEW w, at' = [at EXCEPT ![c] = w], UNCHANGED stack,
         c # Bsp => at[c] \in Awake /\ w \in Awake,
         w \notin Entered \cup InInit
  PROVE  Stacks'
<1> USE DEF Entered
<1>1. Bsp \in Cpu /\ DOMAIN at = Cpu BY CpuAssumption DEF IInv, Order
<1>2. at'[c] = w /\ \A d \in Cpu : d # c => at'[d] = at[d] BY <1>1
<1>3. at'[Bsp] \in Entered \cup InInit => stack[Bsp] = KernelSlot(Bsp)
  BY <1>1, <1>2 DEF IInv, Stacks
<1>4. ASSUME NEW d \in Others
      PROVE  /\ stack[d] # NoStack => at'[d] \in Awake
             /\ at'[d] \in Awake => stack[Bsp] = KernelSlot(Bsp)
  <2>1. d \in Cpu /\ d # Bsp BY DEF Others
  <2>2. /\ stack[d] # NoStack => at[d] \in Awake
        /\ at[d] \in Awake => stack[Bsp] = KernelSlot(Bsp)
    BY DEF IInv, Stacks
  <2>3. CASE d = c BY <1>2, <2>1, <2>2, <2>3
  <2>4. CASE d # c BY <1>2, <2>1, <2>2, <2>4
  <2> QED BY <2>3, <2>4
<1> QED BY <1>3, <1>4 DEF IInv, Stacks

LEMMA StacksStep == IInv /\ [Next]_vars => Stacks'
<1> SUFFICES ASSUME IInv, [Next]_vars PROVE Stacks' OBVIOUS
<1>0. Order' BY OrderStep
<1>s. \A c \in Cpu : /\ KernelSlot(c) \in [top : Int, size : Int]
                     /\ c <= MaxId => RealSlot(c) \in [top : Int, size : Int]
  BY CpuAssumption, StackAssumption DEF KernelSlot, RealSlot
<1>z. RealSlot(0) \in [top : Int, size : Int] BY StackAssumption DEF RealSlot
<1> USE <1>0, <1>s, <1>z, CpuAssumption DEF Stacks, Order, Others, Asleep, Awake, Behind, Interrupted,
        Entered, InInit, Unset, Go, Jump, IInv, shared, timer
<1>1. CASE Start BY <1>1 DEF Start
<1>2. CASE Tick BY <1>2 DEF Tick
<1>3. ASSUME NEW c \in Cpu, Step(c) PROVE Stacks'
  <2>1. CASE ApMain(c)
    <3>1. c # Bsp /\ at[c] = "ap_main" BY <2>1 DEF ApMain
    <3>2. CASE c <= MaxId /\ stack' = [stack EXCEPT ![c] = RealSlot(c)] /\ at' = [at EXCEPT ![c] = "loader"]
      BY <3>1, <3>2
    <3>3. CASE UNCHANGED stack /\ at' = [at EXCEPT ![c] = "stopped"]
      BY <3>1, <3>3
    <3> QED BY <2>1, <3>2, <3>3 DEF ApMain
  <2>2. CASE loader_main(c)
    <3>1. /\ at[c] = "loader" /\ UNCHANGED stack
          /\ \E w \in {"claim loader", "entry", "astray"} : at' = [at EXCEPT ![c] = w]
      BY <2>2 DEF loader_main
    <3>2. PICK w \in {"claim loader", "entry", "astray"} : at' = [at EXCEPT ![c] = w] BY <3>1
    <3>3. c # Bsp => w # "claim loader"
      BY <2>2, <3>2 DEF loader_main
    <3> QED BY <3>1, <3>2, <3>3, OnSameStack DEF Awake
  <2>3. CASE find_kernel_file_and_read(c)
    <3>1. /\ at[c] = "load" /\ UNCHANGED stack
          /\ \E w \in {"entry", "astray", "stopped"} : at' = [at EXCEPT ![c] = w]
      BY <2>3 DEF find_kernel_file_and_read
    <3>2. PICK w \in {"entry", "astray", "stopped"} : at' = [at EXCEPT ![c] = w] BY <3>1
    <3>3. c = Bsp BY <3>1
    <3> QED BY <3>1, <3>2, <3>3, OnSameStack
  <2>4. CASE _start(c) BY <2>4 DEF _start
  <2>5. CASE KernelEntry(c) BY <2>5 DEF KernelEntry
  <2>6. CASE InitMemory(c) BY <2>6 DEF InitMemory
  <2>7. CASE InitHandlers(c) BY <2>7 DEF InitHandlers
  <2>8. CASE idt_flush(c) BY <2>8 DEF idt_flush
  <2>9. CASE init_task(c) BY <2>9 DEF init_task
  <2>10. CASE InitClock(c) BY <2>10 DEF InitClock
  <2>11. CASE BindTimer(c) BY <2>11 DEF BindTimer
  <2>12. CASE SendInit(c) BY <2>12 DEF SendInit
  <2>13. CASE SendSipi(c) BY <2>13 DEF SendSipi
  <2>14. CASE Welcome(c) BY <2>14 DEF Welcome
  <2>15. CASE ClaimLoader(c) BY <2>15 DEF ClaimLoader
  <2>16. CASE ClaimKernel(c) BY <2>16 DEF ClaimKernel
  <2> QED BY <1>3, <2>1, <2>2, <2>3, <2>4, <2>5, <2>6, <2>7, <2>8, <2>9, <2>10, <2>11, <2>12,
             <2>13, <2>14, <2>15, <2>16 DEF Step
<1>4. CASE UNCHANGED vars BY <1>4 DEF vars
<1> QED BY <1>1, <1>2, <1>3, <1>4 DEF Next

LEMMA SetUpStep == IInv /\ [Next]_vars => SetUp'
<1> SUFFICES ASSUME IInv, [Next]_vars PROVE SetUp' OBVIOUS
<1> USE OrderStep, CpuAssumption DEF SetUp, Order, Others, Asleep, Awake, Behind, Interrupted,
        Entered, InInit, Unset, Go, Jump, IInv, shared, timer
<1>1. CASE Start BY <1>1 DEF Start
<1>2. CASE Tick BY <1>2 DEF Tick, timer_handler
<1>3. ASSUME NEW c \in Cpu, Step(c) PROVE SetUp'
  <2>1. CASE ApMain(c) BY <2>1 DEF ApMain
  <2>2. CASE loader_main(c) BY <2>2 DEF loader_main
  <2>3. CASE find_kernel_file_and_read(c) BY <2>3 DEF find_kernel_file_and_read
  <2>4. CASE _start(c) BY <2>4 DEF _start
  <2>5. CASE KernelEntry(c) BY <2>5 DEF KernelEntry
  <2>6. CASE InitMemory(c) BY <2>6 DEF InitMemory
  <2>7. CASE InitHandlers(c) BY <2>7 DEF InitHandlers
  <2>8. CASE idt_flush(c) BY <2>8 DEF idt_flush
  <2>9. CASE init_task(c) BY <2>9 DEF init_task
  <2>10. CASE InitClock(c) BY <2>10 DEF InitClock
  <2>11. CASE BindTimer(c) BY <2>11 DEF BindTimer
  <2>12. CASE SendInit(c) BY <2>12 DEF SendInit
  <2>13. CASE SendSipi(c) BY <2>13 DEF SendSipi
  <2>14. CASE Welcome(c) BY <2>14 DEF Welcome
  <2>15. CASE ClaimLoader(c) BY <2>15 DEF ClaimLoader
  <2>16. CASE ClaimKernel(c) BY <2>16 DEF ClaimKernel
  <2> QED BY <1>3, <2>1, <2>2, <2>3, <2>4, <2>5, <2>6, <2>7, <2>8, <2>9, <2>10, <2>11, <2>12,
             <2>13, <2>14, <2>15, <2>16 DEF Step
<1>4. CASE UNCHANGED vars BY <1>4 DEF vars
<1> QED BY <1>1, <1>2, <1>3, <1>4 DEF Next

-----------------------------------------------------------------------------
(* The stacks as intervals *)

Apart(s, t) == s.top <= t.top - t.size \/ t.top <= s.top - s.size

LEMMA Multiples ==
  ASSUME NEW k \in Nat, NEW a \in Nat, NEW b \in Nat, a < b
  PROVE  k * a + k <= k * b
<1> DEFINE e == b - a - 1
<1>1. e \in Nat /\ b = a + 1 + e OBVIOUS
<1>2. k * b = k * a + k + k * e BY <1>1
<1>3. k * e >= 0 /\ k * a \in Nat /\ k * b \in Nat /\ k * e \in Nat BY <1>1
<1> QED BY <1>2, <1>3

LEMMA KernelSlotsApart ==
  ASSUME NEW c \in Cpu, NEW d \in Cpu, c # d
  PROVE  Apart(KernelSlot(c), KernelSlot(d))
<1>1. c \in Nat /\ d \in Nat /\ KernelStack \in Nat /\ KernelTop \in Nat
  BY CpuAssumption, StackAssumption
<1>2. KernelStack * c \in Nat /\ KernelStack * d \in Nat BY <1>1
<1>3. CASE c < d BY <1>1, <1>2, <1>3, Multiples DEF Apart, KernelSlot
<1>4. CASE d < c BY <1>1, <1>2, <1>4, Multiples DEF Apart, KernelSlot
<1> QED BY <1>1, <1>3, <1>4

LEMMA RealSlotsApart ==
  ASSUME NEW c \in Cpu, NEW d \in Cpu, c # d
  PROVE  Apart(RealSlot(c), RealSlot(d))
<1>1. c \in Nat /\ d \in Nat /\ RealStack \in Nat /\ RealTop \in Nat
  BY CpuAssumption, StackAssumption
<1>2. RealStack * c \in Nat /\ RealStack * d \in Nat BY <1>1
<1>3. CASE c < d BY <1>1, <1>2, <1>3, Multiples DEF Apart, RealSlot
<1>4. CASE d < c BY <1>1, <1>2, <1>4, Multiples DEF Apart, RealSlot
<1> QED BY <1>1, <1>3, <1>4

LEMMA RealBelowKernel ==
  ASSUME NEW c \in Nat, NEW d \in Cpu
  PROVE  Apart(RealSlot(c), KernelSlot(d)) /\ Apart(KernelSlot(d), RealSlot(c))
<1>1. d \in Nat /\ RealStack \in Nat /\ RealTop \in Nat /\ KernelStack \in Nat /\ KernelTop \in Nat
      /\ RealTop <= KernelTop - KernelStack * (d + 1)
  BY CpuAssumption, StackAssumption
<1>2. RealStack * c \in Nat /\ KernelStack * d \in Nat
      /\ KernelStack * (d + 1) = KernelStack * d + KernelStack
  BY <1>1
<1> QED BY <1>1, <1>2 DEF Apart, RealSlot, KernelSlot

LEMMA Product == ASSUME NEW k \in Nat, NEW c \in Nat
                 PROVE  k * c \in Nat /\ k * (c + 1) = k * c + k
OBVIOUS

LEMMA NoneBelowKernel ==
  ASSUME NEW c \in Cpu
  PROVE  Apart(NoStack, KernelSlot(c)) /\ Apart(KernelSlot(c), NoStack)
<1>1. /\ c \in Nat /\ RealTop \in Nat /\ KernelStack \in Nat /\ KernelTop \in Nat
      /\ RealTop <= KernelTop - KernelStack * (c + 1)
  BY CpuAssumption, StackAssumption
<1>2. KernelStack * c \in Nat /\ KernelStack * (c + 1) = KernelStack * c + KernelStack
  BY <1>1, Product
<1>3. 0 <= KernelTop - KernelStack * c - KernelStack BY <1>1, <1>2
<1> QED BY <1>3 DEF Apart, KernelSlot, NoStack

LEMMA NoneBelowReal ==
  ASSUME NEW c \in Cpu, c <= MaxId
  PROVE  Apart(NoStack, RealSlot(c)) /\ Apart(RealSlot(c), NoStack)
<1>1. /\ c \in Nat /\ RealTop \in Nat /\ RealStack \in Nat
      /\ RealStack * (c + 1) <= RealTop
  BY CpuAssumption, StackAssumption
<1>2. RealStack * c \in Nat /\ RealStack * (c + 1) = RealStack * c + RealStack
  BY <1>1, Product
<1>3. 0 <= RealTop - RealStack * c - RealStack BY <1>1, <1>2
<1> QED BY <1>3 DEF Apart, RealSlot, NoStack

LEMMA NoneBelowZero == Apart(NoStack, RealSlot(0)) /\ Apart(RealSlot(0), NoStack)
<1>1. RealTop \in Nat /\ RealStack \in Nat /\ RealStack <= RealTop BY StackAssumption
<1> QED BY <1>1 DEF Apart, RealSlot, NoStack

LEMMA NoneApart == Apart(NoStack, NoStack)
BY DEF Apart, NoStack

LEMMA StacksImply == IInv => StacksApart
<1> SUFFICES ASSUME IInv, NEW c \in Cpu, NEW d \in Cpu, c # d PROVE Apart(stack[c], stack[d])
  BY DEF StacksApart, Apart
<1>0. ASSUME NEW p \in Cpu, p # Bsp
      PROVE  \/ stack[p] = NoStack
             \/ stack[p] = KernelSlot(p)
             \/ stack[p] = RealSlot(p) /\ p <= MaxId
  <2>1. stack[p] \in {NoStack, KernelSlot(p)} \cup (IF p <= MaxId THEN {RealSlot(p)} ELSE {})
    BY <1>0 DEF IInv, Stacks, Others
  <2>2. CASE p <= MaxId BY <2>1, <2>2
  <2>3. CASE ~(p <= MaxId) BY <2>1, <2>3
  <2> QED BY <2>2, <2>3
<1>n. Cpu \subseteq Nat /\ Bsp \in Cpu BY CpuAssumption
<1>1. CASE c # Bsp /\ d # Bsp
  <2>1. CASE stack[c] = NoStack
    BY <1>0, <1>1, <2>1, NoneApart, NoneBelowKernel, NoneBelowReal
  <2>2. CASE stack[c] = KernelSlot(c)
    BY <1>0, <1>1, <1>n, <2>2, NoneBelowKernel, KernelSlotsApart, RealBelowKernel
  <2>3. CASE stack[c] = RealSlot(c) /\ c <= MaxId
    BY <1>0, <1>1, <1>n, <2>3, NoneBelowReal, RealSlotsApart, RealBelowKernel
  <2> QED BY <1>0, <1>1, <2>1, <2>2, <2>3
<1>2. ASSUME NEW p \in Cpu, p # Bsp PROVE Apart(stack[p], stack[Bsp]) /\ Apart(stack[Bsp], stack[p])
  <2>0. p \in Others BY <1>2 DEF Others
  <2>1. stack[p] = NoStack \/ stack[Bsp] = KernelSlot(Bsp)
    BY <2>0 DEF IInv, Stacks
  <2>2. stack[Bsp] = NoStack \/ stack[Bsp] = RealSlot(0) \/ stack[Bsp] = KernelSlot(Bsp)
    BY DEF IInv, Stacks
  <2>3. CASE stack[Bsp] = KernelSlot(Bsp)
    BY <1>0, <1>2, <1>n, <2>3, NoneBelowKernel, KernelSlotsApart, RealBelowKernel
  <2>4. CASE stack[p] = NoStack
    BY <1>n, <2>2, <2>4, NoneApart, NoneBelowZero, NoneBelowKernel
  <2> QED BY <2>1, <2>3, <2>4
<1>3. CASE c = Bsp BY <1>2, <1>3
<1>4. CASE d = Bsp BY <1>2, <1>4
<1> QED BY <1>1, <1>3, <1>4

-----------------------------------------------------------------------------
(* Theorems *)

LEMMA Invariance == Spec => []IInv
<1>1. IInv /\ [Next]_vars => IInv' BY OrderStep, StacksStep, SetUpStep DEF IInv
<1> QED BY <1>1, InitOK, PTL DEF Spec

\* However the processors run through loader_main and kernel_entry, the boot
\* processor alone loads the kernel and initialises it.
THEOREM BootAlone == Spec => []OneInitialises
<1>1. IInv => OneInitialises
  BY DEF IInv, Order, Others, Asleep, Awake, OneInitialises, Initialising
<1> QED BY <1>1, Invariance, PTL

\* No two processors use overlapping stacks at any time of the start, for every
\* set of APIC ids that the two areas have room for.
THEOREM NoSharedStack == Spec => []StacksApart
BY StacksImply, Invariance, PTL

\* No tick finds interrupts on before there is a gate and a cleared table of
\* handlers, and none calls schedule before there is a task.
THEOREM NoTickLost == Spec => []InterruptsServed
<1>1. IInv => InterruptsServed BY DEF IInv, SetUp, InterruptsServed
<1> QED BY <1>1, Invariance, PTL
=============================================================================
