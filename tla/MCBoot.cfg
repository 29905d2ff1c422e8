\* Five processors.
CONSTANTS
  Cpu = {0, 1, 7, 8, 9}
  Bsp = 1
  MaxId = 8
  MaxCpu = 8
  RealTop = 31744
  RealStack = 1024
  KernelTop = 1165535
  KernelStack = 8192
  Period = 5
  Delays <- MCDelays
  Word = 1048576
  Garbage = {0, 3, 1000}
  MaxMs = 30
SPECIFICATION Spec
INVARIANT OneInitialises StacksApart InterruptsServed
PROPERTY AllStart
CHECK_DEADLOCK FALSE
