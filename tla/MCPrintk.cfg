\* Two callers of printk, with calls of every kind of directive.
CONSTANTS
  Caller = {p, q}
  Mod = 2
  Width = 3
  Height = 2
  Word = 256
  MaxLen = 12
  LoaderCall <- MCLoaderCall
  KernelCall <- MCKernelCall
  Junk <- MCJunk
  MaxLogs = 2
  MaxCalls = 2
SPECIFICATION Spec
INVARIANT TypeOK
PROPERTY ImplementsConsole CallsReturn
CHECK_DEADLOCK FALSE
