CONSTANTS
  Null = Null
  MaxOrderCnt = 3
  NPages = 4
  Size <- MCSize
  Usable <- Pfns

SPECIFICATION Spec

INVARIANT AllocTakesFreePage

CHECK_DEADLOCK FALSE
