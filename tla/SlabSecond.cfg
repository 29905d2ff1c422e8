CONSTANTS
  Null = Null
  c3 = c3
  c6 = c6
  Cache = {c3, c6}
  ObjSize <- MCObjSize
  PageSize = 8
  NPages = 4

SPECIFICATION Spec

INVARIANT ReleasedWhenEmpty

CHECK_DEADLOCK FALSE
