CONSTANTS
  Null = Null
  c3 = c3
  c6 = c6
  Cache = {c3, c6}
  ObjSize <- MCObjSize
  PageSize = 8
  NPages = 4

SPECIFICATION Spec

INVARIANTS
  TypeOK
  ObjectsApart
  FreeObjectsLinked
  CountsMatch

\* The model ends where kmem_alloc or kfree leaves its own data.
CHECK_DEADLOCK FALSE
