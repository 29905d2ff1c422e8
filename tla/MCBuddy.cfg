CONSTANTS
  Null = Null
  MaxOrderCnt = 3
  NPages = 8
  Size <- MCSize
  Usable <- MCUsable

SPECIFICATION Spec

INVARIANTS
  TypeOK
  FreeListsAreRings
  BitmapMatchesLists
  FramesConserved
  Coalesced
  FailsOnlyWhenFull
  HeadKeptUntilFree

PROPERTIES
  ImplementsPageAlloc
  CallsReturn

\* The model stops where a call follows a lost list head.
CHECK_DEADLOCK FALSE
