CONSTANTS
  KernelEnd = 14
  PageSize = 7
  MaxE820 = 9
  Word = 1024
  Reports <- MCReports
  Low = 154
  MaxSupport = 320
  Fan = 16
  StructSize = 2
  VBase = 4096

SPECIFICATION Spec

INVARIANTS
  TypeOK
  MapSanitized
  PagesApart
  TablesMapped
  StructBacked
  NoHole
  HighMemoryUsed
