CONSTANTS
  Null = Null
  a = a
  b = b
  c = c
  Task = {a, b, c}
  Boot = a
  Period = 5
  Word = 1048576
  Garbage = {0, 3}
  Sleeps = {3, 5, 12}
  MaxMs = 20
  Prompt = TRUE

SPECIFICATION Spec

INVARIANTS
  TypeOK
  RingKept

PROPERTIES
  NoOvertaking
  SleepsInCompany
  Starts
  SleepEnds
