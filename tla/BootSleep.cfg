CONSTANTS
  Null = Null
  a = a
  b = b
  c = c
  Task = {a}
  Boot = a
  Period = 5
  Word = 1048576
  Garbage = {0, 3}
  Sleeps = {10}
  MaxMs = 20
  Prompt = TRUE

SPECIFICATION Spec

PROPERTY SleepsAsAsked
