CONSTANTS
  a = a
  b = b
  c = c
  Threads = {a, b, c}
  Callbacks <- AllChoices
SPECIFICATION TDSpec
INVARIANTS StartRuns DeletedAtEnd
