CONSTANTS
  a = a
  b = b
  Threads = {a, b}
  Epoch = 1
  TsSize = 8
  MachineSize = 2
  Machine = 1
  SeqSize = 2
  MaxWait = 1
  PerMs = 9
  MaxCalls = 5
  MaxClock = 3
  Backs = 2
SPECIFICATION Spec
INVARIANTS Increasing RoundUnique NeverFails
