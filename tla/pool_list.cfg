CONSTANTS
  a = a
  b = b
  c = c
  Procs = {a, b, c}
  Capacity = 3
SPECIFICATION Spec
INVARIANTS Linked NoLostWakeup
PROPERTY PoolSpec
