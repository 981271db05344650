CONSTANTS
  a = a
  b = b
  sys = sys
  lua = lua
  none = none
  Printers = {a, b}
  Files = {sys, lua}
  Sys = sys
  Levels = {"info", "error"}
  None = none
  DayHours = 2
  MaxPrints = 2
  MaxClock = 3
  MainStops = TRUE
SPECIFICATION FairSpec
INVARIANTS InOrder NothingLost RightFile
PROPERTY StopReturns
