CONSTANTS
  m = m
  w = w
  x = x
  s = s
  Threads = {m, w}
  Main = m
  Stoppers = {s}
  Graceful = FALSE
  AappRun = FALSE
  PThreads <- PoolTwice
  AllThreads <- MainAndWorker
  LuaThreads <- MainAndWorker
  Pool <- MainAndWorker
  Pushers = {m}
  PushFrom = {"start", "done"}
  Ops = {"thread", "lua"}
  Cids = {0}
  MaxPush = 2
  NodeCapacity = 20
  JobCapacity = 2
SPECIFICATION Spec
INVARIANTS CountsExact LossOnlyByRejection StopDrains
