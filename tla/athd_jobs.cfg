CONSTANTS
  m = m
  w = w
  x = x
  s = s
  Threads = {m, w}
  Main = m
  Stoppers = {}
  Graceful = FALSE
  AappRun = FALSE
  PThreads <- MainAndWorker
  AllThreads <- MainAndWorker
  LuaThreads <- MainAndWorker
  Pool <- MainAndWorker
  Pushers = {m, w}
  PushFrom = {"start", "work", "done"}
  Ops = {"thread", "pool", "lua", "all"}
  Cids = {0, 3}
  MaxPush = 2
  NodeCapacity = 20
  JobCapacity = 2
SPECIFICATION Spec
INVARIANTS LegsExact BroadcastOrder
PROPERTY ContractSpec
