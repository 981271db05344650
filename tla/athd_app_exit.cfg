CONSTANTS
  m = m
  w = w
  x = x
  s = s
  Threads = {m, w}
  Main = m
  Stoppers = {s}
  Graceful = FALSE
  AappRun = TRUE
  PThreads <- MainAndWorker
  AllThreads <- MainAndWorker
  LuaThreads <- MainAndWorker
  Pool <- MainAndWorker
  Pushers = {m}
  PushFrom = {"start"}
  Ops = {"thread"}
  Cids = {0}
  MaxPush = 1
  NodeCapacity = 20
  JobCapacity = 1
SPECIFICATION Spec
INVARIANT NoNullCall
