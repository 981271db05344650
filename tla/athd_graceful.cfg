CONSTANTS
  m = m
  w = w
  x = x
  s = s
  Threads = {m, w, x}
  Main = m
  Stoppers = {s}
  Graceful = TRUE
  AappRun = FALSE
  PThreads <- WorkersTwice
  AllThreads <- MainAndWorkers
  LuaThreads <- MainAndWorkers
  Pool <- TwoWorkers
  Pushers = {m}
  PushFrom = {"start"}
  Ops = {"pool"}
  Cids = {0}
  MaxPush = 2
  NodeCapacity = 3
  JobCapacity = 2
SPECIFICATION FairSpec
INVARIANTS OnlyRepeatsRejected DoneAtHome
PROPERTIES EveryJobEnds WaitstopsReturns
