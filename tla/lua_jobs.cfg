CONSTANTS
  MaxThreads = 3
  MaxPushes = 2
  MaxBoth = 7
  Creators = {1}
  PoolSizes = {2}
  PoolArray = 2
  Jobs <- MCJobs
SPECIFICATION FairSpec
INVARIANTS CallbackOfPush OwnFunction ResultsKept OneWriter
PROPERTY AllReturn
