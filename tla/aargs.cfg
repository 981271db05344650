SPECIFICATION Spec
CONSTANTS
    Clients = {main, second}
    LuaThreads = {worker}
    Keys <- MCKeys
    Norm <- MCNorm
    Number <- MCNumber
    None = NoText
    NoText = NoText
    Stale = Moved
    Moved = Moved
    main = main
    second = second
    worker = worker
    Argv <- MCArgv
    Registers <- MCRegisters
    Sets <- MCSets
    LuaSets <- MCLuaSets
    Disk <- MCDisk
    MaxCalls = 4
SYMMETRY MCAlike
INVARIANTS VariablesInStep RoundTrip GetIsCurrent
PROPERTY LuaShowsLastWrite
