SPECIFICATION Spec
CONSTANTS
    Threads = {main, logic}
    Main = main
    main = main
    logic = logic
    player = player
    Nothing = Nothing
    Names <- MCNames
    Crc <- MCCrc
    Ready = "smsg_ready"
    Objects = {player}
    None = Nothing
    Finds <- MCFinds
    Listens = {"smsg_move", "smsg_twin"}
    Sends <- MCSends
    MaxCalls = 3
INVARIANTS OneOrder StaysPut CalledOnce ReadyAfterAll
PROPERTY ReadyArrives
