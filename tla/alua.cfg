SPECIFICATION Spec
CONSTANTS
    IntHalf = 4
    LongHalf = 32
    Mantissa = 16
    Calls <- MCCalls
    CFuns <- MCCFuns
    LuaValues <- MCLuaValues
    LuaErrors <- MCLuaErrors
    MaxCalls = 4
    MaxDepth = 5
INVARIANTS Balanced Blameless ErrorIsNoNumber EchoExact
