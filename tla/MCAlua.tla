------------------------------- MODULE MCAlua -------------------------------
(* An instance of Alua for TLC: int of 3 bits, lua_Integer of 6, a double  *)
(* with a mantissa of 4 bits.                                              *)
EXTENDS Alua

F(mod, fun, ty, val, ret) ==
    [via |-> "call", mod |-> mod, fun |-> fun, arg |-> ty, val |-> val, ret |-> ret]
Via(how, fun) ==
    [via |-> how, mod |-> "none", fun |-> fun, arg |-> "string", val |-> 1, ret |-> "void"]

MCCalls ==
    {F("table", TRUE, "int", -3, "int"), F("table", TRUE, "uint64", 13, "uint64"),
     F("table", TRUE, "int64", 31, "int64"), F("table", TRUE, "string", 1, "string"),
     F("none", TRUE, "bool", 1, "bool"), F("table", TRUE, "ptr", 2, "void"),
     F("table", TRUE, "vector", 0, "vector"), F("table", TRUE, "uint32", 7, "pair"),
     F("nil", TRUE, "int", 0, "void"), F("other", TRUE, "int", 0, "int"),
     F("table", FALSE, "int", 0, "string"),
     Via("require", TRUE), Via("loadfile", TRUE), Via("loadfile", FALSE)}
MCCFuns == {<<>>, <<"int">>, <<"string", "uint64">>}
MCLuaValues ==
    {[t |-> "nil", v |-> 0], [t |-> "integer", v |-> 4], [t |-> "float", v |-> 32],
     [t |-> "string", v |-> 2]}
MCLuaErrors ==
    {[t |-> "string", v |-> 2], [t |-> "integer", v |-> 4], [t |-> "table", v |-> 2]}
=============================================================================
