------------------------------- MODULE MCAargs -------------------------------
(* An instance of Aargs for TLC: two keys, three ways to write them, used  *)
(* by two C++ threads and a Lua thread.                                    *)
EXTENDS Aargs, TLC

CONSTANTS main, second, worker, NoText, Moved

MCKeys == {"port", "name"}
MCNorm == [s \in {"port", "name", "--Port"} |-> IF s = "name" THEN s ELSE "port"]

\* stoll reads "7,8", a vector of ints, as 7.
MCNumber == [t \in {"7", "1", "7,8", "true", "false", "abc", "-h", "--port=7"} |->
               CASE t \in {"7", "7,8"} -> "7" [] t = "1" -> t [] OTHER -> NoText]

Eq(w, k, t) == [whole |-> w, eq |-> TRUE, key |-> k, text |-> t]
Word(w, k)  == [whole |-> w, eq |-> FALSE, key |-> k, text |-> w]
W(k, n, t)  == [key |-> k, kind |-> n, text |-> t]

MCArgv ==
    {<<Eq("--port=7", "--Port", "7"), Word("-h", "name")>>,
     <<Word("abc", "name"), Eq("--port=7", "port", "7"), Word("abc", "name")>>}
MCRegisters ==
    {W("port", "int", "1"), W("name", "str", "abc"), W("port", "bool", "true"),
     W("port", "ints", "7,8")}
MCSets    == {W("port", "int", "7"), W("name", "str", "true"), W("port", "bools", "true"),
              W("port", "ints", "1"), W("name", "ints", "7")}
MCLuaSets == {W("--Port", "int", "7"), W("port", "bool", "false"), W("name", "other", "7,8")}
MCDisk    == [f \in {"runargs.txt", "args.txt"} |->
                IF f = "args.txt" THEN NoText
                ELSE <<[key |-> "port", text |-> "1"], [key |-> "name", text |-> "true"]>>]

\* The two threads are alike, and no property tells them apart.
MCAlike == Permutations({main, second})
=============================================================================
