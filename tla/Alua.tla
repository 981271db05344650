-------------------------------- MODULE Alua --------------------------------
(***************************************************************************)
(* alua: the calls between C++ and one Lua state, and what they leave on   *)
(* its stack.  `frames' holds the functions under way: at the bottom the   *)
(* C++ code of the thread; above it, by turns, a Lua function that C++     *)
(* called with lua_pcall and a C function that this one called.  A Lua     *)
(* function may return, raise an error or call a C function at any time.   *)
(* An error ends everything up to the last Lua function; without one below *)
(* it, Lua's panic function ends the process.                              *)
(*                                                                         *)
(* Abstractions.  A Lua value is its type and a number; the text that      *)
(* debug.traceback makes of an error is the string 0, and no string reads  *)
(* as a number.  A file returns one value at most.  Calls from a coroutine *)
(* are left out, and so are the stack's own limit and what Lua functions   *)
(* keep on their part of the stack.  MaxCalls and MaxDepth bound the       *)
(* calls.                                                                  *)
(***************************************************************************)
EXTENDS Integers, Sequences, FiniteSets

CONSTANTS
    IntHalf,    \* an int is at least -IntHalf and less than IntHalf
    LongHalf,   \* so is a lua_Integer
    Mantissa,   \* a double holds every integer up to it
    Calls,      \* calls of C++ code: [via, mod, fun, arg, val, ret]
    CFuns,      \* C functions: the types of their parameters
    LuaValues,  \* what Lua functions pass and return
    LuaErrors,  \* what they raise
    MaxCalls, MaxDepth

Numbers  == {"int", "uint32", "int64", "uint64"}
Types    == Numbers \cup {"bool", "string", "ptr", "vector"}
Results  == Types \cup {"void", "pair"}
LuaTypes == {"nil", "bool", "integer", "float", "string", "table", "light", "function"}
Value    == [t : LuaTypes, v : Int]
Call     == [via : {"call", "require", "loadfile"}, mod : {"table", "none", "nil", "other"},
             fun : BOOLEAN, arg : Types, val : Int, ret : Results]
Frame    == [kind : {"cpp", "lua", "c"}, at : {"run", "enter", "pcall", "back"},
             stack : Seq(Value), base : Nat, top : Nat, files : Nat, failed : BOOLEAN,
             echo : BOOLEAN, call : Call, got : Int, fun : CFuns]

\* The values of a type that C++ code can pass.
Width(ty) == IF ty \in {"int", "uint32"} THEN IntHalf ELSE LongHalf
Span(ty) ==
    CASE ty \in {"int", "int64"} -> -Width(ty) .. Width(ty) - 1
      [] ty \in {"uint32", "uint64"} -> 0 .. 2 * Width(ty) - 1
      [] ty = "bool" -> {0, 1}
      [] OTHER -> Nat

ASSUME WidthsAssumption ==
    {IntHalf, LongHalf, Mantissa, MaxCalls, MaxDepth} \subseteq Nat \ {0}
ASSUME CallsAssumption ==
    /\ Calls \subseteq Call /\ Calls # {}
    /\ \A c \in Calls :
          /\ c.via # "call" => c.mod = "none" /\ c.ret = "void"
          /\ c.via = "require" => c.fun
          /\ c.val \in Span(c.arg)
    /\ CFuns \subseteq Seq(Types) /\ CFuns # {}
    /\ LuaValues \subseteq Value /\ LuaErrors \subseteq Value

VARIABLES
    frames,
    fault,      \* "panic" or "undefined" when the program has come to an end
    calls

vars == <<frames, fault, calls>>

TypeOK ==
    /\ frames \in Seq(Frame) /\ frames # <<>>
    /\ \A i \in 1 .. Len(frames) :
          frames[i].at = "run" /\ frames[i].call.ret \in {"int", "pair"} =>
             frames[i].got \in Span("int")
    /\ fault \in {"none", "panic", "undefined"}
    /\ calls \in 0 .. MaxCalls

Top == frames[Len(frames)]

-----------------------------------------------------------------------------
(* pusher and popper.                                                      *)

Nil       == [t |-> "nil", v |-> 0]
ErrorText == [t |-> "string", v |-> 0]   \* made by debug.traceback or luaL_error

\* What is left of an integer in a double: beyond the mantissa the nearest multiple of
\* a power of two, the even one of two.
Abs(n) == IF n < 0 THEN -n ELSE n
Rounded(n) ==
    LET k    == CHOOSE i \in 1 .. LongHalf :
                   /\ Abs(n) <= Mantissa * 2^i
                   /\ Abs(n) > Mantissa * 2^(i - 1)
        q    == 2^k
        down == (n \div q) * q
        rest == n - down
    IN IF 2 * rest < q \/ (2 * rest = q /\ (n \div q) % 2 = 0) THEN down ELSE down + q
Double(n) == IF Abs(n) <= Mantissa THEN n ELSE Rounded(n)

\* Only int is pushed as an integer; a vector or a map becomes a table.
MutantPush(ty, v) == [t |-> IF ty = "string" THEN ty ELSE "float", v |-> 2 * (v \div 2)]
Push(ty, v) ==
    CASE ty = "int" -> [t |-> "integer", v |-> v]
      [] ty \in Numbers \ {"int"} -> [t |-> "float", v |-> Double(v)]
      [] ty = "bool" -> [t |-> "bool", v |-> v]
      [] ty = "string" -> [t |-> "string", v |-> v]
      [] ty = "ptr" -> [t |-> "light", v |-> v]
      [] ty = "vector" -> [t |-> "table", v |-> v]

\* luaL_checkinteger: the value is in the range of lua_Integer.
IsInteger(x) ==
    /\ x.t \in {"integer", "float"}
    /\ x.v \in -LongHalf .. LongHalf - 1

\* Does lua_tostring make a text of it?
IsText(x) == x.t \in {"string", "integer", "float"}

\* Does popper find the type it wants?  bool and ptr take anything.
Accepts(ty, x) ==
    \/ ty \in {"bool", "ptr"}
    \/ ty \in Numbers /\ IsInteger(x)
    \/ ty = "string" /\ IsText(x)
    \/ ty = "vector" /\ x.t = "table"

\* The number that the width of a type keeps of v.
Unsigned(v, half) == v % (2 * half)
Signed(v, half) ==
    IF Unsigned(v, half) < half THEN Unsigned(v, half) ELSE Unsigned(v, half) - 2 * half

Pop(ty, x) ==
    CASE ty = "int" -> Signed(x.v, IntHalf)
      [] ty = "uint32" -> Unsigned(x.v, IntHalf)
      [] ty = "uint64" -> Unsigned(x.v, LongHalf)
      [] ty = "bool" -> IF x.t = "nil" \/ (x.t = "bool" /\ x.v = 0) THEN 0 ELSE 1
      [] ty = "ptr" -> IF x.t = "light" THEN x.v ELSE 0
      [] OTHER -> x.v

-----------------------------------------------------------------------------
(* Errors.                                                                 *)

\* The Lua functions under way, each called with lua_pcall.
Protected == {i \in 2 .. Len(frames) : frames[i].kind = "lua"}

\* The frame that lua_pcall was called from gets values, or what is left of an error.
Back(f, values, failed) ==
    [f EXCEPT !.at = "back",
              !.stack = SubSeq(@, 1, f.base + 2) \o values,
              !.failed = failed,
              !.echo = FALSE]

\* debug.traceback makes a text of an error that is a text or nil, and leaves every
\* other as it is; a file runs without it.
MutantFound(c, x) == x
Found(c, x) ==
    IF c.via # "loadfile" /\ (IsText(x) \/ x.t = "nil") THEN ErrorText ELSE x

\* luaL_error, or a Lua function's error.
Raise(x) ==
    IF Protected = {} THEN fault' = "panic" /\ frames' = frames
    ELSE LET last == CHOOSE i \in Protected : \A j \in Protected : j <= i
         IN /\ frames' = [SubSeq(frames, 1, last - 1) EXCEPT
                             ![last - 1] = Back(@, <<Found(@.call, x)>>, TRUE)]
            /\ UNCHANGED fault

-----------------------------------------------------------------------------
(* C++ calls Lua: lua_caller and free_caller, alua_require, alua_loadfile. *)

NewFrame(kind, at, stack, c, f) ==
    [kind |-> kind, at |-> at, stack |-> stack, base |-> 0, top |-> Len(stack),
     files |-> 0, failed |-> FALSE, echo |-> FALSE, call |-> c, got |-> 0, fun |-> f]

\* debug, debug.traceback, the function and the argument.
Debug     == [t |-> "table", v |-> 1]
Traceback == [t |-> "function", v |-> 1]
Pushed(f, c) ==
    [f EXCEPT !.at = "pcall",
              !.base = Len(f.stack),
              !.stack = @ \o <<Debug, Traceback,
                               [t |-> IF c.fun THEN "function" ELSE "nil", v |-> 0],
                               Push(c.arg, c.val)>>,
              !.call = c]

Begin ==
    /\ fault = "none"
    /\ Top.kind # "lua" /\ Top.at = "run"
    /\ calls < MaxCalls /\ Len(frames) < MaxDepth
    /\ calls' = calls + 1

\* The module is missing or is no table: an error outside lua_pcall.
NoModule(c) ==
    /\ Begin
    /\ c.mod \in {"nil", "other"}
    /\ Raise(ErrorText)

\* What is not a function is called all the same.
NoFunction(c) ==
    /\ Begin
    /\ c.mod \in {"table", "none"} /\ ~c.fun
    /\ frames' = [frames EXCEPT ![Len(frames)] = Back(Pushed(@, c), <<ErrorText>>, TRUE)]
    /\ UNCHANGED fault

CallLua(c) ==
    /\ Begin
    /\ c.mod \in {"table", "none"} /\ c.fun
    /\ frames' = Append([frames EXCEPT ![Len(frames)] = Pushed(@, c)],
                        NewFrame("lua", "run", <<>>, c, CHOOSE f \in CFuns : TRUE))
    /\ UNCHANGED fault

InLua == fault = "none" /\ Top.kind = "lua"

Wanted(c) == CASE c.ret = "void" -> 0 [] c.ret = "pair" -> 2 [] OTHER -> 1

\* lua_pcall returns as many values as are wanted, all of them for a file.
Adjusted(c, values) ==
    IF c.via = "loadfile" THEN values
    ELSE [i \in 1 .. Wanted(c) |-> IF i <= Len(values) THEN values[i] ELSE Nil]

Return(values, echo) ==
    LET host == frames[Len(frames) - 1] IN
    /\ InLua
    /\ frames' = Append(SubSeq(frames, 1, Len(frames) - 2),
                        [Back(host, Adjusted(host.call, values), FALSE) EXCEPT !.echo = echo])
    /\ UNCHANGED <<fault, calls>>

LuaReturns == \E values \in {<<>>} \cup {<<x>> : x \in LuaValues} : Return(values, FALSE)

\* The function returns what it was called with.
LuaEchoes == Return(<<Push(Top.call.arg, Top.call.val)>>, TRUE)

LuaRaises ==
    /\ InLua
    /\ \E x \in LuaErrors : Raise(x)
    /\ UNCHANGED calls

\* lua_settop(base); what loadfile has left stays.
MutantSettled(f) ==
    IF f.failed THEN f.stack ELSE SubSeq(f.stack, 1, f.base)
Settled(f) ==
    IF f.call.via = "loadfile" THEN f.stack ELSE SubSeq(f.stack, 1, f.base)

\* The places of the stack that popper reads, the last ones.
Read(f) ==
    LET n == Len(f.stack) IN
    [i \in 1 .. Wanted(f.call) |-> f.stack[n - Wanted(f.call) + i]]

ElementType(c) == IF c.ret = "pair" THEN "int" ELSE c.ret

\* With a negative index popper<vector> goes to lua_next with the key for the table;
\* loadfile prints a null pointer for an error without a text.
Undefined(f) ==
    \/ f.call.ret = "vector"
    \/ f.call.via = "loadfile" /\ f.failed /\ ~IsText(f.stack[Len(f.stack)])

\* The caller takes the result, which after an error is what is left of that.
TakeResult ==
    LET f    == Top
        good == \A i \in 1 .. Wanted(f.call) : Accepts(ElementType(f.call), Read(f)[i])
    IN
    /\ fault = "none" /\ f.at = "back"
    /\ \/ ~good /\ Raise(ErrorText)
       \/ good /\ Undefined(f) /\ fault' = "undefined" /\ UNCHANGED frames
       \/ /\ good /\ ~Undefined(f)
          /\ frames' = [frames EXCEPT ![Len(frames)] =
                [f EXCEPT !.at = "run",
                          !.stack = Settled(f),
                          !.files = IF f.call.via = "loadfile" THEN @ + 1 ELSE @,
                          !.got = IF Wanted(f.call) = 0 THEN 0
                                  ELSE Pop(ElementType(f.call), Read(f)[1])]]
          /\ UNCHANGED fault
    /\ UNCHANGED calls

-----------------------------------------------------------------------------
(* Lua calls C++: lua_to_c_wrapper.                                        *)

LuaCallsC(f, args) ==
    /\ InLua /\ Len(frames) < MaxDepth
    /\ calls < MaxCalls /\ calls' = calls + 1
    /\ frames' = Append(frames, NewFrame("c", "enter", args, Top.call, f))
    /\ UNCHANGED fault

\* Exactly the parameters, each of its type.
Fits(f) ==
    /\ Len(f.stack) = Len(f.fun)
    /\ \A i \in 1 .. Len(f.fun) : Accepts(f.fun[i], f.stack[i])

TakeArgs ==
    /\ fault = "none" /\ Top.at = "enter"
    /\ \/ ~Fits(Top) /\ Raise(ErrorText)
       \/ /\ Fits(Top)
          /\ frames' = [frames EXCEPT ![Len(frames)].at = "run"]
          /\ UNCHANGED fault
    /\ UNCHANGED calls

InC == fault = "none" /\ Top.kind = "c" /\ Top.at = "run"

\* ret_helper; the Lua function goes on.
CReturns ==
    /\ InC
    /\ frames' = SubSeq(frames, 1, Len(frames) - 1)
    /\ UNCHANGED <<fault, calls>>

\* An exception of C++ becomes an error of Lua.
MutantUncaught ==
    /\ InC
    /\ fault' = "panic"
    /\ UNCHANGED <<frames, calls>>
CThrows ==
    /\ InC
    /\ Raise(ErrorText)
    /\ UNCHANGED calls

\* The process has ended, or C++ makes no more calls.
Over ==
    /\ fault # "none" \/ (Len(frames) = 1 /\ Top.at = "run" /\ calls = MaxCalls)
    /\ UNCHANGED vars

Init ==
    /\ frames = <<NewFrame("cpp", "run", <<>>, CHOOSE c \in Calls : TRUE,
                           CHOOSE f \in CFuns : TRUE)>>
    /\ fault = "none"
    /\ calls = 0

Next ==
    \/ \E c \in Calls : NoModule(c) \/ NoFunction(c) \/ CallLua(c)
    \/ LuaReturns \/ LuaEchoes \/ LuaRaises
    \/ \E f \in CFuns, n \in 0 .. 2 : \E args \in [1 .. n -> LuaValues] : LuaCallsC(f, args)
    \/ TakeResult
    \/ TakeArgs \/ CReturns \/ CThrows
    \/ Over

Spec == Init /\ [][Next]_vars

-----------------------------------------------------------------------------
\* C++ code finds Lua's stack as high as before a call, however the call ended and
\* whatever was called inside it, but for loadfile: each file that it has run has left
\* debug, debug.traceback and its value or its error, for as long as the code runs.
Balanced ==
    \A i \in 1 .. Len(frames) :
       LET f == frames[i] IN
       f.kind # "lua" /\ f.at = "run" =>
          Len(f.stack) \in f.top + 2 * f.files .. f.top + 3 * f.files

\* No error of Lua, no wrong argument and no exception ends the process as long as a Lua
\* function is under way.  At the bottom a missing module does, and so does a result, or
\* what is left of an error, that is not of the type wanted; a vector as a result and
\* the error of a file that is no text are undefined wherever they are read.
Blameless ==
    /\ fault = "panic" =>
          /\ Protected = {}
          /\ \/ Top.at = "run"
             \/ /\ Top.at = "back" /\ Top.call.ret \notin {"void", "bool", "ptr"}
                /\ Top.call.ret = "string" => ~IsText(Top.stack[Len(Top.stack)])
    /\ fault = "undefined" => Top.at = "back" /\ Undefined(Top)

\* An error is never taken for a number (but a string takes its text, and TRUE and a
\* pointer take anything).
ErrorIsNoNumber ==
    \A i \in 1 .. Len(frames) :
       frames[i].kind # "lua" /\ frames[i].at = "run" /\ frames[i].failed =>
          frames[i].call.ret \in {"void", "bool", "string", "ptr"}

\* A value that goes to Lua and back is the same, if it is a number that a double
\* holds.
EchoExact ==
    \A i \in 1 .. Len(frames) :
       LET c == frames[i].call IN
       /\ frames[i].at = "run" /\ frames[i].echo
       /\ c.ret = c.arg /\ Abs(c.val) <= Mantissa
       => frames[i].got = c.val
=============================================================================
