-------------------------------- MODULE Aargs --------------------------------
(***************************************************************************)
(* aargs: one container of parameters (the run arger) that C++ threads use *)
(* through the class arger of aargs.h and Lua threads through aargs.lua.   *)
(*                                                                         *)
(* A parameter has a kind, and the container a map for each kind.  A value *)
(* is represented by the text that save() writes for it.  Each single      *)
(* write and each read under buf_mtx_ is one step; parse() and load() are  *)
(* a step per argument or line, between which other calls come in.  save() *)
(* and the copy to a Lua table go over the maps without the mutex: from    *)
(* its beginning to its end any write makes a data race, which `raced'     *)
(* records.  Registration is done while no other call is under way.        *)
(*                                                                         *)
(* Left out: the wording of remarks, and files that cannot be written.     *)
(* Vectors of strings cannot be set in C++ (aargs_setvs is declared,       *)
(* aargs_set_vstr defined).  MaxCalls bounds the calls.                    *)
(***************************************************************************)
EXTENDS Naturals, FiniteSets, Sequences

CONSTANTS
    Clients,    \* C++ threads
    LuaThreads, \* threads with a lua_State
    Keys,       \* keys as normalize() leaves them
    Norm,       \* what normalize() makes of each way to write a key
    Number,     \* what stoll reads at the start of each text, or None
    None,
    Stale,      \* what is read where a string or a buffer is being overwritten
    Argv,       \* command lines, without the program's name
    Registers,  \* registrations
    Sets,       \* calls of set() in C++
    LuaSets,    \* calls of set() in Lua, of kind "other" if not supported
    Disk,       \* the files at the beginning, None for one that does not exist
    MaxCalls

Spellings == DOMAIN Norm
Texts     == DOMAIN Number
Procs     == Clients \cup LuaThreads
Order     == <<"int", "bool", "str", "ints", "bools", "strs">>
Kinds     == {Order[i] : i \in 1 .. 6}
Scalars   == {"int", "bool", "str"}
Vectors   == {"ints", "bools", "strs"}
MaybeText == Texts \cup {None}
Value     == {v \in [kind : Kinds, text : Texts] :
                /\ v.kind = "int" => Number[v.text] = v.text
                /\ v.kind = "bool" => v.text \in {"true", "false"}}
Write     == {w \in [key : Spellings, kind : Kinds, text : Texts] :
                [kind |-> w.kind, text |-> w.text] \in Value}
Line      == [key : Spellings, text : Texts]
Arg       == [whole : Texts, eq : BOOLEAN, key : Spellings, text : Texts]

ASSUME KeysAssumption ==
    /\ IsFiniteSet(Keys) /\ Keys \subseteq Spellings
    /\ \A s \in Spellings : Norm[s] \in Keys
ASSUME TextsAssumption ==
    /\ None \notin Texts /\ Stale \notin MaybeText
    /\ {"true", "false"} \subseteq Texts
    /\ \A t \in {"true", "false"} : Number[t] = None
    /\ \A t \in Texts : Number[t] # None => Number[t] \in Texts /\ Number[Number[t]] = Number[t]
ASSUME CallsAssumption ==
    /\ Clients \cap LuaThreads = {} /\ MaxCalls \in Nat
    /\ Argv \subseteq Seq(Arg)
    /\ Registers \subseteq Write /\ Sets \subseteq Write
    /\ LuaSets \subseteq [key : Spellings, kind : Scalars \cup {"other"}, text : Texts]
    /\ \A w \in LuaSets : w.kind # "other" => w \in Write
    /\ "args.txt" \in DOMAIN Disk
    /\ Disk \in [DOMAIN Disk -> Seq(Line) \cup {None}]

VARIABLES
    val,        \* i64_, b_, s_, vi64_, vb_, vs_
    remark,     \* the keys of remark_
    var,        \* what the variable last registered for a kind and key shows
    buf,        \* buf_vi64_, buf_vb_, buf_vs_
    file,       \* the files
    pc,
    todo,       \* what parse and load have still to go through
    name,       \* the file that load or save was called with
    want,       \* the parameter of a get, and the value it has in hand
    seen,       \* history: the values of that parameter since the get
    lua,        \* the arger table of each Lua state
    last,       \* history: the value last written to a key, of any kind
    raced,
    crowded,    \* history: the gets whose buffer another get has filled since
    calls

cont == <<val, var, want, seen, last, raced, crowded>>
vars == <<cont, remark, buf, file, pc, todo, name, lua, calls>>

\* Every variable has its type: the maps hold values of their kind only.
TypeOK ==
    /\ val \in [Kinds -> [Keys -> MaybeText]]
    /\ \A kind \in Kinds, k \in Keys :
          val[kind][k] = None \/ [kind |-> kind, text |-> val[kind][k]] \in Value
    /\ remark \subseteq Keys
    /\ var \in [Kinds -> [Keys -> MaybeText \cup {Stale}]]
    /\ buf \in [Vectors -> MaybeText]
    /\ file \in [DOMAIN Disk -> Seq(Line) \cup {None}]
    /\ pc \in [Procs -> {"out", "parse", "load", "open", "save", "tolua", "read", "got"}]
    /\ todo \in [Procs -> Seq(Line) \cup Seq(Arg)]
    /\ \A p \in Procs : (pc[p] = "load" => todo[p] \in Seq(Line))
                     /\ (pc[p] = "parse" => todo[p] \in Seq(Arg))
    /\ name \in [Procs -> DOMAIN Disk]
    /\ want \in [Procs -> [kind : Kinds, key : Keys \cup {None}, text : MaybeText \cup {Stale}]]
    /\ \A p \in Procs : pc[p] = "read" => want[p].key \in Keys
    /\ seen \in [Procs -> SUBSET MaybeText]
    /\ lua \in [LuaThreads -> [Spellings -> MaybeText]]
    /\ last \in [Keys -> MaybeText]
    /\ raced \in BOOLEAN
    /\ crowded \subseteq Procs
    /\ calls \in 0 .. MaxCalls

\* arger_impl.
Init ==
    /\ val = [kind \in Kinds |-> [k \in Keys |-> None]]
    /\ remark = {}
    /\ var = val
    /\ buf = [kind \in Vectors |-> None]
    /\ file = Disk
    /\ pc = [p \in Procs |-> "out"]
    /\ todo = [p \in Procs |-> <<>>]
    /\ name = [p \in Procs |-> "args.txt"]
    /\ want = [p \in Procs |-> [kind |-> "int", key |-> None, text |-> None]]
    /\ seen = [p \in Procs |-> {}]
    /\ lua = [t \in LuaThreads |-> [s \in Spellings |-> None]]
    /\ last = [k \in Keys |-> None]
    /\ raced = FALSE
    /\ crowded = {}
    /\ calls = 0

Goto(p, point) == pc' = [pc EXCEPT ![p] = point]

Call(p, point) ==
    /\ pc[p] = "out"
    /\ calls < MaxCalls
    /\ calls' = calls + 1
    /\ Goto(p, point)

-----------------------------------------------------------------------------
(* Reading a text and writing a value.                                     *)

\* normalize: no dashes, lower case.
Normalize(s) == Norm[s]

\* What parse and load take a text for; the test for "1" and "0" is behind stoll.
Truth(t) == IF t \in {"true", "1"} THEN "true" ELSE "false"
ReadText(t) ==
    IF Number[t] # None THEN [kind |-> "int", text |-> Number[t]]
    ELSE IF t \in {"true", "false", "1", "0"} THEN [kind |-> "bool", text |-> Truth(t)]
    ELSE [kind |-> "str", text |-> t]

\* Does a write reach the variable that is registered?  An int or a bool is
\* assigned to; a const char* keeps pointing to where the string was; for a
\* vector the variable is the caller's own default.
MutantOnlyInts(kind, k) == kind = "int" /\ var[kind][k] # None
Reaches(kind, k)        == kind \in Scalars /\ var[kind][k] \notin {None, Stale}

Iterating(p) == \E q \in Procs \ {p} : pc[q] \in {"save", "tolua"}
Getting(q, kind, k) == pc[q] = "read" /\ want[q].kind = kind /\ want[q].key = k

\* write_all under buf_mtx_; a string that does not fit moves, one that fits may be
\* torn for a get that is copying it.  With `bind' the variable is the one that is
\* being registered.
WriteAll(p, kind, k, t, bind) ==
    \E moved, torn \in BOOLEAN :
       /\ moved \/ torn => kind = "str" /\ val[kind][k] \notin {None, t}
       /\ val' = [val EXCEPT ![kind][k] = t]
       /\ var' = IF bind THEN [var EXCEPT ![kind][k] = t]
                 ELSE IF Reaches(kind, k)
                 THEN [var EXCEPT ![kind][k] = IF moved THEN Stale ELSE t]
                 ELSE var
       /\ want' = [q \in Procs |->
                     IF Getting(q, kind, k) /\ kind = "str" /\ want[q].text \notin {None, Stale}
                     THEN [want[q] EXCEPT !.text = IF moved \/ torn THEN Stale ELSE t]
                     ELSE want[q]]
       /\ seen' = [q \in Procs |->
                     IF Getting(q, kind, k) THEN seen[q] \cup {t} ELSE seen[q]]
       /\ last' = [last EXCEPT ![k] = t]
       /\ raced' = (raced \/ Iterating(p))
       /\ UNCHANGED crowded

-----------------------------------------------------------------------------
(* The class arger.                                                        *)

\* aargs_regi, regb, regs; aargs_regvi, regvb, regvs.
RegScalar(c, r, bind) ==
    r.kind \in Scalars /\ WriteAll(c, r.kind, Normalize(r.key), r.text, bind)
RegVector(c, r, bind) ==
    r.kind \in Vectors /\ WriteAll(c, r.kind, Normalize(r.key), r.text, bind)

\* reg(): the default overwrites what the key had.
Reg(c, r, bind) ==
    /\ \A p \in Procs : pc[p] = "out"
    /\ Call(c, "out")
    /\ remark' = remark \cup {Normalize(r.key)}
    /\ RegScalar(c, r, bind) \/ RegVector(c, r, bind)
    /\ UNCHANGED <<buf, file, todo, name, lua>>

\* aargs_seti, setb, sets; aargs_setvi, setvb.
SetScalar(c, w) ==
    w.kind \in Scalars /\ WriteAll(c, w.kind, Normalize(w.key), w.text, FALSE)
SetVector(c, w) ==
    w.kind \in Vectors /\ WriteAll(c, w.kind, Normalize(w.key), w.text, FALSE)

SetParam(c, w) ==
    /\ w.kind # "strs"
    /\ Call(c, "out")
    /\ SetScalar(c, w) \/ SetVector(c, w)
    /\ UNCHANGED <<remark, buf, file, todo, name, lua>>

\* aargs_geti and getb return the value, gets a pointer to the string itself.
GetScalar(c, kind, k) ==
    /\ kind \in Scalars
    /\ UNCHANGED buf

\* The others copy the vector to a buffer that all calls of that kind share, and
\* which their callers then read without the mutex.
MutantFillOnce(kind, t) == IF buf[kind] = None THEN t ELSE buf[kind]
Filled(kind, t)         == t

GetVector(c, kind, k) ==
    /\ kind \in Vectors
    /\ buf' = IF val[kind][k] = None THEN buf
              ELSE [buf EXCEPT ![kind] = Filled(kind, val[kind][k])]

Reading(kind) == {q \in Procs : pc[q] = "read" /\ want[q].kind = kind}

\* The part of a get() that holds the mutex.
GetLocked(c, kind, s) ==
    LET k == Normalize(s) IN
    /\ Call(c, "read")
    /\ GetScalar(c, kind, k) \/ GetVector(c, kind, k)
    /\ want' = [want EXCEPT ![c] = [kind |-> kind, key |-> k, text |-> val[kind][k]]]
    /\ seen' = [seen EXCEPT ![c] = {val[kind][k]}]
    /\ crowded' = (crowded \ {c}) \cup
                     (IF kind \in Vectors /\ val[kind][k] # None THEN Reading(kind) ELSE {})
    /\ UNCHANGED <<val, var, last, raced, remark, file, todo, name, lua>>

\* What get() may then copy and return: of a buffer that another get fills meanwhile,
\* anything.  The elements of a vector<bool> are asked for one by one with
\* aargs_getb, that is, they are the bool of that key.
Results(c, kind, k, held) ==
    CASE held = None \/ kind \in Scalars -> {held}
      [] held # None /\ kind \in {"ints", "strs"} ->
            {buf[kind]} \cup (IF c \in crowded THEN {Stale} ELSE {})
      [] held # None /\ kind = "bools" ->
            {IF val["bool"][k] = None THEN "false" ELSE val["bool"][k]}

GetCopy(c) ==
    /\ pc[c] = "read"
    /\ Goto(c, "got")
    /\ \E r \in Results(c, want[c].kind, want[c].key, want[c].text) :
          want' = [want EXCEPT ![c].text = r]
    /\ UNCHANGED <<val, var, seen, last, raced, crowded, remark, buf, file, todo, name, lua, calls>>

GetReturns(c) ==
    /\ pc[c] = "got"
    /\ Goto(c, "out")
    /\ want' = [want EXCEPT ![c] = [kind |-> "int", key |-> None, text |-> None]]
    /\ seen' = [seen EXCEPT ![c] = {}]
    /\ crowded' = crowded \ {c}
    /\ UNCHANGED <<val, var, last, raced, remark, buf, file, todo, name, lua, calls>>

-----------------------------------------------------------------------------
(* aargs_parse.                                                            *)

Parse(c, argv) ==
    /\ Call(c, "parse")
    /\ todo' = [todo EXCEPT ![c] = argv]
    /\ UNCHANGED <<cont, remark, buf, file, name, lua>>

IsHelp(a) == a.whole \in {"-h", "--help"}

\* -h saves to args.txt; what follows it is not looked at.
ParseHelp(c) ==
    /\ pc[c] = "parse" /\ todo[c] # <<>> /\ IsHelp(Head(todo[c]))
    /\ Goto(c, "open")
    /\ name' = [name EXCEPT ![c] = "args.txt"]
    /\ todo' = [todo EXCEPT ![c] = <<>>]
    /\ UNCHANGED <<cont, remark, buf, file, lua, calls>>

\* key=value, or a word that takes the next argument for its value.
ParseArg(c) ==
    LET a     == Head(todo[c])
        taken == IF a.eq THEN 1 ELSE 2
        v     == ReadText(IF a.eq THEN a.text ELSE todo[c][2].whole)
    IN
    /\ pc[c] = "parse" /\ Len(todo[c]) >= taken /\ todo[c] # <<>> /\ ~IsHelp(a)
    /\ WriteAll(c, v.kind, Normalize(a.key), v.text, FALSE)
    /\ todo' = [todo EXCEPT ![c] = SubSeq(@, taken + 1, Len(@))]
    /\ UNCHANGED <<remark, buf, file, pc, name, lua, calls>>

\* A word in the last place has no value and is dropped.
ParseEnd(c) ==
    /\ pc[c] = "parse"
    /\ todo[c] = <<>> \/ (Len(todo[c]) = 1 /\ ~IsHelp(todo[c][1]) /\ ~todo[c][1].eq)
    /\ Goto(c, "out")
    /\ todo' = [todo EXCEPT ![c] = <<>>]
    /\ UNCHANGED <<cont, remark, buf, file, name, lua, calls>>

-----------------------------------------------------------------------------
(* aargs_load and aargs_save.                                              *)

\* A file that does not exist is made instead.
Load(p, f) ==
    /\ Call(p, IF file[f] = None THEN "open" ELSE "load")
    /\ todo' = [todo EXCEPT ![p] = IF file[f] = None THEN <<>> ELSE file[f]]
    /\ name' = [name EXCEPT ![p] = f]
    /\ UNCHANGED <<cont, remark, buf, file, lua>>

LoadLine(p) ==
    LET v == ReadText(Head(todo[p]).text) IN
    /\ pc[p] = "load" /\ todo[p] # <<>>
    /\ WriteAll(p, v.kind, Normalize(Head(todo[p]).key), v.text, FALSE)
    /\ todo' = [todo EXCEPT ![p] = Tail(@)]
    /\ UNCHANGED <<remark, buf, file, pc, name, lua, calls>>

\* lua_load goes on to copy the maps to the table.
Return(p) == Goto(p, IF p \in LuaThreads THEN "tolua" ELSE "out")

LoadEnd(p) ==
    /\ pc[p] = "load" /\ todo[p] = <<>>
    /\ Return(p)
    /\ UNCHANGED <<cont, remark, buf, file, todo, name, lua, calls>>

Save(c, f) ==
    /\ Call(c, "open")
    /\ name' = [name EXCEPT ![c] = f]
    /\ UNCHANGED <<cont, remark, buf, file, todo, lua>>

\* The ofstream empties the file.
SaveOpen(p) ==
    /\ pc[p] = "open"
    /\ file' = [file EXCEPT ![name[p]] = <<>>]
    /\ Goto(p, "save")
    /\ UNCHANGED <<cont, remark, buf, todo, name, lua, calls>>

\* Of several values of a key the first kind that has one is saved.
Has(k)       == {i \in 1 .. 6 : val[Order[i]][k] # None}
SavedKind(k) == Order[CHOOSE i \in Has(k) : \A j \in Has(k) : i <= j]

MutantRender(kind, t) ==
    IF kind = "bool" THEN (IF t = "true" THEN "1" ELSE "0") ELSE t
Render(kind, t) == t

\* The keys of remark_ come in any order.
SaveWrite(p) ==
    /\ pc[p] = "save"
    /\ \E keys \in [1 .. Cardinality(remark) -> remark] :
          /\ \A k \in remark : \E i \in DOMAIN keys : keys[i] = k
          /\ file' = [file EXCEPT ![name[p]] =
                [i \in DOMAIN keys |->
                   LET k == keys[i] IN
                   [key |-> k, text |-> Render(SavedKind(k), val[SavedKind(k)][k])]]]
    /\ Return(p)
    /\ UNCHANGED <<cont, remark, buf, todo, name, lua, calls>>

-----------------------------------------------------------------------------
(* Lua.                                                                    *)

\* aargs_reload: loaded_files_ is empty, so no file is read.
Reload(t) ==
    /\ Call(t, "tolua")
    /\ UNCHANGED <<cont, remark, buf, file, todo, name, lua>>

\* lua_arger_to_lua: one map after the other, so the last kind of a key wins.
LuaKind(k) == Order[CHOOSE i \in Has(k) : \A j \in Has(k) : j <= i]

MutantNewKeys(t, s) == lua[t][s] = None /\ s \in Keys /\ Has(s) # {}
Copied(t, s)        == s \in Keys /\ Has(s) # {}

ToLua(t) ==
    /\ pc[t] = "tolua"
    /\ lua' = [lua EXCEPT ![t] =
                 [s \in Spellings |-> IF Copied(t, s) THEN val[LuaKind(s)][s] ELSE lua[t][s]]]
    /\ Goto(t, "out")
    /\ UNCHANGED <<cont, remark, buf, file, todo, name, calls>>

\* arger.set: the table is set as it is written, the container under the normal
\* key and only if the type is one of three.
LuaSet(t, w) ==
    /\ Call(t, "out")
    /\ lua' = [lua EXCEPT ![t][w.key] = w.text]
    /\ IF w.kind = "other" THEN UNCHANGED cont
       ELSE WriteAll(t, w.kind, Normalize(w.key), w.text, FALSE)
    /\ UNCHANGED <<remark, buf, file, todo, name>>

\* Nothing more is called.
Over ==
    /\ calls = MaxCalls
    /\ \A p \in Procs : pc[p] = "out"
    /\ UNCHANGED vars

Next ==
    \/ \E c \in Clients, r \in Registers, bind \in BOOLEAN : Reg(c, r, bind)
    \/ \E c \in Clients, w \in Sets : SetParam(c, w)
    \/ \E c \in Clients, kind \in Kinds, s \in Spellings : GetLocked(c, kind, s)
    \/ \E c \in Clients : GetCopy(c) \/ GetReturns(c)
    \/ \E c \in Clients, argv \in Argv : Parse(c, argv)
    \/ \E c \in Clients : ParseHelp(c) \/ ParseArg(c) \/ ParseEnd(c)
    \/ \E p \in Procs, f \in DOMAIN Disk : Load(p, f)
    \/ \E p \in Procs : LoadLine(p) \/ LoadEnd(p) \/ SaveOpen(p) \/ SaveWrite(p)
    \/ \E c \in Clients, f \in DOMAIN Disk : Save(c, f)
    \/ \E t \in LuaThreads : Reload(t) \/ ToLua(t)
    \/ \E t \in LuaThreads, w \in LuaSets : LuaSet(t, w)
    \/ Over

Spec == Init /\ [][Next]_vars

-----------------------------------------------------------------------------
\* A registered variable shows the parameter, whoever wrote it and by whichever
\* way, except a const char* whose string has moved.
VariablesInStep ==
    \A kind \in Scalars, k \in Keys :
       var[kind][k] \notin {None, Stale} => var[kind][k] = val[kind][k]

\* Whatever is written while a get runs, it returns a value that the parameter had
\* during the call, although it copies the value behind the mutex, from a place that
\* other calls write to.  Not so, and up to the callers (a.args.h:33): a string that
\* is written meanwhile, a vector when another get of its kind comes in between; and
\* the elements of a vector<bool> are those of another parameter.
GetIsCurrent ==
    \A c \in Clients :
       pc[c] = "got" /\ want[c].kind # "bools" =>
          \/ want[c].text \in seen[c]
          \/ want[c].kind = "str" /\ Cardinality(seen[c]) > 1
          \/ want[c].kind \in Vectors /\ c \in crowded

\* What save writes for an int or a bool, load reads as the same value.
RoundTrip ==
    \A k \in remark :
       Has(k) # {} /\ SavedKind(k) \in {"int", "bool"} =>
          ReadText(Render(SavedKind(k), val[SavedKind(k)][k]))
             = [kind |-> SavedKind(k), text |-> val[SavedKind(k)][k]]

\* After load or reload a Lua state has the last value of every key that has been
\* used with one kind only, whoever wrote it and however the key was written.
LuaShowsLastWrite ==
    [][\A t \in LuaThreads :
          pc[t] = "tolua" /\ pc'[t] = "out" /\ ~raced =>
             \A k \in Keys : Cardinality(Has(k)) = 1 => lua'[t][k] = last[k]]_vars
=============================================================================
