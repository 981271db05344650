----------------------------- MODULE AargsProofs -----------------------------
(***************************************************************************)
(* Proofs about Aargs, for any threads, keys, texts and calls: types, the  *)
(* registered variables, what save writes against what load reads, what a  *)
(* get returns against what the parameter was, and what Lua shows.         *)
(*                                                                         *)
(* The strengthening is Saved: a key that was registered has a value, or   *)
(* save() would write a text that is no text, which load() would then read.*)
(***************************************************************************)
EXTENDS Aargs, FiniteSetTheorems, TLAPS

\* TypeOK in the parts that steps disturb together.
ContType ==
    /\ val \in [Kinds -> [Keys -> MaybeText]]
    /\ \A kind \in Kinds, k \in Keys :
          val[kind][k] = None \/ [kind |-> kind, text |-> val[kind][k]] \in Value
    /\ var \in [Kinds -> [Keys -> MaybeText \cup {Stale}]]
    /\ seen \in [Procs -> SUBSET MaybeText]
    /\ last \in [Keys -> MaybeText]
    /\ raced \in BOOLEAN
    /\ crowded \subseteq Procs

WantType ==
    /\ want \in [Procs -> [kind : Kinds, key : Keys \cup {None}, text : MaybeText \cup {Stale}]]
    /\ \A p \in Procs : pc[p] = "read" => want[p].key \in Keys

TodoType ==
    /\ pc \in [Procs -> {"out", "parse", "load", "open", "save", "tolua", "read", "got"}]
    /\ todo \in [Procs -> Seq(Line) \cup Seq(Arg)]
    /\ \A p \in Procs : (pc[p] = "load" => todo[p] \in Seq(Line))
                     /\ (pc[p] = "parse" => todo[p] \in Seq(Arg))

RestType ==
    /\ remark \subseteq Keys
    /\ buf \in [Vectors -> MaybeText]
    /\ file \in [DOMAIN Disk -> Seq(Line) \cup {None}]
    /\ name \in [Procs -> DOMAIN Disk]
    /\ lua \in [LuaThreads -> [Spellings -> MaybeText]]
    /\ calls \in 0 .. MaxCalls

LEMMA TypeParts == TypeOK <=> ContType /\ WantType /\ TodoType /\ RestType
BY DEF TypeOK, ContType, WantType, TodoType, RestType

\* Every registered key has a value of some kind.
Saved == \A k \in remark : Has(k) # {}

IInv == ContType /\ WantType /\ TodoType /\ RestType /\ VariablesInStep /\ Saved

-----------------------------------------------------------------------------
(* Operators.                                                              *)

LEMMA KindsAre == Kinds = {"int", "bool", "str", "ints", "bools", "strs"}
BY DEF Kinds, Order

\* A text is read as a value.
LEMMA ReadTextIsValue ==
  ASSUME NEW t \in Texts
  PROVE  ReadText(t) \in Value /\ ReadText(t).kind \in Kinds /\ ReadText(t).text \in Texts
BY TextsAssumption, KindsAre DEF ReadText, Truth, Value, MaybeText

\* A key that has a value is saved and copied under a kind for which it has one.
LEMMA ChosenKind ==
  ASSUME NEW k, Has(k) # {}
  PROVE  /\ SavedKind(k) \in Kinds /\ val[SavedKind(k)][k] # None
         /\ LuaKind(k) \in Kinds /\ val[LuaKind(k)][k] # None
<1>1. Has(k) \subseteq 1 .. 6
  BY DEF Has
<1>2. \E i \in Has(k) : \A j \in Has(k) : i <= j
  BY <1>1
<1>3. \E i \in Has(k) : \A j \in Has(k) : j <= i
  BY <1>1
<1>4. \E i \in Has(k) : SavedKind(k) = Order[i]
  BY <1>2 DEF SavedKind
<1>5. \E i \in Has(k) : LuaKind(k) = Order[i]
  BY <1>3 DEF LuaKind
<1> QED BY <1>1, <1>4, <1>5 DEF Has, Kinds

LEMMA HasValue ==
  ASSUME NEW k, NEW kind \in Kinds, val[kind][k] # None
  PROVE  Has(k) # {}
<1>1. PICK i \in 1 .. 6 : Order[i] = kind
  BY DEF Kinds
<1> QED BY <1>1 DEF Has

\* A write of a value keeps the types, keeps the variables in step, takes the
\* value of no key away and gives its own key one.
LEMMA WriteKeeps ==
  ASSUME IInv, NEW p \in Procs, NEW kind \in Kinds, NEW k \in Keys, NEW t \in Texts,
         [kind |-> kind, text |-> t] \in Value, NEW bind \in BOOLEAN,
         WriteAll(p, kind, k, t, bind)
  PROVE  /\ ContType' /\ VariablesInStep'
         /\ want' \in [Procs -> [kind : Kinds, key : Keys \cup {None},
                                 text : MaybeText \cup {Stale}]]
         /\ \A q \in Procs : want'[q].key = want[q].key
         /\ \A l \in Keys : Has(l) # {} => Has(l)' # {}
         /\ Has(k)' # {}
<1>0. PICK moved \in BOOLEAN, torn \in BOOLEAN :
       /\ moved \/ torn => kind = "str" /\ val[kind][k] \notin {None, t}
       /\ val' = [val EXCEPT ![kind][k] = t]
       /\ var' = IF bind THEN [var EXCEPT ![kind][k] = t]
                 ELSE IF Reaches(kind, k)
                 THEN [var EXCEPT ![kind][k] = IF moved THEN Stale ELSE t]
                 ELSE var
       /\ want' = [q \in Procs |->
                     IF Getting(q, kind, k) /\ kind = "str" /\ want[q].text \notin {None, Stale}
                     THEN [want[q] EXCEPT !.text = IF moved \/ torn THEN Stale ELSE t]
                     ELSE want[q]]
       /\ seen' = [q \in Procs |->
                     IF Getting(q, kind, k) THEN seen[q] \cup {t} ELSE seen[q]]
       /\ last' = [last EXCEPT ![k] = t]
       /\ raced' = (raced \/ Iterating(p))
       /\ crowded' = crowded
  BY DEF WriteAll
<1>1. t # None /\ t \in MaybeText
  BY TextsAssumption DEF MaybeText
<1>2. \A j \in Kinds, l \in Keys :
         val'[j][l] = IF j = kind /\ l = k THEN t ELSE val[j][l]
  BY <1>0 DEF IInv, ContType
<1>3. /\ val' \in [Kinds -> [Keys -> MaybeText]]
      /\ \A j \in Kinds, l \in Keys :
            val'[j][l] = None \/ [kind |-> j, text |-> val'[j][l]] \in Value
  BY <1>0, <1>1, <1>2 DEF IInv, ContType
<1>4. var' \in [Kinds -> [Keys -> MaybeText \cup {Stale}]]
  BY <1>0, <1>1 DEF IInv, ContType
<1>5. seen' \in [Procs -> SUBSET MaybeText] /\ last' \in [Keys -> MaybeText]
  BY <1>0, <1>1 DEF IInv, ContType
<1>6. raced' \in BOOLEAN
  BY <1>0, Zenon DEF IInv, ContType, Iterating
<1>7. VariablesInStep'
  <2> SUFFICES ASSUME NEW j \in Scalars, NEW l \in Keys, var'[j][l] \notin {None, Stale}
               PROVE  var'[j][l] = val'[j][l]
    BY DEF VariablesInStep
  <2>1. j \in Kinds
    BY KindsAre DEF Scalars
  <2>2. CASE j = kind /\ l = k
    BY <1>0, <1>2, <2>1, <2>2 DEF Reaches, IInv, ContType
  <2>3. CASE ~(j = kind /\ l = k)
    <3>1. var'[j][l] = var[j][l]
      BY <1>0, <2>1, <2>3 DEF IInv, ContType
    <3> QED BY <1>2, <2>1, <2>3, <3>1 DEF IInv, VariablesInStep
  <2> QED BY <2>2, <2>3
<1>8. /\ want' \in [Procs -> [kind : Kinds, key : Keys \cup {None},
                              text : MaybeText \cup {Stale}]]
      /\ \A q \in Procs : want'[q].key = want[q].key
  BY <1>0, <1>1 DEF IInv, WantType
<1>9. ASSUME NEW l \in Keys, Has(l) # {} PROVE Has(l)' # {}
  <2>1. PICK i \in 1 .. 6 : val[Order[i]][l] # None
    BY <1>9 DEF Has
  <2>2. Order[i] \in Kinds
    BY DEF Kinds
  <2>3. val'[Order[i]][l] # None
    BY <1>1, <1>2, <2>1, <2>2
  <2> QED BY <2>3 DEF Has
<1>10. Has(k)' # {}
  <2>1. PICK i \in 1 .. 6 : Order[i] = kind
    BY DEF Kinds
  <2>2. val'[Order[i]][k] # None
    BY <1>1, <1>2, <2>1
  <2> QED BY <2>2 DEF Has
<1>11. crowded' \subseteq Procs
  BY <1>0 DEF IInv, ContType
<1> QED BY <1>3, <1>4, <1>5, <1>6, <1>7, <1>8, <1>9, <1>10, <1>11 DEF ContType

-----------------------------------------------------------------------------
(* The steps.                                                              *)

LEMMA InitInv == Init => IInv
<1> SUFFICES ASSUME Init PROVE IInv
  OBVIOUS
<1> USE DEF Init
<1>1. ContType
  BY DEF ContType, MaybeText
<1>2. WantType
  BY KindsAre DEF WantType, MaybeText
<1>3. TodoType
  BY DEF TodoType
<1>4. RestType
  BY CallsAssumption DEF RestType, MaybeText
<1>5. VariablesInStep
  BY KindsAre DEF VariablesInStep, Scalars
<1>6. Saved
  BY DEF Saved
<1> QED BY <1>1, <1>2, <1>3, <1>4, <1>5, <1>6 DEF IInv

\* What a step that leaves the parameters alone does to IInv.
LEMMA ContFrame ==
  ASSUME IInv, UNCHANGED <<val, var, last, raced, remark>>,
         seen' \in [Procs -> SUBSET MaybeText], crowded' \subseteq Procs,
         WantType', TodoType', RestType'
  PROVE  IInv'
BY DEF IInv, ContType, VariablesInStep, Saved, Has

LEMMA CallType ==
  ASSUME IInv, NEW p \in Procs, NEW point, Call(p, point)
  PROVE  calls' \in 0 .. MaxCalls /\ pc[p] = "out" /\ pc' = [pc EXCEPT ![p] = point]
BY CallsAssumption DEF Call, Goto, IInv, RestType

\* A call that writes and is over at once.
LEMMA WriteCall ==
  ASSUME IInv, NEW p \in Procs, NEW w \in Write, NEW bind \in BOOLEAN,
         Call(p, "out"), WriteAll(p, w.kind, Normalize(w.key), w.text, bind),
         UNCHANGED <<buf, file, todo, name>>,
         remark' \in {remark, remark \cup {Normalize(w.key)}},
         lua' \in [LuaThreads -> [Spellings -> MaybeText]]
  PROVE  IInv'
<1>1. /\ w.kind \in Kinds /\ w.key \in Spellings /\ w.text \in Texts
      /\ [kind |-> w.kind, text |-> w.text] \in Value /\ Normalize(w.key) \in Keys
  BY KeysAssumption DEF Write, Normalize
<1>2. calls' \in 0 .. MaxCalls /\ pc[p] = "out" /\ pc' = [pc EXCEPT ![p] = "out"]
  BY CallType
<1>3. pc' = pc
  BY <1>2 DEF IInv, TodoType
<1>4. /\ ContType' /\ VariablesInStep'
      /\ want' \in [Procs -> [kind : Kinds, key : Keys \cup {None},
                              text : MaybeText \cup {Stale}]]
      /\ \A q \in Procs : want'[q].key = want[q].key
      /\ \A l \in Keys : Has(l) # {} => Has(l)' # {}
      /\ Has(Normalize(w.key))' # {}
  BY <1>1, WriteKeeps
<1>5. WantType'
  BY <1>3, <1>4 DEF IInv, WantType
<1>6. TodoType'
  BY <1>3 DEF IInv, TodoType
<1>7. RestType'
  BY <1>1, <1>2 DEF IInv, RestType
<1>8. Saved'
  BY <1>1, <1>4 DEF IInv, Saved, RestType
<1> QED BY <1>4, <1>5, <1>6, <1>7, <1>8 DEF IInv

\* One line or argument of a text is read and written.
LEMMA WriteText ==
  ASSUME IInv, NEW p \in Procs, NEW s \in Spellings, NEW t \in Texts,
         WriteAll(p, ReadText(t).kind, Normalize(s), ReadText(t).text, FALSE),
         UNCHANGED <<remark, buf, file, pc, name, lua, calls>>, TodoType'
  PROVE  IInv'
<1>1. /\ ReadText(t) \in Value /\ ReadText(t).kind \in Kinds /\ ReadText(t).text \in Texts
      /\ [kind |-> ReadText(t).kind, text |-> ReadText(t).text] \in Value
  BY ReadTextIsValue DEF Value
<1>2. Normalize(s) \in Keys
  BY KeysAssumption DEF Normalize
<1>4. /\ ContType' /\ VariablesInStep'
      /\ want' \in [Procs -> [kind : Kinds, key : Keys \cup {None},
                              text : MaybeText \cup {Stale}]]
      /\ \A q \in Procs : want'[q].key = want[q].key
      /\ \A l \in Keys : Has(l) # {} => Has(l)' # {}
  BY <1>1, <1>2, WriteKeeps
<1>5. WantType'
  BY <1>4 DEF IInv, WantType
<1>7. RestType'
  BY DEF IInv, RestType
<1>8. Saved'
  BY <1>4 DEF IInv, Saved, RestType
<1> QED BY <1>4, <1>5, <1>7, <1>8 DEF IInv

LEMMA NextInv == IInv /\ [Next]_vars => IInv'
<1> SUFFICES ASSUME IInv, [Next]_vars PROVE IInv'
  OBVIOUS
<1>1. ASSUME NEW c \in Clients, NEW r \in Registers, NEW bind \in BOOLEAN, Reg(c, r, bind)
      PROVE  IInv'
  <2>1. r \in Write /\ c \in Procs
    BY CallsAssumption DEF Procs
  <2> QED BY <1>1, <2>1, WriteCall DEF Reg, RegScalar, RegVector, IInv, RestType
<1>2. ASSUME NEW c \in Clients, NEW w \in Sets, SetParam(c, w) PROVE IInv'
  <2>1. w \in Write /\ c \in Procs
    BY CallsAssumption DEF Procs
  <2> QED BY <1>2, <2>1, WriteCall DEF SetParam, SetScalar, SetVector, IInv, RestType
<1>3. ASSUME NEW t \in LuaThreads, NEW w \in LuaSets, LuaSet(t, w) PROVE IInv'
  <2>1. /\ t \in Procs /\ w.key \in Spellings /\ w.text \in Texts
        /\ w.kind # "other" => w \in Write
    BY CallsAssumption DEF Procs
  <2>2. lua' \in [LuaThreads -> [Spellings -> MaybeText]]
    BY <1>3, <2>1 DEF LuaSet, IInv, RestType, MaybeText
  <2>3. CASE w.kind # "other"
    BY <1>3, <2>1, <2>2, <2>3, WriteCall DEF LuaSet
  <2>4. CASE w.kind = "other"
    <3>1. calls' \in 0 .. MaxCalls /\ pc[t] = "out" /\ pc' = [pc EXCEPT ![t] = "out"]
      BY <1>3, <2>1, CallType DEF LuaSet
    <3>2. pc' = pc
      BY <3>1 DEF IInv, TodoType
    <3>3. UNCHANGED <<cont, remark, buf, file, todo, name>>
      BY <1>3, <2>4 DEF LuaSet
    <3>4. RestType' /\ WantType' /\ TodoType'
      BY <2>2, <3>1, <3>2, <3>3 DEF IInv, RestType, WantType, TodoType, cont
    <3> QED BY <3>3, <3>4, ContFrame DEF cont, IInv, ContType
  <2> QED BY <2>3, <2>4
<1>4. ASSUME NEW c \in Clients, NEW kind \in Kinds, NEW s \in Spellings, GetLocked(c, kind, s)
      PROVE  IInv'
  <2> DEFINE k == Normalize(s)
  <2>1. c \in Procs /\ k \in Keys
    BY KeysAssumption DEF Procs, Normalize
  <2>2. calls' \in 0 .. MaxCalls /\ pc[c] = "out" /\ pc' = [pc EXCEPT ![c] = "read"]
    BY <1>4, <2>1, CallType DEF GetLocked
  <2>3. val[kind][k] \in MaybeText
    BY <2>1 DEF IInv, ContType
  <2>4. buf' \in [Vectors -> MaybeText]
    BY <1>4, <2>3 DEF GetLocked, GetScalar, GetVector, Filled, IInv, RestType
  <2>5. /\ want' = [want EXCEPT ![c] = [kind |-> kind, key |-> k, text |-> val[kind][k]]]
        /\ seen' = [seen EXCEPT ![c] = {val[kind][k]}]
        /\ UNCHANGED <<val, var, last, raced, remark, file, todo, name, lua>>
    BY <1>4 DEF GetLocked
  <2>6. seen' \in [Procs -> SUBSET MaybeText] /\ crowded' \subseteq Procs
    <3>1. seen' \in [Procs -> SUBSET MaybeText]
      BY <2>3, <2>5 DEF IInv, ContType
    <3>2. crowded' \subseteq crowded \cup Reading(kind)
      BY <1>4 DEF GetLocked
    <3> QED BY <3>1, <3>2 DEF IInv, ContType, Reading
  <2>7. WantType'
    BY <2>1, <2>2, <2>3, <2>5 DEF IInv, WantType, TodoType
  <2>8. TodoType'
    BY <2>1, <2>2, <2>5 DEF IInv, TodoType
  <2>9. RestType'
    BY <2>2, <2>4, <2>5 DEF IInv, RestType
  <2> QED BY <2>5, <2>6, <2>7, <2>8, <2>9, ContFrame
<1>5. ASSUME NEW c \in Clients, GetCopy(c) PROVE IInv'
  <2>1. c \in Procs
    BY DEF Procs
  <2> DEFINE w == want[c]
  <2>2. w \in [kind : Kinds, key : Keys \cup {None}, text : MaybeText \cup {Stale}] /\ w.key \in Keys
    BY <1>5, <2>1 DEF GetCopy, IInv, WantType
  <2>3. Results(c, w.kind, w.key, w.text) \subseteq MaybeText \cup {Stale}
    <3>1. CASE w.text = None \/ w.kind \in Scalars
      <4>1. Results(c, w.kind, w.key, w.text) = {w.text}
        BY <3>1 DEF Results, Scalars
      <4> QED BY <2>2, <4>1
    <3>2. CASE w.text # None /\ w.kind \in {"ints", "strs"}
      <4>1. Results(c, w.kind, w.key, w.text) \subseteq {buf[w.kind], Stale}
        BY <3>2 DEF Results, Scalars
      <4> QED BY <3>2, <4>1 DEF IInv, RestType, Vectors
    <3>3. CASE w.text # None /\ w.kind = "bools"
      <4>1. Results(c, w.kind, w.key, w.text) =
              {IF val["bool"][w.key] = None THEN "false" ELSE val["bool"][w.key]}
        BY <3>3 DEF Results, Scalars
      <4>2. val["bool"][w.key] \in MaybeText /\ "false" \in MaybeText
        BY <2>2, KindsAre, TextsAssumption DEF IInv, ContType, MaybeText
      <4> QED BY <4>1, <4>2
    <3> QED BY <2>2, <3>1, <3>2, <3>3, KindsAre DEF Scalars
  <2>4. PICK r \in Results(c, w.kind, w.key, w.text) :
           /\ want' = [want EXCEPT ![c].text = r]
           /\ pc' = [pc EXCEPT ![c] = "got"]
           /\ UNCHANGED <<val, var, seen, last, raced, crowded>>
           /\ UNCHANGED <<remark, buf, file, todo, name, lua, calls>>
    BY <1>5 DEF GetCopy, Goto
  <2>5. WantType'
    BY <2>1, <2>2, <2>3, <2>4 DEF IInv, WantType, TodoType
  <2>6. TodoType' /\ RestType'
    BY <2>1, <2>4 DEF IInv, TodoType, RestType
  <2> QED BY <2>4, <2>5, <2>6, ContFrame DEF IInv, ContType
<1>6. ASSUME NEW c \in Clients, GetReturns(c) PROVE IInv'
  <2>1. c \in Procs
    BY DEF Procs
  <2>2. /\ WantType' /\ TodoType' /\ RestType'
        /\ seen' \in [Procs -> SUBSET MaybeText] /\ crowded' \subseteq Procs
    BY <1>6, <2>1, KindsAre
       DEF GetReturns, Goto, IInv, WantType, TodoType, RestType, ContType, MaybeText
  <2> QED BY <1>6, <2>2, ContFrame DEF GetReturns
<1>7. ASSUME NEW c \in Clients, NEW argv \in Argv, Parse(c, argv) PROVE IInv'
  <2>1. c \in Procs /\ argv \in Seq(Arg)
    BY CallsAssumption DEF Procs
  <2>2. calls' \in 0 .. MaxCalls /\ pc' = [pc EXCEPT ![c] = "parse"]
    BY <1>7, <2>1, CallType DEF Parse
  <2>3. WantType' /\ TodoType' /\ RestType'
    BY <1>7, <2>1, <2>2 DEF Parse, IInv, WantType, TodoType, RestType, cont
  <2> QED BY <1>7, <2>3, ContFrame DEF Parse, cont, IInv, ContType
<1>8. ASSUME NEW c \in Clients, ParseHelp(c) \/ ParseEnd(c) PROVE IInv'
  <2>1. c \in Procs /\ "args.txt" \in DOMAIN Disk
    BY CallsAssumption DEF Procs
  <2>2. \A q \in Procs : q # c => pc'[q] = pc[q] /\ todo'[q] = todo[q]
    BY <1>8, <2>1 DEF ParseHelp, ParseEnd, Goto, IInv, TodoType
  <2>3. pc' = [pc EXCEPT ![c] = "open"] \/ pc' = [pc EXCEPT ![c] = "out"]
    BY <1>8 DEF ParseHelp, ParseEnd, Goto
  <2>4. todo' = [todo EXCEPT ![c] = <<>>] /\ UNCHANGED <<cont, remark, buf, file, lua, calls>>
    BY <1>8 DEF ParseHelp, ParseEnd
  <2>5. WantType'
    BY <2>1, <2>3, <2>4 DEF IInv, WantType, TodoType, cont
  <2>6. TodoType'
    BY <2>1, <2>2, <2>3, <2>4 DEF IInv, TodoType
  <2>7. RestType'
    BY <1>8, <2>1 DEF ParseHelp, ParseEnd, IInv, RestType
  <2> QED BY <1>8, <2>5, <2>6, <2>7, ContFrame DEF ParseHelp, ParseEnd, cont, IInv, ContType
<1>9. ASSUME NEW c \in Clients, ParseArg(c) PROVE IInv'
  <2> DEFINE a == Head(todo[c])
             t == IF a.eq THEN a.text ELSE todo[c][2].whole
             n == IF a.eq THEN 1 ELSE 2
  <2>1. c \in Procs /\ pc[c] = "parse" /\ todo[c] \in Seq(Arg) /\ todo[c] # <<>> /\ Len(todo[c]) >= n
    BY <1>9 DEF Procs, ParseArg, IInv, TodoType
  <2>2. a \in Arg
    <3> DEFINE s == todo[c]
    <3>1. s \in Seq(Arg) /\ s # <<>>
      BY <2>1
    <3> HIDE DEF s
    <3>2. Head(s) \in Arg
      BY <3>1
    <3> QED BY <3>2 DEF s
  <2>3. t \in Texts
    <3>1. CASE a.eq
      BY <2>2, <3>1 DEF Arg
    <3>2. CASE ~a.eq
      <4>1. todo[c][2] \in Arg
        BY <2>1, <3>2
      <4> QED BY <3>2, <4>1 DEF Arg
    <3> QED BY <3>1, <3>2
  <2>4. /\ WriteAll(c, ReadText(t).kind, Normalize(a.key), ReadText(t).text, FALSE)
        /\ todo' = [todo EXCEPT ![c] = SubSeq(todo[c], n + 1, Len(todo[c]))]
        /\ UNCHANGED <<remark, buf, file, pc, name, lua, calls>>
    BY <1>9 DEF ParseArg
  <2>5. SubSeq(todo[c], n + 1, Len(todo[c])) \in Seq(Arg)
    BY <2>1
  <2>6. TodoType'
    BY <2>1, <2>4, <2>5 DEF IInv, TodoType
  <2>7. a.key \in Spellings
    BY <2>2 DEF Arg
  <2> HIDE DEF t, a, n
  <2> QED BY <2>1, <2>7, <2>3, <2>4, <2>6, WriteText
<1>10. ASSUME NEW p \in Procs, NEW f \in DOMAIN Disk, Load(p, f) PROVE IInv'
  <2>1. /\ calls' \in 0 .. MaxCalls
        /\ pc' = [pc EXCEPT ![p] = IF file[f] = None THEN "open" ELSE "load"]
    BY <1>10, CallType DEF Load
  <2>2. file[f] # None => file[f] \in Seq(Line)
    BY DEF IInv, RestType
  <2>3. TodoType'
    BY <1>10, <2>1, <2>2 DEF Load, IInv, TodoType
  <2>4. WantType' /\ RestType'
    BY <1>10, <2>1 DEF Load, IInv, WantType, TodoType, RestType, cont
  <2> QED BY <1>10, <2>3, <2>4, ContFrame DEF Load, cont, IInv, ContType
<1>11. ASSUME NEW p \in Procs, LoadLine(p) PROVE IInv'
  <2> DEFINE l == Head(todo[p])
  <2>1. pc[p] = "load" /\ todo[p] \in Seq(Line) /\ todo[p] # <<>>
    BY <1>11 DEF LoadLine, IInv, TodoType
  <2>2. l.key \in Spellings /\ l.text \in Texts /\ Tail(todo[p]) \in Seq(Line)
    <3> DEFINE s == todo[p]
    <3>1. s \in Seq(Line) /\ s # <<>>
      BY <2>1
    <3> HIDE DEF s
    <3>2. Head(s) \in Line /\ Tail(s) \in Seq(Line)
      BY <3>1
    <3>3. l \in Line /\ Tail(todo[p]) \in Seq(Line)
      BY <3>2 DEF s
    <3> QED BY <3>3 DEF Line
  <2>3. /\ WriteAll(p, ReadText(l.text).kind, Normalize(l.key), ReadText(l.text).text, FALSE)
        /\ todo' = [todo EXCEPT ![p] = Tail(todo[p])]
        /\ UNCHANGED <<remark, buf, file, pc, name, lua, calls>>
    BY <1>11 DEF LoadLine
  <2>4. TodoType'
    BY <2>1, <2>2, <2>3 DEF IInv, TodoType
  <2> HIDE DEF l
  <2> QED BY <2>2, <2>3, <2>4, WriteText
<1>12. ASSUME NEW p \in Procs, LoadEnd(p) PROVE IInv'
  <2>1. WantType' /\ TodoType' /\ RestType'
    BY <1>12 DEF LoadEnd, Return, Goto, IInv, WantType, TodoType, RestType, cont
  <2> QED BY <1>12, <2>1, ContFrame DEF LoadEnd, cont, IInv, ContType
<1>13. ASSUME NEW c \in Clients, NEW f \in DOMAIN Disk, Save(c, f) PROVE IInv'
  <2>1. c \in Procs
    BY DEF Procs
  <2>2. calls' \in 0 .. MaxCalls /\ pc' = [pc EXCEPT ![c] = "open"]
    BY <1>13, <2>1, CallType DEF Save
  <2>3. WantType' /\ TodoType' /\ RestType'
    BY <1>13, <2>1, <2>2 DEF Save, IInv, WantType, TodoType, RestType, cont
  <2> QED BY <1>13, <2>3, ContFrame DEF Save, cont, IInv, ContType
<1>14. ASSUME NEW p \in Procs, SaveOpen(p) PROVE IInv'
  <2>1. WantType' /\ TodoType'
    BY <1>14 DEF SaveOpen, Goto, IInv, WantType, TodoType, cont
  <2>2. RestType'
    BY <1>14 DEF SaveOpen, IInv, RestType
  <2> QED BY <1>14, <2>1, <2>2, ContFrame DEF SaveOpen, cont, IInv, ContType
<1>15. ASSUME NEW p \in Procs, SaveWrite(p) PROVE IInv'
  <2>1. PICK keys \in [1 .. Cardinality(remark) -> remark] :
           file' = [file EXCEPT ![name[p]] =
                [i \in DOMAIN keys |->
                   LET k == keys[i] IN
                   [key |-> k, text |-> Render(SavedKind(k), val[SavedKind(k)][k])]]]
    BY <1>15 DEF SaveWrite
  <2> DEFINE lines == [i \in DOMAIN keys |->
                   LET k == keys[i] IN
                   [key |-> k, text |-> Render(SavedKind(k), val[SavedKind(k)][k])]]
  <2>2. ASSUME NEW k \in remark
        PROVE  [key |-> k, text |-> Render(SavedKind(k), val[SavedKind(k)][k])] \in Line
    <3>1. k \in Keys /\ k \in Spellings /\ Has(k) # {}
      BY KeysAssumption DEF IInv, RestType, Saved
    <3>2. SavedKind(k) \in Kinds /\ val[SavedKind(k)][k] # None
      BY <3>1, ChosenKind
    <3>3. val[SavedKind(k)][k] \in Texts
      BY <3>1, <3>2 DEF IInv, ContType, MaybeText
    <3> QED BY <3>1, <3>3 DEF Line, Render
  <2>3. Cardinality(remark) \in Nat
    BY KeysAssumption, FS_Subset, FS_CardinalityType DEF IInv, RestType
  <2>4. lines \in Seq(Line)
    BY <2>2, <2>3
  <2>5. file' = [file EXCEPT ![name[p]] = lines]
    BY <2>1
  <2>6. file' \in [DOMAIN Disk -> Seq(Line) \cup {None}]
    BY <2>4, <2>5 DEF IInv, RestType
  <2>7. WantType' /\ TodoType' /\ RestType'
    BY <1>15, <2>6 DEF SaveWrite, Return, Goto, IInv, WantType, TodoType, RestType, cont
  <2> QED BY <1>15, <2>7, ContFrame DEF SaveWrite, cont, IInv, ContType
<1>16. ASSUME NEW t \in LuaThreads, Reload(t) PROVE IInv'
  <2>1. t \in Procs
    BY DEF Procs
  <2>2. calls' \in 0 .. MaxCalls /\ pc' = [pc EXCEPT ![t] = "tolua"]
    BY <1>16, <2>1, CallType DEF Reload
  <2>3. WantType' /\ TodoType' /\ RestType'
    BY <1>16, <2>1, <2>2 DEF Reload, IInv, WantType, TodoType, RestType, cont
  <2> QED BY <1>16, <2>3, ContFrame DEF Reload, cont, IInv, ContType
<1>17. ASSUME NEW t \in LuaThreads, ToLua(t) PROVE IInv'
  <2>1. ASSUME NEW s \in Spellings
        PROVE  (IF Copied(t, s) THEN val[LuaKind(s)][s] ELSE lua[t][s]) \in MaybeText
    <3>1. CASE Copied(t, s)
      BY <3>1, ChosenKind DEF Copied, IInv, ContType
    <3>2. CASE ~Copied(t, s)
      BY <3>2 DEF IInv, RestType
    <3> QED BY <3>1, <3>2
  <2>2. lua' \in [LuaThreads -> [Spellings -> MaybeText]]
    BY <1>17, <2>1 DEF ToLua, IInv, RestType
  <2>3. WantType' /\ TodoType' /\ RestType'
    BY <1>17, <2>2 DEF ToLua, Goto, Procs, IInv, WantType, TodoType, RestType, cont
  <2> QED BY <1>17, <2>3, ContFrame DEF ToLua, cont, IInv, ContType
<1>18. CASE UNCHANGED vars
  BY <1>18, ContFrame DEF vars, cont, IInv, ContType, WantType, TodoType, RestType
<1> QED
  BY <1>1, <1>2, <1>3, <1>4, <1>5, <1>6, <1>7, <1>8, <1>9, <1>10, <1>11, <1>12, <1>13,
     <1>14, <1>15, <1>16, <1>17, <1>18
     DEF Next, Over

-----------------------------------------------------------------------------
\* The strengthened invariant holds in every state.
THEOREM Inductive == Spec => []IInv
BY InitInv, NextInv, PTL DEF Spec

\* Every variable has its type: no map ever holds a value of another kind, and
\* what is saved is text that load can read.
THEOREM TypeCorrect == Spec => []TypeOK
<1>1. IInv => TypeOK
  BY TypeParts DEF IInv
<1> QED BY <1>1, Inductive, PTL

\* For any threads, keys and texts a registered variable shows its parameter.
THEOREM VariablesFollow == Spec => []VariablesInStep
<1>1. IInv => VariablesInStep
  BY DEF IInv
<1> QED BY <1>1, Inductive, PTL

\* What save writes for an int or a bool, load reads as the same value, for any
\* texts that stoll reads as it does.
THEOREM SavedIsReadBack == Spec => []RoundTrip
<1>1. ASSUME IInv, NEW k \in remark, Has(k) # {}, SavedKind(k) \in {"int", "bool"}
      PROVE  ReadText(Render(SavedKind(k), val[SavedKind(k)][k]))
                = [kind |-> SavedKind(k), text |-> val[SavedKind(k)][k]]
  <2> DEFINE kind == SavedKind(k)
             t    == val[kind][k]
  <2>1. k \in Keys /\ kind \in Kinds /\ t # None
    BY <1>1, ChosenKind DEF IInv, RestType
  <2>2. [kind |-> kind, text |-> t] \in Value
    BY <1>1, <2>1 DEF IInv, ContType
  <2>3. t \in Texts /\ (kind = "int" => Number[t] = t)
        /\ (kind = "bool" => t \in {"true", "false"})
    BY <2>2 DEF Value
  <2> HIDE DEF kind, t
  <2>4. ReadText(t) = [kind |-> kind, text |-> t]
    BY <1>1, <2>1, <2>3, TextsAssumption DEF ReadText, Truth, kind
  <2> QED BY <2>4 DEF Render, kind, t
<1>2. IInv => RoundTrip
  BY <1>1 DEF RoundTrip
<1> QED BY <1>2, Inductive, PTL

-----------------------------------------------------------------------------
(* What a get returns.                                                     *)

\* The value that a call has in hand is one that the parameter had while it ran, or
\* it is a string that was written meanwhile.
Had(w, values) == w.text \in values \/ (w.kind = "str" /\ Cardinality(values) > 1)

\* Between the mutex and the copy the history holds the value that the parameter has
\* now, and so does the shared buffer that the call has filled, as long as no other
\* get has filled it again.
ReadInv ==
    \A c \in Procs :
       /\ IsFiniteSet(seen[c])
       /\ pc[c] = "read" =>
             /\ val[want[c].kind][want[c].key] \in seen[c]
             /\ Had(want[c], seen[c])
             /\ want[c].kind \in Vectors /\ want[c].text # None /\ c \notin crowded =>
                   buf[want[c].kind] \in seen[c]
       /\ pc[c] = "got" /\ want[c].kind # "bools" =>
             Had(want[c], seen[c]) \/ (want[c].kind \in Vectors /\ c \in crowded)

LEMMA TwoElements ==
  ASSUME NEW S, IsFiniteSet(S), NEW a \in S, NEW b \in S, a # b
  PROVE  Cardinality(S) > 1
<1>1. Cardinality(S) \in Nat
  BY FS_CardinalityType
<1>2. Cardinality(S) # 0
  BY FS_EmptySet
<1>3. Cardinality(S) # 1
  BY FS_Singleton
<1> QED BY <1>1, <1>2, <1>3

\* More values leave what was had as it was.
LEMMA HadMore ==
  ASSUME NEW w, NEW S, NEW x, IsFiniteSet(S), Had(w, S)
  PROVE  IsFiniteSet(S \cup {x}) /\ Had(w, S \cup {x})
<1>1. /\ IsFiniteSet(S \cup {x}) /\ Cardinality(S) \in Nat
      /\ Cardinality(S \cup {x}) = IF x \in S THEN Cardinality(S) ELSE Cardinality(S) + 1
  BY FS_AddElement, FS_CardinalityType
<1> QED BY <1>1 DEF Had

LEMMA InitRead == Init => ReadInv
BY FS_EmptySet DEF Init, ReadInv

\* A write meets the calls that are reading its parameter.
LEMMA WriteRead ==
  ASSUME IInv, ReadInv, NEW p \in Procs, NEW kind \in Kinds, NEW k \in Keys, NEW t \in Texts,
         NEW bind \in BOOLEAN, WriteAll(p, kind, k, t, bind), UNCHANGED <<pc, buf>>
  PROVE  ReadInv'
<1>1. PICK moved \in BOOLEAN, torn \in BOOLEAN :
       /\ moved \/ torn => kind = "str" /\ val[kind][k] \notin {None, t}
       /\ val' = [val EXCEPT ![kind][k] = t]
       /\ want' = [q \in Procs |->
                     IF Getting(q, kind, k) /\ kind = "str" /\ want[q].text \notin {None, Stale}
                     THEN [want[q] EXCEPT !.text = IF moved \/ torn THEN Stale ELSE t]
                     ELSE want[q]]
       /\ seen' = [q \in Procs |->
                     IF Getting(q, kind, k) THEN seen[q] \cup {t} ELSE seen[q]]
       /\ crowded' = crowded
  BY DEF WriteAll
<1>2. \A j \in Kinds, l \in Keys :
         val'[j][l] = IF j = kind /\ l = k THEN t ELSE val[j][l]
  BY <1>1 DEF IInv, ContType
<1> SUFFICES ASSUME NEW c \in Procs
             PROVE  /\ IsFiniteSet(seen'[c])
                    /\ pc'[c] = "read" =>
                          /\ val'[want'[c].kind][want'[c].key] \in seen'[c]
                          /\ Had(want'[c], seen'[c])
                          /\ want'[c].kind \in Vectors /\ want'[c].text # None
                                /\ c \notin crowded' => buf'[want'[c].kind] \in seen'[c]
                    /\ pc'[c] = "got" /\ want'[c].kind # "bools" =>
                          Had(want'[c], seen'[c])
                             \/ (want'[c].kind \in Vectors /\ c \in crowded')
  BY DEF ReadInv, Had
<1> DEFINE w == want[c]
<1>3. /\ w \in [kind : Kinds, key : Keys \cup {None}, text : MaybeText \cup {Stale}]
      /\ pc[c] = "read" => w.key \in Keys
  BY DEF IInv, WantType
<1>4. CASE ~Getting(c, kind, k)
  <2>1. want'[c] = w /\ seen'[c] = seen[c] /\ pc'[c] = pc[c] /\ buf' = buf
        /\ crowded' = crowded
    BY <1>1, <1>4
  <2>2. pc[c] = "read" => val'[w.kind][w.key] = val[w.kind][w.key]
    BY <1>2, <1>3, <1>4 DEF Getting
  <2> QED BY <2>1, <2>2 DEF ReadInv
<1>5. CASE Getting(c, kind, k)
  <2>1. /\ pc[c] = "read" /\ w.kind = kind /\ w.key = k /\ seen'[c] = seen[c] \cup {t}
        /\ pc'[c] = "read" /\ buf' = buf /\ crowded' = crowded
    BY <1>1, <1>5 DEF Getting
  <2>2. /\ IsFiniteSet(seen[c]) /\ Had(w, seen[c]) /\ val[kind][k] \in seen[c]
        /\ kind \in Vectors /\ w.text # None /\ c \notin crowded => buf[kind] \in seen[c]
    BY <2>1 DEF ReadInv
  <2>3. IsFiniteSet(seen'[c]) /\ Had(w, seen'[c])
    <3>1. PICK S, x : S = seen[c] /\ x = w
      OBVIOUS
    <3>2. IsFiniteSet(S) /\ Had(x, S)
      BY <2>2, <3>1
    <3>3. IsFiniteSet(S \cup {t}) /\ Had(x, S \cup {t})
      BY <3>2, HadMore
    <3> QED BY <2>1, <3>1, <3>3
  <2>4. val'[kind][k] \in seen'[c]
    BY <1>2, <2>1
  <2>5. CASE kind = "str" /\ w.text \notin {None, Stale}
    <3>1. want'[c] = [w EXCEPT !.text = IF moved \/ torn THEN Stale ELSE t]
      BY <1>1, <1>5, <2>5
    <3>2. want'[c].kind = kind /\ want'[c].key = k /\ want'[c].text = IF moved \/ torn THEN Stale ELSE t
      BY <1>3, <2>1, <3>1
    <3>3. Had(want'[c], seen'[c])
      <4>1. CASE moved \/ torn
        <5>1. val[kind][k] # t /\ val[kind][k] \in seen'[c] /\ t \in seen'[c]
          BY <1>1, <2>1, <2>2, <4>1
        <5>2. Cardinality(seen'[c]) > 1
          BY <2>3, <5>1, TwoElements
        <5> QED BY <2>5, <3>2, <5>2 DEF Had
      <4>2. CASE ~(moved \/ torn)
        BY <2>1, <3>2, <4>2 DEF Had
      <4> QED BY <4>1, <4>2
    <3>4. kind \notin Vectors
      BY <2>5 DEF Vectors
    <3> QED BY <2>1, <2>3, <2>4, <3>2, <3>3, <3>4
  <2>6. CASE ~(kind = "str" /\ w.text \notin {None, Stale})
    <3>1. want'[c] = w
      BY <1>1, <2>6
    <3> QED BY <2>1, <2>2, <2>3, <2>4, <3>1
  <2> QED BY <2>5, <2>6
<1> QED BY <1>4, <1>5

\* A call that neither writes nor comes to the mutex or the copy of a get.
LEMMA ReadFrame ==
  ASSUME ReadInv, UNCHANGED <<val, want, seen, crowded, buf>>,
         \A q \in Procs : pc'[q] \in {"read", "got"} => pc'[q] = pc[q]
  PROVE  ReadInv'
BY DEF ReadInv

\* What parse and load are about to read.
LEMMA ArgToRead ==
  ASSUME IInv, NEW c \in Procs, ParseArg(c)
  PROVE  LET a == Head(todo[c])
             t == IF a.eq THEN a.text ELSE todo[c][2].whole
         IN  t \in Texts /\ a.key \in Spellings
<1> DEFINE a == Head(todo[c])
           t == IF a.eq THEN a.text ELSE todo[c][2].whole
           l == IF a.eq THEN 1 ELSE 2
<1>1. /\ pc[c] = "parse" /\ todo[c] \in Seq(Arg) /\ todo[c] # <<>> /\ Len(todo[c]) >= l
  BY DEF ParseArg, IInv, TodoType
<1>2. a \in Arg /\ (~a.eq => todo[c][2] \in Arg)
  <2>1. PICK s \in Seq(Arg) : s = todo[c]
    BY <1>1
  <2>2. Head(s) \in Arg /\ (Len(s) >= 2 => s[2] \in Arg)
    BY <1>1, <2>1
  <2> QED BY <1>1, <2>1, <2>2
<1> QED BY <1>2 DEF Arg

LEMMA LineToRead ==
  ASSUME IInv, NEW p \in Procs, LoadLine(p)
  PROVE  Head(todo[p]).text \in Texts /\ Head(todo[p]).key \in Spellings
<1>1. PICK s \in Seq(Line) : s = todo[p] /\ s # <<>>
  BY DEF LoadLine, IInv, TodoType
<1>2. Head(s) \in Line
  BY <1>1
<1> QED BY <1>1, <1>2 DEF Line

LEMMA NextRead == IInv /\ ReadInv /\ [Next]_vars => ReadInv'
<1> SUFFICES ASSUME IInv, ReadInv, [Next]_vars PROVE ReadInv'
  OBVIOUS
<1>0. /\ pc \in [Procs -> {"out", "parse", "load", "open", "save", "tolua", "read", "got"}]
      /\ Clients \subseteq Procs /\ LuaThreads \subseteq Procs
  BY DEF IInv, TodoType, Procs
<1>1. ASSUME NEW p \in Procs, NEW w \in Write, NEW bind \in BOOLEAN, Call(p, "out"),
             WriteAll(p, w.kind, Normalize(w.key), w.text, bind), UNCHANGED buf
      PROVE  ReadInv'
  <2>1. w.kind \in Kinds /\ w.text \in Texts /\ Normalize(w.key) \in Keys
    BY KeysAssumption DEF Write, Normalize
  <2>2. pc' = pc
    BY <1>0, <1>1 DEF Call, Goto
  <2> QED BY <1>1, <2>1, <2>2, WriteRead
<1>2. ASSUME NEW p \in Procs, NEW s \in Spellings, NEW t \in Texts,
             WriteAll(p, ReadText(t).kind, Normalize(s), ReadText(t).text, FALSE),
             UNCHANGED <<pc, buf>>
      PROVE  ReadInv'
  <2>1. ReadText(t).kind \in Kinds /\ ReadText(t).text \in Texts /\ Normalize(s) \in Keys
    BY ReadTextIsValue, KeysAssumption DEF Normalize
  <2> QED BY <1>2, <2>1, WriteRead
<1>3. ASSUME NEW c \in Clients, NEW r \in Registers, NEW bind \in BOOLEAN, Reg(c, r, bind)
      PROVE  ReadInv'
  BY <1>0, <1>1, <1>3, CallsAssumption DEF Reg, RegScalar, RegVector
<1>4. ASSUME NEW c \in Clients, NEW w \in Sets, SetParam(c, w) PROVE ReadInv'
  BY <1>0, <1>1, <1>4, CallsAssumption DEF SetParam, SetScalar, SetVector
<1>5. ASSUME NEW t \in LuaThreads, NEW w \in LuaSets, LuaSet(t, w) PROVE ReadInv'
  <2>1. CASE w.kind = "other"
    <3>1. UNCHANGED <<val, want, seen, crowded, buf>> /\ pc' = pc
      BY <1>0, <1>5, <2>1 DEF LuaSet, Call, Goto, cont
    <3> QED BY <3>1, ReadFrame
  <2>2. CASE w.kind # "other"
    BY <1>0, <1>1, <1>5, <2>2, CallsAssumption DEF LuaSet
  <2> QED BY <2>1, <2>2
<1>6. ASSUME NEW c \in Clients, NEW kind \in Kinds, NEW s \in Spellings, GetLocked(c, kind, s)
      PROVE  ReadInv'
  <2> DEFINE v == val[kind][Normalize(s)]
             n == [kind |-> kind, key |-> Normalize(s), text |-> v]
  <2>1. /\ pc' = [pc EXCEPT ![c] = "read"] /\ want' = [want EXCEPT ![c] = n]
        /\ seen' = [seen EXCEPT ![c] = {v}] /\ val' = val
        /\ GetScalar(c, kind, Normalize(s)) \/ GetVector(c, kind, Normalize(s))
    BY <1>6 DEF GetLocked, Call, Goto
  <2>2. /\ want \in [Procs -> [kind : Kinds, key : Keys \cup {None},
                                text : MaybeText \cup {Stale}]]
        /\ seen \in [Procs -> SUBSET MaybeText] /\ buf \in [Vectors -> MaybeText]
    BY DEF IInv, WantType, ContType, RestType
  <2>3. /\ pc'[c] = "read" /\ want'[c].kind = kind /\ want'[c].key = Normalize(s)
        /\ want'[c].text = v /\ seen'[c] = {v}
        /\ \A q \in Procs : q # c =>
              pc'[q] = pc[q] /\ want'[q] = want[q] /\ seen'[q] = seen[q]
    BY <1>0, <2>1, <2>2
  <2>4. /\ kind \in Vectors /\ v # None => buf'[kind] = v
        /\ ~(kind \in Vectors /\ v # None) => buf' = buf
        /\ \A j \in Vectors : j # kind => buf'[j] = buf[j]
    BY <2>1, <2>2 DEF GetScalar, GetVector, Filled, Scalars, Vectors
  <2>9. crowded' = (crowded \ {c}) \cup
                     (IF kind \in Vectors /\ v # None THEN Reading(kind) ELSE {})
    BY <1>6 DEF GetLocked
  <2>10. pc[c] = "out"
    BY <1>6 DEF GetLocked, Call
  <2>5. IsFiniteSet({v})
    BY FS_Singleton
  <2> HIDE DEF v, n
  <2>6. ASSUME NEW q \in Procs, q # c, pc[q] = "read", want[q].kind \in Vectors,
               q \notin crowded'
        PROVE  buf'[want[q].kind] = buf[want[q].kind] /\ q \notin crowded
    <3>1. q \notin crowded /\ ~(kind \in Vectors /\ v # None /\ q \in Reading(kind))
      BY <2>6, <2>9
    <3>2. CASE want[q].kind = kind
      <4>1. ~(kind \in Vectors /\ v # None)
        BY <2>6, <3>1, <3>2 DEF Reading
      <4> QED BY <2>4, <3>1, <4>1
    <3>3. CASE want[q].kind # kind
      BY <2>4, <2>6, <3>1, <3>3
    <3> QED BY <3>2, <3>3
  <2>7. ASSUME NEW q \in Procs, q # c
        PROVE  /\ IsFiniteSet(seen'[q])
               /\ pc'[q] = "read" =>
                     /\ val'[want'[q].kind][want'[q].key] \in seen'[q]
                     /\ Had(want'[q], seen'[q])
                     /\ want'[q].kind \in Vectors /\ want'[q].text # None
                           /\ q \notin crowded' => buf'[want'[q].kind] \in seen'[q]
               /\ pc'[q] = "got" /\ want'[q].kind # "bools" =>
                     Had(want'[q], seen'[q]) \/ (want'[q].kind \in Vectors /\ q \in crowded')
    <3>1. pc'[q] = pc[q] /\ want'[q] = want[q] /\ seen'[q] = seen[q] /\ val' = val
      BY <2>1, <2>3, <2>7
    <3>2. q \in crowded => q \in crowded'
      BY <2>7, <2>9
    <3> QED BY <2>6, <2>7, <3>1, <3>2 DEF ReadInv
  <2>8. /\ IsFiniteSet(seen'[c])
        /\ val'[want'[c].kind][want'[c].key] \in seen'[c]
        /\ Had(want'[c], seen'[c])
        /\ want'[c].kind \in Vectors /\ want'[c].text # None => buf'[want'[c].kind] \in seen'[c]
        /\ pc'[c] # "got"
    BY <2>1, <2>3, <2>4, <2>5 DEF Had, v
  <2> QED BY <2>7, <2>8 DEF ReadInv, Had
<1>7. ASSUME NEW c \in Clients, GetCopy(c) PROVE ReadInv'
  <2> DEFINE w == want[c]
  <2>1. PICK r \in Results(c, w.kind, w.key, w.text) :
           /\ pc[c] = "read" /\ pc' = [pc EXCEPT ![c] = "got"]
           /\ want' = [want EXCEPT ![c].text = r] /\ UNCHANGED <<val, seen, crowded, buf>>
    BY <1>7 DEF GetCopy, Goto
  <2>2. w \in [kind : Kinds, key : Keys \cup {None}, text : MaybeText \cup {Stale}]
    BY <1>0 DEF IInv, WantType
  <2>3. /\ Had(w, seen[c]) /\ IsFiniteSet(seen[c])
        /\ w.kind \in Vectors /\ w.text # None /\ c \notin crowded => buf[w.kind] \in seen[c]
    BY <1>0, <2>1 DEF ReadInv
  <2>4. ASSUME w.kind # "bools"
        PROVE  \/ r \in seen[c] \/ (w.kind = "str" /\ Cardinality(seen[c]) > 1)
               \/ w.kind \in Vectors /\ c \in crowded
    <3>1. CASE w.text = None \/ w.kind \in Scalars
      <4>1. r = w.text
        BY <2>1, <3>1 DEF Results, Scalars
      <4> QED BY <2>3, <4>1 DEF Had
    <3>2. CASE w.text # None /\ w.kind \in {"ints", "strs"}
      <4>1. c \in crowded \/ r = buf[w.kind]
        BY <2>1, <3>2 DEF Results, Scalars
      <4> QED BY <2>3, <3>2, <4>1 DEF Vectors
    <3> QED BY <2>2, <2>4, <3>1, <3>2, KindsAre DEF Scalars
  <2>5. /\ pc'[c] = "got" /\ want'[c].kind = w.kind /\ want'[c].text = r
        /\ \A q \in Procs : q # c => pc'[q] = pc[q] /\ want'[q] = want[q]
    BY <1>0, <2>1, <2>2 DEF IInv, WantType
  <2> HIDE DEF w
  <2>6. want'[c].kind # "bools" =>
          Had(want'[c], seen'[c]) \/ (want'[c].kind \in Vectors /\ c \in crowded')
    BY <2>1, <2>4, <2>5 DEF Had
  <2>7. IsFiniteSet(seen'[c]) /\ pc'[c] # "read"
    BY <2>1, <2>3, <2>5
  <2>8. ASSUME NEW q \in Procs, q # c
        PROVE  /\ IsFiniteSet(seen'[q])
               /\ pc'[q] = "read" =>
                     /\ val'[want'[q].kind][want'[q].key] \in seen'[q]
                     /\ Had(want'[q], seen'[q])
                     /\ want'[q].kind \in Vectors /\ want'[q].text # None
                           /\ q \notin crowded' => buf'[want'[q].kind] \in seen'[q]
               /\ pc'[q] = "got" /\ want'[q].kind # "bools" =>
                     Had(want'[q], seen'[q]) \/ (want'[q].kind \in Vectors /\ q \in crowded')
    BY <2>1, <2>5, <2>8 DEF ReadInv
  <2> QED BY <2>6, <2>7, <2>8 DEF ReadInv, Had
<1>8. ASSUME NEW c \in Clients, GetReturns(c) PROVE ReadInv'
  <2>1. /\ pc' = [pc EXCEPT ![c] = "out"] /\ UNCHANGED <<val, buf>>
        /\ \E e : want' = [want EXCEPT ![c] = e]
        /\ seen' = [seen EXCEPT ![c] = {}] /\ crowded' = crowded \ {c}
    BY <1>8 DEF GetReturns, Goto
  <2>2. /\ pc'[c] = "out" /\ seen'[c] = {}
        /\ \A q \in Procs : q # c =>
              /\ pc'[q] = pc[q] /\ want'[q] = want[q] /\ seen'[q] = seen[q]
              /\ (q \in crowded' <=> q \in crowded)
    BY <1>0, <2>1 DEF IInv, WantType, ContType
  <2> QED BY <2>1, <2>2, FS_EmptySet DEF ReadInv, Had
<1>9. ASSUME NEW c \in Clients, ParseArg(c) PROVE ReadInv'
  <2> DEFINE a == Head(todo[c])
             t == IF a.eq THEN a.text ELSE todo[c][2].whole
  <2>1. /\ WriteAll(c, ReadText(t).kind, Normalize(a.key), ReadText(t).text, FALSE)
        /\ UNCHANGED <<pc, buf>>
    BY <1>9 DEF ParseArg
  <2>2. t \in Texts /\ a.key \in Spellings
    BY <1>0, <1>9, ArgToRead
  <2> HIDE DEF t, a
  <2> QED BY <1>0, <1>2, <2>1, <2>2
<1>10. ASSUME NEW p \in Procs, LoadLine(p) PROVE ReadInv'
  <2> DEFINE l == Head(todo[p])
  <2>1. /\ WriteAll(p, ReadText(l.text).kind, Normalize(l.key), ReadText(l.text).text, FALSE)
        /\ UNCHANGED <<pc, buf>>
    BY <1>10 DEF LoadLine
  <2>2. l.text \in Texts /\ l.key \in Spellings
    BY <1>10, LineToRead
  <2> HIDE DEF l
  <2> QED BY <1>2, <2>1, <2>2
<1>11. ASSUME UNCHANGED <<val, want, seen, crowded, buf>>,
              NEW p \in Procs, NEW point \in {"parse", "open", "load", "out", "save", "tolua"},
              pc' = [pc EXCEPT ![p] = point]
       PROVE  ReadInv'
  <2>1. \A q \in Procs : pc'[q] \in {"read", "got"} => pc'[q] = pc[q]
    BY <1>0, <1>11
  <2> QED BY <1>11, <2>1, ReadFrame
<1>12. ASSUME NEW c \in Clients, NEW argv \in Argv, Parse(c, argv) PROVE ReadInv'
  BY <1>0, <1>11, <1>12 DEF Parse, Call, Goto, cont
<1>13. ASSUME NEW c \in Clients, ParseHelp(c) \/ ParseEnd(c) PROVE ReadInv'
  BY <1>0, <1>11, <1>13 DEF ParseHelp, ParseEnd, Goto, cont
<1>14. ASSUME NEW p \in Procs, NEW f \in DOMAIN Disk, Load(p, f) \/ (p \in Clients /\ Save(p, f))
       PROVE  ReadInv'
  <2>1. UNCHANGED <<val, want, seen, crowded, buf>>
    BY <1>14 DEF Load, Save, cont
  <2>2. PICK point \in {"open", "load"} : pc' = [pc EXCEPT ![p] = point]
    BY <1>14 DEF Load, Save, Call, Goto
  <2> QED BY <1>11, <2>1, <2>2
<1>15. ASSUME NEW p \in Procs, LoadEnd(p) \/ SaveOpen(p) \/ SaveWrite(p) PROVE ReadInv'
  <2>1. UNCHANGED <<val, want, seen, crowded, buf>>
    BY <1>15 DEF LoadEnd, SaveOpen, SaveWrite, cont
  <2>2. PICK point \in {"save", "tolua", "out"} : pc' = [pc EXCEPT ![p] = point]
    BY <1>15 DEF LoadEnd, SaveOpen, SaveWrite, Return, Goto
  <2> QED BY <1>11, <2>1, <2>2
<1>16. ASSUME NEW t \in LuaThreads, Reload(t) \/ ToLua(t) PROVE ReadInv'
  BY <1>0, <1>11, <1>16 DEF Reload, ToLua, Call, Goto, cont
<1>17. CASE UNCHANGED vars
  BY <1>17, ReadFrame DEF vars, cont
<1> QED
  BY <1>0, <1>3, <1>4, <1>5, <1>6, <1>7, <1>8, <1>9, <1>10, <1>12, <1>13, <1>14, <1>15, <1>16,
     <1>17
     DEF Next, Over

\* For any callers and values: what a get returns, the parameter was during the call,
\* except for a string that was written meanwhile, a vector whose shared buffer
\* another get has filled again, and vectors of bools.
THEOREM GetsAreCurrent == Spec => []GetIsCurrent
<1>1. ReadInv => GetIsCurrent
  BY DEF ReadInv, Had, GetIsCurrent, Procs
<1> QED BY <1>1, InitRead, NextRead, Inductive, PTL DEF Spec

-----------------------------------------------------------------------------
(* What Lua shows.                                                         *)

\* The value last written to a key is still its value, of one kind or another.
LastInv == \A k \in Keys : Has(k) # {} => \E i \in Has(k) : val[Order[i]][k] = last[k]

LEMMA WriteLast ==
  ASSUME IInv, LastInv, NEW p \in Procs, NEW kind \in Kinds, NEW k \in Keys,
         NEW t \in Texts, NEW bind \in BOOLEAN, WriteAll(p, kind, k, t, bind)
  PROVE  LastInv'
<1>1. val' = [val EXCEPT ![kind][k] = t] /\ last' = [last EXCEPT ![k] = t]
  BY DEF WriteAll
<1>2. /\ \A j \in Kinds, l \in Keys :
            val'[j][l] = IF j = kind /\ l = k THEN t ELSE val[j][l]
      /\ \A l \in Keys : last'[l] = IF l = k THEN t ELSE last[l]
  BY <1>1 DEF IInv, ContType
<1>3. \A i \in 1 .. 6 : Order[i] \in Kinds
  BY DEF Kinds
<1>4. t # None
  BY TextsAssumption
<1> SUFFICES ASSUME NEW l \in Keys, Has(l)' # {}
             PROVE  \E i \in Has(l)' : val'[Order[i]][l] = last'[l]
  BY DEF LastInv
<1>5. CASE l = k
  <2>1. PICK i \in 1 .. 6 : Order[i] = kind
    BY DEF Kinds
  <2>2. val'[Order[i]][l] = t /\ last'[l] = t
    BY <1>2, <1>5, <2>1
  <2> QED BY <1>4, <2>2 DEF Has
<1>6. CASE l # k
  <2>1. last'[l] = last[l] /\ \A i \in 1 .. 6 : val'[Order[i]][l] = val[Order[i]][l]
    BY <1>2, <1>3, <1>6
  <2>2. Has(l)' = Has(l)
    BY <2>1 DEF Has
  <2> QED BY <2>1, <2>2 DEF LastInv, Has
<1> QED BY <1>5, <1>6

LEMMA NextLast == IInv /\ LastInv /\ [Next]_vars => LastInv'
<1> SUFFICES ASSUME IInv, LastInv, [Next]_vars PROVE LastInv'
  OBVIOUS
<1>0. Clients \subseteq Procs /\ LuaThreads \subseteq Procs
  BY DEF Procs
<1>1. ASSUME NEW p \in Procs, NEW w \in Write, NEW bind \in BOOLEAN,
             WriteAll(p, w.kind, Normalize(w.key), w.text, bind)
      PROVE  LastInv'
  <2>1. w.kind \in Kinds /\ w.text \in Texts /\ Normalize(w.key) \in Keys
    BY KeysAssumption DEF Write, Normalize
  <2> QED BY <1>1, <2>1, WriteLast
<1>2. ASSUME NEW p \in Procs, NEW s \in Spellings, NEW t \in Texts,
             WriteAll(p, ReadText(t).kind, Normalize(s), ReadText(t).text, FALSE)
      PROVE  LastInv'
  <2>1. ReadText(t).kind \in Kinds /\ ReadText(t).text \in Texts /\ Normalize(s) \in Keys
    BY ReadTextIsValue, KeysAssumption DEF Normalize
  <2> QED BY <1>2, <2>1, WriteLast
<1>3. ASSUME UNCHANGED <<val, last>> PROVE LastInv'
  BY <1>3 DEF LastInv, Has
<1>4. ASSUME NEW c \in Clients, NEW r \in Registers, NEW bind \in BOOLEAN, Reg(c, r, bind)
      PROVE  LastInv'
  BY <1>0, <1>1, <1>4, CallsAssumption DEF Reg, RegScalar, RegVector
<1>5. ASSUME NEW c \in Clients, NEW w \in Sets, SetParam(c, w) PROVE LastInv'
  BY <1>0, <1>1, <1>5, CallsAssumption DEF SetParam, SetScalar, SetVector
<1>6. ASSUME NEW t \in LuaThreads, NEW w \in LuaSets, LuaSet(t, w) PROVE LastInv'
  BY <1>0, <1>1, <1>3, <1>6, CallsAssumption DEF LuaSet, cont
<1>7. ASSUME NEW c \in Clients, ParseArg(c) PROVE LastInv'
  <2> DEFINE a == Head(todo[c])
             t == IF a.eq THEN a.text ELSE todo[c][2].whole
  <2>1. WriteAll(c, ReadText(t).kind, Normalize(a.key), ReadText(t).text, FALSE)
    BY <1>7 DEF ParseArg
  <2>2. t \in Texts /\ a.key \in Spellings
    BY <1>0, <1>7, ArgToRead
  <2> HIDE DEF t, a
  <2> QED BY <1>0, <1>2, <2>1, <2>2
<1>8. ASSUME NEW p \in Procs, LoadLine(p) PROVE LastInv'
  <2> DEFINE l == Head(todo[p])
  <2>1. WriteAll(p, ReadText(l.text).kind, Normalize(l.key), ReadText(l.text).text, FALSE)
    BY <1>8 DEF LoadLine
  <2>2. l.text \in Texts /\ l.key \in Spellings
    BY <1>8, LineToRead
  <2> HIDE DEF l
  <2> QED BY <1>2, <2>1, <2>2
<1>9. ASSUME NEW p \in Procs,
             \/ LoadEnd(p) \/ SaveOpen(p) \/ SaveWrite(p)
             \/ GetCopy(p) \/ GetReturns(p) \/ ParseHelp(p) \/ ParseEnd(p) \/ Reload(p) \/ ToLua(p)
             \/ (\E f \in DOMAIN Disk : Load(p, f) \/ Save(p, f))
             \/ (\E argv \in Argv : Parse(p, argv))
             \/ (\E kind \in Kinds, s \in Spellings : GetLocked(p, kind, s))
      PROVE  LastInv'
  BY <1>3, <1>9
     DEF LoadEnd, SaveOpen, SaveWrite, GetCopy, GetReturns, ParseHelp, ParseEnd, Reload, ToLua,
         Load, Save, Parse, GetLocked, cont
<1>10. CASE UNCHANGED vars
  BY <1>3, <1>10 DEF vars, cont
<1> QED
  BY <1>0, <1>4, <1>5, <1>6, <1>7, <1>8, <1>9, <1>10 DEF Next, Over

\* A key of one kind is copied from the map that has it.
LEMMA OnlyKind ==
  ASSUME LastInv, NEW k \in Keys, Cardinality(Has(k)) = 1
  PROVE  Has(k) # {} /\ val[LuaKind(k)][k] = last[k]
<1>1. IsFiniteSet(Has(k))
  <2>1. Has(k) \in SUBSET (1 .. 6)
    BY DEF Has
  <2>2. 1 \in Int /\ 6 \in Int
    OBVIOUS
  <2>3. IsFiniteSet(1 .. 6)
    BY <2>2, FS_Interval
  <2> QED BY <2>1, <2>3, FS_Subset
<1>2. PICK i : Has(k) = {i}
  BY <1>1, FS_Singleton
<1>3. val[Order[i]][k] = last[k]
  BY <1>2 DEF LastInv
<1>4. i \in 1 .. 6
  BY <1>2 DEF Has
<1>5. LuaKind(k) = Order[i]
  BY <1>2, <1>4 DEF LuaKind
<1> QED BY <1>2, <1>3, <1>5

\* Only the copy to its table ends a load or reload of a Lua state.
LEMMA OnlyToLua ==
  ASSUME IInv, Next, NEW t \in LuaThreads, pc[t] = "tolua", pc'[t] = "out"
  PROVE  ToLua(t)
<1>0. /\ pc \in [Procs -> {"out", "parse", "load", "open", "save", "tolua", "read", "got"}]
      /\ t \in Procs /\ Clients \subseteq Procs /\ LuaThreads \subseteq Procs
  BY DEF IInv, TodoType, Procs
<1>1. ASSUME NEW p \in Procs, NEW point, pc[p] # "tolua", pc' = [pc EXCEPT ![p] = point]
      PROVE  FALSE
  BY <1>0, <1>1
<1>2. ASSUME NEW p \in Procs, NEW point, Call(p, point) PROVE FALSE
  BY <1>1, <1>2 DEF Call, Goto
<1>3. ASSUME NEW c \in Procs,
             \/ \E r \in Registers, bind \in BOOLEAN : Reg(c, r, bind)
             \/ \E w \in Sets : SetParam(c, w)
             \/ \E kind \in Kinds, s \in Spellings : GetLocked(c, kind, s)
             \/ \E argv \in Argv : Parse(c, argv)
             \/ \E f \in DOMAIN Disk : Load(c, f) \/ Save(c, f)
             \/ Reload(c)
             \/ \E w \in LuaSets : LuaSet(c, w)
      PROVE  FALSE
  BY <1>2, <1>3 DEF Reg, SetParam, GetLocked, Parse, Load, Save, Reload, LuaSet
<1>4. ASSUME NEW p \in Procs,
             \/ GetCopy(p) \/ GetReturns(p) \/ ParseHelp(p) \/ ParseEnd(p)
             \/ LoadEnd(p) \/ SaveOpen(p) \/ SaveWrite(p)
      PROVE  FALSE
  <2>1. pc[p] # "tolua" /\ \E point : pc' = [pc EXCEPT ![p] = point]
    BY <1>4 DEF GetCopy, GetReturns, ParseHelp, ParseEnd, LoadEnd, SaveOpen, SaveWrite,
                Return, Goto
  <2> QED BY <1>1, <1>4, <2>1
<1>5. ASSUME NEW p \in Procs, ParseArg(p) \/ LoadLine(p) PROVE FALSE
  BY <1>5 DEF ParseArg, LoadLine
<1>6. CASE Over
  BY <1>6 DEF Over, vars
<1>7. ASSUME NEW u \in LuaThreads, ToLua(u) PROVE ToLua(t)
  <2>1. pc' = [pc EXCEPT ![u] = "out"]
    BY <1>7 DEF ToLua, Goto
  <2>2. u = t
    BY <1>0, <2>1
  <2> QED BY <1>7, <2>2
<1> QED BY <1>0, <1>3, <1>4, <1>5, <1>6, <1>7 DEF Next

\* For any writers, keys and texts: behind a load or reload a Lua table shows what was
\* written last to every key of one kind.
THEOREM LuaShowsTheLast == Spec => LuaShowsLastWrite
<1>1. Init => LastInv
  <2>1. \A i \in 1 .. 6 : Order[i] \in Kinds
    BY DEF Kinds
  <2> QED BY <2>1 DEF Init, LastInv, Has
<1>2. ASSUME IInv, LastInv, [Next]_vars
      PROVE  [\A t \in LuaThreads :
                pc[t] = "tolua" /\ pc'[t] = "out" /\ ~raced =>
                   \A k \in Keys : Cardinality(Has(k)) = 1 => lua'[t][k] = last[k]]_vars
  <2>1. ASSUME Next, NEW t \in LuaThreads, pc[t] = "tolua", pc'[t] = "out",
               NEW k \in Keys, Cardinality(Has(k)) = 1
        PROVE  lua'[t][k] = last[k]
    <3>1. ToLua(t)
      BY <1>2, <2>1, OnlyToLua
    <3>2. Has(k) # {} /\ val[LuaKind(k)][k] = last[k] /\ k \in Spellings
      BY <1>2, <2>1, OnlyKind, KeysAssumption
    <3>3. lua'[t] = [s \in Spellings |-> IF Copied(t, s) THEN val[LuaKind(s)][s] ELSE lua[t][s]]
      BY <1>2, <3>1 DEF ToLua, IInv, RestType
    <3> QED BY <3>2, <3>3 DEF Copied
  <2> QED BY <1>2, <2>1
<1> QED BY <1>1, <1>2, NextLast, Inductive, PTL DEF Spec, LuaShowsLastWrite
=============================================================================
