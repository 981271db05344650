----------------------------- MODULE AluaProofs -----------------------------
(***************************************************************************)
(* Proofs about Alua, for any widths, calls, C functions and Lua values.   *)
(*                                                                         *)
(* ShapeInv: C++ code and Lua functions take turns, and all but the last   *)
(* function wait for the one above them.  So an error finds a Lua function *)
(* wherever there is one, and the code below it waiting in lua_pcall.      *)
(* StackInv: code that waits has the stack it had before its call, and the *)
(* call's own four values on it; code that lua_pcall has come back to has  *)
(* two of them and the results.                                            *)
(***************************************************************************)
EXTENDS Alua, SequenceTheorems, TLAPS

\* The values and numbers that there ever are.
Function(fun) == [t |-> IF fun THEN "function" ELSE "nil", v |-> 0]
Passed == {Push(c.arg, c.val) : c \in Calls}
Kept   == LuaValues \cup LuaErrors \cup Passed \cup {Nil, ErrorText, Debug, Traceback}
             \cup {Function(fun) : fun \in BOOLEAN}
Taken  == {0} \cup {Pop(ty, x) : ty \in Types, x \in Kept}

FrameOK == [kind : {"cpp", "lua", "c"}, at : {"run", "enter", "pcall", "back"},
            stack : Seq(Kept), base : Nat, top : Nat, files : Nat, failed : BOOLEAN,
            echo : BOOLEAN, call : Calls, got : Taken, fun : CFuns]

TypeInv ==
    /\ frames \in Seq(FrameOK) /\ frames # <<>>
    /\ fault \in {"none", "panic", "undefined"}

\* What a frame is, from its place.
PlaceOf(fs, i) ==
    /\ fs[i].kind = "lua" <=> i % 2 = 0
    /\ fs[i].kind = "cpp" <=> i = 1
    /\ fs[i].kind = "lua" => fs[i].at = "run" /\ fs[i].call = fs[i - 1].call
    /\ fs[i].kind # "lua" => (fs[i].at = "pcall" <=> i < Len(fs))
    /\ fs[i].at = "enter" => fs[i].kind = "c"

ShapeInv == \A i \in 1 .. Len(frames) : PlaceOf(frames, i)

\* As high as code finds the stack after the files that it has run.
Height(f, n) == n \in f.top + 2 * f.files .. f.top + 3 * f.files

\* What is on its part of the stack.
StackOf(f) ==
    LET n == Len(f.stack) IN
    /\ f.at \in {"run", "enter"} => Height(f, n)
    /\ f.at = "enter" => ~f.failed /\ ~f.echo
    /\ f.at = "pcall" => Height(f, f.base) /\ n = f.base + 4
    /\ f.at = "back" =>
          /\ Height(f, f.base)
          /\ f.failed =>
                /\ n = f.base + 3 /\ ~f.echo
                /\ f.call.via # "loadfile" => f.stack[n].t \notin {"integer", "float"}
          /\ ~f.failed /\ f.call.via # "loadfile" => n = f.base + 2 + Wanted(f.call)
          /\ ~f.failed /\ f.call.via = "loadfile" => n \in f.base + 2 .. f.base + 3
          /\ f.echo /\ Wanted(f.call) = 1 => f.stack[n] = Push(f.call.arg, f.call.val)

\* What code that goes on after a call has got.
ResultOf(f) ==
    f.at = "run" =>
       /\ f.failed => f.call.ret \in {"void", "bool", "string", "ptr"}
       /\ f.echo /\ f.call.ret = f.call.arg /\ Abs(f.call.val) <= Mantissa =>
             f.got = f.call.val

FrameInv == \A i \in 1 .. Len(frames) : StackOf(frames[i]) /\ ResultOf(frames[i])

IInv == TypeInv /\ ShapeInv /\ FrameInv

-----------------------------------------------------------------------------
(* Conversions.                                                            *)

\* A number that C++ code passes is the one it gets back, if a double holds it and the
\* conversion back accepts it.
LEMMA EchoIsExact ==
  ASSUME NEW c \in Calls, Abs(c.val) <= Mantissa, c.arg # "vector",
         Accepts(c.arg, Push(c.arg, c.val))
  PROVE  Pop(c.arg, Push(c.arg, c.val)) = c.val
<1>1. /\ IntHalf \in Nat \ {0} /\ LongHalf \in Nat \ {0}
      /\ c.arg \in Types /\ c.val \in Int /\ c.val \in Span(c.arg)
  BY WidthsAssumption, CallsAssumption DEF Call
<1>2. PICK v \in Int : v = c.val
  BY <1>1
<1>3. Double(v) = v
  BY <1>2 DEF Double
<1>4. CASE c.arg = "int"
  <2>1. Push(c.arg, c.val) = [t |-> "integer", v |-> v]
    BY <1>2, <1>4 DEF Push
  <2>2. v \in -IntHalf .. IntHalf - 1
    BY <1>1, <1>2, <1>4 DEF Span, Width
  <2>3. Signed(v, IntHalf) = v
    <3>1. CASE v >= 0
      <4>1. v % (2 * IntHalf) = v
        BY <1>1, <2>2, <3>1
      <4> QED BY <1>1, <2>2, <4>1 DEF Signed, Unsigned
    <3>2. CASE v < 0
      <4>1. v % (2 * IntHalf) = v + 2 * IntHalf
        BY <1>1, <2>2, <3>2
      <4> QED BY <1>1, <2>2, <3>2, <4>1 DEF Signed, Unsigned
    <3> QED BY <3>1, <3>2
  <2> QED BY <1>2, <1>4, <2>1, <2>3 DEF Pop
<1>5. CASE c.arg \in {"uint32", "uint64"}
  <2>1. Push(c.arg, c.val) = [t |-> "float", v |-> v]
    BY <1>2, <1>3, <1>5 DEF Push, Numbers
  <2>2. v \in 0 .. 2 * Width(c.arg) - 1 /\ Width(c.arg) \in Nat \ {0}
    BY <1>1, <1>2, <1>5 DEF Span, Width
  <2>3. v % (2 * Width(c.arg)) = v
    BY <2>2
  <2> QED BY <1>2, <1>5, <2>1, <2>3 DEF Pop, Unsigned, Width
<1>6. CASE c.arg = "int64"
  <2>1. Push(c.arg, c.val) = [t |-> "float", v |-> v]
    BY <1>2, <1>3, <1>6 DEF Push, Numbers
  <2> QED BY <1>2, <1>6, <2>1 DEF Pop
<1>7. CASE c.arg = "bool"
  <2>1. Push(c.arg, c.val) = [t |-> "bool", v |-> v] /\ v \in {0, 1}
    BY <1>1, <1>2, <1>7 DEF Push, Numbers, Span
  <2> QED BY <1>2, <1>7, <2>1 DEF Pop
<1>8. CASE c.arg \in {"string", "ptr"}
  <2>1. \/ c.arg = "string" /\ Push(c.arg, c.val) = [t |-> "string", v |-> v]
        \/ c.arg = "ptr" /\ Push(c.arg, c.val) = [t |-> "light", v |-> v]
    BY <1>2, <1>8 DEF Push, Numbers
  <2> QED BY <1>2, <2>1 DEF Pop
<1> QED BY <1>1, <1>4, <1>5, <1>6, <1>7, <1>8 DEF Types, Numbers

\* Only bool, ptr, string and vector take what is no number.
LEMMA ErrorAccepted ==
  ASSUME NEW ty \in Types, NEW x, x.t \notin {"integer", "float"}, Accepts(ty, x)
  PROVE  ty \in {"bool", "ptr", "string", "vector"}
BY DEF Types, Numbers, Accepts, IsInteger

\* What lua_pcall leaves of an error is no number, but for a file's.
LEMMA FoundFacts ==
  ASSUME NEW c, NEW x \in Kept
  PROVE  /\ Found(c, x) \in Kept
         /\ c.via # "loadfile" => Found(c, x).t \notin {"integer", "float"}
BY DEF Found, Kept, IsText, ErrorText

\* What calls put on the stack is among the values kept.
LEMMA KeptValues ==
  /\ Nil \in Kept /\ ErrorText \in Kept /\ Debug \in Kept /\ Traceback \in Kept
  /\ \A fun \in BOOLEAN : Function(fun) \in Kept
  /\ \A c \in Calls : Push(c.arg, c.val) \in Kept
  /\ LuaValues \subseteq Kept /\ LuaErrors \subseteq Kept
  /\ 0 \in Taken
  /\ \A ty \in Types, x \in Kept : Pop(ty, x) \in Taken
BY DEF Kept, Passed, Taken

-----------------------------------------------------------------------------
(* Sequences.                                                              *)

\* The first elements of a sequence.
LEMMA First ==
  ASSUME NEW S, NEW s \in Seq(S), NEW h \in Nat, h <= Len(s)
  PROVE  /\ SubSeq(s, 1, h) \in Seq(S) /\ Len(SubSeq(s, 1, h)) = h
         /\ \A i \in 1 .. h : SubSeq(s, 1, h)[i] = s[i]
OBVIOUS

\* A sequence with one element more.
LEMMA Longer ==
  ASSUME NEW S, NEW s \in Seq(S), NEW g \in S
  PROVE  /\ Append(s, g) \in Seq(S) /\ Len(Append(s, g)) = Len(s) + 1
         /\ Append(s, g)[Len(s) + 1] = g
         /\ \A i \in 1 .. Len(s) : Append(s, g)[i] = s[i]
OBVIOUS

\* Two sequences after each other.
LEMMA Joined ==
  ASSUME NEW S, NEW s \in Seq(S), NEW t \in Seq(S)
  PROVE  /\ s \o t \in Seq(S) /\ Len(s \o t) = Len(s) + Len(t)
         /\ \A i \in 1 .. Len(t) : (s \o t)[Len(s) + i] = t[i]
OBVIOUS

-----------------------------------------------------------------------------
(* Frames.                                                                 *)

\* The last frames go, and the one that is now the last may have changed; if it is a
\* Lua function it has not.
LEMMA CutInv ==
  ASSUME IInv, NEW h \in 1 .. Len(frames), NEW g \in FrameOK,
         NEW fs \in Seq(FrameOK), Len(fs) = h, fs[h] = g,
         \A i \in 1 .. h - 1 : fs[i] = frames[i],
         g.kind = frames[h].kind,
         g.kind = "lua" => g = frames[h],
         g.kind # "lua" => g.at \in {"run", "back"},
         StackOf(g), ResultOf(g),
         frames' = fs, fault' \in {"none", "panic", "undefined"}
  PROVE  IInv'
<1>1. PICK n \in Nat : n = Len(frames) /\ n >= 1 /\ h \in 1 .. n
  BY DEF IInv, TypeInv
<1>2. TypeInv'
  BY <1>1 DEF TypeInv
<1>3. ASSUME NEW i \in 1 .. h PROVE PlaceOf(fs, i)
  <2>1. PlaceOf(frames, i) /\ i \in 1 .. n
    BY <1>1 DEF IInv, ShapeInv
  <2>2. CASE i < h
    <3>1. fs[i] = frames[i] /\ i < n /\ i < Len(fs)
      BY <1>1, <2>2
    <3>2. i > 1 => fs[i - 1] = frames[i - 1]
      BY <1>1, <2>2
    <3>3. fs[i].kind = "lua" => i > 1
      BY <2>1, <3>1 DEF PlaceOf
    <3> QED BY <1>1, <2>1, <3>1, <3>2, <3>3 DEF PlaceOf
  <2>3. CASE i = h
    <3>1. i > 1 => fs[i - 1] = frames[i - 1]
      BY <1>1, <2>3
    <3>2. g.kind = "lua" => i > 1
      BY <2>1, <2>3 DEF PlaceOf
    <3>3. fs[i] = g /\ ~(i < Len(fs))
      BY <2>3
    <3> QED BY <2>1, <2>3, <3>1, <3>2, <3>3 DEF PlaceOf
  <2> QED BY <2>2, <2>3
<1>4. ShapeInv'
  BY <1>3 DEF ShapeInv, PlaceOf
<1>5. FrameInv'
  <2>1. \A i \in 1 .. h : StackOf(fs[i]) /\ ResultOf(fs[i])
    <3> SUFFICES ASSUME NEW i \in 1 .. h PROVE StackOf(fs[i]) /\ ResultOf(fs[i])
      OBVIOUS
    <3>1. CASE i < h
      BY <1>1, <3>1 DEF IInv, FrameInv
    <3>2. CASE i = h
      BY <3>2
    <3> QED BY <3>1, <3>2
  <2> QED BY <2>1 DEF FrameInv, StackOf, ResultOf
<1> QED BY <1>2, <1>4, <1>5 DEF IInv

\* One frame more, of a function that is called.
LEMMA CallInv ==
  ASSUME IInv, NEW g \in FrameOK, NEW f \in FrameOK, NEW n, n = Len(frames),
         g.kind = frames[n].kind,
         g.kind = "lua" => g = frames[n] /\ f.kind = "c" /\ f.at = "enter",
         g.kind # "lua" => g.at = "pcall" /\ f.kind = "lua" /\ f.at = "run" /\ f.call = g.call,
         StackOf(g), StackOf(f), ResultOf(g), ResultOf(f),
         NEW fs \in Seq(FrameOK), Len(fs) = n + 1, fs[n] = g, fs[n + 1] = f,
         \A i \in 1 .. n - 1 : fs[i] = frames[i],
         frames' = fs, UNCHANGED fault
  PROVE  IInv'
<1>1. n \in Nat /\ n >= 1
  BY DEF IInv, TypeInv
<1>2. TypeInv'
  BY <1>1 DEF IInv, TypeInv
<1>3. ASSUME NEW i \in 1 .. n + 1 PROVE PlaceOf(fs, i) /\ StackOf(fs[i]) /\ ResultOf(fs[i])
  <2>1. CASE i < n
    <3>1. PlaceOf(frames, i) /\ StackOf(frames[i]) /\ ResultOf(frames[i])
      BY <1>1, <2>1 DEF IInv, ShapeInv, FrameInv
    <3>2. fs[i] = frames[i] /\ (i > 1 => fs[i - 1] = frames[i - 1])
      BY <1>1, <2>1
    <3>3. fs[i].kind = "lua" => i > 1
      BY <3>1, <3>2 DEF PlaceOf
    <3> QED BY <1>1, <2>1, <3>1, <3>2, <3>3 DEF PlaceOf
  <2>2. CASE i = n
    <3>1. PlaceOf(frames, n)
      BY <1>1 DEF IInv, ShapeInv
    <3>2. fs[i] = g /\ (i > 1 => fs[i - 1] = frames[i - 1])
      BY <1>1, <2>2
    <3>3. g.kind = "lua" => i > 1
      BY <2>2, <3>1 DEF PlaceOf
    <3>4. g.kind # "lua" => g.at = "pcall" /\ i < Len(fs)
      BY <1>1, <2>2
    <3> QED BY <1>1, <2>2, <3>1, <3>2, <3>3, <3>4 DEF PlaceOf
  <2>3. CASE i = n + 1
    <3>1. PlaceOf(frames, n)
      BY <1>1 DEF IInv, ShapeInv
    <3>2. fs[i] = f /\ fs[i - 1] = g /\ ~(i < Len(fs)) /\ i # 1
      BY <1>1, <2>3
    <3>3. g.kind = "lua" <=> n % 2 = 0
      BY <3>1 DEF PlaceOf
    <3>4. (n + 1) % 2 = 0 <=> n % 2 # 0
      BY <1>1
    <3> QED BY <2>3, <3>2, <3>3, <3>4 DEF PlaceOf
  <2> QED BY <1>1, <2>1, <2>2, <2>3
<1>4. ShapeInv'
  BY <1>3 DEF ShapeInv, PlaceOf
<1>5. FrameInv'
  BY <1>3 DEF FrameInv, StackOf, ResultOf
<1> QED BY <1>2, <1>4, <1>5 DEF IInv

-----------------------------------------------------------------------------
(* lua_pcall comes back.                                                   *)

\* Half of what the call has put on the stack goes, and values come.
LEMMA BackStack ==
  ASSUME NEW f \in FrameOK, StackOf(f), f.at = "pcall", NEW vs \in Seq(Kept)
  PROVE  SubSeq(f.stack, 1, f.base + 2) \o vs \in Seq(Kept)
<1>1. PICK s \in Seq(Kept), b \in Nat : s = f.stack /\ b = f.base /\ Len(s) = b + 4
  BY DEF FrameOK, StackOf
<1>2. SubSeq(s, 1, b + 2) \in Seq(Kept)
  BY <1>1, First
<1>3. SubSeq(s, 1, b + 2) \o vs \in Seq(Kept)
  BY <1>2, Joined
<1> QED BY <1>1, <1>3

\* The code that called lua_pcall gets values.
LEMMA BackOK ==
  ASSUME NEW f \in FrameOK, StackOf(f), f.at = "pcall", NEW vs \in Seq(Kept),
         NEW g \in FrameOK, g.at = "back", g.stack = SubSeq(f.stack, 1, f.base + 2) \o vs,
         g.base = f.base, g.top = f.top, g.files = f.files, g.call = f.call,
         g.failed =>
            /\ Len(vs) = 1 /\ ~g.echo
            /\ f.call.via # "loadfile" => vs[1].t \notin {"integer", "float"},
         ~g.failed /\ f.call.via # "loadfile" => Len(vs) = Wanted(f.call),
         Len(vs) <= 1 \/ f.call.via # "loadfile",
         g.echo /\ Wanted(f.call) = 1 =>
            Len(vs) >= 1 /\ vs[Len(vs)] = Push(f.call.arg, f.call.val)
  PROVE  StackOf(g) /\ ResultOf(g)
<1>1. PICK s \in Seq(Kept), b \in Nat :
         s = f.stack /\ b = f.base /\ Height(f, b) /\ Len(s) = b + 4
  BY DEF FrameOK, StackOf
<1>2. PICK low \in Seq(Kept) : low = SubSeq(s, 1, b + 2) /\ Len(low) = b + 2
  <2>1. SubSeq(s, 1, b + 2) \in Seq(Kept) /\ Len(SubSeq(s, 1, b + 2)) = b + 2
    BY <1>1, First
  <2> QED BY <2>1, Zenon
<1>3. PICK n \in Nat : n = Len(vs)
  <2>1. Len(vs) \in Nat
    BY LenProperties
  <2> QED BY <2>1, Zenon
<1>4. PICK new \in Seq(Kept) : new = low \o vs
  <2>1. low \o vs \in Seq(Kept)
    BY <1>2
  <2> QED BY <2>1
<1>5. Len(new) = b + 2 + n /\ (n >= 1 => new[b + 2 + n] = vs[n])
  <2>1. \A i \in 1 .. Len(vs) : (low \o vs)[Len(low) + i] = vs[i]
    BY <1>2, Joined
  <2>2. Len(low \o vs) = Len(low) + Len(vs)
    BY <1>2, Joined
  <2> QED BY <1>2, <1>3, <1>4, <2>1, <2>2
<1>6. g.stack = new /\ g.base = b /\ Height(g, b) /\ g.call = f.call
  BY <1>1, <1>2, <1>4 DEF Height
<1>7. ASSUME g.failed
      PROVE  /\ Len(new) = b + 3 /\ ~g.echo
             /\ g.call.via # "loadfile" => new[Len(new)].t \notin {"integer", "float"}
  <2>1. n = 1 /\ ~g.echo /\ (f.call.via # "loadfile" => vs[1].t \notin {"integer", "float"})
    BY <1>3, <1>7, Zenon
  <2>2. Len(new) = b + 3 /\ new[b + 3] = vs[1]
    BY <1>5, <2>1
  <2> QED BY <1>6, <2>1, <2>2, Zenon
<1>8. ~g.failed /\ g.call.via # "loadfile" => Len(new) = b + 2 + Wanted(g.call)
  BY <1>3, <1>5, <1>6
<1>9. g.call.via = "loadfile" => Len(new) \in b + 2 .. b + 3
  BY <1>3, <1>5, <1>6
<1>10. g.echo /\ Wanted(g.call) = 1 => new[Len(new)] = Push(g.call.arg, g.call.val)
  BY <1>3, <1>5, <1>6
<1> QED BY <1>6, <1>7, <1>8, <1>9, <1>10 DEF StackOf, ResultOf

\* What is left of an error, as the only value.
LEMMA ErrorBack ==
  ASSUME NEW f \in FrameOK, StackOf(f), f.at = "pcall", f.kind # "lua",
         NEW x \in Kept, f.call.via # "loadfile" => x.t \notin {"integer", "float"},
         NEW g, g = Back(f, <<x>>, TRUE)
  PROVE  g \in FrameOK /\ g.kind = f.kind /\ g.at = "back" /\ StackOf(g) /\ ResultOf(g)
<1>1. PICK vs \in Seq(Kept) : vs = <<x>> /\ Len(vs) = 1 /\ vs[1] = x
  <2>1. <<x>> \in Seq(Kept)
    OBVIOUS
  <2> QED BY <2>1
<1>2. g = [f EXCEPT !.at = "back", !.stack = SubSeq(f.stack, 1, f.base + 2) \o vs,
                    !.failed = TRUE, !.echo = FALSE]
  BY <1>1 DEF Back, FrameOK
<1>3. /\ g.kind = f.kind /\ g.at = "back" /\ g.base = f.base /\ g.top = f.top
      /\ g.files = f.files /\ g.call = f.call /\ g.stack = SubSeq(f.stack, 1, f.base + 2) \o vs
      /\ g.failed /\ ~g.echo
  BY <1>2 DEF FrameOK
<1>4. g \in FrameOK
  <2>1. SubSeq(f.stack, 1, f.base + 2) \o vs \in Seq(Kept)
    BY BackStack
  <2> QED BY <1>2, <2>1 DEF FrameOK
<1>5. /\ g.failed =>
            /\ Len(vs) = 1 /\ ~g.echo
            /\ f.call.via # "loadfile" => vs[1].t \notin {"integer", "float"}
      /\ Len(vs) <= 1 \/ f.call.via # "loadfile"
  <2>1. f.call.via # "loadfile" => vs[1].t \notin {"integer", "float"}
    BY <1>1, Zenon
  <2>2. Len(vs) <= 1
    BY <1>1
  <2> QED BY <1>1, <1>3, <2>1, <2>2, Zenon
<1>6. StackOf(g) /\ ResultOf(g)
  BY <1>3, <1>4, <1>5, BackOK
<1> QED BY <1>3, <1>4, <1>6

\* The last Lua function is the last function, or the one before it.
LEMMA LastProtected ==
  ASSUME IInv, NEW last, last = CHOOSE i \in Protected : \A j \in Protected : j <= i
  PROVE  /\ Protected = {} <=> Len(frames) = 1
         /\ Protected # {} => last \in 2 .. Len(frames) /\ last % 2 = 0
<1>1. PICK n \in Nat : n = Len(frames) /\ n >= 1
  BY DEF IInv, TypeInv
<1>2. Protected = {i \in 2 .. n : i % 2 = 0}
  BY <1>1 DEF Protected, IInv, ShapeInv, PlaceOf
<1>3. n >= 2 => Protected # {}
  <2> SUFFICES ASSUME n >= 2 PROVE 2 \in Protected
    OBVIOUS
  <2> QED BY <1>1, <1>2
<1>4. n >= 2 => \E i \in Protected : \A j \in Protected : j <= i
  <2> SUFFICES ASSUME n >= 2 PROVE \E i \in Protected : \A j \in Protected : j <= i
    OBVIOUS
  <2>1. CASE n % 2 = 0
    <3>1. n \in Protected /\ \A j \in Protected : j <= n
      BY <1>1, <1>2, <2>1
    <3> QED BY <3>1
  <2>2. CASE n % 2 # 0
    <3>1. n - 1 \in 2 .. n /\ (n - 1) % 2 = 0
      BY <1>1, <2>2
    <3>2. \A j \in Protected : j <= n - 1
      BY <1>1, <1>2, <2>2
    <3> QED BY <1>2, <3>1, <3>2
  <2> QED BY <2>1, <2>2
<1>5. n = 1 => Protected = {}
  BY <1>2
<1>6. Protected # {} => last \in Protected
  BY <1>1, <1>3, <1>4, <1>5
<1>7. Protected # {} => last \in 2 .. Len(frames) /\ last % 2 = 0
  BY <1>1, <1>2, <1>6
<1>8. Protected = {} <=> Len(frames) = 1
  BY <1>1, <1>3, <1>5
<1> QED BY <1>7, <1>8

\* An error comes to the last lua_pcall under way, or ends the process.
LEMMA RaiseInv ==
  ASSUME IInv, NEW x \in Kept, Raise(x)
  PROVE  IInv'
<1>1. PICK n \in Nat : n = Len(frames) /\ n >= 1
  BY DEF IInv, TypeInv
<1>2. CASE Protected = {}
  BY <1>2 DEF Raise, IInv, TypeInv, ShapeInv, FrameInv, PlaceOf, StackOf, Height, ResultOf
<1>3. CASE Protected # {}
  <2>1. PICK last : last = CHOOSE i \in Protected : \A j \in Protected : j <= i
    OBVIOUS
  <2>2. last \in 2 .. n /\ last % 2 = 0
    BY <1>1, <1>3, <2>1, LastProtected
  <2>3. PICK h \in 1 .. n - 1 : h = last - 1 /\ h % 2 # 0
    <3>1. last - 1 \in 1 .. n - 1 /\ (last - 1) % 2 # 0
      BY <2>2
    <3> QED BY <3>1
  <2>4. PICK f \in FrameOK : f = frames[h] /\ f.kind # "lua" /\ f.at = "pcall" /\ StackOf(f)
    <3>1. h \in 1 .. n /\ h < n
      BY <1>1, <2>3
    <3> QED BY <1>1, <2>3, <3>1 DEF IInv, TypeInv, ShapeInv, FrameInv, PlaceOf
  <2>5. PICK g \in FrameOK : /\ g = Back(f, <<Found(f.call, x)>>, TRUE)
                             /\ g.kind = f.kind /\ g.at = "back" /\ StackOf(g) /\ ResultOf(g)
    BY <2>4, FoundFacts, ErrorBack
  <2>6. PICK low \in Seq(FrameOK) :
           low = SubSeq(frames, 1, h) /\ Len(low) = h /\ \A i \in 1 .. h : low[i] = frames[i]
    <3>1. frames \in Seq(FrameOK) /\ h \in Nat /\ h <= Len(frames)
      BY <1>1, <2>3 DEF IInv, TypeInv
    <3>2. /\ SubSeq(frames, 1, h) \in Seq(FrameOK) /\ Len(SubSeq(frames, 1, h)) = h
          /\ \A i \in 1 .. h : SubSeq(frames, 1, h)[i] = frames[i]
      BY <3>1, First, Zenon
    <3> QED BY <3>2, Zenon
  <2>8. PICK fs : fs = [low EXCEPT ![h] = g]
    OBVIOUS
  <2>9. fs \in Seq(FrameOK) /\ Len(fs) = h /\ fs[h] = g /\ \A i \in 1 .. h - 1 : fs[i] = frames[i]
    <3>1. /\ fs \in Seq(FrameOK) /\ Len(fs) = h /\ fs[h] = g
          /\ \A i \in 1 .. h : i # h => fs[i] = low[i]
      <4>1. h \in 1 .. Len(low)
        BY <2>3, <2>6
      <4>2. /\ [low EXCEPT ![h] = g] \in Seq(FrameOK) /\ Len([low EXCEPT ![h] = g]) = Len(low)
            /\ [low EXCEPT ![h] = g][h] = g
            /\ \A i \in 1 .. Len(low) : i # h => [low EXCEPT ![h] = g][i] = low[i]
        BY <4>1
      <4> QED BY <2>6, <2>8, <4>2, Zenon
    <3>2. \A i \in 1 .. h - 1 : i \in 1 .. h /\ i # h
      BY <2>3
    <3> QED BY <2>6, <3>1, <3>2
  <2>10. frames' = fs /\ fault' = fault
    <3>1. low[h] = f
      BY <2>3, <2>4, <2>6
    <3>2. frames' = [SubSeq(frames, 1, last - 1) EXCEPT
                        ![last - 1] = Back(SubSeq(frames, 1, last - 1)[last - 1],
                                           <<Found(SubSeq(frames, 1, last - 1)[last - 1].call, x)>>,
                                           TRUE)]
          /\ fault' = fault
      BY <1>3, <2>1 DEF Raise
    <3> QED BY <2>3, <2>5, <2>6, <2>8, <3>1, <3>2
  <2>11. h \in 1 .. Len(frames) /\ g.kind = frames[h].kind /\ g.kind # "lua" /\ g.at = "back"
    <3>1. h \in 1 .. Len(frames)
      BY <1>1, <2>3
    <3> QED BY <2>4, <2>5, <3>1, Zenon
  <2>12. fault' \in {"none", "panic", "undefined"}
    BY <2>10 DEF IInv, TypeInv
  <2> QED BY <2>5, <2>9, <2>10, <2>11, <2>12, CutInv
<1> QED BY <1>2, <1>3

\* A Lua function returns to the code that waits for it.
LEMMA ReturnInv ==
  ASSUME IInv, NEW vs \in Seq(Kept), NEW echo \in BOOLEAN, Return(vs, echo),
         Len(vs) <= 1,
         echo => vs = <<Push(Top.call.arg, Top.call.val)>>
  PROVE  IInv'
<1>1. PICK n \in Nat : n = Len(frames) /\ n >= 1
  BY DEF IInv, TypeInv
<1>2. frames[n].kind = "lua" /\ n % 2 = 0 /\ n >= 2
  <2>1. frames[n].kind = "lua"
    BY <1>1 DEF Return, InLua, Top
  <2>2. n % 2 = 0
    BY <1>1, <2>1 DEF IInv, ShapeInv, PlaceOf
  <2> QED BY <1>1, <2>1, <2>2
<1>3. PICK h \in 1 .. n - 1 : h = n - 1 /\ h % 2 # 0 /\ h \in 1 .. n /\ h < n
  <2>1. n - 1 \in 1 .. n - 1 /\ (n - 1) % 2 # 0 /\ n - 1 \in 1 .. n /\ n - 1 < n
    BY <1>1, <1>2
  <2> QED BY <2>1
<1>4. PICK f \in FrameOK : f = frames[h] /\ f.kind # "lua" /\ f.at = "pcall" /\ StackOf(f)
  BY <1>1, <1>3 DEF IInv, TypeInv, ShapeInv, FrameInv, PlaceOf
<1>5. frames[n].call = f.call
  BY <1>1, <1>2, <1>3, <1>4 DEF IInv, ShapeInv, PlaceOf
<1>6. Wanted(f.call) \in {0, 1, 2}
  BY DEF Wanted
<1>7. PICK ws \in Seq(Kept) :
         /\ ws = Adjusted(f.call, vs)
         /\ f.call.via # "loadfile" => Len(ws) = Wanted(f.call)
         /\ Len(ws) <= 1 \/ f.call.via # "loadfile"
         /\ echo /\ Wanted(f.call) = 1 =>
               Len(ws) >= 1 /\ ws[Len(ws)] = Push(f.call.arg, f.call.val)
  <2>0. PICK w \in {0, 1, 2} : w = Wanted(f.call)
    BY <1>6
  <2>1. Len(vs) \in Nat /\ \A i \in 1 .. Len(vs) : vs[i] \in Kept
    OBVIOUS
  <2>2. PICK ws : ws = Adjusted(f.call, vs)
    OBVIOUS
  <2>3. echo => Len(vs) = 1 /\ vs[1] = Push(f.call.arg, f.call.val)
    BY <1>1, <1>5 DEF Top
  <2>4. CASE f.call.via = "loadfile"
    <3>1. vs = Adjusted(f.call, vs)
      BY <2>4, Zenon DEF Adjusted
    <3>2. Len(vs) <= 1
      BY Zenon
    <3>3. echo /\ Wanted(f.call) = 1 => Len(vs) >= 1 /\ vs[Len(vs)] = Push(f.call.arg, f.call.val)
      BY <2>3
    <3> WITNESS vs \in Seq(Kept)
    <3> QED BY <2>4, <3>1, <3>2, <3>3, Zenon
  <2>5. CASE f.call.via # "loadfile"
    <3>1. ws = [i \in 1 .. w |-> IF i <= Len(vs) THEN vs[i] ELSE Nil]
      BY <2>0, <2>2, <2>5 DEF Adjusted
    <3>2. \A i \in 1 .. w : ws[i] \in Kept
      BY <2>1, <3>1, KeptValues
    <3>3. ws \in Seq(Kept) /\ Len(ws) = w
      BY <2>0, <3>1, <3>2
    <3>4. echo /\ w = 1 => ws[1] = Push(f.call.arg, f.call.val)
      BY <2>3, <3>1
    <3> QED BY <2>0, <2>2, <2>5, <3>3, <3>4
  <2> QED BY <2>4, <2>5
<1>8. PICK g : g = [Back(f, ws, FALSE) EXCEPT !.echo = echo]
  OBVIOUS
<1>9. g = [f EXCEPT !.at = "back", !.stack = SubSeq(f.stack, 1, f.base + 2) \o ws,
                    !.failed = FALSE, !.echo = echo]
  BY <1>4, <1>8 DEF Back, FrameOK
<1>10. g \in FrameOK /\ g.kind = f.kind /\ g.at = "back" /\ StackOf(g) /\ ResultOf(g)
  <2>1. /\ g.kind = f.kind /\ g.at = "back" /\ g.base = f.base /\ g.top = f.top
        /\ g.files = f.files /\ g.call = f.call
        /\ g.stack = SubSeq(f.stack, 1, f.base + 2) \o ws
        /\ g.failed = FALSE /\ g.echo = echo
    BY <1>9 DEF FrameOK
  <2>2. g \in FrameOK
    <3>1. SubSeq(f.stack, 1, f.base + 2) \o ws \in Seq(Kept)
      BY <1>4, BackStack
    <3> QED BY <1>9, <3>1 DEF FrameOK
  <2>3. g.echo /\ Wanted(f.call) = 1 =>
           Len(ws) >= 1 /\ ws[Len(ws)] = Push(f.call.arg, f.call.val)
    BY <1>7, <2>1, Zenon
  <2>4. /\ ~g.failed /\ f.call.via # "loadfile" => Len(ws) = Wanted(f.call)
        /\ Len(ws) <= 1 \/ f.call.via # "loadfile"
    BY <1>7, Zenon
  <2>5. ~g.failed
    BY <2>1, Zenon
  <2>6. StackOf(g) /\ ResultOf(g)
    BY <1>4, <2>1, <2>2, <2>3, <2>4, <2>5, BackOK
  <2> QED BY <2>1, <2>2, <2>6, Zenon
<1>11. PICK low \in Seq(FrameOK) :
          low = SubSeq(frames, 1, n - 2) /\ Len(low) = n - 2 /\ \A i \in 1 .. n - 2 : low[i] = frames[i]
  <2>1. frames \in Seq(FrameOK) /\ n - 2 \in Nat /\ n - 2 <= Len(frames)
    BY <1>1, <1>2 DEF IInv, TypeInv
  <2>2. /\ SubSeq(frames, 1, n - 2) \in Seq(FrameOK) /\ Len(SubSeq(frames, 1, n - 2)) = n - 2
        /\ \A i \in 1 .. n - 2 : SubSeq(frames, 1, n - 2)[i] = frames[i]
    BY <2>1, First
  <2> QED BY <2>2, Zenon
<1>12. PICK fs : fs = Append(low, g)
  OBVIOUS
<1>13. fs \in Seq(FrameOK) /\ Len(fs) = h /\ fs[h] = g /\ \A i \in 1 .. h - 1 : fs[i] = frames[i]
  BY <1>1, <1>2, <1>3, <1>10, <1>11, <1>12
<1>14. frames' = fs /\ fault' = fault
  BY <1>1, <1>3, <1>4, <1>7, <1>8, <1>11, <1>12 DEF Return
<1>15. fault' \in {"none", "panic", "undefined"} /\ h \in 1 .. Len(frames)
  BY <1>1, <1>3, <1>14 DEF IInv, TypeInv
<1> QED BY <1>4, <1>10, <1>13, <1>14, <1>15, CutInv

-----------------------------------------------------------------------------
(* The actions.                                                            *)

\* The code that begins a call is the last frame, and at work.
LEMMA BeginTop ==
  ASSUME IInv, Begin
  PROVE  \E n \in Nat, f \in FrameOK :
            /\ n = Len(frames) /\ n >= 1 /\ f = frames[n]
            /\ f.kind # "lua" /\ f.at = "run" /\ StackOf(f)
<1>1. Len(frames) \in Nat /\ Len(frames) >= 1 /\ Len(frames) \in 1 .. Len(frames)
  BY DEF IInv, TypeInv
<1>2. Top = frames[Len(frames)] /\ Top \in FrameOK /\ StackOf(Top)
  BY <1>1 DEF Top, IInv, TypeInv, FrameInv
<1> QED BY <1>1, <1>2 DEF Begin

\* What a call puts on the stack.
LEMMA PushedOK ==
  ASSUME NEW f \in FrameOK, f.kind # "lua", f.at = "run", StackOf(f), NEW c \in Calls,
         NEW g, g = Pushed(f, c)
  PROVE  /\ g \in FrameOK /\ g.kind = f.kind /\ g.at = "pcall" /\ g.call = c
         /\ Height(g, g.base) /\ Len(g.stack) = g.base + 4 /\ ResultOf(g)
<1>1. PICK s \in Seq(Kept) : s = f.stack /\ Len(s) \in Nat /\ Height(f, Len(s))
  BY DEF FrameOK, StackOf
<1>2. PICK vs \in Seq(Kept) :
         /\ vs = <<Debug, Traceback, Function(c.fun), Push(c.arg, c.val)>>
         /\ Len(vs) = 4
  <2>1. c.fun \in BOOLEAN
    BY CallsAssumption DEF Call
  <2>2. <<Debug, Traceback, Function(c.fun), Push(c.arg, c.val)>> \in Seq(Kept)
    BY <2>1, KeptValues
  <2> QED BY <2>2
<1>3. PICK new \in Seq(Kept) : new = s \o vs /\ Len(new) = Len(s) + 4
  <2>1. s \o vs \in Seq(Kept) /\ Len(s \o vs) = Len(s) + 4
    BY <1>1, <1>2
  <2> QED BY <2>1
<1>4. g = [f EXCEPT !.at = "pcall", !.base = Len(s), !.stack = new, !.call = c]
  BY <1>1, <1>2, <1>3 DEF Pushed, Function, FrameOK
<1>5. /\ g.at = "pcall" /\ g.base = Len(s) /\ Height(g, Len(s)) /\ g.stack = new
      /\ g.call = c /\ g.kind = f.kind
  BY <1>1, <1>4 DEF FrameOK, Height
<1>6. g \in FrameOK
  BY <1>1, <1>4 DEF FrameOK
<1> QED BY <1>3, <1>5, <1>6 DEF ResultOf

\* A function that begins has an empty result and its arguments on the stack.
LEMMA NewOK ==
  ASSUME NEW kind \in {"lua", "c"}, NEW at \in {"run", "enter"}, NEW s \in Seq(Kept),
         NEW c \in Calls, NEW fun \in CFuns, NEW f, f = NewFrame(kind, at, s, c, fun)
  PROVE  /\ f \in FrameOK /\ f.kind = kind /\ f.at = at /\ f.call = c
         /\ StackOf(f) /\ ResultOf(f)
<1>1. Len(s) \in Nat
  BY LenProperties
<1>2. f = [kind |-> kind, at |-> at, stack |-> s, base |-> 0, top |-> Len(s), files |-> 0,
           failed |-> FALSE, echo |-> FALSE, call |-> c, got |-> 0, fun |-> fun]
  BY DEF NewFrame
<1>3. f \in FrameOK
  BY <1>1, <1>2, KeptValues DEF FrameOK
<1> QED BY <1>1, <1>2, <1>3 DEF StackOf, Height, ResultOf

\* A call of a Lua function keeps the invariant.
LEMMA CallLuaInv ==
  ASSUME IInv, NEW c \in Calls, CallLua(c)
  PROVE  IInv'
<1>1. PICK n \in Nat, f \in FrameOK :
         /\ n = Len(frames) /\ n >= 1 /\ f = frames[n]
         /\ f.kind # "lua" /\ f.at = "run" /\ StackOf(f)
  BY BeginTop DEF CallLua
<1>2. PICK g \in FrameOK :
         /\ g = Pushed(f, c) /\ g.kind = f.kind /\ g.at = "pcall" /\ g.call = c
         /\ Height(g, g.base) /\ Len(g.stack) = g.base + 4 /\ ResultOf(g)
  <2>1. PICK g : g = Pushed(f, c)
    OBVIOUS
  <2>2. /\ g \in FrameOK /\ g.kind = f.kind /\ g.at = "pcall" /\ g.call = c
        /\ Height(g, g.base) /\ Len(g.stack) = g.base + 4 /\ ResultOf(g)
    BY <1>1, <2>1, PushedOK
  <2> QED BY <2>1, <2>2
<1>3. StackOf(g)
  BY <1>2 DEF StackOf
<1>4. PICK fun \in CFuns : fun = CHOOSE x \in CFuns : TRUE
  BY CallsAssumption
<1>5. PICK new \in FrameOK :
         /\ new = NewFrame("lua", "run", <<>>, c, fun) /\ new.kind = "lua" /\ new.at = "run"
         /\ new.call = c /\ StackOf(new) /\ ResultOf(new)
  <2>1. PICK s \in Seq(Kept) : s = <<>>
    <3>1. <<>> \in Seq(Kept)
      OBVIOUS
    <3> QED BY <3>1, Zenon
  <2>2. PICK new : new = NewFrame("lua", "run", s, c, fun)
    OBVIOUS
  <2>3. /\ new \in FrameOK /\ new.kind = "lua" /\ new.at = "run"
        /\ new.call = c /\ StackOf(new) /\ ResultOf(new)
    BY <2>2, NewOK
  <2> QED BY <2>1, <2>2, <2>3
<1>6. PICK low : low = [frames EXCEPT ![n] = g]
  OBVIOUS
<1>7. low \in Seq(FrameOK) /\ Len(low) = n /\ low[n] = g /\ \A i \in 1 .. n - 1 : low[i] = frames[i]
  BY <1>1, <1>6 DEF IInv, TypeInv
<1>8. PICK fs : fs = Append(low, new)
  OBVIOUS
<1>9. /\ fs \in Seq(FrameOK) /\ Len(fs) = n + 1 /\ fs[n] = g /\ fs[n + 1] = new
      /\ \A i \in 1 .. n - 1 : fs[i] = frames[i]
  BY <1>1, <1>7, <1>8
<1>10. frames' = fs /\ UNCHANGED fault
  BY <1>1, <1>2, <1>4, <1>5, <1>6, <1>8 DEF CallLua
<1> QED BY <1>1, <1>2, <1>3, <1>5, <1>9, <1>10, CallInv

\* So does a call of what is no function.
LEMMA NoFunctionInv ==
  ASSUME IInv, NEW c \in Calls, NoFunction(c)
  PROVE  IInv'
<1>1. PICK n \in Nat, f \in FrameOK :
         /\ n = Len(frames) /\ n >= 1 /\ f = frames[n]
         /\ f.kind # "lua" /\ f.at = "run" /\ StackOf(f)
  BY BeginTop DEF NoFunction
<1>2. PICK p \in FrameOK :
         /\ p = Pushed(f, c) /\ p.kind = f.kind /\ p.at = "pcall" /\ p.call = c
         /\ Height(p, p.base) /\ Len(p.stack) = p.base + 4
  <2>1. PICK p : p = Pushed(f, c)
    OBVIOUS
  <2>2. /\ p \in FrameOK /\ p.kind = f.kind /\ p.at = "pcall" /\ p.call = c
        /\ Height(p, p.base) /\ Len(p.stack) = p.base + 4
    BY <1>1, <2>1, PushedOK
  <2> QED BY <2>1, <2>2
<1>3. StackOf(p)
  BY <1>2 DEF StackOf
<1>4. PICK g : g = Back(p, <<ErrorText>>, TRUE)
  OBVIOUS
<1>5. g \in FrameOK /\ g.kind = p.kind /\ g.at = "back" /\ StackOf(g) /\ ResultOf(g)
  <2>1. ErrorText \in Kept /\ (p.call.via # "loadfile" => ErrorText.t \notin {"integer", "float"})
    BY KeptValues DEF ErrorText
  <2>2. p.kind # "lua"
    BY <1>1, <1>2
  <2> QED BY <1>2, <1>3, <1>4, <2>1, <2>2, ErrorBack, Zenon
<1>6. PICK fs : fs = [frames EXCEPT ![n] = g]
  OBVIOUS
<1>7. /\ fs \in Seq(FrameOK) /\ Len(fs) = n /\ fs[n] = g
      /\ \A i \in 1 .. n - 1 : fs[i] = frames[i]
  BY <1>1, <1>5, <1>6 DEF IInv, TypeInv
<1>8. frames' = fs /\ fault' = fault
  BY <1>1, <1>2, <1>4, <1>6 DEF NoFunction
<1>9. n \in 1 .. Len(frames) /\ fault' \in {"none", "panic", "undefined"}
  BY <1>1, <1>8 DEF IInv, TypeInv
<1> QED BY <1>1, <1>2, <1>5, <1>7, <1>8, <1>9, CutInv

\* The last frame.
LEMMA LastFrame ==
  ASSUME IInv
  PROVE  \E n \in Nat, f \in FrameOK :
            /\ n = Len(frames) /\ n >= 1 /\ n \in 1 .. n /\ f = frames[n] /\ f = Top
            /\ StackOf(f) /\ ResultOf(f)
<1>1. Len(frames) \in Nat /\ Len(frames) >= 1 /\ Len(frames) \in 1 .. Len(frames)
  BY DEF IInv, TypeInv
<1>2. Top = frames[Len(frames)] /\ Top \in FrameOK /\ StackOf(Top) /\ ResultOf(Top)
  BY <1>1 DEF Top, IInv, TypeInv, FrameInv
<1> QED BY <1>1, <1>2

\* The last frame changes, and stays the code that it is.
LEMMA ChangeInv ==
  ASSUME IInv, NEW n \in Nat, n = Len(frames), n >= 1,
         NEW g \in FrameOK, g.kind = frames[n].kind, g.kind # "lua", g.at \in {"run", "back"},
         StackOf(g), ResultOf(g), frames' = [frames EXCEPT ![n] = g], UNCHANGED fault
  PROVE  IInv'
<1>1. PICK fs : fs = [frames EXCEPT ![n] = g]
  OBVIOUS
<1>2. /\ fs \in Seq(FrameOK) /\ Len(fs) = n /\ fs[n] = g
      /\ \A i \in 1 .. n - 1 : fs[i] = frames[i]
  BY <1>1 DEF IInv, TypeInv
<1>3. n \in 1 .. Len(frames) /\ fault' \in {"none", "panic", "undefined"} /\ frames' = fs
  BY <1>1 DEF IInv, TypeInv
<1> QED BY <1>2, <1>3, CutInv

\* A call of a C function keeps the invariant.
LEMMA LuaCallsCInv ==
  ASSUME IInv, NEW fun \in CFuns, NEW args \in Seq(Kept), LuaCallsC(fun, args)
  PROVE  IInv'
<1>1. PICK n \in Nat, g \in FrameOK :
         /\ n = Len(frames) /\ n >= 1 /\ n \in 1 .. n /\ g = frames[n] /\ g = Top
         /\ StackOf(g) /\ ResultOf(g)
  BY LastFrame
<1>2. g.kind = "lua" /\ g.call \in Calls
  BY <1>1 DEF LuaCallsC, InLua, FrameOK
<1>3. PICK new \in FrameOK :
         /\ new = NewFrame("c", "enter", args, g.call, fun) /\ new.kind = "c"
         /\ new.at = "enter" /\ StackOf(new) /\ ResultOf(new)
  <2>1. PICK new : new = NewFrame("c", "enter", args, g.call, fun)
    OBVIOUS
  <2>2. /\ new \in FrameOK /\ new.kind = "c" /\ new.at = "enter"
        /\ StackOf(new) /\ ResultOf(new)
    BY <1>2, <2>1, NewOK
  <2> QED BY <2>1, <2>2
<1>4. PICK fs : fs = Append(frames, new)
  OBVIOUS
<1>5. /\ fs \in Seq(FrameOK) /\ Len(fs) = n + 1 /\ fs[n] = g /\ fs[n + 1] = new
      /\ \A i \in 1 .. n - 1 : fs[i] = frames[i]
  <2>1. frames \in Seq(FrameOK)
    BY DEF IInv, TypeInv
  <2>2. /\ fs \in Seq(FrameOK) /\ Len(fs) = n + 1 /\ fs[n + 1] = new
        /\ \A i \in 1 .. n : fs[i] = frames[i]
    BY <1>1, <1>4, <2>1, Longer
  <2>3. n \in 1 .. n /\ \A i \in 1 .. n - 1 : i \in 1 .. n
    BY <1>1
  <2> QED BY <1>1, <2>2, <2>3
<1>6. frames' = fs /\ UNCHANGED fault
  BY <1>1, <1>3, <1>4 DEF LuaCallsC
<1> QED BY <1>1, <1>2, <1>3, <1>5, <1>6, CallInv

\* The parameters are taken, or the call is an error.
LEMMA TakeArgsInv ==
  ASSUME IInv, TakeArgs
  PROVE  IInv'
<1>1. PICK n \in Nat, f \in FrameOK :
         /\ n = Len(frames) /\ n >= 1 /\ n \in 1 .. n /\ f = frames[n] /\ f = Top
         /\ StackOf(f) /\ ResultOf(f)
  BY LastFrame
<1>2. f.kind = "c" /\ f.at = "enter"
  <2>1. f.at = "enter"
    BY <1>1 DEF TakeArgs
  <2> QED BY <1>1, <2>1 DEF IInv, ShapeInv, PlaceOf
<1>3. CASE Fits(Top)
  <2>1. PICK g : g = [f EXCEPT !.at = "run"]
    OBVIOUS
  <2>2. /\ g \in FrameOK /\ g.kind = "c" /\ g.at = "run" /\ g.stack = f.stack
        /\ g.top = f.top /\ g.files = f.files /\ g.failed = f.failed /\ g.echo = f.echo
    BY <2>1, <1>2 DEF FrameOK
  <2>3. StackOf(g)
    BY <1>1, <1>2, <2>2 DEF StackOf, Height
  <2>4. ResultOf(g)
    BY <1>1, <1>2, <2>2 DEF StackOf, ResultOf
  <2>5. frames' = [frames EXCEPT ![n] = g] /\ UNCHANGED fault
    BY <1>1, <1>3, <2>1 DEF TakeArgs, IInv, TypeInv
  <2> QED BY <1>1, <1>2, <2>2, <2>3, <2>4, <2>5, ChangeInv
<1>4. CASE ~Fits(Top)
  <2>1. Raise(ErrorText)
    BY <1>4 DEF TakeArgs
  <2> QED BY <2>1, KeptValues, RaiseInv
<1> QED BY <1>3, <1>4

\* A C function returns to the Lua function that called it.
LEMMA CReturnsInv ==
  ASSUME IInv, CReturns
  PROVE  IInv'
<1>1. PICK n \in Nat, f \in FrameOK :
         /\ n = Len(frames) /\ n >= 1 /\ n \in 1 .. n /\ f = frames[n] /\ f = Top
         /\ StackOf(f) /\ ResultOf(f)
  BY LastFrame
<1>2. n >= 2 /\ n % 2 # 0
  <2>1. f.kind = "c"
    BY <1>1 DEF CReturns, InC
  <2>2. PlaceOf(frames, n)
    BY <1>1 DEF IInv, ShapeInv
  <2>3. n # 1 /\ n % 2 # 0
    BY <1>1, <2>1, <2>2 DEF PlaceOf
  <2> QED BY <1>1, <2>3
<1>3. PICK h \in 1 .. n - 1 : h = n - 1 /\ h % 2 = 0 /\ h \in 1 .. n
  <2>1. n - 1 \in 1 .. n - 1 /\ (n - 1) % 2 = 0 /\ n - 1 \in 1 .. n
    BY <1>2
  <2> QED BY <2>1
<1>4. PICK g \in FrameOK : g = frames[h] /\ g.kind = "lua" /\ StackOf(g) /\ ResultOf(g)
  BY <1>1, <1>3 DEF IInv, TypeInv, ShapeInv, FrameInv, PlaceOf
<1>5. PICK fs : fs = SubSeq(frames, 1, h)
  OBVIOUS
<1>6. fs \in Seq(FrameOK) /\ Len(fs) = h /\ \A i \in 1 .. h : fs[i] = frames[i]
  BY <1>1, <1>3, <1>5 DEF IInv, TypeInv
<1>7. frames' = fs /\ fault' = fault
  BY <1>1, <1>3, <1>5 DEF CReturns
<1>8. fault' \in {"none", "panic", "undefined"} /\ h \in 1 .. Len(frames)
  BY <1>1, <1>3, <1>7 DEF IInv, TypeInv
<1>9. fs[h] = g /\ \A i \in 1 .. h - 1 : fs[i] = frames[i]
  BY <1>3, <1>4, <1>6
<1> QED BY <1>4, <1>6, <1>7, <1>8, <1>9, CutInv

\* What the results that C++ code reads are, if it wants any.
LEMMA ReadOK ==
  ASSUME NEW f \in FrameOK, StackOf(f), f.at = "back", NEW i \in 1 .. Wanted(f.call)
  PROVE  /\ Wanted(f.call) \in {1, 2} /\ f.call.ret # "void"
         /\ ElementType(f.call) \in Types
         /\ Read(f)[i] \in Kept
         /\ Read(f)[Wanted(f.call)] = f.stack[Len(f.stack)]
<1>1. PICK n \in Nat, s \in Seq(Kept) : s = f.stack /\ n = Len(s)
  BY DEF FrameOK
<1>2. PICK w \in {1, 2} : w = Wanted(f.call)
  BY DEF Wanted
<1>3. f.call \in Calls /\ f.call \in Call
  BY CallsAssumption DEF FrameOK
<1>4. f.call.ret # "void" /\ ElementType(f.call) \in Types
  BY <1>3 DEF Wanted, ElementType, Call, Results, Types, Numbers
<1>5. f.call.via # "loadfile"
  BY <1>3, <1>4, CallsAssumption
<1>6. n >= w
  <2>1. f.base \in Nat
    BY DEF FrameOK
  <2>2. n = f.base + 3 \/ n = f.base + 2 + w
    BY <1>1, <1>2, <1>5 DEF StackOf
  <2> QED BY <1>2, <2>1, <2>2
<1>7. Read(f) = [k \in 1 .. w |-> s[n - w + k]]
  BY <1>1, <1>2 DEF Read
<1>8. n - w + i \in 1 .. n /\ i \in 1 .. w /\ w \in 1 .. w /\ n - w + w = n
  BY <1>1, <1>2, <1>6
<1> QED BY <1>1, <1>2, <1>4, <1>7, <1>8

\* lua_settop: C++ code has the stack from before the call; a file leaves two values or
\* three.
LEMMA SettledOK ==
  ASSUME NEW f \in FrameOK, StackOf(f), f.at = "back",
         NEW files, files = IF f.call.via = "loadfile" THEN f.files + 1 ELSE f.files
  PROVE  /\ Settled(f) \in Seq(Kept) /\ files \in Nat
         /\ Len(Settled(f)) \in f.top + 2 * files .. f.top + 3 * files
<1>1. PICK n \in Nat, s \in Seq(Kept) : s = f.stack /\ n = Len(s)
  BY DEF FrameOK
<1>2. /\ f.top \in Nat /\ f.files \in Nat /\ f.base \in Nat /\ f.base <= n
      /\ f.base \in f.top + 2 * f.files .. f.top + 3 * f.files
      /\ f.call.via = "loadfile" => n \in f.base + 2 .. f.base + 3
  <2>1. /\ f.base \in Nat /\ f.top \in Nat /\ f.files \in Nat
        /\ f.base \in f.top + 2 * f.files .. f.top + 3 * f.files
    BY DEF FrameOK, StackOf, Height
  <2>2. Wanted(f.call) \in {0, 1, 2}
    BY DEF Wanted
  <2>3. CASE f.failed
    <3>1. n = f.base + 3
      BY <1>1, <2>3, Zenon DEF StackOf
    <3> QED BY <2>1, <3>1
  <2>4. CASE ~f.failed /\ f.call.via # "loadfile"
    <3>1. PICK w \in {0, 1, 2} : w = Wanted(f.call)
      BY <2>2
    <3>2. n = f.base + 2 + w
      BY <1>1, <2>4, <3>1, Zenon DEF StackOf
    <3>3. f.base <= n
      BY <2>1, <3>1, <3>2
    <3> QED BY <2>1, <2>4, <3>3, Zenon
  <2>5. CASE ~f.failed /\ f.call.via = "loadfile"
    <3>1. n \in f.base + 2 .. f.base + 3
      BY <1>1, <2>5, Zenon DEF StackOf
    <3> QED BY <2>1, <3>1
  <2> QED BY <2>3, <2>4, <2>5
<1>3. SubSeq(s, 1, f.base) \in Seq(Kept) /\ Len(SubSeq(s, 1, f.base)) = f.base
  BY <1>1, <1>2
<1>4. CASE f.call.via = "loadfile"
  <2>1. Settled(f) = s /\ files = f.files + 1
    BY <1>1, <1>4 DEF Settled
  <2>2. n \in f.top + 2 * (f.files + 1) .. f.top + 3 * (f.files + 1)
    <3>1. \A t, k, b \in Nat : b \in t + 2 * k .. t + 3 * k /\ n \in b + 2 .. b + 3 =>
             n \in t + 2 * (k + 1) .. t + 3 * (k + 1)
      OBVIOUS
    <3> QED BY <1>2, <1>4, <3>1
  <2>3. f.files + 1 \in Nat
    BY <1>2
  <2> QED BY <1>1, <2>1, <2>2, <2>3, Zenon
<1>5. CASE f.call.via # "loadfile"
  <2>1. Settled(f) = SubSeq(s, 1, f.base) /\ files = f.files
    BY <1>1, <1>5 DEF Settled
  <2> QED BY <1>2, <1>3, <2>1
<1> QED BY <1>4, <1>5

\* The caller takes the result, or what it takes is an error.
LEMMA TakeResultInv ==
  ASSUME IInv, TakeResult
  PROVE  IInv'
<1>1. PICK n \in Nat, f \in FrameOK :
         /\ n = Len(frames) /\ n >= 1 /\ n \in 1 .. n /\ f = frames[n] /\ f = Top
         /\ StackOf(f) /\ ResultOf(f)
  BY LastFrame
<1>2. f.at = "back" /\ f.kind # "lua" /\ f.call \in Calls
  <2>1. f.at = "back"
    BY <1>1 DEF TakeResult
  <2>2. PlaceOf(frames, n)
    BY <1>1 DEF IInv, ShapeInv
  <2> QED BY <1>1, <2>1, <2>2 DEF PlaceOf, FrameOK
<1> DEFINE good == \A i \in 1 .. Wanted(f.call) : Accepts(ElementType(f.call), Read(f)[i])
<1>3. CASE Raise(ErrorText)
  BY <1>3, KeptValues, RaiseInv
<1>4. CASE fault' = "undefined" /\ UNCHANGED frames
  BY <1>4 DEF IInv, TypeInv, ShapeInv, FrameInv, PlaceOf, StackOf, Height, ResultOf
<1>5. CASE /\ good /\ ~Undefined(f)
           /\ frames' = [frames EXCEPT ![Len(frames)] =
                 [f EXCEPT !.at = "run",
                           !.stack = Settled(f),
                           !.files = IF f.call.via = "loadfile" THEN @ + 1 ELSE @,
                           !.got = IF Wanted(f.call) = 0 THEN 0
                                   ELSE Pop(ElementType(f.call), Read(f)[1])]]
           /\ UNCHANGED fault
  <2>1. PICK files : files = IF f.call.via = "loadfile" THEN f.files + 1 ELSE f.files
    OBVIOUS
  <2>2. /\ Settled(f) \in Seq(Kept) /\ files \in Nat
        /\ Len(Settled(f)) \in f.top + 2 * files .. f.top + 3 * files
    BY <1>1, <1>2, <2>1, SettledOK
  <2>3. PICK w \in {0, 1, 2} : w = Wanted(f.call)
    BY DEF Wanted
  <2>4. PICK got : got = IF w = 0 THEN 0 ELSE Pop(ElementType(f.call), Read(f)[1])
    OBVIOUS
  <2>5. got \in Taken
    <3>1. CASE w = 0
      BY <2>4, <3>1, KeptValues
    <3>2. CASE w # 0
      <4>1. 1 \in 1 .. Wanted(f.call)
        BY <2>3, <3>2
      <4>2. ElementType(f.call) \in Types /\ Read(f)[1] \in Kept
        BY <1>1, <1>2, <4>1, ReadOK
      <4> QED BY <2>4, <3>2, <4>2, KeptValues
    <3> QED BY <3>1, <3>2
  <2>6. PICK g : g = [f EXCEPT !.at = "run", !.stack = Settled(f), !.files = files, !.got = got]
    OBVIOUS
  <2>7. /\ g \in FrameOK /\ g.kind = f.kind /\ g.at = "run" /\ g.stack = Settled(f)
        /\ g.top = f.top /\ g.files = files /\ g.got = got /\ g.failed = f.failed /\ g.echo = f.echo
        /\ g.call = f.call
    BY <2>2, <2>5, <2>6 DEF FrameOK
  <2>8. StackOf(g)
    BY <2>2, <2>7 DEF StackOf, Height
  <2>9. f.failed => f.call.ret \in {"void", "bool", "string", "ptr"}
    <3> SUFFICES ASSUME f.failed, f.call.ret # "void"
                 PROVE  f.call.ret \in {"bool", "string", "ptr"}
      OBVIOUS
    <3>1. w \in {1, 2} /\ w \in 1 .. Wanted(f.call)
      BY <2>3 DEF Wanted
    <3>2. ElementType(f.call) \in Types /\ f.call.via # "loadfile"
      <4>1. f.call \in Calls
        BY <1>2
      <4> QED BY <1>1, <1>2, <2>3, <3>1, <4>1, ReadOK, CallsAssumption
    <3>3. Read(f)[w].t \notin {"integer", "float"}
      BY <1>1, <1>2, <2>3, <3>1, <3>2, ReadOK DEF StackOf
    <3>4. Accepts(ElementType(f.call), Read(f)[w])
      BY <1>5, <3>1
    <3>5. ElementType(f.call) \in {"bool", "string", "ptr", "vector"}
      BY <3>2, <3>3, <3>4, ErrorAccepted
    <3> QED BY <1>5, <3>5 DEF ElementType, Undefined
  <2>10. f.echo /\ f.call.ret = f.call.arg /\ Abs(f.call.val) <= Mantissa => got = f.call.val
    <3> SUFFICES ASSUME f.echo, f.call.ret = f.call.arg, Abs(f.call.val) <= Mantissa
                 PROVE  got = f.call.val
      OBVIOUS
    <3>1. f.call.arg \in Types
      BY <1>2, CallsAssumption DEF Call
    <3>2. w = 1 /\ 1 \in 1 .. Wanted(f.call) /\ ElementType(f.call) = f.call.arg
      BY <2>3, <3>1 DEF Wanted, ElementType, Types, Numbers
    <3>3. Read(f)[1] = Push(f.call.arg, f.call.val)
      BY <1>1, <1>2, <2>3, <3>2, ReadOK DEF StackOf
    <3>4. Accepts(f.call.arg, Push(f.call.arg, f.call.val))
      BY <1>5, <3>2, <3>3
    <3>5. Pop(f.call.arg, Push(f.call.arg, f.call.val)) = f.call.val
      BY <1>2, <1>5, <3>4, EchoIsExact DEF Undefined
    <3> QED BY <2>4, <3>2, <3>3, <3>5
  <2>11. ResultOf(g)
    BY <2>7, <2>9, <2>10 DEF ResultOf
  <2>12. frames' = [frames EXCEPT ![n] = g] /\ UNCHANGED fault
    BY <1>1, <1>5, <2>1, <2>3, <2>4, <2>6
  <2> QED BY <1>1, <1>2, <2>7, <2>8, <2>11, <2>12, ChangeInv
<1> HIDE DEF good
<1>6. Raise(ErrorText) \/ (fault' = "undefined" /\ UNCHANGED frames) \/
      /\ good /\ ~Undefined(f)
      /\ frames' = [frames EXCEPT ![Len(frames)] =
            [f EXCEPT !.at = "run",
                      !.stack = Settled(f),
                      !.files = IF f.call.via = "loadfile" THEN @ + 1 ELSE @,
                      !.got = IF Wanted(f.call) = 0 THEN 0
                              ELSE Pop(ElementType(f.call), Read(f)[1])]]
      /\ UNCHANGED fault
  BY <1>1 DEF TakeResult, good
<1> QED BY <1>3, <1>4, <1>5, <1>6

-----------------------------------------------------------------------------
(* The theorems.                                                           *)

\* The invariant holds when the program starts.
LEMMA InitInv == Init => IInv
<1> SUFFICES ASSUME Init PROVE IInv
  OBVIOUS
<1>1. PICK c \in Calls : c = CHOOSE x \in Calls : TRUE
  BY CallsAssumption
<1>2. PICK fun \in CFuns : fun = CHOOSE x \in CFuns : TRUE
  BY CallsAssumption
<1>3. PICK f : f = NewFrame("cpp", "run", <<>>, c, fun)
  OBVIOUS
<1>4. /\ f \in FrameOK /\ f.kind = "cpp" /\ f.at = "run" /\ StackOf(f) /\ ResultOf(f)
  <2>1. f = [kind |-> "cpp", at |-> "run", stack |-> <<>>, base |-> 0, top |-> 0, files |-> 0,
             failed |-> FALSE, echo |-> FALSE, call |-> c, got |-> 0, fun |-> fun]
    BY <1>3 DEF NewFrame
  <2>2. f \in FrameOK
    BY <2>1, KeptValues DEF FrameOK
  <2> QED BY <2>1, <2>2 DEF StackOf, Height, ResultOf
<1>5. frames = <<f>> /\ fault = "none"
  BY <1>1, <1>2, <1>3 DEF Init
<1>6. frames \in Seq(FrameOK) /\ Len(frames) = 1 /\ frames[1] = f
  BY <1>4, <1>5
<1>7. TypeInv
  BY <1>5, <1>6 DEF TypeInv
<1>8. ShapeInv
  BY <1>4, <1>6 DEF ShapeInv, PlaceOf
<1>9. FrameInv
  BY <1>4, <1>6 DEF FrameInv
<1> QED BY <1>7, <1>8, <1>9 DEF IInv

\* Every step keeps it.
LEMMA NextInv == IInv /\ [Next]_vars => IInv'
<1> SUFFICES ASSUME IInv, [Next]_vars PROVE IInv'
  OBVIOUS
<1>1. ASSUME NEW c \in Calls, NoModule(c) PROVE IInv'
  BY <1>1, KeptValues, RaiseInv DEF NoModule
<1>2. ASSUME NEW c \in Calls, NoFunction(c) PROVE IInv'
  BY <1>2, NoFunctionInv
<1>3. ASSUME NEW c \in Calls, CallLua(c) PROVE IInv'
  BY <1>3, CallLuaInv
<1>4. CASE LuaReturns
  <2>1. PICK values \in {<<>>} \cup {<<x>> : x \in LuaValues} : Return(values, FALSE)
    BY <1>4 DEF LuaReturns
  <2>2. CASE values = <<>>
    <3>1. values \in Seq(Kept) /\ Len(values) <= 1 /\ FALSE \in BOOLEAN
      BY <2>2
    <3> QED BY <2>1, <3>1, ReturnInv, Zenon
  <2>3. ASSUME NEW x \in LuaValues, values = <<x>> PROVE IInv'
    <3>1. x \in Kept
      BY KeptValues
    <3>2. values \in Seq(Kept) /\ Len(values) <= 1 /\ FALSE \in BOOLEAN
      BY <2>3, <3>1
    <3> QED BY <2>1, <3>2, ReturnInv, Zenon
  <2> QED BY <2>1, <2>2, <2>3
<1>5. CASE LuaEchoes
  <2>1. PICK n \in Nat, f \in FrameOK :
           /\ n = Len(frames) /\ n >= 1 /\ n \in 1 .. n /\ f = frames[n] /\ f = Top
           /\ StackOf(f) /\ ResultOf(f)
    BY LastFrame
  <2>2. PICK values : values = <<Push(Top.call.arg, Top.call.val)>>
    OBVIOUS
  <2>3. Push(Top.call.arg, Top.call.val) \in Kept
    BY <2>1, KeptValues DEF FrameOK
  <2>4. values \in Seq(Kept) /\ Len(values) <= 1 /\ TRUE \in BOOLEAN
    BY <2>2, <2>3
  <2>5. Return(values, TRUE)
    BY <1>5, <2>2 DEF LuaEchoes
  <2> QED BY <2>2, <2>4, <2>5, ReturnInv, Zenon
<1>6. CASE LuaRaises
  BY <1>6, KeptValues, RaiseInv DEF LuaRaises
<1>7. ASSUME NEW fun \in CFuns, NEW n \in 0 .. 2, NEW args \in [1 .. n -> LuaValues],
             LuaCallsC(fun, args)
      PROVE  IInv'
  <2>1. args \in Seq(Kept)
    BY KeptValues
  <2> QED BY <1>7, <2>1, LuaCallsCInv
<1>8. CASE TakeResult
  BY <1>8, TakeResultInv
<1>9. CASE TakeArgs
  BY <1>9, TakeArgsInv
<1>10. CASE CReturns
  BY <1>10, CReturnsInv
<1>11. CASE CThrows
  BY <1>11, KeptValues, RaiseInv DEF CThrows
<1>12. CASE UNCHANGED vars
  BY <1>12 DEF vars, IInv, TypeInv, ShapeInv, FrameInv, PlaceOf, StackOf, Height, ResultOf
<1> QED BY <1>1, <1>2, <1>3, <1>4, <1>5, <1>6, <1>7, <1>8, <1>9, <1>10, <1>11, <1>12 DEF Next, Over

\* The frames and their stacks, in every reachable state.
THEOREM Inductive == Spec => []IInv
BY InitInv, NextInv, PTL DEF Spec

\* C++ code finds Lua's stack as it left it, for any calls, however deep they nest and
\* however they end; only each file that it runs leaves two values or three.
THEOREM StackIsRestored == Spec => []Balanced
<1>1. IInv => Balanced
  BY DEF IInv, FrameInv, StackOf, Height, Balanced
<1> QED BY <1>1, Inductive, PTL

\* An error is never taken for a number, whatever Lua raises.
THEOREM ErrorsAreNoNumbers == Spec => []ErrorIsNoNumber
<1>1. IInv => ErrorIsNoNumber
  BY DEF IInv, FrameInv, ResultOf, ErrorIsNoNumber
<1> QED BY <1>1, Inductive, PTL

\* A value that goes to Lua and back is the same, for any widths of int, lua_Integer
\* and mantissa, as far as a double holds it.
THEOREM EchoesAreExact == Spec => []EchoExact
<1>1. IInv => EchoExact
  BY DEF IInv, FrameInv, ResultOf, EchoExact
<1> QED BY <1>1, Inductive, PTL

-----------------------------------------------------------------------------
(* Who can end the process.                                                *)

\* An error ends the process only if no Lua function is under way.
LEMMA RaiseEnds ==
  ASSUME IInv, NEW x, Raise(x), fault = "none", fault' # "none"
  PROVE  Len(frames) = 1 /\ Protected = {} /\ frames' = frames /\ fault' = "panic"
<1>1. Protected = {} /\ frames' = frames /\ fault' = "panic"
  BY DEF Raise
<1> QED BY <1>1, LastProtected

\* What a call leaves when one of the results wanted cannot be taken.
LEMMA NotTaken ==
  ASSUME NEW f \in FrameOK, StackOf(f), f.at = "back",
         NEW i \in 1 .. Wanted(f.call), ~Accepts(ElementType(f.call), Read(f)[i])
  PROVE  /\ f.call.ret \notin {"void", "bool", "ptr"}
         /\ f.call.ret = "string" => ~IsText(f.stack[Len(f.stack)])
<1>1. f.call.ret # "void"
  BY ReadOK
<1>2. ElementType(f.call) \notin {"bool", "ptr"}
  BY DEF Accepts
<1>3. ASSUME f.call.ret = "string" PROVE ~IsText(f.stack[Len(f.stack)])
  <2>1. Wanted(f.call) = 1 /\ i = 1 /\ ElementType(f.call) = "string"
    BY <1>3 DEF Wanted, ElementType
  <2>2. Read(f)[i] = f.stack[Len(f.stack)]
    BY <2>1, ReadOK
  <2> QED BY <2>1, <2>2 DEF Accepts
<1> QED BY <1>1, <1>2, <1>3 DEF ElementType

\* Of the steps only a missing module or a result that cannot be taken ends it.
LEMMA NextBlame ==
  ASSUME IInv, Blameless, [Next]_vars
  PROVE  Blameless'
<1>1. PICK n \in Nat, f \in FrameOK :
         /\ n = Len(frames) /\ n >= 1 /\ n \in 1 .. n /\ f = frames[n] /\ f = Top
         /\ StackOf(f) /\ ResultOf(f)
  BY LastFrame
<1>2. CASE fault # "none"
  <2>1. UNCHANGED <<fault, frames>>
    BY <1>2 DEF Next, vars, NoModule, NoFunction, CallLua, Begin, LuaReturns, LuaEchoes, Return,
       LuaRaises, InLua, LuaCallsC, TakeResult, TakeArgs, CReturns, CThrows, InC, Over
  <2> QED BY <2>1 DEF Blameless, Top, Protected, Undefined
<1>3. CASE fault = "none"
  <2>1. PlaceOf(frames, n)
    BY <1>1 DEF IInv, ShapeInv
  <2>2. n = 1 => f.kind = "cpp"
    BY <2>1, <1>1 DEF PlaceOf
  <2>3. ASSUME NEW c \in Calls, NoModule(c) PROVE Blameless'
    <3>1. Raise(ErrorText) /\ f.at = "run"
      BY <1>1, <2>3 DEF NoModule, Begin
    <3>2. fault' # "none" => Protected = {} /\ frames' = frames /\ fault' = "panic"
      BY <1>1, <1>3, <3>1, RaiseEnds
    <3> QED BY <1>1, <2>2, <3>1, <3>2 DEF Blameless, Top, Protected
  <2>4. CASE LuaRaises \/ TakeArgs \/ CThrows
    <3>1. f.kind \in {"lua", "c"}
      BY <1>1, <2>1, <2>4 DEF LuaRaises, InLua, TakeArgs, CThrows, InC, PlaceOf
    <3>2. n # 1
      BY <2>2, <3>1
    <3>3. (\E x : Raise(x)) \/ fault' = fault
      BY <2>4 DEF LuaRaises, TakeArgs, CThrows
    <3>4. fault' = "none"
      BY <1>1, <1>3, <3>2, <3>3, RaiseEnds
    <3> QED BY <3>4 DEF Blameless
  <2>5. CASE TakeResult
    <3> DEFINE good == \A i \in 1 .. Wanted(f.call) : Accepts(ElementType(f.call), Read(f)[i])
    <3>1. f.at = "back"
      BY <1>1, <2>5 DEF TakeResult
    <3>2. \/ ~good /\ Raise(ErrorText)
          \/ good /\ Undefined(f) /\ UNCHANGED frames /\ fault' = "undefined"
          \/ fault' = fault
      BY <1>1, <2>5 DEF TakeResult
    <3>3. ~good => /\ f.call.ret \notin {"void", "bool", "ptr"}
                   /\ f.call.ret = "string" => ~IsText(f.stack[Len(f.stack)])
      BY <1>1, <3>1, NotTaken
    <3>4. CASE ~good /\ Raise(ErrorText)
      <4>1. fault' # "none" => Protected = {} /\ frames' = frames /\ fault' = "panic"
        BY <1>3, <3>4, RaiseEnds
      <4> QED BY <1>1, <3>1, <3>3, <3>4, <4>1 DEF Blameless, Top, Protected
    <3>5. CASE Undefined(f) /\ UNCHANGED frames /\ fault' = "undefined"
      BY <1>1, <3>1, <3>5 DEF Blameless, Top, Undefined
    <3>6. CASE fault' = fault
      BY <1>3, <3>6 DEF Blameless
    <3> QED BY <3>2, <3>4, <3>5, <3>6
  <2>6. CASE fault' = fault
    BY <1>3, <2>6 DEF Blameless
  <2>7. \/ \E c \in Calls : NoModule(c)
        \/ LuaRaises \/ TakeArgs \/ CThrows \/ TakeResult \/ fault' = fault
    BY DEF Next, vars, NoFunction, CallLua, LuaReturns, LuaEchoes, Return, LuaCallsC, CReturns, Over
  <2> QED BY <2>3, <2>4, <2>5, <2>6, <2>7
<1> QED BY <1>2, <1>3

\* Whatever Lua raises, no error, no wrong argument and no exception ends the process
\* while a Lua function is under way; what can is a missing module at the bottom, or a
\* result or an error that C++ cannot take.
THEOREM NobodyElseEnds == Spec => []Blameless
<1>1. Init => Blameless
  BY DEF Init, Blameless
<1> QED BY <1>1, NextBlame, Inductive, PTL DEF Spec
=============================================================================
