---------------------------- MODULE LuaJobsProofs ----------------------------
(***************************************************************************)
(* Proofs about LuaJobs, for any number of threads and jobs.               *)
(*                                                                         *)
(* One writer.  The threads that write to thread_map_ are those between    *)
(* their creation and is_exe_.  As long as main creates all of them with   *)
(* newthread, main is in newthread for as long as one of them writes,      *)
(* waiting for it, so that neither main itself nor a second thread can     *)
(* write.                                                                  *)
(*                                                                         *)
(* Jobs and results.  A push that has not come to its end is in one place  *)
(* only: with the thread that pushes, in a list, or in a batch.  So one    *)
(* step ends it, and only there is its done function called: with the id   *)
(* under which the thread that pushed saved it, and with its own result.   *)
(* The string of a result is with the push until that step, then with the  *)
(* done function; only a push turned away at once finds another function's *)
(* string, and that is the exception that the properties name.             *)
(***************************************************************************)
EXTENDS LuaJobs, TLAPS

\* The types of what the argument looks at.
WriterType ==
    /\ made \in Seq([by : Threads, pool : Nat, early : BOOLEAN])
    /\ at \in [Threads -> Stages]
    /\ arg \in [Threads -> Nat]
    /\ exe \in [Threads -> BOOLEAN]

Writing(t) == at[t] \in {"boot", "mapping"}

\* A thread that is not yet made does nothing; one that has been made either
\* writes or has set its is_exe_.
BornInv ==
    /\ Len(made) > 0
    /\ \A g \in Threads : g > Len(made) => at[g] = "none" /\ ~exe[g]
    /\ \A g \in Threads \ {Main} :
          g <= Len(made) => (exe[g] <=> ~Writing(g)) /\ at[g] # "none"

\* main has created all threads, each with newthread.
OneByOne == \A g \in 2 .. Len(made) : made[g].by = Main /\ made[g].pool = 0 /\ made[g].early

\* Who writes is main or the thread that main waits for.
WaitInv ==
    OneByOne =>
       /\ ~raced
       /\ \A g \in Threads \ {Main} :
             Writing(g) => at[Main] \in {"newthread", "newsleep"} /\ arg[Main] = g

IInv == WriterType /\ BornInv /\ WaitInv

-----------------------------------------------------------------------------
LEMMA ThreadFacts == Threads \subseteq Nat \ {0} /\ Main \in Threads /\ Main = 1
BY BoundsAssumption DEF Threads, Main

LEMMA InitInv == Init => IInv
BY ThreadFacts, SMTT(20)
   DEF Init, IInv, WriterType, BornInv, WaitInv, OneByOne, Writing, Stages

\* A step of the stages that leaves what has been made alone, and neither begins nor
\* ends to write, keeps the invariant if main stays in newthread while it waits.
LEMMA StageStep ==
  ASSUME IInv, UNCHANGED <<made, exe, raced>>,
         at' \in [Threads -> Stages], arg' \in [Threads -> Nat],
         \A g \in Threads : at'[g] = "none" <=> at[g] = "none",
         \A g \in Threads \ {Main} : Writing(g)' <=> Writing(g),
         at[Main] \in {"newthread", "newsleep"} =>
            \/ at'[Main] \in {"newthread", "newsleep"} /\ arg'[Main] = arg[Main]
            \/ exe[arg[Main]]
  PROVE  IInv'
<1>1. WriterType' /\ BornInv'
  BY ThreadFacts DEF IInv, WriterType, BornInv
<1>2. ASSUME OneByOne, NEW g \in Threads \ {Main}, Writing(g)
      PROVE  at'[Main] \in {"newthread", "newsleep"} /\ arg'[Main] = g
  <2>1. at[Main] \in {"newthread", "newsleep"} /\ arg[Main] = g
    BY <1>2 DEF IInv, WaitInv
  <2>2. ~exe[g]
    BY <1>2, ThreadFacts DEF IInv, BornInv, WriterType, Writing
  <2> QED BY <2>1, <2>2
<1>3. WaitInv'
  BY <1>2 DEF IInv, WaitInv, OneByOne
<1> QED BY <1>1, <1>3 DEF IInv

\* notify_one leaves everybody where the step itself puts him, except that one
\* sleeper wakes.
LEMMA NotifyStages ==
  ASSUME WriterType, NEW g, NEW t \in Threads, NEW stage \in Stages,
         at[t] \notin {"sleep", "newsleep"},
         NotifyOne(g, [at EXCEPT ![t] = stage])
  PROVE  /\ at' \in [Threads -> Stages]
         /\ at'[t] = stage
         /\ \A u \in Threads \ {t} :
               \/ at'[u] = at[u]
               \/ at[u] = "sleep" /\ at'[u] = "wait"
               \/ at[u] = "newsleep" /\ at'[u] = "newthread"
<1>1. CASE Sleepers(g) = {}
  BY <1>1 DEF NotifyOne, WriterType
<1>2. ASSUME NEW u \in Sleepers(g), at' = [[at EXCEPT ![t] = stage] EXCEPT ![u] = Woken(u)]
      PROVE  /\ at' \in [Threads -> Stages]
             /\ at'[t] = stage
             /\ \A v \in Threads \ {t} :
                   \/ at'[v] = at[v]
                   \/ at[v] = "sleep" /\ at'[v] = "wait"
                   \/ at[v] = "newsleep" /\ at'[v] = "newthread"
  BY <1>2 DEF Sleepers, Woken, WriterType, Stages
<1> QED BY <1>1, <1>2 DEF NotifyOne

LEMMA NextInv == IInv /\ [Next]_vars => IInv'
<1> SUFFICES ASSUME IInv, [Next]_vars PROVE IInv'
  OBVIOUS
<1> USE ThreadFacts
<1>1. ASSUME NEW t \in Threads, NewThread(t) PROVE IInv'
  <2> DEFINE g == Len(made) + 1
             T == [by |-> t, pool |-> 0, early |-> ~exe[Main]]
  <2>1. /\ at[t] = "user" /\ g \in Threads /\ made' = Append(made, T)
        /\ at' = [at EXCEPT ![t] = "newthread", ![g] = "boot"]
        /\ arg' = [arg EXCEPT ![t] = g] /\ UNCHANGED <<exe, raced>>
    BY <1>1 DEF NewThread, InLua, Creation
  <2>2. T \in [by : Threads, pool : Nat, early : BOOLEAN]
    BY DEF IInv, WriterType
  <2>3. /\ Len(made) \in Nat \ {0} /\ Len(made') = Len(made) + 1
        /\ made'[g] = T /\ \A i \in 1 .. Len(made) : made'[i] = made[i]
    BY <2>1, <2>2 DEF IInv, WriterType, BornInv
  <2>4. g # t /\ g # Main /\ at[g] = "none" /\ ~exe[g]
    BY <2>1, <2>3 DEF IInv, BornInv
  <2>5. WriterType'
    BY <2>1, <2>2, <2>3 DEF IInv, WriterType, Stages
  <2>6. BornInv'
    BY <2>1, <2>3, <2>4 DEF IInv, WriterType, BornInv, Writing
  <2>7. ASSUME OneByOne'
        PROVE  /\ ~raced
               /\ \A h \in Threads \ {Main} :
                     Writing(h)' => at'[Main] \in {"newthread", "newsleep"} /\ arg'[Main] = h
    <3>1. t = Main
      BY <2>3, <2>7 DEF OneByOne
    <3>2. OneByOne
      BY <2>3, <2>7 DEF OneByOne
    <3>3. \A h \in Threads \ {Main} : ~Writing(h)
      BY <2>1, <3>1, <3>2 DEF IInv, WaitInv
    <3> QED BY <2>1, <2>4, <3>1, <3>2, <3>3 DEF IInv, WaitInv, WriterType, Writing
  <2> QED BY <2>1, <2>5, <2>6, <2>7 DEF IInv, WaitInv
<1>2. ASSUME NEW t \in Threads, NEW n \in PoolSizes, NewPool(t, n) PROVE IInv'
  <2> DEFINE first == Len(made) + 1
             new   == first .. first + n - 1
             Ts    == [i \in 1 .. n |-> Creation(t, n)]
  <2>1. /\ new \subseteq Threads /\ made' = made \o Ts
        /\ at' = [g \in Threads |-> IF g \in new THEN "boot" ELSE at[g]]
        /\ UNCHANGED <<arg, exe, raced>>
    BY <1>2 DEF NewPool
  <2>2. n \in Nat \ {0}
    BY BoundsAssumption
  <2>3. Ts \in Seq([by : Threads, pool : Nat, early : BOOLEAN]) /\ Len(Ts) = n
    BY <2>2 DEF IInv, WriterType, Creation
  <2>4. /\ Len(made) \in Nat \ {0} /\ Len(made') = Len(made) + n
        /\ made'[first] = Creation(t, n)
    BY <2>1, <2>2, <2>3 DEF IInv, WriterType, BornInv
  <2>5. WriterType'
    BY <2>1, <2>3 DEF IInv, WriterType, Stages
  <2>6. BornInv'
    BY <2>1, <2>2, <2>4 DEF IInv, WriterType, BornInv, Writing
  <2>7. ~OneByOne'
    BY <2>2, <2>4 DEF OneByOne, Creation
  <2> QED BY <2>5, <2>6, <2>7 DEF IInv, WaitInv
<1>3. ASSUME NEW t \in Threads, WaitExec(t) PROVE IInv'
  <2>1. /\ UNCHANGED <<made, exe, raced>> /\ at[t] = "newthread"
        /\ \/ exe[arg[t]] /\ at' = [at EXCEPT ![t] = "user"] /\ arg' = [arg EXCEPT ![t] = 0]
           \/ at' = [at EXCEPT ![t] = "newsleep"] /\ UNCHANGED arg
    BY <1>3 DEF WaitExec, IsUp
  <2>2. at' \in [Threads -> Stages] /\ arg' \in [Threads -> Nat]
    BY <2>1 DEF IInv, WriterType, Stages
  <2> QED BY <2>1, <2>2, StageStep DEF IInv, WriterType, Writing
<1>4. ASSUME NEW t \in Threads, MapBegins(t) PROVE IInv'
  <2>1. /\ at[t] = "boot" /\ at' = [at EXCEPT ![t] = "mapping"]
        /\ raced' = (raced \/ \E o \in Threads : at[o] = "mapping")
        /\ UNCHANGED <<made, arg, exe>>
    BY <1>4 DEF MapBegins
  <2>2. WriterType' /\ BornInv'
    BY <2>1 DEF IInv, WriterType, BornInv, Writing, Stages
  <2>3. ASSUME OneByOne
        PROVE  /\ ~\E o \in Threads : at[o] = "mapping"
               /\ \A g \in Threads \ {Main} :
                     Writing(g)' => at'[Main] \in {"newthread", "newsleep"} /\ arg'[Main] = g
    BY <2>1, <2>3 DEF IInv, WriterType, WaitInv, Writing
  <2> QED BY <2>1, <2>2, <2>3 DEF IInv, WaitInv, OneByOne
<1>5. ASSUME NEW t \in Threads, SetExe(t) PROVE IInv'
  <2>1. /\ at[t] = "mapping" /\ at' = [at EXCEPT ![t] = "exe"]
        /\ exe' = [exe EXCEPT ![t] = TRUE] /\ UNCHANGED <<made, arg, raced>>
    BY <1>5 DEF SetExe
  <2>2. WriterType' /\ BornInv'
    BY <2>1 DEF IInv, WriterType, BornInv, Writing, Stages
  <2>3. WaitInv'
    BY <2>1 DEF IInv, WriterType, WaitInv, OneByOne, Writing
  <2> QED BY <2>2, <2>3 DEF IInv
<1>6. ASSUME NEW t \in Threads, NotifyExe(t) PROVE IInv'
  <2>1. UNCHANGED <<made, exe, raced, arg>> /\ at[t] = "exe"
    BY <1>6 DEF NotifyExe, creation
  <2>2. PICK stage \in {"wait", "user"} : NotifyOne(t, [at EXCEPT ![t] = stage])
    BY <1>6 DEF NotifyExe
  <2>3. stage \in Stages /\ at[t] \notin {"sleep", "newsleep"}
    BY <2>1 DEF Stages
  <2>4. /\ at' \in [Threads -> Stages] /\ at'[t] = stage
        /\ \A u \in Threads \ {t} :
              \/ at'[u] = at[u]
              \/ at[u] = "sleep" /\ at'[u] = "wait"
              \/ at[u] = "newsleep" /\ at'[u] = "newthread"
    BY <2>2, <2>3, NotifyStages DEF IInv
  <2> QED BY <2>1, <2>4, StageStep DEF IInv, WriterType, Writing
<1>7. ASSUME NEW t \in Threads, StartReturns(t) PROVE IInv'
  <2>1. /\ UNCHANGED <<made, exe, raced, arg>> /\ at[t] = "user"
        /\ at' = [at EXCEPT ![t] = IF exe[t] THEN "wait" ELSE "boot"]
    BY <1>7 DEF StartReturns, creation
  <2>2. t # Main => exe[t]
    <3>1. Len(made) \in Nat /\ t <= Len(made)
      BY <2>1 DEF IInv, WriterType, BornInv
    <3>2. ~Writing(t)
      BY <2>1 DEF Writing
    <3> QED BY <3>1, <3>2 DEF IInv, BornInv
  <2>3. at' \in [Threads -> Stages]
    BY <2>1 DEF IInv, WriterType, Stages
  <2> QED BY <2>1, <2>2, <2>3, StageStep DEF IInv, WriterType, Writing
<1>8. ASSUME NEW t \in Threads, NEW p \in Threads, NEW j \in AllJobs, PushJob(t, p, j)
      PROVE  IInv'
  <2>1. /\ UNCHANGED <<made, exe, raced>> /\ at[t] = "user"
        /\ at' = [at EXCEPT ![t] = "push"]
        /\ arg' = [arg EXCEPT ![t] = Len(jobs) + 1] /\ Len(jobs) + 1 \in Pushes
    BY <1>8 DEF PushJob, InLua, creation
  <2>2. at' \in [Threads -> Stages] /\ arg' \in [Threads -> Nat]
    BY <2>1 DEF IInv, WriterType, Stages, Pushes
  <2> QED BY <2>1, <2>2, StageStep DEF IInv, WriterType, Writing
<1>9. ASSUME NEW t \in Threads, PushAccepted(t) \/ ReplyAccepted(t) PROVE IInv'
  <2>1. /\ UNCHANGED <<made, exe, raced>> /\ at[t] \in {"push", "reply"}
        /\ \/ arg' = [arg EXCEPT ![t] = 0]
           \/ UNCHANGED arg
    BY <1>9 DEF PushAccepted, ReplyAccepted, creation
  <2>2. PICK g : NotifyOne(g, [at EXCEPT ![t] = "user"])
    BY <1>9 DEF PushAccepted, ReplyAccepted, Accept
  <2>3. "user" \in Stages /\ at[t] \notin {"sleep", "newsleep"}
    BY <2>1 DEF Stages
  <2>4. /\ at' \in [Threads -> Stages] /\ at'[t] = "user"
        /\ \A u \in Threads \ {t} :
              \/ at'[u] = at[u]
              \/ at[u] = "sleep" /\ at'[u] = "wait"
              \/ at[u] = "newsleep" /\ at'[u] = "newthread"
    BY <2>2, <2>3, NotifyStages DEF IInv
  <2>5. arg' \in [Threads -> Nat]
    BY <2>1 DEF IInv, WriterType
  <2> QED BY <2>1, <2>4, <2>5, StageStep DEF IInv, WriterType, Writing
<1>10. ASSUME NEW t \in Threads,
              \/ PushRejected(t) \/ ReplyRejected(t) \/ Sleep(t) \/ Take(t)
              \/ RunStop(t) \/ RunWork(t) \/ GetResult(t) \/ NodeEnds(t)
              \/ \E ok \in BOOLEAN : WorkReturns(t, ok)
       PROVE  IInv'
  <2>1. /\ UNCHANGED <<made, exe, raced>>
        /\ at[t] \in {"push", "reply", "wait", "batch", "user"}
        /\ arg' = [arg EXCEPT ![t] = 0] \/ UNCHANGED arg
    BY <1>10 DEF PushRejected, ReplyRejected, Sleep, Take, RunStop, RunWork, GetResult,
                 NodeEnds, WorkReturns, InWork, IsNode, creation
  <2>2. PICK stage \in {"user", "sleep", "gone", "batch", "wait", "reply"} :
           at' = [at EXCEPT ![t] = stage]
    BY <1>10 DEF PushRejected, ReplyRejected, Sleep, Take, RunStop, RunWork, GetResult,
                 NodeEnds, WorkReturns, EndNode
  <2>3. at' \in [Threads -> Stages] /\ arg' \in [Threads -> Nat]
    BY <2>1, <2>2 DEF IInv, WriterType, Stages
  <2> QED BY <2>1, <2>2, <2>3, StageStep DEF IInv, WriterType, Writing
<1>11. ASSUME NEW t \in Threads, DoneReturns(t) PROVE IInv'
  BY <1>11 DEF DoneReturns, creation, IInv, WriterType, BornInv, WaitInv, OneByOne, Writing
<1>11a. ASSUME NEW t \in Threads, WorkPanics(t) PROVE IInv'
  BY <1>11a DEF WorkPanics, creation, IInv, WriterType, BornInv, WaitInv, OneByOne, Writing
<1>12. CASE SendStop
  <2>1. UNCHANGED <<made, exe, raced, arg>>
    BY <1>12 DEF SendStop, creation
  <2>2. UNCHANGED at \/ \E g : NotifyOne(g, at)
    BY <1>12 DEF SendStop
  <2>3. ASSUME NEW g, NotifyOne(g, at)
        PROVE  /\ at' \in [Threads -> Stages]
               /\ \A u \in Threads :
                     \/ at'[u] = at[u]
                     \/ at[u] = "sleep" /\ at'[u] = "wait"
                     \/ at[u] = "newsleep" /\ at'[u] = "newthread"
    <3>1. CASE Sleepers(g) = {}
      BY <2>3, <3>1 DEF NotifyOne, IInv, WriterType
    <3>2. ASSUME NEW u \in Sleepers(g), at' = [at EXCEPT ![u] = Woken(u)]
          PROVE  /\ at' \in [Threads -> Stages]
                 /\ \A v \in Threads :
                       \/ at'[v] = at[v]
                       \/ at[v] = "sleep" /\ at'[v] = "wait"
                       \/ at[v] = "newsleep" /\ at'[v] = "newthread"
      BY <3>2 DEF Sleepers, Woken, IInv, WriterType, Stages
    <3> QED BY <2>3, <3>1, <3>2 DEF NotifyOne
  <2>4. /\ at' \in [Threads -> Stages]
        /\ \A u \in Threads :
              \/ at'[u] = at[u]
              \/ at[u] = "sleep" /\ at'[u] = "wait"
              \/ at[u] = "newsleep" /\ at'[u] = "newthread"
    BY <2>2, <2>3 DEF IInv, WriterType
  <2> QED BY <2>1, <2>4, StageStep DEF IInv, WriterType, Writing
<1>13. CASE UNCHANGED vars
  BY <1>13 DEF vars, creation, IInv, WriterType, BornInv, WaitInv, OneByOne, Writing
<1> QED
  BY <1>1, <1>2, <1>3, <1>4, <1>5, <1>6, <1>7, <1>8, <1>9, <1>10, <1>11, <1>11a, <1>12,
     <1>13
     DEF Next, Continues, Calls, Boot, Loop, Returns, Over

\* The strengthened invariant holds in every state.
THEOREM Inductive == Spec => []IInv
BY InitInv, NextInv, PTL DEF Spec

\* For any number of threads: as long as main.lua creates them with newthread,
\* thread_map_ never has two writers, although no lock guards it.
THEOREM WaitingIsEnough == Spec => []OneWriter
<1>1. IInv => OneWriter
  BY DEF IInv, WaitInv, OneByOne, OneWriter
<1> QED BY <1>1, Inductive, PTL

-----------------------------------------------------------------------------
(* Jobs, their nodes and their results.                                    *)

Job == [home : Threads, to : Threads, name : Names, fn : Fns, id : Nat,
        ran : Fns \cup {None}, ok : BOOLEAN, turned : {"no", "push", "reply"}]

Call == [p : Nat, on : Threads, cb : Pushes, res : Pushes]

\* The types of what the jobs are made of.
JobType ==
    /\ mailbox \in [Threads -> Seq(Node)] /\ batch \in [Threads -> Seq(Node)]
    /\ frames \in [Threads -> Seq(Frame)]
    /\ result \in [Threads -> Nat] /\ \A t \in Threads : result[t] <= Len(jobs)
    /\ saved \in [Threads -> Seq(Pushes)]
    /\ cache \in [Threads -> [Names -> Fns \cup {None}]]
    /\ jobs \in Seq(Job) /\ Len(jobs) <= MaxPushes
    /\ heap \in [Pushes -> {"none", "live", "deleted"}]
    /\ calls \in Seq(Call) /\ \A i \in DOMAIN calls : calls[i].p \in 1 .. Len(jobs)

\* The stages at which a Lua function is under way, or a node has just been answered;
\* those between two batches.
LuaStages  == {"user", "push", "newthread", "newsleep"}
IdleStages == {"none", "boot", "mapping", "exe", "wait", "sleep", "gone"}

First(t, kind) == frames[t] # <<>> /\ frames[t][1].kind = kind

\* A Lua function belongs to the entry script, before the first batch, or to the node
\* at the head of the batch; on top of it are done functions only, and these only if
\* the thread has a result, theirs.
StageOf(t) ==
    /\ at[t] \notin LuaStages => frames[t] = <<>>
    /\ at[t] \in IdleStages => batch[t] = <<>>
    /\ at[t] \in {"batch", "reply"} => batch[t] # <<>>
    /\ at[t] = "reply" \/ First(t, "work") => batch[t] # <<>> /\ batch[t][1].kind = "work"
    /\ at[t] \in LuaStages => (batch[t] = <<>> <=> First(t, "start"))
    /\ at[t] \in {"push", "newthread", "newsleep"} => frames[t] # <<>>
    /\ First(t, "start") \/ First(t, "work") => Len(frames[t]) = 1 /\ result[t] = 0
    /\ \A i \in 2 .. Len(frames[t]) : frames[t][i].kind = "done"
    /\ \A i \in 1 .. Len(frames[t]) :
          frames[t][i].kind = "done" => frames[t][i].res = result[t] /\ result[t] # 0
    /\ at[t] \notin LuaStages \cup {"reply"} => result[t] = 0

StageInv == \A t \in Threads : StageOf(t)

\* The node at the head of the batch has still to be answered.
HeadOpen(t) == at[t] \in {"batch", "reply"} \/ First(t, "work")

\* The places where a push can be: on its way to a thread, a node in a list or a node
\* in a batch.
Spots == [kind : {"push", "mail", "batch"}, t : Threads, i : Nat]

At(p, x) ==
    \/ x.kind = "push" /\ x.i = 0 /\ at[x.t] = "push" /\ arg[x.t] = p
    \/ /\ x.kind = "mail" /\ x.i \in 1 .. Len(mailbox[x.t])
       /\ mailbox[x.t][x.i].p = p /\ mailbox[x.t][x.i].kind # "stop"
    \/ /\ x.kind = "batch" /\ x.i \in 1 .. Len(batch[x.t]) /\ (x.i > 1 \/ HeadOpen(x.t))
       /\ batch[x.t][x.i].p = p /\ batch[x.t][x.i].kind # "stop"

ResultAt(p, x) ==
    /\ At(p, x)
    /\ \/ x.kind = "mail" /\ mailbox[x.t][x.i].kind = "result"
       \/ x.kind = "batch" /\ batch[x.t][x.i].kind = "result"

OnePlace == \A p \in Nat : \A x, y \in Spots : At(p, x) /\ At(p, y) => x = y

\* A push has not come to its end: no function has been called for it and no thread is
\* in one that has its result.
Pending(p) ==
    /\ p \in 1 .. Len(jobs)
    /\ jobs[p].turned = "no"
    /\ \A i \in DOMAIN calls : calls[i].p # p
    /\ \A t \in Threads : result[t] = p => frames[t] = <<>>

\* Such is every push that is somewhere; its result goes to the thread that pushed and
\* is not deleted on the way.
TokenInv ==
    \A p \in Nat, x \in Spots :
       /\ At(p, x) => Pending(p)
       /\ ResultAt(p, x) => jobs[p].home = x.t /\ (jobs[p].id # 0 => heap[p] = "live")

\* A thread about to answer has the result of the push, if anybody asks for it.
ReplyOf(t) ==
    at[t] = "reply" =>
       /\ jobs[batch[t][1].p].id = 0 => result[t] = 0
       /\ jobs[batch[t][1].p].id # 0 =>
             result[t] = batch[t][1].p /\ heap[batch[t][1].p] = "live"

ReplyInv == \A t \in Threads : ReplyOf(t)

\* The id of a push is where its done function is saved.
SavedInv ==
    \A p \in 1 .. Len(jobs) : jobs[p].id # 0 =>
       /\ jobs[p].id \in 1 .. Len(saved[jobs[p].home])
       /\ saved[jobs[p].home][jobs[p].id] = p

\* What has been loaded for a name, or has run for it, was pushed with that name.
Pushed(n, f) == \E q \in 1 .. Len(jobs) : jobs[q].name = n /\ jobs[q].fn = f

NameInv ==
    /\ \A t \in Threads, n \in Names : cache[t][n] # None => Pushed(n, cache[t][n])
    /\ \A p \in 1 .. Len(jobs) : jobs[p].ran # None => Pushed(jobs[p].name, jobs[p].ran)

\* Lua has pushed a job with a done function to a thread that had stopped.
TurnedAway == \E p \in 1 .. Len(jobs) : jobs[p].turned = "push" /\ jobs[p].id # 0

Owns(t, p) == result[t] = p /\ (at[t] = "reply" \/ frames[t] # <<>>)

\* A string belongs to a push that asks for it, and is on its way or has an owner.
KeptInv ==
    \A p \in Pushes : heap[p] = "live" =>
       /\ p \in 1 .. Len(jobs) /\ jobs[p].id # 0
       /\ (\E x \in Spots : ResultAt(p, x)) \/ (\E t \in Threads : Owns(t, p))

\* One thread at a time is in functions that have a string.
OwnerInv ==
    \A t, u \in Threads :
       /\ frames[t] # <<>> /\ frames[u] # <<>>
       /\ result[t] = result[u] /\ result[t] # 0
       => t = u

\* A string is not deleted under a function that has it, nor used after that, unless a
\* push was turned away.
FaultInv ==
    /\ \A t \in Threads :
          /\ frames[t] # <<>> /\ result[t] # 0
          /\ Len(frames[t]) > 1 \/ heap[result[t]] = "deleted"
          => TurnedAway
    /\ fault \in {"null", "deleted"} => TurnedAway

RestInv ==
    /\ OnePlace /\ TokenInv /\ ReplyInv /\ SavedInv /\ NameInv
    /\ CallbackOfPush /\ KeptInv /\ OwnerInv /\ FaultInv

JobInv == JobType /\ StageInv /\ RestInv

-----------------------------------------------------------------------------
\* What a push somewhere says: on its way, and at the head of a batch.
LEMMA OnItsWay ==
  ASSUME WriterType, TokenInv, NEW t \in Threads, at[t] = "push"
  PROVE  Pending(arg[t]) /\ At(arg[t], [kind |-> "push", t |-> t, i |-> 0])
<1> DEFINE x == [kind |-> "push", t |-> t, i |-> 0]
<1>1. x \in Spots /\ x.kind = "push" /\ x.t = t /\ x.i = 0
  BY DEF Spots
<1>2. arg[t] \in Nat
  BY DEF WriterType
<1>3. At(arg[t], x)
  BY <1>1 DEF At
<1>4. Pending(arg[t])
  BY <1>1, <1>2, <1>3 DEF TokenInv
<1> QED BY <1>3, <1>4

HeadSpot(t) == [kind |-> "batch", t |-> t, i |-> 1]

LEMMA AtTheHead ==
  ASSUME JobType, TokenInv, NEW t \in Threads, HeadOpen(t), batch[t] # <<>>,
         batch[t][1].kind # "stop"
  PROVE  /\ batch[t][1] \in Node /\ Head(batch[t]) = batch[t][1]
         /\ Pending(batch[t][1].p) /\ At(batch[t][1].p, HeadSpot(t))
         /\ HeadSpot(t) \in Spots
         /\ batch[t][1].kind = "result" =>
               /\ ResultAt(batch[t][1].p, HeadSpot(t))
               /\ jobs[batch[t][1].p].home = t
               /\ jobs[batch[t][1].p].id # 0 => heap[batch[t][1].p] = "live"
<1> DEFINE x == HeadSpot(t)
<1>1. x \in Spots /\ x.kind = "batch" /\ x.t = t /\ x.i = 1
  BY DEF Spots, HeadSpot
<1>2. batch[t] \in Seq(Node)
  BY DEF JobType
<1>3. 1 \in 1 .. Len(batch[t]) /\ batch[t][1] \in Node /\ Head(batch[t]) = batch[t][1]
  BY <1>2
<1>4. batch[t][1].p \in Nat
  BY <1>3, BoundsAssumption DEF Node
<1>5. At(batch[t][1].p, x)
  BY <1>1, <1>3 DEF At
<1>6. batch[t][1].kind = "result" => ResultAt(batch[t][1].p, x)
  BY <1>1, <1>5 DEF ResultAt
<1>7. Pending(batch[t][1].p)
  BY <1>1, <1>4, <1>5 DEF TokenInv
<1>8. ResultAt(batch[t][1].p, x) =>
         /\ jobs[batch[t][1].p].home = x.t
         /\ jobs[batch[t][1].p].id # 0 => heap[batch[t][1].p] = "live"
  BY <1>1, <1>4 DEF TokenInv
<1> QED BY <1>1, <1>3, <1>5, <1>6, <1>7, <1>8

-----------------------------------------------------------------------------
(* Types.                                                                  *)

LEMMA PendingFacts ==
  ASSUME JobType, NEW p, Pending(p)
  PROVE  /\ p \in Nat \ {0} /\ p <= Len(jobs) /\ Len(jobs) \in Nat /\ p \in Pushes
         /\ p \in 0 .. MaxPushes /\ jobs[p] \in Job
<1>1. p \in 1 .. Len(jobs) /\ Len(jobs) <= MaxPushes /\ jobs \in Seq(Job)
  BY DEF Pending, JobType
<1>2. Len(jobs) \in Nat /\ MaxPushes \in Nat
  BY <1>1, BoundsAssumption
<1> QED BY <1>1, <1>2 DEF Pushes

\* What a done function, or the lack of one, leaves behind.
LEMMA RunDoneType ==
  ASSUME JobType, NEW t \in Threads, NEW p, NEW r, Pending(p), RunDone(t, p, r)
  PROVE  /\ frames' \in [Threads -> Seq(Frame)]
         /\ heap' \in [Pushes -> {"none", "live", "deleted"}]
         /\ calls' \in Seq(Call) /\ \A i \in DOMAIN calls' : calls'[i].p \in 1 .. Len(jobs)
<1>1. p \in Nat /\ p \in 0 .. MaxPushes /\ p \in 1 .. Len(jobs) /\ jobs[p] \in Job
  BY PendingFacts DEF Pending
<1>2. /\ frames \in [Threads -> Seq(Frame)] /\ calls \in Seq(Call)
      /\ heap \in [Pushes -> {"none", "live", "deleted"}]
      /\ saved[t] \in Seq(Pushes) /\ \A i \in DOMAIN calls : calls[i].p \in 1 .. Len(jobs)
  BY DEF JobType
<1>3. CASE UNCHANGED <<frames, heap, calls>>
  BY <1>2, <1>3
<1>4. ASSUME r \in Live, DoneFn(t, p) # 0, UNCHANGED heap,
             frames' = [frames EXCEPT ![t] = Append(@, [kind |-> "done", p |-> p, res |-> r])],
             calls' = Append(calls, [p |-> p, on |-> t, cb |-> DoneFn(t, p), res |-> r])
      PROVE  /\ frames' \in [Threads -> Seq(Frame)]
             /\ heap' \in [Pushes -> {"none", "live", "deleted"}]
             /\ calls' \in Seq(Call) /\ \A i \in DOMAIN calls' : calls'[i].p \in 1 .. Len(jobs)
  <2>1. r \in Pushes /\ r \in 0 .. MaxPushes
    BY <1>4, BoundsAssumption DEF Live, Pushes
  <2>2. DoneFn(t, p) \in Pushes
    BY <1>2, <1>4 DEF DoneFn
  <2>3. [kind |-> "done", p |-> p, res |-> r] \in Frame
    BY <1>1, <2>1 DEF Frame
  <2>4. frames' \in [Threads -> Seq(Frame)]
    BY <1>2, <1>4, <2>3
  <2>5. PICK c : c = [p |-> p, on |-> t, cb |-> DoneFn(t, p), res |-> r]
    OBVIOUS
  <2>6. c \in Call /\ c.p = p
    BY <1>1, <2>1, <2>2, <2>5 DEF Call
  <2>7. calls' = Append(calls, c)
    BY <1>4, <2>5
  <2>8. calls' \in Seq(Call) /\ \A i \in DOMAIN calls' : calls'[i].p \in 1 .. Len(jobs)
    BY <1>1, <1>2, <2>6, <2>7
  <2> QED BY <1>2, <1>4, <2>4, <2>8
<1>5. CASE heap' = Delete(r, FALSE) /\ UNCHANGED <<frames, calls>>
  BY <1>2, <1>5 DEF Delete
<1> QED BY <1>3, <1>4, <1>5 DEF RunDone

\* The types of what push_job changes.
LEMMA AcceptType ==
  ASSUME JobType, NEW t, NEW g, NEW kind \in {"work", "result", "stop"}, NEW p \in 0 .. MaxPushes,
         NEW stage, Accept(t, g, kind, p, stage)
  PROVE  mailbox' \in [Threads -> Seq(Node)]
<1>1. PICK n : n = [kind |-> kind, p |-> p]
  OBVIOUS
<1>2. n \in Node
  BY <1>1 DEF Node
<1>3. mailbox' = [mailbox EXCEPT ![g] = Append(@, n)]
  BY <1>1 DEF Accept
<1>4. mailbox \in [Threads -> Seq(Node)]
  BY DEF JobType
<1>5. CASE g \in Threads
  BY <1>2, <1>3, <1>4, <1>5
<1>6. CASE g \notin Threads
  <2>1. mailbox' = mailbox
    BY <1>3, <1>4, <1>6
  <2> QED BY <1>4, <2>1
<1> QED BY <1>5, <1>6

\* One field of a job changes.
LEMMA JobField ==
  ASSUME JobType, NEW p \in 1 .. Len(jobs), NEW j \in Job, jobs' = [jobs EXCEPT ![p] = j]
  PROVE  jobs' \in Seq(Job) /\ Len(jobs') = Len(jobs)
BY DEF JobType

LEMMA NextType ==
  ASSUME IInv, JobType, StageInv, TokenInv, [Next]_vars
  PROVE  JobType'
<1>1. WriterType /\ MaxPushes \in Nat /\ Len(jobs) \in Nat /\ jobs \in Seq(Job)
  BY BoundsAssumption DEF IInv, JobType
<1>2. ASSUME UNCHANGED <<lua, mailbox, batch, result>>, frames' \in [Threads -> Seq(Frame)]
      PROVE  JobType'
  BY <1>2 DEF lua, JobType
<1>3. ASSUME NEW t \in Threads,
             \/ NewThread(t) \/ (\E n \in PoolSizes : NewPool(t, n)) \/ WaitExec(t)
             \/ MapBegins(t) \/ SetExe(t) \/ Sleep(t)
      PROVE  JobType'
  <2>1. UNCHANGED <<lua, mailbox, batch, result, frames>>
    BY <1>3 DEF NewThread, NewPool, WaitExec, MapBegins, SetExe, Sleep
  <2> QED BY <1>2, <2>1 DEF JobType
<1>4. ASSUME NEW t \in Threads, NotifyExe(t) \/ StartReturns(t) PROVE JobType'
  <2>1. UNCHANGED <<lua, mailbox, batch, result>>
    BY <1>4 DEF NotifyExe, StartReturns
  <2>2. frames' = [frames EXCEPT ![t] = <<>>] \/ frames' = [frames EXCEPT ![t] = <<Entry>>]
    BY <1>4 DEF NotifyExe, StartReturns
  <2>3. <<Entry>> \in Seq(Frame) /\ <<>> \in Seq(Frame)
    BY BoundsAssumption DEF Entry, Frame
  <2> QED BY <1>2, <2>1, <2>2, <2>3 DEF JobType
<1>5. ASSUME NEW t \in Threads, NEW g \in Threads, NEW j \in AllJobs, PushJob(t, g, j)
      PROVE  JobType'
  <2>1. PICK p : p = Len(jobs) + 1
    OBVIOUS
  <2>2. p \in Pushes /\ p \in Nat /\ p <= MaxPushes /\ j \in Jobs[p]
    BY <1>1, <1>5, <2>1 DEF PushJob, Pushes
  <2>3. j.name \in Names /\ j.fn \in Fns
    BY DEF Names, Fns
  <2>4. PICK s : s = IF j.back THEN SaveDone(t, p) ELSE saved[t]
    OBVIOUS
  <2>5. s \in Seq(Pushes) /\ Len(s) \in Nat
    BY <2>2, <2>4 DEF SaveDone, JobType
  <2>6. PICK id : id = IF j.back THEN Len(s) ELSE 0
    OBVIOUS
  <2>7. PICK n : n = [home |-> t, to |-> g, name |-> j.name, fn |-> j.fn, id |-> id,
                      ran |-> None, ok |-> FALSE, turned |-> "no"]
    OBVIOUS
  <2>8. n \in Job
    BY <2>3, <2>5, <2>6, <2>7 DEF Job
  <2>9. /\ saved' = [saved EXCEPT ![t] = s] /\ jobs' = Append(jobs, n)
        /\ UNCHANGED <<mailbox, batch, frames, result, cache, heap, calls>>
    BY <1>5, <2>1, <2>4, <2>6, <2>7 DEF PushJob
  <2>10. jobs' \in Seq(Job) /\ Len(jobs') = p
    BY <1>1, <2>1, <2>8, <2>9
  <2>11. saved' \in [Threads -> Seq(Pushes)]
    BY <2>5, <2>9 DEF JobType
  <2>12. /\ result \in [Threads -> Nat] /\ \A u \in Threads : result[u] <= p
         /\ \A i \in DOMAIN calls : calls[i].p \in 1 .. p
    <3>1. PICK k \in Nat : k = Len(jobs)
      BY <1>1
    <3>2. /\ result \in [Threads -> Nat] /\ \A u \in Threads : result[u] <= k
          /\ \A i \in DOMAIN calls : calls[i].p \in 1 .. k
      BY <3>1 DEF JobType
    <3>3. p = k + 1
      BY <2>1, <3>1
    <3> QED BY <3>2, <3>3
  <2> QED BY <2>2, <2>9, <2>10, <2>11, <2>12 DEF JobType
<1>6. ASSUME NEW t \in Threads, PushAccepted(t) PROVE JobType'
  <2>1. Pending(arg[t])
    BY <1>1, <1>6, OnItsWay DEF PushAccepted
  <2>2. mailbox' \in [Threads -> Seq(Node)]
    BY <1>6, <2>1, PendingFacts, AcceptType DEF PushAccepted
  <2> QED BY <1>6, <2>2 DEF PushAccepted, JobType, lua
<1>7. ASSUME NEW t \in Threads, ReplyAccepted(t) PROVE JobType'
  <2>1. HeadOpen(t) /\ batch[t] # <<>> /\ batch[t][1].kind # "stop"
    BY <1>7 DEF ReplyAccepted, StageInv, StageOf, HeadOpen
  <2>2. Pending(Head(batch[t]).p)
    BY <2>1, AtTheHead
  <2>3. mailbox' \in [Threads -> Seq(Node)]
    BY <1>7, <2>2, PendingFacts, AcceptType DEF ReplyAccepted
  <2> QED BY <1>7, <2>3 DEF ReplyAccepted, JobType, lua
<1>8. ASSUME NEW t \in Threads, NEW p, Pending(p), NEW r \in Nat, r <= Len(jobs), RunDone(t, p, r),
             UNCHANGED <<mailbox, batch, saved, cache>>,
             result' = [result EXCEPT ![t] = r],
             UNCHANGED jobs \/ \E why \in {"push", "reply"} : jobs' = [jobs EXCEPT ![p].turned = why]
      PROVE  JobType'
  <2>1. /\ frames' \in [Threads -> Seq(Frame)]
        /\ heap' \in [Pushes -> {"none", "live", "deleted"}]
        /\ calls' \in Seq(Call) /\ \A i \in DOMAIN calls' : calls'[i].p \in 1 .. Len(jobs)
    BY <1>8, RunDoneType
  <2>2. jobs' \in Seq(Job) /\ Len(jobs') = Len(jobs)
    <3>1. CASE UNCHANGED jobs
      BY <1>1, <3>1
    <3>2. ASSUME NEW why \in {"push", "reply"}, jobs' = [jobs EXCEPT ![p].turned = why]
          PROVE  jobs' \in Seq(Job) /\ Len(jobs') = Len(jobs)
      <4>1. jobs[p] \in Job /\ p \in 1 .. Len(jobs)
        BY <1>8, PendingFacts DEF Pending
      <4>2. PICK j : j = [jobs[p] EXCEPT !.turned = why]
        OBVIOUS
      <4>3. j \in Job
        BY <4>1, <4>2 DEF Job
      <4> QED BY <3>2, <4>1, <4>2, <4>3, JobField
    <3> QED BY <1>8, <3>1, <3>2
  <2>3. result' \in [Threads -> Nat] /\ \A u \in Threads : result'[u] <= Len(jobs)
    BY <1>8 DEF JobType
  <2> QED BY <1>8, <2>1, <2>2, <2>3 DEF JobType
<1>9. ASSUME NEW t \in Threads, PushRejected(t) PROVE JobType'
  <2>1. Pending(arg[t])
    BY <1>1, <1>9, OnItsWay DEF PushRejected
  <2>2. result[t] \in Nat /\ result[t] <= Len(jobs) /\ result' = [result EXCEPT ![t] = result[t]]
    BY <1>9 DEF PushRejected, JobType
  <2> QED BY <1>8, <1>9, <2>1, <2>2 DEF PushRejected
<1>10. ASSUME NEW t \in Threads, ReplyRejected(t) PROVE JobType'
  <2>1. HeadOpen(t) /\ batch[t] # <<>> /\ batch[t][1].kind # "stop"
    BY <1>10 DEF ReplyRejected, StageInv, StageOf, HeadOpen
  <2>2. PICK p : p = Head(batch[t]).p /\ Pending(p)
    BY <2>1, AtTheHead
  <2>3. result[t] \in Nat /\ result[t] <= Len(jobs) /\ result' = [result EXCEPT ![t] = result[t]]
    BY <1>10 DEF ReplyRejected, JobType
  <2> QED BY <1>8, <1>10, <2>2, <2>3 DEF ReplyRejected
<1>11. ASSUME NEW t \in Threads, GetResult(t) PROVE JobType'
  <2>1. HeadOpen(t) /\ batch[t] # <<>> /\ Head(batch[t]).kind # "stop" /\ batch[t] \in Seq(Node)
    BY <1>11 DEF GetResult, IsNode, HeadOpen, JobType
  <2>2. PICK p : p = Head(batch[t]).p /\ Pending(p)
    BY <2>1, AtTheHead
  <2>3. Carried(p) \in Nat /\ Carried(p) <= Len(jobs)
    BY <1>1, <2>2 DEF Carried, Pending
  <2> QED BY <1>8, <1>11, <2>2, <2>3 DEF GetResult, SetResult
<1>12. ASSUME NEW t \in Threads, Take(t) PROVE JobType'
  BY <1>12 DEF Take, JobType, lua
<1>13. ASSUME NEW t \in Threads, RunStop(t) \/ NodeEnds(t) PROVE JobType'
  <2>1. batch' = [batch EXCEPT ![t] = Tail(@)] /\ UNCHANGED <<lua, mailbox, frames>>
    BY <1>13 DEF RunStop, NodeEnds, EndNode
  <2>2. batch[t] # <<>>
    BY <1>13 DEF RunStop, NodeEnds, IsNode, StageInv, StageOf, LuaStages, First
  <2>3. UNCHANGED result \/ result' = [result EXCEPT ![t] = 0]
    BY <1>13 DEF RunStop, NodeEnds, Reset, SetResult, JobType
  <2>4. batch' \in [Threads -> Seq(Node)]
    BY <2>1, <2>2 DEF JobType
  <2>5. result' \in [Threads -> Nat] /\ \A u \in Threads : result'[u] <= Len(jobs)
    <3>1. result \in [Threads -> Nat] /\ \A u \in Threads : result[u] <= Len(jobs)
      BY DEF JobType
    <3>2. CASE UNCHANGED result
      BY <3>1, <3>2
    <3>3. CASE result' = [result EXCEPT ![t] = 0]
      BY <1>1, <3>1, <3>3
    <3> QED BY <2>3, <3>2, <3>3
  <2> QED BY <2>1, <2>4, <2>5 DEF JobType, lua
<1>14. ASSUME NEW t \in Threads, RunWork(t) PROVE JobType'
  <2>1. HeadOpen(t) /\ batch[t] # <<>> /\ Head(batch[t]).kind # "stop" /\ batch[t] \in Seq(Node)
    BY <1>14 DEF RunWork, IsNode, HeadOpen, JobType
  <2>2. PICK p : p = Head(batch[t]).p /\ Pending(p)
    BY <2>1, AtTheHead
  <2>3. p \in 1 .. Len(jobs) /\ jobs[p] \in Job /\ p \in 0 .. MaxPushes
    BY <2>2, PendingFacts DEF Pending
  <2>4. PICK f : f = Loaded(t, jobs[p].name, jobs[p].fn)
    OBVIOUS
  <2>5. f \in Fns \cup {None} /\ jobs[p].name \in Names
    <3>1. jobs[p].name \in Names /\ jobs[p].fn \in Fns
      BY <2>3 DEF Job
    <3>2. cache[t][jobs[p].name] \in Fns \cup {None}
      BY <3>1 DEF JobType
    <3> QED BY <2>4, <3>1, <3>2 DEF Loaded
  <2>6. PICK j : j = [jobs[p] EXCEPT !.ran = f]
    OBVIOUS
  <2>7. j \in Job
    BY <2>3, <2>5, <2>6 DEF Job
  <2>8. /\ result' = [result EXCEPT ![t] = 0]
        /\ cache' = [cache EXCEPT ![t][jobs[p].name] = f]
        /\ jobs' = [jobs EXCEPT ![p] = j]
        /\ frames' = [frames EXCEPT ![t] = <<[kind |-> "work", p |-> p, res |-> 0]>>]
        /\ UNCHANGED <<mailbox, batch, saved, heap, calls>>
    BY <1>14, <2>2, <2>4, <2>6 DEF RunWork, SetResult
  <2>9. jobs' \in Seq(Job) /\ Len(jobs') = Len(jobs)
    BY <2>3, <2>7, <2>8, JobField
  <2>10. frames' \in [Threads -> Seq(Frame)]
    <3>1. [kind |-> "work", p |-> p, res |-> 0] \in Frame
      BY <1>1, <2>3 DEF Frame
    <3> QED BY <2>8, <3>1 DEF JobType
  <2>11. cache' \in [Threads -> [Names -> Fns \cup {None}]]
    BY <2>5, <2>8 DEF JobType
  <2>12. result' \in [Threads -> Nat] /\ \A u \in Threads : result'[u] <= Len(jobs)
    BY <1>1, <2>8 DEF JobType
  <2> QED BY <2>8, <2>9, <2>10, <2>11, <2>12 DEF JobType
<1>15. ASSUME NEW t \in Threads, NEW ok \in BOOLEAN, WorkReturns(t, ok) PROVE JobType'
  <2>1. First(t, "work") /\ Len(frames[t]) \in Nat
    <3>1. frames[t] \in Seq(Frame) /\ frames[t] # <<>> /\ frames[t][Len(frames[t])].kind = "work"
      BY <1>15 DEF WorkReturns, InWork, JobType
    <3>2. \A i \in 2 .. Len(frames[t]) : frames[t][i].kind = "done"
      BY DEF StageInv, StageOf
    <3> QED BY <3>1, <3>2 DEF First
  <2>2. HeadOpen(t) /\ batch[t] # <<>> /\ batch[t][1].kind # "stop"
    BY <2>1 DEF StageInv, StageOf, HeadOpen
  <2>3. PICK p : p = Head(batch[t]).p /\ Pending(p)
    BY <2>2, AtTheHead
  <2>4. p \in 1 .. Len(jobs) /\ jobs[p] \in Job
    BY <2>3, PendingFacts DEF Pending
  <2>5. frames' \in [Threads -> Seq(Frame)]
    <3>1. frames[t] \in Seq(Frame) /\ frames \in [Threads -> Seq(Frame)] /\ frames[t] # <<>>
      BY <2>1 DEF JobType, First
    <3>2. Below(t) \in Seq(Frame)
      BY <3>1 DEF Below
    <3> QED BY <1>15, <3>1, <3>2 DEF WorkReturns
  <2>6. UNCHANGED <<mailbox, batch, saved, cache, calls>>
    BY <1>15 DEF WorkReturns
  <2>7. CASE UNCHANGED <<result, heap, jobs>>
    BY <2>5, <2>6, <2>7 DEF JobType
  <2>8. CASE /\ result' = [result EXCEPT ![t] = p] /\ heap' = [heap EXCEPT ![p] = "live"]
             /\ jobs' = [jobs EXCEPT ![p].ok = ok]
    <3>1. PICK j : j = [jobs[p] EXCEPT !.ok = ok]
      OBVIOUS
    <3>2. j \in Job
      BY <2>4, <3>1 DEF Job
    <3>3. jobs' \in Seq(Job) /\ Len(jobs') = Len(jobs)
      BY <2>4, <2>8, <3>1, <3>2, JobField
    <3>4. result' \in [Threads -> Nat] /\ \A u \in Threads : result'[u] <= Len(jobs)
      BY <1>1, <2>4, <2>8 DEF JobType
    <3>5. heap' \in [Pushes -> {"none", "live", "deleted"}]
      BY <2>8 DEF JobType
    <3> QED BY <2>5, <2>6, <3>3, <3>4, <3>5 DEF JobType
  <2> QED BY <1>15, <2>3, <2>7, <2>8 DEF WorkReturns, SetResult
<1>16. ASSUME NEW t \in Threads, DoneReturns(t) PROVE JobType'
  <2>1. frames[t] # <<>> /\ frames' = [frames EXCEPT ![t] = Below(t)]
        /\ UNCHANGED <<mailbox, batch, result, saved, cache, jobs, calls>>
    BY <1>16 DEF DoneReturns, InLua
  <2>2. heap' \in [Pushes -> {"none", "live", "deleted"}]
    BY <1>16 DEF DoneReturns, Delete, JobType
  <2>3. frames' \in [Threads -> Seq(Frame)]
    <3>1. frames[t] \in Seq(Frame) /\ frames \in [Threads -> Seq(Frame)]
      BY DEF JobType
    <3>2. Below(t) \in Seq(Frame)
      BY <2>1, <3>1 DEF Below
    <3> QED BY <2>1, <3>1, <3>2
  <2> QED BY <2>1, <2>2, <2>3 DEF JobType
<1>16a. ASSUME NEW t \in Threads, WorkPanics(t) PROVE JobType'
  BY <1>16a DEF WorkPanics, lua, JobType
<1>17. CASE SendStop
  <2>1. [kind |-> "stop", p |-> 0] \in Node
    BY <1>1 DEF Node
  <2>2. /\ \/ UNCHANGED mailbox
           \/ \E g : mailbox' = [mailbox EXCEPT ![g] = Append(@, [kind |-> "stop", p |-> 0])]
        /\ UNCHANGED <<batch, frames, result, lua>>
    BY <1>17 DEF SendStop
  <2>3. mailbox' \in [Threads -> Seq(Node)]
    <3>1. PICK n \in Node : n = [kind |-> "stop", p |-> 0]
      BY <2>1
    <3>2. mailbox \in [Threads -> Seq(Node)]
      BY DEF JobType
    <3>3. ASSUME NEW g, mailbox' = [mailbox EXCEPT ![g] = Append(@, n)]
          PROVE  mailbox' \in [Threads -> Seq(Node)]
      <4>1. CASE g \in Threads
        BY <3>2, <3>3, <4>1
      <4>2. CASE g \notin Threads
        <5>1. mailbox' = mailbox
          BY <3>2, <3>3, <4>2
        <5> QED BY <3>2, <5>1
      <4> QED BY <4>1, <4>2
    <3>4. UNCHANGED mailbox \/ \E g : mailbox' = [mailbox EXCEPT ![g] = Append(@, n)]
      BY <2>2, <3>1
    <3> QED BY <3>2, <3>3, <3>4
  <2> QED BY <2>2, <2>3 DEF JobType, lua
<1>18. CASE UNCHANGED vars
  BY <1>18 DEF vars, lua, JobType
<1> QED
  BY <1>3, <1>4, <1>5, <1>6, <1>7, <1>9, <1>10, <1>11, <1>12, <1>13, <1>14, <1>15, <1>16, <1>16a,
     <1>17, <1>18
     DEF Next, Continues, Calls, Boot, Loop, Returns, Over

-----------------------------------------------------------------------------
(* The threads that a step leaves alone.                                   *)

\* A step moves the thread u from one stage to a like one at most.
Alike(u) ==
    /\ frames'[u] = frames[u] /\ result'[u] = result[u] /\ batch'[u] = batch[u]
    /\ \/ at'[u] = at[u] /\ arg'[u] = arg[u]
       \/ at[u] \in IdleStages /\ at'[u] \in IdleStages
       \/ /\ at[u] \in {"user", "newthread", "newsleep"}
          /\ at'[u] \in {"user", "newthread", "newsleep"}
          /\ frames[u] # <<>>

LEMMA AlikeStage ==
  ASSUME NEW u \in Threads, StageOf(u), Alike(u)
  PROVE  /\ StageOf(u)' /\ (HeadOpen(u)' <=> HeadOpen(u))
         /\ at'[u] = "push" <=> at[u] = "push"
         /\ at[u] = "push" => arg'[u] = arg[u]
         /\ at'[u] = "reply" <=> at[u] = "reply"
BY DEF Alike, StageOf, HeadOpen, First, LuaStages, IdleStages

\* So a push stays where it is, in the push of a thread or in a batch, and so does who
\* has a string.
LEMMA AlikeAt ==
  ASSUME StageInv, NEW x \in Spots, Alike(x.t), x.kind # "mail"
  PROVE  \A p : (At(p, x)' <=> At(p, x)) /\ (ResultAt(p, x)' <=> ResultAt(p, x))
<1>1. /\ x.t \in Threads /\ batch'[x.t] = batch[x.t]
      /\ x.kind = "push" \/ x.kind = "batch"
  BY DEF Spots, Alike
<1>2. /\ HeadOpen(x.t)' <=> HeadOpen(x.t)
      /\ at'[x.t] = "push" <=> at[x.t] = "push"
      /\ at[x.t] = "push" => arg'[x.t] = arg[x.t]
  BY <1>1, AlikeStage DEF StageInv
<1> QED BY <1>1, <1>2 DEF At, ResultAt

LEMMA AlikeOwns ==
  ASSUME StageInv, NEW u \in Threads, Alike(u), NEW p
  PROVE  Owns(u, p)' <=> Owns(u, p)
BY AlikeStage DEF StageInv, Owns, Alike

\* A node in a mailbox stays where it is if the mailbox does.
LEMMA SameMail ==
  ASSUME NEW x \in Spots, x.kind = "mail", mailbox'[x.t] = mailbox[x.t]
  PROVE  \A p : (At(p, x)' <=> At(p, x)) /\ (ResultAt(p, x)' <=> ResultAt(p, x))
BY DEF At, ResultAt

\* notify_one leaves all others alike.
LEMMA NotifyAlike ==
  ASSUME WriterType, StageInv, NEW t \in Threads, NEW g, NEW stage \in Stages,
         at[t] \notin {"sleep", "newsleep"}, NotifyOne(g, [at EXCEPT ![t] = stage]),
         UNCHANGED <<batch, result>>,
         \A u \in Threads \ {t} : frames'[u] = frames[u] /\ arg'[u] = arg[u]
  PROVE  at'[t] = stage /\ \A u \in Threads \ {t} : Alike(u)
<1>1. /\ at'[t] = stage
      /\ \A u \in Threads \ {t} :
            \/ at'[u] = at[u]
            \/ at[u] = "sleep" /\ at'[u] = "wait"
            \/ at[u] = "newsleep" /\ at'[u] = "newthread"
  BY NotifyStages
<1>2. \A u \in Threads : at[u] = "newsleep" => frames[u] # <<>>
  BY DEF StageInv, StageOf
<1> QED BY <1>1, <1>2 DEF Alike, IdleStages

LEMMA Others ==
  ASSUME IInv, JobType, StageInv, NEW t \in Threads, Continues(t) \/ Calls(t)
  PROVE  \A u \in Threads \ {t} : Alike(u)
<1>1. /\ WriterType
      /\ frames \in [Threads -> Seq(Frame)] /\ batch \in [Threads -> Seq(Node)]
      /\ result \in [Threads -> Nat]
  BY DEF IInv, JobType
<1>2. CASE NewThread(t)
  <2>1. PICK g : g = Len(made) + 1 /\ g \in Threads
                 /\ at' = [at EXCEPT ![t] = "newthread", ![g] = "boot"]
                 /\ arg' = [arg EXCEPT ![t] = g] /\ UNCHANGED <<batch, frames, result>>
    BY <1>2 DEF NewThread
  <2>2. at[g] = "none"
    BY <2>1 DEF IInv, BornInv, WriterType
  <2>3. \A u \in Threads \ {t} : arg'[u] = arg[u] /\ (at'[u] = at[u] \/ (u = g /\ at'[u] = "boot"))
    BY <1>1, <2>1 DEF WriterType
  <2> QED BY <2>1, <2>2, <2>3 DEF Alike, IdleStages
<1>3. CASE \E n \in PoolSizes : NewPool(t, n)
  <2>1. PICK n \in PoolSizes : NewPool(t, n)
    BY <1>3
  <2>2. PICK new : /\ new = (Len(made) + 1) .. (Len(made) + n)
                   /\ at' = [g \in Threads |-> IF g \in new THEN "boot" ELSE at[g]]
                   /\ UNCHANGED <<arg, batch, frames, result>>
    <3>1. n \in Nat /\ Len(made) \in Nat
      BY BoundsAssumption DEF IInv, WriterType
    <3>2. Len(made) + 1 + n - 1 = Len(made) + n
      BY <3>1
    <3> QED BY <2>1, <3>2 DEF NewPool
  <2>3. \A g \in Threads : g \in new => at[g] = "none"
    BY <2>2, ThreadFacts DEF IInv, BornInv, WriterType
  <2> QED BY <2>2, <2>3 DEF Alike, IdleStages
<1>4. CASE \/ PushAccepted(t) \/ ReplyAccepted(t) \/ NotifyExe(t)
  <2>1. PICK stage \in {"wait", "user"} : \E g : NotifyOne(g, [at EXCEPT ![t] = stage])
    <3>1. CASE PushAccepted(t) \/ ReplyAccepted(t)
      <4>1. \E g : NotifyOne(g, [at EXCEPT ![t] = "user"])
        BY <3>1 DEF PushAccepted, ReplyAccepted, Accept
      <4> QED BY <4>1
    <3>2. CASE NotifyExe(t)
      <4>1. PICK stage \in {"wait", "user"} : stage = IF t = Main THEN "wait" ELSE "user"
        OBVIOUS
      <4>2. NotifyOne(t, [at EXCEPT ![t] = stage])
        BY <3>2, <4>1 DEF NotifyExe
      <4> QED BY <4>2
    <3> QED BY <1>4, <3>1, <3>2
  <2>2. stage \in Stages /\ at[t] \notin {"sleep", "newsleep"} /\ UNCHANGED <<batch, result>>
    BY <1>4 DEF PushAccepted, ReplyAccepted, NotifyExe, Stages
  <2>3. \A u \in Threads \ {t} : frames'[u] = frames[u] /\ arg'[u] = arg[u]
    BY <1>1, <1>4 DEF PushAccepted, ReplyAccepted, NotifyExe, WriterType
  <2> QED BY <1>1, <2>1, <2>2, <2>3, NotifyAlike
<1>5. ASSUME UNCHANGED at \/ \E stage : at' = [at EXCEPT ![t] = stage],
             UNCHANGED arg \/ \E p : arg' = [arg EXCEPT ![t] = p],
             UNCHANGED frames \/ \E f : frames' = [frames EXCEPT ![t] = f],
             UNCHANGED batch \/ \E b : batch' = [batch EXCEPT ![t] = b],
             UNCHANGED result \/ \E r : result' = [result EXCEPT ![t] = r]
      PROVE  \A u \in Threads \ {t} : Alike(u)
  <2>1. \A u \in Threads \ {t} : at'[u] = at[u] /\ arg'[u] = arg[u]
    BY <1>1, <1>5 DEF WriterType
  <2>2. \A u \in Threads \ {t} :
           frames'[u] = frames[u] /\ batch'[u] = batch[u] /\ result'[u] = result[u]
    BY <1>1, <1>5
  <2> QED BY <2>1, <2>2 DEF Alike
<1>6. CASE WaitExec(t) \/ MapBegins(t) \/ SetExe(t) \/ Sleep(t) \/ StartReturns(t) \/ Take(t)
  <2>1. UNCHANGED at \/ \E stage : at' = [at EXCEPT ![t] = stage]
    BY <1>6 DEF WaitExec, MapBegins, SetExe, Sleep, StartReturns, Take
  <2>2. UNCHANGED arg \/ \E p : arg' = [arg EXCEPT ![t] = p]
    BY <1>6 DEF WaitExec, MapBegins, SetExe, Sleep, StartReturns, Take
  <2>3. UNCHANGED frames \/ \E f : frames' = [frames EXCEPT ![t] = f]
    BY <1>6 DEF WaitExec, MapBegins, SetExe, Sleep, StartReturns, Take
  <2>4. UNCHANGED batch \/ \E b : batch' = [batch EXCEPT ![t] = b]
    BY <1>6 DEF WaitExec, MapBegins, SetExe, Sleep, StartReturns, Take
  <2>5. UNCHANGED result
    BY <1>6 DEF WaitExec, MapBegins, SetExe, Sleep, StartReturns, Take
  <2> QED BY <1>5, <2>1, <2>2, <2>3, <2>4, <2>5
<1>7. CASE \E g \in Threads, j \in AllJobs : PushJob(t, g, j)
  BY <1>5, <1>7 DEF PushJob
<1>8. ASSUME NEW p, NEW r, RunDone(t, p, r)
      PROVE  UNCHANGED frames \/ \E f : frames' = [frames EXCEPT ![t] = f]
  <2>1. \/ UNCHANGED frames
        \/ frames' = [frames EXCEPT ![t] = Append(@, [kind |-> "done", p |-> p, res |-> r])]
    BY <1>8 DEF RunDone
  <2> QED BY <1>1, <2>1
<1>9. CASE PushRejected(t)
  <2>1. UNCHANGED frames \/ \E f : frames' = [frames EXCEPT ![t] = f]
    BY <1>8, <1>9 DEF PushRejected
  <2> QED BY <1>5, <1>9, <2>1 DEF PushRejected
<1>10. CASE ReplyRejected(t)
  <2>1. UNCHANGED frames \/ \E f : frames' = [frames EXCEPT ![t] = f]
    BY <1>8, <1>10 DEF ReplyRejected
  <2> QED BY <1>5, <1>10, <2>1 DEF ReplyRejected
<1>11. CASE GetResult(t)
  <2>1. UNCHANGED frames \/ \E f : frames' = [frames EXCEPT ![t] = f]
    BY <1>8, <1>11 DEF GetResult
  <2> QED BY <1>5, <1>11, <2>1 DEF GetResult, SetResult
<1>12. CASE RunStop(t) \/ NodeEnds(t)
  <2>1. \E stage : at' = [at EXCEPT ![t] = stage]
    BY <1>12 DEF RunStop, NodeEnds, EndNode
  <2>2. batch' = [batch EXCEPT ![t] = Tail(batch[t])]
    BY <1>1, <1>12 DEF RunStop, NodeEnds, EndNode
  <2>3. UNCHANGED <<arg, frames>>
    BY <1>12 DEF RunStop, NodeEnds
  <2>4. UNCHANGED result \/ \E r : result' = [result EXCEPT ![t] = r]
    BY <1>12 DEF RunStop, NodeEnds, Reset, SetResult
  <2> QED BY <1>5, <2>1, <2>2, <2>3, <2>4
<1>13. CASE RunWork(t)
  BY <1>5, <1>13 DEF RunWork, SetResult
<1>14. CASE \E ok \in BOOLEAN : WorkReturns(t, ok)
  <2>1. PICK ok \in BOOLEAN : WorkReturns(t, ok)
    BY <1>14
  <2>2. UNCHANGED result \/ \E r : result' = [result EXCEPT ![t] = r]
    BY <2>1 DEF WorkReturns, SetResult
  <2> QED BY <1>5, <2>1, <2>2 DEF WorkReturns
<1>15. CASE DoneReturns(t)
  BY <1>5, <1>15 DEF DoneReturns
<1>16. CASE WorkPanics(t)
  BY <1>5, <1>16 DEF WorkPanics
<1> QED
  BY <1>2, <1>3, <1>4, <1>6, <1>7, <1>9, <1>10, <1>11, <1>12, <1>13, <1>14, <1>15, <1>16
     DEF Continues, Calls, Boot, Loop, Returns

-----------------------------------------------------------------------------
(* Stages.                                                                 *)

\* A done function that RunDone calls stands on top and has the thread's result.
LEMMA RunDoneFrames ==
  ASSUME JobType, NEW t \in Threads, NEW p, NEW r, Pending(p), RunDone(t, p, r)
  PROVE  \/ UNCHANGED frames
         \/ /\ r \in Live /\ r # 0 /\ Len(frames'[t]) = Len(frames[t]) + 1 /\ frames'[t] # <<>>
            /\ \A i \in 1 .. Len(frames[t]) : frames'[t][i] = frames[t][i]
            /\ frames'[t][Len(frames[t]) + 1].kind = "done"
            /\ frames'[t][Len(frames[t]) + 1].res = r
<1>1. frames[t] \in Seq(Frame) /\ frames \in [Threads -> Seq(Frame)]
  BY DEF JobType
<1>2. PICK f : f = [kind |-> "done", p |-> p, res |-> r]
  OBVIOUS
<1>3. ASSUME r \in Live, frames' = [frames EXCEPT ![t] = Append(@, f)]
      PROVE  /\ r # 0 /\ Len(frames'[t]) = Len(frames[t]) + 1 /\ frames'[t] # <<>>
             /\ \A i \in 1 .. Len(frames[t]) : frames'[t][i] = frames[t][i]
             /\ frames'[t][Len(frames[t]) + 1] = f
  <2>1. r # 0 /\ r \in 0 .. MaxPushes
    BY <1>3, BoundsAssumption DEF Live, Pushes
  <2>2. f \in Frame
    BY <1>2, <2>1, PendingFacts DEF Frame
  <2> QED BY <1>1, <1>3, <2>1, <2>2
<1>4. UNCHANGED frames \/ (r \in Live /\ frames' = [frames EXCEPT ![t] = Append(@, f)])
  BY <1>2 DEF RunDone
<1>5. f.kind = "done" /\ f.res = r
  BY <1>2
<1> QED BY <1>3, <1>4, <1>5

\* A done function on top of others, or the first after a node's own.
LEMMA RunDoneStage ==
  ASSUME JobType, NEW t \in Threads, NEW p, NEW r, Pending(p), RunDone(t, p, r), StageOf(t),
         at[t] \in {"push", "reply", "batch"}, r = result[t] \/ at[t] = "batch",
         batch'[t] = batch[t], result'[t] = r, at'[t] = "user"
  PROVE  StageOf(t)'
<1>1. frames[t] \in Seq(Frame) /\ batch[t] \in Seq(Node)
  BY DEF JobType
<1>2. CASE at[t] = "push"
  <2>1. r = result[t] /\ frames[t] # <<>> /\ (batch[t] = <<>> <=> First(t, "start"))
    BY <1>2 DEF StageOf, LuaStages
  <2>2. CASE UNCHANGED frames
    BY <1>2, <2>1, <2>2 DEF StageOf, First, LuaStages, IdleStages
  <2>3. CASE /\ r # 0 /\ Len(frames'[t]) = Len(frames[t]) + 1 /\ frames'[t] # <<>>
             /\ \A i \in 1 .. Len(frames[t]) : frames'[t][i] = frames[t][i]
             /\ frames'[t][Len(frames[t]) + 1].kind = "done"
             /\ frames'[t][Len(frames[t]) + 1].res = r
    <3>1. ~First(t, "start") /\ ~First(t, "work")
      BY <2>1, <2>3 DEF StageOf
    <3>2. 1 \in 1 .. Len(frames[t]) /\ Len(frames[t]) \in Nat
      BY <1>1, <2>1
    <3>3. frames'[t][1] = frames[t][1]
      BY <2>3, <3>2
    <3>4. ~First(t, "start")' /\ ~First(t, "work")'
      BY <2>1, <3>1, <3>3 DEF First
    <3>5. \A i \in 2 .. Len(frames'[t]) : frames'[t][i].kind = "done"
      <4>1. \A i \in 2 .. Len(frames[t]) : frames[t][i].kind = "done"
        BY DEF StageOf
      <4> QED BY <2>3, <3>2, <4>1
    <3>6. \A i \in 1 .. Len(frames'[t]) :
             frames'[t][i].kind = "done" => frames'[t][i].res = r
      <4>1. \A i \in 1 .. Len(frames[t]) :
               frames[t][i].kind = "done" => frames[t][i].res = r
        BY <2>1 DEF StageOf
      <4> QED BY <2>3, <3>2, <4>1
    <3> QED
      BY <2>1, <2>3, <3>1, <3>4, <3>5, <3>6 DEF StageOf, LuaStages, IdleStages
  <2> QED BY <2>2, <2>3, RunDoneFrames
<1>3. CASE at[t] \in {"reply", "batch"}
  <2>1. frames[t] = <<>> /\ batch[t] # <<>>
    BY <1>3 DEF StageOf, LuaStages
  <2>2. CASE UNCHANGED frames
    BY <2>1, <2>2 DEF StageOf, First, LuaStages, IdleStages
  <2>3. CASE /\ r # 0 /\ Len(frames'[t]) = Len(frames[t]) + 1 /\ frames'[t] # <<>>
             /\ frames'[t][Len(frames[t]) + 1].kind = "done"
             /\ frames'[t][Len(frames[t]) + 1].res = r
    <3>1. Len(frames'[t]) = 1 /\ frames'[t][1].kind = "done" /\ frames'[t][1].res = r
      BY <2>1, <2>3
    <3> QED BY <2>1, <2>3, <3>1 DEF StageOf, First, LuaStages, IdleStages
  <2> QED BY <2>2, <2>3, RunDoneFrames
<1> QED BY <1>2, <1>3

\* exec goes on to the next node, or has gone through the batch.
LEMMA EndNodeStage ==
  ASSUME JobType, NEW t \in Threads, WriterType, EndNode(t), batch[t] # <<>>,
         frames'[t] = <<>>, result'[t] = 0
  PROVE  StageOf(t)'
<1>1. batch[t] \in Seq(Node) /\ batch \in [Threads -> Seq(Node)] /\ at \in [Threads -> Stages]
  BY DEF JobType, WriterType
<1>2. batch'[t] = Tail(batch[t]) /\ at'[t] = (IF Len(batch[t]) = 1 THEN "wait" ELSE "batch")
  BY <1>1 DEF EndNode
<1>3. Len(batch[t]) = 1 <=> batch'[t] = <<>>
  <2>1. batch'[t] \in Seq(Node) /\ Len(batch'[t]) = Len(batch[t]) - 1 /\ Len(batch[t]) \in Nat \ {0}
    BY <1>1, <1>2
  <2>2. PICK b \in Seq(Node), n \in Nat : b = batch'[t] /\ n = Len(batch[t])
    BY <2>1
  <2>3. Len(b) = n - 1 /\ (b = <<>> <=> Len(b) = 0)
    BY <2>1, <2>2
  <2>4. n = 1 <=> b = <<>>
    BY <2>3
  <2> QED BY <2>2, <2>4
<1> QED BY <1>2, <1>3 DEF StageOf, First, LuaStages, IdleStages

\* The step that a thread makes leaves it at the right stage.
LEMMA NextStage ==
  ASSUME IInv, JobType, StageInv, TokenInv, NEW t \in Threads, Continues(t) \/ Calls(t)
  PROVE  StageOf(t)'
<1>1. /\ WriterType /\ at \in [Threads -> Stages] /\ StageOf(t)
      /\ frames \in [Threads -> Seq(Frame)] /\ batch \in [Threads -> Seq(Node)]
      /\ result \in [Threads -> Nat] /\ mailbox \in [Threads -> Seq(Node)]
  BY DEF IInv, JobType, StageInv, WriterType
<1>2. ASSUME Alike(t) PROVE StageOf(t)'
  BY <1>1, <1>2, AlikeStage
<1>3. CASE NewThread(t)
  <2>1. PICK g : g = Len(made) + 1 /\ g \in Threads
                 /\ at' = [at EXCEPT ![t] = "newthread", ![g] = "boot"]
                 /\ UNCHANGED <<batch, frames, result>>
    BY <1>3 DEF NewThread
  <2>2. at[t] = "user" /\ frames[t] # <<>>
    BY <1>3 DEF NewThread, InLua
  <2>3. at[g] = "none"
    BY <2>1 DEF IInv, BornInv, WriterType
  <2>4. at'[t] = "newthread"
    BY <1>1, <2>1, <2>2, <2>3
  <2> QED BY <1>2, <2>1, <2>2, <2>4 DEF Alike
<1>4. CASE \E n \in PoolSizes : NewPool(t, n)
  <2>1. PICK n \in PoolSizes : NewPool(t, n)
    BY <1>4
  <2>2. at[t] = "user" /\ frames[t] # <<>> /\ UNCHANGED <<arg, batch, frames, result>>
    BY <2>1 DEF NewPool, InLua
  <2>3. at'[t] = at[t]
    <3>1. PICK new : /\ new = (Len(made) + 1) .. (Len(made) + 1 + n - 1)
                     /\ at' = [g \in Threads |-> IF g \in new THEN "boot" ELSE at[g]]
      BY <2>1 DEF NewPool
    <3>2. t \notin new
      <4>1. t <= Len(made) /\ Len(made) \in Nat /\ t \in Nat
        BY <2>2, ThreadFacts DEF IInv, BornInv, WriterType
      <4> QED BY <3>1, <4>1
    <3> QED BY <3>1, <3>2
  <2> QED BY <1>2, <2>2, <2>3 DEF Alike
<1>5. CASE WaitExec(t)
  <2>1. at[t] = "newthread" /\ at'[t] \in {"user", "newsleep"} /\ UNCHANGED <<batch, frames, result>>
    BY <1>1, <1>5 DEF WaitExec
  <2>2. frames[t] # <<>>
    BY <1>1, <2>1 DEF StageOf
  <2> QED BY <1>2, <2>1, <2>2 DEF Alike
<1>6. CASE MapBegins(t) \/ SetExe(t) \/ Sleep(t)
  <2>1. /\ at[t] \in IdleStages /\ at'[t] \in IdleStages
        /\ UNCHANGED <<batch, frames, result>>
    BY <1>1, <1>6 DEF MapBegins, SetExe, Sleep, IdleStages
  <2> QED BY <1>2, <2>1 DEF Alike
<1>7. CASE NotifyExe(t)
  <2>1. at[t] = "exe" /\ batch[t] = <<>> /\ result[t] = 0 /\ UNCHANGED <<batch, result>>
    BY <1>1, <1>7 DEF NotifyExe, StageOf, IdleStages, LuaStages
  <2>2. PICK stage \in {"wait", "user"} : stage = IF t = Main THEN "wait" ELSE "user"
    OBVIOUS
  <2>3. NotifyOne(t, [at EXCEPT ![t] = stage])
    BY <1>7, <2>2 DEF NotifyExe
  <2>4. at'[t] = stage
    BY <1>1, <2>1, <2>3, NotifyStages DEF Stages
  <2>5. frames'[t] = IF t = Main THEN <<>> ELSE <<Entry>>
    BY <1>1, <1>7 DEF NotifyExe
  <2>6. CASE t = Main
    BY <2>1, <2>2, <2>4, <2>5, <2>6 DEF StageOf, First, IdleStages, LuaStages
  <2>7. CASE t # Main
    <3>1. frames'[t] # <<>> /\ frames'[t][1].kind = "start" /\ Len(frames'[t]) = 1
      BY <2>5, <2>7 DEF Entry
    <3> QED BY <2>1, <2>2, <2>4, <2>7, <3>1 DEF StageOf, First, IdleStages, LuaStages
  <2> QED BY <2>6, <2>7
<1>8. CASE StartReturns(t)
  <2>1. /\ at[t] = "user" /\ frames[t] = <<Entry>> /\ frames'[t] = <<>>
        /\ at'[t] \in {"wait", "boot"} /\ UNCHANGED <<batch, result>>
    BY <1>1, <1>8 DEF StartReturns
  <2>2. First(t, "start")
    BY <2>1 DEF First, Entry
  <2>3. batch[t] = <<>> /\ result[t] = 0
    BY <1>1, <2>1, <2>2 DEF StageOf, LuaStages
  <2> QED BY <2>1, <2>3 DEF StageOf, First, IdleStages, LuaStages
<1>9. CASE \E g \in Threads, j \in AllJobs : PushJob(t, g, j)
  <2>1. /\ at[t] = "user" /\ frames[t] # <<>> /\ at'[t] = "push"
        /\ UNCHANGED <<batch, frames, result>>
    BY <1>1, <1>9 DEF PushJob, InLua
  <2> QED BY <1>1, <2>1 DEF StageOf, First, IdleStages, LuaStages
<1>10. CASE PushAccepted(t)
  <2>1. at[t] = "push" /\ frames[t] # <<>> /\ UNCHANGED <<batch, frames, result>>
    BY <1>1, <1>10 DEF PushAccepted, StageOf
  <2>2. PICK g : NotifyOne(g, [at EXCEPT ![t] = "user"])
    BY <1>10 DEF PushAccepted, Accept
  <2>3. at'[t] = "user"
    BY <1>1, <2>1, <2>2, NotifyStages DEF Stages
  <2> QED BY <1>1, <2>1, <2>3 DEF StageOf, First, IdleStages, LuaStages
<1>11. CASE ReplyAccepted(t)
  <2>1. at[t] = "reply" /\ frames[t] = <<>> /\ batch[t] # <<>> /\ UNCHANGED <<batch, frames, result>>
    BY <1>1, <1>11 DEF ReplyAccepted, StageOf, LuaStages
  <2>2. PICK g : NotifyOne(g, [at EXCEPT ![t] = "user"])
    BY <1>11 DEF ReplyAccepted, Accept
  <2>3. at'[t] = "user"
    BY <1>1, <2>1, <2>2, NotifyStages DEF Stages
  <2> QED BY <1>1, <2>1, <2>3 DEF StageOf, First, IdleStages, LuaStages
<1>12. CASE PushRejected(t)
  <2>1. /\ at[t] = "push" /\ at'[t] = "user" /\ UNCHANGED <<batch, result>>
        /\ RunDone(t, arg[t], result[t]) /\ Pending(arg[t])
    BY <1>1, <1>12, OnItsWay DEF PushRejected
  <2> QED BY <1>1, <2>1, RunDoneStage
<1>13. CASE ReplyRejected(t)
  <2>1. /\ at[t] = "reply" /\ at'[t] = "user" /\ UNCHANGED <<batch, result>>
        /\ RunDone(t, Head(batch[t]).p, result[t])
    BY <1>1, <1>13 DEF ReplyRejected
  <2>2. Pending(Head(batch[t]).p)
    BY <1>1, <2>1, AtTheHead DEF StageOf, HeadOpen
  <2> QED BY <1>1, <2>1, <2>2, RunDoneStage
<1>14. CASE GetResult(t)
  <2>1. PICK p : p = Head(batch[t]).p
    OBVIOUS
  <2>2. /\ at[t] = "batch" /\ at'[t] = "user" /\ UNCHANGED batch
        /\ result'[t] = Carried(p) /\ RunDone(t, p, Carried(p))
    BY <1>1, <1>14, <2>1 DEF GetResult, IsNode, SetResult
  <2>3. Pending(p)
    <3>1. batch[t] # <<>> /\ Head(batch[t]).kind # "stop" /\ Head(batch[t]) = batch[t][1]
      BY <1>1, <1>14 DEF GetResult, IsNode
    <3> QED BY <2>1, <2>2, <3>1, AtTheHead DEF HeadOpen
  <2> QED BY <1>1, <2>2, <2>3, RunDoneStage
<1>15. CASE Take(t)
  <2>1. /\ at[t] = "wait" /\ UNCHANGED <<frames, result>>
        /\ batch'[t] = mailbox[t]
        /\ at'[t] = IF LoopEnds(t) THEN "gone" ELSE "batch"
    BY <1>1, <1>15 DEF Take
  <2>2. LoopEnds(t) <=> mailbox[t] = <<>>
    BY <1>15 DEF Take, MustWait, LoopEnds
  <2>3. frames[t] = <<>> /\ result[t] = 0
    BY <1>1, <2>1 DEF StageOf, LuaStages
  <2> QED BY <2>1, <2>2, <2>3 DEF StageOf, First, IdleStages, LuaStages
<1>16. CASE RunStop(t)
  <2>1. at[t] = "batch" /\ batch[t] # <<>> /\ EndNode(t) /\ UNCHANGED <<frames, result>>
    BY <1>16 DEF RunStop, IsNode
  <2>2. frames[t] = <<>> /\ result[t] = 0
    BY <1>1, <2>1 DEF StageOf, LuaStages
  <2> QED BY <1>1, <2>1, <2>2, EndNodeStage
<1>17. CASE NodeEnds(t)
  <2>1. at[t] = "user" /\ frames[t] = <<>> /\ EndNode(t) /\ UNCHANGED frames /\ result'[t] = 0
    BY <1>1, <1>17 DEF NodeEnds, Reset, SetResult
  <2>2. batch[t] # <<>>
    BY <1>1, <2>1 DEF StageOf, LuaStages, First
  <2> QED BY <1>1, <2>1, <2>2, EndNodeStage
<1>18. CASE RunWork(t)
  <2>1. /\ at[t] = "batch" /\ batch[t] # <<>> /\ Head(batch[t]).kind = "work"
        /\ at'[t] = "user" /\ result'[t] = 0 /\ UNCHANGED batch
        /\ frames'[t] = <<[kind |-> "work", p |-> Head(batch[t]).p, res |-> 0]>>
    BY <1>1, <1>18 DEF RunWork, IsNode, SetResult
  <2>2. frames'[t] # <<>> /\ frames'[t][1].kind = "work" /\ Len(frames'[t]) = 1
    BY <2>1
  <2>3. batch[t][1].kind = "work"
    BY <1>1, <2>1
  <2> QED BY <2>1, <2>2, <2>3 DEF StageOf, First, IdleStages, LuaStages
<1>19. CASE \E ok \in BOOLEAN : WorkReturns(t, ok)
  <2>1. PICK ok \in BOOLEAN : WorkReturns(t, ok)
    BY <1>19
  <2>2. /\ at[t] = "user" /\ frames[t] # <<>> /\ frames[t][Len(frames[t])].kind = "work"
        /\ frames'[t] = Below(t) /\ at'[t] = "reply" /\ UNCHANGED batch
    BY <1>1, <2>1 DEF WorkReturns, InWork
  <2>3. Len(frames[t]) \in Nat \ {0} /\ frames[t] \in Seq(Frame)
    BY <1>1, <2>2
  <2>4. First(t, "work")
    <3>1. \A i \in 2 .. Len(frames[t]) : frames[t][i].kind = "done"
      BY <1>1 DEF StageOf
    <3>2. Len(frames[t]) = 1
      <4>1. PICK n \in Nat \ {0} : n = Len(frames[t])
        BY <2>3
      <4>2. n \notin 2 .. n
        BY <2>2, <3>1, <4>1
      <4>3. n = 1
        BY <4>2
      <4> QED BY <4>1, <4>3
    <3> QED BY <2>2, <3>2 DEF First
  <2>5. batch[t] # <<>> /\ batch[t][1].kind = "work" /\ Len(frames[t]) = 1
    BY <1>1, <2>4 DEF StageOf
  <2>6. frames'[t] = <<>>
    BY <2>2, <2>3, <2>5 DEF Below
  <2> QED BY <2>2, <2>5, <2>6 DEF StageOf, First, IdleStages, LuaStages
<1>20. CASE DoneReturns(t)
  <2>1. /\ at[t] = "user" /\ frames[t] # <<>> /\ frames'[t] = Below(t)
        /\ frames[t][Len(frames[t])].kind = "done" /\ UNCHANGED <<at, batch, result>>
    BY <1>1, <1>20 DEF DoneReturns, InLua
  <2>2. PICK n \in Nat : n = Len(frames[t]) - 1
    BY <1>1, <2>1
  <2>3. Len(frames[t]) = n + 1 /\ Len(frames'[t]) = n
        /\ \A i \in 1 .. n : frames'[t][i] = frames[t][i]
    BY <1>1, <2>1, <2>2 DEF Below
  <2>4. frames'[t] \in Seq(Frame)
    BY <1>1, <2>1, <2>2, <2>3 DEF Below
  <2>5. ~First(t, "start") /\ ~First(t, "work")
    BY <1>1, <2>1 DEF StageOf, First
  <2>6. ~First(t, "start")' /\ ~First(t, "work")'
    BY <2>1, <2>3, <2>4, <2>5 DEF First
  <2>7. /\ \A i \in 2 .. n : frames'[t][i].kind = "done"
        /\ \A i \in 1 .. n :
              frames'[t][i].kind = "done" => frames'[t][i].res = result[t] /\ result[t] # 0
    BY <1>1, <2>3 DEF StageOf
  <2>8. batch[t] # <<>>
    BY <1>1, <2>1, <2>5 DEF StageOf, LuaStages
  <2> QED BY <2>1, <2>3, <2>6, <2>7, <2>8 DEF StageOf, IdleStages, LuaStages
<1>21. CASE WorkPanics(t)
  <2>1. UNCHANGED <<at, batch, frames, result>>
    BY <1>21 DEF WorkPanics
  <2> QED BY <1>1, <2>1 DEF StageOf, First
<1> QED
  BY <1>3, <1>4, <1>5, <1>6, <1>7, <1>8, <1>9, <1>10, <1>11, <1>12, <1>13, <1>14, <1>15, <1>16,
     <1>17, <1>18, <1>19, <1>20, <1>21
     DEF Continues, Calls, Boot, Loop, Returns

-----------------------------------------------------------------------------
(* Steps that move pushes from one place to another, and change nothing    *)
(* about the jobs themselves.                                              *)

\* What the functions under way and the results may do in such a step.
Quiet(u) ==
    \/ result'[u] = result[u] /\ frames'[u] = frames[u]
    \/ frames[u] = <<>> /\ frames'[u] = <<>> /\ result'[u] = 0
    \/ result[u] = 0 /\ result'[u] = 0

LEMMA MoveStep ==
  ASSUME JobInv, JobType',
         UNCHANGED <<lua>>, fault' = fault \/ fault' = "stop",
         \A u \in Threads : Quiet(u),
         \A u \in Threads :
            at'[u] = "reply" =>
               at[u] = "reply" /\ batch'[u] = batch[u] /\ result'[u] = result[u],
         NEW move \in [Spots -> Spots],
         \A x, y \in Spots : move[x] = move[y] => x = y,
         \A p \in Nat, x \in Spots : At(p, x)' => At(p, move[x]),
         \A p \in Nat, x \in Spots :
            ResultAt(p, x)' =>
               \/ ResultAt(p, move[x]) /\ move[x].t = x.t
               \/ jobs[p].home = x.t /\ (jobs[p].id # 0 => heap[p] = "live"),
         \A p \in Pushes, x \in Spots : ResultAt(p, x) => \E y \in Spots : ResultAt(p, y)',
         \A p \in Pushes, u \in Threads :
            Owns(u, p) /\ heap[p] = "live" => Owns(u, p)' \/ \E y \in Spots : ResultAt(p, y)'
  PROVE  RestInv'
<1>1. UNCHANGED <<jobs, heap, calls, saved, cache>>
  BY DEF lua
<1>2. OnePlace'
  BY DEF OnePlace, JobInv, RestInv
<1>3. ASSUME NEW p \in Nat, Pending(p)
      PROVE  Pending(p)'
  <2>1. p # 0
    BY <1>3 DEF Pending
  <2> QED BY <1>1, <1>3, <2>1 DEF Pending, Quiet
<1>4. ASSUME NEW p \in Nat, NEW x \in Spots, At(p, x)'
      PROVE  Pending(p)'
  <2>1. At(p, move[x]) /\ move[x] \in Spots
    BY <1>4
  <2> QED BY <1>3, <2>1 DEF JobInv, RestInv, TokenInv
<1>5. ASSUME NEW p \in Nat, NEW x \in Spots, ResultAt(p, x)'
      PROVE  jobs'[p].home = x.t /\ (jobs'[p].id # 0 => heap'[p] = "live")
  <2>1. move[x] \in Spots
    OBVIOUS
  <2>2. CASE ResultAt(p, move[x]) /\ move[x].t = x.t
    BY <1>1, <2>1, <2>2 DEF JobInv, RestInv, TokenInv
  <2>3. CASE jobs[p].home = x.t /\ (jobs[p].id # 0 => heap[p] = "live")
    BY <1>1, <2>3
  <2> QED BY <1>5, <2>2, <2>3
<1>6. TokenInv'
  BY <1>4, <1>5 DEF TokenInv
<1>7. ReplyInv'
  BY <1>1 DEF JobInv, RestInv, ReplyInv, ReplyOf
<1>8. SavedInv' /\ NameInv' /\ CallbackOfPush'
  BY <1>1 DEF JobInv, RestInv, SavedInv, NameInv, CallbackOfPush, Pushed
<1>9. KeptInv'
  <2> SUFFICES ASSUME NEW p \in Pushes, heap'[p] = "live"
               PROVE  /\ p \in 1 .. Len(jobs') /\ jobs'[p].id # 0
                      /\ (\E x \in Spots : ResultAt(p, x)') \/ (\E t \in Threads : Owns(t, p)')
    BY DEF KeptInv
  <2>1. /\ p \in 1 .. Len(jobs) /\ jobs[p].id # 0
        /\ (\E x \in Spots : ResultAt(p, x)) \/ (\E t \in Threads : Owns(t, p))
    BY <1>1 DEF JobInv, RestInv, KeptInv
  <2>2. CASE \E x \in Spots : ResultAt(p, x)
    BY <1>1, <2>1, <2>2
  <2>3. CASE \E t \in Threads : Owns(t, p)
    BY <1>1, <2>1, <2>3
  <2> QED BY <2>1, <2>2, <2>3
<1>10. OwnerInv'
  BY DEF JobInv, RestInv, OwnerInv, Quiet
<1>11. FaultInv'
  BY <1>1 DEF JobInv, RestInv, FaultInv, TurnedAway, Quiet
<1> QED BY <1>2, <1>6, <1>7, <1>8, <1>9, <1>10, <1>11 DEF RestInv

\* A step after which everything is where it was.
LEMMA CalmStep ==
  ASSUME JobInv, JobType', UNCHANGED <<lua>>, fault' = fault \/ fault' = "stop",
         \A u \in Threads : Quiet(u),
         \A u \in Threads :
            at'[u] = "reply" =>
               at[u] = "reply" /\ batch'[u] = batch[u] /\ result'[u] = result[u],
         \A p \in Nat, x \in Spots :
            (At(p, x)' => At(p, x)) /\ (ResultAt(p, x)' <=> ResultAt(p, x)),
         \A p \in Pushes, u \in Threads : Owns(u, p) => Owns(u, p)'
  PROVE  RestInv'
<1>1. PICK move : move = [x \in Spots |-> x]
  OBVIOUS
<1>2. /\ move \in [Spots -> Spots]
      /\ \A x, y \in Spots : move[x] = move[y] => x = y
      /\ \A p \in Nat, x \in Spots : At(p, x)' => At(p, move[x])
      /\ \A p \in Nat, x \in Spots : ResultAt(p, x)' => ResultAt(p, move[x]) /\ move[x].t = x.t
  BY <1>1
<1>3. Pushes \subseteq Nat
  BY DEF Pushes
<1>4. \A p \in Pushes, x \in Spots : ResultAt(p, x) => \E y \in Spots : ResultAt(p, y)'
  BY <1>3
<1> QED BY <1>2, <1>4, MoveStep

\* Two places change places.
Exchange(a, b) == [x \in Spots |-> IF x = a THEN b ELSE IF x = b THEN a ELSE x]

LEMMA ExchangeMoves ==
  ASSUME NEW a \in Spots, NEW b \in Spots
  PROVE  /\ Exchange(a, b) \in [Spots -> Spots]
         /\ \A x, y \in Spots : Exchange(a, b)[x] = Exchange(a, b)[y] => x = y
         /\ Exchange(a, b)[a] = b /\ Exchange(a, b)[b] = a
         /\ \A x \in Spots \ {a, b} : Exchange(a, b)[x] = x
BY DEF Exchange

PushSpot(t)    == [kind |-> "push", t |-> t, i |-> 0]
MailSpot(g, i) == [kind |-> "mail", t |-> g, i |-> i]

LEMMA SpotFacts ==
  ASSUME NEW t \in Threads, NEW i \in Nat
  PROVE  /\ PushSpot(t) \in Spots /\ MailSpot(t, i) \in Spots
         /\ PushSpot(t).kind = "push" /\ PushSpot(t).t = t /\ PushSpot(t).i = 0
         /\ MailSpot(t, i).kind = "mail" /\ MailSpot(t, i).t = t /\ MailSpot(t, i).i = i
         /\ HeadSpot(t) \in Spots /\ HeadSpot(t).kind = "batch" /\ HeadSpot(t).t = t
         /\ HeadSpot(t).i = 1
         /\ \A x \in Spots :
               /\ x.kind = "push" /\ x.t = t /\ x.i = 0 => x = PushSpot(t)
               /\ x.kind = "mail" /\ x.t = t /\ x.i = i => x = MailSpot(t, i)
               /\ x.kind = "batch" /\ x.t = t /\ x.i = 1 => x = HeadSpot(t)
BY DEF Spots, PushSpot, MailSpot, HeadSpot

\* The new node stands at the end of its mailbox.
LEMMA MailEnd ==
  ASSUME JobType, NEW g \in Threads, NEW n \in Node,
         mailbox' = [mailbox EXCEPT ![g] = Append(@, n)]
  PROVE  Len(mailbox'[g]) = Len(mailbox[g]) + 1 /\ mailbox'[g][Len(mailbox[g]) + 1] = n
BY DEF JobType

\* All other nodes, and pushes, stay where they are.
LEMMA MoreMail ==
  ASSUME JobType, NEW g \in Threads, NEW n \in Node,
         mailbox' = [mailbox EXCEPT ![g] = Append(@, n)]
  PROVE  /\ \A x \in Spots : x.kind = "mail" /\ x # MailSpot(g, Len(mailbox[g]) + 1) =>
               \A p : (At(p, x)' <=> At(p, x)) /\ (ResultAt(p, x)' <=> ResultAt(p, x))
         /\ \A p : ~At(p, MailSpot(g, Len(mailbox[g]) + 1))
<1>1. mailbox \in [Threads -> Seq(Node)]
  BY DEF JobType
<1>2. /\ Len(mailbox[g]) \in Nat /\ Len(mailbox'[g]) = Len(mailbox[g]) + 1
      /\ mailbox'[g][Len(mailbox[g]) + 1] = n
      /\ \A i \in 1 .. Len(mailbox[g]) : mailbox'[g][i] = mailbox[g][i]
      /\ \A u \in Threads \ {g} : mailbox'[u] = mailbox[u]
  BY <1>1
<1>3. PICK k \in Nat : k = Len(mailbox[g])
  BY <1>2
<1>4. ASSUME NEW x \in Spots, x.kind = "mail", x # MailSpot(g, k + 1)
      PROVE  \A p : (At(p, x)' <=> At(p, x)) /\ (ResultAt(p, x)' <=> ResultAt(p, x))
  <2>1. CASE x.t # g
    <3>1. x.t \in Threads
      BY DEF Spots
    <3>2. mailbox'[x.t] = mailbox[x.t]
      BY <1>2, <2>1, <3>1
    <3> QED BY <1>4, <3>2, SameMail
  <2>2. CASE x.t = g
    <3>1. x.i # k + 1 /\ x.i \in Nat
      <4>1. k + 1 \in Nat /\ x.i \in Nat
        BY DEF Spots
      <4> QED BY <1>4, <2>2, <4>1, SpotFacts
    <3>2. x.i \in 1 .. k + 1 <=> x.i \in 1 .. k
      BY <3>1
    <3> QED BY <1>2, <1>3, <1>4, <2>2, <3>2 DEF At, ResultAt
  <2> QED BY <2>1, <2>2
<1>5. \A p : ~At(p, MailSpot(g, k + 1))
  <2>1. k + 1 \notin 1 .. Len(mailbox[g])
    BY <1>3
  <2> QED BY <2>1 DEF At, MailSpot
<1> QED BY <1>2, <1>3, <1>4, <1>5

-----------------------------------------------------------------------------
(* The steps that leave the pushes where they are.                         *)

LEMMA IdleStep ==
  ASSUME IInv, JobInv, JobType', NEW t \in Threads,
         \/ NewThread(t) \/ (\E n \in PoolSizes : NewPool(t, n)) \/ WaitExec(t)
         \/ MapBegins(t) \/ SetExe(t) \/ Sleep(t) \/ NotifyExe(t) \/ StartReturns(t),
         fault = "none"
  PROVE  RestInv'
<1>1. Continues(t) \/ Calls(t)
  BY DEF Continues, Calls, Boot, Loop, Returns
<1>2. \A u \in Threads \ {t} : Alike(u)
  BY <1>1, Others DEF JobInv
<1>3. UNCHANGED <<lua, mailbox, batch, result, fault>>
  BY DEF NewThread, NewPool, WaitExec, MapBegins, SetExe, Sleep, NotifyExe, StartReturns
<1>4. StageOf(t) /\ StageOf(t)'
  BY <1>1, NextStage DEF JobInv, RestInv, StageInv
<1>5. at[t] \notin {"push", "reply", "batch"} /\ at \in [Threads -> Stages]
  BY DEF NewThread, NewPool, WaitExec, MapBegins, SetExe, Sleep, NotifyExe, StartReturns, InLua,
         IInv, WriterType
<1>6. at'[t] \notin {"push", "reply", "batch"}
  <2>1. CASE NewThread(t)
    <3>1. PICK g \in Threads : at' = [at EXCEPT ![t] = "newthread", ![g] = "boot"]
      BY <2>1 DEF NewThread
    <3> QED BY <1>5, <3>1
  <2>2. CASE \E n \in PoolSizes : NewPool(t, n)
    <3>1. PICK new : at' = [g \in Threads |-> IF g \in new THEN "boot" ELSE at[g]]
      BY <2>2 DEF NewPool
    <3> QED BY <1>5, <3>1
  <2>3. CASE WaitExec(t) \/ MapBegins(t) \/ SetExe(t) \/ Sleep(t) \/ StartReturns(t)
    BY <1>5, <2>3 DEF WaitExec, MapBegins, SetExe, Sleep, StartReturns
  <2>4. CASE NotifyExe(t)
    <3>1. PICK stage \in {"wait", "user"} : stage = IF t = Main THEN "wait" ELSE "user"
      OBVIOUS
    <3>2. NotifyOne(t, [at EXCEPT ![t] = stage]) /\ at[t] = "exe"
      BY <2>4, <3>1 DEF NotifyExe
    <3>3. at'[t] = stage
      BY <3>2, NotifyStages DEF Stages, IInv
    <3> QED BY <3>3
  <2> QED BY <2>1, <2>2, <2>3, <2>4
<1>7. \/ frames'[t] = frames[t]
      \/ /\ result[t] = 0 /\ ~First(t, "work") /\ ~First(t, "work")'
  <2>1. CASE NotifyExe(t)
    <3>1. result[t] = 0 /\ frames[t] = <<>>
      BY <1>4, <2>1 DEF NotifyExe, StageOf, LuaStages
    <3>2. frames'[t] = <<>> \/ frames'[t] = <<Entry>>
      BY <2>1 DEF NotifyExe, JobInv, JobType
    <3> QED BY <3>1, <3>2 DEF First, Entry
  <2>2. CASE StartReturns(t)
    <3>1. frames[t] = <<Entry>> /\ frames'[t] = <<>>
      BY <2>2 DEF StartReturns, JobInv, JobType
    <3>2. First(t, "start") /\ ~First(t, "work")
      BY <3>1 DEF First, Entry
    <3> QED BY <1>4, <3>1, <3>2 DEF First, StageOf
  <2>3. CASE UNCHANGED frames
    BY <2>3
  <2> QED BY <2>1, <2>2, <2>3 DEF NewThread, NewPool, WaitExec, MapBegins, SetExe, Sleep
<1>8. HeadOpen(t)' <=> HeadOpen(t)
  BY <1>5, <1>6, <1>7 DEF HeadOpen, First
<1>9. \A u \in Threads : Quiet(u)
  BY <1>2, <1>3, <1>7 DEF Quiet, Alike
<1>10. \A u \in Threads :
          at'[u] = "reply" => at[u] = "reply" /\ batch'[u] = batch[u] /\ result'[u] = result[u]
  BY <1>2, <1>3, <1>6 DEF Alike, IdleStages
<1>11. ASSUME NEW p \in Nat, NEW x \in Spots
       PROVE  (At(p, x)' <=> At(p, x)) /\ (ResultAt(p, x)' <=> ResultAt(p, x))
  <2>1. CASE x.kind = "mail"
    BY <1>3, <2>1, SameMail
  <2>2. CASE x.kind # "mail" /\ x.t # t
    <3>1. x.t \in Threads
      BY DEF Spots
    <3> QED BY <1>2, <2>2, <3>1, AlikeAt DEF JobInv
  <2>3. CASE x.kind # "mail" /\ x.t = t
    BY <1>3, <1>5, <1>6, <1>8, <2>3 DEF At, ResultAt
  <2> QED BY <2>1, <2>2, <2>3
<1>12. ASSUME NEW p \in Pushes, NEW u \in Threads, Owns(u, p)
       PROVE  Owns(u, p)'
  <2>1. CASE u # t
    BY <1>2, <1>12, <2>1, AlikeOwns DEF JobInv
  <2>2. CASE u = t
    <3>1. p # 0
      BY DEF Pushes
    <3>2. frames[t] # <<>> /\ frames'[t] = frames[t]
      BY <1>5, <1>7, <1>12, <2>2, <3>1 DEF Owns
    <3> QED BY <1>3, <1>12, <2>2, <3>2 DEF Owns
  <2> QED BY <2>1, <2>2
<1> QED BY <1>3, <1>9, <1>10, <1>11, <1>12, CalmStep

-----------------------------------------------------------------------------
(* The steps that move a push.                                             *)

\* A push that is accepted becomes a node of the list.
LEMMA PushAcceptedStep ==
  ASSUME IInv, JobInv, JobType', NEW t \in Threads, PushAccepted(t), fault = "none"
  PROVE  RestInv'
<1>1. Continues(t)
  BY DEF Continues
<1>2. \A u \in Threads \ {t} : Alike(u)
  BY <1>1, Others DEF JobInv
<1>3. UNCHANGED <<lua, batch, frames, result, fault>> /\ at[t] = "push"
  BY DEF PushAccepted
<1>4. PICK p : p = arg[t] /\ Pending(p)
  BY <1>3, OnItsWay DEF IInv, JobInv, RestInv
<1>5. PICK g : g = jobs[p].to /\ g \in Threads
  BY <1>4, PendingFacts DEF JobInv, Job
<1>6. PICK n : n = [kind |-> "work", p |-> p]
  OBVIOUS
<1>7. n \in Node /\ n.p = p /\ n.kind = "work"
  BY <1>4, <1>6, PendingFacts DEF JobInv, Node
<1>8. mailbox' = [mailbox EXCEPT ![g] = Append(@, n)] /\ NotifyOne(g, [at EXCEPT ![t] = "user"])
  BY <1>4, <1>5, <1>6 DEF PushAccepted, Accept
<1>9. at'[t] = "user"
  BY <1>3, <1>8, NotifyStages DEF IInv, Stages
<1>10. PICK k \in Nat : k = Len(mailbox[g])
  BY <1>5 DEF JobInv, JobType
<1>11. PICK a, b : a = PushSpot(t) /\ b = MailSpot(g, k + 1)
  OBVIOUS
<1>12. a \in Spots /\ b \in Spots /\ a # b
  <2>1. k + 1 \in Nat
    OBVIOUS
  <2>2. a \in Spots /\ a.kind = "push"
    BY <1>11, SpotFacts
  <2>3. b \in Spots /\ b.kind = "mail"
    BY <1>5, <1>11, <2>1, SpotFacts
  <2> QED BY <2>2, <2>3
<1>13. PICK move : move = Exchange(a, b)
  OBVIOUS
<1>14. /\ move \in [Spots -> Spots]
       /\ \A x, y \in Spots : move[x] = move[y] => x = y
       /\ move[a] = b /\ move[b] = a /\ \A x \in Spots \ {a, b} : move[x] = x
  BY <1>12, <1>13, ExchangeMoves
<1>15. ASSUME NEW q \in Nat, NEW x \in Spots \ {a, b}
       PROVE  (At(q, x)' <=> At(q, x)) /\ (ResultAt(q, x)' <=> ResultAt(q, x))
  <2>1. CASE x.kind = "mail"
    BY <1>5, <1>7, <1>8, <1>10, <1>11, <2>1, MoreMail DEF JobInv
  <2>2. CASE x.kind # "mail" /\ x.t # t
    <3>1. x.t \in Threads
      BY DEF Spots
    <3> QED BY <1>2, <2>2, <3>1, AlikeAt DEF JobInv
  <2>3. CASE x.kind = "push" /\ x.t = t
    <3>1. x.i # 0
      BY <1>11, <2>3, SpotFacts
    <3> QED BY <2>3, <3>1 DEF At, ResultAt
  <2>4. CASE x.kind = "batch" /\ x.t = t
    <3>1. HeadOpen(t)' <=> HeadOpen(t)
      BY <1>3, <1>9 DEF HeadOpen, First
    <3> QED BY <1>3, <2>4, <3>1 DEF At, ResultAt
  <2> QED BY <2>1, <2>2, <2>3, <2>4 DEF Spots
<1>16. ASSUME NEW q \in Nat
       PROVE  /\ ~At(q, a)' /\ ~At(q, b) /\ (At(q, b)' => At(q, a))
              /\ ~ResultAt(q, a) /\ ~ResultAt(q, b)'
  <2>1. ~At(q, b)
    BY <1>5, <1>7, <1>8, <1>10, <1>11, MoreMail DEF JobInv
  <2>2. ~At(q, a)' /\ (At(q, a) <=> q = p) /\ ~ResultAt(q, a)
    BY <1>3, <1>4, <1>9, <1>11 DEF At, ResultAt, PushSpot
  <2>3. mailbox'[g][k + 1] = n
    <3>1. mailbox'[g][Len(mailbox[g]) + 1] = n
      BY <1>5, <1>7, <1>8, MailEnd DEF JobInv
    <3> QED BY <1>10, <3>1
  <2>4. (At(q, b)' => q = p) /\ ~ResultAt(q, b)'
    BY <1>7, <1>11, <2>3 DEF At, ResultAt, MailSpot
  <2> QED BY <2>1, <2>2, <2>4
<1>17. ASSUME NEW q \in Nat, NEW x \in Spots
       PROVE  /\ At(q, x)' => At(q, move[x])
              /\ ResultAt(q, x)' => ResultAt(q, move[x]) /\ move[x].t = x.t
              /\ ResultAt(q, x) => ResultAt(q, x)'
  <2>1. ResultAt(q, a)' => At(q, a)'
    BY DEF ResultAt
  <2>2. ResultAt(q, b) => At(q, b)
    BY DEF ResultAt
  <2> QED BY <1>14, <1>15, <1>16, <2>1, <2>2
<1>18. \A u \in Threads : Quiet(u)
  BY <1>3 DEF Quiet
<1>19. \A u \in Threads :
          at'[u] = "reply" => at[u] = "reply" /\ batch'[u] = batch[u] /\ result'[u] = result[u]
  BY <1>2, <1>3, <1>9 DEF Alike, IdleStages
<1>20. \A q \in Pushes, x \in Spots : ResultAt(q, x) => \E y \in Spots : ResultAt(q, y)'
  BY <1>17 DEF Pushes
<1>21. ASSUME NEW q \in Pushes, NEW u \in Threads, Owns(u, q)
       PROVE  Owns(u, q)'
  <2>1. CASE u # t
    BY <1>2, <1>21, <2>1, AlikeOwns DEF JobInv
  <2>2. CASE u = t
    BY <1>3, <1>21, <2>2 DEF Owns
  <2> QED BY <2>1, <2>2
<1>22. UNCHANGED <<lua>> /\ (fault' = fault \/ fault' = "stop")
  BY <1>3
<1>23. /\ \A q \in Nat, x \in Spots : At(q, x)' => At(q, move[x])
       /\ \A q \in Nat, x \in Spots :
             ResultAt(q, x)' =>
                \/ ResultAt(q, move[x]) /\ move[x].t = x.t
                \/ jobs[q].home = x.t /\ (jobs[q].id # 0 => heap[q] = "live")
       /\ \A q \in Pushes, u \in Threads :
             Owns(u, q) /\ heap[q] = "live" => Owns(u, q)' \/ \E y \in Spots : ResultAt(q, y)'
  BY <1>17, <1>21
<1> QED BY <1>14, <1>18, <1>19, <1>20, <1>22, <1>23, MoveStep

\* A result that is accepted becomes a node of the list of the thread that pushed.
LEMMA ReplyAcceptedStep ==
  ASSUME IInv, JobInv, JobType', NEW t \in Threads, ReplyAccepted(t), fault = "none"
  PROVE  RestInv'
<1>1. Continues(t)
  BY DEF Continues, Loop
<1>2. \A u \in Threads \ {t} : Alike(u)
  BY <1>1, Others DEF JobInv
<1>3. UNCHANGED <<lua, batch, frames, result, fault>> /\ at[t] = "reply"
  BY DEF ReplyAccepted
<1>4. HeadOpen(t) /\ batch[t] # <<>> /\ batch[t][1].kind = "work" /\ frames[t] = <<>>
  BY <1>3 DEF HeadOpen, JobInv, StageInv, StageOf, LuaStages
<1>5. PICK p : /\ p = Head(batch[t]).p /\ p = batch[t][1].p /\ Pending(p)
               /\ At(p, HeadSpot(t))
  BY <1>4, AtTheHead DEF JobInv, RestInv
<1>6. PICK g : g = jobs[p].home /\ g \in Threads
  BY <1>5, PendingFacts DEF JobInv, Job
<1>7. PICK n : n = [kind |-> "result", p |-> p]
  OBVIOUS
<1>8. n \in Node /\ n.p = p /\ n.kind = "result"
  BY <1>5, <1>7, PendingFacts DEF JobInv, Node
<1>9. mailbox' = [mailbox EXCEPT ![g] = Append(@, n)] /\ NotifyOne(g, [at EXCEPT ![t] = "user"])
  BY <1>5, <1>6, <1>7 DEF ReplyAccepted, Accept
<1>10. at'[t] = "user"
  BY <1>3, <1>9, NotifyStages DEF IInv, Stages
<1>11. PICK k \in Nat : k = Len(mailbox[g])
  BY <1>6 DEF JobInv, JobType
<1>12. PICK a, b : a = HeadSpot(t) /\ b = MailSpot(g, k + 1)
  OBVIOUS
<1>13. a \in Spots /\ b \in Spots /\ a # b /\ b.t = g
  <2>1. k + 1 \in Nat
    OBVIOUS
  <2>2. a \in Spots /\ a.kind = "batch"
    BY <1>12, SpotFacts
  <2>3. b \in Spots /\ b.kind = "mail" /\ b.t = g
    BY <1>6, <1>12, <2>1, SpotFacts
  <2> QED BY <2>2, <2>3
<1>14. PICK move : move = Exchange(a, b)
  OBVIOUS
<1>15. /\ move \in [Spots -> Spots]
       /\ \A x, y \in Spots : move[x] = move[y] => x = y
       /\ move[a] = b /\ move[b] = a /\ \A x \in Spots \ {a, b} : move[x] = x
  BY <1>13, <1>14, ExchangeMoves
<1>16. ~HeadOpen(t)'
  BY <1>3, <1>4, <1>10 DEF HeadOpen, First
<1>17. ASSUME NEW q \in Nat, NEW x \in Spots \ {a, b}
       PROVE  (At(q, x)' <=> At(q, x)) /\ (ResultAt(q, x)' <=> ResultAt(q, x))
  <2>1. CASE x.kind = "mail"
    BY <1>6, <1>8, <1>9, <1>11, <1>12, <2>1, MoreMail DEF JobInv
  <2>2. CASE x.kind # "mail" /\ x.t # t
    <3>1. x.t \in Threads
      BY DEF Spots
    <3> QED BY <1>2, <2>2, <3>1, AlikeAt DEF JobInv
  <2>3. CASE x.kind = "push" /\ x.t = t
    BY <1>3, <1>10, <2>3 DEF At, ResultAt
  <2>4. CASE x.kind = "batch" /\ x.t = t
    <3>1. x.i # 1
      BY <1>12, <2>4, SpotFacts
    <3>2. x.i \in 1 .. Len(batch[t]) => x.i > 1
      BY <3>1
    <3> QED BY <1>3, <2>4, <3>2 DEF At, ResultAt
  <2> QED BY <2>1, <2>2, <2>3, <2>4 DEF Spots
<1>18. ASSUME NEW q \in Nat
       PROVE  /\ ~At(q, a)' /\ ~At(q, b) /\ (At(q, b)' <=> q = p) /\ (At(q, a) <=> q = p)
              /\ ~ResultAt(q, a) /\ (ResultAt(q, b)' <=> q = p)
  <2>1. ~At(q, b)
    BY <1>6, <1>8, <1>9, <1>11, <1>12, MoreMail DEF JobInv
  <2>2. ~At(q, a)' /\ ~ResultAt(q, a)
    BY <1>4, <1>12, <1>16 DEF At, ResultAt, HeadSpot
  <2>3. At(q, a) <=> q = p
    BY <1>5, <1>12 DEF At, HeadSpot
  <2>4. mailbox'[g][k + 1] = n /\ Len(mailbox'[g]) = k + 1
    <3>1. mailbox'[g][Len(mailbox[g]) + 1] = n /\ Len(mailbox'[g]) = Len(mailbox[g]) + 1
      BY <1>6, <1>8, <1>9, MailEnd DEF JobInv
    <3> QED BY <1>11, <3>1
  <2>5. (At(q, b)' <=> q = p) /\ (ResultAt(q, b)' <=> q = p)
    <3>1. k + 1 \in 1 .. k + 1
      OBVIOUS
    <3> QED BY <1>8, <1>12, <2>4, <3>1 DEF At, ResultAt, MailSpot
  <2> QED BY <2>1, <2>2, <2>3, <2>5
<1>19. \A q \in Nat, x \in Spots : At(q, x)' => At(q, move[x])
  BY <1>15, <1>17, <1>18
<1>20. /\ jobs[p].id = 0 => result[t] = 0
       /\ jobs[p].id # 0 => result[t] = p /\ heap[p] = "live"
  BY <1>3, <1>5 DEF JobInv, RestInv, ReplyInv, ReplyOf
<1>21. ASSUME NEW q \in Nat, NEW x \in Spots, ResultAt(q, x)'
       PROVE  \/ ResultAt(q, move[x]) /\ move[x].t = x.t
              \/ jobs[q].home = x.t /\ (jobs[q].id # 0 => heap[q] = "live")
  <2>1. CASE x = b
    BY <1>6, <1>13, <1>18, <1>20, <1>21, <2>1
  <2>2. CASE x = a
    BY <1>18, <1>21, <2>2 DEF ResultAt
  <2>3. CASE x \notin {a, b}
    BY <1>15, <1>17, <1>21, <2>3
  <2> QED BY <2>1, <2>2, <2>3
<1>22. ASSUME NEW q \in Pushes, NEW x \in Spots, ResultAt(q, x)
       PROVE  \E y \in Spots : ResultAt(q, y)'
  <2>1. x \notin {a, b} /\ q \in Nat
    BY <1>18, <1>22 DEF Pushes, ResultAt
  <2> QED BY <1>17, <1>22, <2>1
<1>23. ASSUME NEW q \in Pushes, NEW u \in Threads, Owns(u, q)
       PROVE  Owns(u, q)' \/ \E y \in Spots : ResultAt(q, y)'
  <2>1. CASE u # t
    BY <1>2, <1>23, <2>1, AlikeOwns DEF JobInv
  <2>2. CASE u = t
    <3>1. q # 0 /\ q \in Nat /\ result[t] = q
      BY <1>23, <2>2 DEF Owns, Pushes
    <3>2. q = p
      BY <1>20, <3>1
    <3> QED BY <1>13, <1>18, <3>1, <3>2
  <2> QED BY <2>1, <2>2
<1>24. \A u \in Threads : Quiet(u)
  BY <1>3 DEF Quiet
<1>25. \A u \in Threads :
          at'[u] = "reply" => at[u] = "reply" /\ batch'[u] = batch[u] /\ result'[u] = result[u]
  BY <1>2, <1>3, <1>10 DEF Alike, IdleStages
<1> QED BY <1>3, <1>15, <1>19, <1>21, <1>22, <1>23, <1>24, <1>25, MoveStep

\* exec takes the list: each node keeps its place.
LEMMA TakeStep ==
  ASSUME IInv, JobInv, JobType', NEW t \in Threads, Take(t), fault = "none"
  PROVE  RestInv'
<1>1. Continues(t)
  BY DEF Continues, Loop
<1>2. \A u \in Threads \ {t} : Alike(u)
  BY <1>1, Others DEF JobInv
<1>3. /\ UNCHANGED <<lua, frames, result, fault>> /\ at[t] = "wait"
      /\ batch' = [batch EXCEPT ![t] = mailbox[t]] /\ mailbox' = [mailbox EXCEPT ![t] = <<>>]
      /\ at' = [at EXCEPT ![t] = IF LoopEnds(t) THEN "gone" ELSE "batch"]
  BY DEF Take
<1>4. /\ at \in [Threads -> Stages] /\ mailbox \in [Threads -> Seq(Node)]
      /\ batch \in [Threads -> Seq(Node)]
  BY DEF IInv, WriterType, JobInv, JobType
<1>5. batch'[t] = mailbox[t] /\ mailbox'[t] = <<>> /\ \A u \in Threads \ {t} : mailbox'[u] = mailbox[u]
  BY <1>3, <1>4
<1>6. at'[t] = IF mailbox[t] = <<>> THEN "gone" ELSE "batch"
  BY <1>3, <1>4 DEF Take, MustWait, LoopEnds
<1>7. batch[t] = <<>> /\ frames[t] = <<>> /\ result[t] = 0
  BY <1>3 DEF JobInv, StageInv, StageOf, IdleStages, LuaStages
<1>8. mailbox[t] # <<>> => HeadOpen(t)'
  BY <1>6 DEF HeadOpen
<1>9. PICK move :
         move = [x \in Spots |-> IF x.t # t \/ x.kind = "push" THEN x
                                 ELSE [kind |-> IF x.kind = "mail" THEN "batch" ELSE "mail",
                                       t |-> t, i |-> x.i]]
  OBVIOUS
<1>10. /\ move \in [Spots -> Spots]
       /\ \A x \in Spots : x.t # t \/ x.kind = "push" => move[x] = x
       /\ \A x \in Spots : x.t = t /\ x.kind = "mail" =>
             move[x] = [kind |-> "batch", t |-> t, i |-> x.i]
       /\ \A x \in Spots : x.t = t /\ x.kind = "batch" =>
             move[x] = [kind |-> "mail", t |-> t, i |-> x.i]
  BY <1>9 DEF Spots
<1>11. ASSUME NEW x \in Spots, NEW y \in Spots, move[x] = move[y] PROVE x = y
  <2>1. ASSUME NEW z \in Spots
        PROVE  /\ move[z].t = z.t /\ move[z].i = z.i
               /\ z.t # t \/ z.kind = "push" => move[z].kind = z.kind
               /\ z.t = t /\ z.kind = "mail" => move[z].kind = "batch"
               /\ z.t = t /\ z.kind = "batch" => move[z].kind = "mail"
    <3>1. CASE z.t # t \/ z.kind = "push"
      BY <1>10, <3>1
    <3>2. CASE z.t = t /\ z.kind = "mail"
      BY <1>10, <3>2
    <3>3. CASE z.t = t /\ z.kind = "batch"
      BY <1>10, <3>3
    <3> QED BY <3>1, <3>2, <3>3 DEF Spots
  <2>2. x.t = y.t /\ x.i = y.i /\ x.kind = y.kind
    BY <1>11, <2>1 DEF Spots
  <2> QED BY <2>2 DEF Spots
<1>12. ASSUME NEW q \in Nat, NEW x \in Spots, x.t # t
       PROVE  (At(q, x)' <=> At(q, x)) /\ (ResultAt(q, x)' <=> ResultAt(q, x))
  <2>1. x.t \in Threads
    BY DEF Spots
  <2>2. CASE x.kind = "mail"
    BY <1>5, <1>12, <2>1, <2>2, SameMail
  <2>3. CASE x.kind # "mail"
    BY <1>2, <1>12, <2>1, <2>3, AlikeAt DEF JobInv
  <2> QED BY <2>2, <2>3
<1>13. ASSUME NEW q \in Nat, NEW x \in Spots, x.t = t, x.kind # "batch"
       PROVE  ~At(q, x)' /\ ~ResultAt(q, x)'
  <2>1. at'[t] # "push" /\ Len(mailbox'[t]) = 0
    BY <1>5, <1>6
  <2> QED BY <1>13, <2>1 DEF At, ResultAt
<1>14. ASSUME NEW q \in Nat, NEW i \in Nat
       PROVE  LET x == [kind |-> "batch", t |-> t, i |-> i]
                  y == MailSpot(t, i)
              IN  (At(q, x)' <=> At(q, y)) /\ (ResultAt(q, x)' <=> ResultAt(q, y))
  <2>1. i \in 1 .. Len(mailbox[t]) => HeadOpen(t)'
    BY <1>4, <1>8
  <2> QED BY <1>5, <2>1 DEF At, ResultAt, MailSpot
<1>15. ASSUME NEW q \in Nat, NEW x \in Spots
       PROVE  /\ At(q, x)' => At(q, move[x])
              /\ ResultAt(q, x)' => ResultAt(q, move[x]) /\ move[x].t = x.t
  <2>1. CASE x.t # t
    BY <1>10, <1>12, <2>1
  <2>2. CASE x.t = t /\ x.kind # "batch"
    BY <1>13, <2>2
  <2>3. CASE x.t = t /\ x.kind = "batch"
    <3>1. PICK i \in Nat : i = x.i /\ x = [kind |-> "batch", t |-> t, i |-> i]
      BY <2>3 DEF Spots
    <3>2. move[x] = MailSpot(t, i) /\ MailSpot(t, i).t = t
      BY <1>10, <2>3, <3>1 DEF MailSpot
    <3> QED BY <1>14, <2>3, <3>1, <3>2
  <2> QED BY <2>1, <2>2, <2>3
<1>16. ASSUME NEW q \in Pushes, NEW x \in Spots, ResultAt(q, x)
       PROVE  \E y \in Spots : ResultAt(q, y)'
  <2>1. q \in Nat
    BY DEF Pushes
  <2>2. CASE x.t # t
    BY <1>12, <1>16, <2>1, <2>2
  <2>3. CASE x.t = t
    <3>1. x.kind = "mail"
      BY <1>7, <1>16, <2>3 DEF At, ResultAt
    <3>2. PICK i \in Nat : x = MailSpot(t, i)
      BY <2>3, <3>1 DEF Spots, MailSpot
    <3>3. [kind |-> "batch", t |-> t, i |-> i] \in Spots
      BY DEF Spots
    <3> QED BY <1>14, <1>16, <2>1, <3>2, <3>3
  <2> QED BY <2>2, <2>3
<1>17. \A u \in Threads : Quiet(u)
  BY <1>3 DEF Quiet
<1>18. \A u \in Threads :
          at'[u] = "reply" => at[u] = "reply" /\ batch'[u] = batch[u] /\ result'[u] = result[u]
  BY <1>2, <1>3, <1>6 DEF Alike, IdleStages
<1>19. ASSUME NEW q \in Pushes, NEW u \in Threads, Owns(u, q)
       PROVE  Owns(u, q)'
  <2>1. CASE u # t
    BY <1>2, <1>19, <2>1, AlikeOwns DEF JobInv
  <2>2. CASE u = t
    BY <1>3, <1>7, <1>19, <2>2 DEF Owns
  <2> QED BY <2>1, <2>2
<1> QED BY <1>3, <1>10, <1>11, <1>15, <1>16, <1>17, <1>18, <1>19, MoveStep

\* A node has been answered: those behind it move up.
LEMMA EndNodeStep ==
  ASSUME IInv, JobInv, JobType', NEW t \in Threads, RunStop(t) \/ NodeEnds(t), fault = "none"
  PROVE  RestInv'
<1>1. Continues(t)
  BY DEF Continues, Loop
<1>2. \A u \in Threads \ {t} : Alike(u)
  BY <1>1, Others DEF JobInv
<1>3. UNCHANGED <<lua, mailbox, frames, fault>> /\ EndNode(t) /\ at[t] \in {"batch", "user"}
  BY DEF RunStop, NodeEnds, IsNode
<1>4. at \in [Threads -> Stages] /\ batch \in [Threads -> Seq(Node)] /\ result \in [Threads -> Nat]
  BY DEF IInv, WriterType, JobInv, JobType
<1>5. frames[t] = <<>> /\ batch[t] # <<>>
  BY DEF RunStop, NodeEnds, IsNode, JobInv, StageInv, StageOf, LuaStages, First
<1>6. result'[t] = 0 /\ \A u \in Threads \ {t} : result'[u] = result[u]
  <2>1. CASE RunStop(t)
    <3>1. UNCHANGED result /\ at[t] = "batch"
      BY <2>1 DEF RunStop, IsNode
    <3> QED BY <3>1 DEF JobInv, StageInv, StageOf, LuaStages
  <2>2. CASE NodeEnds(t)
    BY <1>4, <2>2 DEF NodeEnds, Reset, SetResult
  <2> QED BY <2>1, <2>2
<1>7. HeadOpen(t) => batch[t][1].kind = "stop"
  BY <1>4, <1>5 DEF RunStop, NodeEnds, IsNode, HeadOpen, First
<1>8. PICK n \in Nat : Len(batch[t]) = n + 1
  <2>1. Len(batch[t]) \in Nat \ {0}
    BY <1>4, <1>5
  <2>2. Len(batch[t]) - 1 \in Nat /\ Len(batch[t]) = (Len(batch[t]) - 1) + 1
    BY <2>1
  <2> QED BY <2>2
<1>9. Len(batch'[t]) = n /\ \A i \in 1 .. n : batch'[t][i] = batch[t][i + 1]
  BY <1>3, <1>4, <1>5, <1>8 DEF EndNode
<1>10. at'[t] \in {"wait", "batch"} /\ (n > 0 => at'[t] = "batch")
  BY <1>3, <1>4, <1>8 DEF EndNode
<1>11. PICK move :
          move = [x \in Spots |-> IF x.t = t /\ x.kind = "batch"
                                  THEN [kind |-> "batch", t |-> t, i |-> x.i + 1] ELSE x]
  OBVIOUS
<1>12. /\ move \in [Spots -> Spots]
       /\ \A x \in Spots : x.t # t \/ x.kind # "batch" => move[x] = x
       /\ \A x \in Spots : x.t = t /\ x.kind = "batch" =>
             move[x] = [kind |-> "batch", t |-> t, i |-> x.i + 1]
  BY <1>11 DEF Spots
<1>13. ASSUME NEW x \in Spots, NEW y \in Spots, move[x] = move[y] PROVE x = y
  <2>1. /\ \A z \in Spots : move[z].t = z.t /\ move[z].kind = z.kind
        /\ \A z \in Spots : z.t # t \/ z.kind # "batch" => move[z].i = z.i
        /\ \A z \in Spots : z.t = t /\ z.kind = "batch" => move[z].i = z.i + 1
    BY <1>12
  <2>2. x.t = y.t /\ x.kind = y.kind
    BY <1>13, <2>1
  <2>3. x.i \in Nat /\ y.i \in Nat
    BY DEF Spots
  <2>4. x.i = y.i
    BY <1>13, <2>1, <2>2, <2>3
  <2> QED BY <2>2, <2>4 DEF Spots
<1>14. ASSUME NEW q \in Nat, NEW x \in Spots, x.t # t \/ x.kind # "batch"
       PROVE  (At(q, x)' <=> At(q, x)) /\ (ResultAt(q, x)' <=> ResultAt(q, x))
  <2>1. x.t \in Threads
    BY DEF Spots
  <2>2. CASE x.kind = "mail"
    BY <1>3, <2>1, <2>2, SameMail
  <2>3. CASE x.kind # "mail" /\ x.t # t
    BY <1>2, <2>1, <2>3, AlikeAt DEF JobInv
  <2>4. CASE x.kind = "push" /\ x.t = t
    BY <1>3, <1>10, <2>4 DEF At, ResultAt
  <2> QED BY <1>14, <2>2, <2>3, <2>4 DEF Spots
<1>15. ASSUME NEW q \in Nat, NEW i \in Nat
       PROVE  LET x == [kind |-> "batch", t |-> t, i |-> i]
                  y == [kind |-> "batch", t |-> t, i |-> i + 1]
              IN  /\ At(q, x)' => At(q, y)
                  /\ ResultAt(q, x)' => ResultAt(q, y)
                  /\ ResultAt(q, y) /\ i > 0 => ResultAt(q, x)'
  <2>1. i + 1 \in 1 .. Len(batch[t]) /\ i > 0 <=> i \in 1 .. n
    BY <1>8
  <2>2. i \in 1 .. n => i + 1 > 1 /\ HeadOpen(t)'
    BY <1>10 DEF HeadOpen
  <2>3. i \in 1 .. n => batch'[t][i] = batch[t][i + 1]
    BY <1>9
  <2>4. i \in 1 .. n => i > 0
    OBVIOUS
  <2> QED BY <1>9, <2>1, <2>2, <2>3, <2>4 DEF At, ResultAt
<1>16. ASSUME NEW q \in Nat, NEW x \in Spots
       PROVE  /\ At(q, x)' => At(q, move[x])
              /\ ResultAt(q, x)' => ResultAt(q, move[x]) /\ move[x].t = x.t
  <2>1. CASE x.t # t \/ x.kind # "batch"
    BY <1>12, <1>14, <2>1
  <2>2. CASE x.t = t /\ x.kind = "batch"
    <3>1. PICK i \in Nat : i = x.i /\ x = [kind |-> "batch", t |-> t, i |-> i]
      BY <2>2 DEF Spots
    <3>2. move[x] = [kind |-> "batch", t |-> t, i |-> i + 1] /\ move[x].t = t
      BY <1>12, <2>2, <3>1
    <3> QED BY <1>15, <2>2, <3>1, <3>2
  <2> QED BY <2>1, <2>2
<1>17. ASSUME NEW q \in Pushes, NEW x \in Spots, ResultAt(q, x)
       PROVE  \E y \in Spots : ResultAt(q, y)'
  <2>1. q \in Nat
    BY DEF Pushes
  <2>2. CASE x.t # t \/ x.kind # "batch"
    BY <1>14, <1>17, <2>1, <2>2
  <2>3. CASE x.t = t /\ x.kind = "batch"
    <3>1. x.i \in 1 .. n + 1 /\ (x.i > 1 \/ HeadOpen(t)) /\ batch[t][x.i].kind = "result"
      BY <1>8, <1>17, <2>3 DEF At, ResultAt
    <3>2. x.i # 1
      BY <1>7, <3>1
    <3>3. x.i - 1 \in Nat /\ x.i - 1 > 0 /\ x.i = (x.i - 1) + 1
      BY <3>1, <3>2
    <3>4. PICK i \in Nat : i > 0 /\ x.i = i + 1
      BY <3>3
    <3>5. x = [kind |-> "batch", t |-> t, i |-> i + 1]
      BY <2>3, <3>4 DEF Spots
    <3>6. [kind |-> "batch", t |-> t, i |-> i] \in Spots
      BY DEF Spots
    <3> QED BY <1>15, <1>17, <2>1, <3>4, <3>5, <3>6
  <2> QED BY <2>2, <2>3
<1>18. \A u \in Threads : Quiet(u)
  BY <1>3, <1>5, <1>6 DEF Quiet
<1>19. \A u \in Threads :
          at'[u] = "reply" => at[u] = "reply" /\ batch'[u] = batch[u] /\ result'[u] = result[u]
  BY <1>2, <1>10 DEF Alike, IdleStages
<1>20. ASSUME NEW q \in Pushes, NEW u \in Threads, Owns(u, q)
       PROVE  Owns(u, q)'
  <2>1. CASE u # t
    BY <1>2, <1>20, <2>1, AlikeOwns DEF JobInv
  <2>2. CASE u = t
    BY <1>3, <1>5, <1>20, <2>2 DEF Owns
  <2> QED BY <2>1, <2>2
<1> QED BY <1>3, <1>12, <1>13, <1>16, <1>17, <1>18, <1>19, <1>20, MoveStep

LEMMA SendStopAlike ==
  ASSUME IInv, JobInv, SendStop
  PROVE  \A u \in Threads : Alike(u)
<1>1. UNCHANGED <<batch, frames, result, arg>>
  BY DEF SendStop
<1>2. \A u \in Threads :
         \/ at'[u] = at[u]
         \/ at[u] = "sleep" /\ at'[u] = "wait"
         \/ at[u] = "newsleep" /\ at'[u] = "newthread"
  <2>1. UNCHANGED at \/ \E g : NotifyOne(g, at)
    BY DEF SendStop
  <2>2. ASSUME NEW g, NEW u \in Sleepers(g), at' = [at EXCEPT ![u] = Woken(u)]
        PROVE  \A v \in Threads :
                  \/ at'[v] = at[v]
                  \/ at[v] = "sleep" /\ at'[v] = "wait"
                  \/ at[v] = "newsleep" /\ at'[v] = "newthread"
    BY <2>2 DEF Sleepers, Woken, IInv, WriterType
  <2> QED BY <2>1, <2>2 DEF NotifyOne
<1>3. \A u \in Threads : at[u] = "newsleep" => frames[u] # <<>>
  BY DEF JobInv, StageInv, StageOf
<1> QED BY <1>1, <1>2, <1>3 DEF Alike, IdleStages

\* A null job is no push.
LEMMA SendStopStep ==
  ASSUME IInv, JobInv, JobType', SendStop, fault = "none"
  PROVE  RestInv'
<1>1. UNCHANGED <<lua, batch, frames, result, arg>> /\ (fault' = fault \/ fault' = "stop")
  BY DEF SendStop
<1>2. \A u \in Threads : Alike(u)
  BY SendStopAlike
<1>3. ASSUME NEW q \in Nat, NEW x \in Spots
      PROVE  (At(q, x)' <=> At(q, x)) /\ (ResultAt(q, x)' <=> ResultAt(q, x))
  <2>1. x.t \in Threads
    BY DEF Spots
  <2>2. CASE x.kind # "mail"
    BY <1>2, <2>1, <2>2, AlikeAt DEF JobInv
  <2>3. CASE x.kind = "mail" /\ mailbox'[x.t] = mailbox[x.t]
    BY <2>3, SameMail
  <2>4. CASE x.kind = "mail" /\ mailbox'[x.t] # mailbox[x.t]
    <3>1. PICK n : n = [kind |-> "stop", p |-> 0]
      OBVIOUS
    <3>2. n \in Node /\ n.kind = "stop"
      BY <3>1, BoundsAssumption DEF Node
    <3>3. PICK g : mailbox' = [mailbox EXCEPT ![g] = Append(@, n)]
      BY <2>4, <3>1 DEF SendStop
    <3>4. g = x.t
      BY <2>1, <2>4, <3>3 DEF JobInv, JobType
    <3>5. PICK k \in Nat : k = Len(mailbox[g])
      <4>1. mailbox[g] \in Seq(Node)
        BY <2>1, <3>4 DEF JobInv, JobType
      <4> QED BY <4>1
    <3>6. CASE x # MailSpot(g, k + 1)
      BY <2>1, <2>4, <3>2, <3>3, <3>4, <3>5, <3>6, MoreMail DEF JobInv
    <3>7. CASE x = MailSpot(g, k + 1)
      <4>1. ~At(q, x)
        <5>1. ~At(q, MailSpot(g, Len(mailbox[g]) + 1))
          BY <2>1, <3>2, <3>3, <3>4, MoreMail DEF JobInv
        <5> QED BY <3>5, <3>7, <5>1
      <4>2. mailbox'[g][k + 1] = n
        <5>1. mailbox'[g][Len(mailbox[g]) + 1] = n
          BY <2>1, <3>2, <3>3, <3>4, MailEnd DEF JobInv
        <5> QED BY <3>5, <5>1
      <4>3. ~At(q, x)'
        BY <3>2, <3>7, <4>2 DEF At, MailSpot
      <4> QED BY <4>1, <4>3 DEF ResultAt
    <3> QED BY <3>6, <3>7
  <2> QED BY <2>2, <2>3, <2>4
<1>4. \A u \in Threads : Quiet(u)
  BY <1>1 DEF Quiet
<1>5. \A u \in Threads :
         at'[u] = "reply" => at[u] = "reply" /\ batch'[u] = batch[u] /\ result'[u] = result[u]
  BY <1>2 DEF Alike, IdleStages
<1>6. \A q \in Pushes, u \in Threads : Owns(u, q) => Owns(u, q)'
  BY <1>2, AlikeOwns DEF JobInv
<1> QED BY <1>1, <1>3, <1>4, <1>5, <1>6, CalmStep

-----------------------------------------------------------------------------
(* The steps of a job.                                                     *)

LEMMA PushJobStep ==
  ASSUME IInv, JobInv, JobType', NEW t \in Threads, NEW g \in Threads, NEW j \in AllJobs,
         PushJob(t, g, j), fault = "none"
  PROVE  RestInv'
<1>1. Calls(t)
  BY DEF Calls
<1>2. \A u \in Threads \ {t} : Alike(u)
  BY <1>1, Others DEF JobInv
<1>3. /\ UNCHANGED <<mailbox, batch, frames, result, cache, heap, calls, fault>>
      /\ at[t] = "user" /\ frames[t] # <<>>
  BY DEF PushJob, InLua
<1>4. PICK n \in Nat : n = Len(jobs)
  BY DEF JobInv, JobType
<1>5. PICK p : p = n + 1
  OBVIOUS
<1>6. PICK s : s = IF j.back THEN SaveDone(t, p) ELSE saved[t]
  OBVIOUS
<1>7. PICK id : id = IF j.back THEN Len(s) ELSE 0
  OBVIOUS
<1>8. PICK new : new = [home |-> t, to |-> g, name |-> j.name, fn |-> j.fn, id |-> id,
                        ran |-> None, ok |-> FALSE, turned |-> "no"]
  OBVIOUS
<1>9. /\ saved' = [saved EXCEPT ![t] = s] /\ jobs' = Append(jobs, new)
      /\ at' = [at EXCEPT ![t] = "push"] /\ arg' = [arg EXCEPT ![t] = p] /\ p \in Pushes
  BY <1>4, <1>5, <1>6, <1>7, <1>8 DEF PushJob
<1>10. /\ new.home = t /\ new.id = id /\ new.ran = None /\ new.turned = "no"
  BY <1>8
<1>11. p \in Nat \ {0} /\ p \notin 1 .. n /\ p \in 1 .. n + 1
  BY <1>5
<1>12. /\ Len(jobs') = n + 1 /\ jobs'[p] = new /\ \A q \in 1 .. n : jobs'[q] = jobs[q]
  <2>1. jobs \in Seq(Job) /\ new \in Job
    <3>1. jobs' \in Seq(Job) /\ jobs \in Seq(Job)
      BY DEF JobInv, JobType
    <3>2. j.name \in Names /\ j.fn \in Fns
      BY DEF Names, Fns
    <3>3. saved \in [Threads -> Seq(Pushes)]
      BY DEF JobInv, JobType
    <3>4. s \in Seq(Pushes)
      BY <1>6, <1>9, <3>3 DEF SaveDone
    <3>5. id \in Nat
      BY <1>7, <3>4
    <3> QED BY <1>8, <3>1, <3>2, <3>5 DEF Job
  <2> QED BY <1>4, <1>5, <1>9, <2>1
<1>13. at'[t] = "push" /\ arg'[t] = p
  BY <1>9 DEF IInv, WriterType
<1>14. ASSUME NEW q \in Nat, NEW x \in Spots
       PROVE  /\ At(q, x)' => At(q, x) \/ (q = p /\ x = PushSpot(t))
              /\ ResultAt(q, x)' <=> ResultAt(q, x)
  <2>1. CASE x.kind = "mail"
    BY <1>3, <2>1, SameMail
  <2>2. CASE x.kind # "mail" /\ x.t # t
    <3>1. x.t \in Threads
      BY DEF Spots
    <3> QED BY <1>2, <2>2, <3>1, AlikeAt DEF JobInv
  <2>3. CASE x.kind = "push" /\ x.t = t
    <3>1. At(q, x)' => q = p /\ x.i = 0
      BY <1>13, <2>3 DEF At
    <3>2. x.i = 0 => x = PushSpot(t)
      BY <2>3, SpotFacts
    <3> QED BY <2>3, <3>1, <3>2 DEF ResultAt
  <2>4. CASE x.kind = "batch" /\ x.t = t
    <3>1. HeadOpen(t)' <=> HeadOpen(t)
      BY <1>3, <1>13 DEF HeadOpen, First
    <3> QED BY <1>3, <2>4, <3>1 DEF At, ResultAt
  <2> QED BY <2>1, <2>2, <2>3, <2>4 DEF Spots
<1>15. ASSUME NEW q \in Nat, NEW x \in Spots, At(q, x)
       PROVE  Pending(q) /\ q \in 1 .. n /\ q # p /\ Pending(q)'
  <2>1. Pending(q) /\ q \in 1 .. n
    BY <1>4, <1>15 DEF JobInv, RestInv, TokenInv, Pending
  <2>2. q \in 1 .. n + 1 /\ jobs'[q] = jobs[q]
    BY <1>12, <2>1
  <2>3. Pending(q)'
    BY <1>3, <1>12, <2>1, <2>2 DEF Pending
  <2> QED BY <1>11, <2>1, <2>3
<1>16. Pending(p)'
  <2>1. \A i \in DOMAIN calls : calls[i].p # p
    BY <1>4, <1>11 DEF JobInv, JobType
  <2>2. \A u \in Threads : result[u] # p
    BY <1>4, <1>5 DEF JobInv, JobType
  <2> QED BY <1>3, <1>10, <1>11, <1>12, <2>1, <2>2 DEF Pending
<1>17. OnePlace'
  <2>1. \A q \in Nat, x, y \in Spots : At(q, x)' /\ At(q, y)' => x = y
    BY <1>14, <1>15 DEF JobInv, RestInv, OnePlace
  <2> QED BY <2>1 DEF OnePlace
<1>18. TokenInv'
  <2>1. \A q \in Nat, x \in Spots : At(q, x)' => Pending(q)'
    BY <1>14, <1>15, <1>16
  <2>2. ASSUME NEW q \in Nat, NEW x \in Spots, ResultAt(q, x)'
        PROVE  jobs'[q].home = x.t /\ (jobs'[q].id # 0 => heap'[q] = "live")
    <3>1. ResultAt(q, x)
      BY <1>14, <2>2
    <3>2. jobs'[q] = jobs[q]
      BY <1>12, <1>15, <3>1 DEF ResultAt
    <3> QED BY <1>3, <3>1, <3>2 DEF JobInv, RestInv, TokenInv
  <2> QED BY <2>1, <2>2 DEF TokenInv
<1>19. ReplyInv'
  <2> SUFFICES ASSUME NEW u \in Threads, at'[u] = "reply" PROVE ReplyOf(u)'
    BY DEF ReplyInv, ReplyOf
  <2>1. u # t /\ at[u] = "reply"
    BY <1>2, <1>13 DEF Alike, IdleStages
  <2>2. HeadOpen(u) /\ batch[u] # <<>> /\ batch[u][1].kind = "work"
    BY <2>1 DEF HeadOpen, JobInv, StageInv, StageOf
  <2>3. Pending(batch[u][1].p)
    BY <2>2, AtTheHead DEF JobInv, RestInv
  <2>4. jobs'[batch[u][1].p] = jobs[batch[u][1].p]
    BY <1>4, <1>12, <2>3 DEF Pending
  <2> QED BY <1>3, <2>1, <2>4 DEF JobInv, RestInv, ReplyInv, ReplyOf
<1>20. SavedInv'
  <2> SUFFICES ASSUME NEW q \in 1 .. Len(jobs'), jobs'[q].id # 0
               PROVE  /\ jobs'[q].id \in 1 .. Len(saved'[jobs'[q].home])
                      /\ saved'[jobs'[q].home][jobs'[q].id] = q
    BY DEF SavedInv
  <2>1. saved \in [Threads -> Seq(Pushes)]
    BY DEF JobInv, JobType
  <2>2. /\ saved'[t] = s /\ \A u \in Threads \ {t} : saved'[u] = saved[u]
    BY <1>9, <2>1
  <2>3. /\ Len(saved[t]) \in Nat /\ Len(s) >= Len(saved[t]) /\ Len(s) \in Nat
        /\ \A i \in 1 .. Len(saved[t]) : s[i] = saved[t][i]
    BY <1>6, <1>9, <2>1 DEF SaveDone
  <2>4. CASE q \in 1 .. n
    <3>1. PICK h, i : h = jobs[q].home /\ i = jobs[q].id
      OBVIOUS
    <3>2. h \in Threads /\ i # 0 /\ jobs'[q].home = h /\ jobs'[q].id = i
      <4>1. jobs[q] \in Job
        BY <1>4, <2>4 DEF JobInv, JobType
      <4>2. jobs'[q] = jobs[q]
        BY <1>12, <2>4
      <4> QED BY <3>1, <4>1, <4>2 DEF Job
    <3>3. i \in 1 .. Len(saved[h]) /\ saved[h][i] = q
      BY <1>4, <2>4, <3>1, <3>2 DEF JobInv, RestInv, SavedInv
    <3>4. CASE h = t
      BY <2>2, <2>3, <3>2, <3>3, <3>4
    <3>5. CASE h # t
      BY <2>2, <3>2, <3>3, <3>5
    <3> QED BY <3>4, <3>5
  <2>5. CASE q = p
    <3>1. jobs'[q].home = t /\ jobs'[q].id = id /\ id # 0
      BY <1>10, <1>12, <2>5
    <3>2. s = Append(saved[t], p) /\ id = Len(s)
      BY <1>6, <1>7, <3>1 DEF SaveDone
    <3>3. id \in 1 .. Len(s) /\ s[id] = p
      BY <1>9, <2>1, <3>2
    <3> QED BY <2>2, <2>5, <3>1, <3>3
  <2> QED BY <1>5, <1>12, <2>4, <2>5
<1>21. NameInv'
  <2>1. ASSUME NEW name, NEW f, Pushed(name, f) PROVE Pushed(name, f)'
    <3>1. PICK q \in 1 .. n : jobs[q].name = name /\ jobs[q].fn = f
      BY <1>4, <2>1 DEF Pushed
    <3>2. q \in 1 .. Len(jobs') /\ jobs'[q] = jobs[q]
      BY <1>12
    <3> QED BY <3>1, <3>2 DEF Pushed
  <2>2. \A u \in Threads, name \in Names : (cache[u][name] # None => Pushed(name, cache[u][name]))'
    BY <1>3, <2>1 DEF JobInv, RestInv, NameInv
  <2>3. ASSUME NEW q \in 1 .. Len(jobs'), jobs'[q].ran # None
        PROVE  Pushed(jobs[q].name, jobs[q].ran)'
    <3>1. q \in 1 .. n /\ jobs'[q] = jobs[q]
      <4>1. q \in 1 .. n \/ q = p
        BY <1>5, <1>12
      <4> QED BY <1>10, <1>12, <2>3, <4>1
    <3>2. Pushed(jobs[q].name, jobs[q].ran)
      BY <1>4, <2>3, <3>1 DEF JobInv, RestInv, NameInv
    <3>3. PICK i \in 1 .. n : jobs[i].name = jobs[q].name /\ jobs[i].fn = jobs[q].ran
      BY <1>4, <3>2 DEF Pushed
    <3>4. i \in 1 .. Len(jobs') /\ jobs'[i] = jobs[i]
      BY <1>12
    <3> QED BY <3>1, <3>3, <3>4 DEF Pushed
  <2> QED BY <2>2, <2>3 DEF NameInv
<1>22. CallbackOfPush'
  <2>1. \A i \in DOMAIN calls : jobs'[calls[i].p] = jobs[calls[i].p]
    BY <1>4, <1>12 DEF JobInv, JobType
  <2> QED BY <1>3, <2>1 DEF JobInv, RestInv, CallbackOfPush
<1>23. KeptInv'
  <2> SUFFICES ASSUME NEW q \in Pushes, heap'[q] = "live"
               PROVE  /\ q \in 1 .. Len(jobs') /\ jobs'[q].id # 0
                      /\ (\E x \in Spots : ResultAt(q, x)') \/ (\E u \in Threads : Owns(u, q)')
    BY DEF KeptInv
  <2>1. /\ q \in 1 .. n /\ jobs[q].id # 0 /\ q \in Nat
        /\ (\E x \in Spots : ResultAt(q, x)) \/ (\E u \in Threads : Owns(u, q))
    BY <1>3, <1>4 DEF JobInv, RestInv, KeptInv, Pushes
  <2>2. ASSUME NEW u \in Threads, Owns(u, q) PROVE Owns(u, q)'
    <3>1. CASE u # t
      BY <1>2, <2>2, <3>1, AlikeOwns DEF JobInv
    <3>2. CASE u = t
      BY <1>3, <2>2, <3>2 DEF Owns
    <3> QED BY <3>1, <3>2
  <2>3. (\E x \in Spots : ResultAt(q, x)') \/ (\E u \in Threads : Owns(u, q)')
    BY <1>14, <2>1, <2>2
  <2>4. jobs'[q] = jobs[q] /\ q \in 1 .. n + 1
    BY <1>12, <2>1
  <2> QED BY <1>12, <2>1, <2>3, <2>4
<1>24. OwnerInv'
  BY <1>3 DEF JobInv, RestInv, OwnerInv
<1>25. FaultInv'
  <2>1. ASSUME TurnedAway PROVE TurnedAway'
    <3>1. PICK q \in 1 .. n : jobs[q].turned = "push" /\ jobs[q].id # 0
      BY <1>4, <2>1 DEF TurnedAway
    <3>2. q \in 1 .. Len(jobs') /\ jobs'[q] = jobs[q]
      BY <1>12
    <3> QED BY <3>1, <3>2 DEF TurnedAway
  <2> QED BY <1>3, <2>1 DEF JobInv, RestInv, FaultInv
<1> QED BY <1>17, <1>18, <1>19, <1>20, <1>21, <1>22, <1>23, <1>24, <1>25 DEF RestInv

\* A thread that goes on in a node: all pushes stay where they are.
LEMMA SamePlaces ==
  ASSUME JobInv, NEW t \in Threads, \A u \in Threads \ {t} : Alike(u),
         UNCHANGED <<mailbox, batch>>, at[t] # "push", at'[t] # "push",
         HeadOpen(t)' <=> HeadOpen(t)
  PROVE  /\ \A q \in Nat, x \in Spots :
               (At(q, x)' <=> At(q, x)) /\ (ResultAt(q, x)' <=> ResultAt(q, x))
         /\ OnePlace'
<1>1. ASSUME NEW q \in Nat, NEW x \in Spots
      PROVE  (At(q, x)' <=> At(q, x)) /\ (ResultAt(q, x)' <=> ResultAt(q, x))
  <2>1. CASE x.kind = "mail"
    BY <2>1, SameMail
  <2>2. CASE x.kind # "mail" /\ x.t # t
    <3>1. x.t \in Threads
      BY DEF Spots
    <3> QED BY <2>2, <3>1, AlikeAt DEF JobInv
  <2>3. CASE x.kind # "mail" /\ x.t = t
    BY <2>3 DEF At, ResultAt
  <2> QED BY <2>1, <2>2, <2>3
<1>2. \A q \in Nat, x, y \in Spots : At(q, x)' /\ At(q, y)' => x = y
  BY <1>1 DEF JobInv, RestInv, OnePlace
<1> QED BY <1>1, <1>2 DEF OnePlace

\* One field of a job changes, and not one that says whose it is.
LEMMA OtherFields ==
  ASSUME JobInv, NEW p \in 1 .. Len(jobs), NEW j, jobs' = [jobs EXCEPT ![p] = j],
         /\ j.home = jobs[p].home /\ j.name = jobs[p].name /\ j.fn = jobs[p].fn
         /\ j.id = jobs[p].id
  PROVE  /\ Len(jobs') = Len(jobs) /\ jobs'[p] = j
         /\ \A q \in 1 .. Len(jobs) \ {p} : jobs'[q] = jobs[q]
         /\ \A q \in 1 .. Len(jobs) :
               /\ jobs'[q].home = jobs[q].home /\ jobs'[q].id = jobs[q].id
               /\ jobs'[q].name = jobs[q].name /\ jobs'[q].fn = jobs[q].fn
         /\ \A name, f : Pushed(name, f)' <=> Pushed(name, f)
<1>1. jobs \in Seq(Job)
  BY DEF JobInv, JobType
<1>2. /\ Len(jobs') = Len(jobs) /\ jobs'[p] = j
      /\ \A q \in 1 .. Len(jobs) \ {p} : jobs'[q] = jobs[q]
  BY <1>1
<1>3. \A q \in 1 .. Len(jobs) :
         /\ jobs'[q].home = jobs[q].home /\ jobs'[q].id = jobs[q].id
         /\ jobs'[q].name = jobs[q].name /\ jobs'[q].fn = jobs[q].fn
  BY <1>2
<1>4. \A name, f : Pushed(name, f)' <=> Pushed(name, f)
  BY <1>2, <1>3 DEF Pushed
<1> QED BY <1>2, <1>3, <1>4

\* What a step leaves of the invariant in which no push moves and no turn is taken.
LEMMA SavedStays ==
  ASSUME JobInv, UNCHANGED saved, Len(jobs') = Len(jobs),
         \A q \in 1 .. Len(jobs) : jobs'[q].home = jobs[q].home /\ jobs'[q].id = jobs[q].id
  PROVE  SavedInv'
BY DEF JobInv, RestInv, SavedInv

LEMMA TurnsStay ==
  ASSUME JobInv, Len(jobs') = Len(jobs),
         \A q \in 1 .. Len(jobs) : jobs'[q].id = jobs[q].id /\ jobs'[q].turned = jobs[q].turned
  PROVE  TurnedAway' <=> TurnedAway
BY DEF TurnedAway

\* The push that a thread about to answer answers is at the head of its batch.
LEMMA ReplyHead ==
  ASSUME JobInv, NEW u \in Threads, at[u] = "reply"
  PROVE  /\ HeadOpen(u) /\ batch[u] # <<>> /\ batch[u][1].kind = "work"
         /\ batch[u][1].p \in Nat \ {0} /\ Pending(batch[u][1].p)
         /\ At(batch[u][1].p, HeadSpot(u)) /\ HeadSpot(u) \in Spots
         /\ frames[u] = <<>>
<1>1. HeadOpen(u) /\ batch[u] # <<>> /\ batch[u][1].kind = "work" /\ frames[u] = <<>>
  BY DEF HeadOpen, JobInv, StageInv, StageOf, LuaStages
<1>2. Pending(batch[u][1].p) /\ At(batch[u][1].p, HeadSpot(u)) /\ HeadSpot(u) \in Spots
  BY <1>1, AtTheHead DEF JobInv, RestInv
<1> QED BY <1>1, <1>2, PendingFacts DEF JobInv

LEMMA RunWorkStep ==
  ASSUME IInv, JobInv, JobType', NEW t \in Threads, RunWork(t), fault = "none"
  PROVE  RestInv'
<1>1. Continues(t)
  BY DEF Continues, Loop
<1>2. \A u \in Threads \ {t} : Alike(u)
  BY <1>1, Others DEF JobInv
<1>3. /\ UNCHANGED <<mailbox, batch, saved, heap, calls, fault>>
      /\ at[t] = "batch" /\ batch[t] # <<>> /\ Head(batch[t]).kind = "work"
      /\ at' = [at EXCEPT ![t] = "user"]
  BY DEF RunWork, IsNode
<1>4. /\ at \in [Threads -> Stages] /\ batch[t] \in Seq(Node) /\ result \in [Threads -> Nat]
      /\ frames \in [Threads -> Seq(Frame)] /\ cache \in [Threads -> [Names -> Fns \cup {None}]]
      /\ jobs \in Seq(Job)
  BY DEF IInv, WriterType, JobInv, JobType
<1>5. HeadOpen(t) /\ batch[t][1].kind = "work"
  BY <1>3, <1>4 DEF HeadOpen
<1>6. PICK p : p = Head(batch[t]).p /\ Pending(p)
  BY <1>3, <1>5, AtTheHead DEF JobInv, RestInv
<1>7. p \in 1 .. Len(jobs) /\ jobs[p] \in Job
  BY <1>6, PendingFacts DEF JobInv, Pending
<1>8. PICK f : f = Loaded(t, jobs[p].name, jobs[p].fn)
  OBVIOUS
<1>9. PICK j : j = [jobs[p] EXCEPT !.ran = f]
  OBVIOUS
<1>10. /\ j.home = jobs[p].home /\ j.name = jobs[p].name /\ j.fn = jobs[p].fn
       /\ j.id = jobs[p].id /\ j.turned = jobs[p].turned /\ j.ran = f
  BY <1>7, <1>9 DEF Job
<1>11. /\ jobs' = [jobs EXCEPT ![p] = j] /\ result' = [result EXCEPT ![t] = 0]
       /\ cache' = [cache EXCEPT ![t][jobs[p].name] = f]
       /\ frames' = [frames EXCEPT ![t] = <<[kind |-> "work", p |-> p, res |-> 0]>>]
  BY <1>6, <1>8, <1>9 DEF RunWork, SetResult
<1>12. /\ Len(jobs') = Len(jobs) /\ jobs'[p] = j
       /\ \A q \in 1 .. Len(jobs) \ {p} : jobs'[q] = jobs[q]
       /\ \A q \in 1 .. Len(jobs) :
             /\ jobs'[q].home = jobs[q].home /\ jobs'[q].id = jobs[q].id
             /\ jobs'[q].name = jobs[q].name /\ jobs'[q].fn = jobs[q].fn
       /\ \A name, fn : Pushed(name, fn)' <=> Pushed(name, fn)
  BY <1>7, <1>10, <1>11, OtherFields
<1>13. \A q \in 1 .. Len(jobs) : jobs'[q].turned = jobs[q].turned
  BY <1>10, <1>12
<1>14. result[t] = 0 /\ frames[t] = <<>>
  BY <1>3 DEF JobInv, StageInv, StageOf, LuaStages
<1>15. UNCHANGED result
  BY <1>4, <1>11, <1>14
<1>16. /\ at'[t] = "user" /\ First(t, "work")' /\ HeadOpen(t)'
       /\ \A u \in Threads \ {t} : at'[u] = at[u] /\ frames'[u] = frames[u]
  BY <1>3, <1>4, <1>11 DEF First, HeadOpen
<1>17. /\ \A q \in Nat, x \in Spots :
             (At(q, x)' <=> At(q, x)) /\ (ResultAt(q, x)' <=> ResultAt(q, x))
       /\ OnePlace'
  BY <1>2, <1>3, <1>5, <1>16, SamePlaces
<1>18. ASSUME NEW q \in Nat, NEW x \in Spots, At(q, x)
       PROVE  q \in 1 .. Len(jobs) /\ Pending(q)'
  <2>1. Pending(q) /\ q \in 1 .. Len(jobs) /\ q # 0
    BY <1>18 DEF JobInv, RestInv, TokenInv, Pending
  <2>2. \A u \in Threads : result[u] = q => frames'[u] = <<>>
    BY <1>14, <1>16, <2>1 DEF Pending
  <2> QED BY <1>3, <1>12, <1>13, <1>15, <2>1, <2>2 DEF Pending
<1>19. TokenInv'
  <2>1. \A q \in Nat, x \in Spots : At(q, x)' => Pending(q)'
    BY <1>17, <1>18
  <2>2. ASSUME NEW q \in Nat, NEW x \in Spots, ResultAt(q, x)'
        PROVE  jobs'[q].home = x.t /\ (jobs'[q].id # 0 => heap'[q] = "live")
    <3>1. ResultAt(q, x) /\ q \in 1 .. Len(jobs)
      BY <1>17, <1>18, <2>2 DEF ResultAt
    <3> QED BY <1>3, <1>12, <3>1 DEF JobInv, RestInv, TokenInv
  <2> QED BY <2>1, <2>2 DEF TokenInv
<1>20. ReplyInv'
  <2> SUFFICES ASSUME NEW u \in Threads, at'[u] = "reply" PROVE ReplyOf(u)'
    BY DEF ReplyInv, ReplyOf
  <2>1. u # t /\ at[u] = "reply"
    BY <1>16
  <2>2. Pending(batch[u][1].p)
    BY <2>1, ReplyHead
  <2>3. jobs'[batch[u][1].p].id = jobs[batch[u][1].p].id
    BY <1>12, <2>2 DEF Pending
  <2> QED BY <1>3, <1>15, <2>1, <2>3 DEF JobInv, RestInv, ReplyInv, ReplyOf
<1>21. SavedInv'
  BY <1>3, <1>12, SavedStays
<1>22. NameInv'
  <2>1. f # None => Pushed(jobs[p].name, f)
    <3>1. jobs[p].name \in Names
      BY <1>7 DEF Job
    <3>2. Pushed(jobs[p].name, jobs[p].fn)
      BY <1>7 DEF Pushed
    <3>3. cache[t][jobs[p].name] # None => Pushed(jobs[p].name, cache[t][jobs[p].name])
      BY <3>1 DEF JobInv, RestInv, NameInv
    <3> QED BY <1>8, <3>2, <3>3 DEF Loaded
  <2>2. ASSUME NEW u \in Threads, NEW name \in Names
        PROVE  (cache[u][name] # None => Pushed(name, cache[u][name]))'
    <3>1. cache[u][name] # None => Pushed(name, cache[u][name])
      BY DEF JobInv, RestInv, NameInv
    <3>2. \/ cache'[u][name] = cache[u][name]
          \/ name = jobs[p].name /\ cache'[u][name] = f
      BY <1>4, <1>11
    <3>3. PICK v : v = cache'[u][name]
      OBVIOUS
    <3>4. v # None => Pushed(name, v)
      BY <2>1, <3>1, <3>2, <3>3
    <3>5. v # None => Pushed(name, v)'
      BY <1>12, <3>4
    <3> QED BY <3>3, <3>5 DEF Pushed
  <2>3. ASSUME NEW q \in 1 .. Len(jobs)
        PROVE  (jobs[q].ran # None => Pushed(jobs[q].name, jobs[q].ran))'
    <3>1. jobs[q].ran # None => Pushed(jobs[q].name, jobs[q].ran)
      BY DEF JobInv, RestInv, NameInv
    <3>2. PICK name, v : name = jobs'[q].name /\ v = jobs'[q].ran
      OBVIOUS
    <3>3. name = jobs[q].name /\ (v = jobs[q].ran \/ (q = p /\ v = f))
      BY <1>10, <1>12, <3>2
    <3>4. v # None => Pushed(name, v)
      BY <2>1, <3>1, <3>3
    <3>5. v # None => Pushed(name, v)'
      BY <1>12, <3>4
    <3> QED BY <3>2, <3>5 DEF Pushed
  <2> QED BY <1>12, <2>2, <2>3 DEF NameInv
<1>23. CallbackOfPush'
  <2>1. \A i \in DOMAIN calls : calls[i].p \in 1 .. Len(jobs)
    BY DEF JobInv, JobType
  <2> QED BY <1>3, <1>12, <1>13, <2>1 DEF JobInv, RestInv, CallbackOfPush
<1>24. KeptInv'
  <2> SUFFICES ASSUME NEW q \in Pushes, heap'[q] = "live"
               PROVE  /\ q \in 1 .. Len(jobs') /\ jobs'[q].id # 0
                      /\ (\E x \in Spots : ResultAt(q, x)') \/ (\E u \in Threads : Owns(u, q)')
    BY DEF KeptInv
  <2>1. /\ q \in 1 .. Len(jobs) /\ jobs[q].id # 0 /\ q \in Nat \ {0}
        /\ (\E x \in Spots : ResultAt(q, x)) \/ (\E u \in Threads : Owns(u, q))
    BY <1>3 DEF JobInv, RestInv, KeptInv, Pushes
  <2>2. ASSUME NEW u \in Threads, Owns(u, q) PROVE Owns(u, q)'
    <3>1. u # t
      BY <1>14, <2>1, <2>2 DEF Owns
    <3> QED BY <1>2, <2>2, <3>1, AlikeOwns DEF JobInv
  <2>3. (\E x \in Spots : ResultAt(q, x)') \/ (\E u \in Threads : Owns(u, q)')
    BY <1>17, <2>1, <2>2
  <2> QED BY <1>12, <2>1, <2>3
<1>25. OwnerInv'
  <2>1. \A u \in Threads : result[u] # 0 => u # t
    BY <1>14
  <2> QED BY <1>15, <1>16, <2>1 DEF JobInv, RestInv, OwnerInv
<1>26. FaultInv'
  <2>1. TurnedAway' <=> TurnedAway
    BY <1>12, <1>13, TurnsStay
  <2>2. \A u \in Threads : result[u] # 0 => u # t
    BY <1>14
  <2> QED BY <1>3, <1>15, <1>16, <2>1, <2>2 DEF JobInv, RestInv, FaultInv
<1> QED
  BY <1>17, <1>19, <1>20, <1>21, <1>22, <1>23, <1>24, <1>25, <1>26 DEF RestInv

\* A result is a push.
LEMMA ResultRange ==
  ASSUME JobType, NEW u \in Threads, result[u] # 0
  PROVE  result[u] \in Pushes
<1>1. /\ result[u] \in Nat /\ result[u] <= Len(jobs) /\ Len(jobs) <= MaxPushes
      /\ Len(jobs) \in Nat /\ MaxPushes \in Nat
  BY BoundsAssumption DEF JobType
<1> QED BY <1>1 DEF Pushes

LEMMA WorkReturnsStep ==
  ASSUME IInv, JobInv, JobType', NEW t \in Threads, NEW ok \in BOOLEAN, WorkReturns(t, ok),
         fault = "none"
  PROVE  RestInv'
<1>1. Continues(t)
  BY DEF Continues, Returns
<1>2. \A u \in Threads \ {t} : Alike(u)
  BY <1>1, Others DEF JobInv
<1>3. /\ at \in [Threads -> Stages] /\ batch[t] \in Seq(Node) /\ result \in [Threads -> Nat]
      /\ frames \in [Threads -> Seq(Frame)] /\ jobs \in Seq(Job)
      /\ heap \in [Pushes -> {"none", "live", "deleted"}]
  BY DEF IInv, WriterType, JobInv, JobType
<1>4. /\ UNCHANGED <<mailbox, batch, saved, cache, calls, fault>>
      /\ at[t] = "user" /\ frames[t] # <<>> /\ frames[t][Len(frames[t])].kind = "work"
      /\ frames' = [frames EXCEPT ![t] = Below(t)] /\ at' = [at EXCEPT ![t] = "reply"]
  BY DEF WorkReturns, InWork
<1>5. First(t, "work") /\ Len(frames[t]) = 1 /\ result[t] = 0
      /\ batch[t] # <<>> /\ batch[t][1].kind = "work"
  <2>1. PICK n \in Nat \ {0} : n = Len(frames[t])
    BY <1>3, <1>4
  <2>2. n \notin 2 .. n
    BY <1>4, <2>1 DEF JobInv, StageInv, StageOf
  <2>3. n = 1
    BY <2>2
  <2>4. First(t, "work")
    BY <1>4, <2>1, <2>3 DEF First
  <2> QED BY <2>1, <2>3, <2>4 DEF JobInv, StageInv, StageOf
<1>6. frames'[t] = <<>>
  BY <1>3, <1>4, <1>5 DEF Below
<1>7. HeadOpen(t) /\ HeadOpen(t)' /\ at'[t] = "reply"
  BY <1>3, <1>4, <1>5 DEF HeadOpen
<1>8. PICK p : p = batch[t][1].p /\ p = Head(batch[t]).p /\ Pending(p)
  BY <1>5, <1>7, AtTheHead DEF JobInv, RestInv
<1>9. p \in 1 .. Len(jobs) /\ jobs[p] \in Job /\ p \in Pushes /\ p \in Nat \ {0}
  BY <1>8, PendingFacts DEF JobInv, Pending
<1>10. /\ jobs[p].id = 0 => UNCHANGED <<result, heap, jobs>>
       /\ jobs[p].id # 0 =>
             /\ result' = [result EXCEPT ![t] = p] /\ heap' = [heap EXCEPT ![p] = "live"]
             /\ jobs' = [jobs EXCEPT ![p].ok = ok]
  BY <1>8 DEF WorkReturns, SetResult
<1>11. /\ Len(jobs') = Len(jobs)
       /\ \A q \in 1 .. Len(jobs) :
             /\ jobs'[q].home = jobs[q].home /\ jobs'[q].id = jobs[q].id
             /\ jobs'[q].name = jobs[q].name /\ jobs'[q].ran = jobs[q].ran
             /\ jobs'[q].turned = jobs[q].turned
       /\ \A name, f : Pushed(name, f)' <=> Pushed(name, f)
  <2>1. CASE jobs[p].id = 0
    BY <1>10, <2>1 DEF Pushed
  <2>2. CASE jobs[p].id # 0
    <3>1. PICK j : j = [jobs[p] EXCEPT !.ok = ok]
      OBVIOUS
    <3>2. /\ j.home = jobs[p].home /\ j.name = jobs[p].name /\ j.fn = jobs[p].fn
          /\ j.id = jobs[p].id /\ j.turned = jobs[p].turned /\ j.ran = jobs[p].ran
      BY <1>9, <3>1 DEF Job
    <3>3. jobs' = [jobs EXCEPT ![p] = j]
      BY <1>10, <2>2, <3>1
    <3>4. /\ Len(jobs') = Len(jobs) /\ jobs'[p] = j
          /\ \A q \in 1 .. Len(jobs) \ {p} : jobs'[q] = jobs[q]
          /\ \A q \in 1 .. Len(jobs) :
                /\ jobs'[q].home = jobs[q].home /\ jobs'[q].id = jobs[q].id
                /\ jobs'[q].name = jobs[q].name /\ jobs'[q].fn = jobs[q].fn
          /\ \A name, f : Pushed(name, f)' <=> Pushed(name, f)
      BY <1>9, <3>2, <3>3, OtherFields
    <3> QED BY <3>2, <3>4
  <2> QED BY <2>1, <2>2
<1>12. /\ \A u \in Threads \ {t} : result'[u] = result[u] /\ frames'[u] = frames[u]
                                   /\ at'[u] = at[u]
       /\ jobs[p].id = 0 => result'[t] = 0
       /\ jobs[p].id # 0 => result'[t] = p /\ heap'[p] = "live"
  BY <1>3, <1>4, <1>5, <1>9, <1>10
<1>13. \A q \in Pushes :
          /\ heap[q] = "live" => heap'[q] = "live"
          /\ heap'[q] = "deleted" => heap[q] = "deleted"
          /\ heap'[q] = "live" => heap[q] = "live" \/ (q = p /\ jobs[p].id # 0)
  BY <1>3, <1>9, <1>10
<1>14. /\ \A q \in Nat, x \in Spots :
             (At(q, x)' <=> At(q, x)) /\ (ResultAt(q, x)' <=> ResultAt(q, x))
       /\ OnePlace'
  BY <1>2, <1>4, <1>7, SamePlaces
<1>15. ASSUME NEW q \in Nat, NEW x \in Spots, At(q, x)
       PROVE  q \in 1 .. Len(jobs) /\ q \in Pushes /\ Pending(q)'
  <2>1. Pending(q) /\ q \in 1 .. Len(jobs)
    BY <1>15 DEF JobInv, RestInv, TokenInv, Pending
  <2>2. \A u \in Threads : result'[u] = q => frames'[u] = <<>>
    BY <1>6, <1>12, <2>1 DEF Pending
  <2>3. q \in Pushes
    BY <2>1, PendingFacts DEF JobInv
  <2> QED BY <1>4, <1>11, <2>1, <2>2, <2>3 DEF Pending
<1>16. TokenInv'
  <2>1. \A q \in Nat, x \in Spots : At(q, x)' => Pending(q)'
    BY <1>14, <1>15
  <2>2. ASSUME NEW q \in Nat, NEW x \in Spots, ResultAt(q, x)'
        PROVE  jobs'[q].home = x.t /\ (jobs'[q].id # 0 => heap'[q] = "live")
    <3>1. ResultAt(q, x) /\ q \in 1 .. Len(jobs) /\ q \in Pushes
      BY <1>14, <1>15, <2>2 DEF ResultAt
    <3> QED BY <1>11, <1>13, <3>1 DEF JobInv, RestInv, TokenInv
  <2> QED BY <2>1, <2>2 DEF TokenInv
<1>17. ReplyInv'
  <2> SUFFICES ASSUME NEW u \in Threads, at'[u] = "reply" PROVE ReplyOf(u)'
    BY DEF ReplyInv, ReplyOf
  <2>1. CASE u = t
    BY <1>4, <1>8, <1>9, <1>11, <1>12, <2>1 DEF ReplyOf
  <2>2. CASE u # t
    <3>1. at[u] = "reply"
      BY <1>12, <2>2
    <3>2. PICK q : q = batch[u][1].p /\ Pending(q)
      BY <3>1, ReplyHead
    <3>3. q \in Pushes /\ q \in 1 .. Len(jobs)
      BY <3>2, PendingFacts DEF JobInv, Pending
    <3>4. /\ jobs[q].id = 0 => result[u] = 0
          /\ jobs[q].id # 0 => result[u] = q /\ heap[q] = "live"
      BY <3>1, <3>2 DEF JobInv, RestInv, ReplyInv, ReplyOf
    <3>5. /\ jobs'[q].id = 0 => result'[u] = 0
          /\ jobs'[q].id # 0 => result'[u] = q /\ heap'[q] = "live"
      BY <1>11, <1>12, <1>13, <2>2, <3>3, <3>4
    <3> QED BY <1>4, <3>2, <3>5 DEF ReplyOf
  <2> QED BY <2>1, <2>2
<1>18. SavedInv'
  BY <1>4, <1>11, SavedStays
<1>19. NameInv'
  <2>1. ASSUME NEW u \in Threads, NEW name \in Names
        PROVE  (cache[u][name] # None => Pushed(name, cache[u][name]))'
    <3>1. cache[u][name] # None => Pushed(name, cache[u][name])
      BY DEF JobInv, RestInv, NameInv
    <3>2. PICK v : v = cache[u][name] /\ v = cache'[u][name]
      BY <1>4
    <3>3. v # None => Pushed(name, v)'
      BY <1>11, <3>1, <3>2
    <3> QED BY <3>2, <3>3 DEF Pushed
  <2>2. ASSUME NEW q \in 1 .. Len(jobs)
        PROVE  (jobs[q].ran # None => Pushed(jobs[q].name, jobs[q].ran))'
    <3>1. jobs[q].ran # None => Pushed(jobs[q].name, jobs[q].ran)
      BY DEF JobInv, RestInv, NameInv
    <3>2. PICK name, v : name = jobs[q].name /\ v = jobs[q].ran
      OBVIOUS
    <3>3. name = jobs'[q].name /\ v = jobs'[q].ran
      BY <1>11, <3>2
    <3>4. v # None => Pushed(name, v)'
      BY <1>11, <3>1, <3>2
    <3> QED BY <3>3, <3>4 DEF Pushed
  <2> QED BY <1>11, <2>1, <2>2 DEF NameInv
<1>20. CallbackOfPush'
  <2>1. \A i \in DOMAIN calls : calls[i].p \in 1 .. Len(jobs)
    BY DEF JobInv, JobType
  <2> QED BY <1>4, <1>11, <2>1 DEF JobInv, RestInv, CallbackOfPush
<1>21. KeptInv'
  <2> SUFFICES ASSUME NEW q \in Pushes, heap'[q] = "live"
               PROVE  /\ q \in 1 .. Len(jobs') /\ jobs'[q].id # 0
                      /\ (\E x \in Spots : ResultAt(q, x)') \/ (\E u \in Threads : Owns(u, q)')
    BY DEF KeptInv
  <2>1. CASE heap[q] = "live"
    <3>1. /\ q \in 1 .. Len(jobs) /\ jobs[q].id # 0 /\ q \in Nat \ {0}
          /\ (\E x \in Spots : ResultAt(q, x)) \/ (\E u \in Threads : Owns(u, q))
      BY <2>1 DEF JobInv, RestInv, KeptInv, Pushes
    <3>2. ASSUME NEW u \in Threads, Owns(u, q) PROVE Owns(u, q)'
      <4>1. u # t
        BY <1>5, <3>1, <3>2 DEF Owns
      <4> QED BY <1>2, <3>2, <4>1, AlikeOwns DEF JobInv
    <3>3. (\E x \in Spots : ResultAt(q, x)') \/ (\E u \in Threads : Owns(u, q)')
      BY <1>14, <3>1, <3>2
    <3> QED BY <1>11, <3>1, <3>3
  <2>2. CASE q = p /\ jobs[p].id # 0
    <3>1. Owns(t, p)'
      BY <1>7, <1>12, <2>2 DEF Owns
    <3> QED BY <1>9, <1>11, <2>2, <3>1
  <2> QED BY <1>13, <2>1, <2>2
<1>22. OwnerInv'
  BY <1>6, <1>12 DEF JobInv, RestInv, OwnerInv
<1>23. FaultInv'
  <2>1. TurnedAway' <=> TurnedAway
    BY <1>11, TurnsStay
  <2>2. ASSUME NEW u \in Threads, frames'[u] # <<>>, result'[u] # 0,
               Len(frames'[u]) > 1 \/ heap'[result'[u]] = "deleted"
        PROVE  TurnedAway
    <3>1. u # t /\ frames'[u] = frames[u] /\ result'[u] = result[u]
      BY <1>6, <1>12, <2>2
    <3>2. result[u] \in Pushes
      BY <2>2, <3>1, ResultRange DEF JobInv
    <3> QED BY <1>13, <2>2, <3>1, <3>2 DEF JobInv, RestInv, FaultInv
  <2> QED BY <1>4, <2>1, <2>2 DEF JobInv, RestInv, FaultInv
<1> QED
  BY <1>14, <1>16, <1>17, <1>18, <1>19, <1>20, <1>21, <1>22, <1>23 DEF RestInv

LEMMA DoneReturnsStep ==
  ASSUME IInv, JobInv, JobType', NEW t \in Threads, DoneReturns(t), fault = "none"
  PROVE  RestInv'
<1>1. Continues(t)
  BY DEF Continues, Returns
<1>2. \A u \in Threads \ {t} : Alike(u)
  BY <1>1, Others DEF JobInv
<1>3. /\ at \in [Threads -> Stages] /\ result \in [Threads -> Nat]
      /\ frames \in [Threads -> Seq(Frame)] /\ heap \in [Pushes -> {"none", "live", "deleted"}]
  BY DEF IInv, WriterType, JobInv, JobType
<1>4. /\ UNCHANGED <<at, mailbox, batch, result, saved, cache, jobs, calls>>
      /\ at[t] = "user" /\ frames[t] # <<>> /\ frames[t][Len(frames[t])].kind = "done"
      /\ frames' = [frames EXCEPT ![t] = Below(t)]
  BY DEF DoneReturns, InLua
<1>5. PICK n \in Nat : Len(frames[t]) = n + 1
  <2>1. Len(frames[t]) \in Nat \ {0}
    BY <1>3, <1>4
  <2>2. Len(frames[t]) - 1 \in Nat /\ Len(frames[t]) = (Len(frames[t]) - 1) + 1
    BY <2>1
  <2> QED BY <2>2
<1>6. /\ frames'[t] \in Seq(Frame) /\ Len(frames'[t]) = n
      /\ \A i \in 1 .. n : frames'[t][i] = frames[t][i]
      /\ \A u \in Threads \ {t} : frames'[u] = frames[u]
  BY <1>3, <1>4, <1>5 DEF Below
<1>7. PICK r : r = result[t] /\ r = frames[t][Len(frames[t])].res /\ r # 0 /\ r \in Pushes
  <2>1. frames[t][n + 1].kind = "done" /\ n + 1 \in 1 .. Len(frames[t])
    BY <1>4, <1>5
  <2>2. frames[t][n + 1].res = result[t] /\ result[t] # 0
    BY <2>1 DEF JobInv, StageInv, StageOf
  <2>3. result[t] \in Pushes
    BY <2>2, ResultRange DEF JobInv
  <2> QED BY <1>5, <2>2, <2>3
<1>8. \/ heap[r] = "deleted" /\ fault' = "deleted" /\ UNCHANGED heap
      \/ heap' = [heap EXCEPT ![r] = "deleted"] /\ UNCHANGED fault
  BY <1>7 DEF DoneReturns, Delete
<1>9. heap'[r] = "deleted" /\ \A q \in Pushes \ {r} : heap'[q] = heap[q]
  BY <1>3, <1>7, <1>8
<1>10. ~First(t, "work") /\ ~First(t, "work")'
  <2>1. ~First(t, "work")
    BY <1>4, <1>5 DEF First, JobInv, StageInv, StageOf
  <2>2. 1 \in 1 .. n => frames'[t][1] = frames[t][1]
    BY <1>6
  <2>3. frames'[t] # <<>> => 1 \in 1 .. n
    BY <1>6
  <2> QED BY <1>4, <2>1, <2>2, <2>3 DEF First
<1>11. /\ \A q \in Nat, x \in Spots :
             (At(q, x)' <=> At(q, x)) /\ (ResultAt(q, x)' <=> ResultAt(q, x))
       /\ OnePlace'
  BY <1>2, <1>4, <1>10, SamePlaces DEF HeadOpen
<1>12. ASSUME NEW q, Pending(q) PROVE q # r /\ q \in Pushes /\ Pending(q)'
  <2>1. q # r /\ q \in Pushes
    BY <1>4, <1>7, <1>12, PendingFacts DEF Pending, JobInv
  <2> QED BY <1>4, <1>6, <1>7, <1>12, <2>1 DEF Pending
<1>13. TokenInv'
  <2>1. \A q \in Nat, x \in Spots : At(q, x)' => Pending(q) /\ Pending(q)'
    BY <1>11, <1>12 DEF JobInv, RestInv, TokenInv
  <2>2. ASSUME NEW q \in Nat, NEW x \in Spots, ResultAt(q, x)'
        PROVE  jobs'[q].home = x.t /\ (jobs'[q].id # 0 => heap'[q] = "live")
    <3>1. ResultAt(q, x) /\ Pending(q)
      BY <1>11, <2>1, <2>2 DEF ResultAt
    <3>2. q \in Pushes \ {r}
      BY <1>12, <3>1
    <3> QED BY <1>4, <1>9, <3>1, <3>2 DEF JobInv, RestInv, TokenInv
  <2> QED BY <2>1, <2>2 DEF TokenInv
<1>14. ReplyInv'
  <2> SUFFICES ASSUME NEW u \in Threads, at[u] = "reply" PROVE ReplyOf(u)'
    BY <1>4 DEF ReplyInv, ReplyOf
  <2>1. PICK q : q = batch[u][1].p /\ Pending(q)
    BY ReplyHead
  <2>2. heap'[q] = heap[q]
    BY <1>9, <1>12, <2>1
  <2> QED BY <1>4, <2>1, <2>2 DEF JobInv, RestInv, ReplyInv, ReplyOf
<1>15. SavedInv' /\ NameInv' /\ CallbackOfPush'
  BY <1>4 DEF JobInv, RestInv, SavedInv, NameInv, Pushed, CallbackOfPush
<1>16. KeptInv'
  <2> SUFFICES ASSUME NEW q \in Pushes, heap'[q] = "live"
               PROVE  /\ q \in 1 .. Len(jobs') /\ jobs'[q].id # 0
                      /\ (\E x \in Spots : ResultAt(q, x)') \/ (\E u \in Threads : Owns(u, q)')
    BY DEF KeptInv
  <2>1. q # r /\ heap[q] = "live"
    BY <1>9
  <2>2. /\ q \in 1 .. Len(jobs) /\ jobs[q].id # 0 /\ q \in Nat
        /\ (\E x \in Spots : ResultAt(q, x)) \/ (\E u \in Threads : Owns(u, q))
    BY <2>1 DEF JobInv, RestInv, KeptInv, Pushes
  <2>3. ASSUME NEW u \in Threads, Owns(u, q) PROVE Owns(u, q)'
    <3>1. u # t
      BY <1>7, <2>1, <2>3 DEF Owns
    <3> QED BY <1>2, <2>3, <3>1, AlikeOwns DEF JobInv
  <2>4. (\E x \in Spots : ResultAt(q, x)') \/ (\E u \in Threads : Owns(u, q)')
    BY <1>11, <2>2, <2>3
  <2> QED BY <1>4, <2>2, <2>4
<1>17. \A u \in Threads : frames'[u] # <<>> => frames[u] # <<>>
  BY <1>4, <1>6
<1>18. OwnerInv'
  BY <1>4, <1>17 DEF JobInv, RestInv, OwnerInv
<1>19. FaultInv'
  <2>1. TurnedAway' <=> TurnedAway
    BY <1>4 DEF TurnedAway
  <2>2. ASSUME NEW u \in Threads, frames'[u] # <<>>, result[u] # 0,
               Len(frames'[u]) > 1 \/ heap'[result[u]] = "deleted"
        PROVE  TurnedAway
    <3>1. CASE u = t
      <4>1. n # 0
        BY <1>6, <2>2, <3>1
      <4>2. Len(frames[t]) > 1
        BY <1>5, <4>1
      <4> QED BY <1>4, <2>2, <3>1, <4>2 DEF JobInv, RestInv, FaultInv
    <3>2. CASE u # t
      <4>1. frames'[u] = frames[u]
        BY <1>6, <3>2
      <4>2. result[u] # r
        BY <1>4, <1>7, <2>2, <3>2, <4>1 DEF JobInv, RestInv, OwnerInv
      <4>3. result[u] \in Pushes
        BY <2>2, ResultRange DEF JobInv
      <4>4. heap'[result[u]] = heap[result[u]]
        BY <1>9, <4>2, <4>3
      <4> QED BY <2>2, <4>1, <4>4 DEF JobInv, RestInv, FaultInv
    <3> QED BY <3>1, <3>2
  <2>3. fault' \in {"null", "deleted"} => TurnedAway
    BY <1>4, <1>7, <1>8 DEF JobInv, RestInv, FaultInv
  <2> QED BY <1>4, <2>1, <2>2, <2>3 DEF FaultInv
<1> QED
  BY <1>11, <1>13, <1>14, <1>15, <1>16, <1>18, <1>19 DEF RestInv

-----------------------------------------------------------------------------
(* The steps in which a push comes to its end: it is turned away, its      *)
(* result is, or its result has arrived.                                   *)

\* What the three have in common.  r is the result that the thread has then.
Ending(t, p, r) ==
    /\ Pending(p) /\ RunDone(t, p, r)
    /\ result' = [result EXCEPT ![t] = r] /\ at'[t] = "user"
    /\ UNCHANGED <<mailbox, batch, saved, cache>>

EndsAtPush(t, p, r) ==
    /\ at[t] = "push" /\ p = arg[t] /\ r = result[t]
    /\ jobs' = [jobs EXCEPT ![p].turned = "push"]

\* With the node's own result, if there is to be one.
EndsAtHead(t, p, r) ==
    /\ at[t] \in {"batch", "reply"} /\ p = batch[t][1].p /\ batch[t][1].kind # "stop"
    /\ IF jobs[p].id = 0 THEN r = 0 ELSE r = p /\ p \in Live
    /\ \/ at[t] = "reply" /\ jobs' = [jobs EXCEPT ![p].turned = "reply"]
       \/ at[t] = "batch" /\ jobs[p].home = t /\ UNCHANGED jobs

\* The push is gone, all others stay where they are.
LEMMA EndingPlaces ==
  ASSUME IInv, JobInv, NEW t \in Threads, NEW p, NEW r, Ending(t, p, r),
         \A u \in Threads \ {t} : Alike(u), EndsAtPush(t, p, r) \/ EndsAtHead(t, p, r)
  PROVE  /\ \A q \in Nat, x \in Spots :
               /\ At(q, x)' => At(q, x) /\ q # p
               /\ ResultAt(q, x)' => ResultAt(q, x)
               /\ ResultAt(q, x) /\ q # p => ResultAt(q, x)'
         /\ at[t] = "push" => frames[t] # <<>>
         /\ at[t] # "push" => frames[t] = <<>>
<1>1. /\ StageOf(t) /\ frames \in [Threads -> Seq(Frame)] /\ p \in Nat
      /\ UNCHANGED <<mailbox, batch>> /\ at'[t] = "user"
  BY PendingFacts DEF JobInv, JobType, StageInv, Ending
<1>2. \/ UNCHANGED frames
      \/ /\ Len(frames'[t]) = Len(frames[t]) + 1 /\ frames'[t] # <<>>
         /\ \A i \in 1 .. Len(frames[t]) : frames'[t][i] = frames[t][i]
         /\ frames'[t][Len(frames[t]) + 1].kind = "done"
  BY RunDoneFrames DEF JobInv, Ending
<1>3. ASSUME NEW x0 \in Spots, At(p, x0), \A q : ~At(q, x0)',
             \A q \in Nat, x \in Spots \ {x0} :
                (At(q, x)' <=> At(q, x)) /\ (ResultAt(q, x)' <=> ResultAt(q, x))
      PROVE  \A q \in Nat, x \in Spots :
                /\ At(q, x)' => At(q, x) /\ q # p
                /\ ResultAt(q, x)' => ResultAt(q, x)
                /\ ResultAt(q, x) /\ q # p => ResultAt(q, x)'
  <2>1. ASSUME NEW q \in Nat, NEW x \in Spots, At(q, x)' PROVE At(q, x) /\ q # p
    <3>1. x # x0 /\ At(q, x)
      BY <1>3, <2>1
    <3>2. q # p
      BY <1>1, <1>3, <3>1 DEF JobInv, RestInv, OnePlace
    <3> QED BY <3>1, <3>2
  <2>2. ASSUME NEW q \in Nat, NEW x \in Spots, ResultAt(q, x)' PROVE ResultAt(q, x)
    <3>1. x # x0
      BY <1>3, <2>2 DEF ResultAt
    <3> QED BY <1>3, <2>2, <3>1
  <2>3. ASSUME NEW q \in Nat, NEW x \in Spots, ResultAt(q, x), q # p PROVE ResultAt(q, x)'
    <3>1. x # x0
      <4>1. \A a, b : At(a, x0) /\ At(b, x0) => a = b
        BY DEF At
      <4> QED BY <1>3, <2>3, <4>1 DEF ResultAt
    <3> QED BY <1>3, <2>3, <3>1
  <2> QED BY <2>1, <2>2, <2>3
<1>4. ASSUME NEW q \in Nat, NEW x \in Spots, x.kind = "mail" \/ x.t # t
      PROVE  (At(q, x)' <=> At(q, x)) /\ (ResultAt(q, x)' <=> ResultAt(q, x))
  <2>1. x.t \in Threads
    BY DEF Spots
  <2>2. CASE x.kind = "mail"
    BY <1>1, <2>2, SameMail
  <2>3. CASE x.kind # "mail"
    BY <1>4, <2>1, <2>3, AlikeAt DEF Ending, JobInv
  <2> QED BY <2>2, <2>3
<1>5. CASE EndsAtPush(t, p, r)
  <2>1. at[t] = "push" /\ p = arg[t] /\ frames[t] # <<>>
    BY <1>1, <1>5 DEF EndsAtPush, StageOf
  <2>2. PushSpot(t) \in Spots /\ At(p, PushSpot(t)) /\ \A q : ~At(q, PushSpot(t))'
    <3>1. PushSpot(t) \in Spots
      BY SpotFacts
    <3>2. At(p, PushSpot(t)) /\ \A q : ~At(q, PushSpot(t))'
      BY <1>1, <2>1 DEF At, PushSpot
    <3> QED BY <3>1, <3>2
  <2>3. frames'[t] # <<>> /\ frames'[t][1] = frames[t][1]
    <3>1. 1 \in 1 .. Len(frames[t])
      BY <1>1, <2>1
    <3> QED BY <1>2, <2>1, <3>1
  <2>4. HeadOpen(t)' <=> HeadOpen(t)
    BY <1>1, <2>1, <2>3 DEF HeadOpen, First
  <2>5. ASSUME NEW q \in Nat, NEW x \in Spots \ {PushSpot(t)}
        PROVE  (At(q, x)' <=> At(q, x)) /\ (ResultAt(q, x)' <=> ResultAt(q, x))
    <3>1. CASE x.kind = "mail" \/ x.t # t
      BY <1>4, <3>1
    <3>2. CASE x.kind = "push" /\ x.t = t
      <4>1. x.i # 0
        BY <3>2, SpotFacts
      <4> QED BY <3>2, <4>1 DEF At, ResultAt
    <3>3. CASE x.kind = "batch" /\ x.t = t
      BY <1>1, <2>4, <3>3 DEF At, ResultAt
    <3> QED BY <3>1, <3>2, <3>3 DEF Spots
  <2> QED BY <1>3, <2>1, <2>2, <2>5
<1>6. CASE EndsAtHead(t, p, r)
  <2>1. /\ at[t] \in {"batch", "reply"} /\ p = batch[t][1].p /\ batch[t] # <<>>
        /\ batch[t][1].kind # "stop" /\ frames[t] = <<>>
    BY <1>1, <1>6 DEF EndsAtHead, StageOf, LuaStages
  <2>2. HeadSpot(t) \in Spots /\ At(p, HeadSpot(t))
    BY <2>1, AtTheHead DEF HeadOpen, JobInv, RestInv
  <2>3. ~HeadOpen(t)'
    <3>1. frames'[t] # <<>> => frames'[t][1].kind = "done"
      BY <1>2, <2>1
    <3> QED BY <1>1, <3>1 DEF HeadOpen, First
  <2>4. \A q : ~At(q, HeadSpot(t))'
    BY <2>3 DEF At, HeadSpot
  <2>5. ASSUME NEW q \in Nat, NEW x \in Spots \ {HeadSpot(t)}
        PROVE  (At(q, x)' <=> At(q, x)) /\ (ResultAt(q, x)' <=> ResultAt(q, x))
    <3>1. CASE x.kind = "mail" \/ x.t # t
      BY <1>4, <3>1
    <3>2. CASE x.kind = "push" /\ x.t = t
      BY <1>1, <2>1, <3>2 DEF At, ResultAt
    <3>3. CASE x.kind = "batch" /\ x.t = t
      <4>1. x.i # 1
        BY <3>3, SpotFacts
      <4>2. x.i \in 1 .. Len(batch[t]) => x.i > 1
        BY <4>1
      <4> QED BY <1>1, <3>3, <4>2 DEF At, ResultAt
    <3> QED BY <3>1, <3>2, <3>3 DEF Spots
  <2> QED BY <1>3, <2>1, <2>2, <2>4, <2>5
<1> QED BY <1>5, <1>6

\* What a push that ends changes about jobs and their results.
LEMMA EndingJobs ==
  ASSUME IInv, JobInv, NEW t \in Threads, NEW p, NEW r, Ending(t, p, r),
         EndsAtPush(t, p, r) \/ EndsAtHead(t, p, r)
  PROVE  /\ Len(jobs') = Len(jobs)
         /\ \A q \in 1 .. Len(jobs) :
               /\ jobs'[q].home = jobs[q].home /\ jobs'[q].id = jobs[q].id
               /\ jobs'[q].name = jobs[q].name /\ jobs'[q].ran = jobs[q].ran
               /\ q # p => jobs'[q].turned = jobs[q].turned
         /\ EndsAtPush(t, p, r) => jobs'[p].turned = "push"
         /\ jobs'[p].turned = "no" => at[t] = "batch" /\ jobs[p].home = t
         /\ \A name, f : Pushed(name, f)' <=> Pushed(name, f)
         /\ TurnedAway => TurnedAway'
<1>1. jobs \in Seq(Job) /\ p \in 1 .. Len(jobs) /\ jobs[p] \in Job /\ jobs[p].turned = "no"
  BY PendingFacts DEF JobInv, JobType, Ending, Pending
<1>2. CASE UNCHANGED jobs
  <2>1. EndsAtHead(t, p, r) /\ at[t] = "batch" /\ jobs[p].home = t
    <3>1. ASSUME NEW why \in {"push", "reply"}, jobs' = [jobs EXCEPT ![p].turned = why]
          PROVE  FALSE
      <4>1. jobs'[p].turned = why
        BY <1>1, <3>1 DEF Job
      <4> QED BY <1>1, <1>2, <4>1
    <3> QED BY <3>1 DEF EndsAtPush, EndsAtHead
  <2>2. ~EndsAtPush(t, p, r)
    BY <2>1 DEF EndsAtPush
  <2> QED BY <1>2, <2>1, <2>2 DEF Pushed, TurnedAway
<1>3. ASSUME NEW why \in {"push", "reply"}, jobs' = [jobs EXCEPT ![p].turned = why],
             EndsAtPush(t, p, r) => why = "push"
      PROVE  /\ Len(jobs') = Len(jobs)
             /\ \A q \in 1 .. Len(jobs) :
                   /\ jobs'[q].home = jobs[q].home /\ jobs'[q].id = jobs[q].id
                   /\ jobs'[q].name = jobs[q].name /\ jobs'[q].ran = jobs[q].ran
                   /\ q # p => jobs'[q].turned = jobs[q].turned
             /\ EndsAtPush(t, p, r) => jobs'[p].turned = "push"
             /\ jobs'[p].turned # "no"
             /\ \A name, f : Pushed(name, f)' <=> Pushed(name, f)
             /\ TurnedAway => TurnedAway'
  <2>1. PICK j : j = [jobs[p] EXCEPT !.turned = why]
    OBVIOUS
  <2>2. /\ j.home = jobs[p].home /\ j.name = jobs[p].name /\ j.fn = jobs[p].fn
        /\ j.id = jobs[p].id /\ j.ran = jobs[p].ran /\ j.turned = why
    BY <1>1, <2>1 DEF Job
  <2>3. jobs' = [jobs EXCEPT ![p] = j]
    BY <1>3, <2>1
  <2>4. /\ Len(jobs') = Len(jobs) /\ jobs'[p] = j
        /\ \A q \in 1 .. Len(jobs) \ {p} : jobs'[q] = jobs[q]
        /\ \A q \in 1 .. Len(jobs) :
              /\ jobs'[q].home = jobs[q].home /\ jobs'[q].id = jobs[q].id
              /\ jobs'[q].name = jobs[q].name /\ jobs'[q].fn = jobs[q].fn
        /\ \A name, f : Pushed(name, f)' <=> Pushed(name, f)
    BY <1>1, <2>2, <2>3, OtherFields
  <2>5. TurnedAway => TurnedAway'
    BY <1>1, <2>4 DEF TurnedAway
  <2> QED BY <1>3, <2>2, <2>4, <2>5
<1>4. CASE EndsAtPush(t, p, r)
  <2>1. jobs' = [jobs EXCEPT ![p].turned = "push"]
    BY <1>4 DEF EndsAtPush
  <2> QED BY <1>3, <2>1
<1>5. CASE EndsAtHead(t, p, r) /\ ~EndsAtPush(t, p, r)
  <2>1. UNCHANGED jobs \/ jobs' = [jobs EXCEPT ![p].turned = "reply"]
    BY <1>5 DEF EndsAtHead
  <2>2. CASE jobs' = [jobs EXCEPT ![p].turned = "reply"]
    BY <1>3, <1>5, <2>2
  <2> QED BY <1>2, <2>1, <2>2
<1> QED BY <1>4, <1>5

\* What RunDone does, by whether the result is there.
LEMMA RunDoneEffect ==
  ASSUME JobInv, NEW t \in Threads, NEW p, NEW r, Pending(p), RunDone(t, p, r)
  PROVE  /\ \A u \in Threads \ {t} : frames'[u] = frames[u]
         /\ \/ UNCHANGED frames
            \/ /\ r \in Live /\ jobs[p].id # 0 /\ UNCHANGED heap
               /\ frames'[t] # <<>> /\ Len(frames'[t]) = Len(frames[t]) + 1
         /\ \A q \in Pushes :
               heap'[q] = heap[q] \/ (q = r /\ heap'[q] = "deleted" /\ r \in Live /\ jobs[p].id # 0)
         /\ jobs[p].id # 0 /\ r \in Live => frames'[t] # <<>> \/ heap'[r] # "live"
         /\ \A i \in DOMAIN calls : i \in DOMAIN calls' /\ calls'[i] = calls[i]
         /\ \A i \in DOMAIN calls' \ DOMAIN calls :
               /\ calls'[i].p = p /\ calls'[i].on = t
               /\ calls'[i].cb = DoneFn(t, p) /\ calls'[i].res = r
               /\ jobs[p].id # 0
         /\ \A i, k \in DOMAIN calls' \ DOMAIN calls : i = k
         /\ UNCHANGED fault \/ (jobs[p].id # 0 /\ r \notin Live)
         /\ jobs[p].id = 0 => UNCHANGED <<frames, heap, calls, fault>>
<1>1. /\ frames \in [Threads -> Seq(Frame)] /\ heap \in [Pushes -> {"none", "live", "deleted"}]
      /\ Live \subseteq Pushes /\ calls \in Seq(Call)
  BY DEF JobInv, JobType, Live
<1>2. CASE jobs[p].id = 0
  BY <1>2 DEF RunDone
<1>3. CASE jobs[p].id # 0 /\ r \notin Live
  BY <1>3 DEF RunDone
<1>4. CASE /\ jobs[p].id # 0 /\ r \in Live /\ UNCHANGED <<heap, fault>>
           /\ frames' = [frames EXCEPT ![t] = Append(@, [kind |-> "done", p |-> p, res |-> r])]
           /\ calls' = Append(calls, [p |-> p, on |-> t, cb |-> DoneFn(t, p), res |-> r])
  <2>1. PICK f : f = [kind |-> "done", p |-> p, res |-> r]
    OBVIOUS
  <2>2. f \in Frame
    <3>1. r \in 0 .. MaxPushes
      BY <1>1, <1>4, BoundsAssumption DEF Pushes
    <3> QED BY <2>1, <3>1, PendingFacts DEF Frame, JobInv
  <2>3. frames' = [frames EXCEPT ![t] = Append(@, f)]
    BY <1>4, <2>1
  <2>4. frames'[t] # <<>> /\ Len(frames'[t]) = Len(frames[t]) + 1
        /\ \A u \in Threads \ {t} : frames'[u] = frames[u]
    BY <1>1, <2>2, <2>3
  <2>5. PICK c : c = [p |-> p, on |-> t, cb |-> DoneFn(t, p), res |-> r]
    OBVIOUS
  <2>6. c.p = p /\ c.on = t /\ c.cb = DoneFn(t, p) /\ c.res = r /\ calls' = Append(calls, c)
    BY <1>4, <2>5
  <2>7. PICK n \in Nat : n = Len(calls)
    BY <1>1
  <2>8. DOMAIN calls = 1 .. n /\ DOMAIN calls' = 1 .. n + 1 /\ calls'[n + 1] = c
        /\ \A i \in 1 .. n : calls'[i] = calls[i]
    BY <1>1, <2>6, <2>7
  <2>9. \A i \in DOMAIN calls' \ DOMAIN calls : i = n + 1
    BY <2>8
  <2> QED BY <1>4, <2>4, <2>6, <2>8, <2>9
<1>5. CASE /\ jobs[p].id # 0 /\ r \in Live /\ UNCHANGED <<frames, calls, fault>>
           /\ heap' = [heap EXCEPT ![r] = "deleted"]
  BY <1>1, <1>5
<1> QED BY <1>2, <1>3, <1>4, <1>5 DEF RunDone, Delete

\* No other push that is still pending is the one whose result is used here.
LEMMA EndingPending ==
  ASSUME IInv, JobInv, NEW t \in Threads, NEW p, NEW r \in Nat, Ending(t, p, r),
         \A u \in Threads \ {t} : Alike(u), EndsAtPush(t, p, r) \/ EndsAtHead(t, p, r),
         NEW q, Pending(q), q # p
  PROVE  q # r /\ Pending(q)' /\ q \in Pushes /\ heap'[q] = heap[q]
<1>1. q \in Nat \ {0} /\ q \in Pushes /\ q \in 1 .. Len(jobs)
  BY PendingFacts DEF JobInv, Pending
<1>2. q # r
  <2>1. CASE EndsAtPush(t, p, r)
    <3>1. frames[t] # <<>> /\ r = result[t]
      BY <2>1, EndingPlaces DEF EndsAtPush
    <3> QED BY <3>1 DEF Pending
  <2>2. CASE EndsAtHead(t, p, r)
    BY <1>1, <2>2 DEF EndsAtHead
  <2> QED BY <2>1, <2>2
<1>3. /\ \A u \in Threads \ {t} : frames'[u] = frames[u] /\ result'[u] = result[u]
      /\ result'[t] = r
  BY DEF Alike, Ending, JobInv, JobType
<1>4. Len(jobs') = Len(jobs) /\ jobs'[q].turned = jobs[q].turned
  BY <1>1, EndingJobs
<1>5. Pending(p) /\ RunDone(t, p, r)
  BY DEF Ending
<1>6. /\ heap'[q] = heap[q]
      /\ \A i \in DOMAIN calls' :
            (i \in DOMAIN calls /\ calls'[i] = calls[i]) \/ calls'[i].p = p
  BY <1>1, <1>2, <1>5, RunDoneEffect
<1>7. \A u \in Threads : result'[u] = q => frames'[u] = <<>>
  BY <1>2, <1>3 DEF Pending
<1>8. \A i \in DOMAIN calls' : calls'[i].p # q
  BY <1>6 DEF Pending
<1> QED BY <1>1, <1>2, <1>4, <1>6, <1>7, <1>8 DEF Pending

\* Who answers another push does so undisturbed.
LEMMA EndingReply ==
  ASSUME IInv, JobInv, NEW t \in Threads, NEW p, NEW r \in Nat, Ending(t, p, r),
         \A u \in Threads \ {t} : Alike(u), EndsAtPush(t, p, r) \/ EndsAtHead(t, p, r)
  PROVE  ReplyInv'
<1> SUFFICES ASSUME NEW u \in Threads, at'[u] = "reply" PROVE ReplyOf(u)'
  BY DEF ReplyInv, ReplyOf
<1>1. u # t
  BY DEF Ending
<1>2. at[u] = "reply" /\ batch'[u] = batch[u] /\ result'[u] = result[u]
  BY <1>1, AlikeStage DEF Alike, JobInv, StageInv
<1>3. PICK q : q = batch[u][1].p
  OBVIOUS
<1>4. q \in Nat /\ Pending(q) /\ At(q, HeadSpot(u)) /\ HeadSpot(u) \in Spots
  BY <1>2, <1>3, ReplyHead
<1>5. HeadSpot(u).t = u /\ HeadSpot(u).kind # "mail"
  BY DEF HeadSpot
<1>6. At(q, HeadSpot(u))'
  BY <1>1, <1>4, <1>5, AlikeAt DEF JobInv
<1>7. q # p
  BY <1>4, <1>6, EndingPlaces
<1>8. heap'[q] = heap[q]
  BY <1>4, <1>7, EndingPending
<1>9. jobs'[q].id = jobs[q].id
  BY <1>4, EndingJobs DEF Pending
<1> QED BY <1>2, <1>3, <1>8, <1>9 DEF JobInv, RestInv, ReplyInv, ReplyOf

\* The function called is the one of the push, if that has not been turned away.
LEMMA EndingCalls ==
  ASSUME IInv, JobInv, NEW t \in Threads, NEW p, NEW r \in Nat, Ending(t, p, r),
         EndsAtPush(t, p, r) \/ EndsAtHead(t, p, r)
  PROVE  CallbackOfPush'
<1>1. Pending(p) /\ RunDone(t, p, r) /\ p \in 1 .. Len(jobs) /\ p \in Nat
  BY PendingFacts DEF Ending, Pending, JobInv
<1>2. \A i \in DOMAIN calls : calls[i].p # p /\ calls[i].p \in 1 .. Len(jobs)
  BY <1>1 DEF Pending, JobInv, JobType
<1>3. /\ \A i \in DOMAIN calls : i \in DOMAIN calls' /\ calls'[i] = calls[i]
      /\ \A i \in DOMAIN calls' \ DOMAIN calls :
            /\ calls'[i].p = p /\ calls'[i].on = t
            /\ calls'[i].cb = DoneFn(t, p) /\ calls'[i].res = r
            /\ jobs[p].id # 0
      /\ \A i, k \in DOMAIN calls' \ DOMAIN calls : i = k
  BY <1>1, RunDoneEffect
<1>4. ASSUME NEW i \in DOMAIN calls', NEW k \in DOMAIN calls', calls'[k].p = calls'[i].p
      PROVE  k = i
  <2>1. CASE i \in DOMAIN calls /\ k \in DOMAIN calls
    BY <1>3, <1>4, <2>1 DEF JobInv, RestInv, CallbackOfPush
  <2>2. CASE i \notin DOMAIN calls /\ k \notin DOMAIN calls
    BY <1>3, <2>2
  <2> QED BY <1>2, <1>3, <1>4, <2>1, <2>2
<1>5. ASSUME NEW i \in DOMAIN calls', jobs'[calls'[i].p].turned = "no"
      PROVE  /\ calls'[i].on = jobs'[calls'[i].p].home
             /\ calls'[i].cb = calls'[i].p /\ calls'[i].res = calls'[i].p
  <2>1. CASE i \in DOMAIN calls
    <3>1. calls'[i] = calls[i] /\ calls[i].p \in 1 .. Len(jobs)
      BY <1>2, <1>3, <2>1
    <3>2. /\ jobs'[calls[i].p].home = jobs[calls[i].p].home
          /\ jobs'[calls[i].p].turned = jobs[calls[i].p].turned
      BY <1>2, <2>1, <3>1, EndingJobs
    <3> QED BY <1>5, <2>1, <3>1, <3>2 DEF JobInv, RestInv, CallbackOfPush
  <2>2. CASE i \notin DOMAIN calls
    <3>1. /\ calls'[i].p = p /\ calls'[i].on = t /\ calls'[i].cb = DoneFn(t, p)
          /\ calls'[i].res = r /\ jobs[p].id # 0
      BY <1>3, <2>2
    <3>2. jobs[p].home = t /\ ~EndsAtPush(t, p, r) /\ jobs'[p].home = jobs[p].home
      BY <1>1, <1>5, <3>1, EndingJobs
    <3>3. r = p
      BY <3>1, <3>2 DEF EndsAtHead
    <3>4. jobs[p].id \in 1 .. Len(saved[t]) /\ saved[t][jobs[p].id] = p
      BY <1>1, <3>1, <3>2 DEF JobInv, RestInv, SavedInv
    <3>5. DOMAIN saved[t] = 1 .. Len(saved[t])
      BY DEF JobInv, JobType
    <3>6. DoneFn(t, p) = p
      BY <3>4, <3>5 DEF DoneFn
    <3> QED BY <3>1, <3>2, <3>3, <3>6
  <2> QED BY <2>1, <2>2
<1> QED BY <1>4, <1>5 DEF CallbackOfPush

\* The string of the push that ends goes to its function, or is deleted.
LEMMA EndingKept ==
  ASSUME IInv, JobInv, NEW t \in Threads, NEW p, NEW r \in Nat, Ending(t, p, r),
         \A u \in Threads \ {t} : Alike(u), EndsAtPush(t, p, r) \/ EndsAtHead(t, p, r)
  PROVE  KeptInv'
<1> SUFFICES ASSUME NEW q \in Pushes, heap'[q] = "live"
             PROVE  /\ q \in 1 .. Len(jobs') /\ jobs'[q].id # 0
                    /\ (\E x \in Spots : ResultAt(q, x)') \/ (\E u \in Threads : Owns(u, q)')
  BY DEF KeptInv
<1>1. Pending(p) /\ RunDone(t, p, r) /\ p \in Nat \ {0} /\ q \in Nat \ {0}
  BY PendingFacts DEF Ending, JobInv, Pushes
<1>2. heap[q] = "live"
  BY <1>1, RunDoneEffect
<1>3. /\ q \in 1 .. Len(jobs) /\ jobs[q].id # 0
      /\ (\E x \in Spots : ResultAt(q, x)) \/ (\E u \in Threads : Owns(u, q))
  BY <1>2 DEF JobInv, RestInv, KeptInv
<1>4. q \in 1 .. Len(jobs') /\ jobs'[q].id # 0
  BY <1>3, EndingJobs
<1>5. result'[t] = r /\ (frames[t] # <<>> => frames'[t] # <<>>)
  <2>1. result'[t] = r
    BY DEF Ending, JobInv, JobType
  <2>2. UNCHANGED frames \/ frames'[t] # <<>>
    BY <1>1, RunDoneEffect
  <2> QED BY <2>1, <2>2
<1>6. ASSUME q # p, NEW x \in Spots, ResultAt(q, x) PROVE ResultAt(q, x)'
  BY <1>1, <1>6, EndingPlaces
<1>7. ASSUME q # p, NEW u \in Threads, Owns(u, q) PROVE Owns(u, q)'
  <2>1. CASE u # t
    BY <1>7, <2>1, AlikeOwns DEF JobInv
  <2>2. CASE u = t /\ frames[t] # <<>>
    <3>1. at[t] = "push"
      BY <2>2, EndingPlaces
    <3>2. r = result[t]
      BY <3>1 DEF EndsAtPush, EndsAtHead
    <3> QED BY <1>5, <1>7, <2>2, <3>2 DEF Owns
  <2>3. CASE u = t /\ frames[t] = <<>>
    <3>1. at[t] = "reply" /\ result[t] = q
      BY <1>7, <2>3 DEF Owns
    <3>2. p = batch[t][1].p
      BY <3>1 DEF EndsAtPush, EndsAtHead
    <3> QED BY <1>1, <1>7, <3>1, <3>2 DEF JobInv, RestInv, ReplyInv, ReplyOf
  <2> QED BY <2>1, <2>2, <2>3
<1>8. CASE q # p
  BY <1>3, <1>4, <1>6, <1>7, <1>8
<1>9. CASE q = p /\ EndsAtHead(t, p, r)
  <2>1. r = p /\ r \in Live /\ jobs[p].id # 0
    BY <1>3, <1>9 DEF EndsAtHead
  <2>2. frames'[t] # <<>>
    BY <1>1, <1>9, <2>1, RunDoneEffect
  <2>3. Owns(t, q)'
    BY <1>5, <1>9, <2>1, <2>2 DEF Owns
  <2> QED BY <1>4, <2>3
<1>10. CASE q = p /\ EndsAtPush(t, p, r)
  <2>1. PushSpot(t) \in Spots /\ PushSpot(t).kind = "push" /\ At(p, PushSpot(t))
    <3>1. PushSpot(t) \in Spots /\ PushSpot(t).kind = "push"
      BY SpotFacts
    <3>2. At(p, PushSpot(t))
      BY <1>10 DEF At, PushSpot, EndsAtPush
    <3> QED BY <3>1, <3>2
  <2>2. \A x \in Spots : At(p, x) => x.kind = "push"
    BY <1>1, <2>1 DEF JobInv, RestInv, OnePlace
  <2>3. \A x \in Spots : ~ResultAt(p, x)
    BY <2>2 DEF ResultAt
  <2>4. ASSUME NEW u \in Threads, Owns(u, p) PROVE FALSE
    <3>1. result[u] = p /\ at[u] = "reply"
      BY <1>1, <2>4 DEF Owns, Pending
    <3>2. batch[u][1].p = p
      BY <1>1, <3>1 DEF JobInv, RestInv, ReplyInv, ReplyOf
    <3>3. At(p, HeadSpot(u)) /\ HeadSpot(u) \in Spots /\ HeadSpot(u).kind = "batch"
      BY <3>1, <3>2, ReplyHead DEF HeadSpot
    <3> QED BY <2>2, <3>3
  <2> QED BY <1>3, <1>10, <2>3, <2>4
<1> QED BY <1>8, <1>9, <1>10

\* The string is the function's alone, and there as long as nothing was turned away.
LEMMA EndingFaults ==
  ASSUME IInv, JobInv, NEW t \in Threads, NEW p, NEW r \in Nat, Ending(t, p, r),
         \A u \in Threads \ {t} : Alike(u), EndsAtPush(t, p, r) \/ EndsAtHead(t, p, r),
         fault = "none"
  PROVE  OwnerInv' /\ FaultInv'
<1>1. Pending(p) /\ RunDone(t, p, r) /\ p \in Nat \ {0} /\ p \in 1 .. Len(jobs)
  BY PendingFacts DEF Ending, JobInv, Pending
<1>2. /\ \A u \in Threads \ {t} : frames'[u] = frames[u] /\ result'[u] = result[u]
      /\ result'[t] = r /\ result \in [Threads -> Nat] /\ frames \in [Threads -> Seq(Frame)]
  BY DEF Alike, Ending, JobInv, JobType
<1>3. /\ at[t] = "push" => frames[t] # <<>>
      /\ at[t] # "push" => frames[t] = <<>>
  BY EndingPlaces
<1>4. EndsAtPush(t, p, r) => at[t] = "push" /\ r = result[t] /\ frames[t] # <<>>
  BY <1>3 DEF EndsAtPush
<1>5. EndsAtHead(t, p, r) => frames[t] = <<>> /\ (r = 0 \/ r = p)
  BY <1>3 DEF EndsAtHead
<1>6. ASSUME NEW u \in Threads \ {t}, frames[u] # <<>>, r # 0 PROVE result[u] # r
  <2>1. CASE EndsAtPush(t, p, r)
    BY <1>4, <1>6, <2>1 DEF JobInv, RestInv, OwnerInv
  <2>2. CASE EndsAtHead(t, p, r)
    BY <1>1, <1>5, <1>6, <2>2 DEF Pending
  <2> QED BY <2>1, <2>2
<1>7. OwnerInv'
  <2> SUFFICES ASSUME NEW v \in Threads, NEW u \in Threads, frames'[v] # <<>>,
                      frames'[u] # <<>>, result'[v] = result'[u], result'[v] # 0, u # v
               PROVE  FALSE
    BY DEF OwnerInv
  <2>1. CASE v # t /\ u # t
    BY <1>2, <2>1 DEF JobInv, RestInv, OwnerInv
  <2>2. CASE v = t \/ u = t
    BY <1>2, <1>6, <2>2
  <2> QED BY <2>1, <2>2
<1>8. TurnedAway => TurnedAway'
  BY EndingJobs
<1>9. UNCHANGED fault \/ (jobs[p].id # 0 /\ r \notin Live)
  BY <1>1, RunDoneEffect
<1>10. CASE EndsAtPush(t, p, r) /\ jobs[p].id # 0
  <2>1. p \in 1 .. Len(jobs') /\ jobs'[p].turned = "push" /\ jobs'[p].id # 0
    BY <1>1, <1>10, EndingJobs
  <2>2. TurnedAway'
    BY <2>1 DEF TurnedAway
  <2> QED BY <1>7, <2>2 DEF FaultInv
<1>11. CASE EndsAtPush(t, p, r) /\ jobs[p].id = 0
  <2>1. UNCHANGED <<frames, heap, fault>>
    BY <1>1, <1>11, RunDoneEffect
  <2>2. \A u \in Threads : result'[u] = result[u]
    BY <1>2, <1>4, <1>11
  <2> QED BY <1>7, <1>8, <2>1, <2>2 DEF JobInv, RestInv, FaultInv
<1>12. CASE EndsAtHead(t, p, r)
  <2>1. jobs[p].id # 0 => r = p /\ r \in Live
    BY <1>12 DEF EndsAtHead
  <2>2. UNCHANGED fault
    BY <1>9, <2>1
  <2>3. ASSUME NEW u \in Threads, frames'[u] # <<>>, result'[u] # 0,
               Len(frames'[u]) > 1 \/ heap'[result'[u]] = "deleted"
        PROVE  TurnedAway
    <3>1. CASE u = t
      <4>1. Len(frames[t]) = 0 /\ frames[t] = <<>>
        BY <1>5, <1>12
      <4>2. r \in Live /\ UNCHANGED heap /\ Len(frames'[t]) = Len(frames[t]) + 1
        BY <1>1, <2>3, <3>1, <4>1, RunDoneEffect
      <4>3. heap'[result'[t]] = "live"
        BY <1>2, <4>2 DEF Live
      <4>4. Len(frames'[t]) = 1
        BY <4>1, <4>2
      <4> QED BY <2>3, <3>1, <4>3, <4>4
    <3>2. CASE u # t
      <4>1. frames[u] # <<>> /\ result[u] # 0 /\ frames'[u] = frames[u] /\ result'[u] = result[u]
        BY <1>2, <2>3, <3>2
      <4>2. result[u] \in Pushes /\ result[u] # p
        BY <1>1, <4>1, ResultRange DEF JobInv, Pending
      <4>3. heap'[result[u]] = heap[result[u]]
        <5>1. heap'[result[u]] = heap[result[u]] \/ (result[u] = r /\ jobs[p].id # 0)
          BY <1>1, <4>2, RunDoneEffect
        <5> QED BY <2>1, <4>2, <5>1
      <4> QED BY <2>3, <4>1, <4>3 DEF JobInv, RestInv, FaultInv
    <3> QED BY <3>1, <3>2
  <2>4. fault' \notin {"null", "deleted"}
    BY <2>2
  <2>5. FaultInv'
    BY <1>8, <2>3, <2>4 DEF FaultInv
  <2> QED BY <1>7, <2>5
<1> QED BY <1>10, <1>11, <1>12

LEMMA EndingStep ==
  ASSUME IInv, JobInv, JobType', NEW t \in Threads, NEW p, NEW r \in Nat, Ending(t, p, r),
         \A u \in Threads \ {t} : Alike(u), EndsAtPush(t, p, r) \/ EndsAtHead(t, p, r),
         fault = "none"
  PROVE  RestInv'
<1>1. /\ UNCHANGED <<saved, cache>> /\ Len(jobs') = Len(jobs)
      /\ \A q \in 1 .. Len(jobs) :
            /\ jobs'[q].home = jobs[q].home /\ jobs'[q].id = jobs[q].id
            /\ jobs'[q].name = jobs[q].name /\ jobs'[q].ran = jobs[q].ran
      /\ \A name, f : Pushed(name, f)' <=> Pushed(name, f)
  BY EndingJobs DEF Ending
<1>2. \A q \in Nat, x \in Spots :
         /\ At(q, x)' => At(q, x) /\ q # p
         /\ ResultAt(q, x)' => ResultAt(q, x)
  BY EndingPlaces
<1>3. OnePlace'
  BY <1>2 DEF JobInv, RestInv, OnePlace
<1>4. TokenInv'
  <2>1. ASSUME NEW q \in Nat, NEW x \in Spots, At(q, x)'
        PROVE  Pending(q) /\ q # p /\ Pending(q)' /\ heap'[q] = heap[q]
    <3>1. Pending(q) /\ q # p
      BY <1>2, <2>1 DEF JobInv, RestInv, TokenInv
    <3> QED BY <3>1, EndingPending
  <2>2. ASSUME NEW q \in Nat, NEW x \in Spots, ResultAt(q, x)'
        PROVE  jobs'[q].home = x.t /\ (jobs'[q].id # 0 => heap'[q] = "live")
    <3>1. ResultAt(q, x) /\ Pending(q) /\ heap'[q] = heap[q]
      BY <1>2, <2>1, <2>2 DEF ResultAt
    <3>2. q \in 1 .. Len(jobs)
      BY <3>1 DEF Pending
    <3> QED BY <1>1, <3>1, <3>2 DEF JobInv, RestInv, TokenInv
  <2> QED BY <2>1, <2>2 DEF TokenInv
<1>5. SavedInv'
  BY <1>1, SavedStays
<1>6. NameInv'
  <2>1. ASSUME NEW u \in Threads, NEW name \in Names
        PROVE  (cache[u][name] # None => Pushed(name, cache[u][name]))'
    <3>1. cache[u][name] # None => Pushed(name, cache[u][name])
      BY DEF JobInv, RestInv, NameInv
    <3>2. PICK v : v = cache[u][name] /\ v = cache'[u][name]
      BY <1>1
    <3>3. v # None => Pushed(name, v)'
      BY <1>1, <3>1, <3>2
    <3> QED BY <3>2, <3>3 DEF Pushed
  <2>2. ASSUME NEW q \in 1 .. Len(jobs)
        PROVE  (jobs[q].ran # None => Pushed(jobs[q].name, jobs[q].ran))'
    <3>1. jobs[q].ran # None => Pushed(jobs[q].name, jobs[q].ran)
      BY DEF JobInv, RestInv, NameInv
    <3>2. PICK name, v : name = jobs[q].name /\ v = jobs[q].ran
      OBVIOUS
    <3>3. name = jobs'[q].name /\ v = jobs'[q].ran
      BY <1>1, <3>2
    <3>4. v # None => Pushed(name, v)'
      BY <1>1, <3>1, <3>2
    <3> QED BY <3>3, <3>4 DEF Pushed
  <2> QED BY <1>1, <2>1, <2>2 DEF NameInv
<1>7. ReplyInv' /\ CallbackOfPush' /\ KeptInv'
  BY EndingReply, EndingCalls, EndingKept
<1>8. OwnerInv' /\ FaultInv'
  BY EndingFaults
<1> QED BY <1>3, <1>4, <1>5, <1>6, <1>7, <1>8 DEF RestInv

LEMMA PushRejectedStep ==
  ASSUME IInv, JobInv, JobType', NEW t \in Threads, PushRejected(t), fault = "none"
  PROVE  RestInv'
<1>1. Continues(t)
  BY DEF Continues
<1>2. \A u \in Threads \ {t} : Alike(u)
  BY <1>1, Others DEF JobInv
<1>3. PICK p, r : p = arg[t] /\ r = result[t]
  OBVIOUS
<1>4. /\ at[t] = "push" /\ at' = [at EXCEPT ![t] = "user"] /\ at \in [Threads -> Stages]
      /\ jobs' = [jobs EXCEPT ![p].turned = "push"] /\ RunDone(t, p, r)
      /\ UNCHANGED <<mailbox, batch, result, saved, cache>>
  BY <1>3 DEF PushRejected, IInv, WriterType
<1>5. r \in Nat /\ result' = [result EXCEPT ![t] = r]
  BY <1>3, <1>4 DEF JobInv, JobType
<1>6. Pending(p)
  BY <1>3, <1>4, OnItsWay DEF IInv, JobInv, RestInv
<1>7. Ending(t, p, r)
  BY <1>4, <1>5, <1>6 DEF Ending
<1>8. EndsAtPush(t, p, r)
  BY <1>3, <1>4 DEF EndsAtPush
<1> QED BY <1>2, <1>5, <1>7, <1>8, EndingStep

LEMMA ReplyRejectedStep ==
  ASSUME IInv, JobInv, JobType', NEW t \in Threads, ReplyRejected(t), fault = "none"
  PROVE  RestInv'
<1>1. Continues(t)
  BY DEF Continues, Loop
<1>2. \A u \in Threads \ {t} : Alike(u)
  BY <1>1, Others DEF JobInv
<1>3. at[t] = "reply" /\ batch \in [Threads -> Seq(Node)]
  BY DEF ReplyRejected, JobInv, JobType
<1>4. batch[t] # <<>> /\ batch[t][1].kind = "work" /\ Pending(batch[t][1].p)
  BY <1>3, ReplyHead
<1>5. PICK p, r : p = Head(batch[t]).p /\ p = batch[t][1].p /\ r = result[t]
  BY <1>3, <1>4
<1>6. /\ at' = [at EXCEPT ![t] = "user"] /\ at \in [Threads -> Stages]
      /\ jobs' = [jobs EXCEPT ![p].turned = "reply"] /\ RunDone(t, p, r)
      /\ UNCHANGED <<mailbox, batch, result, saved, cache>>
  BY <1>5 DEF ReplyRejected, IInv, WriterType
<1>7. r \in Nat /\ result' = [result EXCEPT ![t] = r]
  BY <1>5, <1>6 DEF JobInv, JobType
<1>8. Ending(t, p, r)
  BY <1>4, <1>5, <1>6, <1>7 DEF Ending
<1>9. p \in Pushes
  BY <1>4, <1>5, PendingFacts DEF JobInv
<1>10. IF jobs[p].id = 0 THEN r = 0 ELSE r = p /\ p \in Live
  BY <1>3, <1>5, <1>9 DEF JobInv, RestInv, ReplyInv, ReplyOf, Live
<1>11. EndsAtHead(t, p, r)
  BY <1>3, <1>4, <1>5, <1>6, <1>10 DEF EndsAtHead
<1> QED BY <1>2, <1>7, <1>8, <1>11, EndingStep

LEMMA GetResultStep ==
  ASSUME IInv, JobInv, JobType', NEW t \in Threads, GetResult(t), fault = "none"
  PROVE  RestInv'
<1>1. Continues(t)
  BY DEF Continues, Loop
<1>2. \A u \in Threads \ {t} : Alike(u)
  BY <1>1, Others DEF JobInv
<1>3. /\ at[t] = "batch" /\ batch[t] # <<>> /\ batch \in [Threads -> Seq(Node)]
      /\ batch[t][1].kind = "result"
  BY DEF GetResult, IsNode, JobInv, JobType
<1>4. /\ Pending(batch[t][1].p) /\ jobs[batch[t][1].p].home = t
      /\ jobs[batch[t][1].p].id # 0 => heap[batch[t][1].p] = "live"
  BY <1>3, AtTheHead DEF HeadOpen, JobInv, RestInv
<1>5. PICK p : p = Head(batch[t]).p /\ p = batch[t][1].p
  BY <1>3
<1>6. p \in Nat /\ p \in Pushes
  BY <1>4, <1>5, PendingFacts DEF JobInv
<1>7. PICK r \in Nat : r = Carried(p)
  BY <1>6 DEF Carried
<1>8. /\ at' = [at EXCEPT ![t] = "user"] /\ at \in [Threads -> Stages]
      /\ result' = [result EXCEPT ![t] = r] /\ RunDone(t, p, r)
      /\ UNCHANGED <<mailbox, batch, saved, cache, jobs>>
  BY <1>5, <1>7 DEF GetResult, SetResult, IInv, WriterType
<1>9. Ending(t, p, r)
  BY <1>4, <1>5, <1>8 DEF Ending
<1>10. IF jobs[p].id = 0 THEN r = 0 ELSE r = p /\ p \in Live
  BY <1>4, <1>5, <1>6, <1>7 DEF Carried, Live
<1>11. EndsAtHead(t, p, r)
  BY <1>3, <1>4, <1>5, <1>8, <1>10 DEF EndsAtHead
<1> QED BY <1>2, <1>7, <1>9, <1>11, EndingStep

-----------------------------------------------------------------------------
LEMMA InitJobs == Init => JobInv
<1> SUFFICES ASSUME Init PROVE JobInv
  OBVIOUS
<1>1. JobType
  <2>1. PICK e : e = Entry
    OBVIOUS
  <2>2. e \in Frame
    BY <2>1, BoundsAssumption DEF Entry, Frame
  <2>3. \A t \in Threads : frames[t] = <<>> \/ frames[t] = <<e>>
    BY <2>1 DEF Init
  <2>4. frames \in [Threads -> Seq(Frame)]
    <3>1. <<>> \in Seq(Frame) /\ <<e>> \in Seq(Frame)
      BY <2>2
    <3>2. \A t \in Threads : frames[t] \in Seq(Frame)
      BY <2>3, <3>1
    <3>3. frames = [t \in Threads |-> frames[t]]
      BY DEF Init
    <3> QED BY <3>2, <3>3
  <2>5. Len(jobs) = 0 /\ jobs \in Seq(Job)
    BY DEF Init
  <2>6. /\ mailbox \in [Threads -> Seq(Node)] /\ batch \in [Threads -> Seq(Node)]
        /\ saved \in [Threads -> Seq(Pushes)] /\ result \in [Threads -> Nat]
    BY DEF Init
  <2>7. /\ cache \in [Threads -> [Names -> Fns \cup {None}]]
        /\ heap \in [Pushes -> {"none", "live", "deleted"}] /\ calls = <<>>
        /\ \A t \in Threads : result[t] = 0
    BY DEF Init
  <2>8. Len(jobs) <= MaxPushes /\ \A t \in Threads : result[t] <= Len(jobs)
    BY <2>5, <2>7, BoundsAssumption
  <2> QED BY <2>4, <2>5, <2>6, <2>7, <2>8 DEF JobType
<1>2. StageInv
  <2> SUFFICES ASSUME NEW t \in Threads PROVE StageOf(t)
    BY DEF StageInv
  <2>1. batch[t] = <<>> /\ result[t] = 0
    BY DEF Init
  <2>2. CASE t = Main
    <3>1. PICK e : e = Entry
      OBVIOUS
    <3>2. at[t] = "user" /\ frames[t] = <<e>>
      BY <2>2, <3>1 DEF Init
    <3>3. Len(frames[t]) = 1 /\ frames[t][1] = e /\ frames[t] # <<>>
      BY <3>2
    <3>4. e.kind = "start"
      BY <3>1 DEF Entry
    <3> QED BY <2>1, <3>2, <3>3, <3>4 DEF StageOf, First, LuaStages, IdleStages
  <2>3. CASE t # Main
    <3>1. at[t] = "none" /\ frames[t] = <<>> /\ Len(frames[t]) = 0
      BY <2>3 DEF Init
    <3> QED BY <2>1, <3>1 DEF StageOf, First, LuaStages, IdleStages
  <2> QED BY <2>2, <2>3
<1>3. \A p \in Nat, x \in Spots : ~At(p, x)
  BY DEF Init, At, Spots
<1>4. OnePlace /\ TokenInv
  BY <1>3 DEF OnePlace, TokenInv, ResultAt
<1>5. \A t \in Threads : result[t] = 0 /\ at[t] # "reply"
  BY DEF Init
<1>6. Len(jobs) = 0 /\ calls = <<>> /\ fault = "none" /\ \A p \in Pushes : heap[p] = "none"
  BY DEF Init
<1>7. \A t \in Threads, n \in Names : cache[t][n] = None
  BY DEF Init
<1>8. ReplyInv /\ SavedInv /\ NameInv /\ CallbackOfPush /\ KeptInv /\ OwnerInv /\ FaultInv
  BY <1>5, <1>6, <1>7 DEF ReplyInv, ReplyOf, SavedInv, NameInv, CallbackOfPush, KeptInv,
     OwnerInv, FaultInv
<1> QED BY <1>1, <1>2, <1>4, <1>8 DEF JobInv, RestInv

\* Nothing changes but that the program has ended.
LEMMA StutterJobs ==
  ASSUME JobInv, fault' = fault \/ fault' = "panic",
         UNCHANGED <<at, arg, mailbox, batch, frames, result, lua>>
  PROVE  JobInv'
<1>1. UNCHANGED <<at, arg, mailbox, batch, frames, result, saved, cache, jobs, heap, calls>>
  BY DEF lua
<1>2. JobType'
  BY <1>1 DEF JobInv, JobType
<1>3. StageInv'
  BY <1>1 DEF JobInv, StageInv, StageOf, First
<1>4. \A p, x : (At(p, x)' <=> At(p, x)) /\ (ResultAt(p, x)' <=> ResultAt(p, x))
  BY <1>1 DEF At, ResultAt, HeadOpen, First
<1>5. OnePlace' /\ TokenInv'
  BY <1>1, <1>4 DEF JobInv, RestInv, OnePlace, TokenInv, Pending
<1>6. ReplyInv' /\ SavedInv' /\ NameInv' /\ CallbackOfPush'
  BY <1>1 DEF JobInv, RestInv, ReplyInv, ReplyOf, SavedInv, NameInv, Pushed, CallbackOfPush
<1>7. KeptInv'
  BY <1>1, <1>4 DEF JobInv, RestInv, KeptInv, Owns
<1>8. OwnerInv' /\ FaultInv'
  BY <1>1 DEF JobInv, RestInv, OwnerInv, FaultInv, TurnedAway
<1> QED BY <1>2, <1>3, <1>5, <1>6, <1>7, <1>8 DEF JobInv, RestInv

LEMMA NextJobs == IInv /\ JobInv /\ [Next]_vars => JobInv'
<1> SUFFICES ASSUME IInv, JobInv, [Next]_vars PROVE JobInv'
  OBVIOUS
<1>1. JobType'
  BY NextType DEF JobInv, RestInv
<1>2. ASSUME NEW t \in Threads, Continues(t) \/ Calls(t) PROVE StageInv' /\ RestInv'
  <2>1. StageOf(t)'
    BY <1>2, NextStage DEF JobInv, RestInv
  <2>2. \A u \in Threads \ {t} : Alike(u)
    BY <1>2, Others DEF JobInv
  <2>3. \A u \in Threads \ {t} : StageOf(u)'
    BY <2>2, AlikeStage DEF JobInv, StageInv
  <2>4. StageInv'
    BY <2>1, <2>3 DEF StageInv
  <2>5. fault = "none"
    BY <1>2 DEF Continues, Calls
  <2>6. CASE \/ NewThread(t) \/ (\E n \in PoolSizes : NewPool(t, n)) \/ WaitExec(t)
             \/ MapBegins(t) \/ SetExe(t) \/ Sleep(t) \/ NotifyExe(t) \/ StartReturns(t)
    BY <1>1, <2>4, <2>5, <2>6, IdleStep
  <2>7. CASE PushAccepted(t) \/ ReplyAccepted(t)
    BY <1>1, <2>4, <2>5, <2>7, PushAcceptedStep, ReplyAcceptedStep
  <2>8. CASE PushRejected(t) \/ ReplyRejected(t) \/ GetResult(t)
    BY <1>1, <2>4, <2>5, <2>8, PushRejectedStep, ReplyRejectedStep, GetResultStep
  <2>9. CASE Take(t) \/ RunStop(t) \/ NodeEnds(t)
    BY <1>1, <2>4, <2>5, <2>9, TakeStep, EndNodeStep
  <2>10. CASE \E g \in Threads, j \in AllJobs : PushJob(t, g, j)
    BY <1>1, <2>4, <2>5, <2>10, PushJobStep
  <2>11. CASE RunWork(t) \/ DoneReturns(t)
    BY <1>1, <2>4, <2>5, <2>11, RunWorkStep, DoneReturnsStep
  <2>12. CASE \E ok \in BOOLEAN : WorkReturns(t, ok)
    BY <1>1, <2>4, <2>5, <2>12, WorkReturnsStep
  <2>13. CASE WorkPanics(t)
    <3>1. UNCHANGED <<at, arg, mailbox, batch, frames, result, lua>> /\ fault' = "panic"
      BY <2>13 DEF WorkPanics
    <3>2. JobInv'
      BY <3>1, StutterJobs
    <3> QED BY <2>4, <3>2 DEF JobInv
  <2> QED
    BY <1>2, <2>6, <2>7, <2>8, <2>9, <2>10, <2>11, <2>12, <2>13
       DEF Continues, Calls, Boot, Loop, Returns
<1>3. ASSUME fault = "none", SendStop PROVE StageInv' /\ RestInv'
  <2>1. \A u \in Threads : Alike(u)
    BY <1>3, SendStopAlike
  <2>2. StageInv'
    BY <2>1, AlikeStage DEF JobInv, StageInv
  <2> QED BY <1>1, <1>3, <2>2, SendStopStep
<1>4. CASE UNCHANGED vars
  BY <1>4, StutterJobs DEF vars
<1> QED BY <1>1, <1>2, <1>3, <1>4 DEF Next, Over, JobInv

-----------------------------------------------------------------------------
\* The invariant about jobs and their results holds in every state.
THEOREM JobsInductive == Spec => [](IInv /\ JobInv)
<1>1. Init => IInv /\ JobInv
  BY InitInv, InitJobs
<1>2. IInv /\ JobInv /\ [Next]_vars => IInv' /\ JobInv'
  BY NextInv, NextJobs
<1> QED BY <1>1, <1>2, PTL DEF Spec

\* For any number of threads and pushes: a done function that ondone calls is the one
\* saved with that push, once, on the thread that pushed and with that push's result,
\* unless a thread that had stopped turned the push or its result away.
THEOREM CallbacksAreRight == Spec => []CallbackOfPush
<1>1. IInv /\ JobInv => CallbackOfPush
  BY DEF JobInv, RestInv
<1> QED BY <1>1, JobsInductive, PTL

\* A name pushed with one function only gets that function run on every thread,
\* whatever load_work_fn found in the thread's work_fns.
THEOREM NamesAreRight == Spec => []OwnFunction
<1>1. IInv /\ JobInv => OwnFunction
  <2> SUFFICES ASSUME JobInv, NEW p \in 1 .. Len(jobs), jobs[p].ran # None,
                      \A q \in 1 .. Len(jobs) : jobs[q].name = jobs[p].name => jobs[q].fn = jobs[p].fn
               PROVE  jobs[p].ran = jobs[p].fn
    BY DEF OwnFunction
  <2> QED BY DEF JobInv, RestInv, NameInv, Pushed
<1> QED BY <1>1, JobsInductive, PTL

\* The string that onwork returns is on its way to its thread or that of a thread, until
\* it is deleted; on its way it is there, and it is neither missing nor deleted twice
\* unless Lua pushed to a thread that had stopped; between two nodes no thread has one.
THEOREM ResultsAreKept == Spec => []ResultsKept
<1> DEFINE OnTheWay(p) ==
              \E t \in Threads :
                 \/ \E i \in 1 .. Len(mailbox[t]) : mailbox[t][i] = [kind |-> "result", p |-> p]
                 \/ \E i \in 1 .. Len(batch[t]) :
                       /\ batch[t][i] = [kind |-> "result", p |-> p]
                       /\ i > 1 \/ at[t] = "batch"
<1>1. ASSUME JobInv, NEW p \in 1 .. Len(jobs)
      PROVE  OnTheWay(p) <=> \E x \in Spots : ResultAt(p, x)
  <2>1. p \in Nat /\ mailbox \in [Threads -> Seq(Node)] /\ batch \in [Threads -> Seq(Node)]
    BY <1>1 DEF JobInv, JobType
  <2>2. PICK n : n = [kind |-> "result", p |-> p]
    OBVIOUS
  <2>3. n.kind = "result" /\ n.p = p
    BY <2>2
  <2>4. \A m \in Node : m.kind = "result" /\ m.p = p => m = n
    BY <2>2 DEF Node
  <2>5. ASSUME NEW t \in Threads, NEW i \in 1 .. Len(mailbox[t]), mailbox[t][i] = n
        PROVE  \E x \in Spots : ResultAt(p, x)
    <3>1. i \in Nat
      BY <2>1
    <3>2. MailSpot(t, i) \in Spots /\ MailSpot(t, i).kind = "mail" /\ MailSpot(t, i).t = t
          /\ MailSpot(t, i).i = i
      BY <3>1, SpotFacts
    <3>3. ResultAt(p, MailSpot(t, i))
      BY <2>3, <2>5, <3>2 DEF ResultAt, At
    <3> QED BY <3>2, <3>3
  <2>6. ASSUME NEW t \in Threads, NEW i \in 1 .. Len(batch[t]), batch[t][i] = n,
               i > 1 \/ at[t] = "batch"
        PROVE  \E x \in Spots : ResultAt(p, x)
    <3>1. PICK x : x = [kind |-> "batch", t |-> t, i |-> i]
      OBVIOUS
    <3>2. x \in Spots /\ x.kind = "batch" /\ x.t = t /\ x.i = i
      BY <2>1, <3>1 DEF Spots
    <3>3. i > 1 \/ HeadOpen(t)
      BY <2>6 DEF HeadOpen
    <3>4. ResultAt(p, x)
      BY <2>3, <2>6, <3>2, <3>3 DEF ResultAt, At
    <3> QED BY <3>2, <3>4
  <2>7. ASSUME NEW x \in Spots, ResultAt(p, x)
        PROVE  OnTheWay(p)
    <3>1. x.t \in Threads /\ x.i \in Nat
      BY DEF Spots
    <3>2. CASE x.kind = "mail"
      <4>1. x.i \in 1 .. Len(mailbox[x.t]) /\ mailbox[x.t][x.i] \in Node
        BY <2>1, <2>7, <3>1, <3>2 DEF ResultAt, At
      <4>2. mailbox[x.t][x.i] = n
        BY <2>4, <2>7, <3>2, <4>1 DEF ResultAt, At
      <4> QED BY <2>2, <3>1, <4>1, <4>2
    <3>3. CASE x.kind = "batch"
      <4>1. /\ x.i \in 1 .. Len(batch[x.t]) /\ batch[x.t][x.i] \in Node
            /\ x.i > 1 \/ HeadOpen(x.t)
        BY <2>1, <2>7, <3>1, <3>3 DEF ResultAt, At
      <4>2. batch[x.t][x.i] = n
        BY <2>4, <2>7, <3>3, <4>1 DEF ResultAt, At
      <4>3. x.i > 1 \/ at[x.t] = "batch"
        <5>1. SUFFICES ASSUME ~(x.i > 1) PROVE at[x.t] = "batch"
          OBVIOUS
        <5>2. x.i = 1
          BY <3>1, <4>1, <5>1
        <5>3. batch[x.t][1].kind = "result" /\ HeadOpen(x.t)
          BY <2>3, <4>1, <4>2, <5>1, <5>2
        <5> QED BY <1>1, <3>1, <5>3 DEF HeadOpen, JobInv, StageInv, StageOf
      <4> QED BY <2>2, <3>1, <4>1, <4>2, <4>3
    <3> QED BY <2>7, <3>2, <3>3 DEF ResultAt
  <2> QED BY <2>2, <2>5, <2>6, <2>7
<1>2. IInv /\ JobInv => ResultsKept
  <2> SUFFICES ASSUME JobInv PROVE ResultsKept
    OBVIOUS
  <2>1. ASSUME NEW p \in 1 .. Len(jobs)
        PROVE  /\ jobs[p].id # 0 /\ OnTheWay(p) => heap[p] = "live"
               /\ heap[p] = "live" => OnTheWay(p) \/ \E t \in Threads : result[t] = p
    <3>1. p \in Nat /\ p \in Pushes
      BY BoundsAssumption DEF JobInv, JobType, Pushes
    <3>2. jobs[p].id # 0 /\ (\E x \in Spots : ResultAt(p, x)) => heap[p] = "live"
      BY <3>1 DEF JobInv, RestInv, TokenInv
    <3>3. heap[p] = "live" =>
             (\E x \in Spots : ResultAt(p, x)) \/ \E t \in Threads : result[t] = p
      BY <3>1 DEF JobInv, RestInv, KeptInv, Owns
    <3>4. OnTheWay(p) <=> \E x \in Spots : ResultAt(p, x)
      BY <1>1
    <3> HIDE DEF OnTheWay
    <3> QED BY <3>2, <3>3, <3>4
  <2>2. fault \in {"null", "deleted"} => TurnedAway
    BY DEF JobInv, RestInv, FaultInv
  <2>3. \A t \in Threads : at[t] \in {"wait", "sleep", "batch", "gone"} => result[t] = 0
    BY DEF JobInv, StageInv, StageOf, LuaStages
  <2> QED BY <2>1, <2>2, <2>3 DEF ResultsKept, TurnedAway
<1> QED BY <1>2, JobsInductive, PTL
-----------------------------------------------------------------------------
(* Types.                                                                  *)

\* What JobType and WriterType leave open.  WaitExec registers what arg says: it is
\* a thread as long as newthread waits for it.
MoreType ==
    /\ Len(made) <= MaxThreads
    /\ pthreads \in Seq(Threads) /\ registered \in Seq(0 .. MaxThreads)
    /\ \A t \in Threads :
          /\ arg[t] <= MaxThreads + MaxPushes
          /\ at[t] \in {"newthread", "newsleep"} => arg[t] <= MaxThreads
    /\ working \in [Threads -> BOOLEAN]
    /\ stops \in 0 .. Len(pthreads)
    /\ raced \in BOOLEAN
    /\ fault \in {"none", "null", "deleted", "stop", "panic"}

\* A step that creates nobody.
LEMMA MoreStep ==
  ASSUME IInv, MoreType, UNCHANGED <<made, pthreads, registered>>,
         \A u \in Threads :
            /\ arg'[u] \in {0, arg[u]} \/ arg'[u] <= MaxThreads + MaxPushes
            /\ at'[u] \in {"newthread", "newsleep"} =>
                  at[u] \in {"newthread", "newsleep"} /\ arg'[u] = arg[u],
         working' \in [Threads -> BOOLEAN], stops' \in 0 .. Len(pthreads),
         raced' \in BOOLEAN, fault' \in {"none", "null", "deleted", "stop", "panic"}
  PROVE  MoreType'
<1>1. MaxThreads + MaxPushes >= 0
  BY BoundsAssumption
<1> QED BY <1>1 DEF MoreType

\* notify_one puts nobody into newthread that is not there.
LEMMA NotifyKeeps ==
  ASSUME IInv, NEW g, NEW t \in Threads, NEW stage \in {"wait", "user"},
         at[t] \notin {"sleep", "newsleep"}, NotifyOne(g, [at EXCEPT ![t] = stage])
  PROVE  \A u \in Threads :
            at'[u] \in {"newthread", "newsleep"} => u # t /\ at[u] \in {"newthread", "newsleep"}
<1>1. stage \in Stages
  BY DEF Stages
<1> QED BY <1>1, NotifyStages DEF IInv

LEMMA InitMore == Init => MoreType
<1> SUFFICES ASSUME Init PROVE MoreType
  OBVIOUS
<1>1. made = <<[by |-> Main, pool |-> 0, early |-> TRUE]>> /\ Len(made) = 1
  BY DEF Init
<1>2. pthreads \in Seq(Threads) /\ Len(pthreads) = 1
  BY ThreadFacts DEF Init
<1>3. registered \in Seq(0 .. MaxThreads)
  <2>1. Main \in 0 .. MaxThreads
    BY ThreadFacts, BoundsAssumption
  <2> QED BY <2>1 DEF Init
<1>4. \A t \in Threads : arg[t] = 0 /\ at[t] \in {"user", "none"}
  BY DEF Init
<1>5. MaxThreads \in Nat \ {0} /\ MaxPushes \in Nat
  BY BoundsAssumption
<1>6. \A t \in Threads : /\ arg[t] <= MaxThreads + MaxPushes
                        /\ at[t] \notin {"newthread", "newsleep"}
  BY <1>4, <1>5
<1>7. /\ working \in [Threads -> BOOLEAN] /\ stops = 0 /\ raced = FALSE /\ fault = "none"
  BY DEF Init
<1>8. Len(made) <= MaxThreads /\ stops \in 0 .. Len(pthreads)
  BY <1>1, <1>2, <1>5, <1>7
<1> QED BY <1>2, <1>3, <1>6, <1>7, <1>8 DEF MoreType

LEMMA NextMore == IInv /\ MoreType /\ [Next]_vars => MoreType'
<1> SUFFICES ASSUME IInv, MoreType, [Next]_vars PROVE MoreType'
  OBVIOUS
<1>a. /\ MaxThreads \in Nat \ {0} /\ MaxPushes \in Nat /\ Main \in Threads
      /\ working \in [Threads -> BOOLEAN] /\ stops \in 0 .. Len(pthreads)
      /\ raced \in BOOLEAN /\ fault \in {"none", "null", "deleted", "stop", "panic"}
      /\ at \in [Threads -> Stages] /\ arg \in [Threads -> Nat]
      /\ Len(made) \in Nat /\ pthreads \in Seq(Threads) /\ Len(pthreads) \in Nat
      /\ registered \in Seq(0 .. MaxThreads) /\ exe \in [Threads -> BOOLEAN]
  BY BoundsAssumption, ThreadFacts DEF IInv, WriterType, MoreType
<1>1. ASSUME NEW t \in Threads, NewThread(t) PROVE MoreType'
  <2> DEFINE g == Len(made) + 1
  <2>1. /\ g \in Threads /\ made' = Append(made, Creation(t, 0))
        /\ pthreads' = Append(pthreads, g)
        /\ at' = [at EXCEPT ![t] = "newthread", ![g] = "boot"] /\ arg' = [arg EXCEPT ![t] = g]
        /\ UNCHANGED <<registered, raced, working, stops, fault>>
    BY <1>1 DEF NewThread
  <2>2. Len(made') = g /\ g <= MaxThreads
    <3>1. made \in Seq([by : Threads, pool : Nat, early : BOOLEAN])
      BY DEF IInv, WriterType
    <3> QED BY <2>1, <3>1 DEF Threads
  <2>3. pthreads' \in Seq(Threads) /\ Len(pthreads') = Len(pthreads) + 1
    BY <1>a, <2>1
  <2>4. \A u \in Threads :
           /\ arg'[u] <= MaxThreads + MaxPushes
           /\ at'[u] \in {"newthread", "newsleep"} => arg'[u] <= MaxThreads
    BY <1>a, <2>1, <2>2 DEF MoreType
  <2> QED BY <1>a, <2>1, <2>2, <2>3, <2>4 DEF MoreType
<1>2. ASSUME NEW t \in Threads, NEW n \in PoolSizes, NewPool(t, n) PROVE MoreType'
  <2> DEFINE first == Len(made) + 1
             new   == first .. first + n - 1
  <2>0. n \in Nat \ {0} /\ PoolArray \in Nat \ {0}
    BY BoundsAssumption
  <2>1. /\ new \subseteq Threads /\ made' = made \o [i \in 1 .. n |-> Creation(t, n)]
        /\ pthreads' = pthreads \o PoolEntries(first, n)
        /\ registered' = registered \o PoolThreads(first, n)
        /\ at' = [g \in Threads |-> IF g \in new THEN "boot" ELSE at[g]]
        /\ UNCHANGED <<arg, raced, working, stops, fault>>
    BY <1>2 DEF NewPool
  <2>2. first + n - 1 \in Threads /\ first + n - 1 <= MaxThreads
    <3>1. first + n - 1 \in new
      BY <1>a, <2>0
    <3> QED BY <2>1, <3>1 DEF Threads
  <2>3. Len(made') = first + n - 1
    <3>1. made \in Seq([by : Threads, pool : Nat, early : BOOLEAN])
      BY DEF IInv, WriterType
    <3>2. PICK ts : ts = [i \in 1 .. n |-> Creation(t, n)]
      OBVIOUS
    <3>3. ts \in Seq([by : Threads, pool : Nat, early : BOOLEAN]) /\ Len(ts) = n
      BY <1>a, <2>0, <3>2 DEF Creation
    <3> QED BY <1>a, <2>0, <2>1, <3>1, <3>2, <3>3
  <2>4. pthreads' \in Seq(Threads) /\ Len(pthreads') >= Len(pthreads)
    <3>1. PICK es : es = PoolEntries(first, n)
      OBVIOUS
    <3>2. \A i \in 1 .. 2 * n : (i - 1) \div 2 \in 0 .. n - 1
      BY <2>0
    <3>3. \A i \in 1 .. 2 * n : first + (i - 1) \div 2 \in new
      BY <1>a, <2>0, <3>2
    <3>4. PICK m \in Nat : m = 2 * n
      BY <2>0
    <3>5. \A i \in 1 .. m : first + (i - 1) \div 2 \in Threads
      BY <2>1, <3>3, <3>4
    <3>6. es = [i \in 1 .. m |-> first + (i - 1) \div 2]
      BY <3>1, <3>4 DEF PoolEntries
    <3>7. es \in [1 .. m -> Threads]
      BY <3>5, <3>6
    <3>8. es \in Seq(Threads) /\ Len(es) = m
      BY <3>4, <3>7
    <3> QED BY <1>a, <2>0, <2>1, <3>1, <3>8
  <2>5. registered' \in Seq(0 .. MaxThreads)
    <3>1. PICK rs : rs = PoolThreads(first, n)
      OBVIOUS
    <3>2. CASE n <= PoolArray
      <4>1. rs = [i \in 1 .. n |-> first + i - 1]
        BY <3>1, <3>2 DEF PoolThreads
      <4>2. \A i \in 1 .. n : first + i - 1 \in 0 .. MaxThreads
        BY <1>a, <2>0, <2>2
      <4>3. rs \in Seq(0 .. MaxThreads)
        BY <2>0, <4>1, <4>2
      <4> QED BY <1>a, <2>1, <3>1, <4>3
    <3>3. CASE ~(n <= PoolArray)
      <4>1. rs = [i \in 1 .. PoolArray |-> 0]
        BY <3>1, <3>3 DEF PoolThreads
      <4>2. 0 \in 0 .. MaxThreads
        BY <1>a
      <4>3. rs \in Seq(0 .. MaxThreads)
        BY <2>0, <4>1, <4>2
      <4> QED BY <1>a, <2>1, <3>1, <4>3
    <3> QED BY <3>2, <3>3
  <2>6. \A u \in Threads :
           /\ arg'[u] <= MaxThreads + MaxPushes
           /\ at'[u] \in {"newthread", "newsleep"} => arg'[u] <= MaxThreads
    BY <2>1 DEF MoreType
  <2>7. stops' \in 0 .. Len(pthreads')
    <3>1. Len(pthreads') \in Nat
      BY <2>4
    <3> QED BY <1>a, <2>1, <2>4, <3>1
  <2> QED BY <1>a, <2>1, <2>2, <2>3, <2>4, <2>5, <2>6, <2>7 DEF MoreType
<1>3. ASSUME NEW t \in Threads, WaitExec(t) PROVE MoreType'
  <2>1. at[t] = "newthread" /\ UNCHANGED <<made, pthreads, raced, working, stops, fault>>
    BY <1>3 DEF WaitExec
  <2>2. CASE /\ registered' = Append(registered, arg[t])
             /\ at' = [at EXCEPT ![t] = "user"] /\ arg' = [arg EXCEPT ![t] = 0]
    <3>1. arg[t] \in 0 .. MaxThreads
      BY <1>a, <2>1 DEF MoreType
    <3>2. registered' \in Seq(0 .. MaxThreads)
      BY <1>a, <2>2, <3>1
    <3> QED BY <1>a, <2>1, <2>2, <3>2 DEF MoreType
  <2>3. CASE at' = [at EXCEPT ![t] = "newsleep"] /\ UNCHANGED <<registered, arg>>
    BY <1>a, <2>1, <2>3 DEF MoreType
  <2> QED BY <1>3, <2>2, <2>3 DEF WaitExec
<1>4. ASSUME NEW t \in Threads, MapBegins(t) \/ SetExe(t) \/ Sleep(t) \/ Take(t) \/ StartReturns(t)
      PROVE  MoreType'
  <2>1. UNCHANGED <<made, pthreads, registered, arg, working, stops, fault>>
    BY <1>4 DEF MapBegins, SetExe, Sleep, Take, StartReturns, creation
  <2>2. raced' \in BOOLEAN
    <3>1. CASE MapBegins(t)
      BY <3>1 DEF MapBegins
    <3>2. CASE ~MapBegins(t)
      BY <1>a, <1>4, <3>2 DEF SetExe, Sleep, Take, StartReturns, creation
    <3> QED BY <3>1, <3>2
  <2>3. PICK stage \in {"mapping", "exe", "sleep", "gone", "batch", "wait", "boot"} :
           at' = [at EXCEPT ![t] = stage]
    BY <1>4 DEF MapBegins, SetExe, Sleep, Take, StartReturns
  <2>4. \A u \in Threads :
           /\ arg'[u] \in {0, arg[u]}
           /\ at'[u] \in {"newthread", "newsleep"} =>
                 at[u] \in {"newthread", "newsleep"} /\ arg'[u] = arg[u]
    BY <1>a, <2>1, <2>3
  <2> QED BY <1>a, <2>1, <2>2, <2>4, MoreStep
<1>5. ASSUME NEW t \in Threads, NotifyExe(t) \/ PushAccepted(t) \/ ReplyAccepted(t)
      PROVE  MoreType'
  <2>1. /\ UNCHANGED <<made, pthreads, registered, raced, working, stops, fault>>
        /\ at[t] \in {"exe", "push", "reply"}
        /\ UNCHANGED arg \/ arg' = [arg EXCEPT ![t] = 0]
    BY <1>5 DEF NotifyExe, PushAccepted, ReplyAccepted, creation
  <2>2. PICK stage \in {"wait", "user"} : \E g : NotifyOne(g, [at EXCEPT ![t] = stage])
    <3>1. CASE NotifyExe(t)
      <4>1. PICK stage \in {"wait", "user"} : NotifyOne(t, [at EXCEPT ![t] = stage])
        BY <3>1 DEF NotifyExe
      <4>2. \E g : NotifyOne(g, [at EXCEPT ![t] = stage])
        BY <4>1, Zenon
      <4> QED BY <4>2, Zenon
    <3>2. CASE PushAccepted(t) \/ ReplyAccepted(t)
      <4>1. PICK g : NotifyOne(g, [at EXCEPT ![t] = "user"])
        BY <3>2 DEF PushAccepted, ReplyAccepted, Accept
      <4>2. \E h : NotifyOne(h, [at EXCEPT ![t] = "user"])
        BY <4>1, Zenon
      <4> QED BY <4>2, Zenon
    <3> QED BY <1>5, <3>1, <3>2
  <2>3. \A u \in Threads :
           at'[u] \in {"newthread", "newsleep"} => u # t /\ at[u] \in {"newthread", "newsleep"}
    BY <2>1, <2>2, NotifyKeeps
  <2>4. \A u \in Threads :
           /\ arg'[u] \in {0, arg[u]}
           /\ at'[u] \in {"newthread", "newsleep"} =>
                 at[u] \in {"newthread", "newsleep"} /\ arg'[u] = arg[u]
    BY <1>a, <2>1, <2>3
  <2> QED BY <1>a, <2>1, <2>4, MoreStep
<1>6. ASSUME NEW t \in Threads, NEW g \in Threads, NEW j \in AllJobs, PushJob(t, g, j)
      PROVE  MoreType'
  <2>1. /\ UNCHANGED <<made, pthreads, registered, raced, working, stops, fault>>
        /\ at' = [at EXCEPT ![t] = "push"]
        /\ arg' = [arg EXCEPT ![t] = Len(jobs) + 1] /\ Len(jobs) + 1 \in Pushes
    BY <1>6 DEF PushJob, creation
  <2>2. Len(jobs) + 1 <= MaxThreads + MaxPushes
    <3>1. \A p \in Pushes : p <= MaxThreads + MaxPushes
      BY <1>a DEF Pushes
    <3> QED BY <2>1, <3>1
  <2>3. \A u \in Threads :
           /\ arg'[u] \in {0, arg[u]} \/ arg'[u] <= MaxThreads + MaxPushes
           /\ at'[u] \in {"newthread", "newsleep"} =>
                 at[u] \in {"newthread", "newsleep"} /\ arg'[u] = arg[u]
    BY <1>a, <2>1, <2>2
  <2> QED BY <1>a, <2>1, <2>3, MoreStep
<1>7. ASSUME NEW t \in Threads,
             \/ PushRejected(t) \/ ReplyRejected(t) \/ RunStop(t) \/ RunWork(t) \/ GetResult(t)
             \/ NodeEnds(t) \/ DoneReturns(t) \/ WorkPanics(t)
             \/ \E ok \in BOOLEAN : WorkReturns(t, ok)
      PROVE  MoreType'
  <2>1. /\ UNCHANGED <<made, pthreads, registered, raced, stops>>
        /\ arg' = [arg EXCEPT ![t] = 0] \/ UNCHANGED arg
    BY <1>7 DEF PushRejected, ReplyRejected, RunStop, RunWork, GetResult, NodeEnds, DoneReturns,
                WorkReturns, WorkPanics, creation
  <2>2. working' \in [Threads -> BOOLEAN]
    BY <1>a, <1>7 DEF PushRejected, ReplyRejected, RunStop, RunWork, GetResult, NodeEnds,
                      DoneReturns, WorkReturns, WorkPanics
  <2>3. fault' \in {"none", "null", "deleted", "stop", "panic"}
    <3>1. fault' = fault \/ fault' \in {"null", "deleted", "panic"}
      BY <1>7 DEF PushRejected, ReplyRejected, RunStop, RunWork, GetResult, NodeEnds,
                  DoneReturns, WorkReturns, WorkPanics, RunDone, lua
    <3> QED BY <1>a, <3>1
  <2>4. at[t] \in {"push", "reply", "batch", "user"}
    BY <1>7 DEF PushRejected, ReplyRejected, RunStop, RunWork, GetResult, NodeEnds,
                DoneReturns, WorkReturns, WorkPanics, InWork, IsNode, InLua
  <2>5. PICK stage \in {"user", "batch", "wait", "reply"} :
           at' = [at EXCEPT ![t] = stage] \/ UNCHANGED at
    BY <1>7 DEF PushRejected, ReplyRejected, RunStop, RunWork, GetResult, NodeEnds,
                DoneReturns, WorkReturns, WorkPanics, EndNode
  <2>6. \A u \in Threads :
           /\ arg'[u] \in {0, arg[u]}
           /\ at'[u] \in {"newthread", "newsleep"} =>
                 at[u] \in {"newthread", "newsleep"} /\ arg'[u] = arg[u]
    BY <1>a, <2>1, <2>4, <2>5
  <2> QED BY <1>a, <2>1, <2>2, <2>3, <2>6, MoreStep
<1>8. CASE SendStop
  <2>1. /\ UNCHANGED <<made, pthreads, registered, raced, working, arg>>
        /\ stops < Len(pthreads) /\ stops' = stops + 1
        /\ fault' = fault \/ fault' = "stop"
        /\ UNCHANGED at \/ \E g : NotifyOne(g, at)
    BY <1>8 DEF SendStop, creation
  <2>2. ASSUME NEW g, NotifyOne(g, at), NEW u \in Threads, at'[u] \in {"newthread", "newsleep"}
        PROVE  at[u] \in {"newthread", "newsleep"}
    <3>1. CASE Sleepers(g) = {}
      BY <2>2, <3>1 DEF NotifyOne
    <3>2. ASSUME NEW v \in Sleepers(g), at' = [at EXCEPT ![v] = Woken(v)]
          PROVE  at[u] \in {"newthread", "newsleep"}
      BY <1>a, <2>2, <3>2 DEF Sleepers, Woken
    <3> QED BY <2>2, <3>1, <3>2 DEF NotifyOne
  <2>3. \A u \in Threads :
           /\ arg'[u] \in {0, arg[u]}
           /\ at'[u] \in {"newthread", "newsleep"} =>
                 at[u] \in {"newthread", "newsleep"} /\ arg'[u] = arg[u]
    BY <2>1, <2>2
  <2>4. stops' \in 0 .. Len(pthreads)
    BY <1>a, <2>1
  <2> QED BY <1>a, <2>1, <2>3, <2>4, MoreStep
<1>9. CASE UNCHANGED vars
  BY <1>9 DEF vars, creation, MoreType
<1> QED
  BY <1>1, <1>2, <1>3, <1>4, <1>5, <1>6, <1>7, <1>8, <1>9
     DEF Next, Continues, Calls, Boot, Loop, Returns, Over

\* For any numbers of threads, pushes and places of the array every variable has its
\* type: what newthread registers is a thread, and waitstops stays within pthreads_.
THEOREM TypeCorrect == Spec => []TypeOK
<1>1. Init => IInv /\ JobInv /\ MoreType
  BY InitInv, InitJobs, InitMore
<1>2. IInv /\ JobInv /\ MoreType /\ [Next]_vars => IInv' /\ JobInv' /\ MoreType'
  BY NextInv, NextJobs, NextMore
<1>3. IInv /\ JobInv /\ MoreType => TypeOK
  <2> SUFFICES ASSUME IInv, JobInv, MoreType PROVE TypeOK
    OBVIOUS
  <2>1. MaxThreads \in Nat \ {0} /\ MaxPushes \in Nat
    BY BoundsAssumption
  <2>2. Len(made) \in Threads
    BY <2>1 DEF IInv, WriterType, BornInv, MoreType, Threads
  <2>3. arg \in [Threads -> 0 .. MaxThreads + MaxPushes]
    BY <2>1 DEF IInv, WriterType, MoreType
  <2>4. Len(jobs) \in 0 .. MaxPushes
    BY <2>1 DEF JobInv, JobType
  <2>5. result \in [Threads -> 0 .. MaxPushes]
    <3>1. \A t \in Threads : result[t] \in 0 .. MaxPushes
      BY <2>1, <2>4 DEF JobInv, JobType
    <3> QED BY <3>1 DEF JobInv, JobType
  <2> QED BY <2>2, <2>3, <2>4, <2>5 DEF IInv, WriterType, JobInv, JobType, MoreType, TypeOK
<1> QED BY <1>1, <1>2, <1>3, PTL DEF Spec
=============================================================================
