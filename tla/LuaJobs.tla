------------------------------ MODULE LuaJobs ------------------------------
(***************************************************************************)
(* Threads that run Lua, from their creation to the callbacks of the jobs  *)
(* they push to each other: newthread, newpool, the first part of exec,    *)
(* pushtjob and pushpjob of Lua, and the Lua tables behind them.  Athd has *)
(* the rest of the scheduler: the pools of nodes and jobs, broadcasts, the *)
(* index of a pool.                                                        *)
(*                                                                         *)
(* Abstractions.  A result is one string, named by the push it belongs to. *)
(* A thread has the handles that its own Lua state can have: its own,      *)
(* main's and those of threads it created.  newpool starts its threads in  *)
(* one step, for it holds the mutex that others would need.  waitstops is  *)
(* called by a thread of C++ when main is in exec and the last thread has  *)
(* been created, and returns to nobody.  What main does after exec is left *)
(* to Athd.  MaxThreads and MaxPushes bound the threads and the jobs,      *)
(* MaxBoth the threads, each counted twice, and jobs together.             *)
(***************************************************************************)
EXTENDS Integers, Sequences, FiniteSets

CONSTANTS
    MaxThreads, MaxPushes, MaxBoth,
    Creators,   \* the threads that create others
    PoolSizes,
    PoolArray,  \* the places of new_pool's array, 100 in the code
    Jobs        \* what may be pushed first, second, ...: sets of [name, fn, back], where
                \* back tells whether there is a done function

ASSUME BoundsAssumption ==
    /\ {MaxThreads, PoolArray} \subseteq Nat \ {0} /\ {MaxPushes, MaxBoth} \subseteq Nat
    /\ PoolSizes \subseteq Nat \ {0} /\ Creators \subseteq Nat
ASSUME JobsAssumption ==
    \A p \in 1 .. MaxPushes, j \in UNION {Jobs[i] : i \in 1 .. MaxPushes} :
       p \in DOMAIN Jobs /\ DOMAIN j = {"name", "fn", "back"} /\ j.back \in BOOLEAN

Threads == 1 .. MaxThreads
Main    == 1
Pushes  == 1 .. MaxPushes
AllJobs == UNION {Jobs[p] : p \in Pushes}
Names   == {j.name : j \in AllJobs}
Fns     == {j.fn : j \in AllJobs}
None    == "none"

Stages ==
    {"none", "boot", "mapping", "exe", "user", "newthread", "newsleep",
     "push", "reply", "wait", "sleep", "batch", "gone"}
Node  == [kind : {"work", "result", "stop"}, p : 0 .. MaxPushes]
Frame == [kind : {"start", "work", "done"}, p : 0 .. MaxPushes, res : 0 .. MaxPushes]

VARIABLES
    made,       \* the threads, in order: who created each, and how
    pthreads, registered,   \* mdata::pthreads_ and lua_threads_
    at, arg,    \* where a thread is; the thread it creates or the push it makes
    exe, working, mailbox,  \* thread_impl::is_exe_, is_working_, the list at job_head_
    batch,      \* the nodes that exec has taken
    frames,     \* the Lua functions under way, each of the last called by pushjob
    result,     \* curr_job_restul_: the push whose string it is, or 0
    saved, cache,   \* done_fns and work_fns of the thread's Lua state
    jobs,       \* the pushes: [home, to, name, fn, id, ran, ok, turned]
    heap,       \* of each push: its result string
    calls,      \* the done functions called, in their order: [p, on, cb, res]
    stops,      \* how many places of pthreads_ waitstops has gone through
    raced, fault

creation == <<made, pthreads, registered, exe, raced>>
lua      == <<saved, cache, jobs, heap, calls>>
vars     == <<creation, at, arg, working, mailbox, batch, frames, result, lua, stops, fault>>

TypeOK ==
    /\ Len(made) \in Threads
    /\ pthreads \in Seq(Threads) /\ registered \in Seq(0 .. MaxThreads)
    /\ at \in [Threads -> Stages]
    /\ arg \in [Threads -> 0 .. MaxThreads + MaxPushes]
    /\ exe \in [Threads -> BOOLEAN] /\ working \in [Threads -> BOOLEAN]
    /\ mailbox \in [Threads -> Seq(Node)] /\ batch \in [Threads -> Seq(Node)]
    /\ frames \in [Threads -> Seq(Frame)]
    /\ result \in [Threads -> 0 .. MaxPushes]
    /\ saved \in [Threads -> Seq(Pushes)]
    /\ cache \in [Threads -> [Names -> Fns \cup {None}]]
    /\ Len(jobs) \in 0 .. MaxPushes
    /\ heap \in [Pushes -> {"none", "live", "deleted"}]
    /\ stops \in 0 .. Len(pthreads)
    /\ raced \in BOOLEAN
    /\ fault \in {"none", "null", "deleted", "stop", "panic"}

-----------------------------------------------------------------------------
(* The condition variable of a thread: its own loop waits at it, and the   *)
(* thread that creates it.                                                 *)

MutantSleepers(g) == {}
Sleepers(g) ==
    {t \in Threads : (t = g /\ at[t] = "sleep") \/ (at[t] = "newsleep" /\ arg[t] = g)}

Woken(t) == IF at[t] = "sleep" THEN "wait" ELSE "newthread"

\* `stages' is `at' with what the step itself changes; notify_one wakes one more.
NotifyOne(g, stages) ==
    IF Sleepers(g) = {} THEN at' = stages
    ELSE \E t \in Sleepers(g) : at' = [stages EXCEPT ![t] = Woken(t)]

-----------------------------------------------------------------------------
(* newthread and newpool.                                                  *)

InLua(t) == at[t] = "user" /\ frames[t] # <<>>

\* The bound on threads and jobs together.
Room(threads, pushes) ==
    2 * (Len(made) + threads) + Len(jobs) + pushes <= MaxBoth

\* pool: how many threads were created together, 0 for newthread.
Creation(t, pool) == [by |-> t, pool |-> pool, early |-> ~exe[Main]]

NewThread(t) ==
    LET g == Len(made) + 1 IN
    /\ t \in Creators /\ InLua(t) /\ stops = 0 /\ g \in Threads /\ Room(1, 0)
    /\ made' = Append(made, Creation(t, 0))
    /\ pthreads' = Append(pthreads, g)
    /\ at' = [at EXCEPT ![t] = "newthread", ![g] = "boot"]
    /\ arg' = [arg EXCEPT ![t] = g]
    /\ UNCHANGED <<registered, exe, raced, working, mailbox, batch, frames, result, lua,
                   stops, fault>>

MutantIsUp(g) == TRUE
IsUp(g) == exe[g]

\* wait_exec, and what new_thread does when newthread has returned.
WaitExec(t) ==
    /\ at[t] = "newthread"
    /\ \/ /\ IsUp(arg[t])
          /\ registered' = Append(registered, arg[t])
          /\ at' = [at EXCEPT ![t] = "user"]
          /\ arg' = [arg EXCEPT ![t] = 0]
       \/ /\ ~IsUp(arg[t])
          /\ at' = [at EXCEPT ![t] = "newsleep"]
          /\ UNCHANGED <<registered, arg>>
    /\ UNCHANGED <<made, pthreads, exe, raced, working, mailbox, batch, frames, result, lua,
                   stops, fault>>

\* getpoolthreads and the loop over its array: what does not fit is not there at all.
PoolThreads(first, n) ==
    IF n <= PoolArray THEN [i \in 1 .. n |-> first + i - 1] ELSE [i \in 1 .. PoolArray |-> 0]

\* In pthreads_ a thread of a pool stands twice: do_new_thread and newpool add it.
PoolEntries(first, n) == [i \in 1 .. 2 * n |-> first + (i - 1) \div 2]

NewPool(t, n) ==
    LET first == Len(made) + 1
        new   == first .. first + n - 1
    IN
    /\ t \in Creators /\ InLua(t) /\ stops = 0 /\ new \subseteq Threads /\ Room(n, 0)
    /\ made' = made \o [i \in 1 .. n |-> Creation(t, n)]
    /\ pthreads' = pthreads \o PoolEntries(first, n)
    /\ registered' = registered \o PoolThreads(first, n)
    /\ at' = [g \in Threads |-> IF g \in new THEN "boot" ELSE at[g]]
    /\ UNCHANGED <<exe, raced, arg, working, mailbox, batch, frames, result, lua, stops, fault>>

-----------------------------------------------------------------------------
(* exec up to its loop.                                                    *)

\* The thread writes itself into thread_map_, without a lock.
MapBegins(t) ==
    /\ at[t] = "boot"
    /\ at' = [at EXCEPT ![t] = "mapping"]
    /\ raced' = (raced \/ \E o \in Threads : at[o] = "mapping")
    /\ UNCHANGED <<made, pthreads, registered, exe, arg, working, mailbox, batch, frames,
                   result, lua, stops, fault>>

\* The write has ended; under the thread's mutex, is_exe_ is set.
SetExe(t) ==
    /\ at[t] = "mapping"
    /\ at' = [at EXCEPT ![t] = "exe"]
    /\ exe' = [exe EXCEPT ![t] = TRUE]
    /\ UNCHANGED <<made, pthreads, registered, raced, arg, working, mailbox, batch, frames,
                   result, lua, stops, fault>>

Entry == [kind |-> "start", p |-> 0, res |-> 0]

\* The entry script runs before the loop; main has none left.
NotifyExe(t) ==
    /\ at[t] = "exe"
    /\ NotifyOne(t, [at EXCEPT ![t] = IF t = Main THEN "wait" ELSE "user"])
    /\ frames' = [frames EXCEPT ![t] = IF t = Main THEN <<>> ELSE <<Entry>>]
    /\ UNCHANGED <<creation, arg, working, mailbox, batch, result, lua, stops, fault>>

\* After main.lua, main comes to exec by aapp_run.
StartReturns(t) ==
    /\ at[t] = "user" /\ frames[t] = <<Entry>>
    /\ frames' = [frames EXCEPT ![t] = <<>>]
    /\ at' = [at EXCEPT ![t] = IF exe[t] THEN "wait" ELSE "boot"]
    /\ UNCHANGED <<creation, arg, working, mailbox, batch, result, lua, stops, fault>>

-----------------------------------------------------------------------------
(* Pushes from Lua.                                                        *)

Handles(t) == {t, Main} \cup {g \in 1 .. Len(made) : made[g].by = t}

\* save_done_fn: the job's id is the number of done functions saved so far.
MutantSaveDone(t, p) == IF saved[t] = <<>> THEN <<p>> ELSE saved[t]
SaveDone(t, p) == Append(saved[t], p)

\* The Lua side of a push.
PushJob(t, g, j) ==
    LET p == Len(jobs) + 1
        s == IF j.back THEN SaveDone(t, p) ELSE saved[t]
    IN
    /\ InLua(t) /\ p \in Pushes /\ j \in Jobs[p] /\ Room(0, 1) /\ g \in Handles(t)
    /\ saved' = [saved EXCEPT ![t] = s]
    /\ jobs' = Append(jobs, [home |-> t, to |-> g, name |-> j.name, fn |-> j.fn,
                             id |-> IF j.back THEN Len(s) ELSE 0,
                             ran |-> None, ok |-> FALSE, turned |-> "no"])
    /\ at' = [at EXCEPT ![t] = "push"]
    /\ arg' = [arg EXCEPT ![t] = p]
    /\ UNCHANGED <<creation, working, mailbox, batch, frames, result, cache, heap, calls,
                   stops, fault>>

\* thread_impl::push_job, when the thread still takes nodes.
Accept(t, g, kind, p, stage) ==
    /\ working[g]
    /\ mailbox' = [mailbox EXCEPT ![g] = Append(@, [kind |-> kind, p |-> p])]
    /\ NotifyOne(g, [at EXCEPT ![t] = stage])

\* The function that ondone finds under the id of push p: in the Lua state of the
\* thread that runs it.
DoneFn(t, p) == IF jobs[p].id \in DOMAIN saved[t] THEN saved[t][jobs[p].id] ELSE 0

Live == {p \in Pushes : heap[p] = "live"}

Below(t) == SubSeq(frames[t], 1, Len(frames[t]) - 1)

\* delete sres, after a done function or without one.
MutantDelete(r, called) == IF called THEN [heap EXCEPT ![r] = "deleted"] ELSE heap
Delete(r, called) == [heap EXCEPT ![r] = "deleted"]

\* The done_fn of push p on thread t, r is what getresult says there.  The text of
\* an error cannot be unpacked, and no function runs.
RunDone(t, p, r) ==
    LET f == DoneFn(t, p) IN
    \/ jobs[p].id = 0 /\ UNCHANGED <<frames, heap, calls, fault>>
    \/ /\ jobs[p].id # 0 /\ r \notin Live
       /\ fault' = IF r = 0 THEN "null" ELSE "deleted"
       /\ UNCHANGED <<frames, heap, calls>>
    \/ /\ jobs[p].id # 0 /\ r \in Live
       /\ \/ /\ f # 0 /\ jobs[r].ok
             /\ frames' = [frames EXCEPT ![t] = Append(@, [kind |-> "done", p |-> p, res |-> r])]
             /\ calls' = Append(calls, [p |-> p, on |-> t, cb |-> f, res |-> r])
             /\ UNCHANGED heap
          \/ /\ f = 0 \/ ~jobs[r].ok
             /\ heap' = Delete(r, FALSE)
             /\ UNCHANGED <<frames, calls>>
       /\ UNCHANGED fault

PushAccepted(t) ==
    /\ at[t] = "push"
    /\ Accept(t, jobs[arg[t]].to, "work", arg[t], "user")
    /\ arg' = [arg EXCEPT ![t] = 0]
    /\ UNCHANGED <<creation, working, batch, frames, result, lua, stops, fault>>

\* The thread has stopped: done_fn runs at once, inside the pushing function.
PushRejected(t) ==
    /\ at[t] = "push" /\ ~working[jobs[arg[t]].to]
    /\ jobs' = [jobs EXCEPT ![arg[t]].turned = "push"]
    /\ RunDone(t, arg[t], result[t])
    /\ at' = [at EXCEPT ![t] = "user"]
    /\ arg' = [arg EXCEPT ![t] = 0]
    /\ UNCHANGED <<creation, working, mailbox, batch, result, saved, cache, stops>>

-----------------------------------------------------------------------------
(* exec's loop.                                                            *)

MustWait(t) == mailbox[t] = <<>> /\ working[t]

Sleep(t) ==
    /\ at[t] = "wait" /\ MustWait(t)
    /\ at' = [at EXCEPT ![t] = "sleep"]
    /\ UNCHANGED <<creation, arg, working, mailbox, batch, frames, result, lua, stops, fault>>

MutantLoopEnds(t) == ~working[t]
LoopEnds(t) == mailbox[t] = <<>> /\ ~working[t]

\* After its last batch the thread closes its Lua state.
Take(t) ==
    /\ at[t] = "wait" /\ ~MustWait(t)
    /\ at' = [at EXCEPT ![t] = IF LoopEnds(t) THEN "gone" ELSE "batch"]
    /\ batch' = [batch EXCEPT ![t] = mailbox[t]]
    /\ mailbox' = [mailbox EXCEPT ![t] = <<>>]
    /\ UNCHANGED <<creation, arg, working, frames, result, lua, stops, fault>>

IsNode(t, kind) == at[t] = "batch" /\ batch[t] # <<>> /\ Head(batch[t]).kind = kind

EndNode(t) ==
    /\ batch' = [batch EXCEPT ![t] = Tail(@)]
    /\ at' = [at EXCEPT ![t] = IF Len(batch[t]) = 1 THEN "wait" ELSE "batch"]

RunStop(t) ==
    /\ IsNode(t, "stop")
    /\ working' = [working EXCEPT ![t] = FALSE]
    /\ EndNode(t)
    /\ UNCHANGED <<creation, arg, mailbox, frames, result, lua, stops, fault>>

\* curr_job_restul_ belongs to the thread.
SetResult(t, r) == [result EXCEPT ![t] = r]

\* load_work_fn: by the name of the job, and what was loaded stays.
MutantLoaded(t, name, fn) ==
    IF \E n \in Names : cache[t][n] # None
    THEN cache[t][CHOOSE n \in Names : cache[t][n] # None] ELSE fn
Loaded(t, name, fn) == IF cache[t][name] # None THEN cache[t][name] ELSE fn

RunWork(t) ==
    LET p == Head(batch[t]).p
        f == Loaded(t, jobs[p].name, jobs[p].fn)
    IN
    /\ IsNode(t, "work")
    /\ result' = SetResult(t, 0)
    /\ cache' = [cache EXCEPT ![t][jobs[p].name] = f]
    /\ jobs' = [jobs EXCEPT ![p].ran = f]
    /\ frames' = [frames EXCEPT ![t] = <<[kind |-> "work", p |-> p, res |-> 0]>>]
    /\ at' = [at EXCEPT ![t] = "user"]
    /\ UNCHANGED <<creation, arg, working, mailbox, batch, saved, heap, calls, stops, fault>>

InWork(t) == at[t] = "user" /\ frames[t] # <<>> /\ frames[t][Len(frames[t])].kind = "work"

\* onwork returns the packed results, or fails and debug.traceback makes a text of the
\* error; they are kept for a done function only.
WorkReturns(t, ok) ==
    LET p == Head(batch[t]).p IN
    /\ InWork(t)
    /\ frames' = [frames EXCEPT ![t] = Below(t)]
    /\ IF jobs[p].id = 0 THEN UNCHANGED <<result, heap, jobs>>
       ELSE /\ result' = SetResult(t, p)
            /\ heap' = [heap EXCEPT ![p] = "live"]
            /\ jobs' = [jobs EXCEPT ![p].ok = ok]
    /\ at' = [at EXCEPT ![t] = "reply"]
    /\ UNCHANGED <<creation, arg, working, mailbox, batch, saved, cache, calls, stops, fault>>

\* The work fails with an error that debug.traceback leaves as it is, a table say.
\* Where its results are asked for, reading a string from it is a second error, outside
\* of the protected call, and ends the program.
WorkPanics(t) ==
    /\ InWork(t) /\ jobs[Head(batch[t]).p].id # 0
    /\ fault' = "panic"
    /\ UNCHANGED <<creation, at, arg, working, mailbox, batch, frames, result, lua, stops>>

ReplyAccepted(t) ==
    LET p == Head(batch[t]).p IN
    /\ at[t] = "reply"
    /\ Accept(t, jobs[p].home, "result", p, "user")
    /\ UNCHANGED <<creation, arg, working, batch, frames, result, lua, stops, fault>>

\* The thread that pushed has stopped: done_fn runs here, in this Lua state.
ReplyRejected(t) ==
    LET p == Head(batch[t]).p IN
    /\ at[t] = "reply" /\ ~working[jobs[p].home]
    /\ jobs' = [jobs EXCEPT ![p].turned = "reply"]
    /\ RunDone(t, p, result[t])
    /\ at' = [at EXCEPT ![t] = "user"]
    /\ UNCHANGED <<creation, arg, working, mailbox, batch, result, saved, cache, stops>>

\* The result that comes with a node: what curr_job_restul_ was at the reply.
Carried(p) == IF jobs[p].id = 0 THEN 0 ELSE p

\* exec takes the result out of the node and calls the done function.
GetResult(t) ==
    LET p == Head(batch[t]).p IN
    /\ IsNode(t, "result")
    /\ result' = SetResult(t, Carried(p))
    /\ RunDone(t, p, Carried(p))
    /\ at' = [at EXCEPT ![t] = "user"]
    /\ UNCHANGED <<creation, arg, working, mailbox, batch, saved, cache, jobs, stops>>

\* A done function has ended, with an error or without.
DoneReturns(t) ==
    LET f == frames[t][Len(frames[t])] IN
    /\ InLua(t) /\ f.kind = "done"
    /\ frames' = [frames EXCEPT ![t] = Below(t)]
    /\ IF heap[f.res] = "deleted" THEN fault' = "deleted" /\ UNCHANGED heap
       ELSE heap' = Delete(f.res, TRUE) /\ UNCHANGED fault
    /\ UNCHANGED <<creation, at, arg, working, mailbox, batch, result, saved, cache, jobs,
                   calls, stops>>

Reset(t) == SetResult(t, 0)

NodeEnds(t) ==
    /\ at[t] = "user" /\ frames[t] = <<>>
    /\ result' = Reset(t)
    /\ EndNode(t)
    /\ UNCHANGED <<creation, arg, working, mailbox, frames, lua, stops, fault>>

-----------------------------------------------------------------------------
(* waitstops.                                                              *)

\* The null job: a thread that takes no more nodes calls its null done_fn.
SendStop ==
    /\ exe[Main] /\ stops < Len(pthreads)
    /\ LET g == pthreads[stops + 1] IN
       \/ /\ working[g]
          /\ mailbox' = [mailbox EXCEPT ![g] = Append(@, [kind |-> "stop", p |-> 0])]
          /\ NotifyOne(g, at)
          /\ UNCHANGED fault
       \/ ~working[g] /\ fault' = "stop" /\ UNCHANGED <<mailbox, at>>
    /\ stops' = stops + 1
    /\ UNCHANGED <<creation, arg, working, batch, frames, result, lua>>

\* Everything sleeps or has ended.
Over ==
    /\ fault # "none" \/ \A t \in Threads : at[t] \in {"none", "sleep", "newsleep", "gone"}
    /\ UNCHANGED vars

Init ==
    /\ made = <<[by |-> Main, pool |-> 0, early |-> TRUE]>>
    /\ pthreads = <<Main>> /\ registered = <<Main>>
    /\ at = [t \in Threads |-> IF t = Main THEN "user" ELSE "none"]
    /\ arg = [t \in Threads |-> 0]
    /\ exe = [t \in Threads |-> FALSE] /\ working = [t \in Threads |-> TRUE]
    /\ mailbox = [t \in Threads |-> <<>>] /\ batch = [t \in Threads |-> <<>>]
    /\ frames = [t \in Threads |-> IF t = Main THEN <<Entry>> ELSE <<>>]
    /\ result = [t \in Threads |-> 0]
    /\ saved = [t \in Threads |-> <<>>]
    /\ cache = [t \in Threads |-> [n \in Names |-> None]]
    /\ jobs = <<>> /\ heap = [p \in Pushes |-> "none"] /\ calls = <<>>
    /\ stops = 0 /\ raced = FALSE /\ fault = "none"

Boot(t) == MapBegins(t) \/ SetExe(t) \/ NotifyExe(t)

Loop(t) ==
    \/ Sleep(t) \/ Take(t) \/ NodeEnds(t)
    \/ RunStop(t) \/ RunWork(t) \/ GetResult(t)
    \/ ReplyAccepted(t) \/ ReplyRejected(t)

\* Every Lua function ends.
Returns(t) ==
    \/ StartReturns(t) \/ DoneReturns(t)
    \/ (\E ok \in BOOLEAN : WorkReturns(t, ok)) \/ WorkPanics(t)

Continues(t) ==
    fault = "none" /\ (Boot(t) \/ WaitExec(t) \/ PushAccepted(t) \/ PushRejected(t)
                       \/ Loop(t) \/ Returns(t))

\* What a Lua function may do.
Calls(t) ==
    /\ fault = "none"
    /\ \/ NewThread(t)
       \/ \E n \in PoolSizes : NewPool(t, n)
       \/ \E g \in Threads, j \in AllJobs : PushJob(t, g, j)

Next ==
    \/ \E t \in Threads : Continues(t) \/ Calls(t)
    \/ fault = "none" /\ SendStop
    \/ Over

Spec == Init /\ [][Next]_vars

\* Some thread that has something to do goes on.  As threads and jobs are bounded, no
\* thread can keep the others from their turn for ever.
FairSpec == Spec /\ WF_vars(\E t \in Threads : Continues(t))

-----------------------------------------------------------------------------
\* The done function that runs is the one saved with the push, once, on the thread
\* that pushed and with the result of that push, unless the push or its result came
\* to a thread that had stopped.
CallbackOfPush ==
    \A i \in DOMAIN calls :
       LET c == calls[i] IN
       /\ jobs[c.p].turned = "no" =>
             c.on = jobs[c.p].home /\ c.cb = c.p /\ c.res = c.p
       /\ \A k \in DOMAIN calls : calls[k].p = c.p => k = i

\* A name that stands for one function everywhere gets that function run, whatever
\* the thread has cached.
OwnFunction ==
    \A p \in 1 .. Len(jobs) :
       /\ jobs[p].ran # None
       /\ \A q \in 1 .. Len(jobs) : jobs[q].name = jobs[p].name => jobs[q].fn = jobs[p].fn
       => jobs[p].ran = jobs[p].fn

\* No string is forgotten: it is under way to its thread or some thread has it as its
\* result.  None is deleted on its way, and none is missing or deleted a second time,
\* unless Lua pushed a job with a done function to a thread that had stopped.  Outside
\* of a node no thread has a result.
ResultsKept ==
    LET OnTheWay(p) ==
           \E t \in Threads :
              \/ \E i \in 1 .. Len(mailbox[t]) : mailbox[t][i] = [kind |-> "result", p |-> p]
              \/ \E i \in 1 .. Len(batch[t]) :
                    /\ batch[t][i] = [kind |-> "result", p |-> p]
                    /\ i > 1 \/ at[t] = "batch"
    IN
    /\ \A p \in 1 .. Len(jobs) :
          /\ jobs[p].id # 0 /\ OnTheWay(p) => heap[p] = "live"
          /\ heap[p] = "live" => OnTheWay(p) \/ \E t \in Threads : result[t] = p
    /\ fault \in {"null", "deleted"} =>
          \E p \in 1 .. Len(jobs) : jobs[p].turned = "push" /\ jobs[p].id # 0
    /\ \A t \in Threads : at[t] \in {"wait", "sleep", "batch", "gone"} => result[t] = 0

\* thread_map_ has one writer at a time when main.lua creates the threads, each with
\* newthread, which waits until the new thread has written.
OneWriter ==
    (\A g \in 2 .. Len(made) : made[g].by = Main /\ made[g].pool = 0 /\ made[g].early) => ~raced

\* newthread returns: neither the new thread's signal nor one of a push to it is lost.
NewthreadReturns ==
    \A t \in Creators :
       at[t] \in {"newthread", "newsleep"} ~> at[t] = "user" \/ fault # "none"

\* A push that is accepted runs, and its result comes back and is deleted, even when
\* threads are stopped meanwhile.
PushesEnd ==
    \A p \in Pushes :
       p <= Len(jobs) ~>
          \/ fault # "none"
          \/ /\ p <= Len(jobs)
             /\ \/ jobs[p].turned = "push"
                \/ jobs[p].ran # None /\ (jobs[p].id = 0 \/ heap[p] = "deleted")

\* No thread is left waiting for another, the creator for its thread or the pusher
\* for its result: the two share one condition variable.
AllReturn == NewthreadReturns /\ PushesEnd
=============================================================================
