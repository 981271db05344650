-------------------------------- MODULE Athd --------------------------------
(***************************************************************************)
(* The job scheduler athd: a.thread.h, a.thread.cpp and the C++ wrappers   *)
(* of athd.h.  Every registered thread runs exec(): it drains its mailbox  *)
(* under its own mutex and handles the drained nodes one by one.  A work   *)
(* node runs the user's work function and posts a result node to the       *)
(* mailbox of the sender; a result node counts the job down, runs the      *)
(* user's done callback and gives the job object back; a null node ends    *)
(* the loop.  A push that finds the receiver no longer working runs the    *)
(* done callback at once, on the pushing thread.                           *)
(*                                                                         *)
(* Abstractions.  A node is its contents: the node pool is a number of     *)
(* free nodes.  A job object is named by the push it was allocated for, so *)
(* that a use of a recycled object is a use of a job that is not live.     *)
(* The bound of the model is MaxPush, the number of user pushes.  User     *)
(* code pushes only from a start callback, a work function or a done       *)
(* callback that its own thread's loop runs; a done callback run by a      *)
(* rejected push does not push again.                                      *)
(***************************************************************************)
EXTENDS Integers, Sequences, FiniteSets, Functions

CONSTANTS
    Threads,        \* the thread_impl objects whose exec() runs
    Main,           \* main_thread_, the thread of aapp_run
    Stoppers,       \* threads outside athd that call athd_waitstops once
    Graceful,       \* do they wait for the pool to be idle before that?
    AappRun,        \* does Main call athd_waitstops after its exec()?
    PThreads,       \* md->pthreads_, in registration order
    AllThreads,     \* md->threads_
    LuaThreads,     \* md->lua_threads_
    Pool,           \* threads_ of one pool
    Pushers,        \* threads whose user code pushes jobs
    PushFrom,       \* the callbacks in which it does
    Ops,            \* the kinds of push it uses
    Cids,           \* consistency ids given to pool pushes, 0: round robin
    MaxPush,        \* bound: number of user pushes
    NodeCapacity,   \* nodes_.init
    JobCapacity     \* jobs_.init

NoProc == "none"
Procs  == Threads \cup Stoppers
JobIds == 1 .. MaxPush
NoJob  == 0

OpKinds == {"thread", "pool", "lua", "all"}

ASSUME ThreadsAssumption ==
    /\ Main \in Threads
    /\ Threads \cap Stoppers = {}
    /\ NoProc \notin Procs
    /\ Pushers \subseteq Threads
    /\ AappRun \in BOOLEAN /\ Graceful \in BOOLEAN
ASSUME RegistriesAssumption ==
    /\ \A s \in {PThreads, AllThreads, LuaThreads, Pool} :
          s \in Seq(Threads) /\ Len(s) > 0
ASSUME BoundsAssumption ==
    /\ PushFrom \subseteq {"start", "work", "done"}
    /\ Ops \subseteq OpKinds
    /\ Cids \subseteq Nat
    /\ MaxPush \in Nat
    /\ NodeCapacity \in Nat \ {0}
    /\ JobCapacity \in Nat \ {0}

VARIABLES
    pc,         \* where each process is
    ctx,        \* what the code it runs was called for
    call,       \* arguments of the push_job calls it still has to make
    queue,      \* job_head_ .. job_tail_ of each thread
    batch,      \* the drained list h .. t
    pos,        \* index of curr in the batch
    count,      \* the local variable count of exec
    jobCount,   \* job_count_ of the thread
    isWorking,  \* is_working_
    isStop,     \* is_stop_
    jobEnd,     \* the thread_local curr_job_end_
    freeNodes,  \* length of the free list of nodes_
    freeCount,  \* free_count_ of nodes_
    leaked,     \* nodes of rejected pushes, which nobody frees
    freeJobs,   \* length of the free list of jobs_
    legs,       \* job_count_ of each job
    index,      \* the round robin index of the pool
    mtx,        \* holder of md->mtx_
    fault,      \* undefined behaviour the program has run into
    pushes,     \* number of user pushes so far
    hist,       \* history of each job
    trace       \* history: jobs whose work function ran on each thread

mailVars == <<queue, batch, pos, count, jobCount>>
lifeVars == <<isWorking, isStop>>
nodeVars == <<freeNodes, freeCount, leaked>>
jobVars  == <<freeJobs, legs, pushes>>
histVars == <<hist, trace>>
vars == <<pc, ctx, call, mailVars, lifeVars, jobEnd, nodeVars, jobVars, index,
          mtx, fault, histVars>>

-----------------------------------------------------------------------------
(* A node, the arguments of the remaining pushes, and a job's history.     *)

Cell == {c \in [kind : {"work", "result", "stop"}, job : JobIds \cup {NoJob},
                 sender : Procs] :
            IF c.kind = "stop" THEN c.job = NoJob
            ELSE c.job \in JobIds /\ c.sender \in Threads}
Call == {c \in [kind : {"none", "work", "result", "stop"}, job : JobIds \cup {NoJob},
                to : Seq(Threads)] :
            c.job \in JobIds <=> c.kind \in {"work", "result"}}
\* state: unused, pushed or back in the pool; by and to: the push call;
\* dones: done callbacks run; finals: those that saw jobend() true;
\* at: where the done callbacks ran
History == [state : {"unused", "live", "freed"}, by : Procs, to : Seq(Threads),
            dones : Nat, finals : Nat, at : SUBSET Procs]

NoCall == [kind |-> "none", job |-> NoJob, to |-> <<>>]
Unused == [state |-> "unused", by |-> Main, to |-> <<>>, dones |-> 0,
           finals |-> 0, at |-> {}]

Pushed(p, to) == [state |-> "live", by |-> p, to |-> to, dones |-> 0,
                  finals |-> 0, at |-> {}]

Live(j) == j \in JobIds /\ hist[j].state = "live"
Curr(t) == batch[t][pos[t]]

\* Process p is at a point of its program; nothing goes on after a fault.
At(p, point) == fault = "none" /\ pc[p] = point

ControlType ==
    /\ pc \in [Procs -> {"user", "job", "lock", "node", "enq", "rej", "loop",
                         "next", "fin", "exit", "idle", "spin", "gone"}]
    /\ ctx \in [Procs -> {"start", "work", "done", "result", "stop"}]
    /\ call \in [Procs -> Call]
    /\ mtx \in Procs \cup {NoProc}
    /\ fault \in {"none", "null call", "use after free"}

ThreadType ==
    /\ queue \in [Threads -> Seq(Cell)]
    /\ batch \in [Threads -> Seq(Cell)]
    /\ pos \in [Threads -> Nat \ {0}]
    /\ count \in [Threads -> Int]
    /\ jobCount \in [Threads -> Int]
    /\ isWorking \in [Threads -> BOOLEAN]
    /\ isStop \in [Threads -> BOOLEAN]
    /\ jobEnd \in [Threads -> BOOLEAN]

PoolType ==
    /\ freeNodes \in Nat
    /\ freeCount \in Int
    /\ leaked \in Nat
    /\ freeJobs \in Nat
    /\ legs \in [JobIds -> Int]
    /\ index \in Nat
    /\ pushes \in 0 .. MaxPush

HistoryType ==
    /\ hist \in [JobIds -> History]
    /\ trace \in [Threads -> Seq(JobIds)]

\* Every variable has the type that the code gives it; in particular neither
\* pool ever hands out more nodes or jobs than it has.
TypeOK == ControlType /\ ThreadType /\ PoolType /\ HistoryType

Init ==
    /\ pc = [p \in Procs |-> IF p \in Threads THEN "user" ELSE "idle"]
    /\ ctx = [p \in Procs |-> IF p \in Threads THEN "start" ELSE "stop"]
    /\ call = [p \in Procs |-> NoCall]
    /\ queue = [t \in Threads |-> <<>>]
    /\ batch = [t \in Threads |-> <<>>]
    /\ pos = [t \in Threads |-> 1]
    /\ count = [t \in Threads |-> 0]
    /\ jobCount = [t \in Threads |-> 0]
    /\ isWorking = [t \in Threads |-> TRUE]
    /\ isStop = [t \in Threads |-> FALSE]
    /\ jobEnd = [t \in Threads |-> FALSE]
    /\ freeNodes = NodeCapacity
    /\ freeCount = NodeCapacity
    /\ leaked = 0
    /\ freeJobs = JobCapacity
    /\ legs = [j \in JobIds |-> 0]
    /\ index = 0
    /\ mtx = NoProc
    /\ fault = "none"
    /\ pushes = 0
    /\ hist = [j \in JobIds |-> Unused]
    /\ trace = [t \in Threads |-> <<>>]

-----------------------------------------------------------------------------
(* User code pushes a job.                                                 *)

\* The call is made: pvt::alloc_job now blocks in jobs_.alloc.
UserPush(p) ==
    /\ At(p, "user")
    /\ p \in Pushers
    /\ ctx[p] \in PushFrom
    /\ pushes < MaxPush
    /\ pushes' = pushes + 1
    /\ pc' = [pc EXCEPT ![p] = "job"]
    /\ call' = [call EXCEPT ![p] = [kind |-> "work", job |-> pushes + 1,
                                    to |-> <<>>]]
    /\ UNCHANGED <<ctx, mailVars, lifeVars, jobEnd, nodeVars, freeJobs, legs,
                   index, mtx, fault, histVars>>

\* job_count_ of a job: the number of threads it is pushed to.
MutantCountOne(to) == 1
JobCountOf(to) == Len(to)

\* The job object is there and its job_count_ is set to the number of threads
\* the job goes to; a broadcast still has to take md->mtx_.
StartPush(p, to, next) ==
    LET j == call[p].job IN
    /\ At(p, "job")
    /\ freeJobs > 0
    /\ freeJobs' = freeJobs - 1
    /\ legs' = [legs EXCEPT ![j] = JobCountOf(to)]
    /\ call' = [call EXCEPT ![p] = [kind |-> "work", job |-> j, to |-> to]]
    /\ hist' = [hist EXCEPT ![j] = Pushed(p, to)]
    /\ pc' = [pc EXCEPT ![p] = next]
    /\ UNCHANGED <<ctx, mailVars, lifeVars, jobEnd, nodeVars, pushes, mtx,
                   fault, trace>>

PushThread(p) ==
    /\ "thread" \in Ops
    /\ \E t \in Threads : StartPush(p, <<t>>, "node")
    /\ UNCHANGED index

\* ++index with cid 0; the sequence Pool starts at 1, the vector at 0.
PushPool(p) ==
    /\ "pool" \in Ops
    /\ \E cid \in Cids :
          LET idx == IF cid # 0 THEN cid ELSE index + 1 IN
          /\ index' = IF cid # 0 THEN index ELSE index + 1
          /\ StartPush(p, <<Pool[(idx % Len(Pool)) + 1]>>, "node")

PushLua(p) ==
    /\ "lua" \in Ops
    /\ StartPush(p, LuaThreads, "lock")
    /\ UNCHANGED index

PushAll(p) ==
    /\ "all" \in Ops
    /\ StartPush(p, AllThreads, "lock")
    /\ UNCHANGED index

\* The lock_guard waits for md->mtx_.
MutantNoLock == TRUE
MdIsFree     == mtx = NoProc

LockMd(p) ==
    /\ At(p, "lock")
    /\ MdIsFree
    /\ mtx' = p
    /\ pc' = [pc EXCEPT ![p] = "node"]
    /\ UNCHANGED <<ctx, call, mailVars, lifeVars, jobEnd, nodeVars, jobVars,
                   index, fault, histVars>>

-----------------------------------------------------------------------------
(* push_job, once for every thread in call[p].to.                          *)

Target(p) == Head(call[p].to)

\* The predicate that nodes_.alloc waits for.
HasFreeNode  == freeNodes > 0

\* nodes_.alloc returns; it waits for as long as the free list is empty.
AllocNode(p) ==
    /\ At(p, "node")
    /\ HasFreeNode
    /\ freeNodes' = freeNodes - 1
    /\ freeCount' = freeCount - 1
    /\ pc' = [pc EXCEPT ![p] = "enq"]
    /\ UNCHANGED <<ctx, call, mailVars, lifeVars, jobEnd, leaked, jobVars,
                   index, mtx, fault, histVars>>

\* This push is over.  The call goes on with the next thread, or returns: a
\* broadcast releases md->mtx_, exec goes on behind the push of a result,
\* athd_waitstops starts to poll, and user code goes on.
NextTarget(p) ==
    IF Len(call[p].to) > 1
    THEN /\ call' = [call EXCEPT ![p] = [kind |-> call[p].kind,
                                         job  |-> call[p].job,
                                         to   |-> Tail(call[p].to)]]
         /\ pc' = [pc EXCEPT ![p] = "node"]
         /\ UNCHANGED mtx
    ELSE /\ call' = [call EXCEPT ![p] = NoCall]
         /\ pc' = [pc EXCEPT ![p] = CASE ctx[p] = "result" -> "fin"
                                      [] ctx[p] = "stop"   -> "spin"
                                      [] OTHER             -> "user"]
         /\ mtx' = IF mtx = p THEN NoProc ELSE mtx

\* The new node goes behind job_tail_.
Link(q, c)            == Append(q, c)

\* Under the receiver's mutex: is_working_ is read and the node is linked in.
Enqueue(p) ==
    LET t == Target(p)
        c == [kind |-> call[p].kind, job |-> call[p].job, sender |-> p]
    IN
    /\ At(p, "enq")
    /\ isWorking[t]
    /\ queue' = [queue EXCEPT ![t] = Link(@, c)]
    /\ jobCount' = [jobCount EXCEPT ![t] = @ + 1]
    /\ NextTarget(p)
    /\ UNCHANGED <<ctx, batch, pos, count, lifeVars, jobEnd, nodeVars, jobVars,
                   index, fault, histVars>>

\* The receiver no longer works: the node is dropped and done_fn comes next.
Reject(p) ==
    /\ At(p, "enq")
    /\ ~isWorking[Target(p)]
    /\ leaked' = leaked + 1
    /\ pc' = [pc EXCEPT ![p] = "rej"]
    /\ UNCHANGED <<ctx, call, mailVars, lifeVars, jobEnd, freeNodes, freeCount,
                   jobVars, index, mtx, fault, histVars>>

-----------------------------------------------------------------------------
(* thread_done: the done callback of job j on thread p, and free_job.      *)

\* free_job gives the object back if the job is at its end.
MutantAlwaysFree(end) == freeJobs + 1
FreeJobsAfter(end)    == IF end THEN freeJobs + 1 ELSE freeJobs

\* What the history of j says after a done callback of j on p.
Done(j, p, end, state) ==
    LET h == hist[j] IN
    [state  |-> state, by |-> h.by, to |-> h.to, dones |-> h.dones + 1,
     finals |-> IF end THEN h.finals + 1 ELSE h.finals,
     at     |-> h.at \cup {p}]

Crash(why) ==
    /\ fault' = why
    /\ UNCHANGED <<pc, ctx, call, mailVars, lifeVars, jobEnd, nodeVars, jobVars,
                   index, mtx, histVars>>

\* The rejected push calls done_fn itself.  job_count_ is not counted down and
\* athd_jobend() is what the last result left in this thread.
RejectedDone(p) ==
    LET j == call[p].job
        end == jobEnd[p]
    IN
    /\ At(p, "rej")
    /\ call[p].kind # "stop"
    /\ Live(j)
    /\ hist' = [hist EXCEPT ![j] = Done(j, p, end, IF end THEN "freed" ELSE "live")]
    /\ freeJobs' = FreeJobsAfter(end)
    /\ NextTarget(p)
    /\ UNCHANGED <<ctx, mailVars, lifeVars, jobEnd, nodeVars, legs, pushes,
                   index, fault, trace>>

\* stop() passes a null done_fn, and the push calls it all the same.
NullCall(p) ==
    /\ At(p, "rej")
    /\ call[p].kind = "stop"
    /\ Crash("null call")

\* The callback uses a job object that is already back in the pool.
RejectedStale(p) ==
    /\ At(p, "rej")
    /\ call[p].kind # "stop"
    /\ ~Live(call[p].job)
    /\ Crash("use after free")

-----------------------------------------------------------------------------
(* exec(): the loop of a thread.                                           *)

\* User code returns: the start callback to the loop, a work function to the
\* push of its result, a done callback to thread_done's free_job.
StartReturns(p) ==
    /\ At(p, "user")
    /\ ctx[p] = "start"
    /\ pc' = [pc EXCEPT ![p] = "loop"]
    /\ UNCHANGED <<ctx, call, mailVars, lifeVars, jobEnd, nodeVars, jobVars,
                   index, mtx, fault, histVars>>

\* The result goes to the mailbox of the thread that pushed the job.
MutantReplyToSelf(p) == p
ReplyTo(p)           == Curr(p).sender

WorkReturns(p) ==
    /\ At(p, "user")
    /\ ctx[p] = "work"
    /\ ctx' = [ctx EXCEPT ![p] = "result"]
    /\ call' = [call EXCEPT ![p] = [kind |-> "result", job |-> Curr(p).job,
                                    to |-> <<ReplyTo(p)>>]]
    /\ pc' = [pc EXCEPT ![p] = "node"]
    /\ UNCHANGED <<mailVars, lifeVars, jobEnd, nodeVars, jobVars, index, mtx,
                   fault, histVars>>

DoneReturns(p) ==
    /\ At(p, "user")
    /\ ctx[p] = "done"
    /\ hist' = IF jobEnd[p] THEN [hist EXCEPT ![Curr(p).job].state = "freed"]
               ELSE hist
    /\ freeJobs' = FreeJobsAfter(jobEnd[p])
    /\ pc' = [pc EXCEPT ![p] = "fin"]
    /\ UNCHANGED <<ctx, call, mailVars, lifeVars, jobEnd, nodeVars, legs,
                   pushes, index, mtx, fault, trace>>

\* The predicate of cv_.wait, and the test that leaves the loop.
MutantWaitNode(t)   == queue[t] # <<>>
Wakes(t)            == queue[t] # <<>> \/ ~isWorking[t]
MutantEndAtOnce(t)  == ~isWorking[t]
LoopEnds(t)         == queue[t] = <<>> /\ ~isWorking[t]

\* Under mtx_: wait for a node or for the end, then take the whole list.
Drain(p) ==
    /\ At(p, "loop")
    /\ Wakes(p)
    /\ batch' = [batch EXCEPT ![p] = queue[p]]
    /\ queue' = [queue EXCEPT ![p] = <<>>]
    /\ count' = [count EXCEPT ![p] = jobCount[p]]
    /\ pos' = [pos EXCEPT ![p] = 1]
    /\ pc' = [pc EXCEPT ![p] = IF LoopEnds(p) THEN "exit" ELSE "next"]
    /\ UNCHANGED <<ctx, call, jobCount, lifeVars, jobEnd, nodeVars, jobVars,
                   index, mtx, fault, histVars>>

HasCurr(p) == At(p, "next") /\ pos[p] <= Len(batch[p])

RunWork(p) ==
    LET c == Curr(p) IN
    /\ HasCurr(p)
    /\ c.kind = "work"
    /\ Live(c.job)
    /\ trace' = [trace EXCEPT ![p] = Append(@, c.job)]
    /\ ctx' = [ctx EXCEPT ![p] = "work"]
    /\ pc' = [pc EXCEPT ![p] = "user"]
    /\ UNCHANGED <<call, mailVars, lifeVars, jobEnd, nodeVars, jobVars, index,
                   mtx, fault, hist>>

\* curr_job_end_, from the job_count_ that is left.
MutantNeverEnd(left) == left < 0
IsEnd(left)          == left = 0

RunDone(p) ==
    LET c == Curr(p)
        left == legs[c.job] - 1
    IN
    /\ HasCurr(p)
    /\ c.kind = "result"
    /\ Live(c.job)
    /\ legs' = [legs EXCEPT ![c.job] = left]
    /\ jobEnd' = [jobEnd EXCEPT ![p] = IsEnd(left)]
    /\ hist' = [hist EXCEPT ![c.job] = Done(c.job, p, IsEnd(left), "live")]
    /\ ctx' = [ctx EXCEPT ![p] = "done"]
    /\ pc' = [pc EXCEPT ![p] = "user"]
    /\ UNCHANGED <<call, mailVars, lifeVars, nodeVars, freeJobs, pushes, index,
                   mtx, fault, trace>>

\* A null job ends the loop, not the batch: is_working_ is cleared without
\* mtx_, and what is already in the mailbox is still handled.
RunStop(p) ==
    /\ HasCurr(p)
    /\ Curr(p).kind = "stop"
    /\ isWorking' = [isWorking EXCEPT ![p] = FALSE]
    /\ pc' = [pc EXCEPT ![p] = "fin"]
    /\ UNCHANGED <<ctx, call, mailVars, isStop, jobEnd, nodeVars, jobVars,
                   index, mtx, fault, histVars>>

RunStale(p) ==
    /\ HasCurr(p)
    /\ Curr(p).kind # "stop"
    /\ ~Live(Curr(p).job)
    /\ Crash("use after free")

\* The thread's job_count_ after curr: every node is counted down.
MutantSkipStop(p) ==
    IF Curr(p).kind = "stop" THEN jobCount[p] ELSE jobCount[p] - 1
CountDown(p) == jobCount[p] - 1

FinishNode(p) ==
    /\ At(p, "fin")
    /\ jobCount' = [jobCount EXCEPT ![p] = CountDown(p)]
    /\ pos' = [pos EXCEPT ![p] = @ + 1]
    /\ pc' = [pc EXCEPT ![p] = "next"]
    /\ UNCHANGED <<ctx, call, queue, batch, count, lifeVars, jobEnd, nodeVars,
                   jobVars, index, mtx, fault, histVars>>

\* The list h .. t that frees() splices in, and the count it is told.
MutantLoseTail(p)  == Len(batch[p]) - 1
Spliced(p)         == Len(batch[p])
FreesCount(p)      == count[p]

\* Only the whole batch goes back to the pool: frees(h, t, count).
Frees(p) ==
    /\ At(p, "next")
    /\ pos[p] > Len(batch[p])
    /\ freeNodes' = freeNodes + Spliced(p)
    /\ freeCount' = freeCount + FreesCount(p)
    /\ batch' = [batch EXCEPT ![p] = <<>>]
    /\ pos' = [pos EXCEPT ![p] = 1]
    /\ pc' = [pc EXCEPT ![p] = "loop"]
    /\ UNCHANGED <<ctx, call, queue, count, jobCount, lifeVars, jobEnd, leaked,
                   jobVars, index, mtx, fault, histVars>>

\* The end of exec().  Main returns to aapp_run, which calls athd_waitstops.
Exit(p) ==
    /\ At(p, "exit")
    /\ isStop' = [isStop EXCEPT ![p] = TRUE]
    /\ ctx' = [ctx EXCEPT ![p] = "stop"]
    /\ pc' = [pc EXCEPT ![p] = IF p = Main /\ AappRun THEN "idle" ELSE "gone"]
    /\ UNCHANGED <<call, mailVars, isWorking, jobEnd, nodeVars, jobVars, index,
                   mtx, fault, histVars>>

-----------------------------------------------------------------------------
(* athd_waitstops: a null job to every entry of pthreads_, then polling.   *)

\* athd_getpendingcount for the whole pool: the sum of the counters of threads_, as
\* the number of the nodes that they count.
MutantFirstOnly == jobCount[Pool[1]]
PendingCount ==
    Cardinality(UNION {{i} \X (1 .. jobCount[Pool[i]]) : i \in DOMAIN Pool})

\* The shutdown that the documentation recommends: no start callback pushes any
\* more, and the pool has no pending job.
MayShutDown ==
    /\ \A p \in Threads :
          ctx[p] = "start" =>
             pc[p] \notin {"user", "job", "lock", "node", "enq", "rej"}
    /\ PendingCount = 0

\* The threads that get a null job, in the order of pthreads_.
MutantStopTwice == PThreads \o PThreads
StopTargets     == PThreads

CallWaitstops(p) ==
    /\ At(p, "idle")
    /\ Graceful /\ p \in Stoppers => MayShutDown
    /\ call' = [call EXCEPT ![p] = [kind |-> "stop", job |-> NoJob,
                                    to |-> StopTargets]]
    /\ pc' = [pc EXCEPT ![p] = "node"]
    /\ UNCHANGED <<ctx, mailVars, lifeVars, jobEnd, nodeVars, jobVars, index,
                   mtx, fault, histVars>>

AllStopped(p) ==
    /\ At(p, "spin")
    /\ \A i \in DOMAIN PThreads : isStop[PThreads[i]]
    /\ pc' = [pc EXCEPT ![p] = "gone"]
    /\ UNCHANGED <<ctx, call, mailVars, lifeVars, jobEnd, nodeVars, jobVars,
                   index, mtx, fault, histVars>>

\* Not all of them have stopped: usleep and look again.
Poll(p) ==
    /\ At(p, "spin")
    /\ \E i \in DOMAIN PThreads : ~isStop[PThreads[i]]
    /\ UNCHANGED vars

-----------------------------------------------------------------------------
Push(p) ==
    \/ UserPush(p)
    \/ PushThread(p) \/ PushPool(p) \/ PushLua(p) \/ PushAll(p)
    \/ LockMd(p)
    \/ AllocNode(p)
    \/ Enqueue(p) \/ Reject(p)
    \/ RejectedDone(p) \/ NullCall(p) \/ RejectedStale(p)

Exec(p) ==
    \/ StartReturns(p) \/ WorkReturns(p) \/ DoneReturns(p)
    \/ Drain(p)
    \/ RunWork(p) \/ RunDone(p) \/ RunStop(p) \/ RunStale(p)
    \/ FinishNode(p) \/ Frees(p) \/ Exit(p)

Waitstops(p) == CallWaitstops(p) \/ AllStopped(p) \/ Poll(p)

\* A step of process p.
Step(p) == Push(p) \/ Waitstops(p) \/ (p \in Threads /\ Exec(p))

\* Every thread is over or waits for a node with an empty mailbox.
AtRest ==
    \A p \in Procs :
       \/ pc[p] = "gone"
       \/ p \in Threads /\ pc[p] = "loop" /\ queue[p] = <<>> /\ isWorking[p]

\* The program rests or has crashed: not a deadlock.
Rest ==
    /\ AtRest \/ fault # "none"
    /\ UNCHANGED vars

Next ==
    \/ \E p \in Procs : Push(p) \/ Waitstops(p)
    \/ \E t \in Threads : Exec(t)
    \/ Rest

Spec == Init /\ [][Next]_vars

\* The operating system runs every thread that can run, user callbacks
\* return, and a waiter on a mutex or a condition variable gets its turn.
Fairness == \A p \in Procs : WF_vars(Step(p))

FairSpec == Spec /\ Fairness

-----------------------------------------------------------------------------
(* Mailboxes and the node pool.                                            *)

\* Nodes that thread t has accepted and not finished, curr included.
Unhandled(t) == SubSeq(batch[t], pos[t], Len(batch[t])) \o queue[t]

\* job_count_ is decremented without the mutex, by the thread itself, and is
\* still the exact number of unfinished nodes; what exec() read into count is
\* the length of the list that frees() splices back.
CountExact ==
    \A t \in Threads :
       /\ jobCount[t] = Len(queue[t]) + Len(batch[t]) - pos[t] + 1
       /\ batch[t] # <<>> => count[t] = Len(batch[t])

\* free_count_ never drifts from the free list, although frees() adds a count
\* that was read from the thread before the batch was handled.
FreeCountExact == freeCount = freeNodes

\* Both counts together: athd_getpendingcount and every frees() rely on counters
\* that are read and written under different mutexes or none.
CountsExact == CountExact /\ FreeCountExact

\* The nodes in mailboxes and batches, and the pushers that have one in hand.
Held   == UNION {{t} \X (1 .. Len(batch[t]) + Len(queue[t])) : t \in Threads}
InHand == {p \in Procs : pc[p] = "enq"}

\* No node is lost or in two places: each is free, in a mailbox or batch, in the hand
\* of a pusher, or was dropped by a rejected push.
NodesConserved ==
    NodeCapacity = freeNodes + leaked + Cardinality(InHand) + Cardinality(Held)

\* A thread that reports is_stop_ has handled every node it ever accepted: the
\* push that saw is_working_ and the unlocked write that clears it never leave a
\* node behind in the mailbox.
StopDrains ==
    \A t \in Threads : isStop[t] => Unhandled(t) = <<>> /\ jobCount[t] = 0

-----------------------------------------------------------------------------
(* Jobs.                                                                   *)

\* The node a thread is at, until its job is passed on or counted down.
CurrPending(t) ==
    \/ pc[t] = "next"
    \/ pc[t] # "fin" /\ ctx[t] = "work"

\* The nodes and the pushes still to be made that refer to job j, as pairs of a
\* thread and a place.
InBatch(j) ==
    {c \in UNION {{t} \X (pos[t] .. Len(batch[t])) : t \in Threads} :
        /\ batch[c[1]][c[2]].job = j
        /\ c[2] = pos[c[1]] => CurrPending(c[1])}
InQueue(j) ==
    {c \in UNION {{t} \X DOMAIN queue[t] : t \in Threads} : queue[c[1]][c[2]].job = j}
ToPush(j) ==
    {c \in UNION {{p} \X DOMAIN call[p].to : p \in Procs} : call[c[1]].job = j}

Outstanding(j) ==
    Cardinality(InBatch(j)) + Cardinality(InQueue(j)) + Cardinality(ToPush(j))

\* As long as no push was rejected, the job's job_count_ is the number of nodes
\* and pushes that still refer to it, and nothing refers to a job whose object
\* is back in the pool: jobend() is true exactly for the last result.
LegsExact ==
    leaked = 0 =>
       \A j \in JobIds :
          IF Live(j) THEN legs[j] = Outstanding(j) ELSE Outstanding(j) = 0

Targets(j) == Range(hist[j].to)
Ran(j)     == {t \in Threads : j \in Range(trace[t])}

\* stop() never reaches a thread that has stopped working: the null done_fn of
\* the null job is never called.
NoNullCall == fault # "null call"

\* Thread t is in pthreads_ more than once, as newpool's are.
Repeated(t) ==
    \E i, k \in DOMAIN PThreads : i # k /\ PThreads[i] = t /\ PThreads[k] = t

\* A graceful stop rejects no job and no result: what a stopped thread rejects is
\* the null job that it gets for its second entry in pthreads_.  And no node meets
\* a job whose object was given back.
OnlyRepeatsRejected ==
    /\ fault # "use after free"
    /\ \A p \in Procs : pc[p] = "rej" => call[p].kind = "stop" /\ Repeated(Target(p))

\* No job object is in neither state, or given back twice.
JobsConserved ==
    freeJobs + Cardinality({j \in JobIds : Live(j)}) = JobCapacity

\* No callback of j was one of a rejected push, which does not count the job down.
Counted(j) == legs[j] + hist[j].dones = Len(hist[j].to)

\* Thread t runs the last done callback of j, behind which the object is given back.
InLastDone(t, j) ==
    /\ pc[t] \in {"user", "job", "lock", "node", "enq", "rej"}
    /\ ctx[t] = "done" /\ jobEnd[t] /\ Curr(t).job = j

\* What rejected pushes lose, and nothing else is lost, whatever stops in the middle
\* of what.  A rejected push loses its node, which nobody frees, and the count of its
\* job: the object is then never given back, or too early.  But each target of a job
\* is called back once, or a node or a push of it is still there; and a job of which
\* no push was rejected is not given back before that, and never left without a node,
\* a push or the callback that gives it back.
LossOnlyByRejection ==
    /\ NodesConserved /\ JobsConserved
    /\ \A j \in JobIds :
          /\ Outstanding(j) + hist[j].dones = Len(hist[j].to)
          /\ Counted(j) =>
                /\ hist[j].state = "freed" => Outstanding(j) = 0
                /\ Live(j) /\ Outstanding(j) = 0 => \E t \in Threads : InLastDone(t, j)

\* The done callback runs on the thread that pushed the job.
DoneAtHome == \A j \in JobIds : hist[j].at \subseteq {hist[j].by}

-----------------------------------------------------------------------------
(* Order.                                                                  *)

Position(j, t) == CHOOSE i \in DOMAIN trace[t] : trace[t][i] = j
RanBefore(i, j, t) ==
    /\ j \in Range(trace[t])
    /\ i \in Range(trace[t]) => Position(i, t) < Position(j, t)

\* Two broadcasts, even of different threads, run in the same order on every
\* thread that gets both: md->mtx_ is held over the whole loop of pushes.
BroadcastOrder ==
    \A i, j \in JobIds, t, u \in Threads :
       {i, j} \subseteq Range(trace[t]) /\ {i, j} \subseteq Range(trace[u])
       /\ Len(hist[i].to) > 1 /\ Len(hist[j].to) > 1
       => (RanBefore(i, j, t) <=> RanBefore(i, j, u))

-----------------------------------------------------------------------------
(* Liveness, under Fairness.                                               *)

\* Every pushed job is run, called back and given back, unless stop() calls the null
\* done_fn and the process ends.
EveryJobEnds ==
    \A j \in JobIds : Live(j) ~> hist[j].state = "freed" \/ fault = "null call"

\* athd_waitstops returns, once it polls.
WaitstopsReturns ==
    \A p \in Procs : pc[p] = "spin" ~> pc[p] = "gone"

-----------------------------------------------------------------------------
(* Without a stop the scheduler implements the promise of JobContract.     *)

ContractState == [unused |-> "unused", live |-> "live", freed |-> "over"]

JobView(j) ==
    [state |-> ContractState[hist[j].state],
     by    |-> hist[j].by,
     to    |-> Targets(j),
     ran   |-> Ran(j),
     dones |-> hist[j].dones,
     at    |-> hist[j].at,
     last  |-> hist[j].finals > 0]

Contract == INSTANCE JobContract WITH job <- [j \in JobIds |-> JobView(j)]

ContractSpec == Contract!Spec
=============================================================================
