# A TLA+ verification of the AAE actor framework

This directory is a verification development kept beside the code of the AAE
actor framework (`src/common/aa`): TLA+ modules translated from its C++ and Lua
sources, TLC configurations that check them on small instances, and proofs that
TLAPS checks for every instance.  Paths below are relative to the repository;
`aa/` stands for `src/common/aa/src/aa/`, `include/` for
`src/common/aa/include/`, `lib/` for `src/common/aa/lib/` and "the guide" for
`docs/AAE线程调度框架详细分析.md`.

## 1. Inventory

| part | source | state it keeps | operations | right when |
|---|---|---|---|---|
| **athd**, the scheduler | `aa/a.thread.cpp`, `aa/a.thread.h`, `include/athd.h` | per thread: mailbox `job_head_..job_tail_`, `job_count_`, `is_exe_`, `is_working_`, `is_stop_`; per pool: `threads_`, `index`; per process: `nodes_`, `jobs_`, `pthreads_`, `threads_`, `lua_threads_`, `pools_`, `mtx_`; thread locals `curr_job_restul_`, `curr_job_end_` | pushjob to a thread, a pool, all threads, all Lua threads; exec; waitstops; pending; setjobcapecity | each job runs once per target, in order, and is called back and freed at the right time; a stop loses nothing |
| object pools | `aa/a.thread.h:87-165` | free list, `free_count_` | init, alloc, free, frees | no object has two owners, no sleeper is forgotten |
| start and stop callbacks | `include/athd.h:85-136` | `start_`, `stop_`, `start_count_`, `stop_count_` of a thread or pool | thread_func with flag 1 and 2 | callbacks run, the counters do not wrap, the object goes last |
| **Lua jobs** and the creation of threads | `aa/a.thread.lua.cpp`, `lib/athd.lua`, `aa/a.thread.cpp:60-117` | per Lua state: work functions by name, done functions by id; result strings; `thread_map_` | newthread, newpool, pushjob, onwork, ondone | the right function runs with the right result, results are deleted once, newthread returns |
| **ahar**, messages | `aa/a.har.cpp`, `include/ahar.h`, `lib/ahar.lua` | handlers of each message id, the thread of each object, callbacks of each Lua state | listen, regmsg, enterct, leavect, sendto, svcbc | one order of messages, each handler once, objects where they are |
| **aapp**, start and stop of a process | `aa/a.app.cpp`, `src/common/app/app.lua` | - | aapp_run | smsg_ready after everybody has listened |
| **alog**, the logger | `aa/a.log.cpp`, `include/alog.h` | list of items, level, root, open files | print, log thread, setroot, stop, rotate | written once, in order, in the right file; stop waits for all |
| **aid**, ids | `aa/a.id.cpp` | `alg_ts_`, `seq_`, `epoch_`, `machine_` | aid_gen, crc32 | no id twice |
| **aargs**, parameters | `aa/a.args.cpp`, `aa/a.args.lua.cpp`, `include/aargs.h`, `lib/aargs.lua` | a map for each of six kinds, registered variables, buffers of vectors, Lua's copies | reg, set, get, parse, load, save, reload | everybody sees what was written last |
| **alua**, Lua bridge | `include/alua.h`, `aa/a.lua.cpp` | the stack of one `lua_State` | call, require, loadfile, C functions, conversions | stack restored, errors told from results, values kept |
| asig, signals | `aa/a.signal.cpp` | pending signal | wait (nothing calls it) | - |
| stack traces, clock, debugger | `aa/a.log.stack.cpp`, `tscns.h`, `LuaPanda.lua` | - | third party or formatting | - |

How they interact.  Everything that runs at the same time runs on an athd thread
(or on the logger's thread).  User code, Lua code and ahar reach another thread
only by pushing a job: the job object comes from `jobs_`, each push takes a node
from `nodes_` and links it into the receiver's mailbox under the receiver's own
mutex; the receiver runs the work function and pushes the result back to the
sender, whose loop runs the done callback.  ahar and the Lua wrappers are
clients of athd; alua is below every call between C++ and Lua; alog, aargs and aid
are called by every thread and keep their own atomics and mutexes.

What is hard.  Counters that one thread changes outside the mutex under which
the others read them; a pool of nodes that everybody waits for while everybody
holds some; a stop that races with pushes; a broadcast of which some legs are
rejected; thread-local "current job" state that a nested call sees; a condition
variable at which two threads wait for different things; ids made by several
threads from two atomics; start and stop callbacks counted down by several threads;
a logger that must write everything before it stops; pointers that leave a mutex;
objects that move while messages to them are under way; errors that look like
results.

## 2. Modules, and the plan that is left

| module | what | abstract specification | proofs | section |
|---|---|---|---|---|
| `Athd` | the scheduler | `JobContract` | `AthdProofs` | 3 |
| `NodePool` | `list<Node>`, pointer by pointer | `ObjectPool` | `AthdPartsProofs` | 4 |
| `AidGen` | `aid_gen`, atomic by atomic | | `AidGenProofs` | 5 |
| `ThreadData` | `thread_func`, atomic by atomic | | `AthdPartsProofs` | 6 |
| `Alog` | list of items, log thread, setroot, stop | | `AlogProofs` | 7 |
| `LuaJobs` | creation of threads, pushes from Lua | | `LuaJobsProofs` | 8 |
| `Ahar` | messages, objects, the start of a process | | `AharProofs` | 9 |
| `Aargs` | parameters | | `AargsProofs` | 10 |
| `Alua` | calls between C++ and Lua | | `AluaProofs` | 11 |

Each has an `MC...` module, which gives the constants that a configuration cannot
write, and one configuration for each question (five for `Athd`, two for `Alog` and
`Aargs`).  `Athd` takes from
`NodePool` that a pool is a number of free objects (`ObjectPool`), and `LuaJobs` and
`Ahar` take from `Athd` that a mailbox is first in, first out (`JobContract`).

`AthdPartsProofs` has the proofs about the two parts of `athd.h` that stand alone; it
extends the modules of both, so the specification of `ThreadData` has names of its own
(`TDSpec`, `TDInit`, `TDNext`).

Left to do: `athd_getpendingcount` counter by counter; `setjobcapecity`.

Every module has a type invariant, `TypeOK` or `TDTypeOK`.  It is proved for all but
`Alua` (`TypeCorrect`, `TDTypeCorrect`); no configuration spends a place on it, and each
can be added to one as an `INVARIANT`, which TLC then confirms.

## 3. The scheduler: `Athd`, `JobContract`, `MCAthd`

### State and actions

A process of `Athd` is a thread that runs `exec()` or an outside thread that
calls `athd_waitstops` (`Stoppers`).  `pc` is the point of the program it is at,
`ctx` what that code was called for (the start callback, a work function, a done
callback, the push of a result, the pushes of waitstops) and `call` the pushes it
still has to make.  The other variables are fields of the code and carry their
names.  An action is the code between two points where another thread can see
or change something: a lock, an atomic, a blocking wait, a user callback.

| actions | code |
|---|---|
| `UserPush`, `PushThread`, `PushPool`, `PushLua`, `PushAll` | `alloc_job`, `athd_allocjob`, `athd_pushtjob`, `athd_pushpjob` |
| `LockMd` | the `lock_guard` on `md->mtx_` of the two broadcasts |
| `AllocNode`, `Enqueue`, `Reject`, `RejectedDone`, `NullCall`, `RejectedStale` | `thread_impl::push_job` |
| `StartReturns`, `WorkReturns`, `DoneReturns` | user code returns to `exec`, or to `thread_done` and `free_job` |
| `Drain`, `RunWork`, `RunDone`, `RunStop`, `RunStale`, `FinishNode`, `Frees`, `Exit` | `thread_impl::exec` |
| `CallWaitstops`, `AllStopped`, `Poll` | `athd_waitstops` |

A node of the pool is represented by its contents where it is used; the pool by
the number of free nodes.  A job object carries the number of the push it was
allocated for, so a use of an object that has gone back to the pool shows as a
use of a job that is not live; it, and a call of a null function pointer, ends
the behaviour with `fault`.  `hist` and `trace` are history variables.  What the
node and job names, results and timeouts contain is left out.

In this and the other modules, a definition called `Mutant...` is a deliberately
wrong variant of the definition that follows it.  No specification uses one: they
are there to show that each property fails when the code is wrong in that way.

`JobContract` is what the user is promised, in one variable: work once per
target in the order of the pushes, one done callback per target on the pushing
thread, the last callback told so, the job alive until then.  `Athd` implements
it, by the mapping at the end of the module, as long as nobody stops a thread.

### Runs

| run | instance | shows |
|---|---|---|
| `athd_jobs` | two threads push and broadcast from all callbacks | `LegsExact`: `job_count_` of a job is the number of nodes and pushes that refer to it; `BroadcastOrder`: one order of broadcasts; `ContractSpec`: refinement of `JobContract`, with per-sender order |
| `athd_stop` | an outside thread stops everybody at any moment, a thread registered twice | `CountsExact`: the counters stay exact; `LossOnlyByRejection`: what rejected pushes lose, and that nothing else is lost or given back early; `StopDrains`: a stopped thread is empty |
| `athd_graceful` | three threads, the two of a pool registered twice, three nodes, stop after `pending() == 0` | `OnlyRepeatsRejected`, `DoneAtHome`: no job and no result is rejected, no stray callback; `EveryJobEnds`, unless the null call ends the process; `WaitstopsReturns` |
| `athd_app_exit` | main's `exec` ends, then waitstops | `NoNullCall` fails: null done_fn called (`aa/a.app.cpp:94`, where the comment above promises a graceful exit) |

Properties that these runs check only for a graceful stop fail otherwise, and the
model shows how.  With `Graceful = FALSE`:

- `DoneAtHome` fails: a push to a stopped thread runs done_fn at once, on the
  thread that pushes; for the push of a result that is the receiver, not the
  sender as guide:1731 says.
- A job is freed too early in a broadcast to all threads, pushed in a done callback, of
  which a leg is rejected: `thread_done` of that leg asks `athd_jobend()`, which
  still answers for the callback around it, and the job goes back to the pool while
  its other nodes are out (guide:1705 says it is released when `jobend()` is true).
- A job stays for ever: a rejected leg of a broadcast is never counted down,
  so `job_count_` does not reach 0 and the final callback of guide:189 never comes.
- The node of every rejected push is lost (`leaked`): nobody frees it
  (`aa/a.thread.cpp:229-232`).

The first is excluded from `athd_stop`; the other three are its subject.
`LossOnlyByRejection` calls a job `Counted` as long as none of its pushes ended in a
callback that does not count down.  It says that the number of nodes and pushes that
refer to a job and the number of callbacks that ran are together the number of its
targets, always; and that a counted job is given back after the last of them and, when
none is left, somebody is in the callback that gives it back.  For a job that is not
counted, no such promise can be made: its object may go back early (the use of it shows
as the fault "use after free") or never.

The graceful stop has a gap too.  `newpool` registers its threads twice
(`aa/a.thread.cpp:251` and `:385`), so each gets two null jobs, and if it takes the
first before the second is pushed the second is rejected: `push_job` calls its done_fn,
which is null.  This is the stop that guide:1767-1778 calls correct
(`// 正确的停止流程`: wait until `pending()` is 0, then `athd::waitstops()`).
`athd_graceful` has that registry: it shows that nothing else goes wrong, and that this
does is what TLC answers when `NoNullCall` is checked in its place.

A done callback that a rejected push runs is user code like any other and could push
again; the model leaves that out, and so user code pushes only from callbacks that its
thread's loop runs.

Bounds.  Two or three threads, one outside thread, two user pushes (`MaxPush`).
Two threads give every pair of sender and receiver, including a thread with
itself, and broadcasts that both see; `athd_graceful` takes a third, so that the
pool has two members and two threads can wait for the nodes that a third returns.
A stopped thread, a full pool and a nested push all need one or two jobs.
`NodeCapacity` is 20 where the pool is not the question, more than all nodes ever
in use, and small in `athd_graceful`.  With fewer nodes than threads that push at the
same time, and no stop, TLC finds the state in which every thread waits in
`nodes_.alloc` (`aa/a.thread.h:102`) and nobody comes to `frees`: a thread gives nodes
back only with its whole batch, and it pushes results in the middle of it.
`EveryJobEnds` of `athd_graceful` says that three nodes are enough there.

`athd_getpendingcount` is read in one step, although the code adds the counters of the
threads of a pool one after another: a job that moves between two of them may be
missed, which the model does not show.

Fairness.  `WF(Step(p))` for every process: the operating system schedules each
runnable thread, user callbacks return, and a condition variable with
`notify_all` or with a single waiter does not forget a waiter.  No strong
fairness is assumed.

Deadlock is checked in all runs.  A program that rests (all mailboxes empty) or has crashed may stutter by
`Rest`.

### Proofs: `AthdProofs`

For every value of the constants that satisfies the three named assumptions of
`Athd`, in the order in which the results rest on each other:

| theorem | property | invariant |
|---|---|---|
| `TypeCorrect`, `CountsAreExact`, `StoppedIsEmpty` | `TypeOK`, `CountsExact`, `StopDrains` | `IInv` |
| `LossIsByRejection`, `CounterIsExact` | `LossOnlyByRejection`, `LegsExact` | `JobInv` |
| `BroadcastsAreOrdered` | `BroadcastOrder` | `OrderInv` |
| `OnlyRepeatsAreRejected`, `DoneComesHome`, under `SafeUse` | `OnlyRepeatsRejected`, `DoneAtHome` | `SafeInv` |
| `KeepsTheContract`, under `SafeUse` and `DistinctTargets` | `ContractSpec` | `ContractInv` |

- `IInv`.  Types and both counters are not inductive alone, because what
  `FinishNode` and `Frees` do depends on where the thread is in its batch.
  `CallInv` says which pushes each kind of code can have in hand, `BatchInv` ties
  `pc` and `ctx` to the batch and to the node at hand, `LifeInv` ties `is_working_`
  and `is_stop_` to the end of the loop.
- `JobInv`.  `KnownInv` says that every node and every push in hand refers to a job
  that has been pushed, by the thread that the node says (`CellInv`, `PushInv`), and
  that jobs still to come are untouched (`FreshInv`); `HomeInv` is `DoneAtHome` for
  counted jobs.  `LegsInv` is the account of each job: the nodes and pushes that refer
  to it, each in one place, and the callbacks that ran are its targets, and a rejected
  leg leaves `job_count_` too high, so that a counted job is one of which no leg
  was rejected.  `EndInv` is why a job is freed once: two
  threads are never both in the last callback of a job; `LastInv` is why it is not
  forgotten: a live job that is counted down to 0 has somebody in that callback.  `HeldInv` and
  `JobsConserved` add up nodes and jobs.  The sums are cardinalities of sets of
  places; each action adds a place, takes one away, or moves one.
- `OrderInv`.  A broadcast is put on all its targets while its pusher holds `mtx_`.
  So the one that is being put there is the latest on every thread that has it, and
  two broadcasts stand in one order on all threads that have both.  This needs
  no condition: it holds with rejected legs and with threads registered twice.
- `SafeInv`.  `SafeUse` is how the pool has to be used for a stop: one outside
  thread stops it, gracefully and once, all work goes
  to threads of the pool, and threads outside the pool do not push from done
  callbacks; if nobody stops it, it asks for nothing.  It asks nothing of the registry,
  which may have any thread any number of times.  The argument: `pending() == 0` means that no
  thread of the pool has work, results or callbacks left (`DownInv`), so that null
  jobs are the last things each gets, and nothing else is pushed to a thread that
  has stopped (`UseInv`).  `StopInv` says how far the stopper has come in `pthreads_`: what
  it still has to push to is the rest of the registry (`RestOf`), and a thread that has
  met a null job is one of those before (`Sent`), so that a rejected one is registered
  again.  `AllCounted` goes with it: no job lost its count.  The instances `athd_jobs`
  and `athd_graceful` satisfy `SafeUse`.
- `ContractInv`.  `DeliveryInv`: each job comes to each of its targets once
  (`OnceInv`), to those at which its pusher has arrived (`SentToAll`), the job in
  hand is the newest of its sender (`Newest`), and earlier jobs of a sender
  are not behind later ones (`FifoInv`); `CountInv`: `job_count_` and the
  callbacks that ran are together the number of targets.  `DistinctTargets` says that
  a broadcast does not go to one thread twice, because `JobContract` counts targets as
  a set.  The refinement is then shown step by step: `StartPush`, with which a
  user's push takes its job object, is `Submit`, `RunWork` is `Work`, `RunDone` is `Callback`, the `DoneReturns`
  of the last callback is `Retire`, and every other step stutters.

There is one lemma per action and invariant; frame lemmas cover what an action leaves
alone.  Only liveness (`EveryJobEnds`, `WaitstopsReturns`) is left to TLC.

## 4. Object pools: `NodePool`, `ObjectPool`, `MCNodePool`

`list<Node>` keeps its free objects in a list threaded through the objects
themselves.  `Athd` has only their number; `NodePool` has the pointers: `next` is
`next_` of each node, `free` and `freeCount` are `free_` and `free_count_`, and
`chain[p]` the nodes that a thread has taken and linked one behind the other, as
`push_job` does in a mailbox.  `list` is a history variable, the free list as a
sequence.

`Alloc` and `Sleep` are the two outcomes of `cv_.wait` in `alloc`, `LinkNode` what
`push_job` does with the node, `Free` and `Frees` the locked parts of `free` and
`frees`.  Their notify calls come behind the unlock and are actions of their own,
`NotifyOne` and `NotifyAll`, so every other thread can come in between.  A
condition variable may wake a waiter for no reason (`WakeSpuriously`).  `alloc_for`
is a member template that nothing instantiates.

| run | instance | shows |
|---|---|---|
| `pool_list` | three threads, three nodes | `Linked`: the pointers; `NoLostWakeup`: no sleeper is forgotten; `PoolSpec`: refinement of `ObjectPool` |

Three nodes give chains of every length on both sides and a free list that others
take from and give to in turn; three threads give a sleeper, a thread that frees
and one that takes the node before the sleeper gets it.  No fairness is needed:
all properties are safety.

`ObjectPool` says who owns which object.  `NodePool` maps to it with the objects
that are reachable from `free_`, so it holds only while the pointers are right.

Proved in `AthdPartsProofs` for every capacity and every finite set of threads:
`TypeCorrect`, `PointersLinked`, `WakeupsSuffice`.  `ListInv` is inductive: no node
is in two places (`OnceEach`), each list is linked as its sequence says (`Linked`),
and a node just allocated is still to be linked (`HalfLinked`).  `NoLostWakeup` is
inductive beside it: each action changes the number of free nodes and the number
of threads that are awake or about to wake one by amounts that balance.

`ImplementsThePool` is the refinement of `ObjectPool`.  What is reachable from `free_`
is defined by a recursive function, `Walk`, and the library's induction over numbers
cannot be used here.  `FirstNumbers` replaces it: a set that has 0 and with each number
up to `N` the next has them all, which follows by counting.  With it `WalkList` shows
that `Walk` visits `list`, so that the free objects of `ObjectPool` are its
elements; then `Alloc` is `Take`, `Free` and `Frees` are `GiveBack`, and linking,
notifications and wakeups stutter.

## 5. Ids: `AidGen`, `MCAidGen`

`aid_gen` reads the clock, loads `alg_ts_`, takes a number from `seq_` and, when
the numbers wrap, stores the clock in `alg_ts_`.  Each of these is an action
(`ReadClock`, `LoadTs`, `FetchAdd`, `StoreTs`, `Return`), `wait_until` is `WaitUntil`
or the exception `NeverAdvances`.  `Tick` and `SetBack` are the system clock.  The
widths of the three parts of an id are constants; `PerMs` bounds how many calls
begin within one millisecond, `MaxCalls`, `MaxClock` and `Backs` bound the rest.
`aid_crc32`, in the same file, is a table computation without state.

| run | instance | shows |
|---|---|---|
| `aid_gen` | two threads, any rate, the clock set back twice | `RoundUnique`: ids of one round of sequence numbers differ; `NeverFails`: a call fails only for the clock; `Increasing`: ids grow, and so never repeat, while calls are `orderly` |

`orderly` is a history variable: it stays true as long as calls come one after the
other, no more of them begin in a millisecond than there are sequence numbers, and the
clock is not set back.

When calls are not orderly an id can repeat in three separate ways:

- More ids than sequence numbers in a millisecond: the
  wrap finds the clock where it was, and nobody waits for the next millisecond
  (`aa/a.id.cpp:174`, against the comment at `:170`).
- The clock is set back and comes to the same time twice.
  `real_ts < alg_ts` does not notice it, since `alg_ts_` is only the time of the last
  wrap; `max_backward_ms`, which `aa/a.id.cpp:27` documents, is used nowhere.
- Two threads at a low rate: one loads `alg_ts_`, another wraps `seq_` and stores a
  new time, and the first takes a number of the new round for the old time
  (`aa/a.id.cpp:161`, against the comment at `:170`).

With two sequence numbers, five calls already wrap them twice;
that, and one time reused, is all the failures need.  There is no fairness.  That a call
which waits for the clock comes back is not checked: it rests on the wall clock.

Proved in `AidGenProofs`, for any widths, threads and clock: `TypeCorrect`,
`FailsOnlyOnSetBack`, `RoundsAreUnique`.  `TimeInv` says that no time anybody has
read is ahead of the clock by more than it was set back; `SeqInv` that each value
of `seq_` is with one call or in one id.

`OrderlyIdsIncrease` is `Increasing`.  While calls are orderly one call is under way
(`OneCall`), it works with the time it read (`CallReads`), the sequence numbers of this
round that belong to a millisecond are no more than the calls that began in it
(`RoundRate`), so that a full round meets a later clock, and every id made is below the
one in the making (`IdsBelow`).  Its hypothesis `Fits` says that times fit into their
part of an id: with 41 bits of milliseconds that is true for 69 years from the epoch,
and after them the ids begin again from below.

## 6. Start and stop callbacks: `ThreadData`, `MCThreadData`

The threads of a pool share one `tdata`.  Each calls `thread_func` with flag 1
before its loop and with flag 2 behind it; the last one to start drops `start_`, the
last one to stop deletes the `tdata`.  The decrement of a counter and the test
whether it is 0 are separate atomic operations, so they are separate actions
(`StartDec`, `StartRead`; `StopDec`, `StopRead`).  Undefined behaviour ends the
behaviour of the model with `fault`: two accesses to `start_` at once of which one
assigns (`Race`), an access to a deleted `tdata` (`UseAfterFree`), a call of an
empty function (`EmptyCall`).

| run | instance | shows |
|---|---|---|
| `tdata_pool` | three threads, every choice of callbacks | `StartRuns`: start callbacks run; `DeletedAtEnd`: the `tdata` goes after the last thread has counted down |

What the code does not promise, TLC shows with the same configuration: two threads
that decrement `stop_count_` before either tests it (`include/athd.h:129-130`) both see
0 and both delete, which `fault` records as a use after free, against
`docs/athd_cpp_vs_lua_usage.md:509`.

That the stop callback runs on a thread that stops (`StopRuns`, in no configuration)
fails in every instance with a stop callback: with flag 2 `thread_func` tests `start_` and not `stop_`
(`include/athd.h:125`), and the last start has emptied it, so the stop callback that
`docs/athd_cpp_vs_lua_usage.md:156` passes does not run.

Three threads are one more than the smallest number with a race between two.  All
properties are safety, there is no fairness; a program whose threads are gone or
that has failed may stutter (`Over`).

Proved in `AthdPartsProofs` for every finite set of threads and every choice of
callbacks: `TDTypeCorrect`, `StartCallbackRuns`, `DeletedWhenAllStopped`.  The
inductive invariant says that each counter is the number of threads that are still
to decrement it.

## 7. Logger: `Alog`, `MCAlog`

Threads that print (`Printers`) append items to a list under `mtx_`; the log thread
takes the whole list (`GetItems`) and writes it item by item outside the mutex
(`Write`; an exception in between is caught, and the item goes to the screen).  Main sets
the root, before which nothing is written, and stops the logger
at exit: `is_runing_` is cleared (`Stop`), an item of time 0 appended (`StopAppend`),
the thread joined (`Join`) and what is left deleted (`DeleteRest`).

An item carries its file, level and time stamp in hours; its text is left out.
`opened` is the file that is open for each log file, named by level and hour as
`rotate_file` does; `fopen` may fail, and then the item goes to the screen.  The
condition variable has one waiter: `Blocks` is the test under the mutex,
`FallsAsleep` the moment it starts to wait, and `SetRoot` and `SetRootNotify` come
between them because `alog_setroot` does not take the mutex.

`fault` marks two things that the code does not exclude: `alog_addfile` moving
`log_files_` while the log thread reads it (`WriteRace`), and a call of `alog_print`
that passed the test of `is_runing_` and reaches the list when `stop()` deletes it or
the logger is destroyed (`AppendLate`).  The behaviour goes on, so that what the
properties say holds in spite of them.

| run | instance | shows |
|---|---|---|
| `alog_stop` | two threads, two files, two levels, days of two hours, of which the second begins; root set or not; stop at any moment | `InOrder`: processed once and in order; `RightFile`; `NothingLost`: stop waits for all before it; `StopReturns` |

The wakeup of `alog_setroot` can be lost (`aa/a.log.cpp:320`): `is_settings_` is set and
notified between the log thread's test and its sleep, and what is in the list stays
there until somebody prints again.  `stop()` still gets everything written.
`DayHours` is 2 and the clock
goes to hour 3, the last of a second day.  The file is reopened only when
the hour of the day differs (`aa/a.log.cpp:85`), so an item that comes a whole
number of days after the last one of its file goes to the file of the old day, against
the hourly files (每小时一个日志文件) of `src/common/aa/doc/02 提示词：log.txt:115`.  This is
`HourlyFiles`, which no run checks, because it fails on such a clock.  `RightFile` says how far
this goes: a file may stay open from another day as long as only items of its level and of
that hour of the day have come to it since.

Two printed items suffice for one before and one behind the end item, for two in
the wrong order of time, and for a change of file between any two levels and hours.

Fairness.  Weak fairness of the log thread, of the calls that have begun and of
`stop()` once it has begun: the scheduler runs them.  No thread has to print and main
does not have to end.  Spurious wakeups have no fairness.

Proved in `AlogProofs`, for any threads, files, levels, hours and bounds:
`TypeCorrect`, `CountIsExact`, `WrittenInOrder`, `StopWaitsForAll`.  The inductive
invariant follows each item through its stages: `FlowInv` says that the i-th item
that came into the list is at the place of index i in what is written, in hand and
in the list, one after another, until the end item is met, and that afterwards what
is written are the items before it; `EndInv` that there is one end item.

`FilesAreRight` is `RightFile`, for a program that runs for any time; `FileInv` says of
each open file which item opened it and that it has had items of one level and hour of
the day since.  `HourlyOnTheFirstDay` is `HourlyFiles` under `OneDay`, that the clock
stays within one day.  `StopReturns` is liveness and model-checked only.

## 8. Lua jobs and the creation of threads: `LuaJobs`, `MCLuaJobs`

`Athd` has a fixed set of threads that have reached their loop.  `LuaJobs` has what
comes before and what is built on it: `newthread` and `newpool`, `exec` up to its
loop, and the pushes of `lib/athd.lua`, whose work functions and done functions are
kept in tables of the Lua states.

`at` is where a thread is, `frames` the Lua functions under way on it (an entry
script, a work function, a done function, and the done functions of pushes that are
rejected inside it).  `made`, `pthreads` and `registered` say who was created and is
known; `saved` and `cache` are `done_fns` and `work_fns` of a Lua state; `heap` tells of
each result string whether it is there; `result` is `curr_job_restul_`.

| actions | code |
|---|---|
| `NewThread`, `WaitExec`, `NewPool` | `new_thread`, `wait_exec`, `newpool` and `new_pool` |
| `MapBegins`, `SetExe`, `NotifyExe`, `StartReturns` | the beginning of `exec` |
| `PushJob`, `PushAccepted`, `PushRejected` | `athd.pushtjob` in Lua, `lua_pushjob`, `push_job` |
| `Sleep`, `Take`, `RunWork`, `WorkReturns`, `WorkPanics`, `ReplyAccepted`, `ReplyRejected`, `GetResult`, `DoneReturns`, `RunStop`, `NodeEnds` | the loop of `exec`, `work_fn`, `done_fn`, `onwork`, `ondone` |
| `SendStop` | `waitstops`, called from a C++ thread |

| run | instance | shows |
|---|---|---|
| `lua_jobs` | main and two threads, one by one or as a pool, two pushes, stops | `CallbackOfPush`: the done function of a push runs at most once (`calls` is the sequence of all runs), and at home, with its own result; `OwnFunction`: the function pushed is the one that runs; `ResultsKept`: no string is lost or deleted twice; `OneWriter`: `thread_map_` has one writer; `AllReturn`: `newthread` and every push come to an end |

Bounds.  Three threads are two that main creates one after another or a pool at once,
so that two can start at the same time.  Two pushes give a nested push, a repeated
name and an answer that crosses a question.  `MaxBoth` lets TLC take all threads and
one push, or two threads and both pushes.  `PoolArray` (100 in the code) is 2, and the
pool just fits.

Fairness.  Weak fairness of one formula: some thread that can go on goes on.  It is
weaker than fairness of each thread, and enough because threads and pushes, and with
them the steps of every thread, are bounded.  No call of user code is fair, but
every Lua function returns, except inside `newthread` while it waits.

What the model shows and the properties exclude by their conditions:

- The name of a job is documented as used for a warning about timeouts
  (`lib/athd.lua:76`) but is the key under which the receiver keeps the work
  function (`lib/athd.lua:10`): a second function under a name never runs there.
- The done function of a push to a stopped thread runs inside the push and takes the result
  of the job around it, if any, as its own, and deletes it
  (`aa/a.thread.lua.cpp:111`); a result that its home thread no longer takes calls
  `ondone` on the wrong Lua state (`aa/a.thread.lua.cpp:118`).
- A work function that fails leaves the text of its error as the result; `ondone` cannot
  unpack it, and the done function is not called.  If the error is no text, a table
  say, `debug.traceback` leaves it as it is, and reading it as a string
  (`include/alua.h:285-293`) is a second error outside `lua_pcall`, which ends the process
  (`WorkPanics`).
- With a pool larger than the array, `new_pool` registers 100 uninitialised places,
  since `athd_getpoolthreads` fills none (`aa/a.thread.lua.cpp:58`); `PoolThreads` has 0 for them.
- Threads that are created by different threads, by start scripts that run beside
  main's, or as a pool write `thread_map_` at the same time (`aa/a.thread.cpp:100`).
- A pool's threads stand twice in `pthreads_`, and their second stop calls a null
  function when the first has been taken (`fault = "stop"`).

Proved in `LuaJobsProofs` for any numbers of threads and pushes and any jobs:
`WaitingIsEnough`, that main alone, with `newthread`, never lets two threads write
`thread_map_` at once.  The invariant behind it: a thread other than main that has
not passed `SetExe` is the one for which main waits in `newthread` (`WaitInv`), so that
there is no other and main itself does not write; and a thread has set `is_exe_` exactly
when it has written (`BornInv`), so that the wait ends no earlier.

`CallbacksAreRight`, `NamesAreRight` and `ResultsAreKept` are `CallbackOfPush`,
`OwnFunction` and `ResultsKept`.  None of them is inductive, and their invariant
`JobInv` is the largest of this development:

- `StageInv` ties the place of a thread in the loop to the Lua functions under way on
  it and to `curr_job_restul_`;
- `OnePlace` says that a push that has not come to its end is in one place (`Spots`):
  with the thread that pushes it, in a mailbox or in a batch; `TokenInv` that it
  is in one as long as it has no end;
- `ReplyInv` follows a result from its work function to the done function,
  `SavedInv` the done function under its id, `NameInv` the work function under its name;
- `KeptInv` and `OwnerInv` say who has each string, with the exception of a push that is
  turned away at once and finds the string of the job around it; `FaultInv` says when
  a string can be deleted twice.

A push ends in three ways (`PushRejected`, `ReplyRejected`, `GetResult`), which share the
lemma `EndingStep`.  Before it was proved, TLC checked `JobInv` over the configuration
with `MaxBoth` raised to 6.
`TypeCorrect` is `TypeOK`; what `JobInv` leaves open of it is `MoreType`, whose point is that
`WaitExec` registers a thread, and `waitstops` stays within `pthreads_` while it grows.
`AllReturn` is liveness and model-checked only.

## 9. Messages: `Ahar`, `MCAhar`

A message takes two mailboxes, that of the harbor thread and that of the receiver.
`harbor` and `mbox` are the two, `hands` the handlers of an id on each thread in the order
of their registration, `route` the thread of an
object, `known` and `cbs` what each Lua state knows.  `ranlog` is the history of the
messages that a thread's jobs were for, `called` of what each job called.  Calls of users come in at any
moment between two jobs: `CppListen`, `LuaListen`, `LuaSend`, `EnterCt`, `LeaveCt`,
`SendTo`; `DoSend` is `do_send` on the harbor thread and `RunMsg` the job it pushes.
`AppRun`, `RunAuto`, `AutoListen`, `AutoEnd` and `AutoDone` are the start of a process
in `aapp_run` and `app.lua`.

| run | instance | shows |
|---|---|---|
| `ahar` | two threads, an object, two names with one id, three calls | `OneOrder`: every thread sees messages in the one order of sending; `StaysPut`: a message to an object that does not move reaches its thread only, once; `CalledOnce`: who is called how often for a message; `ReadyAfterAll`: smsg_ready is sent once and after everybody has listened; `ReadyArrives`: it reaches who has a function for it |

Three calls are two messages and a move between them, or two handlers and a message;
the two names with one id stand for a collision of `crc32`, which makes `auto_listen`
stop in the middle.

Fairness.  Weak fairness of `DoSend`, of each thread's jobs and of the steps of
`aapp_run` and `auto_listen`, all of which are the scheduler running a thread that has
something to do.  Nobody has to send.

`ahar_sendto` makes a job for each handler of the id, or for the first one of the object's
thread only.  The job of a C++ handler calls it.  A listen in Lua adds a callback
to the Lua state and the handler `on_buf` to the id, and each `on_buf` calls all
callbacks of the id (`lib/ahar.lua:99-127`, `aa/a.har.lua.cpp:12-20`), up to the first that fails.
A thread that has listened twice from Lua therefore calls each callback twice for a
message: `CalledOnce` says "once" of C++ handlers only, and of a Lua callback that it is called as
often as its thread has listened from Lua at most.

Observations.  `lib/ahar.lua:22` has `local mp = "cmsgpack"`, the string and not the
module, so every send from Lua and every message with a body to Lua ends in an error;
`LuaSend` is what is left of it.  `leavect` erases the thread of an object even when
another thread has taken the object over (`LeaveCt`).  A message to an object that is nowhere
goes to all handlers.

Proved in `AharProofs`, for any threads, names, ids, objects and handlers:
`TypeCorrect`, `MessagesAreOrdered`, `ObjectsAreFound`, `CallsAreRight`,
`ReadyComesLast`.  The parts of the inductive invariant:

- `FlowInv`: the numbers of messages do not fall from what a thread has run to
  its mailbox, and rise from there to the harbor (`Sorted`).  What is still in the
  harbor therefore has no job yet (`NoneYet`), and taking it out makes its first ones.
- `StayInv`: while an object has not moved since a message to it was sent, the table
  gives the thread it gave then; `StaysPut` is inductive beside it.
- `HandInv`: the jobs of one message on one thread are for different handlers (`Apart`),
  and each is for a handler that the id has (`Valid`).  `CalledOnce` counts them: each
  job of a Lua handler calls a callback once, and there are as many such jobs as Lua
  handlers at most.
- `BootInv` and `AckInv`: the job of `auto_listen` is in a mailbox until its result is
  pushed, and `job_count_` is the number of threads that owe a result and of results that
  wait for Main.  A result that waits keeps `job_count_` above 0, and the last
  one finds it at 1.  `SentInv` bounds the number of messages.

`ReadyComesLast` assumes `OnlyAppAnnounces`: no user sends a message with the name
smsg_ready, which nothing in `ahar` prevents.  After that message no step of the start is
possible any more (`StartIsOver`).  `ReadyArrives` is liveness and model-checked only.

## 10. Parameters: `Aargs`, `MCAargs`

`val` is the six maps of the container, `var` the registered variables, `buf` the three
buffers that vectors are read through, `file` the files and `lua` the copies in the
Lua states.  A get is `GetScalar` or `GetVector` followed by the moment at which the
caller reads what it got a pointer to; parse and load make one write at a time, so
that other calls come between; save and the copy to Lua go over the maps without the
mutex, and a write meanwhile sets `raced`.  `last` is the history of what was written last.

| run | instance | shows |
|---|---|---|
| `aargs` | two C++ threads and a Lua thread, two keys, four calls | `GetIsCurrent`: a get returns a value that the parameter had during the call; `VariablesInStep`: a registered int, bool or string shows the value in the container; `RoundTrip`: an int or a bool that is saved is read back as the same value of the same kind; `LuaShowsLastWrite`: a Lua table shows the last write |

Four calls are a registration, two writes of different threads and a read, or two gets
and two writes: enough for a get that is overtaken by a write, by another get of the same
kind, or by both.  The two C++ threads are alike (`MCAlike`).  The
command lines and files have a key in two spellings, help, a number, a Boolean and a
text, and a list that `stoll` reads as its first number (`aa/a.args.cpp`).  There is no
fairness: all properties are safety.

The conditions in the properties are what the code does not promise: two gets of a vector
of one kind share a buffer, which is filled under the mutex and read behind it
(`aa/a.args.cpp:440-492`, `include/aargs.h:230-254`), so a get that is `crowded` by another may return the
other's value, and so may a string that is written while it is read; a registered
`const char*` dangles after a write that moves the string (`Stale`), a vector is never
copied into the registered variable, a key that has values of two kinds is saved
with one and shown in Lua with the other, a string that reads as a number or a Boolean
comes back as one, and a save during a write may read anything.

Proved in `AargsProofs`, for every finite set of keys and every choice of texts,
command lines and files: `TypeCorrect`, `VariablesFollow`, `SavedIsReadBack`.  The
strengthening (`Saved`) is that a key with a remark has a value of some kind; otherwise
`save` would write a text that is no text, and `load` would read it.

`GetsAreCurrent` is `GetIsCurrent`: between the mutex and the moment the caller reads,
the values seen since the call began include the one the parameter has now and, for
a vector, what is in the buffer that all callers share (`ReadInv`).
`LuaShowsTheLast` is the action property `LuaShowsLastWrite`: whatever kinds a key
has values of, one of them is the last one written (`LastInv`), so that a copy to Lua of
a key with one kind shows it.

## 11. Lua bridge: `Alua`, `MCAlua`

`frames` is the stack of calls between C++ and one Lua state: C++ code at the
bottom, above it by turns a Lua function called with `lua_pcall` and a C function
that it called.  Each frame has the values it sees on Lua's stack.  `CallLua`,
`NoFunction`, `NoModule`, `LuaReturns`, `LuaEchoes`, `LuaRaises`, `TakeResult` are
`lua_caller` with its guard, `alua_require` and `alua_loadfile`; `LuaCallsC`, `TakeArgs`, `CReturns`,
`CThrows` are `lua_to_c_wrapper`.  `Push` and `Pop` are the conversions.  Their widths
are constants: an `int` is at least `-IntHalf` and less than `IntHalf`, a `lua_Integer`
the same with `LongHalf`, and a double holds every integer up to `Mantissa`; of larger
ones it has the nearest multiple of a power of two (`Rounded`).

| run | instance | shows |
|---|---|---|
| `alua` | 3-bit int, 6-bit lua_Integer, 4-bit mantissa, four calls, depth five | `Balanced`: Lua's stack is restored whatever happened inside, but for what `loadfile` leaves; `Blameless`: what can end the process; `ErrorIsNoNumber`: what is left of an error is not taken for a number; `EchoExact`: numbers come back unchanged as far as a double holds them |

Depth five is C++, Lua, C, Lua, C, so that an error passes a C++ frame between two
Lua functions.  The widths keep their order (int below mantissa below lua_Integer, as 32, 53
and 64), which is what the conversions depend on.

Observations.  After an error its text stands where the result would be, and a call
that wants a string takes it (`include/alua.h:603`).  `popper<vector>` is called with
index -1 and reads relative to a stack that it has pushed to (`include/alua.h:355`):
undefined behaviour, which the model ends with.  Ids of type `uint64_t` go to Lua as
doubles (`include/alua.h:338`).  `alua_loadfile` never restores the stack
(`aa/a.lua.cpp:179-193`): `debug`, `debug.traceback` and the value of the file or its error stay, two or
three values for each file, as long as the code that loaded it runs (`files` counts
them in `Balanced`).  `debug.traceback` makes a text of an error that is a text or nil only; what
is left of `error({})` is the table (`Found`).  C++ code that wants a string or a number reads it
outside `lua_pcall`, which is a second error, and if no Lua function is under way that
ends the process (`Blameless` lists it).  An error of a file that is no text is printed as
a null pointer.

Proved in `AluaProofs`, for any widths, calls, C functions and Lua values and any depth:
`StackIsRestored` (`Balanced`), `NobodyElseEnds` (`Blameless`), `ErrorsAreNoNumbers`
(`ErrorIsNoNumber`) and `EchoesAreExact` (`EchoExact`).  The inductive invariant has three
parts.

- `ShapeInv`: the frames take turns, Lua functions at the even places, and all but the
  last wait for the one above them.  So the last Lua function, to which an error goes, is
  the last frame or the one before it (`LastProtected`), and the code below it waits in
  `lua_pcall`.
- `FrameInv`: code that waits has its own stack and the four values of its call on it
  (`StackOf`); code that `lua_pcall` has come back to has two of them and the results, the
  last of which is what is left of the error if there was one, and what was passed if the
  function gave it back.  Code that goes on has got what `ResultOf` says.
- `TypeInv`: the values on the stack are those that calls, functions and errors put there
  (`Kept`).  `TypeOK`, which says that they are numbers, is only model-checked: that needs
  what `Rounded` is, a `CHOOSE` over powers of two, whose laws are inductions over the
  exponent.  `EchoExact` is about the numbers up to `Mantissa`, which are not rounded.

`EchoIsExact` is the lemma about the conversions: a value of any type that comes back from
`Push` through `Pop` is the same, the unsigned ones because what is lost is a multiple
of their width.

## 12. What is not modelled, and what is not proved

Not modelled:

- `setjobcapecity` and `setjobtimeoutlimit`: the wrappers of `include/athd.h:270-278` call
  themselves, so that a program that uses them does not return; what the functions
  behind them do to a pool in use is not translated.  Names of threads and jobs and the
  warnings about timeouts have no effect on others.
- `athd_getpendingcount` counter by counter (section 3 says why one step stands for it).
- `waitstops` going through `pthreads_` without the mutex while `newthread` appends to it:
  `LuaJobs` has no creation after the first stop.
- The calls of `ahar` whose bodies are empty (call, gatebc, group), and what Lua packs
  into a message.
- `aid_crc32`, a table computation; the switches of `alog` for debug output and screen, and
  the reading of `thread_map_` by the logger (`aa/a.log.cpp:110`).
- In `alua`: search paths, registration of functions, creation of states.
- `asig`: nothing calls its wait.
- Stack traces, files and time, the Lua debugger, `tscns`, the headers of Lua, the services
  and the templates: third-party code, formatting, pure input and output, or programs
  that use the library.

Not proved: liveness under fairness, which is beyond the prover (`EveryJobEnds`,
`WaitstopsReturns`, `StopReturns`, `AllReturn`, `ReadyArrives`), and `TypeOK` of `Alua`
(section 11).  Proved under a named condition, without which it fails: what
`SafeUse`, `DistinctTargets`, `Fits`, `OneDay` and `OnlyAppAnnounces` stand before.
`NoNullCall`, of which a run shows the violation, is no theorem; `HourlyFiles` is one only
under `OneDay`.
Every other property that a run checks is a theorem.
