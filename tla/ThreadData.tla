----------------------------- MODULE ThreadData -----------------------------
(***************************************************************************)
(* pvt::tdata and thread_func of athd.h: the start and stop callbacks that *)
(* the threads of newthread (one thread) or newpool (several) share.  Each *)
(* thread calls thread_func once with flag 1 before its loop and once with *)
(* flag 2 behind it.  The last thread to start is to drop start_, the last *)
(* to stop is to drop stop_ and to delete the tdata; who is last is decided *)
(* by a decrement of an atomic and a second, separate read of it.          *)
(*                                                                         *)
(* An access to a deleted tdata, and two accesses to a std::function at    *)
(* once of which one writes, are undefined behaviour: fault tells which    *)
(* and the behaviour ends.                                                 *)
(* Names that every specification has begin with TD: one module of proofs  *)
(* extends this module and NodePool.                                       *)
(***************************************************************************)
EXTENDS Integers, FiniteSets

CONSTANTS
    Threads,    \* the threads that share the tdata
    Callbacks   \* which callbacks users give, in the choices to look at

ASSUME ThreadsAssumption == IsFiniteSet(Threads) /\ Threads # {}
ASSUME CallbacksAssumption == Callbacks \subseteq [start : BOOLEAN, stop : BOOLEAN]

VARIABLES
    place,
    given,      \* the arguments of the constructor
    start,      \* start_ is not empty
    startCount, \* start_count_
    stopCount,  \* stop_count_
    alive,      \* the tdata has not been deleted
    started,    \* history: threads on which start_() ran
    stopped,    \* history: threads on which stop_() ran
    fault

tdVars == <<place, given, start, startCount, stopCount, alive, started, stopped, fault>>

Points == {"new", "startcall", "startdec", "startread", "startdrop",
           "run", "stoptest", "stopcall", "stopdec", "stopread",
           "delete", "gone"}

\* Every variable has its type, and no counter wraps below zero.
TDTypeOK ==
    /\ place \in [Threads -> Points]
    /\ given \in Callbacks
    /\ start \in BOOLEAN
    /\ startCount \in 0 .. Cardinality(Threads)
    /\ stopCount \in 0 .. Cardinality(Threads)
    /\ alive \in BOOLEAN
    /\ started \subseteq Threads
    /\ stopped \subseteq Threads
    /\ fault \in {"none", "race", "use after free", "empty call"}

\* num, the counts the constructor starts with.
Num == Cardinality(Threads)

TDInit ==
    /\ place = [t \in Threads |-> "new"]
    /\ given \in Callbacks
    /\ start = given.start
    /\ startCount = Num
    /\ stopCount = Num
    /\ alive = TRUE
    /\ started = {}
    /\ stopped = {}
    /\ fault = "none"

At(t, point)   == fault = "none" /\ place[t] = point
GoOn(t, point) == place' = [place EXCEPT ![t] = point]

\* Other threads that are at start_ = nullptr, or that run start_ or test it
\* with flag 2.
Dropping(t) == {u \in Threads \ {t} : place[u] = "startdrop"}
Reading(t)  == {u \in Threads \ {t} : place[u] \in {"startcall", "stoptest"}}

Fail(why) ==
    /\ fault' = why
    /\ UNCHANGED <<place, given, start, startCount, stopCount, alive, started, stopped>>

-----------------------------------------------------------------------------
(* Flag 1.                                                                 *)

\* start_ is tested; start_() runs until StartDone.
Begin(t) ==
    /\ At(t, "new")
    /\ GoOn(t, IF start THEN "startcall" ELSE "startdec")
    /\ started' = IF start THEN started \cup {t} ELSE started
    /\ UNCHANGED <<given, start, startCount, stopCount, alive, stopped, fault>>

StartDone(t) ==
    /\ At(t, "startcall")
    /\ GoOn(t, "startdec")
    /\ UNCHANGED <<given, start, startCount, stopCount, alive, started, stopped, fault>>

StartDec(t) ==
    /\ At(t, "startdec")
    /\ startCount' = startCount - 1
    /\ GoOn(t, "startread")
    /\ UNCHANGED <<given, start, stopCount, alive, started, stopped, fault>>

\* !td->start_count_
MutantFirst    == startCount < Cardinality(Threads)
AllHaveStarted == startCount = 0

\* Not the last: thread_func returns and the loop of exec() runs.
StartRead(t) ==
    /\ At(t, "startread")
    /\ alive
    /\ GoOn(t, IF AllHaveStarted THEN "startdrop" ELSE "run")
    /\ UNCHANGED <<given, start, startCount, stopCount, alive, started, stopped, fault>>

\* start_ = nullptr, while nobody else uses start_.
Drop(t) ==
    /\ At(t, "startdrop")
    /\ alive
    /\ Dropping(t) \cup Reading(t) = {}
    /\ start' = FALSE
    /\ GoOn(t, "run")
    /\ UNCHANGED <<given, startCount, stopCount, alive, started, stopped, fault>>

-----------------------------------------------------------------------------
(* Flag 2.                                                                 *)

\* exec() leaves its loop: a null job came.
Leave(t) ==
    /\ At(t, "run")
    /\ GoOn(t, "stoptest")
    /\ UNCHANGED <<given, start, startCount, stopCount, alive, started, stopped, fault>>

\* It is start_ that is tested here.
HasCallback == start

StopTest(t) ==
    /\ At(t, "stoptest")
    /\ Dropping(t) = {}
    /\ HasCallback => given.stop
    /\ GoOn(t, IF HasCallback THEN "stopcall" ELSE "stopdec")
    /\ stopped' = IF HasCallback THEN stopped \cup {t} ELSE stopped
    /\ UNCHANGED <<given, start, startCount, stopCount, alive, started, fault>>

\* start_ is still there and stop_ was never given.
EmptyCall(t) ==
    /\ At(t, "stoptest")
    /\ Dropping(t) = {}
    /\ HasCallback /\ ~given.stop
    /\ Fail("empty call")

StopDone(t) ==
    /\ At(t, "stopcall")
    /\ GoOn(t, "stopdec")
    /\ UNCHANGED <<given, start, startCount, stopCount, alive, started, stopped, fault>>

StopDec(t) ==
    /\ At(t, "stopdec")
    /\ alive
    /\ stopCount' = stopCount - 1
    /\ GoOn(t, "stopread")
    /\ UNCHANGED <<given, start, startCount, alive, started, stopped, fault>>

\* !td->stop_count_
MutantOneLeft  == stopCount <= 1
AllHaveStopped == stopCount = 0

StopRead(t) ==
    /\ At(t, "stopread")
    /\ alive
    /\ GoOn(t, IF AllHaveStopped THEN "delete" ELSE "gone")
    /\ UNCHANGED <<given, start, startCount, stopCount, alive, started, stopped, fault>>

\* stop_ = nullptr; delete td.
Delete(t) ==
    /\ At(t, "delete")
    /\ alive
    /\ alive' = FALSE
    /\ GoOn(t, "gone")
    /\ UNCHANGED <<given, start, startCount, stopCount, started, stopped, fault>>

-----------------------------------------------------------------------------
\* Two accesses to start_ at once, at least one of them an assignment.
Race(t) ==
    /\ \/ At(t, "stoptest") /\ Dropping(t) # {}
       \/ At(t, "startdrop") /\ Dropping(t) \cup Reading(t) # {}
    /\ Fail("race")

\* A read or a delete of the tdata after somebody has deleted it.
UseAfterFree(t) ==
    /\ \E point \in {"startread", "startdrop", "stopdec", "stopread", "delete"} :
          At(t, point)
    /\ ~alive
    /\ Fail("use after free")

ThreadFunc(t) ==
    \/ Begin(t) \/ StartDone(t) \/ StartDec(t) \/ StartRead(t) \/ Drop(t)
    \/ Leave(t)
    \/ StopTest(t) \/ EmptyCall(t) \/ StopDone(t) \/ StopDec(t) \/ StopRead(t)
    \/ Delete(t)
    \/ Race(t) \/ UseAfterFree(t)

Over ==
    /\ fault # "none" \/ \A t \in Threads : place[t] = "gone"
    /\ UNCHANGED tdVars

TDNext == Over \/ \E t \in Threads : ThreadFunc(t)

TDSpec == TDInit /\ [][TDNext]_tdVars

-----------------------------------------------------------------------------
\* A start callback runs on every thread before its loop, however the threads
\* count down: nobody drops start_ while a thread may still have to run it.
StartRuns ==
    \A t \in Threads :
       /\ place[t] # "new" => (t \in started <=> given.start)
       /\ place[t] = "startdrop" =>
             \A u \in Threads : place[u] \notin {"new", "startcall"}

\* The tdata is deleted only when the last thread has counted itself down, and
\* it is deleted when all are over: it does not leak.
DeletedAtEnd ==
    /\ ~alive => \A t \in Threads : place[t] \in {"stopread", "delete", "gone"}
    /\ fault = "none" /\ (\A t \in Threads : place[t] = "gone") => ~alive

\* A stop callback has run on every thread that is over: thread_func tests start_
\* where it should test stop_, so this fails, and no configuration lists it.
StopRuns == \A t \in Threads : place[t] = "gone" => (t \in stopped <=> given.stop)
=============================================================================
