-------------------------------- MODULE Alog --------------------------------
(***************************************************************************)
(* The logger, a.log.cpp: threads that print append items to a list under  *)
(* mtx_, the log thread takes the whole list and writes it item by item.   *)
(* Main calls alog_setroot, before which nothing is written, and at exit   *)
(* ~mdata calls stop(), which appends an item of time 0 and joins the log  *)
(* thread.                                                                 *)
(*                                                                         *)
(* An action is the code between two points where another thread can come  *)
(* in.  The text of an item is left out; its time is in hours.  fault      *)
(* marks a data race or a use of the destroyed logger; the behaviour goes  *)
(* on as if it had been harmless, one of the outcomes it can have.         *)
(* MaxPrints bounds the calls of alog_print, MaxClock the clock.           *)
(***************************************************************************)
EXTENDS Integers, Sequences

CONSTANTS
    Printers,
    Files, Sys,     \* the log files; Sys is log_files_[0], made by mdata
    Levels,
    None,           \* no file
    DayHours,       \* 24; tm_hour is the time modulo this
    MaxPrints,
    MaxClock,
    MainStops       \* whether main ends

ASSUME FilesAssumption  == Sys \in Files /\ None \notin Files
ASSUME BoundsAssumption == DayHours \in Nat \ {0} /\ MaxPrints \in Nat /\ MaxClock \in Nat \ {0}

VARIABLES
    clock,
    running,    \* is_runing_
    settings,   \* is_settings_
    queue,      \* head_ .. tail_
    itemCount,  \* item_count_
    files,      \* log_files_
    growing,    \* the file that alog_addfile is appending to log_files_
    opened,     \* per file: fp_, and what full_filename_ was made of
    mpc, lpc, ppc,
    mine,       \* the item of each call of alog_print
    batch,      \* curr and what follows it, in process_logs
    isStop,     \* is_stop of process_logs
    fault,
    prints,     \* calls of alog_print
    appended,   \* history: the items in the order of mtx_
    endAt,      \* history: the place of the item of stop() among them
    written,    \* history: the items written
    dests       \* history: where each of them went

lists   == <<queue, itemCount, appended, endAt>>
logging == <<lpc, batch, isStop, opened, written, dests>>
calls   == <<ppc, mine, prints>>
flags   == <<running, settings>>
env     == <<clock, fault>>
vec     == <<files, growing>>
vars    == <<lists, logging, calls, flags, env, vec, mpc>>

Item == [by : Printers, n : 1 .. MaxPrints, file : Files, level : Levels, time : 1 .. MaxClock]

\* The item of stop(): of its fields only the time is set.
End       == [time |-> 0]
IsEnd(it) == it.time = 0

Name   == [level : Levels, time : 1 .. MaxClock]
File   == [fp : BOOLEAN, name : Name \cup {None}]
Closed == [fp |-> FALSE, name |-> None]

\* Every variable has its type; item_count_ goes below zero only by the item of
\* stop(), which nobody has counted.
TypeOK ==
    /\ clock \in 1 .. MaxClock
    /\ running \in BOOLEAN /\ settings \in BOOLEAN
    /\ queue \in Seq(Item \cup {End})
    /\ itemCount \in Int /\ itemCount >= -1
    /\ files \subseteq Files /\ growing \in Files \cup {None}
    /\ mpc \in {"start", "notify", "up", "append", "join", "clear", "gone"}
    /\ lpc \in {"loop", "get", "blocking", "asleep", "ended"}
    /\ ppc \in [Printers -> {"out", "append"}]
    /\ mine \in [Printers -> Item \cup {End}]
    /\ \A p \in Printers : ppc[p] = "append" => mine[p] \in Item
    /\ batch \in Seq(Item \cup {End})
    /\ isStop \in BOOLEAN
    /\ fault \in {"none", "race", "destroyed"}
    /\ prints \in 0 .. MaxPrints
    /\ appended \in Seq(Item \cup {End})
    /\ endAt \in 0 .. Len(appended)
    /\ written \in Seq(Item)
    /\ opened \in [Files -> File]
    /\ \A f \in Files : opened[f].fp => opened[f].name \in Name
    /\ dests \in Seq(File) /\ Len(dests) = Len(written)

\* mdata::mdata; the log thread starts in it.
Init ==
    /\ clock = 1
    /\ running = TRUE
    /\ settings = FALSE
    /\ queue = <<>>
    /\ itemCount = 0
    /\ files = {Sys}
    /\ growing = None
    /\ opened = [f \in Files |-> Closed]
    /\ mpc = "start"
    /\ lpc = "loop"
    /\ ppc = [p \in Printers |-> "out"]
    /\ mine = [p \in Printers |-> End]
    /\ batch = <<>>
    /\ isStop = FALSE
    /\ fault = "none"
    /\ prints = 0
    /\ appended = <<>>
    /\ endAt = 0
    /\ written = <<>>
    /\ dests = <<>>

\* Nobody holds mtx_: the log thread does while it tests what it waits for, and
\* alog_addfile while log_files_ grows.
MtxFree == lpc # "blocking" /\ growing = None

\* notify_one, which only the log thread waits for.
Notified == IF lpc = "asleep" THEN "get" ELSE lpc

Tick ==
    /\ clock < MaxClock
    /\ clock' = clock + 1
    /\ UNCHANGED <<lists, logging, calls, flags, vec, fault, mpc>>

-----------------------------------------------------------------------------
(* alog_print and alog_addfile.                                            *)

\* A call that finds the logger running makes its item and stamps it; one that
\* does not returns at once.
MakeItem(p) ==
    /\ ppc[p] = "out"
    /\ running
    /\ prints < MaxPrints
    /\ prints' = prints + 1
    /\ ppc' = [ppc EXCEPT ![p] = "append"]
    /\ \E f \in files, l \in Levels :
          mine' = [mine EXCEPT ![p] =
                     [by |-> p, n |-> prints', file |-> f, level |-> l, time |-> clock]]
    /\ UNCHANGED <<lists, logging, flags, env, vec, mpc>>

PutLast(it) ==
    /\ queue' = Append(queue, it)
    /\ appended' = Append(appended, it)

AppendItem(p) ==
    /\ ppc[p] = "append"
    /\ MtxFree
    /\ mpc \notin {"clear", "gone"}
    /\ PutLast(mine[p])
    /\ itemCount' = itemCount + 1
    /\ lpc' = Notified
    /\ ppc' = [ppc EXCEPT ![p] = "out"]
    /\ UNCHANGED <<endAt, batch, isStop, opened, written, dests, mine, prints,
                   flags, env, vec, mpc>>

\* The call comes to the list when stop() deletes it, or to a logger that the
\* end of the process has destroyed.
AppendLate(p) ==
    /\ ppc[p] = "append"
    /\ mpc \in {"clear", "gone"}
    /\ ppc' = [ppc EXCEPT ![p] = "out"]
    /\ fault' = IF mpc = "clear" THEN "race" ELSE "destroyed"
    /\ UNCHANGED <<lists, logging, mine, prints, flags, clock, vec, mpc>>

\* The program adds files while it runs.
AddFile(f) ==
    /\ MtxFree
    /\ running
    /\ f \notin files
    /\ growing' = f
    /\ UNCHANGED <<lists, logging, calls, flags, env, files, mpc>>

FileAdded ==
    /\ growing # None
    /\ files' = files \cup {growing}
    /\ growing' = None
    /\ UNCHANGED <<lists, logging, calls, flags, env, mpc>>

-----------------------------------------------------------------------------
(* process_logs, the log thread.                                           *)

\* is_stop is tested first; head_ is read without mtx_.
GoesOn == ~isStop \/ queue # <<>>

LoopTest ==
    /\ lpc = "loop"
    /\ batch = <<>>
    /\ lpc' = IF GoesOn THEN "get" ELSE "ended"
    /\ UNCHANGED <<lists, batch, isStop, opened, written, dests,
                   calls, flags, env, vec, mpc>>

\* What get_items waits for.
MutantWait == queue # <<>> /\ settings
WaitIsOver == (queue # <<>> /\ settings) \/ ~running

\* head_ when the items have been taken.
MutantKeep == queue
Left       == <<>>

GetItems ==
    /\ lpc = "get"
    /\ MtxFree
    /\ WaitIsOver
    /\ batch' = queue
    /\ queue' = Left
    /\ lpc' = "loop"
    /\ UNCHANGED <<itemCount, appended, endAt, isStop, opened, written, dests,
                   calls, flags, env, vec, mpc>>

Blocks ==
    /\ lpc = "get"
    /\ MtxFree
    /\ ~WaitIsOver
    /\ lpc' = "blocking"
    /\ UNCHANGED <<lists, batch, isStop, opened, written, dests,
                   calls, flags, env, vec, mpc>>

FallsAsleep ==
    /\ lpc = "blocking"
    /\ lpc' = "asleep"
    /\ UNCHANGED <<lists, batch, isStop, opened, written, dests,
                   calls, flags, env, vec, mpc>>

WakeSpuriously ==
    /\ lpc = "asleep"
    /\ lpc' = "get"
    /\ UNCHANGED <<lists, batch, isStop, opened, written, dests,
                   calls, flags, env, vec, mpc>>

curr == Head(batch)

\* is_stop || !curr->time
MutantEnds == isStop \/ ~running
Ends       == isStop \/ IsEnd(curr)

CountDown == itemCount - 1

\* Whether write opens another file; hour_ and last_level_ are those of the file.
MutantRotate(f, it) == ~opened[f].fp \/ opened[f].name.level # it.level
MustRotate(f, it) ==
    \/ ~opened[f].fp
    \/ opened[f].name.level # it.level
    \/ opened[f].name.time % DayHours # it.time % DayHours

\* rotate_file; fopen may fail.
Rotated(f, it) ==
    IF MustRotate(f, it)
    THEN {[fp |-> ok, name |-> [level |-> it.level, time |-> it.time]] : ok \in BOOLEAN}
    ELSE {opened[f]}

\* process_item, write and free.  Without a file the item goes to the screen; so it
\* does when write throws, which it can between opening the file and writing to it.
Write ==
    /\ lpc = "loop"
    /\ batch # <<>>
    /\ ~Ends
    /\ ~(curr.file = Sys /\ growing # None)
    /\ \E o \in Rotated(curr.file, curr), throws \in BOOLEAN :
          /\ opened' = [opened EXCEPT ![curr.file] = o]
          /\ dests' = Append(dests, IF o.fp /\ ~throws THEN o ELSE Closed)
    /\ written' = Append(written, curr)
    /\ itemCount' = CountDown
    /\ batch' = Tail(batch)
    /\ UNCHANGED <<queue, appended, endAt, lpc, isStop, calls, flags, env, vec, mpc>>

\* log_files_[0] is read while alog_addfile moves the vector.
WriteRace ==
    /\ lpc = "loop"
    /\ batch # <<>>
    /\ ~Ends
    /\ curr.file = Sys /\ growing # None
    /\ fault' = "race"
    /\ UNCHANGED <<lists, logging, calls, flags, clock, vec, mpc>>

\* From the item of stop() on, items are freed and not written.
Discard ==
    /\ lpc = "loop"
    /\ batch # <<>>
    /\ Ends
    /\ isStop' = TRUE
    /\ itemCount' = CountDown
    /\ batch' = Tail(batch)
    /\ UNCHANGED <<queue, appended, endAt, lpc, opened, written, dests,
                   calls, flags, env, vec, mpc>>

-----------------------------------------------------------------------------
(* Main: alog_setroot, and stop() at exit.                                 *)

\* is_settings_ is set without mtx_, and so is the notify.
SetRoot ==
    /\ mpc = "start"
    /\ settings' = TRUE
    /\ mpc' = "notify"
    /\ UNCHANGED <<lists, logging, calls, running, env, vec>>

SetRootNotify ==
    /\ mpc = "notify"
    /\ lpc' = Notified
    /\ mpc' = "up"
    /\ UNCHANGED <<lists, batch, isStop, opened, written, dests, calls, flags, env, vec>>

\* A program may end without a call of alog_setroot.
Stop ==
    /\ mpc \in {"start", "up"}
    /\ MainStops
    /\ running' = FALSE
    /\ mpc' = "append"
    /\ UNCHANGED <<lists, logging, calls, settings, env, vec>>

StopAppend ==
    /\ mpc = "append"
    /\ MtxFree
    /\ PutLast(End)
    /\ endAt' = Len(appended')
    /\ lpc' = Notified
    /\ mpc' = "join"
    /\ UNCHANGED <<itemCount, batch, isStop, opened, written, dests, calls, flags, env, vec>>

Join ==
    /\ mpc = "join"
    /\ lpc = "ended"
    /\ mpc' = "clear"
    /\ UNCHANGED <<lists, logging, calls, flags, env, vec>>

\* What came after the log thread had ended is deleted, without mtx_.
DeleteRest ==
    /\ mpc = "clear"
    /\ queue' = <<>>
    /\ mpc' = "gone"
    /\ UNCHANGED <<itemCount, appended, endAt, logging, calls, flags, env, vec>>

-----------------------------------------------------------------------------
LogThread == LoopTest \/ GetItems \/ Blocks \/ FallsAsleep \/ Write \/ WriteRace \/ Discard

Main == SetRoot \/ SetRootNotify \/ Stop \/ StopAppend \/ Join \/ DeleteRest

Call(p) == AppendItem(p) \/ AppendLate(p)

Over == mpc = "gone" /\ UNCHANGED vars

Next ==
    \/ Tick
    \/ \E p \in Printers : MakeItem(p) \/ Call(p)
    \/ \E f \in Files : AddFile(f)
    \/ FileAdded
    \/ LogThread \/ WakeSpuriously
    \/ Main
    \/ Over

Spec == Init /\ [][Next]_vars

\* Threads are scheduled; nobody has to print, to add files or to end.
FairSpec ==
    /\ Spec
    /\ WF_vars(LogThread)
    /\ WF_vars(SetRootNotify \/ StopAppend \/ Join \/ DeleteRest)
    /\ WF_vars(FileAdded)
    /\ \A p \in Printers : WF_vars(Call(p))

-----------------------------------------------------------------------------
\* Items are written once, in the order in which they came into the list, and
\* only while the log thread has not met the item of stop().
InOrder ==
    IF isStop THEN written = SubSeq(appended, 1, endAt - 1)
    ELSE written \o batch \o queue = appended

\* stop() waits for everything that was in the list before it.
NothingLost == mpc \in {"clear", "gone"} => Len(written) >= endAt - 1

\* item_count_ counts the items that are printed and not yet freed, and is one
\* short once stop() has appended an item that it did not count.
CountExact ==
    mpc # "gone" =>
       itemCount = Len(batch) + Len(queue) - (IF endAt = 0 THEN 0 ELSE 1)

\* An item goes to the file of its own level and hour, or to the screen, although threads
\* append items in another order than they stamp them; but a file opened for the same
\* hour of another day stays open as long as only items of its level and of that hour of
\* the day come.
SameHour(it, jt) == it.level = jt.level /\ it.time % DayHours = jt.time % DayHours
OpenedBy(f, name, k, last) ==
    /\ written[k].file = f
    /\ name = [level |-> written[k].level, time |-> written[k].time]
    /\ \A i \in k .. last : written[i].file = f => SameHour(written[i], written[k])

RightFile ==
    \A i \in DOMAIN dests :
       dests[i].fp => \E k \in 1 .. i : OpenedBy(written[i].file, dests[i].name, k, i)

\* What the documentation says: each hour has its log file.
HourlyFiles ==
    \A i \in DOMAIN dests :
       dests[i].fp => dests[i].name = [level |-> written[i].level, time |-> written[i].time]

\* stop() returns: the log thread ends whatever it waits for.
StopReturns == mpc = "append" ~> mpc = "gone"
=============================================================================
