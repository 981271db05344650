-------------------------------- MODULE Ahar --------------------------------
(***************************************************************************)
(* ahar: messages between threads.  A send is a job for the harbor thread  *)
(* (har_thd_), which looks the receivers up when it comes to it and pushes *)
(* a job to the mailbox of each; the tables are changed under mtx_ at any  *)
(* time by any thread.  The mailboxes are those of athd, as JobContract    *)
(* promises them: first in, first out.  The last part is the start of a    *)
(* process in aapp_run: auto_listen on every Lua thread, then smsg_ready.  *)
(*                                                                         *)
(* Abstractions.  Bodies are empty: a Lua state can neither send nor       *)
(* receive others, since ahar.lua takes "cmsgpack" for the module.  What a *)
(* message's callbacks call is the next calls of the thread.  A protobuf   *)
(* handler does not exist.  Of the handlers of an id the order of each     *)
(* thread's is kept, and which are of C++: those of a Lua state are all    *)
(* on_buf, which calls the callbacks.  MaxCalls bounds the users' calls.   *)
(***************************************************************************)
EXTENDS Naturals, Sequences, FiniteSets

CONSTANTS
    Threads,    \* lua_threads_
    Main,
    Names,
    Crc,        \* the id of each name
    Ready,      \* "smsg_ready"
    Objects,
    None,       \* no object, no thread, no name
    Finds,      \* how many functions of each name auto_listen finds
    Listens,    \* names that users listen to
    Sends,      \* sends of users: an object or None, and a name
    MaxCalls

Ids     == {Crc[n] : n \in Names}
MaxMsgs == MaxCalls + 1
Message == [rid : Objects \cup {None}, name : Names, from : Threads]
Job     == [kind : {"msg", "auto", "ack"}, msg : 0 .. MaxMsgs, hand : Nat]

ASSUME NamesAssumption ==
    /\ Crc \in [Names -> Ids] /\ Ready \in Names
    /\ Main \in Threads /\ IsFiniteSet(Threads)
    /\ None \notin Objects \cup Threads \cup Names
    /\ Listens \subseteq Names
    /\ Sends \subseteq [rid : Objects \cup {None}, name : Names]
    /\ Finds \in [Threads -> [Names -> Nat]]
    /\ MaxCalls \in Nat

VARIABLES
    mname,      \* minfo_by_id_: the name of each id, None if it has no minfo
    hands,      \* its mhandlers_: those of each thread, "cpp" or "lua"
    route,      \* oinfo_by_id_: the thread each object is in
    harbor,     \* the mailbox of har_thd_: numbers of messages
    mbox,       \* the mailboxes of the others
    known,      \* msg_info_by_id of each Lua state: the name of each id
    cbs,        \* how many callbacks each Lua state has for a name
    todo,       \* what auto_listen has still to find
    boot,       \* how far the start of each thread is
    acks,       \* the job_count_ of the auto_listen job
    sent,       \* history: the messages, in the order the harbor got them
    stays,      \* history: messages with an object that has not moved since
    ranlog,     \* history: the messages whose jobs ran on each thread
    called,     \* history: the handler and the Lua callbacks that each of them called
    calls

tables == <<mname, hands>>
states == <<known, cbs>>
start  == <<todo, boot, acks>>
done   == <<ranlog, called>>
vars   == <<tables, route, harbor, mbox, states, start, sent, stays, done, calls>>

TypeOK ==
    /\ mname \in [Ids -> Names \cup {None}]
    /\ hands \in [Ids -> [Threads -> Seq({"cpp", "lua"})]]
    /\ route \in [Objects -> Threads \cup {None}]
    /\ harbor \in Seq(1 .. MaxMsgs)
    /\ mbox \in [Threads -> Seq(Job)]
    /\ known \in [Threads -> [Ids -> Names \cup {None}]]
    /\ cbs \in [Threads -> [Names -> Nat]]
    /\ todo \in [Threads -> [Names -> Nat]]
    /\ boot \in [Threads -> {"before", "pushed", "listening", "over", "aborted"}]
    /\ acks \in 0 .. Cardinality(Threads)
    /\ sent \in Seq(Message) /\ Len(sent) <= MaxMsgs
    /\ stays \in [1 .. MaxMsgs -> Threads \cup {None}]
    /\ ranlog \in [Threads -> Seq(1 .. MaxMsgs)]
    /\ called \in [Threads -> Seq([hand : Nat, cbs : SUBSET Nat])]
    /\ calls \in 0 .. MaxCalls

Init ==
    /\ mname = [i \in Ids |-> None]
    /\ hands = [i \in Ids |-> [t \in Threads |-> <<>>]]
    /\ route = [o \in Objects |-> None]
    /\ harbor = <<>>
    /\ mbox = [t \in Threads |-> <<>>]
    /\ known = [t \in Threads |-> mname]
    /\ cbs = [t \in Threads |-> [n \in Names |-> 0]]
    /\ todo = cbs
    /\ boot = [t \in Threads |-> "before"]
    /\ acks = 0
    /\ sent = <<>>
    /\ stays = [m \in 1 .. MaxMsgs |-> None]
    /\ ranlog = [t \in Threads |-> <<>>]
    /\ called = ranlog
    /\ calls = 0

\* A call of a user, on thread t.
Call(t) ==
    /\ boot[t] # "listening"
    /\ calls < MaxCalls
    /\ calls' = calls + 1

\* A thread executes jobs between two callbacks of its own; Main from aapp_run on.
Executes(t) == boot[t] # "listening" /\ boot[Main] # "before"

-----------------------------------------------------------------------------
(* Names and handlers.                                                     *)

\* ahar_regmsg: a name whose id has another name is refused with a remark.
RegMsg(n) == IF mname[Crc[n]] = None THEN [mname EXCEPT ![Crc[n]] = n] ELSE mname

\* listen: one more handler of the id, whoever else has the id, and however many
\* this thread has already.
AddHand(t, n, lang) == [hands EXCEPT ![Crc[n]][t] = Append(@, lang)]

CppListen(t, n) ==
    /\ Call(t)
    /\ mname' = RegMsg(n)
    /\ hands' = AddHand(t, n, "cpp")
    /\ UNCHANGED <<route, harbor, mbox, states, start, sent, stays, done>>

\* chech_regmsg of ahar.lua: nil if this Lua state has another name for the id.
Clashes(t, n) == known[t][Crc[n]] \notin {None, n}
Knows(t, n)   == [known EXCEPT ![t][Crc[n]] = n]

\* ahar.listen of ahar.lua.
DoListen(t, n) ==
    /\ ~Clashes(t, n)
    /\ known' = Knows(t, n)
    /\ cbs' = [cbs EXCEPT ![t][n] = @ + 1]
    /\ mname' = RegMsg(n)
    /\ hands' = AddHand(t, n, "lua")

LuaListen(t, n) ==
    /\ Call(t)
    /\ DoListen(t, n)
    /\ UNCHANGED <<route, harbor, mbox, start, sent, stays, done>>

\* Every send of ahar.lua: the name is registered, then packing the message fails.
LuaSend(t, n) ==
    /\ Call(t)
    /\ ~Clashes(t, n)
    /\ known' = Knows(t, n)
    /\ mname' = RegMsg(n)
    /\ UNCHANGED <<hands, route, harbor, mbox, cbs, start, sent, stays, done>>

-----------------------------------------------------------------------------
(* Objects.                                                                *)

\* Messages on their way to an object have lost it when it moves.
Moved(o, t) ==
    /\ route' = [route EXCEPT ![o] = t]
    /\ stays' = [m \in 1 .. MaxMsgs |->
                   IF m \in 1 .. Len(sent) /\ sent[m].rid = o /\ route[o] # t
                   THEN None ELSE stays[m]]

EnterCt(t, o) ==
    /\ Call(t)
    /\ Moved(o, t)
    /\ UNCHANGED <<tables, harbor, mbox, states, start, sent, done>>

\* Whichever thread the object is in by now.
LeaveCt(t, o) ==
    /\ Call(t)
    /\ Moved(o, None)
    /\ UNCHANGED <<tables, harbor, mbox, states, start, sent, done>>

-----------------------------------------------------------------------------
(* Sending.                                                                *)

\* har_thd_->pushjob.
MutantQueued(q, m) == <<m>> \o q
Queued(q, m)       == Append(q, m)

Post(t, rid, n) ==
    LET m == Len(sent) + 1 IN
    /\ sent' = Append(sent, [rid |-> rid, name |-> n, from |-> t])
    /\ stays' = [stays EXCEPT ![m] = IF rid = None THEN None ELSE route[rid]]
    /\ harbor' = Queued(harbor, m)

\* ahar_sendto and ahar_svcbc (rid = None), from C++.
SendTo(t, rid, n) ==
    /\ Call(t)
    /\ Post(t, rid, n)
    /\ UNCHANGED <<tables, route, mbox, states, start, done>>

\* The thread the object is in, None if the message is for all: a message to an
\* object that is nowhere is for all, too.
Dest(m) == IF sent[m].rid = None THEN None ELSE route[sent[m].rid]

\* The handlers of thread t that get a job: all, or the first one of the thread that
\* the object is in.
MutantTargets(id, d, t) == IF d \in {None, t} THEN hands[id][t] ELSE <<>>
Targets(id, d, t) ==
    IF d = None THEN hands[id][t]
    ELSE IF t = d /\ hands[id][t] # <<>> THEN <<Head(hands[id][t])>> ELSE <<>>

JobFor(m, h)     == [kind |-> "msg", msg |-> m, hand |-> h]
JobsOf(m, hinfo) == [h \in DOMAIN hinfo |-> JobFor(m, h)]

MutantLeft(q) == q
Left(q)       == Tail(q)

\* The job do_send on the harbor thread.
DoSend ==
    LET m     == Head(harbor)
        id    == Crc[sent[m].name]
        On(t) == IF mname[id] = None THEN <<>> ELSE Targets(id, Dest(m), t)
    IN
    /\ harbor # <<>>
    /\ harbor' = Left(harbor)
    /\ mbox' = [t \in Threads |-> mbox[t] \o JobsOf(m, On(t))]
    /\ UNCHANGED <<tables, route, states, start, sent, stays, done, calls>>

\* ahar.on_buf: all callbacks of the id on this Lua state, up to the first that fails.
OnBuf(t, id) ==
    LET n == IF known[t][id] = None THEN 0 ELSE cbs[t][known[t][id]]
    IN IF n = 0 THEN {{}} ELSE {1 .. k : k \in 1 .. n}

\* The handler's job: a C++ handler is called, or the callbacks of Lua.
RunMsg(t) ==
    LET job == Head(mbox[t])
        id  == Crc[sent[job.msg].name]
    IN
    /\ Executes(t)
    /\ mbox[t] # <<>> /\ job.kind = "msg"
    /\ mbox' = [mbox EXCEPT ![t] = Tail(@)]
    /\ ranlog' = [ranlog EXCEPT ![t] = Append(@, job.msg)]
    /\ \E cb \in IF hands[id][t][job.hand] = "lua" THEN OnBuf(t, id) ELSE {{}} :
          called' = [called EXCEPT ![t] = Append(@, [hand |-> job.hand, cbs |-> cb])]
    /\ UNCHANGED <<tables, route, harbor, states, start, sent, stays, calls>>

-----------------------------------------------------------------------------
(* aapp_run.                                                               *)

Auto1(kind) == [kind |-> kind, msg |-> 0, hand |-> 0]

\* pushjobtoalllua; Main goes on to execute its own jobs.
AppRun ==
    /\ boot[Main] = "before"
    /\ boot' = [t \in Threads |-> "pushed"]
    /\ mbox' = [t \in Threads |-> Append(mbox[t], Auto1("auto"))]
    /\ acks' = Cardinality(Threads)
    /\ UNCHANGED <<tables, route, harbor, states, todo, sent, stays, done, calls>>

RunAuto(t) ==
    /\ Executes(t)
    /\ mbox[t] # <<>> /\ Head(mbox[t]).kind = "auto"
    /\ boot' = [boot EXCEPT ![t] = "listening"]
    /\ todo' = [todo EXCEPT ![t] = Finds[t]]
    /\ UNCHANGED <<tables, route, harbor, mbox, states, acks, sent, stays, done, calls>>

\* The functions in any order, each under mtx_ by itself.
AutoListen(t, n) ==
    /\ boot[t] = "listening" /\ todo[t][n] > 0
    /\ DoListen(t, n)
    /\ todo' = [todo EXCEPT ![t][n] = @ - 1]
    /\ UNCHANGED <<route, harbor, mbox, boot, acks, sent, stays, done, calls>>

\* A clash is an error that ends auto_listen, not the job; either way there is a
\* result.
AutoEnd(t) ==
    /\ boot[t] = "listening"
    /\ \E end \in {"over", "aborted"} :
          /\ IF end = "over" THEN \A n \in Names : todo[t][n] = 0
             ELSE \E n \in Names : todo[t][n] > 0 /\ Clashes(t, n)
          /\ boot' = [boot EXCEPT ![t] = end]
    /\ mbox' = [s \in Threads |->
                  LET rest == IF s = t THEN Tail(mbox[s]) ELSE mbox[s]
                  IN IF s = Main THEN Append(rest, Auto1("ack")) ELSE rest]
    /\ UNCHANGED <<tables, route, harbor, states, todo, acks, sent, stays, done, calls>>

\* jobisok() in the done callback: is it the last one?
MutantAnyOk   == TRUE
MutantNeverOk == acks = 0
JobIsOk       == acks = 1

AutoDone ==
    /\ Executes(Main)
    /\ mbox[Main] # <<>> /\ Head(mbox[Main]).kind = "ack"
    /\ mbox' = [mbox EXCEPT ![Main] = Tail(@)]
    /\ acks' = acks - 1
    /\ IF JobIsOk THEN Post(Main, None, Ready) ELSE UNCHANGED <<sent, stays, harbor>>
    /\ UNCHANGED <<tables, route, states, todo, boot, done, calls>>

\* Nothing is left to do.
Rest ==
    /\ calls = MaxCalls /\ harbor = <<>>
    /\ \A t \in Threads : mbox[t] = <<>> /\ boot[t] \in {"over", "aborted"}
    /\ UNCHANGED vars

Next ==
    \/ \E t \in Threads, n \in Listens : CppListen(t, n) \/ LuaListen(t, n)
    \/ \E t \in Threads, n \in Listens : LuaSend(t, n)
    \/ \E t \in Threads, o \in Objects : EnterCt(t, o) \/ LeaveCt(t, o)
    \/ \E t \in Threads, s \in Sends : SendTo(t, s.rid, s.name)
    \/ DoSend
    \/ \E t \in Threads : RunMsg(t) \/ RunAuto(t) \/ AutoEnd(t)
    \/ \E t \in Threads, n \in Names : AutoListen(t, n)
    \/ AppRun
    \/ AutoDone
    \/ Rest

\* Every thread goes on with its jobs; nobody has to call anything.
Fairness ==
    /\ WF_vars(DoSend) /\ WF_vars(AppRun) /\ WF_vars(AutoDone)
    /\ \A t \in Threads :
          /\ WF_vars(RunMsg(t)) /\ WF_vars(RunAuto(t)) /\ WF_vars(AutoEnd(t))
          /\ \A n \in Names : WF_vars(AutoListen(t, n))

Spec == Init /\ [][Next]_vars /\ Fairness

-----------------------------------------------------------------------------
\* The messages of which thread t has run a job, has one, or may get one, each with
\* its place in the order of the three.
Coming(t) ==
    LET ran   == Len(ranlog[t])
        posts == {i \in 1 .. Len(mbox[t]) : mbox[t][i].kind = "msg"}
    IN {<<i, ranlog[t][i]>> : i \in 1 .. ran}
          \cup {<<ran + i, mbox[t][i].msg>> : i \in posts}
          \cup {<<ran + Len(mbox[t]) + i, harbor[i]>> : i \in 1 .. Len(harbor)}

\* Every thread gets messages in the one order in which they were sent, whichever
\* threads sent them and wherever their objects are.
OneOrder ==
    \A t \in Threads : \A a, b \in Coming(t) : a[1] < b[1] => a[2] <= b[2]

\* How often something of X is in s.
Count(s, X) == Cardinality({i \in 1 .. Len(s) : s[i] \in X})

\* How many jobs of message m thread t has had, or has.
JobsFor(m)   == [kind : {"msg"}, msg : {m}, hand : Nat]
JobsOn(t, m) == Count(ranlog[t], {m}) + Count(mbox[t], JobsFor(m))

\* A message to an object that stays where it is goes to the object's thread only,
\* and once, however many handlers that thread has.
StaysPut ==
    \A m \in 1 .. Len(sent) : stays[m] # None =>
       \A t \in Threads : JobsOn(t, m) <= IF t = stays[m] THEN 1 ELSE 0

\* For one message: how often a handler was called, and a callback of Lua, and how many
\* handlers of the id the Lua state has.
HandlerCalls(t, m, h) ==
    Cardinality({j \in 1 .. Len(ranlog[t]) : ranlog[t][j] = m /\ called[t][j].hand = h})
CallbackCalls(t, m, cb) ==
    Cardinality({j \in 1 .. Len(ranlog[t]) : ranlog[t][j] = m /\ cb \in called[t][j].cbs})
LuaHands(t, id) == Count(hands[id][t], {"lua"})

\* A handler in C++ is called once at most for a message, whatever else the thread
\* listens to.  A callback in Lua is not: each listen of its thread has made a handler
\* on_buf, and each of these calls all callbacks.  But it is called no more often than
\* there are such handlers, and once at most if the thread has listened once, or if the
\* message is to an object that stays where it is.
CalledOnce ==
    \A m \in 1 .. Len(sent), t \in Threads :
       LET id == Crc[sent[m].name] IN
       /\ \A h \in DOMAIN hands[id][t] : HandlerCalls(t, m, h) <= 1
       /\ \A cb \in 1 .. LuaHands(t, id) :
             CallbackCalls(t, m, cb) <= IF stays[m] = None THEN LuaHands(t, id) ELSE 1

\* smsg_ready is sent by aapp_run once, after every Lua thread has listened.
Announced == {m \in 1 .. Len(sent) : sent[m].name = Ready}
ReadyAfterAll ==
    /\ Cardinality(Announced) <= 1
    /\ Announced # {} => \A t \in Threads : boot[t] \in {"over", "aborted"}

\* Every thread with a function smsg_ready gets the message in the end, unless a
\* clash of names has ended its auto_listen.
ReadyArrives ==
    \A t \in Threads : Finds[t][Ready] > 0 =>
       <>(boot[t] = "aborted" \/ \E i \in 1 .. Len(ranlog[t]) : sent[ranlog[t][i]].name = Ready)
=============================================================================
