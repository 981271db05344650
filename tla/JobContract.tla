---------------------------- MODULE JobContract ----------------------------
(***************************************************************************)
(* What athd promises to the user of pushjob, pushjobtoall and             *)
(* pool::pushjob, with no word about mailboxes, nodes and pools: the work  *)
(* function runs once on every thread the job was pushed to, in the order  *)
(* in which one thread pushed to another; the done callback runs once for  *)
(* each of them, on the pushing thread; the callback that is told          *)
(* jobisok() is the last one, and the job's data lives until then.         *)
(* Athd implements this module as long as no thread is stopped.            *)
(***************************************************************************)
EXTENDS Naturals, FiniteSets

CONSTANTS
    Threads,
    JobIds      \* numbers: a thread pushes its jobs in their order

VARIABLE job    \* what has happened to each job

States == {"unused", "live", "over"}

JobType ==
    [JobIds -> [state : States, by : Threads, to : SUBSET Threads,
                ran : SUBSET Threads,       \* where its work function ran
                dones : Nat,                \* done callbacks run
                at : SUBSET Threads,        \* where they ran
                last : BOOLEAN]]            \* one of them saw jobisok()

TypeOK == job \in JobType

Init ==
    /\ job \in JobType
    /\ \A j \in JobIds : /\ job[j].state = "unused"
                         /\ job[j].ran = {}
                         /\ job[j].to = {}
                         /\ job[j].dones = 0
                         /\ job[j].at = {}
                         /\ ~job[j].last

Submit(j, by, to) ==
    /\ job[j].state = "unused"
    /\ to # {}
    /\ job' = [job EXCEPT ![j] = [state |-> "live", by |-> by, to |-> to,
                                  ran |-> {}, dones |-> 0, at |-> {},
                                  last |-> FALSE]]

\* Jobs that the same thread pushed to t earlier.
Before(j, t) ==
    {i \in JobIds : /\ i < j
                    /\ job[i].state # "unused"
                    /\ job[i].by = job[j].by
                    /\ t \in job[i].to}

Work(j, t) ==
    /\ job[j].state = "live"
    /\ t \in job[j].to \ job[j].ran
    /\ \A i \in Before(j, t) : t \in job[i].ran
    /\ job' = [job EXCEPT ![j].ran = @ \cup {t}]

\* The done callback, on thread t.
Callback(j, t) ==
    /\ job[j].state = "live"
    /\ t = job[j].by
    /\ job[j].dones < Cardinality(job[j].ran)
    /\ job' = [job EXCEPT ![j].dones = @ + 1,
                          ![j].at = @ \cup {t},
                          ![j].last = job[j].dones + 1 = Cardinality(job[j].to)]

Retire(j) ==
    /\ job[j].state = "live"
    /\ job[j].last
    /\ job' = [job EXCEPT ![j].state = "over"]

Next ==
    \E j \in JobIds :
       \/ \E by \in Threads, to \in SUBSET Threads : Submit(j, by, to)
       \/ \E t \in Threads : Work(j, t) \/ Callback(j, t)
       \/ Retire(j)

Spec == Init /\ [][Next]_job
=============================================================================
