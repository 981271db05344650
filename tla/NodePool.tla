------------------------------ MODULE NodePool ------------------------------
(***************************************************************************)
(* list<Node> of a.thread.h, pointer by pointer: the free list threaded    *)
(* through the nodes, its counter, and the condition variable that alloc   *)
(* waits on.  A process of this module is a thread that allocates nodes,   *)
(* links each behind the ones it has, as push_job does in a mailbox, and   *)
(* gives back one of them with free or the whole chain with frees.         *)
(* The notify calls come after the mutex is released, so they are steps of *)
(* their own.  Athd abstracts this pool to the number of its free nodes.   *)
(***************************************************************************)
EXTENDS Integers, Sequences, FiniteSets, Functions

CONSTANTS
    Procs,
    Capacity    \* the argument of init

Null  == 0
Nodes == 1 .. Capacity

ASSUME CapacityAssumption == Capacity \in Nat \ {0}
ASSUME ProcsAssumption    == IsFiniteSet(Procs)

VARIABLES
    next,       \* next_ of each node
    free,       \* free_
    freeCount,  \* free_count_
    pc,         \* where each process is
    chain,      \* the nodes a process has, in the order of its links
    list        \* history: the nodes of the free list, in its order

poolVars == <<next, free, freeCount, list>>
vars     == <<poolVars, pc, chain>>

\* Every variable has its type; free_count_ is a size_t that never wraps.
TypeOK ==
    /\ next \in [Nodes -> Nodes \cup {Null}]
    /\ free \in Nodes \cup {Null}
    /\ freeCount \in 0 .. Capacity
    /\ pc \in [Procs -> {"out", "asleep", "awake", "link", "one", "all"}]
    /\ chain \in [Procs -> Seq(Nodes)]
    /\ list \in Seq(Nodes)

\* init and build_free_list.
Init ==
    /\ next = [n \in Nodes |-> IF n < Capacity THEN n + 1 ELSE Null]
    /\ free = 1
    /\ freeCount = Capacity
    /\ list = [n \in Nodes |-> n]
    /\ pc = [p \in Procs |-> "out"]
    /\ chain = [p \in Procs |-> <<>>]

Goto(p, point) == pc' = [pc EXCEPT ![p] = point]

-----------------------------------------------------------------------------
(* alloc.                                                                  *)

\* What free_ becomes when its first node is taken.
AfterAlloc  == next[free]

\* The predicate holds: the first node is taken.
Alloc(p) ==
    /\ pc[p] \in {"out", "awake"}
    /\ free # Null
    /\ free' = AfterAlloc
    /\ freeCount' = freeCount - 1
    /\ list' = Tail(list)
    /\ chain' = [chain EXCEPT ![p] = Append(@, free)]
    /\ Goto(p, "link")
    /\ UNCHANGED next

\* It does not hold: wait.
Sleep(p) ==
    /\ pc[p] \in {"out", "awake"}
    /\ free = Null
    /\ Goto(p, "asleep")
    /\ UNCHANGED <<poolVars, chain>>

\* A condition variable may wake a waiter for no reason.
WakeSpuriously(p) ==
    /\ pc[p] = "asleep"
    /\ Goto(p, "awake")
    /\ UNCHANGED <<poolVars, chain>>

Last(p)    == chain[p][Len(chain[p])]
HasOne(p)  == pc[p] = "out" /\ Len(chain[p]) = 1
HasSome(p) == pc[p] = "out" /\ chain[p] # <<>>

\* The caller clears next_ and links the node behind its last one.
MutantKeepNext(n) == next[n]
LastNext(n)       == Null

LinkNode(p) ==
    LET n == Last(p)
        k == Len(chain[p])
    IN
    /\ pc[p] = "link"
    /\ next' = [i \in Nodes |-> IF i = n THEN LastNext(n)
                                ELSE IF k > 1 /\ i = chain[p][k - 1] THEN n
                                ELSE next[i]]
    /\ Goto(p, "out")
    /\ UNCHANGED <<free, freeCount, list, chain>>

-----------------------------------------------------------------------------
(* free and frees.                                                         *)

Free(p) ==
    LET n == chain[p][1] IN
    /\ HasOne(p)
    /\ next' = [next EXCEPT ![n] = free]
    /\ free' = n
    /\ freeCount' = freeCount + 1
    /\ list' = <<n>> \o list
    /\ chain' = [chain EXCEPT ![p] = <<>>]
    /\ Goto(p, "one")

\* frees(h, t, count): t->next_ = free_, free_ = h.
MutantFreeTail(p) == Last(p)
FirstOf(p)        == chain[p][1]
CountOf(p)        == Len(chain[p])

Frees(p) ==
    /\ HasSome(p)
    /\ next' = [next EXCEPT ![Last(p)] = free]
    /\ free' = FirstOf(p)
    /\ freeCount' = freeCount + CountOf(p)
    /\ list' = chain[p] \o list
    /\ chain' = [chain EXCEPT ![p] = <<>>]
    /\ Goto(p, "all")

Asleep == {p \in Procs : pc[p] = "asleep"}

\* notify_one behind free.
NotifyOne(p) ==
    /\ pc[p] = "one"
    /\ IF Asleep = {}
       THEN Goto(p, "out")
       ELSE \E w \in Asleep : pc' = [pc EXCEPT ![p] = "out", ![w] = "awake"]
    /\ UNCHANGED <<poolVars, chain>>

\* The waiters that the notify_all behind frees wakes up.
MutantWakeOne == IF Asleep = {} THEN {} ELSE {CHOOSE w \in Asleep : TRUE}
Woken         == Asleep

NotifyAll(p) ==
    /\ pc[p] = "all"
    /\ pc' = [q \in Procs |-> CASE q = p     -> "out"
                                [] q \in Woken -> "awake"
                                [] OTHER     -> pc[q]]
    /\ UNCHANGED <<poolVars, chain>>

Use(p) ==
    \/ Alloc(p) \/ Sleep(p) \/ WakeSpuriously(p) \/ LinkNode(p)
    \/ Free(p) \/ Frees(p) \/ NotifyOne(p) \/ NotifyAll(p)

Next == \E p \in Procs : Use(p)

Spec == Init /\ [][Next]_vars

-----------------------------------------------------------------------------
\* The nodes from first on are those of s, in this order, and then end.
IsChain(first, s, end) ==
    /\ first = IF s = <<>> THEN end ELSE s[1]
    /\ \A i \in DOMAIN s : next[s[i]] = IF i = Len(s) THEN end ELSE s[i + 1]

\* free_ leads through the free nodes and ends in a null pointer, and so does
\* each chain that frees() may get: what exec() walks from h by next_ is exactly
\* the list it drained and never runs on into free nodes.
Linked ==
    /\ IsChain(free, list, Null)
    /\ \A p \in Procs :
          pc[p] # "link" /\ chain[p] # <<>> => IsChain(chain[p][1], chain[p], Null)

\* The node k links behind free_.
Walk[k \in Nat] ==
    IF k = 0 THEN free ELSE IF Walk[k - 1] = Null THEN Null ELSE next[Walk[k - 1]]

FreeNodes == {Walk[k] : k \in 0 .. Capacity} \ {Null}

\* No lost wakeup: while a thread sleeps in alloc, there are as many threads
\* awake or about to wake one as there are free nodes, or somebody is about to
\* wake all of them.
NoLostWakeup ==
    \/ Asleep = {}
    \/ \E p \in Procs : pc[p] = "all"
    \/ freeCount <= Cardinality({p \in Procs : pc[p] \in {"one", "awake"}})

Contract ==
    INSTANCE ObjectPool WITH
       free  <- FreeNodes,
       owned <- [p \in Procs |-> Range(chain[p])]

PoolSpec == Contract!Spec
=============================================================================
