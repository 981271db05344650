----------------------------- MODULE ObjectPool -----------------------------
(***************************************************************************)
(* What list<Node> of a.thread.h promises: an object of the pool is free   *)
(* or owned by one process; alloc hands out a free one, free and frees     *)
(* take back objects that the caller owns.  NodePool implements this       *)
(* module.                                                                 *)
(***************************************************************************)
EXTENDS FiniteSets

CONSTANTS Procs, Nodes

VARIABLES free, owned

Init == free = Nodes /\ owned = [p \in Procs |-> {}]

Take(p, n) ==
    /\ n \in free
    /\ free' = free \ {n}
    /\ owned' = [owned EXCEPT ![p] = @ \cup {n}]

GiveBack(p, back) ==
    /\ back # {} /\ back \subseteq owned[p]
    /\ free' = free \cup back
    /\ owned' = [owned EXCEPT ![p] = @ \ back]

Next ==
    \E p \in Procs :
       \/ \E n \in Nodes : Take(p, n)
       \/ \E back \in SUBSET Nodes : GiveBack(p, back)

Spec == Init /\ [][Next]_<<free, owned>>
=============================================================================
