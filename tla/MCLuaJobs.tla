----------------------------- MODULE MCLuaJobs -----------------------------
(* An instance of LuaJobs for TLC: main with one thread and two jobs, or   *)
(* with two threads or a pool of two that just fits in new_pool's array    *)
(* and one job.  The second job has the name of the first and another      *)
(* function, or another name.                                              *)
EXTENDS LuaJobs

MCJobs ==
    <<{[name |-> "x", fn |-> "f", back |-> TRUE]},
      {[name |-> "x", fn |-> "g", back |-> FALSE], [name |-> "y", fn |-> "g", back |-> TRUE]}>>
=============================================================================
