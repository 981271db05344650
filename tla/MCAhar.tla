------------------------------- MODULE MCAhar -------------------------------
(* An instance of Ahar for TLC: two threads, an object, and two names with *)
(* the same id.                                                            *)
EXTENDS Ahar

CONSTANTS main, logic, player, Nothing

MCNames == {"smsg_ready", "smsg_move", "smsg_twin"}
MCCrc   == [n \in MCNames |-> IF n = "smsg_ready" THEN 1 ELSE 2]
MCFinds  == [t \in {main, logic} |->
              [n \in MCNames |->
                 CASE n = "smsg_ready" -> (IF t = logic THEN 1 ELSE 0)
                   [] n = "smsg_move" -> 1
                   [] n = "smsg_twin" -> 0]]
MCSends == [rid : {player, Nothing}, name : {"smsg_move"}]
=============================================================================
