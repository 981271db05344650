------------------------------ MODULE MCAidGen ------------------------------
(* Instances of AidGen for TLC.                                            *)
EXTENDS AidGen

CONSTANTS a, b
=============================================================================
