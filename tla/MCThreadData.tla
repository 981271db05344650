---------------------------- MODULE MCThreadData ----------------------------
(* Instances of ThreadData for TLC.                                        *)
EXTENDS ThreadData

CONSTANTS a, b, c

AllChoices  == [start : BOOLEAN, stop : BOOLEAN]
=============================================================================
