------------------------------- MODULE MCAlog -------------------------------
(* Instances of Alog for TLC.                                              *)
EXTENDS Alog

CONSTANTS a, b, sys, lua, none
=============================================================================
