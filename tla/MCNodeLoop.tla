---------------------------- MODULE MCNodeLoop ----------------------------
(***************************************************************************)
(* NodeLoop for TLC.                                                       *)
(***************************************************************************)
EXTENDS NodeLoop

CONSTANTS c1, c2, App1, s1, s2
=============================================================================
