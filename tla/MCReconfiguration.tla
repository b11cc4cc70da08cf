------------------------- MODULE MCReconfiguration -------------------------
(***************************************************************************)
(* Reconfiguration for TLC.                                                *)
(***************************************************************************)
EXTENDS Reconfiguration, TLC
=============================================================================
