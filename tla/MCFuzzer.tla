------------------------------ MODULE MCFuzzer ------------------------------
(***************************************************************************)
(* Fuzzer for TLC: a few of the choices that can be drawn, and between     *)
(* episodes only what the next one reads.                                  *)
(***************************************************************************)
EXTENDS Fuzzer

node(from, to, max) == [type |-> "Node", from |-> from, to |-> to, max |-> max]
TwoLinks == {node(1, 2, 1), node(2, 1, 2)}
NoServer == {node(0, 1, 1)}

View ==
    IF pc = "episode" THEN vars
    ELSE <<pc, campaign, budget, tCtx>>
=============================================================================
