--------------------------- MODULE MCFlowControl ---------------------------
(***************************************************************************)
(* FlowControl for TLC: a leader of term 3 whose log starts with an entry  *)
(* of term 1, and a follower that has nothing, or a tail of term 2.        *)
(***************************************************************************)
EXTENDS FlowControl

E(t) == [term |-> t, size |-> 1]

OneEntry == <<E(1)>>
BehindOrDiverged == {<<>>, <<E(1), E(2), E(2)>>}
Behind == {<<>>}
=============================================================================
