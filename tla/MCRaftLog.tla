----------------------------- MODULE MCRaftLog -----------------------------
(***************************************************************************)
(* RaftLog for TLC: three leaders of which the third returns to the first  *)
(* one's entries, overwritten by the second's; and two that continue each  *)
(* other's log, the first without committing anything itself, after a term *)
(* without a leader.                                                       *)
(***************************************************************************)
EXTENDS RaftLog

History(logs, commits) == [t \in 1..MaxTerm |-> [log |-> logs[t], commit |-> commits[t]]]

Returning == History(<< <<1>>, <<2>>, <<1, 3>> >>, <<0, 0, 2>>)
Committing == History(<< <<>>, <<2>>, <<2, 3, 3>> >>, <<0, 0, 3>>)

TwoHistories == {Returning, Committing}
=============================================================================
