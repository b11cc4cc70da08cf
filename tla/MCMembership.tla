---------------------------- MODULE MCMembership ----------------------------
(***************************************************************************)
(* Membership for TLC.  With no input left, which commit index is on   *)
(* disk makes no difference.                                               *)
(***************************************************************************)
EXTENDS Membership

CONSTANTS s1, s2, s3

\* From a group in which s1 decides alone to one in which s2 and s3 do, or in
\* which s1 and s2 do.
MoveAway == ConfChangeV2("Auto", <<Change("AddNode", s2), Change("AddNode", s3),
                                   Change("RemoveNode", s1)>>)
AddS2 == ConfChangeV2("Auto", <<Change("AddNode", s2)>>)
AllChanges == {MoveAway, AddS2}

View == <<[i \in Server |-> IF inputs = MaxInputs THEN [node[i] EXCEPT !.stable = 0]
                            ELSE node[i]], inputs>>
=============================================================================
