--------------------------- MODULE MCRaftCluster ---------------------------
(***************************************************************************)
(* RaftCluster for TLC: the servers are symmetric, and the view hides what *)
(* is dead, so that states that differ in nothing else count as one:       *)
(*   - prs of a server that does not lead: becomeLeader resets it before   *)
(*     anyone reads it;                                                    *)
(*   - the tally of a server that does not campaign: a campaign resets it; *)
(*   - a vote, or an answer to a leader or candidate, whose term both ends *)
(*     have durably left: stepLowerTerm drops it, and no property but      *)
(*     ClusterInv, which is proved, is about it any more;                  *)
(*   - which commit index is synced, once no crash is left to ask for it.  *)
(***************************************************************************)
EXTENDS RaftCommits, TLC

Symmetry == Permutations(Server)

Dead(m) ==
    /\ \/ m.type \in {"MsgVote", "MsgVoteResp", "MsgPreVoteResp", "MsgAppResp",
                      "MsgHeartbeatResp", "MsgTimeoutNow"}
       \/ m.type \in {"MsgApp", "MsgHeartbeat"} /\ ~CheckQuorum /\ ~PreVote
    /\ m.term < disk[m.to].hs.Term /\ m.term < node[m.to].Term
    /\ m.term < disk[m.from].hs.Term

\* The bound of the run about pre-votes: it ends where replication takes over.
NothingReplicated ==
    \A i, j \in Server : node[i].log # <<>> /\ node[j].log # <<>> => i = j

\* The bounds of the run with three servers: a later leader may still have
\* overwritten what an earlier one left, or been overwritten; ...
ShortLogs == \A i \in Server : Len(node[i].log) <= 2

\* ... a fourth campaign only after three that were won, and while an old entry
\* that two servers have can be overwritten by a rival of a later term; ...
TermsLed == {m.term : m \in {n \in net : n.type = "MsgApp"}}
FirstTerm(i) == TermAt(node[i].log, 1)
Contested ==
    \E i, j \in Server :
        /\ 0 < FirstTerm(i) /\ FirstTerm(i) < FirstTerm(j)
        /\ Cardinality({k \in Server : FirstTerm(k) = FirstTerm(i)}) >= 2
FourthIfContested == used["campaigns"] > 3 => Cardinality(TermsLed) >= 3 /\ Contested

\* ... and one fault: a crash in two campaigns, or a peer reported unreachable
\* in one.
OneFault ==
    /\ used["restarts"] + used["unreachable"] <= 1
    /\ used["restarts"] > 0 => used["campaigns"] <= 2
    /\ used["unreachable"] > 0 => used["campaigns"] <= 1

FourTermsOrOneFault == ShortLogs /\ FourthIfContested /\ OneFault

\* The fields of r that anything still reads.
Live(r) ==
    LET s == IF r.state = "StateLeader" THEN r ELSE [r EXCEPT !.prs = <<>>]
    IN  IF r.state \in {"StateCandidate", "StatePreCandidate"} THEN s
        ELSE [s EXCEPT !.granted = {}, !.rejected = {}]

View == <<[i \in Server |-> Live(node[i])],
          [i \in Server |-> IF used["restarts"] = MaxRestarts \/ used["campaigns"] > 2
                            THEN [disk[i] EXCEPT !.synced = 0] ELSE disk[i]],
          {m \in net : ~Dead(m)}, TermsLed, used>>
=============================================================================
