------------------------------ MODULE Quorums ------------------------------
(***************************************************************************)
(* raft/quorum: decisions of one majority configuration (a set of voters)  *)
(* and of a joint one, where both halves must agree.                       *)
(***************************************************************************)
EXTENDS Integers, FiniteSets

Infinite == 1000000   \* math.MaxUint64: what a configuration without voters has acknowledged

\* A plausible slip: half of an even number of voters is enough.
majority_RoundsUp(voters) == (Cardinality(voters) + 1) \div 2

majority(voters) == Cardinality(voters) \div 2 + 1

\* MajorityConfig.VoteResult: votes maps those who have answered to yes or no.
MajorityVoteResult(voters, votes) ==
    LET yes == {id \in voters : id \in DOMAIN votes /\ votes[id]}
        no  == {id \in voters : id \in DOMAIN votes /\ ~votes[id]}
    IN  IF voters = {} \/ Cardinality(yes) >= majority(voters) THEN "VoteWon"
        ELSE IF Cardinality(voters \ no) >= majority(voters) THEN "VotePending"
        ELSE "VoteLost"

\* JointConfig.VoteResult.
VoteResult(incoming, outgoing, votes) ==
    LET r1 == MajorityVoteResult(incoming, votes)
        r2 == MajorityVoteResult(outgoing, votes)
    IN  IF r1 = r2 THEN r1
        ELSE IF "VoteLost" \in {r1, r2} THEN "VoteLost" ELSE "VotePending"

AtLeast(voters, acked, i) == {id \in voters : id \in DOMAIN acked /\ acked[id] >= i}

\* MajorityConfig.CommittedIndex: the largest index a majority has acknowledged.
MajorityCommittedIndex(voters, acked) ==
    LET known == {0} \cup {acked[id] : id \in voters \cap DOMAIN acked}
        by    == {i \in known : i = 0 \/ Cardinality(AtLeast(voters, acked, i)) >= majority(voters)}
    IN  IF voters = {} THEN Infinite ELSE CHOOSE i \in by : \A k \in by : k <= i

\* JointConfig.CommittedIndex.
CommittedIndex(incoming, outgoing, acked) ==
    LET idx0 == MajorityCommittedIndex(incoming, acked)
        idx1 == MajorityCommittedIndex(outgoing, acked)
    IN  IF idx0 < idx1 THEN idx0 ELSE idx1
=============================================================================
