-------------------------- MODULE Reconfiguration --------------------------
(***************************************************************************)
(* Every sequence of configuration changes a group can apply, one after    *)
(* the other: the Changer of raft/confchange on its own.                   *)
(***************************************************************************)
EXTENDS ConfChange

CONSTANTS
    Id,          \* the peers
    MaxChanges   \* changes in one ConfChangeV2

ASSUME ReconfigurationAssumption == IsFiniteSet(Id) /\ MaxChanges \in Nat

VARIABLE c   \* the configuration all have applied

Single == {Change(type, id) : type \in ChangeTypes, id \in Id}

\* What may be proposed: raft/raft.go refuses an empty change unless it leaves
\* a joint configuration, and any other while the configuration is joint.
Proposals ==
    IF joint(c) THEN {ConfChangeV2("Auto", <<>>)}
    ELSE {ConfChangeV2(transition, changes) :
            transition \in Transitions, changes \in UNION {[1..n -> Single] : n \in 1..MaxChanges}}

\* A group starts from the voters of a ConfState.
Init == \E voters \in SUBSET Id \ {{}} :
            c = Restore([Voters |-> SetToSeq(voters), VotersOutgoing |-> <<>>, Learners |-> <<>>,
                         LearnersNext |-> <<>>, AutoLeave |-> FALSE])

\* raft.applyConfChange: a change the Changer refuses would panic; the
\* application does not propose it.
applyConfChange(cc) == changed(c, cc) # Refused /\ c' = changed(c, cc)

Next == \E cc \in Proposals : applyConfChange(cc)

Spec == Init /\ [][Next]_c

----------------------------------------------------------------------------
(* Properties *)

TypeOK == c \in Config(Id)

LearnersOf(d) == d.Learners \cup d.LearnersNext

\* The change that decides about id, if any.
LastOf(changes, id) ==
    LET at == {k \in 1..Len(changes) : changes[k].id = id /\ changes[k].type # "UpdateNode"}
    IN  IF at = {} THEN "none" ELSE changes[CHOOSE k \in at : \A j \in at : j <= k].type

VotersAfter(changes) ==
    {id \in Id : LastOf(changes, id) = "AddNode"
                 \/ (LastOf(changes, id) = "none" /\ id \in c.incoming)}

LearnersAfter(changes) ==
    {id \in Id : LastOf(changes, id) = "AddLearnerNode"
                 \/ (LastOf(changes, id) = "none" /\ id \in LearnersOf(c))}

\* A change has the outcome its last word on every peer asks for, now or (a
\* voter that becomes a learner) on leaving the joint configuration, and leaving
\* loses nothing; it is refused only when it would leave no voter, or changes
\* several voters without a joint configuration (raft/confchange/confchange.go:
\* never because the result fails the Changer's own checks).
OutcomeAsAsked ==
    \A cc \in Proposals :
      LET d      == changed(c, cc)
          voters == VotersAfter(cc.changes)
      IN  IF d = Refused
          THEN \/ voters = {}
               \/ ~wantsEnterJoint(cc) /\ symdiff(c.incoming, voters) > 1
          ELSE /\ d.incoming = voters
               /\ LearnersOf(d) = LearnersAfter(cc.changes)
               /\ d.outgoing = IF wantsEnterJoint(cc) THEN c.incoming ELSE {}

\* Exactly the peers of the configuration are tracked, learners as learners,
\* staged ones still as voters (tracker.Config's invariant).
TracksItsPeers ==
    /\ DOMAIN c.prs = VoterIDs(c) \cup LearnersOf(c)
    /\ \A id \in DOMAIN c.prs : c.prs[id] <=> id \in c.Learners

\* A configuration survives its own ConfState: a snapshot or a restart restores
\* it with all it stages (raft/confchange/restore.go;
\* raft.go:assertConfStatesEquivalent would panic).
RestoresItself == Restore(ConfState(c)) = c

\* Every configuration that changes lead to is one the rest of raft can work
\* with (TracksItsPeers), and can come back to (RestoresItself).
ConfigInv == TypeOK /\ TracksItsPeers /\ RestoresItself

Wins(d, S) == VoteResult(d.incoming, d.outgoing, [id \in S |-> TRUE]) = "VoteWon"

\* Before and after any change, two quorums share a voter (raft/confchange: the
\* reason for the joint step).
QuorumsMeet == [][\A S, T \in SUBSET Id : Wins(c, S) /\ Wins(c', T) => S \cap T # {}]_c
=============================================================================
