----------------------------- MODULE ConfChange -----------------------------
(***************************************************************************)
(* Configurations and how they change: raft/confchange (Changer, Restore), *)
(* tracker.Config and its ConfState, ConfChangeV2 (raft/raftpb).           *)
(*                                                                         *)
(* A configuration c is tracker.Config with the part of the progress map   *)
(* that depends on it: prs maps the tracked peers to IsLearner.            *)
(***************************************************************************)
EXTENDS Quorums, Sequences, SequencesExt

Refused == [refused |-> TRUE]   \* an error instead of a configuration

EmptyConfig == [incoming |-> {}, outgoing |-> {}, Learners |-> {}, LearnersNext |-> {},
                AutoLeave |-> FALSE, prs |-> <<>>]

Config(Id) == [incoming : SUBSET Id, outgoing : SUBSET Id, Learners : SUBSET Id,
               LearnersNext : SUBSET Id, AutoLeave : BOOLEAN,
               prs : UNION {[S -> BOOLEAN] : S \in SUBSET Id}]

ChangeTypes == {"AddNode", "AddLearnerNode", "RemoveNode", "UpdateNode"}
Change(type, id) == [type |-> type, id |-> id]

joint(c) == c.outgoing # {}
VoterIDs(c) == c.incoming \cup c.outgoing
IsSingleton(c) == Cardinality(c.incoming) = 1 /\ c.outgoing = {}

track(prs, id, isLearner) == [p \in DOMAIN prs \cup {id} |-> IF p = id THEN isLearner ELSE prs[p]]
untrack(prs, id) == [p \in DOMAIN prs \ {id} |-> prs[p]]

----------------------------------------------------------------------------
(* raft/confchange/confchange.go *)

\* What every operation starts from and ends with.
checkInvariants(c) ==
    /\ VoterIDs(c) \cup c.Learners \cup c.LearnersNext \subseteq DOMAIN c.prs
    /\ c.LearnersNext \subseteq c.outgoing
    /\ \A id \in c.LearnersNext : ~c.prs[id]
    /\ c.Learners \cap VoterIDs(c) = {}
    /\ \A id \in c.Learners : c.prs[id]
    /\ ~joint(c) => c.LearnersNext = {} /\ ~c.AutoLeave

checkAndReturn(c) == IF checkInvariants(c) THEN c ELSE Refused

makeVoter(c, id) ==
    [c EXCEPT !.prs = track(@, id, FALSE), !.incoming = @ \cup {id},
              !.Learners = @ \ {id}, !.LearnersNext = @ \ {id}]

remove(c, id) ==
    IF id \notin DOMAIN c.prs THEN c
    ELSE [c EXCEPT !.incoming = @ \ {id}, !.Learners = @ \ {id}, !.LearnersNext = @ \ {id},
                   !.prs = IF id \in c.outgoing THEN @ ELSE untrack(@, id)]

\* A plausible slip: a demoted voter becomes a learner at once.
makeLearner_AtOnce(c, id) ==
    IF id \in DOMAIN c.prs /\ c.prs[id] THEN c
    ELSE [remove(c, id) EXCEPT !.prs = track(@, id, TRUE), !.Learners = @ \cup {id}]

\* A new learner, or a demoted voter: staged while the outgoing half has it.
makeLearner(c, id) ==
    IF id \notin DOMAIN c.prs
    THEN [c EXCEPT !.prs = track(@, id, TRUE), !.Learners = @ \cup {id}]
    ELSE IF c.prs[id] THEN c
    ELSE LET removed == remove(c, id)
         IN  IF id \in c.outgoing
             THEN [removed EXCEPT !.prs = track(@, id, FALSE), !.LearnersNext = @ \cup {id}]
             ELSE [removed EXCEPT !.prs = track(@, id, TRUE), !.Learners = @ \cup {id}]

applyOne(c, cc) ==
    IF cc.type = "AddNode" THEN makeVoter(c, cc.id)
    ELSE IF cc.type = "AddLearnerNode" THEN makeLearner(c, cc.id)
    ELSE IF cc.type = "RemoveNode" THEN remove(c, cc.id)
    ELSE c

apply(c, ccs) ==
    LET d == FoldLeft(applyOne, c, ccs) IN IF d.incoming = {} THEN Refused ELSE d

symdiff(l, r) == Cardinality((l \ r) \cup (r \ l))

Simple(c, ccs) ==
    LET d == apply(c, ccs)
    IN  IF ~checkInvariants(c) \/ joint(c) \/ d = Refused THEN Refused
        ELSE IF symdiff(c.incoming, d.incoming) > 1 THEN Refused
        ELSE checkAndReturn(d)

EnterJoint(c, autoLeave, ccs) ==
    LET d == apply([c EXCEPT !.outgoing = c.incoming], ccs)
    IN  IF ~checkInvariants(c) \/ joint(c) \/ c.incoming = {} \/ d = Refused THEN Refused
        ELSE checkAndReturn([d EXCEPT !.AutoLeave = autoLeave])

LeaveJoint(c) ==
    LET learners == c.Learners \cup c.LearnersNext
        left     == c.outgoing \ (c.incoming \cup learners)
    IN  IF ~checkInvariants(c) \/ ~joint(c) THEN Refused
        ELSE checkAndReturn(
               [c EXCEPT !.Learners = learners, !.LearnersNext = {}, !.outgoing = {},
                         !.AutoLeave = FALSE,
                         !.prs = [p \in DOMAIN @ \ left |-> @[p] \/ p \in c.LearnersNext]])

----------------------------------------------------------------------------
(* raft/raftpb/confchange.go: ConfChangeV2 *)

Transitions == {"Auto", "JointImplicit", "JointExplicit"}
ConfChangeV2(transition, changes) == [transition |-> transition, changes |-> changes]

wantsLeaveJoint(cc) == cc.transition = "Auto" /\ cc.changes = <<>>
wantsEnterJoint(cc) == cc.transition # "Auto" \/ Len(cc.changes) > 1
autoLeave(cc) == cc.transition # "JointExplicit"

\* The Changer's part of raft.applyConfChange.
changed(c, cc) ==
    IF wantsLeaveJoint(cc) THEN LeaveJoint(c)
    ELSE IF wantsEnterJoint(cc) THEN EnterJoint(c, autoLeave(cc), cc.changes)
    ELSE Simple(c, cc.changes)

----------------------------------------------------------------------------
(* tracker.ProgressTracker.ConfState and raft/confchange/restore.go *)

ConfState(c) ==
    [Voters |-> SetToSeq(c.incoming), VotersOutgoing |-> SetToSeq(c.outgoing),
     Learners |-> SetToSeq(c.Learners), LearnersNext |-> SetToSeq(c.LearnersNext),
     AutoLeave |-> c.AutoLeave]

ChangeAll(type, ids) == [k \in 1..Len(ids) |-> Change(type, ids[k])]

\* A plausible slip: the outgoing voters are not removed first.
incomingChanges_NoRemoval(cs) ==
    ChangeAll("AddNode", cs.Voters)
    \o ChangeAll("AddLearnerNode", cs.Learners) \o ChangeAll("AddLearnerNode", cs.LearnersNext)

\* toConfChangeSingle, the incoming half.
incomingChanges(cs) ==
    ChangeAll("RemoveNode", cs.VotersOutgoing) \o ChangeAll("AddNode", cs.Voters)
    \o ChangeAll("AddLearnerNode", cs.Learners) \o ChangeAll("AddLearnerNode", cs.LearnersNext)

\* chain of Simple changes, one by one.
SimpleOneByOne(ccs) ==
    FoldLeft(LAMBDA c, cc : IF c = Refused THEN Refused ELSE Simple(c, <<cc>>), EmptyConfig, ccs)

\* Restore: the outgoing half first, then into the joint configuration.
Restore(cs) ==
    IF cs.VotersOutgoing = <<>> THEN SimpleOneByOne(incomingChanges(cs))
    ELSE EnterJoint(SimpleOneByOne(ChangeAll("AddNode", cs.VotersOutgoing)),
                    cs.AutoLeave, incomingChanges(cs))
=============================================================================
