----------------------------- MODULE Membership -----------------------------
(***************************************************************************)
(* A group that changes its configuration while it elects leaders and      *)
(* replicates: what raft/raft.go does with conf changes, from the proposal *)
(* to their application, on ConfChange's configurations.                   *)
(*                                                                         *)
(* Everything but the configurations is kept coarse (RaftCluster has the   *)
(* detail): a step of a server includes the Ready it leads to (what it     *)
(* appends is durable, its messages to itself are handled), and a message  *)
(* is handled when it is sent; its answer, at once or never.               *)
(*                                                                         *)
(* node    : the servers, with the ConfChange configuration each has       *)
(*           switched to (conf), up to which index the application has     *)
(*           handed conf changes over (configured), and what a restart     *)
(*           finds: the index of the snapshot (snap) and the commit index  *)
(*           that is surely on disk (stable)                               *)
(* inputs  : proposals, snapshots and restarts so far                      *)
(***************************************************************************)
EXTENDS ConfChange, LogTerms

CONSTANTS
    Server,
    Nil,             \* no vote
    InitialVoters,   \* the configuration of the first snapshot
    FirstLeader,     \* the leader of term 1
    Changes,         \* the ConfChangeV2s proposed
    MaxBatch,        \* entries in one MsgApp
    MaxTerm,
    MaxInputs        \* conf changes proposed, snapshots sent and restarts together

ASSUME MembershipAssumption ==
    /\ IsFiniteSet(Server) /\ Nil \notin Server
    /\ InitialVoters \subseteq Server /\ FirstLeader \in InitialVoters
    /\ MaxBatch \in Nat \ {0}
    /\ {MaxTerm, MaxInputs} \subseteq Nat

VARIABLES node, inputs
vars == <<node, inputs>>

Normal == ConfChangeV2("None", <<>>)       \* the conf change of a normal entry
LeaveEntry == ConfChangeV2("Auto", <<>>)   \* the zero ConfChangeV2

Entry == [term : 1..MaxTerm, cc : Changes \cup {Normal, LeaveEntry}]

TypeOK ==
    /\ node \in [Server ->
         [Term : 0..MaxTerm, Vote : Server \cup {Nil},
          state : {"StateFollower", "StateCandidate", "StateLeader"},
          votes : UNION {[S -> BOOLEAN] : S \in SUBSET Server},
          log : Seq(Entry), committed : Nat, stable : Nat, applied : Nat, configured : Nat,
          snap : Nat, conf : Config(Server), pendingConfIndex : Nat,
          Match : [Server -> Nat], panic : BOOLEAN]]
    /\ \A i \in Server : LET r == node[i] IN
         /\ checkInvariants(r.conf)
         /\ r.snap <= r.applied /\ r.applied <= r.configured
         /\ {r.stable, r.configured} \subseteq 0..r.committed /\ r.committed <= Len(r.log)
    /\ inputs \in 0..MaxInputs

NoMatch == [j \in Server |-> 0]
InitialConfig == Restore([Voters |-> SetToSeq(InitialVoters), VotersOutgoing |-> <<>>,
                          Learners |-> <<>>, LearnersNext |-> <<>>, AutoLeave |-> FALSE])

\* The configuration that the entries up to index k lead to.
configAt(log, k) ==
    FoldLeft(LAMBDA c, e : IF e.cc = Normal THEN c ELSE changed(c, e.cc),
             InitialConfig, SubSeq(log, 1, k))

----------------------------------------------------------------------------
(* The leader *)

tracked(r) == DOMAIN r.conf.prs

maybeCommit(r) ==
    LET mci == CommittedIndex(r.conf.incoming, r.conf.outgoing, [j \in tracked(r) |-> r.Match[j]])
    IN  IF mci > r.committed /\ TermAt(r.log, mci) = r.Term
        THEN [r EXCEPT !.committed = mci] ELSE r

\* What is on disk after a step that appends or changes the term or the vote.
synced(r) == [r EXCEPT !.stable = r.committed]

\* appendEntry, and the leader's MsgAppResp to itself, which it has no Progress
\* for once it is removed.
appendEntry(r, i, cc) ==
    LET appended == [r EXCEPT !.log = Append(@, [term |-> r.Term, cc |-> cc])]
        acked    == IF i \in tracked(r) THEN [appended EXCEPT !.Match[i] = Len(appended.log)]
                    ELSE appended
    IN  synced(maybeCommit(acked))

\* A plausible slip: only a change in the log counts as pending, not one that
\* an earlier leader may have left.
becomeLeader_NothingPending(r, i) ==
    IF i \notin tracked(r) THEN Panic(r)
    ELSE appendEntry([r EXCEPT !.state = "StateLeader", !.votes = <<>>, !.Match = NoMatch,
                               !.pendingConfIndex = 0], i, Normal)

\* Any entry of an earlier leader may be a conf change that is pending.
becomeLeader(r, i) ==
    IF i \notin tracked(r) THEN Panic(r)
    ELSE appendEntry([r EXCEPT !.state = "StateLeader", !.votes = <<>>, !.Match = NoMatch,
                               !.pendingConfIndex = Len(r.log)], i, Normal)

becomeFollower(r, term) ==
    [r EXCEPT !.Term = term, !.Vote = IF term = r.Term THEN @ ELSE Nil, !.state = "StateFollower",
              !.votes = <<>>, !.pendingConfIndex = 0, !.Match = NoMatch]

\* Why the leader takes a conf change for a normal entry.
refused(r, cc) ==
    \/ r.pendingConfIndex > r.applied
    \/ joint(r.conf) /\ cc.changes # <<>>
    \/ ~joint(r.conf) /\ cc.changes = <<>>

\* MsgProp of a conf change.
proposeConfChange(r, i, cc) ==
    IF i \notin tracked(r) THEN r
    ELSE IF refused(r, cc) THEN appendEntry(r, i, Normal)
    ELSE appendEntry([r EXCEPT !.pendingConfIndex = Len(r.log) + 1], i, cc)

----------------------------------------------------------------------------
(* Elections *)

promotable(r, i) == i \in tracked(r) /\ ~r.conf.prs[i]

numOfPendingConf(r, from, to) == Cardinality({k \in from..to : r.log[k].cc # Normal})

\* A plausible slip: unapplied conf changes do not keep a server from running.
mayCampaign_Unapplied(r, i) == r.state # "StateLeader" /\ promotable(r, i)

mayCampaign(r, i) ==
    /\ r.state # "StateLeader" /\ promotable(r, i)
    /\ numOfPendingConf(r, r.applied + 1, r.committed) = 0

tallied(r, i) ==
    LET result == VoteResult(r.conf.incoming, r.conf.outgoing, r.votes)
    IN  IF result = "VoteWon" THEN becomeLeader(r, i)
        ELSE IF result = "VoteLost" THEN becomeFollower(r, r.Term) ELSE r

Alive(i) == ~node[i].panic

\* hup and campaign: a voter votes for itself.
Campaign(i) ==
    /\ Alive(i) /\ mayCampaign(node[i], i) /\ node[i].Term < MaxTerm
    /\ LET r == [becomeFollower(node[i], node[i].Term + 1)
                   EXCEPT !.state = "StateCandidate", !.Vote = i,
                          !.votes = IF i \in VoterIDs(node[i].conf) THEN (i :> TRUE) ELSE <<>>]
       IN  node' = [node EXCEPT ![i] = synced(tallied(r, i))]
    /\ UNCHANGED inputs

grants(r, i, c) == r.Vote \in {Nil, i} /\ isUpToDate(r.log, Len(c.log), lastTerm(c.log))

\* j handles i's MsgVote, whatever configuration it has itself, and i handles
\* the answer, unless that is lost.
RequestVote(i, j) ==
    /\ Alive(i) /\ Alive(j) /\ node[i].state = "StateCandidate"
    /\ j \in VoterIDs(node[i].conf) \ ({i} \cup DOMAIN node[i].votes)
    /\ node[j].Term <= node[i].Term
    /\ LET r     == IF node[j].Term < node[i].Term THEN becomeFollower(node[j], node[i].Term)
                    ELSE node[j]
           grant == grants(r, i, node[i])
           voter == synced(IF grant THEN [r EXCEPT !.Vote = i] ELSE r)
           told  == [node[i] EXCEPT !.votes = (j :> grant) @@ @]
       IN  \/ node' = [node EXCEPT ![j] = voter, ![i] = tallied(told, i)]
           \/ node' = [node EXCEPT ![j] = voter]
    /\ UNCHANGED inputs

----------------------------------------------------------------------------
(* Replication *)

\* The follower's log up to where it agrees with the leader's.
commonPrefix(r, s) ==
    MaxOr0({k \in 1..Least(Len(r.log), Len(s.log)) : TermAt(r.log, k) = TermAt(s.log, k)})

\* The next entries that s lacks of the leader r's log.
missing(r, s) ==
    LET p == commonPrefix(r, s) IN SubSeq(r.log, p + 1, Least(p + MaxBatch, Len(r.log)))

\* s handles a MsgApp of the leader r.
handleAppendEntries(r, s) ==
    LET follower == IF s.Term < r.Term \/ s.state # "StateFollower"
                    THEN becomeFollower(s, r.Term) ELSE s
        appended == maybeAppend(follower, commonPrefix(r, s), r.committed, missing(r, s))
    IN  IF missing(r, s) # <<>> \/ s.Term < r.Term THEN synced(appended) ELSE appended

acked(r, j, index) == maybeCommit([r EXCEPT !.Match[j] = Greatest(@, index)])

leads(i, j) ==
    /\ Alive(i) /\ Alive(j) /\ i # j
    /\ node[i].state = "StateLeader" /\ j \in tracked(node[i]) /\ node[j].Term <= node[i].Term

\* j handles a MsgApp and the leader the answer, unless that is lost.
Replicate(i, j, answered) ==
    /\ leads(i, j)
    /\ LET index == commonPrefix(node[i], node[j]) + Len(missing(node[i], node[j]))
       IN  node' = [node EXCEPT ![j] = handleAppendEntries(node[i], node[j]),
                                ![i] = IF answered THEN acked(node[i], j, index) ELSE node[i]]
    /\ UNCHANGED inputs

\* A plausible slip: the log is restored and the configuration is not.
restored_KeepsConfig(r, s) ==
    LET index == r.applied
    IN  IF s.Term = r.Term /\ s.state # "StateFollower" THEN s
        ELSE IF matchTerm(s.log, index, r.log[index].term) THEN commitTo(s, index)
        ELSE synced([s EXCEPT !.log = SubSeq(r.log, 1, index), !.committed = index,
                              !.applied = index, !.configured = index, !.snap = index,
                              !.Match = NoMatch])

\* restore: what the log does not have replaces it, and the configuration is
\* the snapshot's.
restored(r, s) ==
    LET index == r.applied
    IN  IF s.Term = r.Term /\ s.state # "StateFollower" THEN s
        ELSE IF matchTerm(s.log, index, r.log[index].term) THEN commitTo(s, index)
        ELSE synced([s EXCEPT !.log = SubSeq(r.log, 1, index), !.committed = index,
                              !.applied = index, !.configured = index, !.snap = index,
                              !.conf = Restore(ConfState(r.conf)), !.Match = NoMatch])

\* The leader compacted its log up to what it has applied and sends the
\* snapshot to a peer that is behind and belongs to its configuration.
SendSnapshot(i, j) ==
    /\ leads(i, j) /\ inputs < MaxInputs
    /\ node[i].configured = node[i].applied
    /\ node[j].committed < node[i].applied
    /\ LET s == becomeFollower(node[j], node[i].Term)
       IN  node' = [node EXCEPT ![j] = restored(node[i], s)]
    /\ inputs' = inputs + 1

----------------------------------------------------------------------------
(* Proposing and applying conf changes *)

\* What remains once a joint configuration is left.
left(c) == IF joint(c) THEN LeaveJoint(c) ELSE c

\* The application does not propose what could not be applied after all that is
\* in the log, such as to remove the last voter: applyConfChange would panic.
ProposeConfChange(i) ==
    /\ Alive(i) /\ node[i].state = "StateLeader" /\ inputs < MaxInputs
    /\ \E cc \in Changes :
         /\ changed(left(configAt(node[i].log, Len(node[i].log))), cc) # Refused
         /\ node' = [node EXCEPT ![i] = proposeConfChange(@, i, cc)]
    /\ inputs' = inputs + 1

\* switchToConfig: the Progress of a peer that stays is kept, one that is new
\* starts from nothing; a leader that is removed or demoted does no more.
switchToConfig(r, i, conf) ==
    LET kept == [j \in Server |-> IF j \in tracked(r) \cap DOMAIN conf.prs THEN r.Match[j] ELSE 0]
        s    == [r EXCEPT !.conf = conf, !.Match = kept]
    IN  IF s.state # "StateLeader" \/ i \notin tracked(s) \/ conf.prs[i] THEN s
        ELSE maybeCommit(s)

\* A plausible slip: only the leader that proposed the joint step leaves it.
leavesJoint_OwnChange(r) ==
    r.conf.AutoLeave /\ r.applied = r.pendingConfIndex /\ r.state = "StateLeader"

leavesJoint(r) ==
    r.conf.AutoLeave /\ r.applied >= r.pendingConfIndex /\ r.state = "StateLeader"

\* appliedTo: with the entry applied, a leader leaves the joint configuration.
appliedTo(r, i, index) ==
    LET s == [r EXCEPT !.applied = index, !.configured = index]
    IN  IF leavesJoint(s) THEN proposeConfChange(s, i, LeaveEntry) ELSE s

hasNextEntry(r) == r.configured = r.applied /\ r.applied < r.committed

ApplyNormal(i) ==
    /\ Alive(i) /\ hasNextEntry(node[i]) /\ node[i].log[node[i].applied + 1].cc = Normal
    /\ node' = [node EXCEPT ![i] = appliedTo(@, i, @.applied + 1)]
    /\ UNCHANGED inputs

\* The application calls ApplyConfChange for a conf change, and only later
\* Advance.
ApplyConfChange(i) ==
    /\ Alive(i) /\ hasNextEntry(node[i]) /\ node[i].log[node[i].applied + 1].cc # Normal
    /\ LET r    == [node[i] EXCEPT !.configured = @ + 1]
           conf == changed(r.conf, r.log[r.configured].cc)
       IN  node' = [node EXCEPT ![i] = IF conf = Refused THEN Panic(r)
                                       ELSE switchToConfig(r, i, conf)]
    /\ UNCHANGED inputs

AppliedTo(i) ==
    /\ Alive(i) /\ node[i].applied < node[i].configured
    /\ node' = [node EXCEPT ![i] = appliedTo(@, i, @.configured)]
    /\ UNCHANGED inputs

\* newRaft on what is on disk: the application knows how far it had applied,
\* perhaps not the last of it, and which configuration that left.
Restart(i) ==
    /\ inputs < MaxInputs
    /\ \E applied \in node[i].snap..node[i].applied :
       \E committed \in Greatest(applied, node[i].stable)..node[i].committed :
         node' = [node EXCEPT ![i] =
                    [becomeFollower(@, @.Term)
                       EXCEPT !.committed = committed, !.stable = committed, !.applied = applied,
                              !.configured = applied,
                              !.conf = Restore(ConfState(configAt(node[i].log, applied)))]]
    /\ inputs' = inputs + 1

\* Everyone has voted for the first leader.
Init ==
    /\ node = [i \in Server |->
         LET r == [Term |-> 1, Vote |-> FirstLeader, state |-> "StateFollower", votes |-> <<>>,
                   log |-> <<>>, committed |-> 0, stable |-> 0, applied |-> 0, configured |-> 0,
                   snap |-> 0, conf |-> InitialConfig, pendingConfIndex |-> 0,
                   Match |-> NoMatch, panic |-> FALSE]
         IN  IF i = FirstLeader THEN becomeLeader(r, i) ELSE r]
    /\ inputs = 0

Next ==
    \E i \in Server :
      \/ Campaign(i) \/ Restart(i)
      \/ ProposeConfChange(i) \/ ApplyNormal(i) \/ ApplyConfChange(i) \/ AppliedTo(i)
      \/ \E j \in Server :
           \/ RequestVote(i, j) \/ SendSnapshot(i, j)
           \/ \E answered \in BOOLEAN : Replicate(i, j, answered)

\* Servers apply what is committed, and a leader keeps sending what is missing
\* until it is answered.
Works(i, j) ==
    \/ ApplyNormal(i) \/ ApplyConfChange(i) \/ AppliedTo(i)
    \/ Replicate(i, j, TRUE)

CanWork(i, j) ==
    /\ Alive(i)
    /\ \/ node[i].applied < Greatest(node[i].committed, node[i].configured)
       \/ leads(i, j) /\ \/ handleAppendEntries(node[i], node[j]) # node[j]
                         \/ acked(node[i], j, Len(node[i].log)) # node[i]

\* Each of these steps brings some server further and there are finitely many
\* in a term, so that fairness to all of them is fairness to each.
Fairness ==
    \/ []<>(\A i, j \in Server : ~CanWork(i, j))
    \/ []<><<\E i, j \in Server : Works(i, j)>>_vars

Spec == Init /\ [][Next]_vars /\ Fairness

----------------------------------------------------------------------------
(* Properties *)

\* At most one leader in a term, whatever configurations its voters and those
\* of another candidate have switched to (raft/raft.go, hup and campaign).
ElectionSafety ==
    \A i, j \in Server :
      node[i].state = "StateLeader" /\ node[j].state = "StateLeader"
      /\ node[i].Term = node[j].Term => i = j

committedLog(i) == SubSeq(node[i].log, 1, node[i].committed)

\* Two servers never commit different entries at an index, also when they
\* counted quorums of different configurations.
StateMachineSafety ==
    \A i, j \in Server : node[i].committed <= node[j].committed =>
                           IsPrefix(committedLog(i), committedLog(j))

\* Changing the voters costs raft none of its safety: one leader in a term, one
\* log (ElectionSafety, StateMachineSafety).
SafeThroughChanges == ElectionSafety /\ StateMachineSafety

\* "Only one conf change may be pending (in the log, but not yet applied) at a
\* time" (raft/raft.go, pendingConfIndex), across leaders.
OnePendingChange ==
    \A i \in Server : node[i].state = "StateLeader" =>
        numOfPendingConf(node[i], node[i].applied + 1, Len(node[i].log)) <= 1

\* A server's configuration is what its applied entries lead to, whether it
\* applied them, restored a snapshot, or restarted.
ConfigFromLog ==
    \A i \in Server : ~node[i].panic =>
        node[i].conf = configAt(node[i].log, node[i].configured)

\* No committed change fails to apply, no server is elected that its own
\* configuration does not know, and no committed entry is rewritten.
NoPanic == \A i \in Server : Alive(i)

\* Changes come one after another, and each one applies (OnePendingChange,
\* NoPanic).
MembershipInv == TypeOK /\ NoPanic /\ OnePendingChange

StableLeader(i) == node[i].state = "StateLeader" /\ \A j \in Server : node[j].Term <= node[i].Term

\* A configuration that is to be left automatically is left in the end, if
\* some leader stays (raft.appliedTo), whoever proposed the change.
AutoLeaves == \A i \in Server : <>[]StableLeader(i) => <>[](~node[i].conf.AutoLeave)
=============================================================================
