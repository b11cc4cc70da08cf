---------------------------- MODULE RaftCluster ----------------------------
(***************************************************************************)
(* A group of RawNodes with their disks and an unreliable network, driven  *)
(* the way raft/doc.go asks an application to: step inputs, take a Ready,  *)
(* write its entries and hard state, send its messages, Advance.           *)
(*                                                                         *)
(* node : the *raft of every server (volatile)                             *)
(* disk : what its storage holds: the entries and the HardState            *)
(* net  : every message ever sent.  A message stays, so it can arrive      *)
(*        late, out of order, twice, or never.                             *)
(* used : how much of each bounded kind of event has happened              *)
(***************************************************************************)
EXTENDS RaftNode

CONSTANTS
    MaxTerm,        \* no campaign beyond this term
    MaxCampaigns,   \* election timeouts that fire
    MaxProposals,   \* proposals by clients
    MaxLog,         \* no proposal beyond this log length
    MaxTimeouts,    \* other ticks at which electionElapsed reaches electionTimeout
    MaxBeats,       \* heartbeat broadcasts
    MaxRestarts,    \* crashes, each followed by a restart
    MaxTransfers,   \* requests to transfer leadership
    MaxUnreachable, \* reports that a peer cannot be reached
    CrashPoints,    \* where within a Ready a crash may strike, see CrashInReady
    MaxPending      \* messages to one destination that inputs may pile up before the
                    \* next Ready; 0: every input is followed at once by its Ready and Advance

ASSUME BoundAssumption ==
    /\ MaxTerm \in Nat /\ MaxCampaigns \in Nat /\ MaxProposals \in Nat /\ MaxLog \in Nat
    /\ MaxTimeouts \in Nat /\ MaxBeats \in Nat /\ MaxRestarts \in Nat
    /\ MaxTransfers \in Nat /\ MaxUnreachable \in Nat
    /\ CrashPoints \subseteq {"entriesOnly", "hardStateOnly"}
    /\ MaxPending \in Nat

VARIABLES node, disk, net, used
vars == <<node, disk, net, used>>

HardState == [Term : Nat, Vote : Server \cup {Nil}, Commit : Nat]

\* synced: the commit index that survives a power loss.  A Ready without entries,
\* new term or new vote need not be synced (MustSync).
Disk == [hs : HardState, log : Seq(Entry), synced : Nat]
Event == {"campaigns", "proposals", "timeouts", "beats", "restarts", "transfers", "unreachable"}

TypeOK ==
    /\ node \in [Server -> Node]
    /\ disk \in [Server -> Disk]
    /\ net \in SUBSET Message
    /\ used \in [Event -> Nat]

\* r.hardState()
hardState(r) == [Term |-> r.Term, Vote |-> r.Vote, Commit |-> r.committed]

InitialHardState == [Term |-> 0, Vote |-> Nil, Commit |-> 0]

\* The group is bootstrapped with all of Server as voters and empty logs.
Init ==
    /\ node = [i \in Server |-> newRaft(i, Server, InitialHardState, <<>>)]
    /\ disk = [i \in Server |-> [hs |-> InitialHardState, log |-> <<>>, synced |-> 0]]
    /\ net = {}
    /\ used = [e \in Event |-> 0]

----------------------------------------------------------------------------
(* When a server may take an input *)

\* HasReady: messages, entries or a hard state that were not handed over yet.
NeedsReady(i) == \/ HasReady(node[i])
                 \/ node[i].log # disk[i].log
                 \/ hardState(node[i]) # disk[i].hs

Settled(i) == node[i].steps = <<>> /\ ~NeedsReady(i)

\* An input may reach server i: it is alive, and has room in its outboxes or
\* (when each input is followed by its Ready) no server has one to handle.
CanStep(i) ==
    /\ ~node[i].panic
    /\ IF MaxPending = 0 THEN \A j \in Server : Settled(j)
       ELSE \A d \in Server : Len(node[i].msgs[d]) + Len(node[i].after[d]) < MaxPending

MustSync(d, r) == r.log # d.log \/ r.Term # d.hs.Term \/ r.Vote # d.hs.Vote

\* The disk d once r's Ready was written to it.
Written(d, r) ==
    [hs |-> hardState(r), log |-> r.log,
     synced |-> IF MustSync(d, r) THEN r.committed ELSE d.synced]

\* r after its Ready and one step of Advance.
Turn(r) == LET a == acceptReady(r) IN IF a.steps = <<>> THEN a ELSE advanceOne(a)

\* An input takes server i to the record r.  If MaxPending allows it, more
\* inputs may follow before the application comes round to the Ready.
Moves(i, r) ==
    IF MaxPending > 0 \/ r.panic
    THEN node' = [node EXCEPT ![i] = r] /\ UNCHANGED <<disk, net>>
    ELSE /\ node' = [node EXCEPT ![i] = Turn(r)]
         /\ disk' = [disk EXCEPT ![i] = Written(disk[i], r)]
         /\ net' = net \cup readyMessages(r)

Count(event, max) == used[event] < max /\ used' = [used EXCEPT ![event] = @ + 1]

----------------------------------------------------------------------------
(* Ticks and local calls *)

\* The election timer fires at a follower or candidate.
TickElection(i) ==
    /\ CanStep(i)
    /\ node[i].state # "StateLeader"
    /\ node[i].Term < MaxTerm
    /\ Moves(i, tickElection(node[i], TRUE))
    /\ Count("campaigns", MaxCampaigns)

\* electionElapsed reaches electionTimeout: the lease of the leader ends.
TickLease(i) ==
    /\ CanStep(i)
    /\ CheckQuorum
    /\ node[i].state # "StateLeader" /\ ~node[i].expired
    /\ Moves(i, tickElection(node[i], FALSE))
    /\ Count("timeouts", MaxTimeouts)

\* A leader's heartbeat timer fires.
TickBeat(i) ==
    /\ CanStep(i)
    /\ node[i].state = "StateLeader"
    /\ Moves(i, tickHeartbeat(node[i], FALSE, TRUE))
    /\ Count("beats", MaxBeats)

\* A leader's election timer fires: quorum check, end of a leader transfer.
TickQuorum(i) ==
    /\ CanStep(i)
    /\ node[i].state = "StateLeader"
    /\ Moves(i, tickHeartbeat(node[i], TRUE, FALSE))
    /\ Count("timeouts", MaxTimeouts)

\* RawNode.Propose, at whichever server the client talks to.
Propose(i) ==
    /\ CanStep(i)
    /\ Len(node[i].log) < MaxLog
    /\ \E v \in Value :
         Moves(i, Step(node[i], [Msg("MsgProp", i, i) EXCEPT
                                    !.entries = <<[term |-> 0, val |-> v]>>]))
    /\ Count("proposals", MaxProposals)

\* RawNode.TransferLeader(to): the request is stamped as coming from `to'.
TransferLeader(i) ==
    /\ CanStep(i)
    /\ \E to \in Server : Moves(i, Step(node[i], Msg("MsgTransferLeader", to, i)))
    /\ Count("transfers", MaxTransfers)

\* RawNode.ReportUnreachable(id), which only a leader reacts to.
ReportUnreachable(i) ==
    /\ CanStep(i)
    /\ node[i].state = "StateLeader"
    /\ \E id \in Server \ {i} : Moves(i, handleUnreachable(node[i], id))
    /\ Count("unreachable", MaxUnreachable)

----------------------------------------------------------------------------
(* Messages from the network, RawNode.Step: one action per handler *)

\* A message of one of these types arrives.  (One that Step ignores would be a
\* stuttering step.)
Receive(i, types) ==
    /\ CanStep(i)
    /\ \E m \in net :
         /\ m.to = i /\ m.type \in types
         /\ Step(node[i], m) # node[i]
         /\ Moves(i, Step(node[i], m))
    /\ UNCHANGED used

ReceiveVote(i) == Receive(i, {"MsgVote", "MsgPreVote"})
ReceiveVoteResp(i) == Receive(i, {"MsgVoteResp", "MsgPreVoteResp"})
ReceiveApp(i) == Receive(i, {"MsgApp"})
ReceiveAppResp(i) == Receive(i, {"MsgAppResp"})
ReceiveHeartbeat(i) == Receive(i, {"MsgHeartbeat"})
ReceiveHeartbeatResp(i) == Receive(i, {"MsgHeartbeatResp"})
ReceiveTransferLeader(i) == Receive(i, {"MsgTransferLeader"})

\* A forwarded proposal, within the bound on the log.
ReceiveProp(i) == Len(node[i].log) < MaxLog /\ Receive(i, {"MsgProp"})

\* TimeoutNow starts a campaign, within the bound on terms.
ReceiveTimeoutNow(i) == node[i].Term < MaxTerm /\ Receive(i, {"MsgTimeoutNow"})

----------------------------------------------------------------------------
(* The Ready cycle, and crashes *)

\* Ready, write everything, send: the application does not pick up the next
\* Ready before Advance has worked off the steps of this one.
Ready(i) ==
    /\ ~node[i].panic
    /\ node[i].steps = <<>>
    /\ NeedsReady(i)
    /\ node' = [node EXCEPT ![i] = acceptReady(node[i])]
    /\ disk' = [disk EXCEPT ![i] = Written(disk[i], node[i])]
    /\ net' = net \cup readyMessages(node[i])
    /\ UNCHANGED used

\* One message of Advance.
Advance(i) ==
    /\ ~node[i].panic
    /\ node[i].steps # <<>>
    /\ node' = [node EXCEPT ![i] = advanceOne(node[i])]
    /\ UNCHANGED <<disk, net, used>>

\* Server i loses its memory; d is what its disk holds at that moment, save
\* that a commit index that was not synced may be lost.
RestartFrom(i, d) ==
    /\ \E c \in d.synced..d.hs.Commit :
         LET hs == [d.hs EXCEPT !.Commit = c]
         IN  /\ disk' = [disk EXCEPT ![i] = [hs |-> hs, log |-> d.log, synced |-> c]]
             /\ node' = [node EXCEPT ![i] = newRaft(i, Server, hs, d.log)]
    /\ Count("restarts", MaxRestarts)

\* A crash between two Readys.
Restart(i) == RestartFrom(i, disk[i]) /\ UNCHANGED net

\* A crash while the application is writing a Ready: only the entries or only
\* the hard state made it.  Messages leave when both have.
CrashInReady(i) ==
    /\ ~node[i].panic /\ node[i].steps = <<>> /\ NeedsReady(i)
    /\ \/ /\ "entriesOnly" \in CrashPoints
          /\ RestartFrom(i, [disk[i] EXCEPT !.log = node[i].log])
       \/ /\ "hardStateOnly" \in CrashPoints
          /\ RestartFrom(i, [disk[i] EXCEPT !.hs = hardState(node[i])])
    /\ UNCHANGED net

Tick(i) == TickElection(i) \/ TickLease(i) \/ TickBeat(i) \/ TickQuorum(i)

LocalCall(i) == Propose(i) \/ TransferLeader(i) \/ ReportUnreachable(i)

ReceiveAny(i) ==
    \/ ReceiveVote(i) \/ ReceiveVoteResp(i)
    \/ ReceiveApp(i) \/ ReceiveAppResp(i)
    \/ ReceiveHeartbeat(i) \/ ReceiveHeartbeatResp(i)
    \/ ReceiveTransferLeader(i) \/ ReceiveProp(i) \/ ReceiveTimeoutNow(i)

Next ==
    \E i \in Server :
        \/ Tick(i) \/ LocalCall(i) \/ ReceiveAny(i)
        \/ Ready(i) \/ Advance(i)
        \/ Restart(i) \/ CrashInReady(i)

Spec == Init /\ [][Next]_vars

----------------------------------------------------------------------------
(* What the group promises *)

Leaders == {i \in Server : node[i].state = "StateLeader"}

CommittedLog(i) == SubSeq(node[i].log, 1, node[i].committed)

\* No Panicf of raft.go and log.go is reached: no commit index beyond the log, no
\* conflict below it, no follower that needs a snapshot nobody has, no illegal
\* role change, and in send no campaign message without a term, no other message
\* with one, no answer to oneself.  The code keeps this with PreVote only if no
\* crash leaves entries of a term on disk without the term (core_prevote_crash).
NoPanic == \A i \in Server : ~node[i].panic

\* Two servers never lead the same term, also across crashes: it takes a
\* quorum of votes to lead, and a vote is durable before it is sent (the vote
\* in Step, raft.go send).
ElectionSafety == \A i, j \in Leaders : node[i].Term = node[j].Term => i = j

\* A granted vote that left a server is on its disk: after a crash it cannot
\* vote for anyone else in that term (send() holds MsgVoteResp back).
VotesOnDisk ==
    \A m \in net :
        m.type = "MsgVoteResp" /\ ~m.reject =>
            \/ disk[m.from].hs.Term > m.term
            \/ disk[m.from].hs.Term = m.term /\ disk[m.from].hs.Vote = m.to

\* Entries of the same index and term are the same, and so is all that
\* precedes them, in memory and on disk (maybeAppend's consistency check).
LogMatching ==
    LET logs == {node[i].log : i \in Server} \cup {disk[i].log : i \in Server}
    IN  \A a, b \in logs : \A k \in 1..Least(Len(a), Len(b)) :
          a[k].term = b[k].term => SubSeq(a, 1, k) = SubSeq(b, 1, k)

\* Two servers never commit different entries at one index.
StateMachineSafety ==
    \A i, j \in Server :
        \A k \in 1..Least(node[i].committed, node[j].committed) :
            node[i].log[k] = node[j].log[k]

\* What any server has committed is on the disks of a quorum: a leader counts
\* only acknowledgements that were sent after the append, its own included
\* (maybeCommit, msgsAfterAppend).
CommittedOnDisks ==
    \A i \in Server : \A k \in 1..node[i].committed :
        IsQuorum({j \in Server : Len(disk[j].log) >= k /\ disk[j].log[k] = node[i].log[k]},
                 Server)

\* A leader has every entry that was committed in its own or an earlier term
\* (the up-to-date check on votes and the term check in maybeCommit).
LeaderCompleteness ==
    \A i \in Leaders, j \in Server :
        node[j].Term <= node[i].Term =>
            /\ node[j].committed <= Len(node[i].log)
            /\ CommittedLog(j) = SubSeq(node[i].log, 1, node[j].committed)

\* Match never overstates: until a follower has moved to a newer term, all up
\* to Match is on its disk, exactly as in the leader's log (MaybeUpdate).
MatchOnDisk ==
    \A i \in Leaders, j \in Server :
        disk[j].hs.Term <= node[i].Term =>
            LET match == node[i].prs[j].Match
            IN  /\ match <= Len(node[i].log)
                /\ match <= Len(disk[j].log)
                /\ SubSeq(disk[j].log, 1, match) = SubSeq(node[i].log, 1, match)

\* A leader hands over only to a server that can win: when MsgTimeoutNow
\* leaves, its target has durably all of the leader's log, and keeps it because
\* the leader takes no proposals meanwhile (stepLeader, MsgTransferLeader).
TransferTargetUpToDate ==
    [][\A m \in net' \ net :
         /\ m.type = "MsgTimeoutNow"
         /\ node'[m.from].leadTransferee = m.to
         /\ disk[m.to].hs.Term <= m.term
         => isUpToDate(node'[m.from].log, Len(disk[m.to].log), lastTerm(disk[m.to].log))]_vars

\* What CheckQuorum counts as activity was said to this leader in this term:
\* answers to an earlier leadership do not keep a leader alive.
ActiveInTerm ==
    \A i \in Leaders : \A j \in Server \ {i} :
        node[i].prs[j].RecentActive =>
            \E m \in net : /\ m.type \in {"MsgAppResp", "MsgHeartbeatResp"}
                           /\ m.from = j /\ m.to = i /\ m.term = node[i].Term

\* A step of the group in which no disk loses an entry that its server has
\* committed and, short of a crash, no server takes back what it committed.
CommittedKept ==
    \A i \in Server :
        /\ \A k \in 1..node[i].committed :
             k <= Len(disk[i].log) /\ disk[i].log[k] = node[i].log[k]
             => Len(disk'[i].log) >= k /\ disk'[i].log[k] = disk[i].log[k]
        /\ used'["restarts"] = used["restarts"] =>
             node'[i].committed >= node[i].committed
             /\ SubSeq(node'[i].log, 1, node[i].committed) = CommittedLog(i)

\* Committed entries are never rewritten and, short of a crash, the commit
\* index never moves back.
CommittedStable == [][CommittedKept]_vars

\* A server never takes back a term or vote it showed to others: whatever it
\* sent, its disk is at that term or later, through every crash.
TermOnDisk ==
    \A m \in net :
        m.type \notin {"MsgProp", "MsgPreVote", "MsgPreVoteResp", "MsgTransferLeader"} =>
            disk[m.from].hs.Term >= m.term

\* What an answer told a leader is so, and outlives crashes: the term, the
\* entries, that a quorum has what is committed, who is active (TermOnDisk,
\* MatchOnDisk, CommittedOnDisks, ActiveInTerm).
AnswersHold == TermOnDisk /\ MatchOnDisk /\ CommittedOnDisks /\ ActiveInTerm

\* Who granted i a pre-vote for one of these terms, itself included.
PreGrants(i, terms) ==
    {i} \cup {m.from : m \in {n \in net : /\ n.type = "MsgPreVoteResp" /\ ~n.reject
                                          /\ n.to = i /\ n.term \in terms}}

HandedOver(i, t) == \E m \in net : m.type = "MsgTimeoutNow" /\ m.to = i /\ m.term = t

\* With PreVote, a server enters the next term as a candidate only when a
\* leader handed over to it, or a quorum granted it a pre-vote: for that term,
\* or for the term before, since a late grant of an earlier round is counted in
\* the current one (stepCandidate does not compare the terms).
PreVoteGuardsTerm ==
    [][\A i \in Server :
         LET t == node'[i].Term
         IN  PreVote /\ node'[i].state = "StateCandidate" /\ t > node[i].Term =>
               HandedOver(i, t - 1) \/ IsQuorum(PreGrants(i, {t - 1, t}), Server)]_vars

\* A step of the group in which who leads on in its term keeps its log.
LeadersKeepLogs ==
    \A i \in Leaders :
        node'[i].state = "StateLeader" /\ node'[i].Term = node[i].Term =>
            Len(node'[i].log) >= Len(node[i].log)
            /\ SubSeq(node'[i].log, 1, Len(node[i].log)) = node[i].log

\* A leader's log is only ever extended while it leads.
LeaderAppendOnly == [][LeadersKeepLogs]_vars
=============================================================================
