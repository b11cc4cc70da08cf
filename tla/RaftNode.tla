------------------------------ MODULE RaftNode ------------------------------
(***************************************************************************)
(* The raft state machine of one server: raft/raft.go with the parts of    *)
(* raft/log.go, raft/tracker and raft/quorum it is built from.             *)
(*                                                                         *)
(* The library is a deterministic, single-threaded state machine: Step()   *)
(* and tick() change a *raft and append to two outboxes.  Every function   *)
(* of the source is therefore an operator from a node record (and its      *)
(* arguments) to the node record the function leaves behind; the modules   *)
(* that EXTEND this one decide who calls what, and when.                   *)
(*                                                                         *)
(* Left to modules of their own: snapshots and compaction, configuration   *)
(* changes and learners, ReadIndex, and the inflights window (here it      *)
(* never fills up, as with the harness' MaxInflightMsgs of 256).           *)
(***************************************************************************)
EXTENDS LogTerms, FiniteSets, Functions

CONSTANTS
    Server,       \* the ids of the group
    Value,        \* payloads of proposals
    Nil,          \* raft.None, and the payload of a leader's empty entry
    PreVote,      \* Config.PreVote
    CheckQuorum,  \* Config.CheckQuorum
    MaxEntries    \* how many entries limitSize leaves in one MsgApp

ASSUME ServerAssumption == IsFiniteSet(Server) /\ Nil \notin Server
ASSUME ConfigAssumption == /\ PreVote \in BOOLEAN
                           /\ CheckQuorum \in BOOLEAN
                           /\ MaxEntries \in Nat \ {0}

StateType == {"StateFollower", "StateCandidate", "StateLeader", "StatePreCandidate"}
ProgressState == {"StateProbe", "StateReplicate"}
MsgType == {"MsgProp", "MsgApp", "MsgAppResp", "MsgVote", "MsgVoteResp",
            "MsgPreVote", "MsgPreVoteResp", "MsgHeartbeat", "MsgHeartbeatResp",
            "MsgTimeoutNow", "MsgTransferLeader"}

Entry == [term : Nat, val : Value \cup {Nil}]

Message == [type : MsgType, from : Server, to : Server, term : Nat,
            index : Nat, logTerm : Nat, entries : Seq(Entry), commit : Nat,
            reject : BOOLEAN, hint : Nat, transfer : BOOLEAN]

Progress == [Match : Nat, Next : Nat \ {0}, State : ProgressState,
             RecentActive : BOOLEAN, MsgAppFlowPaused : BOOLEAN]

\* expired stands for electionElapsed >= electionTimeout, the only thing the
\* tick counter is compared for besides firing the election timer.  The two
\* outboxes are kept per destination; after[id] are the messages to itself,
\* and steps what RawNode.acceptReady saved for Advance.
Node == [id : Server, voters : SUBSET Server,
         Term : Nat, Vote : Server \cup {Nil}, log : Seq(Entry), committed : Nat,
         state : StateType, lead : Server \cup {Nil}, expired : BOOLEAN,
         leadTransferee : Server \cup {Nil},
         granted : SUBSET Server, rejected : SUBSET Server,
         prs : [Server -> Progress],
         msgs : [Server -> Seq(Message)], after : [Server -> Seq(Message)],
         steps : Seq(Message), panic : BOOLEAN]

----------------------------------------------------------------------------
(* raft/quorum: majorities of the voters *)

IsQuorum(S, voters) == Cardinality(S \cap voters) >= Cardinality(voters) \div 2 + 1

VoteResult(voters, granted, rejected) ==
    IF voters = {} \/ IsQuorum(granted, voters) THEN "VoteWon"
    ELSE IF IsQuorum(voters \ rejected, voters) THEN "VotePending"
    ELSE "VoteLost"

\* A plausible slip: half of the voters, rounded down, is taken for a quorum.
Committed_HalfIsEnough(r) ==
    MaxOr0({k \in {r.prs[d].Match : d \in r.voters} :
              Cardinality({d \in r.voters : r.prs[d].Match >= k}) >= Cardinality(r.voters) \div 2})

\* prs.Committed(): the largest index acknowledged by a quorum.  (The empty
\* configuration commits MaxUint64, which maybeCommit then rejects.)
Committed(r) ==
    MaxOr0({k \in {r.prs[d].Match : d \in r.voters} :
              IsQuorum({d \in r.voters : r.prs[d].Match >= k}, r.voters)})

QuorumActive(r) ==
    VoteResult(r.voters,
               {d \in r.voters : r.prs[d].RecentActive},
               {d \in r.voters : ~r.prs[d].RecentActive}) = "VoteWon"

----------------------------------------------------------------------------
(* raft/tracker/progress.go *)

newProgress == [Match |-> 0, Next |-> 1, State |-> "StateProbe",
                RecentActive |-> FALSE, MsgAppFlowPaused |-> FALSE]

BecomeProbe(pr) ==
    [pr EXCEPT !.State = "StateProbe", !.MsgAppFlowPaused = FALSE, !.Next = pr.Match + 1]

BecomeReplicate(pr) ==
    [pr EXCEPT !.State = "StateReplicate", !.MsgAppFlowPaused = FALSE, !.Next = pr.Match + 1]

\* UpdateOnEntriesSend: replicate optimistically, probe one message at a time.
UpdateOnEntriesSend(pr, entries, nextIndex) ==
    IF entries = 0
    THEN [pr EXCEPT !.MsgAppFlowPaused = @ /\ pr.State = "StateProbe"]
    ELSE IF pr.State = "StateReplicate"
    THEN [pr EXCEPT !.Next = nextIndex + entries, !.MsgAppFlowPaused = FALSE]
    ELSE [pr EXCEPT !.MsgAppFlowPaused = TRUE]

\* MaybeUpdate returns true exactly when it raises Match.
MaybeUpdate(pr, n) ==
    [pr EXCEPT !.Match = Greatest(@, n),
               !.Next = Greatest(@, n + 1),
               !.MsgAppFlowPaused = @ /\ pr.Match >= n]

\* Whether MaybeDecrTo finds the rejection to be about the current probe.
DecrToApplies(pr, rejected) ==
    IF pr.State = "StateReplicate" THEN rejected > pr.Match ELSE pr.Next - 1 = rejected

MaybeDecrTo(pr, rejected, matchHint) ==
    IF pr.State = "StateReplicate"
    THEN [pr EXCEPT !.Next = pr.Match + 1]
    ELSE [pr EXCEPT !.Next = Greatest(Least(rejected, matchHint + 1), 1),
                    !.MsgAppFlowPaused = FALSE]

IsPaused(pr) == pr.MsgAppFlowPaused

----------------------------------------------------------------------------
(* raft/raft.go: sending *)

Msg(type, from, to) ==
    [type |-> type, from |-> from, to |-> to, term |-> 0, index |-> 0,
     logTerm |-> 0, entries |-> <<>>, commit |-> 0, reject |-> FALSE,
     hint |-> 0, transfer |-> FALSE]

VoteTypes == {"MsgVote", "MsgVoteResp", "MsgPreVote", "MsgPreVoteResp"}

\* Messages that promise something durable leave after the next append.
AfterAppendTypes == {"MsgAppResp", "MsgVoteResp", "MsgPreVoteResp"}

\* send(): campaign messages carry their own term, proposals none, all others
\* the term of the sender.  It panics on a campaign message without a term, on
\* any other that has one already, and on one to itself that does not promise.
send(r, m) ==
    LET q == IF m.type \in VoteTypes \cup {"MsgProp"} THEN m
             ELSE [m EXCEPT !.term = r.Term]
    IN  IF (m.type \in VoteTypes) = (m.term = 0) THEN Panic(r)
        ELSE IF m.type \in AfterAppendTypes
        THEN [r EXCEPT !.after[m.to] = Append(@, q)]
        ELSE IF m.to = r.id THEN Panic(r)
        ELSE [r EXCEPT !.msgs[m.to] = Append(@, q)]

\* entries(i, maxMsgSize): what one MsgApp can carry from index i on.
Entries(log, i) == SubSeq(log, i, Least(Len(log), i + MaxEntries - 1))

\* The MsgApp maybeSendAppend builds for a follower whose next index is next.
AppMsg(r, to, next) ==
    [Msg("MsgApp", r.id, to) EXCEPT
        !.index = next - 1, !.logTerm = TermAt(r.log, next - 1),
        !.entries = Entries(r.log, next), !.commit = r.committed]

sendApp(r, m) ==
    send([r EXCEPT !.prs[m.to] = UpdateOnEntriesSend(@, Len(m.entries), @.Next)], m)

\* A next index beyond the log makes term() fail: the leader falls back to a
\* snapshot, and panics because the storage has none.
maybeSendAppend(r, to, sendIfEmpty) ==
    LET pr == r.prs[to]
    IN  IF IsPaused(pr) \/ (pr.Next > Len(r.log) /\ ~sendIfEmpty) THEN r
        ELSE IF pr.Next - 1 > Len(r.log)
        THEN IF pr.RecentActive THEN Panic(r) ELSE r
        ELSE sendApp(r, AppMsg(r, to, pr.Next))

sendAppend(r, to) == maybeSendAppend(r, to, TRUE)

\* All that a replicating follower lacks, in messages of MaxEntries entries.
AppBatch(r, to) ==
    LET next  == r.prs[to].Next
        count == (Len(r.log) - next + MaxEntries) \div MaxEntries
    IN  [k \in 1..count |->
           [AppMsg(r, to, next + (k - 1) * MaxEntries) EXCEPT !.term = r.Term]]

\* The loop `for r.maybeSendAppend(to, false)`: in StateProbe the first message
\* pauses it, in StateReplicate it ends when everything was sent.
sendRemaining(r, to) ==
    LET pr == r.prs[to]
    IN  IF pr.State = "StateProbe" \/ pr.Next > Len(r.log)
        THEN maybeSendAppend(r, to, FALSE)
        ELSE IF IsPaused(pr) THEN r
        ELSE [r EXCEPT !.prs[to].Next = Len(r.log) + 1,
                       !.msgs[to] = @ \o AppBatch(r, to)]

\* What a broadcast does for one peer touches only that peer's progress and
\* outbox: each[d] is the record after d was served.
joined(r, each) ==
    [r EXCEPT !.prs = [d \in Server |-> each[d].prs[d]],
              !.msgs = [d \in Server |-> each[d].msgs[d]],
              !.panic = \E d \in Server : each[d].panic]

bcastAppend(r) ==
    joined(r, [d \in Server |-> IF d \in r.voters \ {r.id} THEN sendAppend(r, d) ELSE r])

heartbeatMsg(r, to) ==
    [Msg("MsgHeartbeat", r.id, to) EXCEPT
        !.term = r.Term, !.commit = Least(r.prs[to].Match, r.committed)]

bcastHeartbeat(r) ==
    [r EXCEPT !.msgs = [d \in Server |-> IF d \in r.voters \ {r.id}
                                         THEN Append(@[d], heartbeatMsg(r, d)) ELSE @[d]]]

sendTimeoutNow(r, to) == send(r, Msg("MsgTimeoutNow", r.id, to))

----------------------------------------------------------------------------
(* raft/raft.go: roles *)

\* A plausible slip: an entry of an earlier term that a quorum has is committed.
maybeCommit_AnyTerm(r) ==
    LET mci == Committed(r) IN IF mci > r.committed THEN commitTo(r, mci) ELSE r

maybeCommit(r) ==
    LET mci == Committed(r)
    IN  IF mci > r.committed /\ TermAt(r.log, mci) = r.Term
        THEN commitTo(r, mci) ELSE r

\* The progress reset() starts a peer with, and a plausible slip: Next is the
\* last index instead of the one after it.
resetProgress_NextOffByOne(r, d) ==
    [newProgress EXCEPT !.Match = IF d = r.id THEN Len(r.log) ELSE 0, !.Next = Len(r.log)]
resetProgress(r, d) ==
    [newProgress EXCEPT !.Match = IF d = r.id THEN Len(r.log) ELSE 0, !.Next = Len(r.log) + 1]

reset(r, term) ==
    [r EXCEPT
        !.Term = term,
        !.Vote = IF r.Term # term THEN Nil ELSE @,
        !.lead = Nil, !.expired = FALSE, !.leadTransferee = Nil,
        !.granted = {}, !.rejected = {},
        !.prs = [d \in Server |-> resetProgress(r, d)]]

\* A plausible slip: the new entries follow the committed ones, not the last one.
appendEntry_AfterCommitted(r, vals) ==
    LET ents == [k \in 1..Len(vals) |-> [term |-> r.Term, val |-> vals[k]]]
    IN  send([r EXCEPT !.log = SubSeq(@, 1, r.committed) \o ents],
             [Msg("MsgAppResp", r.id, r.id) EXCEPT !.index = r.committed + Len(vals)])

\* appendEntry stamps the payloads with the term and acknowledges them to
\* itself, but only once they are durable (the message is self-addressed).
appendEntry(r, vals) ==
    LET ents == [k \in 1..Len(vals) |-> [term |-> r.Term, val |-> vals[k]]]
    IN  send([r EXCEPT !.log = @ \o ents],
             [Msg("MsgAppResp", r.id, r.id) EXCEPT !.index = Len(r.log) + Len(vals)])

becomeFollower(r, term, lead) ==
    [reset(r, term) EXCEPT !.lead = lead, !.state = "StateFollower"]

becomeCandidate(r) ==
    IF r.state = "StateLeader" THEN Panic(r)
    ELSE [reset(r, r.Term + 1) EXCEPT !.Vote = r.id, !.state = "StateCandidate"]

becomePreCandidate(r) ==
    IF r.state = "StateLeader" THEN Panic(r)
    ELSE [r EXCEPT !.granted = {}, !.rejected = {}, !.lead = Nil,
                   !.state = "StatePreCandidate"]

becomeLeader(r) ==
    IF r.state = "StateFollower" THEN Panic(r)
    ELSE LET s == reset(r, r.Term)
         IN  appendEntry([s EXCEPT !.lead = r.id, !.state = "StateLeader",
                                   !.prs[r.id] = [BecomeReplicate(@) EXCEPT !.RecentActive = TRUE]],
                         <<Nil>>)

----------------------------------------------------------------------------
(* raft/raft.go: elections *)

promotable(r) == r.id \in r.voters

VoteMsg(r, type, to, term, transfer) ==
    [Msg(type, r.id, to) EXCEPT
        !.term = term, !.index = lastIndex(r.log), !.logTerm = lastTerm(r.log),
        !.transfer = transfer]

\* The candidate's own vote is a message to itself, counted once the new term
\* and vote are durable; the others are asked in parallel.
requestVotes(r, voteType, respType, term, transfer) ==
    [r EXCEPT
        !.msgs = [d \in Server |-> IF d \in r.voters \ {r.id}
                    THEN Append(@[d], VoteMsg(r, voteType, d, term, transfer)) ELSE @[d]],
        !.after[r.id] = Append(@, [Msg(respType, r.id, r.id) EXCEPT !.term = term])]

campaignPreElection(r) ==
    LET s == becomePreCandidate(r)
    IN  requestVotes(s, "MsgPreVote", "MsgPreVoteResp", s.Term + 1, FALSE)

\* campaign(campaignElection) and campaign(campaignTransfer).
campaignElection(r, transfer) ==
    LET s == becomeCandidate(r)
    IN  requestVotes(s, "MsgVote", "MsgVoteResp", s.Term, transfer)

\* A plausible slip: without a leader the pre-vote is skipped.
hup_DirectWithoutLeader(r, transfer) ==
    IF r.state = "StateLeader" \/ ~promotable(r) THEN r
    ELSE IF PreVote /\ ~transfer /\ r.lead # Nil THEN campaignPreElection(r)
    ELSE campaignElection(r, transfer)

hup(r, transfer) ==
    IF r.state = "StateLeader" \/ ~promotable(r) THEN r
    ELSE IF PreVote /\ ~transfer THEN campaignPreElection(r)
    ELSE campaignElection(r, transfer)

\* poll: the first answer of a voter counts, later ones are ignored.
RecordVote(r, m) ==
    IF m.from \in r.granted \cup r.rejected THEN r
    ELSE IF m.reject THEN [r EXCEPT !.rejected = @ \cup {m.from}]
    ELSE [r EXCEPT !.granted = @ \cup {m.from}]

\* What a candidate does with the tally of its poll.
afterPoll(r, result) ==
    IF result = "VotePending" THEN r
    ELSE IF result = "VoteLost" THEN becomeFollower(r, r.Term, Nil)
    ELSE IF r.state = "StatePreCandidate" THEN campaignElection(r, FALSE)
    ELSE bcastAppend(becomeLeader(r))

TallyVotes(r) == VoteResult(r.voters, r.granted, r.rejected)

handleVoteResp(r, m) ==
    LET s == RecordVote(r, m) IN afterPoll(s, TallyVotes(s))

voteRespMsgType(type) == IF type = "MsgVote" THEN "MsgVoteResp" ELSE "MsgPreVoteResp"

\* A plausible slip: an earlier vote in this term is forgotten.
canVote_Again(r, m) ==
    \/ r.lead = Nil
    \/ m.type = "MsgPreVote" /\ m.term > r.Term

canVote(r, m) ==
    \/ r.Vote = m.from
    \/ r.Vote = Nil /\ r.lead = Nil
    \/ m.type = "MsgPreVote" /\ m.term > r.Term

\* A plausible slip: the vote is given but not recorded.
handleVote_Unrecorded(r, m) ==
    LET resp == Msg(voteRespMsgType(m.type), r.id, m.from)
    IN  IF ~(canVote(r, m) /\ isUpToDate(r.log, m.index, m.logTerm))
        THEN send(r, [resp EXCEPT !.term = r.Term, !.reject = TRUE])
        ELSE send([r EXCEPT !.expired = FALSE], [resp EXCEPT !.term = m.term])

\* A grant carries the term of the request (a pre-vote does not move ours),
\* a rejection carries our own.
handleVote(r, m) ==
    LET resp == Msg(voteRespMsgType(m.type), r.id, m.from)
    IN  IF ~(canVote(r, m) /\ isUpToDate(r.log, m.index, m.logTerm))
        THEN send(r, [resp EXCEPT !.term = r.Term, !.reject = TRUE])
        ELSE IF m.type = "MsgPreVote"
        THEN send(r, [resp EXCEPT !.term = m.term])
        ELSE send([r EXCEPT !.Vote = m.from, !.expired = FALSE], [resp EXCEPT !.term = m.term])

----------------------------------------------------------------------------
(* raft/raft.go: replication, on the follower *)

handleAppendEntries(r, m) ==
    LET resp == Msg("MsgAppResp", r.id, m.from)
        hint == findConflictByTerm(r.log, Least(m.index, Len(r.log)), m.logTerm)
    IN  IF m.index < r.committed
        THEN send(r, [resp EXCEPT !.index = r.committed])
        ELSE IF matchTerm(r.log, m.index, m.logTerm)
        THEN send(maybeAppend(r, m.index, m.commit, m.entries),
                  [resp EXCEPT !.index = m.index + Len(m.entries)])
        ELSE send(r, [resp EXCEPT !.index = m.index, !.reject = TRUE, !.hint = hint,
                                  !.logTerm = TermAt(r.log, hint)])

handleHeartbeat(r, m) == send(commitTo(r, m.commit), Msg("MsgHeartbeatResp", r.id, m.from))

----------------------------------------------------------------------------
(* raft/raft.go: replication, on the leader *)

\* A rejected probe backs off to the first index that can still agree.
rejectionHint(r, m) ==
    IF m.logTerm > 0 THEN findConflictByTerm(r.log, m.hint, m.logTerm) ELSE m.hint

backOff(pr, m, hint) ==
    IF pr.State = "StateReplicate" THEN BecomeProbe(MaybeDecrTo(pr, m.index, hint))
    ELSE MaybeDecrTo(pr, m.index, hint)

handleAppReject(r, m) ==
    LET heard == [r EXCEPT !.prs[m.from].RecentActive = TRUE]
    IN  IF ~DecrToApplies(r.prs[m.from], m.index) THEN heard
        ELSE sendAppend([heard EXCEPT !.prs[m.from] = backOff(@, m, rejectionHint(r, m))], m.from)

\* The progress of a follower that acknowledged index n for the first time.
acknowledged(pr, n) ==
    IF pr.State = "StateProbe" THEN BecomeReplicate(MaybeUpdate(pr, n)) ELSE MaybeUpdate(pr, n)

\* A new commit index is broadcast; a follower that was paused gets its turn.
announce(r, committed, from, wasPaused) ==
    IF r.committed > committed THEN bcastAppend(r)
    ELSE IF wasPaused THEN sendAppend(r, from) ELSE r

refill(r, from) == IF from = r.id THEN r ELSE sendRemaining(r, from)

\* A transfer that waited for its target to catch up.
finishTransfer(r, from) ==
    IF from = r.leadTransferee /\ r.prs[from].Match = Len(r.log) THEN sendTimeoutNow(r, from) ELSE r

\* An acknowledgement moves Match, perhaps the commit index, refills the
\* pipeline and completes a pending leadership transfer.
handleAppAccept(r, m) ==
    LET heard == [r EXCEPT !.prs[m.from].RecentActive = TRUE]
        acked == [heard EXCEPT !.prs[m.from] = acknowledged(@, m.index)]
    IN  IF r.prs[m.from].Match >= m.index
        THEN [heard EXCEPT !.prs[m.from] = MaybeUpdate(@, m.index)]
        ELSE finishTransfer(
                refill(announce(maybeCommit(acked), r.committed, m.from, IsPaused(r.prs[m.from])),
                       m.from),
                m.from)

\* A plausible slip: a rejection is taken for an acknowledgement.
handleAppResp_IgnoresReject(r, m) == handleAppAccept(r, m)

handleAppResp(r, m) == IF m.reject THEN handleAppReject(r, m) ELSE handleAppAccept(r, m)

handleHeartbeatResp(r, m) ==
    LET s == [r EXCEPT !.prs[m.from].RecentActive = TRUE,
                       !.prs[m.from].MsgAppFlowPaused = FALSE]
    IN  IF s.prs[m.from].Match < Len(r.log) THEN sendAppend(s, m.from) ELSE s

handleUnreachable(r, from) ==
    IF r.prs[from].State = "StateReplicate"
    THEN [r EXCEPT !.prs[from] = BecomeProbe(@)] ELSE r

\* A plausible slip: the transferee need not have caught up.
handleTransferLeader_AtOnce(r, m) ==
    LET s == [r EXCEPT !.leadTransferee = m.from, !.expired = FALSE]
    IN  IF r.leadTransferee = m.from THEN r
        ELSE IF m.from = r.id THEN [r EXCEPT !.leadTransferee = Nil]
        ELSE sendTimeoutNow(s, m.from)

handleTransferLeader(r, m) ==
    LET s == [r EXCEPT !.leadTransferee = m.from, !.expired = FALSE]
    IN  IF r.leadTransferee = m.from THEN r
        ELSE IF m.from = r.id THEN [r EXCEPT !.leadTransferee = Nil]
        ELSE IF r.prs[m.from].Match = Len(r.log) THEN sendTimeoutNow(s, m.from)
        ELSE sendAppend(s, m.from)

handleProp(r, m) ==
    IF r.id \notin r.voters \/ r.leadTransferee # Nil THEN r  \* ErrProposalDropped
    ELSE bcastAppend(appendEntry(r, [k \in 1..Len(m.entries) |-> m.entries[k].val]))

----------------------------------------------------------------------------
(* raft/raft.go: Step *)

stepLeader(r, m) ==
    IF m.type = "MsgProp" THEN handleProp(r, m)
    ELSE IF m.from \notin r.voters THEN r
    ELSE IF m.type = "MsgAppResp" THEN handleAppResp(r, m)
    ELSE IF m.type = "MsgHeartbeatResp" THEN handleHeartbeatResp(r, m)
    ELSE IF m.type = "MsgTransferLeader" THEN handleTransferLeader(r, m)
    ELSE r

stepCandidate(r, m) ==
    IF m.type = "MsgApp"
    THEN handleAppendEntries(becomeFollower(r, m.term, m.from), m)
    ELSE IF m.type = "MsgHeartbeat"
    THEN handleHeartbeat(becomeFollower(r, m.term, m.from), m)
    ELSE IF m.type = (IF r.state = "StatePreCandidate" THEN "MsgPreVoteResp" ELSE "MsgVoteResp")
    THEN handleVoteResp(r, m)
    ELSE r

\* forward: proposals and transfer requests travel to the leader, if known.
\* send() panics if that is the server itself, or if the message already has a
\* term: a transfer request may be forwarded once only.  (Proposals that a server
\* is configured not to forward are dropped, as if they had not come.)
forward(r, m) == IF r.lead = Nil THEN r ELSE send(r, [m EXCEPT !.to = r.lead])

stepFollower(r, m) ==
    LET heard == [r EXCEPT !.expired = FALSE, !.lead = m.from]
    IN  IF m.type = "MsgApp" THEN handleAppendEntries(heard, m)
        ELSE IF m.type = "MsgHeartbeat" THEN handleHeartbeat(heard, m)
        ELSE IF m.type \in {"MsgProp", "MsgTransferLeader"} THEN forward(r, m)
        ELSE IF m.type = "MsgTimeoutNow" THEN hup(r, TRUE)
        ELSE r

stepRole(r, m) ==
    IF m.type \in {"MsgVote", "MsgPreVote"} THEN handleVote(r, m)
    ELSE IF r.state = "StateLeader" THEN stepLeader(r, m)
    ELSE IF r.state = "StateFollower" THEN stepFollower(r, m)
    ELSE stepCandidate(r, m)

\* A server that heard from a leader recently ignores (pre-)candidates.
inLease(r) == CheckQuorum /\ r.lead # Nil /\ ~r.expired

ignoresVote(r, m) == m.type \in {"MsgVote", "MsgPreVote"} /\ ~m.transfer /\ inLease(r)

\* A newer term is adopted, except that nobody moves for a pre-vote, nor for
\* its grant, which is of a term to come.
adoptTerm(r, m) ==
    IF m.type = "MsgPreVote" \/ (m.type = "MsgPreVoteResp" /\ ~m.reject) THEN r
    ELSE becomeFollower(r, m.term, IF m.type \in {"MsgApp", "MsgHeartbeat"} THEN m.from ELSE Nil)

\* A message of an older term is dropped, except that a stuck pre-candidate or
\* a leader that lost its quorum must learn the newer term.
stepLowerTerm(r, m) ==
    IF (CheckQuorum \/ PreVote) /\ m.type \in {"MsgHeartbeat", "MsgApp"}
    THEN send(r, Msg("MsgAppResp", r.id, m.from))
    ELSE IF m.type = "MsgPreVote"
    THEN send(r, [Msg("MsgPreVoteResp", r.id, m.from) EXCEPT !.term = r.Term, !.reject = TRUE])
    ELSE r

Step(r, m) ==
    IF m.term # 0 /\ m.term < r.Term THEN stepLowerTerm(r, m)
    ELSE IF m.term > r.Term /\ ignoresVote(r, m) THEN r
    ELSE stepRole(IF m.term > r.Term THEN adoptTerm(r, m) ELSE r, m)

----------------------------------------------------------------------------
(* raft/raft.go: ticks *)

\* tickElection: past says whether this tick reaches the randomized timeout,
\* which lies anywhere in [electionTimeout, 2 * electionTimeout).
tickElection(r, past) ==
    IF past /\ promotable(r) THEN hup([r EXCEPT !.expired = FALSE], FALSE)
    ELSE [r EXCEPT !.expired = TRUE]

\* MsgCheckQuorum at a leader: step down unless a quorum was active since the
\* last check, then start a new round of observation.
checkQuorum(r) ==
    LET s == IF QuorumActive(r) THEN r ELSE becomeFollower(r, r.Term, Nil)
    IN  [s EXCEPT !.prs = [d \in Server |-> IF d = r.id THEN @[d]
                                            ELSE [@[d] EXCEPT !.RecentActive = FALSE]]]

\* tickHeartbeat: timedOut and beat say which of the two timers this tick
\* reaches.
tickHeartbeat(r, timedOut, beat) ==
    LET s == IF timedOut /\ CheckQuorum THEN checkQuorum(r) ELSE r
        t == IF timedOut /\ s.state = "StateLeader" THEN [s EXCEPT !.leadTransferee = Nil] ELSE s
    IN  IF beat /\ t.state = "StateLeader" THEN bcastHeartbeat(t) ELSE t

----------------------------------------------------------------------------
(* raft/raft.go, raft/rawnode.go: starting, and the Ready cycle *)

\* newRaft before its reset: loadState takes over the hard state.
restored(i, voters, hs, log) ==
    [id |-> i, voters |-> voters, Term |-> hs.Term, Vote |-> hs.Vote,
     log |-> log, committed |-> hs.Commit,
     state |-> "StateFollower", lead |-> Nil, expired |-> FALSE,
     leadTransferee |-> Nil, granted |-> {}, rejected |-> {},
     prs |-> [d \in Server |-> newProgress],
     msgs |-> [d \in Server |-> <<>>], after |-> [d \in Server |-> <<>>],
     steps |-> <<>>,
     panic |-> hs.Commit > Len(log)]   \* the commit index is out of range

\* A plausible slip: the vote is not restored.
newRaft_ForgetsVote(i, voters, hs, log) ==
    reset([restored(i, voters, hs, log) EXCEPT !.Vote = Nil], hs.Term)

\* newRaft on what the storage holds.
newRaft(i, voters, hs, log) == reset(restored(i, voters, hs, log), hs.Term)

\* Ready.Messages: the outboxes, without what the node addressed to itself.
readyMessages(r) == UNION {Range(r.msgs[d]) \cup Range(r.after[d]) : d \in Server \ {r.id}}

HasReady(r) == \E d \in Server : r.msgs[d] # <<>> \/ r.after[d] # <<>>

\* acceptReady: the outboxes are handed over, the node's own messages wait for
\* Advance, which steps them one after the other.
acceptReady(r) ==
    [r EXCEPT !.msgs = [d \in Server |-> <<>>], !.after = [d \in Server |-> <<>>],
              !.steps = r.after[r.id]]

\* One iteration of Advance's loop.
advanceOne(r) == Step([r EXCEPT !.steps = Tail(@)], Head(r.steps))
=============================================================================
