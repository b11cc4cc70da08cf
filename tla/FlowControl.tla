---------------------------- MODULE FlowControl ----------------------------
(***************************************************************************)
(* How a leader feeds one follower: raft/tracker/progress.go with its      *)
(* inflights window, and the parts of raft/raft.go that send it appends    *)
(* and snapshots, while the leader's log grows, commits, is applied and    *)
(* compacted, and the network between the two loses, repeats and reorders. *)
(*                                                                         *)
(* One term, three voters.  The other follower is only its Match.          *)
(*                                                                         *)
(* l       : the leader: log, first available index, commit and applied    *)
(*           index, uncommittedSize, the other's Match, the Progress pr    *)
(* f       : the follower: log, commit index                               *)
(* toF,toL : the messages under way, the oldest first                      *)
(* reports : snapshots sent that the application has yet to report on      *)
(* faults  : how often messages were lost or repeated so far               *)
(*                                                                         *)
(* Logs are kept whole: entries before l.first are there for the           *)
(* properties, no operator below reads them.  A snapshot carries the       *)
(* entries it stands for.                                                  *)
(***************************************************************************)
EXTENDS LogTerms, Inflights, FiniteSets, SequencesExt

CONSTANTS
    LeaderLog,           \* the leader's log when it was elected: entries [term, size]
    FollowerLogs,        \* the logs the follower may have then
    LeaderTerm,          \* the term of the leader
    MaxUncommittedSize,  \* Config.MaxUncommittedEntriesSize, 0: no limit
    MaxEntries,          \* how many entries limitSize leaves in one MsgApp
    MaxLog,              \* no proposal beyond this log length
    MaxCompactions,      \* snapshots the leader's application takes
    MaxFaults,           \* times that messages are lost or repeated
    MaxNet               \* no new input while so many messages are under way

\* Two logs of one group agree up to every index at which their terms agree
\* (LogMatching, which RaftCluster checks and RaftLogProofs proves).
LogsMatch(a, b) ==
    \A i \in 1..Least(Len(a), Len(b)) :
      a[i].term = b[i].term => SubSeq(a, 1, i) = SubSeq(b, 1, i)

ASSUME FlowAssumption ==
    /\ LeaderTerm \in Nat \ {0} /\ MaxEntries \in Nat \ {0}
    /\ LeaderLog \in Seq([term : 0..(LeaderTerm - 1), size : Nat])
    /\ FollowerLogs \subseteq Seq([term : 0..(LeaderTerm - 1), size : Nat])
    /\ \A log \in FollowerLogs : LogsMatch(log, LeaderLog)
    /\ {MaxUncommittedSize, MaxLog, MaxCompactions, MaxFaults, MaxNet} \subseteq Nat

VARIABLES l, f, toF, toL, reports, faults
vars == <<l, f, toF, toL, reports, faults>>

Entry == [term : 0..LeaderTerm, size : Nat]

Message == [type : {"MsgApp", "MsgSnap", "MsgHeartbeat", "MsgAppResp", "MsgHeartbeatResp"},
            index : Nat, logTerm : Nat, entries : Seq(Entry), commit : Nat,
            reject : BOOLEAN, hint : Nat]

Progress == [Match : Nat, Next : Nat \ {0},
             State : {"StateProbe", "StateReplicate", "StateSnapshot"},
             PendingSnapshot : Nat, RecentActive : BOOLEAN, MsgAppFlowPaused : BOOLEAN,
             Inflights : InflightsType]

TypeOK ==
    /\ l \in [log : Seq(Entry), first : Nat \ {0}, committed : Nat, applied : Nat,
              uncommittedSize : Nat, other : Nat, pr : Progress, compactions : Nat,
              out : Seq(Message), panic : BOOLEAN]
    /\ f \in [log : Seq(Entry), committed : Nat, panic : BOOLEAN]
    /\ toF \in Seq(Message) /\ toL \in Seq(Message)
    /\ reports \in Nat /\ faults \in Nat

Msg(type) == [type |-> type, index |-> 0, logTerm |-> 0, entries |-> <<>>,
              commit |-> 0, reject |-> FALSE, hint |-> 0]

\* payloadsSize of some entries.
payloadsSize(ents) == SumOf([k \in 1..Len(ents) |-> ents[k].size])

----------------------------------------------------------------------------
(* raft/tracker/progress.go *)

ResetState(pr, state) ==
    [pr EXCEPT !.MsgAppFlowPaused = FALSE, !.PendingSnapshot = 0, !.State = state,
               !.Inflights = resetInflights(@)]

\* From StateSnapshot, the follower is taken to have the pending snapshot.
BecomeProbe(pr) ==
    LET has == IF pr.State = "StateSnapshot" THEN Greatest(pr.Match, pr.PendingSnapshot)
               ELSE pr.Match
    IN  [ResetState(pr, "StateProbe") EXCEPT !.Next = has + 1]

BecomeReplicate(pr) == [ResetState(pr, "StateReplicate") EXCEPT !.Next = pr.Match + 1]

BecomeSnapshot(pr, index) ==
    [ResetState(pr, "StateSnapshot") EXCEPT !.PendingSnapshot = index]

\* UpdateOnEntriesSend in StateReplicate: the message joins the window, and one
\* that fills it pauses the flow.
SentInReplicate(pr, ents, nextIndex) ==
    LET last   == nextIndex + Len(ents) - 1
        window == IF ents = <<>> THEN pr.Inflights
                  ELSE Add(pr.Inflights, last, payloadsSize(ents))
    IN  [pr EXCEPT !.Next = IF ents = <<>> THEN @ ELSE last + 1,
                   !.Inflights = window, !.MsgAppFlowPaused = Full(window)]

\* UpdateOnEntriesSend; a probe pauses the flow at once.
UpdateOnEntriesSend(pr, ents, nextIndex) ==
    IF pr.State = "StateReplicate" THEN SentInReplicate(pr, ents, nextIndex)
    ELSE [pr EXCEPT !.MsgAppFlowPaused = @ \/ ents # <<>>]

MaybeUpdate(pr, n) ==
    [pr EXCEPT !.Match = Greatest(@, n), !.Next = Greatest(@, n + 1),
               !.MsgAppFlowPaused = @ /\ pr.Match >= n]

\* Whether MaybeDecrTo takes the rejection for one of the current probe.
DecrToApplies(pr, rejected) ==
    IF pr.State = "StateReplicate" THEN rejected > pr.Match ELSE pr.Next - 1 = rejected

MaybeDecrTo(pr, rejected, matchHint) ==
    IF pr.State = "StateReplicate" THEN [pr EXCEPT !.Next = pr.Match + 1]
    ELSE [pr EXCEPT !.Next = Greatest(Least(rejected, matchHint + 1), 1),
                    !.MsgAppFlowPaused = FALSE]

IsPaused(pr) == pr.State = "StateSnapshot" \/ pr.MsgAppFlowPaused

----------------------------------------------------------------------------
(* raft/raft.go, the leader: sending *)

sendTo(s, m) == [s EXCEPT !.out = Append(@, m)]

Entries(log, i) == SubSeq(log, i, Least(Len(log), i + MaxEntries - 1))

\* term(index) of raftLog: known for the entries and the one before the first.
termFails(s, index) == index < s.first - 1 \/ index > Len(s.log)

\* The application's snapshot covers what was compacted away.  A follower that
\* is not recently active gets none.
sendSnapshot(s) ==
    LET sindex == s.first - 1
    IN  IF ~s.pr.RecentActive THEN s
        ELSE IF sindex = 0 THEN [s EXCEPT !.panic = TRUE]
        ELSE sendTo([s EXCEPT !.pr = BecomeSnapshot(@, sindex)],
                    [Msg("MsgSnap") EXCEPT !.index = sindex, !.logTerm = s.log[sindex].term,
                                           !.entries = SubSeq(s.log, 1, sindex)])

\* Progress does not take the message: Inflights.Add panics when the window is
\* full, and UpdateOnEntriesSend fails in StateSnapshot.
refusesToSend(pr, ents) ==
    \/ pr.State = "StateReplicate" /\ ents # <<>> /\ Full(pr.Inflights)
    \/ pr.State = "StateSnapshot"

sendApp(s, ents) ==
    IF refusesToSend(s.pr, ents) THEN [s EXCEPT !.panic = TRUE]
    ELSE sendTo([s EXCEPT !.pr = UpdateOnEntriesSend(@, ents, @.Next)],
                [Msg("MsgApp") EXCEPT !.index = s.pr.Next - 1, !.entries = ents,
                                      !.logTerm = TermAt(s.log, s.pr.Next - 1),
                                      !.commit = s.committed])

\* A plausible slip: a full window does not keep entries from being sent.
nextEntries_Unthrottled(s) ==
    IF termFails(s, s.pr.Next - 1) THEN <<>> ELSE Entries(s.log, s.pr.Next)

\* The entries for the next MsgApp: none while the window is full, none when
\* they are compacted away.
nextEntries(s) ==
    IF (s.pr.State = "StateReplicate" /\ Full(s.pr.Inflights)) \/ termFails(s, s.pr.Next - 1)
    THEN <<>> ELSE Entries(s.log, s.pr.Next)

maybeSendAppend(s, sendIfEmpty) ==
    LET ents == nextEntries(s)
    IN  IF IsPaused(s.pr) \/ (ents = <<>> /\ ~sendIfEmpty) THEN s
        ELSE IF termFails(s, s.pr.Next - 1) THEN sendSnapshot(s)
        ELSE sendApp(s, ents)

sendAppend(s) == maybeSendAppend(s, TRUE)

\* The loop `for r.maybeSendAppend(m.From, false)': each round sends an entry
\* at least, or ends it.
sendRemaining(s) ==
    LET after[k \in 0..Len(s.log)] == IF k = 0 THEN s ELSE maybeSendAppend(after[k - 1], FALSE)
    IN  after[Len(s.log)]

----------------------------------------------------------------------------
(* raft/raft.go, the leader: commit, proposals, answers *)

\* Of three voters, one of them the leader with all of its log, the second
\* highest Match; an entry of an earlier term does not commit by counting.
maybeCommit(s) ==
    LET mci == Greatest(s.other, s.pr.Match)
    IN  IF mci > s.committed /\ TermAt(s.log, mci) = LeaderTerm
        THEN commitTo(s, mci) ELSE s

\* What follows a change of some Match: a new commit index is broadcast.
announce(s, before) == IF s.committed > before.committed THEN sendAppend(s) ELSE s

\* increaseUncommittedSize refuses: only when something is uncommitted already.
refused(s, size) ==
    /\ MaxUncommittedSize # 0
    /\ s.uncommittedSize > 0 /\ size > 0
    /\ s.uncommittedSize + size > MaxUncommittedSize

appendEntry(s, size) ==
    [s EXCEPT !.log = Append(@, [term |-> LeaderTerm, size |-> size]),
              !.uncommittedSize = @ + size]

\* A plausible slip: what would underflow is not subtracted at all.
reduceUncommittedSize_SkipsUnderflow(s, size) ==
    [s EXCEPT !.uncommittedSize = IF size > @ THEN @ ELSE @ - size]

\* reduceUncommittedSize saturates: it counts nothing from before this term.
reduceUncommittedSize(s, size) ==
    [s EXCEPT !.uncommittedSize = IF size > @ THEN 0 ELSE @ - size]

\* findConflictByTerm on a log that starts at s.first: an index whose term is
\* not known any more ends the search.
conflictByTerm(s, index, term) ==
    IF index > Len(s.log) THEN index
    ELSE MaxOr0({k \in 1..index : k < s.first - 1 \/ TermAt(s.log, k) <= term})

rejectionHint(s, m) == IF m.logTerm > 0 THEN conflictByTerm(s, m.hint, m.logTerm) ELSE m.hint

backOff(pr, m, hint) ==
    LET decreased == MaybeDecrTo(pr, m.index, hint)
    IN  IF pr.State = "StateReplicate" THEN BecomeProbe(decreased) ELSE decreased

handleAppReject(s, m) ==
    IF DecrToApplies(s.pr, m.index)
    THEN sendAppend([s EXCEPT !.pr = backOff(@, m, rejectionHint(s, m))])
    ELSE s

\* The progress after index n was acknowledged for the first time.
acknowledged(pr, n) ==
    LET updated == MaybeUpdate(pr, n)
    IN  CASE updated.State = "StateProbe" -> BecomeReplicate(updated)
          [] updated.State = "StateSnapshot" ->
                IF updated.Match >= updated.PendingSnapshot
                THEN BecomeReplicate(BecomeProbe(updated)) ELSE updated
          [] OTHER -> [updated EXCEPT !.Inflights = FreeLE(@, n)]

handleAppAccept(s, m) ==
    LET acked     == maybeCommit([s EXCEPT !.pr = acknowledged(@, m.index)])
        announced == IF acked.committed > s.committed \/ IsPaused(s.pr)
                     THEN sendAppend(acked) ELSE acked
    IN  IF s.pr.Match >= m.index THEN [s EXCEPT !.pr = MaybeUpdate(@, m.index)]
        ELSE sendRemaining(announced)

handleAppResp(s, m) == IF m.reject THEN handleAppReject(s, m) ELSE handleAppAccept(s, m)

\* A plausible slip: only a follower that lags behind is resumed, by its next answer.
handleHeartbeatResp_StaysPaused(s) ==
    IF s.pr.Match < Len(s.log) THEN sendAppend(s) ELSE s

handleHeartbeatResp(s) ==
    LET resumed == [s EXCEPT !.pr.MsgAppFlowPaused = FALSE]
    IN  IF resumed.pr.Match < Len(resumed.log) THEN sendAppend(resumed) ELSE resumed

\* Every answer counts as activity.
stepLeader(s, m) ==
    LET heard == [s EXCEPT !.pr.RecentActive = TRUE]
    IN  IF m.type = "MsgHeartbeatResp" THEN handleHeartbeatResp(heard)
        ELSE handleAppResp(heard, m)

\* MsgSnapStatus: probing resumes, but not before the next answer.
handleSnapStatus(s, reject) ==
    LET told == IF reject THEN [s.pr EXCEPT !.PendingSnapshot = 0] ELSE s.pr
    IN  IF s.pr.State # "StateSnapshot" THEN s
        ELSE [s EXCEPT !.pr = [BecomeProbe(told) EXCEPT !.MsgAppFlowPaused = TRUE]]

handleUnreachable(s) ==
    IF s.pr.State = "StateReplicate" THEN [s EXCEPT !.pr = BecomeProbe(@)] ELSE s

----------------------------------------------------------------------------
(* raft/raft.go, the follower: each returns the follower and its answer *)

resp(r, index) == <<r, [Msg("MsgAppResp") EXCEPT !.index = index]>>

handleAppendEntries(r, m) ==
    LET hint == findConflictByTerm(r.log, Least(m.index, Len(r.log)), m.logTerm)
    IN  IF m.index < r.committed THEN resp(r, r.committed)
        ELSE IF matchTerm(r.log, m.index, m.logTerm)
        THEN resp(maybeAppend(r, m.index, m.commit, m.entries), m.index + Len(m.entries))
        ELSE <<r, [Msg("MsgAppResp") EXCEPT !.index = m.index, !.reject = TRUE, !.hint = hint,
                                            !.logTerm = TermAt(r.log, hint)]>>

handleHeartbeat(r, m) == <<commitTo(r, m.commit), Msg("MsgHeartbeatResp")>>

\* A plausible slip: an obsolete snapshot is restored, too.
handleSnapshot_Obsolete(r, m) ==
    resp([r EXCEPT !.log = m.entries, !.committed = m.index], m.index)

\* restore: an obsolete snapshot is ignored; one that the log has already only
\* moves the commit index.
handleSnapshot(r, m) ==
    IF m.index <= r.committed THEN resp(r, r.committed)
    ELSE IF matchTerm(r.log, m.index, m.logTerm)
    THEN resp(commitTo(r, m.index), m.index)
    ELSE resp([r EXCEPT !.log = m.entries, !.committed = m.index], m.index)

stepFollower(r, m) ==
    CASE m.type = "MsgApp" -> handleAppendEntries(r, m)
      [] m.type = "MsgHeartbeat" -> handleHeartbeat(r, m)
      [] m.type = "MsgSnap" -> handleSnapshot(r, m)

----------------------------------------------------------------------------
(* Actions *)

\* becomeLeader: the log ends with the empty entry of the new term, the
\* follower is probed from there.
Init ==
    /\ l = [log |-> Append(LeaderLog, [term |-> LeaderTerm, size |-> 0]), first |-> 1,
            committed |-> 0, applied |-> 0, uncommittedSize |-> 0, other |-> 0,
            pr |-> [Match |-> 0, Next |-> Len(LeaderLog) + 1, State |-> "StateProbe",
                    PendingSnapshot |-> 0, RecentActive |-> FALSE, MsgAppFlowPaused |-> FALSE,
                    Inflights |-> NewInflights],
            compactions |-> 0, out |-> <<>>, panic |-> FALSE]
    /\ f \in [log : FollowerLogs, committed : {0}, panic : {FALSE}]
    /\ toF = <<>> /\ toL = <<>>
    /\ reports = 0 /\ faults = 0

Snapshots(ms) == Cardinality({k \in 1..Len(ms) : ms[k].type = "MsgSnap"})

\* The leader moves to s; its messages leave.
LeaderMoves(s) ==
    /\ l' = [s EXCEPT !.out = <<>>]
    /\ toF' = toF \o s.out
    /\ reports' = reports + Snapshots(s.out)

Room == Len(toF) + Len(toL) < MaxNet

heartbeatCommit(s) == Least(s.pr.Match, s.committed)

\* bcastHeartbeat.  The heartbeat interval is longer than a round trip.
Beat ==
    /\ Room
    /\ \A k \in 1..Len(toF) : toF[k].type # "MsgHeartbeat"
    /\ \A k \in 1..Len(toL) : toL[k].type # "MsgHeartbeatResp"
    /\ LeaderMoves(sendTo(l, [Msg("MsgHeartbeat") EXCEPT
                                !.commit = heartbeatCommit(l)]))
    /\ UNCHANGED <<f, toL, faults>>

\* A proposal with a payload; the leader's own acknowledgement changes nothing.
Propose ==
    /\ Room /\ Len(l.log) < MaxLog
    /\ ~refused(l, 1)
    /\ LeaderMoves(sendAppend(appendEntry(l, 1)))
    /\ UNCHANGED <<f, toL, faults>>

\* The other follower acknowledges index n.
OtherAck ==
    /\ Room
    /\ \E n \in (l.other + 1)..Len(l.log) :
         LeaderMoves(announce(maybeCommit([l EXCEPT !.other = n]), l))
    /\ UNCHANGED <<f, toL, faults>>

\* The application has applied the committed entries (MsgStorageApplyResp).
Apply ==
    /\ l.applied < l.committed
    /\ l' = [reduceUncommittedSize(l, payloadsSize(SubSeq(l.log, l.applied + 1, l.committed)))
             EXCEPT !.applied = l.committed]
    /\ UNCHANGED <<f, toF, toL, reports, faults>>

\* The application takes a snapshot at index i and compacts the log up to it.
Compact ==
    /\ l.compactions < MaxCompactions
    /\ \E i \in l.first..l.applied :
         l' = [l EXCEPT !.first = i + 1, !.compactions = @ + 1]
    /\ UNCHANGED <<f, toF, toL, reports, faults>>

\* The leader's quorum check clears what it knows of the follower's activity.
CheckQuorum ==
    /\ l.pr.RecentActive
    /\ l' = [l EXCEPT !.pr.RecentActive = FALSE]
    /\ UNCHANGED <<f, toF, toL, reports, faults>>

ReportUnreachable ==
    /\ l.pr.State = "StateReplicate"
    /\ LeaderMoves(handleUnreachable(l))
    /\ UNCHANGED <<f, toL, faults>>

\* ReportSnapshot, once for every MsgSnap sent, at any time after it.
ReportSnapshot ==
    /\ reports > 0
    /\ \E reject \in BOOLEAN : l' = handleSnapStatus(l, reject)
    /\ reports' = reports - 1
    /\ UNCHANGED <<f, toF, toL, faults>>

\* The k-th message under way arrives; FIFO unless k > 1.
DeliverToFollower(k) ==
    /\ k <= Len(toF)
    /\ LET stepped == stepFollower(f, toF[k])
       IN  /\ f' = stepped[1]
           /\ toL' = Append(toL, stepped[2])
    /\ toF' = RemoveAt(toF, k)
    /\ UNCHANGED <<l, reports, faults>>

DeliverToLeader(k) ==
    /\ k <= Len(toL)
    /\ LeaderMoves(stepLeader(l, toL[k]))
    /\ toL' = RemoveAt(toL, k)
    /\ UNCHANGED <<f, faults>>

\* A message is lost, or all those that a broken connection held, or one comes
\* twice.
Lose ==
    /\ faults < MaxFaults /\ faults' = faults + 1
    /\ \/ \E q \in {RemoveAt(toF, k) : k \in 1..Len(toF)} \cup {<<>>} :
             toF # <<>> /\ toF' = q /\ UNCHANGED toL
       \/ \E q \in {RemoveAt(toL, k) : k \in 1..Len(toL)} \cup {<<>>} :
             toL # <<>> /\ toL' = q /\ UNCHANGED toF
    /\ UNCHANGED <<l, f, reports>>

Duplicate ==
    /\ faults < MaxFaults /\ faults' = faults + 1
    /\ Len(toF) + Len(toL) <= MaxNet
    /\ \/ \E k \in 1..Len(toF) : toF' = Append(toF, toF[k]) /\ UNCHANGED toL
       \/ \E k \in 1..Len(toL) : toL' = Append(toL, toL[k]) /\ UNCHANGED toF
    /\ UNCHANGED <<l, f, reports>>

Next ==
    \/ Beat \/ Propose \/ OtherAck \/ Apply \/ Compact \/ CheckQuorum
    \/ ReportUnreachable \/ ReportSnapshot
    \/ \E k \in 1..Len(toF) : DeliverToFollower(k)
    \/ \E k \in 1..Len(toL) : DeliverToLeader(k)
    \/ Lose \/ Duplicate

\* The leader ticks, what is not lost is eventually delivered (weak fairness: a
\* delivery is enabled as long as there is a message), and the application
\* reports on every snapshot ("the application MUST report back", node.go).
Fairness ==
    /\ WF_vars(Beat) /\ WF_vars(ReportSnapshot)
    /\ []<>(toF = <<>>) \/ []<><<DeliverToFollower(1)>>_vars
    /\ []<>(toL = <<>>) \/ []<><<DeliverToLeader(1)>>_vars

Spec == Init /\ [][Next]_vars /\ Fairness

----------------------------------------------------------------------------
(* What flow control promises *)

\* The ring buffer behaves as a sliding window of at most MaxInflight messages
\* with increasing indexes, whatever Add, FreeLE, reset and grow a step runs.
SlidingWindow == INSTANCE SendWindow WITH window <- Window(l.pr.Inflights)
WindowSlides == SlidingWindow!Spec

\* The window holds exactly what was sent and not acknowledged: its indexes lie
\* between Match and Next, and it is empty unless the leader replicates
\* (inflights.FreeLE and reset, called from all over stepLeader).
WindowInProgress ==
    LET window == Window(l.pr.Inflights)
    IN  /\ \A k \in 1..Len(window) : window[k].index \in (l.pr.Match + 1)..(l.pr.Next - 1)
        /\ l.pr.State # "StateReplicate" => window = <<>>

\* Match never overstates: the follower's log agrees with the leader's up to
\* it, also when a snapshot replaced that log and answers come late.
MatchInLog ==
    /\ l.pr.Match <= Len(f.log) /\ l.pr.Match <= Len(l.log)
    /\ SubSeq(f.log, 1, l.pr.Match) = SubSeq(l.log, 1, l.pr.Match)

\* No panic: the leader never needs a snapshot it does not have, no entries are
\* added to a full window or sent while a snapshot is pending (Inflights.Add,
\* UpdateOnEntriesSend), nobody commits beyond its log.
NoPanic == ~l.panic /\ ~f.panic

\* The leader's account of the follower is sound, whatever was lost, repeated or
\* late (WindowInProgress, MatchInLog, NoPanic).
FlowInv == TypeOK /\ NoPanic /\ WindowInProgress /\ MatchInLog

\* Late and repeated appends and snapshots never take back what the follower
\* has committed (restore's first check, handleAppendEntries' first return).
FollowerKeepsCommitted ==
    [][/\ f'.committed >= f.committed
       /\ SubSeq(f'.log, 1, f.committed) = SubSeq(f.log, 1, f.committed)]_vars

\* What counts against MaxUncommittedEntriesSize is never more than what the
\* leader has yet to apply (increaseUncommittedSize, reduceUncommittedSize with
\* what an earlier term left): what is gone for good refuses no proposal.  This
\* is less than the comment of reduceUncommittedSize says: committed entries
\* count until they are applied, so the uncommitted tail is overestimated.
OnlyUnappliedCounts ==
    l.uncommittedSize <= payloadsSize(SubSeq(l.log, l.applied + 1, Len(l.log)))

\* A follower that fell behind, diverged or had its entries compacted away ends
\* up with the leader's log and commit index, when messages stop being lost:
\* no paused probe, full window or pending snapshot lasts forever.
CatchesUp == <>[](f.log = l.log /\ f.committed = l.committed /\ l.pr.Match = Len(l.log))
=============================================================================
