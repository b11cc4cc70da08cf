------------------------------ MODULE RaftLog ------------------------------
(***************************************************************************)
(* The log of one follower with asynchronous storage writes: raftLog       *)
(* (raft/log.go), its unstable tail (raft/log_unstable.go), MemoryStorage  *)
(* (raft/storage.go), and the append and apply threads RawNode feeds with  *)
(* MsgStorageAppend and MsgStorageApply (raft/rawnode.go).                 *)
(*                                                                         *)
(* n       : the raftLog, its unstable part u, Term, msgsAfterAppend and   *)
(*           RawNode.prevHardSt (volatile)                                 *)
(* st      : what the storage holds                                        *)
(* appends, applies : the work of the two threads, the oldest first        *)
(* resps   : their responses on the way back to the node, per thread       *)
(* sm      : the state machine: the entries applied to it                  *)
(* acks    : the last index acknowledged to the leader of each term        *)
(* leaders : what the log and commit index of each term's leader come to   *)
(*                                                                         *)
(* An entry is its term.  Logs are kept whole: entries that were compacted *)
(* away are there for the properties, no operator below reads them.        *)
(***************************************************************************)
EXTENDS Integers, Sequences, SequencesExt

CONSTANTS
    MaxTerm,       \* no leader beyond this term
    MaxLog,        \* no entry beyond this index
    Histories,     \* what the leaders' logs and commit indexes may have come to
    MaxBatch,      \* entries in one MsgApp
    MaxApplying,   \* entries that may be with the apply thread (MaxCommittedSizePerReady)
    MaxPending,    \* Readys whose append is not done yet
    MaxKept,       \* no new message while so many acknowledgements wait for an append
    MaxCrashes,
    MaxCompactions

\* Every leader's log continues part of an earlier one's with entries of its own
\* and holds what was committed; it commits entries of its term only.
IsHistory(h) ==
    \A t \in 1..MaxTerm :
      /\ h[t].log \in Seq(1..t) /\ Len(h[t].log) <= MaxLog
      /\ h[t].commit \in {0} \cup {i \in 1..Len(h[t].log) : h[t].log[i] = t}
      /\ \A i \in 1..Len(h[t].log) : LET e == h[t].log[i] IN
           i <= Len(h[e].log) /\ SubSeq(h[t].log, 1, i) = SubSeq(h[e].log, 1, i)
      /\ h[t].log # <<>> => h[t].log[Len(h[t].log)] = t
      /\ h[t].log # <<>> => \A k \in 1..(t - 1) :
           IsPrefix(SubSeq(h[k].log, 1, h[k].commit), h[t].log)

ASSUME LogAssumption ==
    /\ \A h \in Histories : IsHistory(h)
    /\ {MaxTerm, MaxLog, MaxBatch, MaxApplying, MaxPending, MaxKept} \subseteq Nat \ {0}
    /\ {MaxCrashes, MaxCompactions} \subseteq Nat

VARIABLES n, st, appends, applies, resps, sm, acks, leaders, used
vars == <<n, st, appends, applies, resps, sm, acks, leaders, used>>

Term == 0..MaxTerm
Index == 0..MaxLog
Log == Seq(Term)
None == <<>>   \* no snapshot; a snapshot is the log it stands for

HardState == [Term : Term, Commit : Index]

Ack == [term : 1..MaxTerm, index : Index]

Unstable == [entries : Log, offset : Nat \ {0}, offsetInProgress : Nat \ {0},
             snapshot : Log, snapshotInProgress : BOOLEAN]

TypeOK ==
    /\ n \in [u : Unstable, committed : Index, applying : Index, applied : Index,
              applyingSize : Nat, applyingPaused : BOOLEAN, Term : Term,
              after : Seq(Ack), prev : HardState, panic : BOOLEAN]
    /\ st \in [log : Log, offset : Index, hs : HardState]
    /\ \A k \in 1..Len(appends) :
         appends[k] \in [first : Nat \ {0}, entries : Log, hs : HardState, snapshot : Log,
                         acks : Seq(Ack), term : Term, index : Index, logTerm : Term,
                         responds : BOOLEAN]
    /\ \A k \in 1..Len(applies) : applies[k] \in [first : Nat \ {0}, entries : Log]
    /\ sm \in Log
    /\ acks \in [1..MaxTerm -> Index]
    /\ leaders \in Histories

Least(a, b) == IF a < b THEN a ELSE b
Greatest(a, b) == IF a > b THEN a ELSE b
IsSnapshot(snapshot) == snapshot # None

----------------------------------------------------------------------------
(* raft/log_unstable.go *)

maybeLastIndex(u) == IF u.entries # <<>> THEN u.offset + Len(u.entries) - 1 ELSE Len(u.snapshot)

nextEntries(u) == SubSeq(u.entries, u.offsetInProgress - u.offset + 1, Len(u.entries))

acceptInProgress(u) ==
    [u EXCEPT !.offsetInProgress = IF u.entries # <<>> THEN u.offset + Len(u.entries) ELSE @,
              !.snapshotInProgress = IsSnapshot(u.snapshot)]

\* stableTo drops the entries up to i, if entry i still has term t.
stableTo(u, i, t) ==
    IF i < u.offset \/ i >= u.offset + Len(u.entries) THEN u
    ELSE IF u.entries[i + 1 - u.offset] # t THEN u
    ELSE [u EXCEPT !.entries = SubSeq(@, i + 2 - u.offset, Len(@)), !.offset = i + 1,
                   !.offsetInProgress = Greatest(@, i + 1)]

stableSnapTo(u, i) ==
    IF IsSnapshot(u.snapshot) /\ Len(u.snapshot) = i
    THEN [u EXCEPT !.snapshot = None, !.snapshotInProgress = FALSE] ELSE u

restoreUnstable(snapshot) ==
    [entries |-> <<>>, offset |-> Len(snapshot) + 1, offsetInProgress |-> Len(snapshot) + 1,
     snapshot |-> snapshot, snapshotInProgress |-> FALSE]

\* A plausible slip: entries in progress stay so when they are overwritten.
truncateAndAppend_StaysInProgress(u, from, ents) ==
    IF from <= u.offset
    THEN [u EXCEPT !.entries = ents, !.offset = from]
    ELSE [u EXCEPT !.entries = SubSeq(@, 1, from - u.offset) \o ents]

\* Of the entries in progress only those before the new ones still are.
truncateAndAppend(u, from, ents) ==
    IF from = u.offset + Len(u.entries) THEN [u EXCEPT !.entries = @ \o ents]
    ELSE IF from <= u.offset
    THEN [u EXCEPT !.entries = ents, !.offset = from, !.offsetInProgress = from]
    ELSE [u EXCEPT !.entries = SubSeq(@, 1, from - u.offset) \o ents,
                   !.offsetInProgress = Least(@, from)]

----------------------------------------------------------------------------
(* raft/log.go: the unstable entries over those in storage *)

firstIndex(r, s) == IF IsSnapshot(r.u.snapshot) THEN Len(r.u.snapshot) + 1 ELSE s.offset + 1

lastIndex(r, s) ==
    IF r.u.entries # <<>> \/ IsSnapshot(r.u.snapshot) THEN maybeLastIndex(r.u) ELSE Len(s.log)

\* zeroTermOnOutOfBounds(term(i)): the unstable part is asked first.
termAt(r, s, i) ==
    IF i >= r.u.offset /\ i < r.u.offset + Len(r.u.entries) THEN r.u.entries[i + 1 - r.u.offset]
    ELSE IF IsSnapshot(r.u.snapshot) /\ Len(r.u.snapshot) = i THEN Last(r.u.snapshot)
    ELSE IF i + 1 < firstIndex(r, s) \/ i \notin 1..Len(s.log) \/ i > lastIndex(r, s) THEN 0
    ELSE s.log[i]

\* Out of bounds nothing matches, but for the dummy entry 0 of an empty log.
matchTerm(r, s, i, t) ==
    /\ termAt(r, s, i) = t
    /\ i + 1 >= firstIndex(r, s) /\ i <= lastIndex(r, s)

Panic(r) == [r EXCEPT !.panic = TRUE]

commitTo(r, s, c) ==
    IF r.committed >= c THEN r
    ELSE IF lastIndex(r, s) < c THEN Panic(r)
    ELSE [r EXCEPT !.committed = c]

\* The entries from index from on go to the unstable log, unless they would
\* rewrite what is committed.
append(r, from, ents) ==
    IF from - 1 < r.committed THEN Panic(r)
    ELSE [r EXCEPT !.u = truncateAndAppend(@, from, ents)]

Conflicts(r, s, index, ents) ==
    {k \in 1..Len(ents) : ~matchTerm(r, s, index + k, ents[k])}

\* A plausible slip: the commit index is taken for the log after the message too.
maybeAppend_CommitsAll(r, s, index, commit, ents) ==
    LET conflicts == Conflicts(r, s, index, ents)
        k         == CHOOSE c \in conflicts : \A d \in conflicts : c <= d
        appended  == IF conflicts = {} THEN r
                     ELSE append(r, index + k, SubSeq(ents, k, Len(ents)))
    IN  commitTo(appended, s, Least(commit, lastIndex(appended, s)))

\* maybeAppend, once matchTerm(index, logTerm) has succeeded.
maybeAppend(r, s, index, commit, ents) ==
    LET conflicts == Conflicts(r, s, index, ents)
        k         == CHOOSE c \in conflicts : \A d \in conflicts : c <= d
        appended  == IF conflicts = {} THEN r
                     ELSE append(r, index + k, SubSeq(ents, k, Len(ents)))
    IN  commitTo(appended, s, Least(commit, index + Len(ents)))

\* Only what is in stable storage may be applied.
maxAppliableIndex(r) == Least(r.committed, r.u.offset - 1)

\* nextCommittedEnts: from and to which index, none if to < from.  One entry is
\* handed out in any case; with no room left applyingPaused is set.
nextCommitted(r) ==
    LET hi == IF r.applyingPaused \/ IsSnapshot(r.u.snapshot) THEN r.applying
              ELSE maxAppliableIndex(r)
    IN  [from |-> r.applying + 1,
         to   |-> Least(hi, r.applying + Greatest(1, MaxApplying - r.applyingSize))]

acceptApplying(r, i, size) ==
    IF r.committed < i THEN Panic(r)
    ELSE [r EXCEPT !.applying = i, !.applyingSize = @ + size,
                   !.applyingPaused = \/ r.applyingSize + size >= MaxApplying
                                      \/ i < maxAppliableIndex(r)]

\* raft.appliedTo and raftLog.appliedTo.
appliedTo(r, index, size) ==
    LET i    == Greatest(index, r.applied)
        left == Greatest(0, r.applyingSize - size)
    IN  IF r.committed < i THEN Panic(r)
        ELSE [r EXCEPT !.applied = i, !.applying = Greatest(@, i), !.applyingSize = left,
                       !.applyingPaused = left >= MaxApplying]

----------------------------------------------------------------------------
(* raft/raft.go: what a follower does to its log *)

\* send() keeps every MsgAppResp back until the next append is done; a
\* rejection (not modelled further) carries no promise.
ack(r, index) == [r EXCEPT !.after = Append(@, [term |-> r.Term, index |-> index])]

\* becomeFollower of the message's term; what is kept back stays.
adoptTerm(r, t) == [r EXCEPT !.Term = t]

handleAppendEntries(r, s, m) ==
    IF m.index < r.committed THEN ack(r, r.committed)
    ELSE IF matchTerm(r, s, m.index, m.logTerm)
    THEN ack(maybeAppend(r, s, m.index, m.commit, m.entries), m.index + Len(m.entries))
    ELSE r

\* restore: obsolete snapshots are ignored, and one that the log has already
\* moves the commit index only.
handleSnapshot(r, s, snapshot) ==
    LET index == Len(snapshot)
    IN  IF index <= r.committed THEN ack(r, r.committed)
        ELSE IF matchTerm(r, s, index, Last(snapshot))
        THEN ack(commitTo(r, s, index), index)
        ELSE ack([r EXCEPT !.committed = index, !.u = restoreUnstable(snapshot)], index)

\* A plausible slip: the response is believed whatever term it was asked in.
handleAppendResp_AnyTerm(r, m) ==
    LET stable == IF m.index = 0 THEN r ELSE [r EXCEPT !.u = stableTo(@, m.index, m.logTerm)]
        i      == Len(m.snapshot)
    IN  IF i = 0 THEN stable ELSE appliedTo([stable EXCEPT !.u = stableSnapTo(@, i)], i, 0)

\* MsgStorageAppendResp: of an older term only the snapshot counts.
handleAppendResp(r, m) ==
    LET stable == IF m.index = 0 \/ m.term < r.Term THEN r
                  ELSE [r EXCEPT !.u = stableTo(@, m.index, m.logTerm)]
        i      == Len(m.snapshot)
    IN  IF i = 0 THEN stable ELSE appliedTo([stable EXCEPT !.u = stableSnapTo(@, i)], i, 0)

----------------------------------------------------------------------------
(* raft/rawnode.go *)

hardState(r) == [Term |-> r.Term, Commit |-> r.committed]

nextSnapshot(r) == IF r.u.snapshotInProgress THEN None ELSE r.u.snapshot

needStorageAppendMsg(r) ==
    \/ nextEntries(r.u) # <<>> \/ hardState(r) # r.prev
    \/ IsSnapshot(nextSnapshot(r)) \/ r.after # <<>>

HasReady(r) == needStorageAppendMsg(r) \/ nextCommitted(r).to >= nextCommitted(r).from

\* A plausible slip: only an append of entries asks for a response.
needStorageAppendRespMsg_NewEntries(r) == nextEntries(r.u) # <<>> \/ IsSnapshot(nextSnapshot(r))

needStorageAppendRespMsg(r) == r.u.entries # <<>> \/ IsSnapshot(nextSnapshot(r))

\* MsgStorageAppend with the acknowledgements to send once it is done and the
\* MsgStorageAppendResp, which attests the last index at the current term.
newStorageAppendMsg(r, s) ==
    LET attested == IF r.u.entries # <<>> THEN lastIndex(r, s) ELSE 0
    IN  [first |-> r.u.offsetInProgress, entries |-> nextEntries(r.u), hs |-> hardState(r),
         snapshot |-> nextSnapshot(r), acks |-> r.after, term |-> r.Term,
         index |-> attested, logTerm |-> IF attested = 0 THEN 0 ELSE termAt(r, s, attested),
         responds |-> needStorageAppendRespMsg(r)]

\* MsgStorageApply: the entries are read through the log.
newStorageApplyMsg(r, s) ==
    LET next == nextCommitted(r)
    IN  [first |-> next.from,
         entries |-> [k \in 1..(next.to - next.from + 1) |-> termAt(r, s, next.from + k - 1)]]

\* acceptReady with AsyncStorageWrites.
acceptReady(r) ==
    LET next     == nextCommitted(r)
        accepted == [r EXCEPT !.prev = hardState(r), !.after = <<>>, !.u = acceptInProgress(@)]
    IN  IF next.to < next.from THEN accepted
        ELSE acceptApplying(accepted, next.to, next.to - next.from + 1)

\* newRaft on what the storage holds: the hard state's commit index must be
\* within the log.
newLog(s) ==
    [u |-> [entries |-> <<>>, offset |-> Len(s.log) + 1, offsetInProgress |-> Len(s.log) + 1,
            snapshot |-> None, snapshotInProgress |-> FALSE],
     committed |-> s.hs.Commit, applying |-> s.offset, applied |-> s.offset,
     applyingSize |-> 0, applyingPaused |-> FALSE, Term |-> s.hs.Term,
     after |-> <<>>, prev |-> s.hs,
     panic |-> s.hs.Commit \notin s.offset..Len(s.log)]

----------------------------------------------------------------------------
(* raft/storage.go *)

\* ApplySnapshot: an out of date snapshot is refused.
ApplySnapshot(s, snapshot) ==
    IF Len(snapshot) <= s.offset THEN s
    ELSE [s EXCEPT !.log = snapshot, !.offset = Len(snapshot)]

MissesEntries(s, first, ents) == ents # <<>> /\ first > Len(s.log) + 1

\* Append: what was compacted is left out, what follows is overwritten.
AppendToStorage(s, first, ents) ==
    LET last == first + Len(ents) - 1
        from == Greatest(first, s.offset + 1)
    IN  IF ents = <<>> \/ last < s.offset + 1 THEN s
        ELSE [s EXCEPT !.log = SubSeq(@, 1, from - 1) \o SubSeq(ents, from - first + 1, Len(ents))]

----------------------------------------------------------------------------
(* The leaders the follower hears from: the rest of the group *)

\* What the group ever commits.
Chosen == CHOOSE log \in {SubSeq(leaders[t].log, 1, leaders[t].commit) : t \in 1..MaxTerm} :
            \A t \in 1..MaxTerm : leaders[t].commit <= Len(log)

----------------------------------------------------------------------------
(* The follower's inputs *)

NodeMoves(r) == n' = r /\ UNCHANGED <<st, appends, applies, resps, sm, acks, leaders, used>>

\* A message of a leader that is not outdated, sent at any time.
FromLeader(t) == ~n.panic /\ t >= n.Term /\ leaders[t].log # <<>> /\ Len(n.after) < MaxKept

ReceiveApp ==
    \E t \in 1..MaxTerm : FromLeader(t) /\
        \E index \in 0..Len(leaders[t].log), count \in 0..MaxBatch, commit \in 0..leaders[t].commit :
          /\ index + count <= Len(leaders[t].log)
          /\ NodeMoves(handleAppendEntries(adoptTerm(n, t), st,
               [index |-> index, commit |-> commit,
                logTerm |-> IF index = 0 THEN 0 ELSE leaders[t].log[index],
                entries |-> SubSeq(leaders[t].log, index + 1, index + count)]))

\* MsgHeartbeat commits no more than what this follower acknowledged.
ReceiveHeartbeat ==
    \E t \in 1..MaxTerm : FromLeader(t) /\
        \E commit \in 1..leaders[t].commit :
          /\ commit <= acks[t]
          /\ NodeMoves(commitTo(adoptTerm(n, t), st, commit))

\* MsgSnap with what the leader has committed and applied.
ReceiveSnapshot ==
    \E t \in 1..MaxTerm : FromLeader(t) /\
        \E index \in 1..leaders[t].commit :
          NodeMoves(handleSnapshot(adoptTerm(n, t), st, SubSeq(leaders[t].log, 1, index)))

\* A vote request or a campaign of its own takes the follower to a newer term.
NewTerm == ~n.panic /\ n.Term < MaxTerm /\ NodeMoves(adoptTerm(n, n.Term + 1))

----------------------------------------------------------------------------
(* Ready, the two threads, and their responses *)

Ready ==
    /\ ~n.panic /\ HasReady(n)
    /\ Len(appends) + Len(resps.append) < MaxPending
    /\ n' = acceptReady(n)
    /\ appends' = IF needStorageAppendMsg(n)
                  THEN Append(appends, newStorageAppendMsg(n, st)) ELSE appends
    /\ applies' = IF nextCommitted(n).to >= nextCommitted(n).from
                  THEN Append(applies, newStorageApplyMsg(n, st)) ELSE applies
    /\ UNCHANGED <<st, resps, sm, acks, leaders, used>>

\* The acknowledgements reach their leaders.
acknowledged(m) ==
    [t \in 1..MaxTerm |-> CHOOSE i \in Index :
       LET sent == {m.acks[k].index : k \in {j \in 1..Len(m.acks) : m.acks[j].term = t}}
       IN  i \in sent \cup {acks[t]} /\ \A j \in sent \cup {acks[t]} : j <= i]

\* The append thread writes snapshot, entries and hard state, then responds.
AppendThread ==
    /\ appends # <<>>
    /\ LET m       == Head(appends)
           written == ApplySnapshot(st, m.snapshot)
       IN  /\ st' = [AppendToStorage(written, m.first, m.entries) EXCEPT !.hs = m.hs]
           /\ n' = IF MissesEntries(written, m.first, m.entries) THEN Panic(n) ELSE n
           /\ sm' = IF Len(m.snapshot) > Len(sm) THEN m.snapshot ELSE sm
           /\ acks' = acknowledged(m)
           /\ resps' = IF m.responds THEN [resps EXCEPT !.append = Append(@, m)] ELSE resps
    /\ appends' = Tail(appends)
    /\ UNCHANGED <<applies, leaders, used>>

\* The apply thread hands committed entries to the state machine, which skips
\* what a snapshot has brought already.
ApplyThread ==
    /\ applies # <<>>
    /\ LET m    == Head(applies)
           last == m.first + Len(m.entries) - 1
       IN  /\ sm' = IF last <= Len(sm) THEN sm ELSE SubSeq(sm, 1, m.first - 1) \o m.entries
           /\ resps' = [resps EXCEPT !.apply = Append(@, [index |-> last, size |-> Len(m.entries)])]
    /\ applies' = Tail(applies)
    /\ UNCHANGED <<n, st, appends, acks, leaders, used>>

AppendResp ==
    /\ ~n.panic /\ resps.append # <<>>
    /\ n' = handleAppendResp(n, Head(resps.append))
    /\ resps' = [resps EXCEPT !.append = Tail(@)]
    /\ UNCHANGED <<st, appends, applies, sm, acks, leaders, used>>

ApplyResp ==
    /\ ~n.panic /\ resps.apply # <<>>
    /\ n' = appliedTo(n, Head(resps.apply).index, Head(resps.apply).size)
    /\ resps' = [resps EXCEPT !.apply = Tail(@)]
    /\ UNCHANGED <<st, appends, applies, sm, acks, leaders, used>>

\* The application compacts the log up to an index it has applied and whose
\* commit is durable (with a durable commit index behind the compacted log,
\* loadState would panic at the next restart).
Compact ==
    /\ used.compactions < MaxCompactions
    /\ \E i \in (st.offset + 1)..Least(n.applied, st.hs.Commit) : st' = [st EXCEPT !.offset = i]
    /\ used' = [used EXCEPT !.compactions = @ + 1]
    /\ UNCHANGED <<n, appends, applies, resps, sm, acks, leaders>>

\* A crash: the threads' work is lost, the state machine is rebuilt from the
\* storage's snapshot, and the log is applied to it again.
Crash ==
    /\ used.crashes < MaxCrashes
    /\ n' = newLog(st)
    /\ appends' = <<>> /\ applies' = <<>> /\ resps' = [append |-> <<>>, apply |-> <<>>]
    /\ sm' = SubSeq(st.log, 1, st.offset)
    /\ used' = [used EXCEPT !.crashes = @ + 1]
    /\ UNCHANGED <<st, acks, leaders>>

InitialStorage == [log |-> <<>>, offset |-> 0, hs |-> [Term |-> 0, Commit |-> 0]]

Init ==
    /\ st = InitialStorage /\ n = newLog(InitialStorage)
    /\ appends = <<>> /\ applies = <<>> /\ resps = [append |-> <<>>, apply |-> <<>>]
    /\ sm = <<>> /\ acks = [t \in 1..MaxTerm |-> 0]
    /\ leaders \in Histories
    /\ used = [crashes |-> 0, compactions |-> 0]

Next ==
    \/ ReceiveApp \/ ReceiveHeartbeat \/ ReceiveSnapshot \/ NewTerm
    \/ Ready \/ AppendThread \/ ApplyThread \/ AppendResp \/ ApplyResp
    \/ Compact \/ Crash

\* The application takes every Ready and the threads do their work.
Fairness ==
    /\ WF_vars(Ready) /\ WF_vars(AppendThread) /\ WF_vars(ApplyThread)
    /\ WF_vars(AppendResp) /\ WF_vars(ApplyResp)

Spec == Init /\ [][Next]_vars /\ Fairness

----------------------------------------------------------------------------
(* Properties *)

\* The log as the node reads it: its unstable part over the storage.
View == IF IsSnapshot(n.u.snapshot) THEN n.u.snapshot \o n.u.entries
        ELSE SubSeq(st.log, 1, n.u.offset - 1) \o n.u.entries

\* One log over memory and storage (raft/log.go): entries handed from the
\* unstable log to the storage by appends that complete later, in any order
\* with the overwriting of the same indexes, are never seen to change
\* (newStorageAppendRespMsg's ABA problem), and only durable committed entries
\* are applied, in order, none twice and none left out.
Abstract == INSTANCE DurableLog
    WITH log <- View, committed <- n.committed, disk <- st.log, machine <- sm
OneLog == Abstract!Spec

\* An append acknowledged to the leader of the term on disk is on disk
\* (raft/raft.go, send: MsgAppResp waits for the append), whatever appends of
\* earlier terms complete after it, and also after a crash.
AckedIsDurable ==
    \A t \in 1..MaxTerm : acks[t] > 0 =>
        /\ st.hs.Term >= t
        /\ st.hs.Term = t => IsPrefix(SubSeq(leaders[t].log, 1, acks[t]), st.log)

\* What the follower commits, and hence applies, is what the group has
\* committed (raft/raft.go, handleAppendEntries and handleSnapshot: of a log
\* that may continue with another leader's entries only what matches the
\* message is committed).
CommittedIsChosen == ~n.panic => IsPrefix(SubSeq(View, 1, n.committed), Chosen)

\* No sequence of messages, appends and crashes ends in one of the log's panics
\* (commitTo, append, appliedTo, MemoryStorage.Append, loadState).
NoPanic == ~n.panic

\* The indexes of the log keep their order, and only what is chosen is
\* committed (NoPanic, CommittedIsChosen).
LogInv == TypeOK /\ NoPanic /\ CommittedIsChosen

\* "Assuming a bounded number of term changes", the unstable log is truncated
\* in the end (newStorageAppendRespMsg), and everything committed is applied,
\* however small the budget for entries being applied.
Settles == <>[](n.u.entries = <<>> /\ ~IsSnapshot(n.u.snapshot) /\ Len(sm) = n.committed)
=============================================================================
