------------------------------ MODULE RaftPanics ------------------------------
(***************************************************************************)
(* Why the library does not panic, unless a crash inside a Ready leaves a  *)
(* disk it cannot work with: the inductive invariant of NoPanic.           *)
(*                                                                         *)
(* Most Panicf calls are out of reach for reasons that CommitInvariant     *)
(* gives: no MsgApp contradicts what a server has committed, a heartbeat   *)
(* tells a commit index that its receiver acknowledged, a disk holds all   *)
(* that its hard state says is committed.  What is left is the bookkeeping *)
(* of leadership: Next of a follower never passes the leader's log, and    *)
(* whoever is taken for the leader of a term has won it, so that nobody    *)
(* forwards to itself, and no request to transfer is forwarded twice.      *)
(***************************************************************************)
EXTENDS RaftCommits

\* The server has not panicked, can send an append to every follower and never
\* to itself, does not transfer its office to itself, and does not follow itself.
Fit(r) ==
    /\ ~r.panic
    /\ r.state = "StateLeader" =>
         /\ \A d \in Server : r.prs[d].Next <= Len(r.log) + 1
         /\ ~IsPaused(r.prs[r.id])
         /\ r.leadTransferee # r.id
    /\ r.state = "StateFollower" => r.lead # r.id
    /\ \A d \in Server : \A m \in Range(r.after[d]) : m.to = d

\* The leader that r follows has won r's term.
Obeys(r, nd, dk, nt) ==
    r.state = "StateFollower" /\ r.lead # Nil => Won(r.lead, r.Term, nd, dk, nt)

\* Messages of a leader, and what is answered only to another server.
FromLeader(m) == m.type \in {"MsgApp", "MsgHeartbeat"}
ToOther(m) ==
    FromLeader(m) \/ m.type = "MsgHeartbeatResp" \/ (m.type = "MsgAppResp" /\ m.reject)

\* Pre-votes are asked for only with PreVote, and for a term.
Polled(m) == m.type = "MsgPreVote" => PreVote /\ m.term > 0

\* Who could refuse a pre-vote has a term to answer with.
Titled(log, term) == PreVote => log = <<>> \/ term > 0

\* m comes from a leader if it says so; a proposal has no term; a request to
\* transfer has one only after it was forwarded to the leader of that term.
Directed(m, nd, dk, nt) ==
    /\ FromLeader(m) => Won(m.from, m.term, nd, dk, nt)
    /\ ToOther(m) => m.from # m.to
    /\ m.type = "MsgProp" => m.term = 0
    /\ m.type = "MsgTransferLeader" /\ m.term # 0 => Won(m.to, m.term, nd, dk, nt)
    /\ Polled(m)

LeadInvariant(nd, dk, nt) ==
    /\ \A i \in Server : Fit(nd[i]) /\ Obeys(nd[i], nd, dk, nt)
    /\ \A i \in Server : Titled(nd[i].log, nd[i].Term) /\ Titled(dk[i].log, dk[i].hs.Term)
    /\ \A i \in Server : \A m \in Range(nd[i].steps) : m.to = i
    /\ \A m \in Underway(nd, nt) : Directed(m, nd, dk, nt)

PanicInvariant(nd, dk, nt) == CommitInvariant(nd, dk, nt) /\ LeadInvariant(nd, dk, nt)

\* The inductive invariant behind NoPanic: what every Panicf call of raft.go and
\* log.go rules out, and what it takes to know it (send, maybeSendAppend,
\* handleHeartbeat, maybeAppend, newRaft).
PanicInv == PanicInvariant(node, disk, net)

\* With PreVote, entries are never on disk without the hard state of their Ready:
\* the disk of a server that has heard of no term would hold entries, and the
\* server would refuse a pre-vote in term 0, which send() does not allow.
TermWithEntries == PreVote => "entriesOnly" \notin CrashPoints
=============================================================================
