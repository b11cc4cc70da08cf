----------------------------- MODULE RaftCommits -----------------------------
(***************************************************************************)
(* Why what is committed stays: the inductive invariant of commitment.     *)
(*                                                                         *)
(* An entry is called by its key: its index, its term, and the server that *)
(* won the term.  Messages stay in the network, so an acknowledgement of a *)
(* key is on record forever, and once a quorum has left the term without   *)
(* one the key is missed: it will never be counted.  All else is about the *)
(* keys that are not missed.  They are in the logs of their owner and of   *)
(* every server that acknowledged them; a vote for a later term went to a  *)
(* log that has them; so whoever wins a later term has them, and neither   *)
(* an append nor a truncation takes them away.  What is committed lies     *)
(* below a key that a quorum acknowledged, and such a key is not missed.   *)
(***************************************************************************)
EXTENDS RaftLogs

----------------------------------------------------------------------------
(* Logs and keys *)

\* The log has an entry of term t at index k.
Has(log, k, t) == k \in 1..Len(log) /\ log[k].term = t

\* Two logs are the same up to index n, and have that index.
Agree(a, b, n) == n <= Len(a) /\ n <= Len(b) /\ \A c \in 1..n : a[c] = b[c]

\* The keys of the links S, whoever won their terms.
Keys(S) == {[at |-> x.at, term |-> x.entry.term, owner |-> l] : x \in S, l \in Server}

\* An entry of term t at index c is the key a or comes after it, in the order
\* that isUpToDate compares logs in.
After(t, c, a) == t > a.term \/ (t = a.term /\ c >= a.at)

\* A log that has something after a key has the key.
Complete(log, a) ==
    \A c \in 1..Len(log) : After(log[c].term, c, a) => c >= a.at /\ Has(log, a.at, a.term)

\* log is what the owner's log b is up to key a, as far as index n.
Copies(log, n, a, b) == Agree(log, b, Least(n, a.at))

\* The MsgApp m tells nothing of the log up to key a but what the owner's log b
\* has, and where it starts behind the key its logTerm comes after the key.
Respects(m, a, b) ==
    /\ m.index <= a.at => m.logTerm = TermAt(b, m.index)
    /\ m.index > a.at => m.logTerm >= a.term
    /\ \A c \in 1..Len(m.entries) :
         m.index + c <= a.at => m.entries[c].term = TermAt(b, m.index + c)

\* m is a part of the log.
Slice(m, log) ==
    /\ m.index + Len(m.entries) <= Len(log)
    /\ m.logTerm = TermAt(log, m.index)
    /\ \A c \in 1..Len(m.entries) : m.entries[c] = log[m.index + c]

----------------------------------------------------------------------------
(* What may still be counted, and what was *)

Acknowledges(m) == m.type = "MsgAppResp" /\ ~m.reject

\* Among the messages N, server j acknowledged key a, or more, in its term.
Acked(N, j, a) ==
    \E m \in N : Acknowledges(m) /\ m.from = j /\ m.term = a.term /\ m.index >= a.at

\* Server j may have been counted for key a.
Holds(j, a, N) == j = a.owner \/ Acked(N, j, a)

\* A quorum without the owner left the key's term and never acknowledged it.
Missed(a, nd, dk, nt) ==
    \E Q \in SUBSET Server :
        /\ IsQuorum(Q, Server)
        /\ \A j \in Q : dk[j].hs.Term > a.term /\ ~Holds(j, a, Underway(nd, nt))

LiveKeys(nd, dk, nt) ==
    {a \in Keys(Links(nd, dk, nt)) :
        Won(a.owner, a.term, nd, dk, nt) /\ ~Missed(a, nd, dk, nt)}

\* The owner has the key on disk, and with it a quorum that acknowledged.
Chosen(a, dk, nt) ==
    /\ Has(dk[a.owner].log, a.at, a.term)
    /\ \E Q \in SUBSET Server : IsQuorum(Q, Server) /\ \A j \in Q : Holds(j, a, nt)

\* Index c is below a key that was chosen in term t or before.
Reached(c, t, nd, dk, nt) ==
    c = 0 \/ \E a \in LiveKeys(nd, dk, nt) : a.at >= c /\ a.term <= t /\ Chosen(a, dk, nt)

\* The same, and up to there the log is what the owner's is.
Sealed(log, c, t, nd, dk, nt) ==
    c = 0 \/ \E a \in LiveKeys(nd, dk, nt) :
               a.at >= c /\ a.term <= t /\ Chosen(a, dk, nt) /\ Agree(log, nd[a.owner].log, c)

\* Candidate i cannot win term t: a quorum has left it without a vote for i.
Beaten(i, t, nd, dk, nt) ==
    \E Q \in SUBSET Server :
        /\ IsQuorum(Q, Server)
        /\ \A j \in Q : dk[j].hs.Term > t /\ ~Backed(Underway(nd, nt), j, i, t)

\* What waits for the next append.
Withheld(r) == UNION {Range(r.after[d]) : d \in Server}

\* All links but those that only server l's memory has.
Elsewhere(l, nd, dk, nt) ==
    (UNION {LogLinks(dk[i].log) : i \in Server})
    \cup (UNION {LogLinks(nd[i].log) : i \in Server \ {l}})
    \cup (UNION {Carried(m) :
                   m \in nt \cup UNION {Boxes(nd[i]) \cup Range(nd[i].steps) : i \in Server \ {l}}})

----------------------------------------------------------------------------
(* Terms in order *)

\* Terms grow along the logs.  A log may hold a term its server has not reached
\* (entries are written before the hard state), but not a leader's.
LinksRise(nd, dk, nt) == \A a \in Links(nd, dk, nt) : a.prev <= a.entry.term

\* A leader's log ends in its term, and has all that was said in its term.
LeaderKnows(r, N) ==
    r.state = "StateLeader" =>
        /\ Has(r.log, Len(r.log), r.Term)
        /\ \A d \in Server : r.prs[d].Match <= Len(r.log)
        /\ \A m \in N : m.term = r.Term =>
             /\ m.type = "MsgApp" => Slice(m, r.log)
             /\ Acknowledges(m) => m.index <= Len(r.log)

\* Entries and acknowledgements are those of a leader's term.
OfTerm(m, nd, dk, nt) ==
    /\ m.type = "MsgApp" \/ (Acknowledges(m) /\ m.index > 0) =>
         m.term > 0 /\ \E l \in Server : Won(l, m.term, nd, dk, nt)
    /\ m.type = "MsgApp" => \A c \in 1..Len(m.entries) : m.entries[c].term <= m.term

\* Only answers wait for the next append; what is acknowledged is its sender's.
Queued(r) ==
    /\ \A m \in Withheld(r) \cup Range(r.steps) : m.type \in AfterAppendTypes
    /\ \A m \in Boxes(r) \cup Range(r.steps) : Acknowledges(m) => m.from = r.id

OrderInvariant(nd, dk, nt) ==
    /\ LinksRise(nd, dk, nt)
    /\ \A i \in Server : LeaderKnows(nd[i], Underway(nd, nt))
    /\ \A i \in Server : nd[i].state = "StateCandidate" /\ lastTerm(nd[i].log) > nd[i].Term =>
         Beaten(i, nd[i].Term, nd, dk, nt)
    /\ \A m \in Underway(nd, nt) : OfTerm(m, nd, dk, nt)
    /\ \A i \in Server : Queued(nd[i])

----------------------------------------------------------------------------
(* Acknowledgements, votes and leaders keep live keys *)

\* What m acknowledges is on the log of x (a server or a disk).
Backs(m, log, term, nd, dk, nt) ==
    Acknowledges(m) =>
        /\ m.term <= term
        /\ \A a \in LiveKeys(nd, dk, nt) :
             a.term <= m.term => Copies(log, m.index, a, nd[a.owner].log)

AckInvariant(nd, dk, nt) ==
    /\ \A m \in Underway(nd, nt) : Backs(m, nd[m.from].log, nd[m.from].Term, nd, dk, nt)
    /\ \A m \in nt \cup UNION {Range(nd[i].steps) : i \in Server} :
         Backs(m, dk[m.from].log, dk[m.from].hs.Term, nd, dk, nt)

\* Key a is where it must be.
Placed(a, nd, dk, nt) ==
    /\ \A i \in Server : Complete(nd[i].log, a) /\ Complete(dk[i].log, a)
    /\ Has(nd[a.owner].log, a.at, a.term)
    /\ a \in Keys(Elsewhere(a.owner, nd, dk, nt)) => Has(dk[a.owner].log, a.at, a.term)
    /\ \A i \in Server :
         nd[i].state = "StateLeader" /\ a.term <= nd[i].Term => Has(nd[i].log, a.at, a.term)
    /\ \A m \in Underway(nd, nt) :
         m.type = "MsgApp" /\ a.term <= m.term => Respects(m, a, nd[a.owner].log)
    /\ \A g \in Underway(nd, nt) :
         /\ Granted(g) /\ g.from # g.to /\ a.term < g.term
         /\ nd[g.to].state = "StateCandidate" /\ nd[g.to].Term = g.term
         /\ Holds(g.from, a, Underway(nd, nt))
         => After(lastTerm(nd[g.to].log), Len(nd[g.to].log), a)

KeyInvariant(nd, dk, nt) ==
    /\ \A a \in LiveKeys(nd, dk, nt) : Placed(a, nd, dk, nt)
    /\ \A m \in Underway(nd, nt) :
         /\ m.type = "MsgVote"
         /\ nd[m.from].state = "StateCandidate" /\ nd[m.from].Term = m.term
         => m.index = Len(nd[m.from].log) /\ m.logTerm = lastTerm(nd[m.from].log)

----------------------------------------------------------------------------
(* What is committed was chosen *)

\* A leader's commit index is what a quorum acknowledged, and stays within what
\* each follower did.
Told(m, nd, dk, nt) ==
    /\ m.type \in {"MsgApp", "MsgHeartbeat"} => Reached(m.commit, m.term, nd, dk, nt)
    /\ m.type = "MsgHeartbeat" /\ m.commit > 0 =>
         Acked(nt, m.to, [at |-> m.commit, term |-> m.term, owner |-> m.from])

\* Match is what was acknowledged; the leader's own is on its disk.
Counted(i, nd, dk, nt) ==
    nd[i].state = "StateLeader" =>
        /\ \A j \in Server \ {i} : nd[i].prs[j].Match > 0 =>
             Acked(nt, j, [at |-> nd[i].prs[j].Match, term |-> nd[i].Term, owner |-> i])
        /\ \A a \in LiveKeys(nd, dk, nt) :
             a.term = nd[i].Term /\ a.at <= nd[i].prs[i].Match => Has(dk[i].log, a.at, a.term)

SealInvariant(nd, dk, nt) ==
    /\ \A i \in Server :
         /\ Sealed(nd[i].log, nd[i].committed, nd[i].Term, nd, dk, nt)
         /\ Sealed(dk[i].log, dk[i].hs.Commit, dk[i].hs.Term, nd, dk, nt)
         /\ dk[i].synced <= dk[i].hs.Commit /\ dk[i].hs.Commit <= nd[i].committed
         /\ Counted(i, nd, dk, nt)
    /\ \A m \in Underway(nd, nt) : Told(m, nd, dk, nt)

CommitInvariant(nd, dk, nt) ==
    /\ ClusterInvariant(nd, dk, nt)
    /\ OrderInvariant(nd, dk, nt)
    /\ AckInvariant(nd, dk, nt)
    /\ KeyInvariant(nd, dk, nt)
    /\ SealInvariant(nd, dk, nt)

\* The inductive invariant behind StateMachineSafety and LeaderCompleteness: a
\* key that may have been counted is on the logs it was counted for, and nobody
\* wins a later term without it (the up-to-date check on votes, maybeAppend,
\* the term check in maybeCommit, acknowledgements sent after the append).
CommitInv == CommitInvariant(node, disk, net)

\* What an application must do with a Ready: README.md of the library asks to
\* write "Entries first, then HardState", or both at once.  A crash that leaves
\* the hard state alone on disk leaves a commit index without its entries.
EntriesFirst == "hardStateOnly" \notin CrashPoints
=============================================================================
