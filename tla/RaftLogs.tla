------------------------------ MODULE RaftLogs ------------------------------
(***************************************************************************)
(* Why logs match: the inductive invariant of replication.                 *)
(*                                                                         *)
(* LogMatching compares whole prefixes, which no single step can be held   *)
(* to.  What a step does keep is about links: the entry at one index with  *)
(* the term of the entry before it.  A MsgApp hands over links, with its   *)
(* (index, logTerm) as the first predecessor; a follower accepts it only   *)
(* where its own log has that predecessor.  So every link anywhere, in     *)
(* memory, on disk or in a message, was made by a leader, and there is one *)
(* per index and term, provided that a term once won is never won again:   *)
(* not by another server, and not by the same one after a crash.           *)
(***************************************************************************)
EXTENDS RaftElections

----------------------------------------------------------------------------
(* A term is won once *)

\* x (a server or a hard state) has left term t, or voted in it for v.
Claims(t, v, x) == t <= x.Term /\ (t = x.Term => x.Vote = v)

\* The hard states hs stand behind m: who asked for a vote, or was given one,
\* has voted for itself.
Shown(m, hs) ==
    /\ m.type = "MsgVote" => Claims(m.term, m.from, hs[m.from])
    /\ Granted(m) => Claims(m.term, m.to, hs[m.to])

DiskStates(dk) == [j \in Server |-> dk[j].hs]

\* The hard states once server i has written its Ready.
ReadyStates(nd, dk, i) == [DiskStates(dk) EXCEPT ![i] = hardState(nd[i])]

\* Requests for votes and grants tell what their candidate did: once they left
\* it, on its disk.
TrailInvariant(nd, dk, nt) ==
    /\ \A m \in nt : Shown(m, DiskStates(dk))
    /\ \A i \in Server : \A m \in Range(nd[i].steps) :
         Shown(m, DiskStates(dk)) /\ (Granted(m) => StoodBy(m, nd[i]))
    /\ \A i \in Server : \A m \in Boxes(nd[i]) :
         Shown(m, ReadyStates(nd, dk, i)) /\ (m.type = "MsgVote" => m.from = i)
    /\ \A i \in Server : nd[i].state = "StateCandidate" /\ nd[i].granted # {} =>
         Claims(nd[i].Term, i, dk[i].hs)

\* Server l won term t, and nobody, l included, can win it again: l's vote for
\* itself is on its disk, and it campaigns in that term no more.
Won(l, t, nd, dk, nt) ==
    /\ \E Q \in SUBSET Server : IsQuorum(Q, Server) /\ \A j \in Q \ {l} : Backed(nt, j, l, t)
    /\ Claims(t, l, dk[l].hs)
    /\ ~(nd[l].state = "StateCandidate" /\ nd[l].Term = t)
    /\ \A m \in Boxes(nd[l]) \cup nt : Granted(m) /\ m.from = l /\ m.term = t => m.to = l

----------------------------------------------------------------------------
(* Links *)

\* The links of a log.
LogLinks(log) ==
    {[at |-> k, entry |-> log[k], prev |-> TermAt(log, k - 1)] : k \in 1..Len(log)}

\* The links that a message carries, if it is a MsgApp.
Carried(m) ==
    {[at |-> m.index + k, entry |-> m.entries[k],
      prev |-> IF k = 1 THEN m.logTerm ELSE m.entries[k - 1].term] :
        k \in {j \in 1..Len(m.entries) : m.type = "MsgApp"}}

\* All that is on its way: in the network, in an outbox, or waiting for Advance.
Underway(nd, nt) == nt \cup UNION {Boxes(nd[i]) \cup Range(nd[i].steps) : i \in Server}

Links(nd, dk, nt) ==
    (UNION {LogLinks(nd[i].log) \cup LogLinks(dk[i].log) : i \in Server})
    \cup (UNION {Carried(m) : m \in Underway(nd, nt)})

\* One link per index and term, made by the one server that won the term; while
\* it leads, its log has them all.
LinkInvariant(nd, dk, nt) ==
    LET links == Links(nd, dk, nt)
    IN  /\ \A a, b \in links : a.at = b.at /\ a.entry.term = b.entry.term => a = b
        /\ \A a \in links : \E l \in Server : Won(l, a.entry.term, nd, dk, nt)
        /\ \A i \in Server : nd[i].state = "StateLeader" =>
             /\ Won(i, nd[i].Term, nd, dk, nt)
             /\ \A a \in links : a.entry.term = nd[i].Term => a \in LogLinks(nd[i].log)

\* The servers nd with disks dk and the messages nt.
ClusterInvariant(nd, dk, nt) ==
    /\ ElectionInvariant(nd, dk, nt)
    /\ TrailInvariant(nd, dk, nt)
    /\ LinkInvariant(nd, dk, nt)

\* The inductive invariant behind LogMatching and LeaderAppendOnly: logs grow
\* out of links, a link of each index and term is made once, and a term is won
\* once (becomeLeader, appendEntry, maybeAppend, the Ready cycle).
ClusterInv == ClusterInvariant(node, disk, net)
=============================================================================
