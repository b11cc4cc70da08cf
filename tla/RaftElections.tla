---------------------------- MODULE RaftElections ----------------------------
(***************************************************************************)
(* Why a term has one leader: the inductive invariant of elections.        *)
(*                                                                         *)
(* ElectionSafety is not inductive.  What makes it hold is a chain of      *)
(* facts: a grant in an outbox is the vote of its sender, a grant in the   *)
(* network is the vote on its sender's disk, a server never grants twice   *)
(* in a term, and whoever leads holds grants of a quorum.                  *)
(***************************************************************************)
EXTENDS RaftCluster

\* A vote given to somebody.
Granted(m) == m.type = "MsgVoteResp" /\ ~m.reject

\* Messages that carry a term of a campaign or of a leader: it is never 0, the
\* term by which Step recognises local messages.
Stamped(m) == m.type \in {"MsgVote", "MsgApp", "MsgHeartbeat"} \/ Granted(m) => m.term > 0

\* All that waits in r's outboxes.
Boxes(r) == UNION {Range(r.msgs[d]) \cup Range(r.after[d]) : d \in Server}

\* Among the messages N there is j's vote for i in term t.
Backed(N, j, i, t) ==
    \E m \in N : Granted(m) /\ m.from = j /\ m.to = i /\ m.term = t

\* What a candidate or leader r owes its role to, given the messages N.
Evidence(r, N) ==
    /\ r.state \in {"StateCandidate", "StateLeader"} => r.Term > 0 /\ r.Vote = r.id
    /\ r.state = "StateCandidate" =>
         \A j \in r.granted \ {r.id} : Backed(N, j, r.id, r.Term)
    /\ r.state = "StateLeader" =>
         \E Q \in SUBSET Server : /\ IsQuorum(Q, Server)
                                  /\ \A j \in Q \ {r.id} : Backed(N, j, r.id, r.Term)

\* hs does not contradict server r: r is at its term or later, with its vote.
Durable(r, hs) == r.Term >= hs.Term /\ (r.Term = hs.Term /\ hs.Vote # Nil => r.Vote = hs.Vote)

\* m is a vote that x (a server or a hard state) stands by.
StoodBy(m, x) == m.term <= x.Term /\ (m.term = x.Term => x.Vote = m.to)

\* The servers nd with disks dk and the messages nt.
ElectionInvariant(nd, dk, nt) ==
    /\ \A i \in Server : nd[i].id = i /\ nd[i].voters = Server
    /\ \A i \in Server : Durable(nd[i], dk[i].hs)
    /\ \A i \in Server : \A m \in Boxes(nd[i]) :
         Stamped(m) /\ (Granted(m) => m.from = i /\ StoodBy(m, nd[i]))
    /\ \A i \in Server : \A m \in Range(nd[i].steps) :
         Stamped(m) /\ (Granted(m) => m.from = i)
    /\ \A m \in nt : Stamped(m) /\ (Granted(m) => StoodBy(m, dk[m.from].hs))
    /\ \A i \in Server : \A m, n \in Boxes(nd[i]) \cup nt :
         Granted(m) /\ Granted(n) /\ m.from = i /\ n.from = i /\ m.term = n.term => m.to = n.to
    /\ \A i \in Server : Evidence(nd[i], nt)

\* The inductive invariant behind ElectionSafety and VotesOnDisk: every vote
\* that waits, travels or counts is one its sender still stands by (the vote in
\* Step, send() and the Ready cycle).
ElectionInv == ElectionInvariant(node, disk, net)
=============================================================================
