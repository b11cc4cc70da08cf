------------------------- MODULE RaftCommitTheorems -------------------------
(***************************************************************************)
(* What is committed stays, for every group and every configuration: the   *)
(* theorems.                                                               *)
(*                                                                         *)
(* A live key is placed where it must be after every step: it is in the    *)
(* log of whoever wins a later term, since the quorum that voted for it    *)
(* and the quorum that may be counted for the key meet in a server that    *)
(* has both.  What a leader commits was acknowledged by a quorum in its    *)
(* own term.  From CommitInv follow StateMachineSafety,                    *)
(* LeaderCompleteness, CommittedOnDisks and CommittedStable.               *)
(***************************************************************************)
EXTENDS RaftCommitProofs

----------------------------------------------------------------------------
(* Keys that are not only in their owner's memory *)

LEMMA ElsewhereIs ==
    ASSUME NEW l, NEW nd, NEW dk, NEW nt, NEW x
    PROVE  x \in Elsewhere(l, nd, dk, nt) <=>
             \/ \E k \in Server : x \in LogLinks(dk[k].log)
             \/ \E k \in Server \ {l} : x \in LogLinks(nd[k].log)
             \/ \E m \in nt : x \in Carried(m)
             \/ \E k \in Server \ {l} :
                  \E m \in Boxes(nd[k]) \cup Range(nd[k].steps) : x \in Carried(m)
BY DEF Elsewhere

LEMMA ElsewhereWithin ==
    ASSUME NEW l, NEW nd, NEW dk, NEW nt
    PROVE  Elsewhere(l, nd, dk, nt) \subseteq Links(nd, dk, nt)
<1> SUFFICES ASSUME NEW x \in Elsewhere(l, nd, dk, nt) PROVE x \in Links(nd, dk, nt)
  OBVIOUS
<1>1. \A m \in nt : m \in Underway(nd, nt) BY DEF Underway
<1>2. \A k \in Server : \A m \in Boxes(nd[k]) \cup Range(nd[k].steps) : m \in Underway(nd, nt)
  BY UnderwayOf
<1> QED BY <1>1, <1>2, ElsewhereIs, LinksOfLogs, LinksOfMessages

\* A step of the owner adds nothing elsewhere, ...
LEMMA StepElsewhereOwn ==
    ASSUME NEW nd, NEW dk, NEW nt, NEW nw, NEW i \in Server, NEW N,
           Stepped(nd, dk, nt, nw, i, N)
    PROVE  Elsewhere(i, nw, dk, nt) = Elsewhere(i, nd, dk, nt)
<1>1. \A k \in Server \ {i} : nw[k] = nd[k] BY DEF Stepped
<1> QED BY <1>1 DEF Elsewhere

\* ... and one of another server only a leader's own entries.
LEMMA StepElsewhere ==
    ASSUME NEW nd, NEW dk, NEW nt, NEW nw, NEW i \in Server, NEW N,
           Stepped(nd, dk, nt, nw, i, N), NEW l \in Server \ {i},
           NEW x \in Elsewhere(l, nw, dk, nt)
    PROVE  \/ x \in Elsewhere(l, nd, dk, nt)
           \/ nw[i].state = "StateLeader" /\ x \in LogLinks(nw[i].log) /\ x.entry.term = nw[i].Term
<1> DEFINE r == nd[i]
           s == nw[i]
           new == s.state = "StateLeader" /\ x \in LogLinks(s.log) /\ x.entry.term = s.Term
<1>1. /\ \A k \in Server \ {i} : nw[k] = nd[k]
      /\ N \subseteq Heard(nd, nt, i)
      /\ Onward(r, s) /\ LogStep(r, s, N)
  BY DEF Stepped
<1>2. r.log \in Seq(Entry) /\ s.log \in Seq(Entry) BY SteppedTypes
<1>3. ASSUME x \in LogLinks(s.log) PROVE x \in Elsewhere(l, nd, dk, nt) \/ new
  <2>1. CASE x \in LogLinks(r.log) BY <2>1, ElsewhereIs
  <2>2. CASE x \notin LogLinks(r.log)
    <3>1. CASE s.state = "StateLeader"
      <4>1. Extends(r.log, s.log, s.Term) BY <1>1, <3>1 DEF LogStep
      <4>2. x.entry.term = s.Term BY <1>2, <1>3, <2>2, <4>1, ExtendsLinks
      <4> QED BY <1>3, <3>1, <4>2
    <3>2. CASE s.state # "StateLeader"
      <4>1. PICK m \in N : x \in Carried(m) BY <1>1, <1>3, <2>2, <3>2 DEF LogStep
      <4>2. m \in nt \/ m \in Boxes(r) \cup Range(r.steps) BY <1>1 DEF Heard
      <4>3. x \in Elsewhere(l, nd, dk, nt) BY <4>1, <4>2, ElsewhereIs
      <4> QED BY <4>3
    <3> QED BY <3>1, <3>2
  <2> QED BY <2>1, <2>2
<1>4. ASSUME NEW m \in Boxes(s) \cup Range(s.steps), x \in Carried(m)
      PROVE  x \in Elsewhere(l, nd, dk, nt) \/ new
  <2>1. CASE m \in Boxes(r) \cup Range(r.steps) BY <1>4, <2>1, ElsewhereIs
  <2>2. CASE m \notin Boxes(r) \cup Range(r.steps)
    <3>1. m \in Boxes(s) BY <1>1, <1>4, <2>2 DEF Onward
    <3>2. Honest(m, s, N) BY <1>1, <2>2, <3>1 DEF LogStep
    <3> QED BY <1>3, <1>4, <3>2 DEF Honest
  <2> QED BY <2>1, <2>2
<1> HIDE DEF new
<1>5. CASE \E k \in Server : x \in LogLinks(dk[k].log) BY <1>5, ElsewhereIs
<1>6. CASE \E m \in nt : x \in Carried(m) BY <1>6, ElsewhereIs
<1>7. ASSUME NEW k \in Server \ {l}, x \in LogLinks(nw[k].log)
      PROVE  x \in Elsewhere(l, nd, dk, nt) \/ new
  <2>1. CASE k = i BY <1>3, <1>7, <2>1
  <2>2. CASE k # i BY <1>1, <1>7, <2>2, ElsewhereIs
  <2> QED BY <2>1, <2>2
<1>8. ASSUME NEW k \in Server \ {l}, NEW m \in Boxes(nw[k]) \cup Range(nw[k].steps),
             x \in Carried(m)
      PROVE  x \in Elsewhere(l, nd, dk, nt) \/ new
  <2>1. CASE k = i BY <1>4, <1>8, <2>1
  <2>2. CASE k # i BY <1>1, <1>8, <2>2, ElsewhereIs
  <2> QED BY <2>1, <2>2
<1>9. x \in Elsewhere(l, nd, dk, nt) \/ new BY <1>5, <1>6, <1>7, <1>8, ElsewhereIs
<1> QED BY <1>9 DEF new

----------------------------------------------------------------------------
(* A step keeps every live key where it must be *)

\* Nobody is beyond the term of an entry that was just appended, and of its term
\* there is nothing beyond the log that it was appended to.
LEMMA AppendedLast ==
    ASSUME NEW nd, NEW dk, NEW nt, NEW nw, NEW i \in Server, NEW N,
           Stepped(nd, dk, nt, nw, i, N), NEW a \in LiveKeys(nw, dk, nt), Appended(a, nd, nw, i)
    PROVE  /\ \A x \in Links(nw, dk, nt) : x.entry.term <= a.term
           /\ \A x \in Links(nd, dk, nt) : x.entry.term = a.term => x.at <= Len(nd[i].log)
           /\ \A x \in Links(nd, dk, nt) : x.entry.term = a.term => ~(x.at >= a.at)
<1>0. Group(nd, dk, nt) /\ Group(nw, dk, nt) /\ ClusterInvariant(nw, dk, nt) BY DEF Stepped
<1>1. a.at \in Nat /\ a.term \in Nat /\ Len(nd[i].log) \in Nat BY <1>0, LiveIs, SteppedTypes
<1>2. /\ nw[i].state = "StateLeader" /\ a.term = nw[i].Term /\ a.at > Len(nd[i].log)
  BY DEF Appended
<1>3. ASSUME NEW x \in Links(nw, dk, nt) PROVE x.entry.term <= a.term
  <2>1. PICK l \in Server : Won(l, x.entry.term, nw, dk, nt)
    BY <1>0 DEF ClusterInvariant, LinkInvariant
  <2>2. x.entry.term \in Nat BY <1>0, LinkTypes
  <2>3. ASSUME x.entry.term > a.term PROVE FALSE
    <3>1. ~Won(l, x.entry.term, nw, dk, nt) BY <2>2, <2>3, NoneLater
    <3> QED BY <2>1, <3>1
  <2> QED BY <1>1, <2>2, <2>3
<1>4. ASSUME NEW x \in Links(nd, dk, nt), x.entry.term = a.term
      PROVE  x.at <= Len(nd[i].log) /\ ~(x.at >= a.at)
  <2>1. x \in LogLinks(nd[i].log) BY <1>2, <1>4, LeaderTerm
  <2>2. x.at \in 1..Len(nd[i].log) BY <2>1, LinkAt
  <2> QED BY <1>1, <1>2, <2>2
<1> QED BY <1>3, <1>4

LEMMA OldComplete ==
    ASSUME NEW nd, NEW dk, NEW nt, NEW nw, NEW i \in Server, NEW N,
           Stepped(nd, dk, nt, nw, i, N), NEW a \in LiveKeys(nd, dk, nt)
    PROVE  Complete(nw[i].log, a)
<1> DEFINE r == nd[i]
           s == nw[i]
           b == nd[a.owner].log
<1>0. Group(nd, dk, nt) /\ Group(nw, dk, nt) /\ ClusterInvariant(nd, dk, nt)
  BY DEF Stepped, CommitInvariant
<1>1. /\ a \in Key /\ a.at \in Nat \ {0} /\ a.term \in Nat /\ a.owner \in Server
  BY <1>0, LiveIs
<1>2. /\ r.log \in Seq(Entry) /\ s.log \in Seq(Entry) /\ Len(r.log) \in Nat /\ Len(s.log) \in Nat
      /\ s.Term \in Nat
  BY SteppedTypes
<1>3. Placed(a, nd, dk, nt) BY DEF Stepped, CommitInvariant, KeyInvariant
<1>4. Complete(r.log, a) /\ Has(b, a.at, a.term) BY <1>3 DEF Placed
<1>5. b \in Seq(Entry) BY <1>0, <1>1, GroupLogs
<1>6. s.log = r.log \/ s.state = "StateLeader" \/ \E v \in N : Taken(r, s, v)
  BY DEF Stepped, Mindful
<1>7. CASE s.log = r.log BY <1>4, <1>7
<1>8. CASE s.state = "StateLeader"
  <2>1. Agree(s.log, r.log, Len(r.log)) /\ Grown(s.log, Len(r.log), s.Term)
    BY <1>8, LeaderLog
  <2>2. a.term <= s.Term => Has(s.log, a.at, a.term) /\ a.at <= Len(r.log)
    BY <1>8, LeaderHas
  <2> HIDE DEF r, s, b
  <2>3. ASSUME NEW c \in 1..Len(s.log), After(s.log[c].term, c, a)
        PROVE  c >= a.at /\ Has(s.log, a.at, a.term)
    <3>1. CASE c <= Len(r.log)
      <4>1. c \in 1..Len(r.log) /\ s.log[c] = r.log[c] BY <1>2, <2>1, <3>1 DEF Agree
      <4>2. c >= a.at /\ Has(r.log, a.at, a.term) BY <1>4, <2>3, <4>1 DEF Complete
      <4>3. Agree(r.log, s.log, Len(r.log)) BY <2>1, AgreeSym
      <4>4. a.at <= Len(r.log) BY <4>2 DEF Has
      <4>5. Has(s.log, a.at, a.term) BY <1>1, <1>2, <4>2, <4>3, <4>4, AgreeHas
      <4> QED BY <4>2, <4>5
    <3>2. CASE ~(c <= Len(r.log))
      <4>1. s.log[c].term = s.Term BY <1>2, <2>1, <3>2 DEF Grown
      <4>2. a.term <= s.Term BY <1>1, <1>2, <2>3, <4>1 DEF After
      <4> QED BY <1>1, <1>2, <2>2, <3>2, <4>2
    <3> QED BY <3>1, <3>2
  <2> QED BY <2>3 DEF Complete, s
<1>9. ASSUME NEW v \in N, Taken(r, s, v) PROVE Complete(s.log, a)
  <2>1. v \in Underway(nd, nt) /\ v \in Message BY SteppedMessages
  <2>2. /\ v.type = "MsgApp" /\ matchTerm(r.log, v.index, v.logTerm)
        /\ s.log = Spliced(r.log, v) /\ s.state = "StateFollower"
    BY <1>9 DEF Taken
  <2>3. a.term <= v.term => Respects(v, a, b) BY <1>3, <2>1, <2>2 DEF Placed
  <2>4. OfTerm(v, nd, dk, nt) BY <2>1 DEF Stepped, CommitInvariant, OrderInvariant
  <2>5. \A c \in 1..Len(v.entries) : v.entries[c].term <= v.term BY <2>2, <2>4 DEF OfTerm
  <2>6. Sorted(b) BY <1>0, <1>1, GroupSorted DEF Stepped, CommitInvariant, OrderInvariant
  <2>7. Matched(r.log, b) BY <1>0, <1>1, GroupMatched DEF ClusterInvariant
  <2>8. Matched(s.log, b)
    <3>1. LogLinks(s.log) \subseteq Links(nw, dk, nt) BY LinksOfLogs
    <3>2. LogLinks(s.log) \subseteq Links(nd, dk, nt) BY <2>2, <3>1 DEF Stepped
    <3>3. LogLinks(b) \subseteq Links(nd, dk, nt) BY <1>1, LinksOfLogs
    <3>4. \A x, y \in Links(nd, dk, nt) : x.at = y.at /\ x.entry.term = y.entry.term => x = y
      BY <1>0 DEF ClusterInvariant, LinkInvariant
    <3> QED BY <3>2, <3>3, <3>4 DEF Matched
  <2>9. r.log \in Seq(Entry) BY <1>2
  <2> HIDE DEF r, s, b
  <2>10. Matched(Spliced(r.log, v), b) BY <2>2, <2>8
  <2>11. Complete(Spliced(r.log, v), a)
    BY <1>1, <1>4, <1>5, <2>1, <2>2, <2>3, <2>5, <2>6, <2>7, <2>9, <2>10, SpliceComplete
  <2> QED BY <2>2, <2>11 DEF s
<1> QED BY <1>6, <1>7, <1>8, <1>9

LEMMA StepComplete ==
    ASSUME NEW nd, NEW dk, NEW nt, NEW nw, NEW i \in Server, NEW N,
           Stepped(nd, dk, nt, nw, i, N), NEW a \in LiveKeys(nw, dk, nt), NEW k \in Server
    PROVE  Complete(nw[k].log, a) /\ Complete(dk[k].log, a)
<1>0. Group(nd, dk, nt) /\ Group(nw, dk, nt) /\ ClusterInvariant(nw, dk, nt) BY DEF Stepped
<1>1. a.at \in Nat /\ a.term \in Nat BY <1>0, LiveIs
<1>2. CASE a \in LiveKeys(nd, dk, nt)
  <2>1. Complete(nd[k].log, a) /\ Complete(dk[k].log, a)
    BY <1>2 DEF Stepped, CommitInvariant, KeyInvariant, Placed
  <2>2. k # i => nw[k] = nd[k] BY DEF Stepped
  <2>3. Complete(nw[i].log, a) BY <1>2, OldComplete
  <2> QED BY <2>1, <2>2, <2>3
<1>3. CASE Appended(a, nd, nw, i)
  <2>1. /\ \A x \in Links(nw, dk, nt) : x.entry.term <= a.term
        /\ \A x \in Links(nd, dk, nt) : x.entry.term = a.term => ~(x.at >= a.at)
    BY <1>3, AppendedLast
  <2>2. ASSUME NEW log \in Seq(Entry), LogLinks(log) \subseteq Links(nw, dk, nt),
               log = nw[i].log \/ LogLinks(log) \subseteq Links(nd, dk, nt)
        PROVE  Complete(log, a)
    <3> SUFFICES ASSUME NEW c \in 1..Len(log), After(log[c].term, c, a)
                 PROVE  c >= a.at /\ Has(log, a.at, a.term)
      BY DEF Complete
    <3> DEFINE x == [at |-> c, entry |-> log[c], prev |-> TermAt(log, c - 1)]
    <3>1. x \in LogLinks(log) /\ x.at = c /\ x.entry.term = log[c].term BY LinkOfLog
    <3>2. x \in Links(nw, dk, nt) BY <2>2, <3>1
    <3> HIDE DEF x
    <3>3. log[c].term <= a.term /\ log[c].term \in Nat
      <4>1. x.entry.term <= a.term BY <2>1, <3>2
      <4> QED BY <3>1, <4>1, LogTermsAreNat
    <3>4. log[c].term = a.term /\ c >= a.at BY <1>1, <3>3 DEF After
    <3>5. ~(LogLinks(log) \subseteq Links(nd, dk, nt)) BY <2>1, <3>1, <3>4
    <3>6. log = nw[i].log BY <2>2, <3>5
    <3> QED BY <1>3, <3>4, <3>6 DEF Appended
  <2>3. /\ nw[k].log \in Seq(Entry) /\ dk[k].log \in Seq(Entry)
        /\ LogLinks(nw[k].log) \subseteq Links(nw, dk, nt)
        /\ LogLinks(dk[k].log) \subseteq Links(nw, dk, nt)
        /\ LogLinks(nd[k].log) \subseteq Links(nd, dk, nt)
        /\ LogLinks(dk[k].log) \subseteq Links(nd, dk, nt)
    BY <1>0, GroupLogs, LinksOfLogs
  <2>4. k # i => nw[k] = nd[k] BY DEF Stepped
  <2> QED BY <2>2, <2>3, <2>4
<1> QED BY <1>2, <1>3, StepLive

\* The key is on its owner's disk if anything but the owner's memory has it.
LEMMA StepWritten ==
    ASSUME NEW nd, NEW dk, NEW nt, NEW nw, NEW i \in Server, NEW N,
           Stepped(nd, dk, nt, nw, i, N), NEW a \in LiveKeys(nw, dk, nt),
           a \in Keys(Elsewhere(a.owner, nw, dk, nt))
    PROVE  Has(dk[a.owner].log, a.at, a.term)
<1>0. Group(nd, dk, nt) /\ Group(nw, dk, nt) /\ ClusterInvariant(nw, dk, nt) BY DEF Stepped
<1>1. /\ a \in Key /\ a.at \in Nat /\ a.term \in Nat /\ a.owner \in Server
      /\ Won(a.owner, a.term, nw, dk, nt)
  BY <1>0, LiveIs
<1>2. PICK x \in Elsewhere(a.owner, nw, dk, nt) : x.at = a.at /\ x.entry.term = a.term
  BY KeyLink
<1>3. x \in Elsewhere(a.owner, nd, dk, nt)
  <2>1. CASE a.owner = i BY <1>2, <2>1, StepElsewhereOwn
  <2>2. CASE a.owner # i
    <3> SUFFICES ASSUME x \notin Elsewhere(a.owner, nd, dk, nt) PROVE FALSE OBVIOUS
    <3>1. nw[i].state = "StateLeader" /\ x.entry.term = nw[i].Term
      BY <1>1, <2>2, StepElsewhere
    <3>2. Won(i, a.term, nw, dk, nt) BY <1>2, <3>1, LeaderIs
    <3>3. a.owner = i BY <1>0, <1>1, <3>2, OneWinner DEF Group, ClusterInvariant
    <3> QED BY <2>2, <3>3
  <2> QED BY <2>1, <2>2
<1>4. CASE a \in LiveKeys(nd, dk, nt)
  <2>1. a \in Keys(Elsewhere(a.owner, nd, dk, nt)) BY <1>1, <1>2, <1>3, LinkKey
  <2> QED BY <1>4, <2>1 DEF Stepped, CommitInvariant, KeyInvariant, Placed
<1>5. CASE Appended(a, nd, nw, i)
  <2>1. x \in Links(nd, dk, nt) BY <1>3, ElsewhereWithin
  <2>2. ~(x.at >= a.at) BY <1>2, <1>5, <2>1, AppendedLast
  <2> QED BY <1>1, <1>2, <2>2
<1> QED BY <1>4, <1>5, StepLive

LEMMA StepOwnerHas ==
    ASSUME NEW nd, NEW dk, NEW nt, NEW nw, NEW i \in Server, NEW N,
           Stepped(nd, dk, nt, nw, i, N), NEW a \in LiveKeys(nw, dk, nt)
    PROVE  Has(nw[a.owner].log, a.at, a.term)
<1>1. CASE a \in LiveKeys(nd, dk, nt) BY <1>1, StepOwner
<1>2. CASE Appended(a, nd, nw, i) BY <1>2 DEF Appended
<1> QED BY <1>1, <1>2, StepLive

LEMMA StepLeaders ==
    ASSUME NEW nd, NEW dk, NEW nt, NEW nw, NEW i \in Server, NEW N,
           Stepped(nd, dk, nt, nw, i, N), NEW a \in LiveKeys(nw, dk, nt),
           NEW k \in Server, nw[k].state = "StateLeader", a.term <= nw[k].Term
    PROVE  Has(nw[k].log, a.at, a.term)
<1>0. Group(nd, dk, nt) /\ Group(nw, dk, nt) /\ ClusterInvariant(nw, dk, nt) BY DEF Stepped
<1>1. k # i => nw[k] = nd[k] BY DEF Stepped
<1>2. CASE a \in LiveKeys(nd, dk, nt)
  <2>1. CASE k = i BY <1>2, <2>1, LeaderHas
  <2>2. CASE k # i
    BY <1>1, <1>2, <2>2 DEF Stepped, CommitInvariant, KeyInvariant, Placed
  <2> QED BY <2>1, <2>2
<1>3. CASE Appended(a, nd, nw, i)
  <2>1. nw[i].state = "StateLeader" /\ a.term = nw[i].Term /\ Has(nw[i].log, a.at, a.term)
    BY <1>3 DEF Appended
  <2>2. Won(k, nw[k].Term, nw, dk, nt) BY <1>0 DEF ClusterInvariant, LinkInvariant
  <2>3. a.term \in Nat /\ nw[k].Term \in Nat BY <1>0, LiveIs, GroupLogs
  <2>4. ~(nw[k].Term > a.term) BY <1>3, <2>2, <2>3, NoneLater
  <2>5. nw[k].Term = nw[i].Term BY <2>1, <2>3, <2>4
  <2>6. k = i BY <1>0, <2>1, <2>5, OneLeads
  <2> QED BY <2>1, <2>6
<1> QED BY <1>2, <1>3, StepLive

LEMMA StepRespects ==
    ASSUME NEW nd, NEW dk, NEW nt, NEW nw, NEW i \in Server, NEW N,
           Stepped(nd, dk, nt, nw, i, N), NEW a \in LiveKeys(nw, dk, nt),
           NEW m \in Underway(nw, nt), m.type = "MsgApp", a.term <= m.term
    PROVE  Respects(m, a, nw[a.owner].log)
<1> DEFINE s == nw[i]
<1>0. Group(nd, dk, nt) /\ Group(nw, dk, nt) /\ ClusterInvariant(nw, dk, nt) BY DEF Stepped
<1>1. a \in Key /\ a.at \in Nat /\ a.term \in Nat /\ a.owner \in Server BY <1>0, LiveIs
<1>2. m \in Message BY SteppedMessages
<1>3. m.term \in Nat BY <1>2 DEF Message
<1>4. /\ s.log \in Seq(Entry) /\ nw[a.owner].log \in Seq(Entry)
      /\ Matched(s.log, nw[a.owner].log)
  BY <1>0, <1>1, GroupLogs, GroupMatched DEF ClusterInvariant
<1>5. Sorted(s.log) BY <1>0, StepRise, GroupSorted
\* What was sent by the leader with its step, or before in its term.
<1>6. ASSUME s.state = "StateLeader", m.term = s.Term PROVE Respects(m, a, nw[a.owner].log)
  <2>1. LeaderKnows(s, Underway(nw, nt)) BY <1>6, LeaderStillKnows
  <2>2. Slice(m, s.log) BY <1>6, <2>1 DEF LeaderKnows
  <2>3. Has(s.log, a.at, a.term) BY <1>6, StepLeaders
  <2>4. Has(nw[a.owner].log, a.at, a.term) BY StepOwnerHas
  <2> HIDE DEF s
  <2> QED BY <1>1, <1>2, <1>4, <1>5, <2>2, <2>3, <2>4, SliceRespects
<1>7. CASE m \notin Underway(nd, nt)
  <2>1. Said(m, nd[i], s, N) BY <1>7, SteppedMessages
  <2>2. s.state = "StateLeader" /\ m.term = s.Term BY <2>1 DEF Said, Fitting, Proper
  <2> QED BY <1>6, <2>2
<1>8. CASE m \in Underway(nd, nt) /\ a \in LiveKeys(nd, dk, nt)
  <2>1. Respects(m, a, nd[a.owner].log)
    BY <1>8 DEF Stepped, CommitInvariant, KeyInvariant, Placed
  <2>2. /\ Agree(nd[a.owner].log, nw[a.owner].log, a.at)
        /\ nd[a.owner].log \in Seq(Entry)
    BY <1>8, StepOwner
  <2> QED BY <1>1, <1>2, <1>4, <2>1, <2>2, RespectsOn
<1>9. CASE m \in Underway(nd, nt) /\ Appended(a, nd, nw, i)
  <2>1. s.state = "StateLeader" /\ a.term = s.Term BY <1>9 DEF Appended
  <2>2. OfTerm(m, nd, dk, nt) BY <1>9 DEF Stepped, CommitInvariant, OrderInvariant
  <2>3. PICK l \in Server : Won(l, m.term, nd, dk, nt) BY <2>2 DEF OfTerm
  <2>4. Won(l, m.term, nw, dk, nt) BY <1>3, <2>3 DEF Stepped
  <2>5. ~(m.term > a.term) BY <1>3, <1>9, <2>4, NoneLater
  <2>6. m.term = s.Term BY <1>1, <1>3, <2>1, <2>5
  <2> QED BY <1>6, <2>1, <2>6
<1> QED BY <1>7, <1>8, <1>9, StepLive

\* A server that stays a candidate, or becomes one, keeps its log.
LEMMA CandidateIs ==
    ASSUME NEW nd, NEW dk, NEW nt, NEW nw, NEW i \in Server, NEW N,
           Stepped(nd, dk, nt, nw, i, N), nw[i].state = "StateCandidate"
    PROVE  /\ nw[i].log = nd[i].log
           /\ nw[i].Term = nd[i].Term => nd[i].state = "StateCandidate"
<1>1. nw[i].log = nd[i].log BY DEF Stepped, Mindful, Taken
<1>2. nd[i].Term \in Nat /\ nw[i].Term \in Nat BY SteppedTypes
<1>3. nw[i].Term > nd[i].Term \/ nd[i].state = "StateCandidate" BY DEF Stepped, LogStep
<1>4. nw[i].Term = nd[i].Term => ~(nw[i].Term > nd[i].Term) BY <1>2
<1> QED BY <1>1, <1>3, <1>4

LEMMA StepRequests ==
    ASSUME NEW nd, NEW dk, NEW nt, NEW nw, NEW i \in Server, NEW N,
           Stepped(nd, dk, nt, nw, i, N), NEW m \in Underway(nw, nt), m.type = "MsgVote",
           nw[m.from].state = "StateCandidate", nw[m.from].Term = m.term
    PROVE  m.index = Len(nw[m.from].log) /\ m.logTerm = lastTerm(nw[m.from].log)
<1>0. Group(nd, dk, nt) /\ ClusterInvariant(nd, dk, nt) BY DEF Stepped, CommitInvariant
<1>1. m \in Message BY SteppedMessages
<1>2. m.from \in Server /\ m.term \in Nat BY <1>1 DEF Message
<1>3. nw[i].id = i /\ nd[i].Term \in Nat /\ nw[i].Term \in Nat /\ nd[i].Term <= nw[i].Term
  BY SteppedTypes
<1>4. CASE m \notin Underway(nd, nt)
  <2>1. Said(m, nd[i], nw[i], N) BY <1>4, SteppedMessages
  <2>2. m.from = i BY <1>3, <2>1 DEF Said, Honest
  <2> QED BY <2>1, <2>2 DEF Said, Fitting, VoteFits
<1>5. CASE m \in Underway(nd, nt)
  <2>1. nd[m.from].state = "StateCandidate" /\ nd[m.from].Term = m.term
        /\ nw[m.from].log = nd[m.from].log
    <3>1. CASE m.from # i
      <4>1. nw[m.from] = nd[m.from] BY <1>2, <3>1 DEF Stepped
      <4> QED BY <4>1
    <3>2. CASE m.from = i
      <4>1. m.term <= nd[i].Term BY <1>0, <1>5, <3>2, VotesBehind
      <4>2. nw[i].Term = nd[i].Term BY <1>2, <1>3, <3>2, <4>1
      <4> QED BY <3>2, <4>2, CandidateIs
    <3> QED BY <3>1, <3>2
  <2> QED BY <1>5, <2>1 DEF Stepped, CommitInvariant, KeyInvariant
<1> QED BY <1>4, <1>5

\* A log that is no worse than one with the key ends after the key.
LEMMA UpToDateAfter ==
    ASSUME NEW log \in Seq(Entry), Sorted(log), NEW a \in Key, Has(log, a.at, a.term),
           NEW k \in Nat, NEW t \in Nat, isUpToDate(log, k, t)
    PROVE  After(t, k, a)
<1>1. Len(log) \in Nat /\ a.at \in Nat \ {0} /\ a.term \in Nat BY LenProperties DEF Key
<1>2. a.at \in 1..Len(log) /\ log[a.at].term = a.term BY DEF Has
<1>3. Len(log) \in 1..Len(log) /\ a.at <= Len(log) BY <1>1, <1>2
<1>4. lastTerm(log) = log[Len(log)].term BY <1>3 DEF lastTerm, TermAt
<1>5. log[a.at].term <= log[Len(log)].term BY <1>2, <1>3 DEF Sorted
<1>6. log[Len(log)].term \in Nat BY <1>3, LogTermsAreNat
<1>7. t > log[Len(log)].term \/ (t = log[Len(log)].term /\ k >= Len(log))
  BY <1>4 DEF isUpToDate, lastIndex
<1>8. t > a.term \/ (t = a.term /\ k >= a.at) BY <1>1, <1>2, <1>3, <1>5, <1>6, <1>7
<1> QED BY <1>8 DEF After

\* A vote for a later term says that the candidate's log ends after every key
\* that its sender may have been counted for.
LEMMA StepVotes ==
    ASSUME NEW nd, NEW dk, NEW nt, NEW nw, NEW i \in Server, NEW N,
           Stepped(nd, dk, nt, nw, i, N), NEW a \in LiveKeys(nw, dk, nt),
           NEW g \in Underway(nw, nt), Granted(g), g.from # g.to, a.term < g.term,
           nw[g.to].state = "StateCandidate", nw[g.to].Term = g.term,
           Holds(g.from, a, Underway(nw, nt))
    PROVE  After(lastTerm(nw[g.to].log), Len(nw[g.to].log), a)
<1> DEFINE r == nd[i]
           s == nw[i]
           j == g.from
           c == g.to
<1>0. /\ Group(nd, dk, nt) /\ Group(nw, dk, nt)
      /\ ClusterInvariant(nd, dk, nt) /\ ClusterInvariant(nw, dk, nt)
      /\ CommitInvariant(nd, dk, nt)
  BY DEF Stepped, CommitInvariant
<1>1. g \in Message BY SteppedMessages
<1>2. j \in Server /\ c \in Server /\ g.term \in Nat BY <1>1 DEF Message
<1>3. a \in Key /\ a.at \in Nat \ {0} /\ a.term \in Nat /\ a.owner \in Server BY <1>0, LiveIs
<1>4. /\ r.log \in Seq(Entry) /\ s.log \in Seq(Entry) /\ Len(r.log) \in Nat
      /\ s.id = i /\ r.Term \in Nat /\ s.Term \in Nat /\ r.Term <= s.Term
  BY SteppedTypes
<1>5. g.term <= nw[j].Term BY <1>0, GrantsBehind
<1>6. \A k \in Server \ {i} : nw[k] = nd[k] BY DEF Stepped
\* Who granted the vote has left the key's term: it acknowledged nothing in it
\* with this step.
<1>7. ASSUME NEW m \in Underway(nw, nt), Acknowledges(m), m.from = j, m.term = a.term
      PROVE  m \in Underway(nd, nt)
  <2> SUFFICES ASSUME m \notin Underway(nd, nt) PROVE FALSE OBVIOUS
  <2>1. Said(m, r, s, N) BY SteppedMessages
  <2>2. j = i /\ a.term = s.Term BY <1>4, <1>7, <2>1 DEF Said
  <2> QED BY <1>2, <1>3, <1>4, <1>5, <2>2
<1>8. CASE Appended(a, nd, nw, i)
  <2>1. a.owner = i /\ a.term = s.Term /\ s.state = "StateLeader" /\ a.at > Len(r.log)
    BY <1>8 DEF Appended
  <2>2. j # i
    <3> SUFFICES ASSUME j = i PROVE FALSE OBVIOUS
    <3> HIDE DEF r, s, j, c
    <3>1. g.term <= s.Term BY <1>5 DEF s
    <3> QED BY <1>2, <1>3, <1>4, <2>1, <3>1
  <2>3. PICK m \in Underway(nw, nt) :
          Acknowledges(m) /\ m.from = j /\ m.term = a.term /\ m.index >= a.at
    BY <2>1, <2>2 DEF Holds, Acked
  <2>4. m \in Underway(nd, nt) BY <1>7, <2>3
  <2>5. m.index <= Len(r.log) BY <2>1, <2>3, <2>4, LeaderTerm
  <2>6. m \in Message BY SteppedMessages
  <2>7. m.index \in Nat BY <2>6 DEF Message
  <2> QED BY <1>3, <1>4, <2>1, <2>3, <2>5, <2>7
<1>9. CASE a \in LiveKeys(nd, dk, nt)
  <2>1. Holds(j, a, Underway(nd, nt)) BY <1>7 DEF Holds, Acked
  <2>2. Placed(a, nd, dk, nt) BY <1>0, <1>9 DEF CommitInvariant, KeyInvariant
  <2>3. CASE g \in Underway(nd, nt)
    <3>1. nd[c].state = "StateCandidate" /\ nd[c].Term = g.term /\ nw[c].log = nd[c].log
      <4>1. CASE c # i
        <5>1. nw[c] = nd[c] BY <1>2, <1>6, <4>1
        <5> QED BY <5>1
      <4>2. CASE c = i
        <5>1. g.term <= r.Term BY <1>0, <2>3, <4>2, VotesBehind
        <5>2. s.Term = r.Term BY <1>2, <1>4, <4>2, <5>1
        <5> QED BY <4>2, <5>2, CandidateIs
      <4> QED BY <4>1, <4>2
    <3>2. After(lastTerm(nd[c].log), Len(nd[c].log), a) BY <2>1, <2>2, <2>3, <3>1 DEF Placed
    <3> QED BY <3>1, <3>2
  <2>4. CASE g \notin Underway(nd, nt)
    <3>1. Said(g, r, s, N) BY <2>4, SteppedMessages
    <3>2. j = i /\ g.term = s.Term /\ c # i BY <1>4, <3>1 DEF Said
    <3>3. PICK v \in N : /\ v.type = "MsgVote" /\ v.from = c /\ v.term = g.term
                         /\ isUpToDate(s.log, v.index, v.logTerm)
      BY <1>4, <3>1, <3>2 DEF Said, Fitting, VoteFits
    <3>4. v \in Underway(nd, nt) /\ v \in Message BY SteppedMessages
    <3>5. v.index \in Nat /\ v.logTerm \in Nat BY <3>4 DEF Message
    <3>6. nw[c] = nd[c] BY <1>2, <1>6, <3>2
    <3>7. v.index = Len(nd[c].log) /\ v.logTerm = lastTerm(nd[c].log)
      BY <1>0, <3>3, <3>4, <3>6 DEF CommitInvariant, KeyInvariant
    <3>8. Has(s.log, a.at, a.term)
      <4> DEFINE b == nd[a.owner].log
      <4>1. Has(r.log, a.at, a.term) BY <1>0, <1>9, <2>1, <3>2, HolderHas
      <4>2. Has(b, a.at, a.term) BY <2>2 DEF Placed
      <4>3. b \in Seq(Entry) /\ Matched(r.log, b)
        BY <1>0, <1>3, GroupLogs, GroupMatched DEF ClusterInvariant
      <4>4. Agree(r.log, b, a.at) BY <1>4, <4>1, <4>2, <4>3, HasAgree
      <4>5. a.term <= s.Term /\ a.at \in Nat /\ a.at <= a.at BY <1>2, <1>3, <3>2
      <4>6. Agree(s.log, b, a.at) BY <1>9, <4>4, <4>5, LogKeeps
      <4>7. Agree(b, s.log, a.at) BY <4>6, AgreeSym
      <4> HIDE DEF b, s, r
      <4> QED BY <1>4, <4>2, <4>3, <4>5, <4>7, AgreeHas
    <3>9. Sorted(s.log) BY <1>0, StepRise, GroupSorted
    <3> HIDE DEF s, r
    <3>10. After(v.logTerm, v.index, a) BY <1>3, <1>4, <3>3, <3>5, <3>8, <3>9, UpToDateAfter
    <3> QED BY <3>6, <3>7, <3>10
  <2> QED BY <2>3, <2>4
<1> QED BY <1>8, <1>9, StepLive

LEMMA StepKeys ==
    ASSUME NEW nd, NEW dk, NEW nt, NEW nw, NEW i \in Server, NEW N,
           Stepped(nd, dk, nt, nw, i, N)
    PROVE  KeyInvariant(nw, dk, nt)
<1>1. ASSUME NEW a \in LiveKeys(nw, dk, nt) PROVE Placed(a, nw, dk, nt)
  <2>1. \A k \in Server : Complete(nw[k].log, a) /\ Complete(dk[k].log, a)
    BY <1>1, StepComplete
  <2>2. Has(nw[a.owner].log, a.at, a.term) BY <1>1, StepOwnerHas
  <2>3. a \in Keys(Elsewhere(a.owner, nw, dk, nt)) => Has(dk[a.owner].log, a.at, a.term)
    BY <1>1, StepWritten
  <2>4. \A k \in Server :
          nw[k].state = "StateLeader" /\ a.term <= nw[k].Term => Has(nw[k].log, a.at, a.term)
    BY <1>1, StepLeaders
  <2>5. \A m \in Underway(nw, nt) :
          m.type = "MsgApp" /\ a.term <= m.term => Respects(m, a, nw[a.owner].log)
    BY <1>1, StepRespects
  <2>6. ASSUME NEW g \in Underway(nw, nt), Granted(g), g.from # g.to, a.term < g.term,
               nw[g.to].state = "StateCandidate", nw[g.to].Term = g.term,
               Holds(g.from, a, Underway(nw, nt))
        PROVE  After(lastTerm(nw[g.to].log), Len(nw[g.to].log), a)
    BY <1>1, <2>6, StepVotes
  <2> QED BY <2>1, <2>2, <2>3, <2>4, <2>5, <2>6 DEF Placed
<1>2. ASSUME NEW m \in Underway(nw, nt), m.type = "MsgVote",
             nw[m.from].state = "StateCandidate", nw[m.from].Term = m.term
      PROVE  m.index = Len(nw[m.from].log) /\ m.logTerm = lastTerm(nw[m.from].log)
  BY <1>2, StepRequests
<1> QED BY <1>1, <1>2 DEF KeyInvariant
----------------------------------------------------------------------------
(* A step keeps what was acknowledged *)

\* When a leader appends, the end of its log before was a key of its term too.
LEMMA LastIsLive ==
    ASSUME NEW nd, NEW dk, NEW nt, NEW nw, NEW i \in Server, NEW N,
           Stepped(nd, dk, nt, nw, i, N), NEW a \in LiveKeys(nw, dk, nt), Appended(a, nd, nw, i),
           nd[i].state = "StateLeader"
    PROVE  [at |-> Len(nd[i].log), term |-> a.term, owner |-> i] \in LiveKeys(nd, dk, nt)
<1> DEFINE r == nd[i]
           e == [at |-> Len(r.log), term |-> a.term, owner |-> i]
<1>0. Group(nd, dk, nt) /\ Group(nw, dk, nt) /\ ClusterInvariant(nd, dk, nt)
  BY DEF Stepped, CommitInvariant
<1>1. /\ a \in Key /\ a.at \in Nat \ {0} /\ a.term \in Nat /\ ~Missed(a, nw, dk, nt)
  BY <1>0, LiveIs
<1>2. /\ a.owner = i /\ a.term = nw[i].Term /\ nw[i].state = "StateLeader" /\ a.at > Len(r.log)
  BY DEF Appended
<1>3. nw[i].Term = r.Term BY <1>2, LeaderIs
<1>4. Has(r.log, Len(r.log), r.Term)
  BY DEF Stepped, CommitInvariant, OrderInvariant, LeaderKnows
<1>5. Len(r.log) \in Nat \ {0} BY <1>4, SteppedTypes DEF Has
<1>6. e \in Key BY <1>1, <1>5 DEF Key
<1>7. e.at = Len(r.log) /\ e.term = a.term /\ e.owner = i OBVIOUS
<1>8. e \in Keys(Links(nd, dk, nt))
  <2>1. PICK x \in LogLinks(r.log) : x.at = Len(r.log) /\ x.entry.term = r.Term
    BY <1>4, SteppedTypes, HasLink
  <2>2. x \in Links(nd, dk, nt) BY <2>1, LinksOfLogs
  <2> HIDE DEF e
  <2> QED BY <1>2, <1>3, <1>6, <1>7, <2>1, <2>2, LinkKey
<1>9. Won(i, a.term, nd, dk, nt) BY <1>0, <1>2, <1>3 DEF ClusterInvariant, LinkInvariant
<1>10. ~Missed(e, nd, dk, nt)
  <2> SUFFICES ASSUME Missed(e, nd, dk, nt) PROVE FALSE OBVIOUS
  <2>1. Missed(e, nw, dk, nt) BY <1>6, StepMissed
  <2>2. PICK Q \in SUBSET Server :
          /\ IsQuorum(Q, Server)
          /\ \A j \in Q : dk[j].hs.Term > e.term /\ ~Holds(j, e, Underway(nw, nt))
    BY <2>1 DEF Missed
  <2>3. ASSUME NEW j \in Q PROVE dk[j].hs.Term > a.term /\ ~Holds(j, a, Underway(nw, nt))
    <3>1. dk[j].hs.Term > a.term /\ j # i /\ ~Acked(Underway(nw, nt), j, e)
      BY <1>7, <2>2 DEF Holds
    <3>2. ASSUME NEW m \in Underway(nw, nt), Acknowledges(m), m.from = j, m.term = a.term,
                 m.index >= a.at
          PROVE  FALSE
      <4>1. m \in Message BY SteppedMessages
      <4>2. m.index \in Nat BY <4>1 DEF Message
      <4>3. m.index >= Len(r.log) BY <1>1, <1>2, <1>5, <3>2, <4>2
      <4> QED BY <1>7, <3>1, <3>2, <4>3 DEF Acked
    <3>3. ~Acked(Underway(nw, nt), j, a) BY <3>2 DEF Acked
    <3> QED BY <1>2, <3>1, <3>3 DEF Holds
  <2> QED BY <1>1, <2>2, <2>3 DEF Missed
<1> QED BY <1>7, <1>8, <1>9, <1>10 DEF LiveKeys

\* What was acknowledged when a leader appends is on the log it has appended to.
LEMMA AppendedBehind ==
    ASSUME NEW nd, NEW dk, NEW nt, NEW nw, NEW i \in Server, NEW N,
           Stepped(nd, dk, nt, nw, i, N), NEW a \in LiveKeys(nw, dk, nt), Appended(a, nd, nw, i),
           NEW m \in Underway(nd, nt), Acknowledges(m), a.term <= m.term,
           NEW log \in Seq(Entry), NEW t, Backs(m, log, t, nd, dk, nt)
    PROVE  /\ m.index \in Nat /\ m.index <= Len(nd[i].log) /\ m.index <= a.at
           /\ \/ m.index = 0
              \/ /\ m.term = a.term /\ nd[i].state = "StateLeader"
                 /\ Agree(log, nd[i].log, m.index)
<1> DEFINE r == nd[i]
           e == [at |-> Len(r.log), term |-> a.term, owner |-> i]
<1>0. Group(nd, dk, nt) BY DEF Stepped
<1>1. Group(nw, dk, nt) BY DEF Stepped
<1>2. a.at \in Nat \ {0} /\ a.term \in Nat BY <1>1, LiveIs
<1>3. m \in Message BY SteppedMessages
<1>4. m.index \in Nat /\ m.term \in Nat /\ Len(r.log) \in Nat BY <1>3, SteppedTypes DEF Message
<1>5. a.term = nw[i].Term /\ nw[i].state = "StateLeader" /\ a.at > Len(r.log) BY DEF Appended
<1>6. CASE m.index = 0 BY <1>2, <1>4, <1>6
<1>7. CASE m.index # 0
  <2>1. OfTerm(m, nd, dk, nt) BY DEF Stepped, CommitInvariant, OrderInvariant
  <2>2. m.index > 0 BY <1>4, <1>7
  <2>3. PICK l \in Server : Won(l, m.term, nd, dk, nt) BY <2>1, <2>2 DEF OfTerm
  <2>4. Won(l, m.term, nw, dk, nt) BY <1>4, <2>3 DEF Stepped
  <2>5. ~(m.term > a.term) BY <1>4, <2>4, NoneLater
  <2>6. m.term = a.term BY <1>2, <1>4, <2>5
  <2>7. m.index <= Len(r.log) BY <1>5, <2>6, LeaderTerm
  <2>8. r.state = "StateLeader"
    <3>1. r.state \in {"StateLeader", "StateCandidate"} BY <1>5, LeaderIs
    <3>2. r.state # "StateCandidate" BY <1>5, <2>3, <2>6, NotWonYet
    <3> QED BY <3>1, <3>2
  <2>9. e \in LiveKeys(nd, dk, nt) BY <2>8, LastIsLive
  <2>10. e.at = Len(r.log) /\ e.term = a.term /\ e.owner = i OBVIOUS
  <2>11. Copies(log, m.index, e, r.log)
    <3> HIDE DEF e
    <3>1. e.term <= m.term BY <2>10
    <3> QED BY <2>9, <2>10, <3>1 DEF Backs
  <2>12. Least(m.index, Len(r.log)) = m.index BY <1>4, <2>7, LeastIs
  <2>13. Agree(log, r.log, m.index) BY <2>10, <2>11, <2>12 DEF Copies
  <2>14. m.index <= a.at BY <1>2, <1>4, <1>5, <2>7
  <2> QED BY <1>4, <2>6, <2>7, <2>8, <2>13, <2>14
<1> QED BY <1>6, <1>7

\* What a log had of what was acknowledged is what the owners have after the
\* step, provided that the log has kept it.
LEMMA StepBacks ==
    ASSUME NEW nd, NEW dk, NEW nt, NEW nw, NEW i \in Server, NEW N,
           Stepped(nd, dk, nt, nw, i, N), NEW m \in Underway(nd, nt), Acknowledges(m),
           NEW log \in Seq(Entry), NEW t, Backs(m, log, t, nd, dk, nt),
           NEW more \in Seq(Entry),
           more = log \/ (m.from = i /\ log = nd[i].log /\ more = nw[i].log),
           NEW a \in LiveKeys(nw, dk, nt), a.term <= m.term,
           m.term <= nw[m.from].Term
    PROVE  Copies(more, m.index, a, nw[a.owner].log)
<1>0. Group(nd, dk, nt) /\ Group(nw, dk, nt) BY DEF Stepped
<1>1. a \in Key /\ a.at \in Nat \ {0} /\ a.term \in Nat /\ a.owner \in Server BY <1>0, LiveIs
<1>2. m \in Message BY SteppedMessages
<1>3. m.index \in Nat /\ m.term \in Nat /\ m.from \in Server BY <1>2 DEF Message
<1>4. nw[m.from].Term \in Nat /\ nw[i].log \in Seq(Entry) /\ nd[i].log \in Seq(Entry)
  BY <1>0, <1>3, GroupLogs
<1>5. a.term <= nw[m.from].Term BY <1>1, <1>3, <1>4
<1>6. CASE a \in LiveKeys(nd, dk, nt)
  <2> DEFINE n == Least(m.index, a.at)
  <2>1. Agree(log, nd[a.owner].log, n) BY <1>6 DEF Backs, Copies
  <2>2. n \in Nat /\ n <= a.at BY <1>1, <1>3, LeastIs
  <2> HIDE DEF n
  <2>3. Agree(more, nd[a.owner].log, n)
    <3>1. CASE more = log BY <2>1, <3>1
    <3>2. CASE m.from = i /\ log = nd[i].log /\ more = nw[i].log
      BY <1>5, <1>6, <2>1, <2>2, <3>2, LogKeeps
    <3> QED BY <3>1, <3>2
  <2>4. Copies(more, m.index, a, nd[a.owner].log) BY <2>3 DEF Copies, n
  <2>5. /\ Agree(nd[a.owner].log, nw[a.owner].log, a.at)
        /\ nd[a.owner].log \in Seq(Entry) /\ nw[a.owner].log \in Seq(Entry)
    BY <1>6, StepOwner
  <2> QED BY <1>1, <1>3, <2>4, <2>5, CopiesOn
<1>7. CASE Appended(a, nd, nw, i)
  <2>1. a.owner = i /\ nw[i].state = "StateLeader" BY <1>7 DEF Appended
  <2>2. /\ m.index <= Len(nd[i].log) /\ m.index <= a.at
        /\ m.index = 0 \/ Agree(log, nd[i].log, m.index)
    BY <1>7, AppendedBehind
  <2>3. Least(m.index, a.at) = m.index BY <1>1, <1>3, <2>2, LeastIs
  <2>4. Agree(nw[i].log, nd[i].log, Len(nd[i].log)) BY <2>1, LeaderLog
  <2>5. Agree(nw[i].log, nd[i].log, m.index)
    BY <1>3, <1>4, <2>2, <2>4, LenProperties, AgreeLess
  <2>6. Agree(more, nw[i].log, m.index)
    <3>1. CASE m.index = 0 BY <1>4, <3>1, AgreeNone
    <3>2. CASE more = log /\ m.index # 0
      <4>1. Agree(log, nd[i].log, m.index) BY <2>2, <3>2
      <4>2. Agree(nd[i].log, nw[i].log, m.index) BY <2>5, AgreeSym
      <4> QED BY <3>2, <4>1, <4>2, AgreeTrans
    <3>3. CASE more = nw[i].log
      <4>1. m.index <= Len(nw[i].log) BY <2>5 DEF Agree
      <4> QED BY <3>3, <4>1, AgreeSelf
    <3> QED BY <3>1, <3>2, <3>3
  <2> QED BY <2>1, <2>3, <2>6 DEF Copies
<1> QED BY <1>6, <1>7, StepLive

\* The log that took in a MsgApp is right as far as the MsgApp goes.
LEMMA TakenAgrees ==
    ASSUME NEW nd, NEW dk, NEW nt, NEW nw, NEW i \in Server, NEW N,
           Stepped(nd, dk, nt, nw, i, N), NEW v \in N, Taken(nd[i], nw[i], v),
           NEW a \in LiveKeys(nd, dk, nt), a.term <= nw[i].Term
    PROVE  Agree(nw[i].log, nd[a.owner].log, Least(v.index + Len(v.entries), a.at))
<1> DEFINE r == nd[i]
           s == nw[i]
           b == nd[a.owner].log
<1>0. Group(nd, dk, nt) /\ ClusterInvariant(nd, dk, nt) BY DEF Stepped, CommitInvariant
<1>1. a \in Key /\ a.owner \in Server BY <1>0, LiveIs
<1>2. v \in Underway(nd, nt) /\ v \in Message BY SteppedMessages
<1>3. /\ v.type = "MsgApp" /\ v.term = s.Term /\ s.state = "StateFollower"
      /\ matchTerm(r.log, v.index, v.logTerm) /\ s.log = Spliced(r.log, v)
  BY DEF Taken
<1>4. Placed(a, nd, dk, nt) BY DEF Stepped, CommitInvariant, KeyInvariant
<1>5. Respects(v, a, b) /\ Complete(r.log, a) /\ Has(b, a.at, a.term)
  BY <1>2, <1>3, <1>4 DEF Placed
<1>6. r.log \in Seq(Entry) /\ b \in Seq(Entry) /\ Matched(r.log, b)
  BY <1>0, <1>1, GroupLogs, GroupMatched DEF ClusterInvariant
<1>7. Matched(s.log, b)
  <2>1. LogLinks(s.log) \subseteq Links(nw, dk, nt) BY LinksOfLogs
  <2>2. LogLinks(s.log) \subseteq Links(nd, dk, nt) BY <1>3, <2>1 DEF Stepped
  <2>3. LogLinks(b) \subseteq Links(nd, dk, nt) BY <1>1, LinksOfLogs
  <2>4. \A x, y \in Links(nd, dk, nt) : x.at = y.at /\ x.entry.term = y.entry.term => x = y
    BY <1>0 DEF ClusterInvariant, LinkInvariant
  <2> QED BY <2>2, <2>3, <2>4 DEF Matched
<1> HIDE DEF b, r, s
<1>8. Matched(Spliced(r.log, v), b) BY <1>3, <1>7
<1>9. Agree(Spliced(r.log, v), b, Least(v.index + Len(v.entries), a.at))
  BY <1>1, <1>2, <1>3, <1>5, <1>6, <1>8, SpliceFollows
<1> QED BY <1>3, <1>9 DEF s, b

\* What the step acknowledges is on the log: of a leader all that is live, of a
\* follower what it has committed or was just told.
LEMMA StepSaid ==
    ASSUME NEW nd, NEW dk, NEW nt, NEW nw, NEW i \in Server, NEW N,
           Stepped(nd, dk, nt, nw, i, N), NEW m \in Message, Said(m, nd[i], nw[i], N),
           Acknowledges(m), NEW a \in LiveKeys(nw, dk, nt), a.term <= nw[i].Term
    PROVE  Copies(nw[i].log, m.index, a, nw[a.owner].log)
<1> DEFINE r == nd[i]
           s == nw[i]
<1>0. /\ Group(nd, dk, nt) /\ Group(nw, dk, nt) /\ CommitInvariant(nd, dk, nt)
      /\ ClusterInvariant(nd, dk, nt) /\ ClusterInvariant(nw, dk, nt)
  BY DEF Stepped, CommitInvariant
<1>1. a \in Key /\ a.at \in Nat \ {0} /\ a.term \in Nat /\ a.owner \in Server BY <1>0, LiveIs
<1>2. /\ s.log \in Seq(Entry) /\ r.log \in Seq(Entry) /\ nw[a.owner].log \in Seq(Entry)
      /\ s.id = i /\ s.committed \in Nat /\ r.committed \in Nat
  BY <1>0, <1>1, GroupLogs, SteppedTypes
<1>3. m.index \in Nat BY DEF Message
<1>4. AckFits(m, r, s, N) BY DEF Said, Fitting
<1>5. CASE m.index = 0
  <2>1. Least(m.index, a.at) = 0 BY <1>1, <1>5, LeastIs
  <2> QED BY <1>2, <2>1, AgreeNone DEF Copies
<1>6. CASE s.state = "StateLeader" /\ m.index = Len(s.log)
  <2>1. Has(s.log, a.at, a.term) BY <1>6, StepLeaders
  <2>2. Has(nw[a.owner].log, a.at, a.term) BY StepOwnerHas
  <2>3. Matched(s.log, nw[a.owner].log) BY <1>0, <1>1, GroupMatched DEF ClusterInvariant
  <2>4. Agree(s.log, nw[a.owner].log, a.at) BY <1>2, <2>1, <2>2, <2>3, HasAgree
  <2>5. a.at <= Len(s.log) BY <2>1 DEF Has
  <2>6. a.at <= m.index BY <1>6, <2>5
  <2>7. Least(m.index, a.at) = a.at BY <1>1, <1>3, <2>6, LeastIs
  <2> QED BY <2>4, <2>7 DEF Copies
<1>7. ASSUME s.state = "StateFollower", NEW v \in N, v.type = "MsgApp", v.term = s.Term,
             \/ m.index <= r.committed
             \/ Taken(r, s, v) /\ m.index = v.index + Len(v.entries)
      PROVE  Copies(s.log, m.index, a, nw[a.owner].log)
  <2> DEFINE b == nd[a.owner].log
             n == Least(m.index, a.at)
  <2>1. a \in LiveKeys(nd, dk, nt) BY <1>7, StepLive DEF Appended
  <2>2. n \in Nat /\ n <= a.at /\ n <= m.index BY <1>1, <1>3, LeastIs
  <2>3. b \in Seq(Entry) /\ Agree(b, nw[a.owner].log, a.at) BY <2>1, StepOwner
  <2> HIDE DEF n
  <2>5. CASE m.index <= r.committed
    <3>1. Sealed(r.log, r.committed, r.Term, nd, dk, nt)
      BY <1>0 DEF CommitInvariant, SealInvariant
    <3>2. CASE r.committed = 0
      <4>1. n = 0 BY <1>3, <2>2, <2>5, <3>2
      <4>2. Agree(s.log, nw[a.owner].log, n) BY <1>2, <4>1, AgreeNone
      <4> QED BY <4>2 DEF Copies, n
    <3>3. CASE r.committed # 0
      <4>1. PICK c \in LiveKeys(nd, dk, nt) :
              c.at >= r.committed /\ Agree(r.log, nd[c.owner].log, r.committed)
        BY <3>1, <3>3 DEF Sealed
      <4>2. c.at \in Nat /\ c.owner \in Server BY <1>0, LiveIs
      <4>3. nd[c.owner].log \in Seq(Entry) BY <1>0, <4>2, GroupLogs
      <4>4. n <= r.committed /\ n <= c.at BY <1>2, <1>3, <2>2, <2>5, <4>1, <4>2
      <4>5. Agree(r.log, nd[c.owner].log, n)
        BY <1>2, <2>2, <4>1, <4>3, <4>4, AgreeLess
      <4>6. Agree(b, nd[c.owner].log, Least(a.at, c.at)) BY <1>0, <2>1, LiveKeysAgree
      <4>7. n <= Least(a.at, c.at) /\ Least(a.at, c.at) \in Nat
        BY <1>1, <2>2, <4>2, <4>4, LeastIs
      <4>8. Agree(b, nd[c.owner].log, n) BY <2>2, <2>3, <4>3, <4>6, <4>7, AgreeLess
      <4>9. Agree(r.log, b, n) BY <4>5, <4>8, AgreeSym, AgreeTrans
      <4>10. Agree(s.log, b, n) BY <2>1, <2>2, <4>9, LogKeeps
      <4>11. Copies(s.log, m.index, a, b) BY <4>10 DEF Copies, n
      <4> QED BY <1>1, <1>2, <1>3, <2>3, <4>11, CopiesOn
    <3> QED BY <3>2, <3>3
  <2>6. CASE Taken(r, s, v) /\ m.index = v.index + Len(v.entries)
    <3>1. Agree(s.log, b, Least(v.index + Len(v.entries), a.at)) BY <2>1, <2>6, TakenAgrees
    <3>2. Copies(s.log, m.index, a, b) BY <2>6, <3>1 DEF Copies
    <3> QED BY <1>1, <1>2, <1>3, <2>3, <3>2, CopiesOn
  <2> QED BY <1>7, <2>5, <2>6
<1> QED BY <1>4, <1>5, <1>6, <1>7 DEF AckFits

LEMMA StepAcks ==
    ASSUME NEW nd, NEW dk, NEW nt, NEW nw, NEW i \in Server, NEW N,
           Stepped(nd, dk, nt, nw, i, N)
    PROVE  AckInvariant(nw, dk, nt)
<1>0. /\ Group(nd, dk, nt) /\ Group(nw, dk, nt) /\ AckInvariant(nd, dk, nt)
  BY DEF Stepped, CommitInvariant
<1>1. nd[i].Term \in Nat /\ nw[i].Term \in Nat /\ nd[i].Term <= nw[i].Term /\ nw[i].id = i
  BY SteppedTypes
<1>2. \A j \in Server : nw[j] = nd[j] \/ j = i BY DEF Stepped
<1>3. ASSUME NEW m \in Underway(nd, nt), Acknowledges(m)
      PROVE  /\ Backs(m, nd[m.from].log, nd[m.from].Term, nd, dk, nt)
             /\ m.from \in Server /\ m.term \in Nat /\ m.term <= nw[m.from].Term
  <2>1. m \in Message BY SteppedMessages
  <2>2. m.from \in Server /\ m.term \in Nat BY <2>1 DEF Message
  <2>3. Backs(m, nd[m.from].log, nd[m.from].Term, nd, dk, nt) BY <1>0 DEF AckInvariant
  <2>4. m.term <= nd[m.from].Term BY <1>3, <2>3 DEF Backs
  <2>5. m.term <= nw[m.from].Term
    <3>1. CASE nw[m.from] = nd[m.from] BY <2>4, <3>1
    <3>2. CASE m.from = i BY <1>1, <2>2, <2>4, <3>2
    <3> QED BY <1>2, <2>2, <3>1, <3>2
  <2> QED BY <2>2, <2>3, <2>5
<1>4. ASSUME NEW m \in Underway(nw, nt)
      PROVE  Backs(m, nw[m.from].log, nw[m.from].Term, nw, dk, nt)
  <2> SUFFICES ASSUME Acknowledges(m)
               PROVE  /\ m.term <= nw[m.from].Term
                      /\ \A a \in LiveKeys(nw, dk, nt) : a.term <= m.term =>
                           Copies(nw[m.from].log, m.index, a, nw[a.owner].log)
    BY DEF Backs
  <2>1. CASE m \in Underway(nd, nt)
    <3>1. /\ Backs(m, nd[m.from].log, nd[m.from].Term, nd, dk, nt)
          /\ m.from \in Server /\ m.term <= nw[m.from].Term
      BY <1>3, <2>1
    <3>2. nd[m.from].log \in Seq(Entry) /\ nw[m.from].log \in Seq(Entry)
      BY <1>0, <3>1, GroupLogs
    <3>3. \/ nw[m.from].log = nd[m.from].log
          \/ m.from = i /\ nd[m.from].log = nd[i].log /\ nw[m.from].log = nw[i].log
      BY <1>2, <3>1
    <3>4. \A a \in LiveKeys(nw, dk, nt) : a.term <= m.term =>
            Copies(nw[m.from].log, m.index, a, nw[a.owner].log)
      BY <2>1, <3>1, <3>2, <3>3, StepBacks
    <3> QED BY <3>1, <3>4
  <2>2. CASE m \notin Underway(nd, nt)
    <3>1. Said(m, nd[i], nw[i], N) /\ m \in Message BY <2>2, SteppedMessages
    <3>2. m.from = i /\ m.term = nw[i].Term BY <1>1, <3>1 DEF Said
    <3>3. \A a \in LiveKeys(nw, dk, nt) : a.term <= nw[i].Term =>
            Copies(nw[i].log, m.index, a, nw[a.owner].log)
      BY <3>1, StepSaid
    <3> QED BY <1>1, <3>2, <3>3
  <2> QED BY <2>1, <2>2
<1>5. ASSUME NEW m \in Handed(nw, nt)
      PROVE  Backs(m, dk[m.from].log, dk[m.from].hs.Term, nw, dk, nt)
  <2> SUFFICES ASSUME Acknowledges(m)
               PROVE  /\ m.term <= dk[m.from].hs.Term
                      /\ \A a \in LiveKeys(nw, dk, nt) : a.term <= m.term =>
                           Copies(dk[m.from].log, m.index, a, nw[a.owner].log)
    BY DEF Backs
  <2>1. m \in Handed(nd, nt) BY SteppedMessages
  <2>2. m \in Underway(nd, nt) BY <2>1 DEF Handed, Underway
  <2>3. Backs(m, dk[m.from].log, dk[m.from].hs.Term, nd, dk, nt)
    BY <1>0, <2>1 DEF AckInvariant, Handed
  <2>4. m.from \in Server /\ m.term <= nw[m.from].Term BY <1>3, <2>2
  <2>5. dk[m.from].log \in Seq(Entry) BY <1>0, <2>4, GroupLogs
  <2>6. \A a \in LiveKeys(nw, dk, nt) : a.term <= m.term =>
          Copies(dk[m.from].log, m.index, a, nw[a.owner].log)
    BY <2>2, <2>3, <2>4, <2>5, StepBacks
  <2> QED BY <2>3, <2>6 DEF Backs
<1> QED BY <1>4, <1>5 DEF AckInvariant, Handed
----------------------------------------------------------------------------
(* A step keeps the terms in order *)

\* A candidate that is beaten stays so.
LEMMA StepBeaten ==
    ASSUME NEW nd, NEW dk, NEW nt, NEW nw, NEW i \in Server, NEW N,
           Stepped(nd, dk, nt, nw, i, N), NEW k \in Server, NEW t \in Nat,
           Beaten(k, t, nd, dk, nt)
    PROVE  Beaten(k, t, nw, dk, nt)
<1>1. PICK Q \in SUBSET Server :
        /\ IsQuorum(Q, Server)
        /\ \A j \in Q : dk[j].hs.Term > t /\ ~Backed(Underway(nd, nt), j, k, t)
  BY DEF Beaten
<1>2. /\ nw[i].id = i /\ nw[i].Term \in Nat /\ dk[i].hs.Term \in Nat
      /\ dk[i].hs.Term <= nw[i].Term
  BY SteppedTypes
<1>3. ASSUME NEW j \in Q, NEW g \in Underway(nw, nt), Granted(g), g.from = j, g.term = t
      PROVE  g \in Underway(nd, nt)
  <2> SUFFICES ASSUME g \notin Underway(nd, nt) PROVE FALSE OBVIOUS
  <2>1. Said(g, nd[i], nw[i], N) BY SteppedMessages
  <2>2. j = i /\ t = nw[i].Term BY <1>2, <1>3, <2>1 DEF Said
  <2>3. dk[i].hs.Term > t BY <1>1, <2>2
  <2> QED BY <1>2, <2>2, <2>3
<1>4. \A j \in Q : ~Backed(Underway(nw, nt), j, k, t) BY <1>1, <1>3 DEF Backed
<1> QED BY <1>1, <1>4 DEF Beaten

\* Where a term is won a quorum has reached it, on disk.
LEMMA WonReached ==
    ASSUME NEW nd, NEW dk, NEW nt, Group(nd, dk, nt), ClusterInvariant(nd, dk, nt),
           NEW l \in Server, NEW t \in Nat, Won(l, t, nd, dk, nt)
    PROVE  \E Q \in SUBSET Server :
             IsQuorum(Q, Server) /\ \A j \in Q : t <= dk[j].hs.Term
<1>1. PICK Q \in SUBSET Server :
        IsQuorum(Q, Server) /\ \A j \in Q \ {l} : Backed(nt, j, l, t)
  BY DEF Won
<1>2. t <= dk[l].hs.Term BY DEF Won, Claims
<1>3. ASSUME NEW j \in Q \ {l} PROVE t <= dk[j].hs.Term
  <2>1. PICK g \in nt : Granted(g) /\ g.from = j /\ g.term = t BY <1>1 DEF Backed
  <2>2. g \in Underway(nd, nt) BY DEF Underway
  <2> QED BY <2>1, <2>2, GrantsBehind
<1> QED BY <1>1, <1>2, <1>3

\* Whoever stands for a term that its own log is beyond cannot win it.
LEMMA StandsBeaten ==
    ASSUME NEW nd, NEW dk, NEW nt, NEW nw, NEW i \in Server, NEW N,
           Stepped(nd, dk, nt, nw, i, N), nw[i].state = "StateCandidate",
           lastTerm(nw[i].log) > nw[i].Term
    PROVE  Beaten(i, nw[i].Term, nw, dk, nt)
<1> DEFINE r == nd[i]
           s == nw[i]
           u == lastTerm(s.log)
<1>0. Group(nd, dk, nt) /\ ClusterInvariant(nd, dk, nt) BY DEF Stepped, CommitInvariant
<1>1. /\ s.log \in Seq(Entry) /\ Len(s.log) \in Nat /\ s.id = i
      /\ r.Term \in Nat /\ s.Term \in Nat /\ dk[i].hs.Term \in Nat
      /\ r.Term <= s.Term /\ dk[i].hs.Term <= s.Term
  BY SteppedTypes
<1>2. s.log = r.log /\ (s.Term = r.Term => r.state = "StateCandidate") BY CandidateIs
<1>3. CASE s.Term = r.Term
  <2>1. Beaten(i, s.Term, nd, dk, nt)
    BY <1>2, <1>3 DEF Stepped, CommitInvariant, OrderInvariant
  <2> QED BY <1>1, <2>1, StepBeaten
<1>4. CASE s.Term # r.Term
  <2>1. u > s.Term /\ r.Term < s.Term BY <1>1, <1>4
  <2>2. Len(s.log) # 0 BY <1>1, <2>1 DEF lastTerm, TermAt
  <2>3. Has(s.log, Len(s.log), u) BY <1>1, <2>2 DEF Has, lastTerm, TermAt
  <2>4. PICK x \in LogLinks(s.log) : x.entry.term = u BY <1>1, <2>3, HasLink
  <2>5. x \in Links(nd, dk, nt) BY <1>2, <2>4, LinksOfLogs
  <2>6. PICK l \in Server : Won(l, u, nd, dk, nt)
    BY <1>0, <2>4, <2>5 DEF ClusterInvariant, LinkInvariant
  <2>7. u \in Nat BY <1>0, <2>4, <2>5, LinkTypes
  <2>8. PICK Q \in SUBSET Server : IsQuorum(Q, Server) /\ \A j \in Q : u <= dk[j].hs.Term
    BY <1>0, <2>6, <2>7, WonReached
  <2> HIDE DEF u
  <2>9. \A j \in Q : dk[j].hs.Term > s.Term
    <3>1. \A j \in Server : dk[j].hs.Term \in Nat BY <1>0, GroupLogs
    <3> QED BY <1>1, <2>1, <2>7, <2>8, <3>1
  <2>10. ASSUME NEW j \in Q, NEW g \in Underway(nw, nt),
                Granted(g), g.from = j, g.to = i, g.term = s.Term
         PROVE  FALSE
    <3>1. j # i BY <1>1, <2>9
    <3>2. CASE g \in Underway(nd, nt)
      <4>1. g.term <= nd[g.to].Term BY <1>0, <2>10, <3>2, VotesBehind
      <4> QED BY <1>1, <2>1, <2>10, <4>1
    <3>3. CASE g \notin Underway(nd, nt)
      <4>1. Said(g, r, s, N) BY <3>3, SteppedMessages
      <4> QED BY <1>1, <2>10, <3>1, <4>1 DEF Said
    <3> QED BY <3>2, <3>3
  <2>11. \A j \in Q : ~Backed(Underway(nw, nt), j, i, s.Term) BY <2>10 DEF Backed
  <2> QED BY <2>8, <2>9, <2>11 DEF Beaten
<1> QED BY <1>3, <1>4

\* Entries and acknowledgements are those of a leader's term, the new ones too.
LEMMA StepOfTerm ==
    ASSUME NEW nd, NEW dk, NEW nt, NEW nw, NEW i \in Server, NEW N,
           Stepped(nd, dk, nt, nw, i, N), NEW m \in Underway(nw, nt)
    PROVE  OfTerm(m, nw, dk, nt)
<1> DEFINE s == nw[i]
<1>0. Group(nw, dk, nt) BY DEF Stepped
<1>1. m \in Message BY SteppedMessages
<1>2. m.term \in Nat /\ m.index \in Nat /\ m.entries \in Seq(Entry) BY <1>1 DEF Message
<1>3. ASSUME NEW t \in Nat, NEW l \in Server, Won(l, t, nd, dk, nt)
      PROVE  \E k \in Server : Won(k, t, nw, dk, nt)
  BY <1>3 DEF Stepped
<1>4. CASE m \in Underway(nd, nt)
  <2>1. OfTerm(m, nd, dk, nt) BY <1>4 DEF Stepped, CommitInvariant, OrderInvariant
  <2> QED BY <1>2, <1>3, <2>1 DEF OfTerm
<1>5. CASE m \notin Underway(nd, nt)
  <2>1. Said(m, nd[i], s, N) BY <1>5, SteppedMessages
  <2>2. s.state = "StateLeader" => s.Term > 0 /\ Won(i, s.Term, nw, dk, nt) BY LeaderIs
  <2>3. ASSUME m.type = "MsgApp"
        PROVE  /\ s.state = "StateLeader" /\ m.term = s.Term
               /\ \A c \in 1..Len(m.entries) : m.entries[c].term <= m.term
    <3>1. s.state = "StateLeader" /\ m.term = s.Term /\ Slice(m, s.log)
      BY <2>1, <2>3 DEF Said, Fitting, Proper
    <3>2. Has(s.log, Len(s.log), s.Term) BY <3>1, LeaderStillKnows DEF LeaderKnows
    <3>3. Sorted(s.log) BY <1>0, StepRise, GroupSorted
    <3>4. Len(s.log) \in Nat BY SteppedTypes
    <3> HIDE DEF s
    <3>5. ASSUME NEW c \in 1..Len(m.entries) PROVE m.entries[c].term <= m.term
      <4>1. m.index + Len(m.entries) <= Len(s.log) /\ m.entries[c] = s.log[m.index + c]
        BY <3>1 DEF Slice
      <4>2. Len(m.entries) \in Nat BY <1>2, LenProperties
      <4>3. m.index + c \in 1..Len(s.log) /\ Len(s.log) \in 1..Len(s.log)
        BY <1>2, <3>4, <4>1, <4>2
      <4>4. m.index + c <= Len(s.log) BY <4>3
      <4>5. s.log[m.index + c].term <= s.log[Len(s.log)].term BY <3>3, <4>3, <4>4 DEF Sorted
      <4> QED BY <3>1, <3>2, <4>1, <4>5 DEF Has
    <3> QED BY <3>1, <3>5
  <2>4. ASSUME Acknowledges(m), m.index > 0
        PROVE  m.term > 0 /\ \E k \in Server : Won(k, m.term, nw, dk, nt)
    <3>1. AckFits(m, nd[i], s, N) /\ m.index # 0 BY <2>1, <2>4 DEF Said, Fitting
    <3>2. m.term = s.Term BY <3>1 DEF AckFits
    <3>3. CASE s.state = "StateLeader" BY <2>2, <3>2, <3>3
    <3>4. CASE s.state # "StateLeader"
      <4>1. PICK v \in N : v.type = "MsgApp" /\ v.term = s.Term /\ v.term > 0
        BY <3>1, <3>4 DEF AckFits
      <4>2. v \in Underway(nd, nt) BY SteppedMessages
      <4>3. OfTerm(v, nd, dk, nt) BY <4>2 DEF Stepped, CommitInvariant, OrderInvariant
      <4>4. PICK l \in Server : Won(l, m.term, nd, dk, nt) BY <3>2, <4>1, <4>3 DEF OfTerm
      <4> QED BY <1>2, <1>3, <3>2, <4>1, <4>4
    <3> QED BY <3>3, <3>4
  <2> QED BY <2>2, <2>3, <2>4 DEF OfTerm
<1> QED BY <1>4, <1>5

LEMMA StepQueued ==
    ASSUME NEW nd, NEW dk, NEW nt, NEW nw, NEW i \in Server, NEW N,
           Stepped(nd, dk, nt, nw, i, N), NEW k \in Server
    PROVE  Queued(nw[k])
<1>1. Queued(nd[k]) BY DEF Stepped, CommitInvariant, OrderInvariant
<1>2. CASE k # i
  <2>1. nw[k] = nd[k] BY <1>2 DEF Stepped
  <2> QED BY <1>1, <2>1
<1>3. CASE k = i
  <2> DEFINE r == nd[i]
             s == nw[i]
  <2>1. Queued(r) BY <1>1, <1>3
  <2>2. r.id = i /\ s.id = i BY SteppedTypes
  <2>3. Range(s.steps) \subseteq Range(r.steps) BY DEF Stepped, Onward
  <2>4. \A w \in Boxes(s) : w \in Boxes(r) \/ Fitting(w, r, s, N) BY DEF Stepped, Mindful
  <2>5. \A w \in Withheld(s) : w \in Withheld(r) \/ w.type \in AfterAppendTypes
    BY DEF Stepped, Mindful
  <2> HIDE DEF r, s
  <2>6. \A m \in Withheld(s) \cup Range(s.steps) : m.type \in AfterAppendTypes
    BY <2>1, <2>3, <2>5 DEF Queued
  <2>7. \A m \in Boxes(s) \cup Range(s.steps) : Acknowledges(m) => m.from = s.id
    BY <2>1, <2>2, <2>3, <2>4 DEF Queued, Fitting, AckFits
  <2>8. Queued(s) BY <2>6, <2>7 DEF Queued
  <2> QED BY <1>3, <2>8 DEF s
<1> QED BY <1>2, <1>3

LEMMA StepOrder ==
    ASSUME NEW nd, NEW dk, NEW nt, NEW nw, NEW i \in Server, NEW N,
           Stepped(nd, dk, nt, nw, i, N)
    PROVE  OrderInvariant(nw, dk, nt)
<1>1. LinksRise(nw, dk, nt) BY StepRise
<1>2. ASSUME NEW k \in Server PROVE LeaderKnows(nw[k], Underway(nw, nt))
  <2>1. CASE nw[k].state # "StateLeader" BY <2>1 DEF LeaderKnows
  <2>2. CASE nw[k].state = "StateLeader" /\ k = i BY <2>2, LeaderStillKnows
  <2>3. CASE nw[k].state = "StateLeader" /\ k # i BY <2>3, OthersStillKnow
  <2> QED BY <2>1, <2>2, <2>3
<1>3. ASSUME NEW k \in Server, nw[k].state = "StateCandidate", lastTerm(nw[k].log) > nw[k].Term
      PROVE  Beaten(k, nw[k].Term, nw, dk, nt)
  <2>1. CASE k = i BY <1>3, <2>1, StandsBeaten
  <2>2. CASE k # i
    <3>1. nw[k] = nd[k] BY <2>2 DEF Stepped
    <3>2. Beaten(k, nw[k].Term, nd, dk, nt)
      BY <1>3, <3>1 DEF Stepped, CommitInvariant, OrderInvariant
    <3>3. nw[k].Term \in Nat BY GroupLogs DEF Stepped
    <3> QED BY <3>2, <3>3, StepBeaten
  <2> QED BY <2>1, <2>2
<1>4. \A m \in Underway(nw, nt) : OfTerm(m, nw, dk, nt) BY StepOfTerm
<1>5. \A k \in Server : Queued(nw[k]) BY StepQueued
<1> QED BY <1>1, <1>2, <1>3, <1>4, <1>5 DEF OrderInvariant
----------------------------------------------------------------------------
(* What a step commits was chosen *)

\* What leader i counts was acknowledged, and of its own it was written.
LEMMA StepCountedOthers ==
    ASSUME NEW nd, NEW dk, NEW nt, NEW nw, NEW i \in Server, NEW N,
           Stepped(nd, dk, nt, nw, i, N), NEW k \in Server, nw[k].state = "StateLeader",
           NEW j \in Server \ {k}, nw[k].prs[j].Match > 0
    PROVE  Acked(nt, j, [at |-> nw[k].prs[j].Match, term |-> nw[k].Term, owner |-> k])
<1>1. Counted(k, nd, dk, nt) BY DEF Stepped, CommitInvariant, SealInvariant
<1>2. CASE k # i
  <2>1. nw[k] = nd[k] BY <1>2 DEF Stepped
  <2> QED BY <1>1, <2>1 DEF Counted
<1>3. CASE k = i
  <2> DEFINE r == nd[i]
             s == nw[i]
             e == [at |-> s.prs[j].Match, term |-> s.Term, owner |-> i]
  <2>1. s.Term = r.Term /\ s.Term > 0 BY <1>3, LeaderIs
  <2>2. MatchFits(j, r, s, N) BY <1>3 DEF Stepped, Mindful
  <2>3. s.id = i /\ r.id = i BY SteppedTypes
  <2>4. CASE r.state = "StateLeader" /\ s.prs[j].Match = r.prs[j].Match
    BY <1>1, <1>3, <2>1, <2>4 DEF Counted
  <2>5. ASSUME NEW v \in N, Acknowledges(v), v.from = j, v.term \in {0, s.Term},
               v.index > 0, s.prs[j].Match = v.index
        PROVE  Acked(nt, j, e)
    <3>1. v \in Heard(nd, nt, i) /\ v \in Underway(nd, nt) BY SteppedMessages DEF Stepped
    <3>2. v \notin Range(r.steps)
      <4>1. Queued(r) BY DEF Stepped, CommitInvariant, OrderInvariant
      <4> HIDE DEF r, s
      <4>2. v \in Range(r.steps) => v.from = r.id BY <2>5, <4>1 DEF Queued
      <4> QED BY <1>3, <2>3, <2>5, <4>2
    <3>3. v \in nt BY <3>1, <3>2 DEF Heard
    <3>4. OfTerm(v, nd, dk, nt) BY <3>1 DEF Stepped, CommitInvariant, OrderInvariant
    <3>5. v.term > 0 BY <2>5, <3>4 DEF OfTerm
    <3>6. v \in Message BY <3>1, SteppedMessages
    <3>7. v.index \in Nat /\ v.index >= v.index BY <3>6 DEF Message
    <3>8. v.term = s.Term BY <2>5, <3>5
    <3>9. e.at = v.index /\ e.term = v.term BY <2>5, <3>8
    <3> HIDE DEF e, s, r
    <3> QED BY <2>5, <3>3, <3>7, <3>9 DEF Acked
  <2>6. CASE s.prs[j].Match = 0 BY <1>3, <2>6
  <2>7. j # i BY <1>3
  <2>8. Acked(nt, j, e) BY <1>3, <2>2, <2>3, <2>4, <2>5, <2>6, <2>7 DEF MatchFits
  <2> QED BY <1>3, <2>8
<1> QED BY <1>2, <1>3

LEMMA StepCountedOwn ==
    ASSUME NEW nd, NEW dk, NEW nt, NEW nw, NEW i \in Server, NEW N,
           Stepped(nd, dk, nt, nw, i, N), NEW k \in Server, nw[k].state = "StateLeader",
           NEW a \in LiveKeys(nw, dk, nt), a.term = nw[k].Term, a.at <= nw[k].prs[k].Match
    PROVE  Has(dk[k].log, a.at, a.term)
<1>0. Group(nd, dk, nt) /\ Group(nw, dk, nt) /\ ClusterInvariant(nw, dk, nt) BY DEF Stepped
<1>1. Counted(k, nd, dk, nt) BY DEF Stepped, CommitInvariant, SealInvariant
<1>2. a \in Key /\ a.at \in Nat \ {0} /\ a.term \in Nat /\ a.owner \in Server BY <1>0, LiveIs
<1>3. CASE k # i
  <2>1. nw[k] = nd[k] BY <1>3 DEF Stepped
  <2>2. ~Appended(a, nd, nw, i)
    <3>1. ASSUME Appended(a, nd, nw, i) PROVE FALSE
      <4>1. nw[i].state = "StateLeader" /\ nw[i].Term = nw[k].Term BY <3>1 DEF Appended
      <4> QED BY <1>0, <1>3, <4>1, OneLeads
    <3> QED BY <3>1
  <2>3. a \in LiveKeys(nd, dk, nt) BY <2>2, StepLive
  <2> QED BY <1>1, <2>1, <2>3 DEF Counted
<1>4. CASE k = i
  <2> DEFINE r == nd[i]
             s == nw[i]
  <2>1. s.Term = r.Term /\ s.state = "StateLeader" BY <1>4, LeaderIs
  <2>2. MatchFits(i, r, s, N) BY <1>4 DEF Stepped, Mindful
  <2>3. s.id = i /\ Len(r.log) \in Nat /\ dk[i].log \in Seq(Entry) BY <1>0, SteppedTypes, GroupLogs
  <2>4. r.prs[i].Match \in Nat /\ s.prs[i].Match \in Nat
    <3>1. \A q \in Node : q.prs[i].Match \in Nat BY DEF Node, Progress
    <3> QED BY <3>1, SteppedTypes
  <2>5. ASSUME r.state = "StateLeader", s.prs[i].Match = r.prs[i].Match
        PROVE  Has(dk[i].log, a.at, a.term)
    <3>1. r.prs[i].Match <= Len(r.log)
      BY <2>5 DEF Stepped, CommitInvariant, OrderInvariant, LeaderKnows
    <3>2. ~(a.at > Len(r.log)) BY <1>2, <1>4, <2>3, <2>4, <2>5, <3>1
    <3>3. a \in LiveKeys(nd, dk, nt) BY <3>2, StepLive DEF Appended
    <3> QED BY <1>1, <1>4, <2>1, <2>5, <3>3 DEF Counted
  <2>6. ASSUME NEW v \in N, Acknowledges(v), v.from = i, v.term \in {0, s.Term},
               v.index > 0, s.prs[i].Match = v.index
        PROVE  Has(dk[i].log, a.at, a.term)
    <3>0. v \in Heard(nd, nt, i) BY DEF Stepped
    <3>1. v \in Underway(nd, nt) /\ v \in Message BY SteppedMessages
    <3>2. v \in nt \/ v \in Range(nd[i].steps) BY <3>0 DEF Heard
    <3>3. Backs(v, dk[i].log, dk[i].hs.Term, nd, dk, nt)
      BY <2>6, <3>2 DEF Stepped, CommitInvariant, AckInvariant
    <3>4. OfTerm(v, nd, dk, nt) BY <3>1 DEF Stepped, CommitInvariant, OrderInvariant
    <3>5. v.term > 0 BY <2>6, <3>4 DEF OfTerm
    <3>6. v.index \in Nat /\ v.term \in Nat BY <3>1 DEF Message
    <3>7. v.term = s.Term BY <2>6, <3>5
    <3>8. a.term <= v.term /\ v.term <= nw[v.from].Term BY <1>2, <1>4, <2>6, <3>6, <3>7
    <3>9. Copies(dk[i].log, v.index, a, nw[a.owner].log)
      BY <2>3, <2>6, <3>1, <3>3, <3>8, StepBacks
    <3>10. a.at <= v.index BY <1>4, <2>6
    <3>11. Least(v.index, a.at) = a.at BY <1>2, <3>6, <3>10, LeastIs
    <3>12. Agree(nw[a.owner].log, dk[i].log, a.at) BY <3>9, <3>11, AgreeSym DEF Copies
    <3>13. Has(nw[a.owner].log, a.at, a.term) BY StepOwnerHas
    <3>14. nw[a.owner].log \in Seq(Entry) BY <1>0, <1>2, GroupLogs
    <3>15. a.at \in Nat /\ a.at <= a.at BY <1>2
    <3> QED BY <2>3, <3>12, <3>13, <3>14, <3>15, AgreeHas
  <2>7. ASSUME r.state = "StateCandidate", s.prs[i].Match = Len(r.log) PROVE FALSE
    <3>1. ~(a.at > Len(r.log)) BY <1>2, <1>4, <2>3, <2>7
    <3>2. a \in LiveKeys(nd, dk, nt) BY <3>1, StepLive DEF Appended
    <3>3. Won(a.owner, s.Term, nd, dk, nt) BY <1>0, <1>4, <3>2, LiveIs
    <3> QED BY <1>2, <2>1, <2>7, <3>3, NotWonYet
  <2>8. Has(dk[i].log, a.at, a.term) BY <2>2, <2>3, <2>5, <2>6, <2>7 DEF MatchFits
  <2> QED BY <1>4, <2>8
<1> QED BY <1>3, <1>4

LEMMA StepCounted ==
    ASSUME NEW nd, NEW dk, NEW nt, NEW nw, NEW i \in Server, NEW N,
           Stepped(nd, dk, nt, nw, i, N), NEW k \in Server
    PROVE  Counted(k, nw, dk, nt)
BY StepCountedOthers, StepCountedOwn DEF Counted

\* What a quorum may have been counted for, of a term that was won, is live.
LEMMA QuorumIsLive ==
    ASSUME NEW nd, NEW dk, NEW nt, Group(nd, dk, nt), NEW a \in Keys(Links(nd, dk, nt)),
           Won(a.owner, a.term, nd, dk, nt),
           NEW Q \in SUBSET Server, IsQuorum(Q, Server), \A j \in Q : Holds(j, a, nt)
    PROVE  a \in LiveKeys(nd, dk, nt)
<1>1. ASSUME Missed(a, nd, dk, nt) PROVE FALSE
  <2>1. PICK P \in SUBSET Server :
          IsQuorum(P, Server) /\ \A j \in P : ~Holds(j, a, Underway(nd, nt))
    BY <1>1 DEF Missed
  <2>2. PICK j \in Server : j \in P /\ j \in Q BY <2>1, QuorumsMeet
  <2>3. Holds(j, a, Underway(nd, nt)) BY <2>2 DEF Holds, Acked, Underway
  <2> QED BY <2>1, <2>2, <2>3
<1> QED BY <1>1 DEF LiveKeys

\* A leader commits an entry of its own term that a quorum acknowledged: it is
\* chosen, also where the leader does not count itself.
LEMMA LeaderCommits ==
    ASSUME NEW nd, NEW dk, NEW nt, NEW nw, NEW i \in Server, NEW N,
           Stepped(nd, dk, nt, nw, i, N), nw[i].state = "StateLeader",
           NEW c \in Nat \ {0}, Has(nw[i].log, c, nw[i].Term),
           IsQuorum({d \in Server : nw[i].prs[d].Match >= c}, Server)
    PROVE  Sealed(nw[i].log, c, nw[i].Term, nw, dk, nt)
<1> DEFINE s == nw[i]
           a == [at |-> c, term |-> s.Term, owner |-> i]
           Q == {d \in Server : s.prs[d].Match >= c}
<1>0. Group(nd, dk, nt) /\ Group(nw, dk, nt) BY DEF Stepped
<1>1. s.Term \in Nat /\ s.log \in Seq(Entry) /\ Len(s.log) \in Nat BY SteppedTypes
<1>2. a \in Key BY <1>1 DEF Key
<1>3. a.at = c /\ a.term = s.Term /\ a.owner = i OBVIOUS
<1>4. a \in Keys(Links(nw, dk, nt))
  <2>1. PICK x \in LogLinks(s.log) : x.at = c /\ x.entry.term = s.Term BY <1>1, HasLink
  <2>2. x \in Links(nw, dk, nt) BY <2>1, LinksOfLogs
  <2> HIDE DEF a
  <2> QED BY <1>2, <1>3, <2>1, <2>2, LinkKey
<1>5. Won(i, s.Term, nw, dk, nt) BY LeaderIs
<1>6. ASSUME NEW j \in Q, j # i PROVE Acked(nt, j, a)
  <2>1. s.prs[j].Match >= c /\ j \in Server \ {i} BY <1>6
  <2>2. s.prs[j].Match \in Nat
    <3>1. \A q \in Node : q.prs[j].Match \in Nat BY <2>1 DEF Node, Progress
    <3> QED BY <3>1, SteppedTypes
  <2>3. s.prs[j].Match > 0 BY <2>1, <2>2
  <2>4. PICK m \in nt : /\ Acknowledges(m) /\ m.from = j /\ m.term = s.Term
                        /\ m.index >= s.prs[j].Match
    <3>1. Acked(nt, j, [at |-> s.prs[j].Match, term |-> s.Term, owner |-> i])
      BY <2>1, <2>3, StepCountedOthers
    <3> QED BY <3>1 DEF Acked
  <2>5. m \in Message BY SteppedMessages
  <2>6. m.index \in Nat BY <2>5 DEF Message
  <2>7. m.index >= c BY <2>1, <2>2, <2>4, <2>6
  <2> QED BY <1>3, <2>4, <2>7 DEF Acked
<1>7. \A j \in Q : Holds(j, a, nt) BY <1>6, <1>3 DEF Holds
<1>8. IsQuorum(Q, Server) /\ Q \in SUBSET Server OBVIOUS
<1> HIDE DEF a, Q
<1>9. a \in LiveKeys(nw, dk, nt) BY <1>0, <1>3, <1>4, <1>5, <1>7, <1>8, QuorumIsLive
<1>10. Has(dk[i].log, c, s.Term)
  <2>1. CASE i \in Q
    <3>1. c <= s.prs[i].Match
      <4>1. s.prs[i].Match >= c BY <2>1 DEF Q
      <4>2. s.prs[i].Match \in Nat
        <5>1. \A q \in Node : q.prs[i].Match \in Nat BY DEF Node, Progress
        <5> QED BY <5>1, SteppedTypes
      <4> QED BY <4>1, <4>2
    <3>2. a.at <= nw[i].prs[i].Match /\ a.term = nw[i].Term BY <1>3, <3>1
    <3>3. Has(dk[i].log, a.at, a.term) BY <1>9, <3>2, StepCountedOwn
    <3> QED BY <1>3, <3>3
  <2>2. CASE i \notin Q
    <3>1. PICK j \in Server : j \in Q BY <1>8, QuorumsMeet
    <3>2. PICK m \in nt : Acknowledges(m) /\ m.from = j /\ m.term = a.term /\ m.index >= a.at
      BY <1>6, <2>2, <3>1 DEF Acked
    <3>3. m \in Message BY SteppedMessages
    <3>4. m.index \in Nat /\ m.term \in Nat BY <3>3 DEF Message
    <3>5. AckInvariant(nw, dk, nt) BY StepAcks
    <3>6. Backs(m, dk[j].log, dk[j].hs.Term, nw, dk, nt) BY <3>2, <3>5 DEF AckInvariant
    <3>7. Copies(dk[j].log, m.index, a, s.log)
      BY <1>3, <1>9, <3>2, <3>4, <3>6 DEF Backs
    <3>8. a.at <= m.index /\ a.at \in Nat BY <1>3, <3>2, <3>4
    <3>9. Least(m.index, a.at) = a.at BY <3>4, <3>8, LeastIs
    <3>10. Agree(s.log, dk[j].log, c) BY <1>3, <3>7, <3>9, AgreeSym DEF Copies
    <3>11. dk[j].log \in Seq(Entry) BY <1>0, GroupLogs
    <3>12. c \in Nat /\ c <= c OBVIOUS
    <3>13. Has(dk[j].log, c, s.Term) BY <1>1, <3>10, <3>11, <3>12, AgreeHas
    <3>14. PICK x \in LogLinks(dk[j].log) : x.at = c /\ x.entry.term = s.Term
      BY <3>11, <3>13, HasLink
    <3>15. x \in Elsewhere(i, nw, dk, nt) BY <3>14, ElsewhereIs
    <3>16. a \in Keys(Elsewhere(a.owner, nw, dk, nt)) BY <1>2, <1>3, <3>14, <3>15, LinkKey
    <3>17. Has(dk[a.owner].log, a.at, a.term) BY <1>9, <3>16, StepWritten
    <3> QED BY <1>3, <3>17
  <2> QED BY <2>1, <2>2
<1>11. Chosen(a, dk, nt) BY <1>3, <1>7, <1>8, <1>10 DEF Chosen
<1>12. c <= Len(s.log) BY DEF Has
<1>13. Agree(s.log, nw[a.owner].log, c) BY <1>3, <1>12, AgreeSelf
<1>14. a.at >= c /\ a.term <= s.Term BY <1>1, <1>3
<1> QED BY <1>9, <1>11, <1>13, <1>14 DEF Sealed

\* A follower commits what a MsgApp that it took in says was committed.
LEMMA FollowerCommits ==
    ASSUME NEW nd, NEW dk, NEW nt, NEW nw, NEW i \in Server, NEW N,
           Stepped(nd, dk, nt, nw, i, N), NEW v \in N, Taken(nd[i], nw[i], v),
           NEW c \in Nat, c <= v.commit, c <= v.index + Len(v.entries)
    PROVE  Sealed(nw[i].log, c, nw[i].Term, nw, dk, nt)
<1> DEFINE s == nw[i]
<1>0. Group(nd, dk, nt) /\ Group(nw, dk, nt) BY DEF Stepped
<1>1. s.Term \in Nat /\ s.log \in Seq(Entry) BY SteppedTypes
<1>2. v \in Underway(nd, nt) /\ v \in Message BY SteppedMessages
<1>3. v.type = "MsgApp" /\ v.term = s.Term BY DEF Taken
<1>4. v.commit \in Nat /\ v.index \in Nat /\ Len(v.entries) \in Nat
  BY <1>2, LenProperties DEF Message
<1>5. Told(v, nd, dk, nt) BY <1>2 DEF Stepped, CommitInvariant, SealInvariant
<1>6. Reached(v.commit, s.Term, nd, dk, nt) BY <1>3, <1>5 DEF Told
<1>7. Sealed(s.log, c, s.Term, nd, dk, nt)
  <2>1. CASE c = 0 BY <2>1 DEF Sealed
  <2>2. CASE c # 0
    <3>1. v.commit # 0 BY <1>4, <2>2
    <3>2. PICK a \in LiveKeys(nd, dk, nt) :
            a.at >= v.commit /\ a.term <= s.Term /\ Chosen(a, dk, nt)
      BY <1>6, <3>1 DEF Reached
    <3>3. a.at \in Nat /\ a.owner \in Server BY <1>0, LiveIs
    <3>4. nd[a.owner].log \in Seq(Entry) BY <1>0, <3>3, GroupLogs
    <3> DEFINE n == v.index + Len(v.entries)
    <3>5. Agree(s.log, nd[a.owner].log, Least(n, a.at)) BY <3>2, TakenAgrees
    <3>6. n \in Nat /\ c <= n BY <1>4
    <3>7. c <= a.at BY <1>4, <3>2, <3>3
    <3> HIDE DEF n, s
    <3>8. Least(n, a.at) \in Nat /\ c <= Least(n, a.at) BY <3>3, <3>6, <3>7, LeastIs
    <3>9. Agree(s.log, nd[a.owner].log, c) BY <1>1, <3>4, <3>5, <3>8, AgreeLess
    <3>10. a.at >= c BY <3>3, <3>7
    <3> QED BY <3>2, <3>9, <3>10 DEF Sealed
  <2> QED BY <2>1, <2>2
<1>8. s.Term <= s.Term BY <1>1
<1>9. ChosenStays(nd, dk, nt, nw, dk, nt) BY StepChosen
<1> HIDE DEF s
<1>10. Sealed(s.log, c, s.Term, nw, dk, nt) BY <1>0, <1>1, <1>7, <1>8, <1>9, SealedOn
<1> QED BY <1>10 DEF s

\* A heartbeat's commit index is within what its receiver acknowledged.
LEMMA HeartbeatCommits ==
    ASSUME NEW nd, NEW dk, NEW nt, NEW nw, NEW i \in Server, NEW N,
           Stepped(nd, dk, nt, nw, i, N), NEW v \in Underway(nd, nt), v.type = "MsgHeartbeat",
           v.to = i, v.term = nw[i].Term, nw[i].log = nd[i].log, v.commit > 0
    PROVE  Sealed(nw[i].log, v.commit, nw[i].Term, nw, dk, nt)
<1> DEFINE s == nw[i]
           c == v.commit
<1>0. Group(nd, dk, nt) /\ Group(nw, dk, nt) BY DEF Stepped
<1>1. s.Term \in Nat /\ s.log \in Seq(Entry) BY SteppedTypes
<1>2. v \in Message BY <1>0, UnderwayType
<1>3. c \in Nat /\ c # 0 BY <1>2 DEF Message
<1>4. Told(v, nd, dk, nt) BY <1>2 DEF Stepped, CommitInvariant, SealInvariant
<1>5. Reached(c, s.Term, nd, dk, nt) BY <1>4 DEF Told
<1>6. PICK m \in nt : Acknowledges(m) /\ m.from = i /\ m.term = s.Term /\ m.index >= c
  BY <1>4 DEF Told, Acked
<1>7. m \in Underway(nd, nt) /\ m \in Message BY SteppedMessages
<1>8. m.index \in Nat BY <1>7 DEF Message
<1>9. Backs(m, s.log, nd[i].Term, nd, dk, nt)
  BY <1>6, <1>7 DEF Stepped, CommitInvariant, AckInvariant
<1>10. PICK a \in LiveKeys(nd, dk, nt) :
         a.at >= c /\ a.term <= s.Term /\ Chosen(a, dk, nt)
  BY <1>3, <1>5 DEF Reached
<1>11. a.at \in Nat /\ a.owner \in Server BY <1>0, LiveIs
<1>12. nd[a.owner].log \in Seq(Entry) BY <1>0, <1>11, GroupLogs
<1>13. Agree(s.log, nd[a.owner].log, Least(m.index, a.at))
  BY <1>6, <1>9, <1>10 DEF Backs, Copies
<1> HIDE DEF c, s
<1>14. c <= m.index /\ c <= a.at BY <1>3, <1>6, <1>8, <1>10, <1>11
<1>15. Least(m.index, a.at) \in Nat /\ c <= Least(m.index, a.at) BY <1>8, <1>11, <1>14, LeastIs
<1>16. Agree(s.log, nd[a.owner].log, c) BY <1>1, <1>3, <1>12, <1>13, <1>15, AgreeLess
<1>17. Sealed(s.log, c, s.Term, nd, dk, nt) BY <1>10, <1>16 DEF Sealed
<1>18. s.Term <= s.Term BY <1>1
<1>19. ChosenStays(nd, dk, nt, nw, dk, nt) BY StepChosen
<1>20. Sealed(s.log, c, s.Term, nw, dk, nt) BY <1>0, <1>1, <1>3, <1>17, <1>18, <1>19, SealedOn
<1> QED BY <1>20 DEF s, c

LEMMA StepCommits ==
    ASSUME NEW nd, NEW dk, NEW nt, NEW nw, NEW i \in Server, NEW N,
           Stepped(nd, dk, nt, nw, i, N)
    PROVE  /\ nd[i].committed <= nw[i].committed
           /\ Sealed(nw[i].log, nw[i].committed, nw[i].Term, nw, dk, nt)
<1> DEFINE r == nd[i]
           s == nw[i]
<1>1. r.committed \in Nat /\ s.committed \in Nat /\ s.id = i /\ s.voters = Server BY SteppedTypes
<1>0. N \subseteq Underway(nd, nt) BY SteppedMessages
<1>2. CASE s.committed = r.committed
  <2>1. Sealed(r.log, r.committed, r.Term, nd, dk, nt)
    BY DEF Stepped, CommitInvariant, SealInvariant
  <2>2. Sealed(s.log, r.committed, s.Term, nw, dk, nt) BY <1>1, <2>1, StepSealed
  <2> QED BY <1>1, <1>2, <2>2
<1>3. CASE s.committed # r.committed
  <2>1. s.committed > r.committed /\ CommitFits(r, s, N) BY <1>3 DEF Stepped, Mindful
  <2>2. s.committed \in Nat \ {0} BY <1>1, <2>1
  <2>3. CASE /\ s.state = "StateLeader" /\ Has(s.log, s.committed, s.Term)
             /\ IsQuorum({d \in Server : s.prs[d].Match >= s.committed}, Server)
    BY <1>1, <2>1, <2>2, <2>3, LeaderCommits
  <2>4. ASSUME NEW v \in N, Taken(r, s, v), s.committed <= v.commit,
               s.committed <= v.index + Len(v.entries)
        PROVE  Sealed(s.log, s.committed, s.Term, nw, dk, nt)
    BY <1>1, <2>4, FollowerCommits
  <2>5. ASSUME NEW v \in N, v.type = "MsgHeartbeat", v.to = i, v.term = s.Term,
               s.log = r.log, s.committed = v.commit
        PROVE  Sealed(s.log, s.committed, s.Term, nw, dk, nt)
    <3>1. v.commit > 0 /\ v \in Underway(nd, nt) BY <1>0, <2>2, <2>5
    <3> QED BY <2>5, <3>1, HeartbeatCommits
  <2> DEFINE X == {d \in s.voters : s.prs[d].Match >= s.committed}
             Y == {d \in Server : s.prs[d].Match >= s.committed}
  <2>8. X = Y BY <1>1
  <2>9. ASSUME s.state = "StateLeader", Has(s.log, s.committed, s.Term), IsQuorum(X, s.voters)
        PROVE  Sealed(s.log, s.committed, s.Term, nw, dk, nt)
    <3> HIDE DEF X, Y
    <3>1. IsQuorum(Y, Server) BY <1>1, <2>8, <2>9
    <3> QED BY <2>3, <2>9, <3>1 DEF Y
  <2>10. \/ s.state = "StateLeader" /\ Has(s.log, s.committed, s.Term) /\ IsQuorum(X, s.voters)
         \/ \E v \in N : /\ Taken(r, s, v) /\ s.committed <= v.commit
                         /\ s.committed <= v.index + Len(v.entries)
         \/ \E v \in N : /\ v.type = "MsgHeartbeat" /\ v.to = s.id /\ v.term = s.Term
                         /\ s.log = r.log /\ s.committed = v.commit
    BY <2>1 DEF CommitFits
  <2> HIDE DEF r, s, X
  <2>6. Sealed(s.log, s.committed, s.Term, nw, dk, nt)
    BY <1>1, <2>4, <2>5, <2>9, <2>10
  <2>7. r.committed <= s.committed BY <1>1, <2>1
  <2> QED BY <2>6, <2>7 DEF r, s
<1> QED BY <1>2, <1>3

LEMMA ReachedLess ==
    ASSUME NEW nd, NEW dk, NEW nt, Group(nd, dk, nt), NEW c \in Nat, NEW k \in Nat, k <= c,
           NEW t, Reached(c, t, nd, dk, nt)
    PROVE  Reached(k, t, nd, dk, nt)
<1>1. CASE k = 0 BY <1>1 DEF Reached
<1>2. CASE k # 0
  <2>1. c # 0 BY <1>2
  <2>2. PICK a \in LiveKeys(nd, dk, nt) : a.at >= c /\ a.term <= t /\ Chosen(a, dk, nt)
    BY <2>1 DEF Reached
  <2>3. a.at \in Nat BY LiveIs
  <2>4. a.at >= k BY <2>2, <2>3
  <2> QED BY <2>2, <2>4 DEF Reached
<1> QED BY <1>1, <1>2

\* What a leader tells of its commit index is what it has committed, and for a
\* heartbeat what the receiver acknowledged.
LEMMA StepTold ==
    ASSUME NEW nd, NEW dk, NEW nt, NEW nw, NEW i \in Server, NEW N,
           Stepped(nd, dk, nt, nw, i, N), NEW m \in Underway(nw, nt)
    PROVE  Told(m, nw, dk, nt)
<1> DEFINE s == nw[i]
<1>0. Group(nd, dk, nt) /\ Group(nw, dk, nt) BY DEF Stepped
<1>1. m \in Message BY SteppedMessages
<1>2. m.commit \in Nat /\ m.term \in Nat BY <1>1 DEF Message
<1>3. CASE m \in Underway(nd, nt)
  <2>1. Told(m, nd, dk, nt) BY <1>3 DEF Stepped, CommitInvariant, SealInvariant
  <2>2. ChosenStays(nd, dk, nt, nw, dk, nt) BY StepChosen
  <2>3. m.term <= m.term BY <1>2
  <2>4. Reached(m.commit, m.term, nd, dk, nt) => Reached(m.commit, m.term, nw, dk, nt)
    BY <1>0, <1>2, <2>2, <2>3, ReachedOn
  <2> QED BY <2>1, <2>4 DEF Told
<1>4. CASE m \notin Underway(nd, nt)
  <2>1. Proper(m, s) BY <1>4, SteppedMessages DEF Said, Fitting
  <2>2. s.committed \in Nat /\ s.id = i BY SteppedTypes
  <2>3. Sealed(s.log, s.committed, s.Term, nw, dk, nt) BY StepCommits
  <2>4. Reached(s.committed, s.Term, nw, dk, nt) BY <2>3, SealedReached
  <2>5. CASE m.type = "MsgApp"
    <3>1. m.term = s.Term /\ m.commit <= s.committed BY <2>1, <2>5 DEF Proper
    <3>2. Reached(m.commit, m.term, nw, dk, nt) BY <1>0, <1>2, <2>2, <2>4, <3>1, ReachedLess
    <3> QED BY <2>5, <3>2 DEF Told
  <2>6. CASE m.type = "MsgHeartbeat"
    <3>1. /\ s.state = "StateLeader" /\ m.term = s.Term /\ m.from = i /\ m.to \in Server \ {i}
          /\ m.commit = Least(s.prs[m.to].Match, s.committed)
      BY <2>1, <2>2, <2>6 DEF Proper
    <3>2. s.prs[m.to].Match \in Nat
      <4>1. \A q \in Node : q.prs[m.to].Match \in Nat BY <3>1 DEF Node, Progress
      <4> QED BY <4>1, SteppedTypes
    <3>3. m.commit <= s.committed /\ m.commit <= s.prs[m.to].Match
      <4> DEFINE n == s.prs[m.to].Match
      <4>1. n \in Nat /\ s.committed \in Nat /\ m.commit = Least(n, s.committed)
        BY <2>2, <3>1, <3>2
      <4> HIDE DEF n, s
      <4>2. m.commit <= s.committed /\ m.commit <= n BY <4>1, LeastIs
      <4> QED BY <4>2 DEF n
    <3>4. Reached(m.commit, m.term, nw, dk, nt) BY <1>0, <1>2, <2>2, <2>4, <3>1, <3>3, ReachedLess
    <3>5. ASSUME m.commit > 0
          PROVE  Acked(nt, m.to, [at |-> m.commit, term |-> m.term, owner |-> m.from])
      <4>1. s.prs[m.to].Match > 0 BY <1>2, <3>2, <3>3, <3>5
      <4>2. PICK w \in nt : /\ Acknowledges(w) /\ w.from = m.to /\ w.term = s.Term
                            /\ w.index >= s.prs[m.to].Match
        BY <3>1, <4>1, StepCountedOthers DEF Acked
      <4>3. w \in Message BY SteppedMessages
      <4>4. w.index \in Nat BY <4>3 DEF Message
      <4>5. w.index >= m.commit BY <1>2, <3>2, <3>3, <4>2, <4>4
      <4> QED BY <3>1, <4>2, <4>5 DEF Acked
    <3> QED BY <2>6, <3>4, <3>5 DEF Told
  <2>7. CASE m.type \notin {"MsgApp", "MsgHeartbeat"} BY <2>7 DEF Told
  <2> QED BY <2>5, <2>6, <2>7
<1> QED BY <1>3, <1>4

LEMMA StepSeals ==
    ASSUME NEW nd, NEW dk, NEW nt, NEW nw, NEW i \in Server, NEW N,
           Stepped(nd, dk, nt, nw, i, N)
    PROVE  SealInvariant(nw, dk, nt)
<1>0. Group(nd, dk, nt) /\ Group(nw, dk, nt) /\ SealInvariant(nd, dk, nt)
  BY DEF Stepped, CommitInvariant
<1>1. ChosenStays(nd, dk, nt, nw, dk, nt) BY StepChosen
<1>2. ASSUME NEW k \in Server
      PROVE  /\ Sealed(nw[k].log, nw[k].committed, nw[k].Term, nw, dk, nt)
             /\ Sealed(dk[k].log, dk[k].hs.Commit, dk[k].hs.Term, nw, dk, nt)
             /\ dk[k].synced <= dk[k].hs.Commit /\ dk[k].hs.Commit <= nw[k].committed
             /\ Counted(k, nw, dk, nt)
  <2>1. /\ Sealed(nd[k].log, nd[k].committed, nd[k].Term, nd, dk, nt)
        /\ Sealed(dk[k].log, dk[k].hs.Commit, dk[k].hs.Term, nd, dk, nt)
        /\ dk[k].synced <= dk[k].hs.Commit /\ dk[k].hs.Commit <= nd[k].committed
    BY <1>0 DEF SealInvariant
  <2>2. /\ dk[k].log \in Seq(Entry) /\ dk[k].hs.Commit \in Nat /\ dk[k].hs.Term \in Nat
        /\ nd[k].log \in Seq(Entry) /\ nd[k].committed \in Nat /\ nd[k].Term \in Nat
        /\ nw[k].committed \in Nat
        /\ dk[k].hs.Term <= dk[k].hs.Term /\ nd[k].Term <= nd[k].Term
    <3>1. \A t \in Nat : t <= t OBVIOUS
    <3> QED BY <1>0, <3>1, GroupLogs
  <2>3. Sealed(dk[k].log, dk[k].hs.Commit, dk[k].hs.Term, nw, dk, nt)
    BY <1>0, <1>1, <2>1, <2>2, SealedOn
  <2>4. /\ Sealed(nw[k].log, nw[k].committed, nw[k].Term, nw, dk, nt)
        /\ nd[k].committed <= nw[k].committed
    <3>1. CASE k = i BY <3>1, StepCommits
    <3>2. CASE k # i
      <4>1. nw[k] = nd[k] BY <3>2 DEF Stepped
      <4>2. Sealed(nd[k].log, nd[k].committed, nd[k].Term, nw, dk, nt)
        BY <1>0, <1>1, <2>1, <2>2, SealedOn
      <4>3. nd[k].committed <= nd[k].committed BY <2>2
      <4> QED BY <4>1, <4>2, <4>3
    <3> QED BY <3>1, <3>2
  <2>5. dk[k].hs.Commit <= nw[k].committed BY <2>1, <2>2, <2>4
  <2>6. Counted(k, nw, dk, nt) BY StepCounted
  <2> QED BY <2>1, <2>3, <2>4, <2>5, <2>6
<1>3. \A m \in Underway(nw, nt) : Told(m, nw, dk, nt) BY StepTold
<1> QED BY <1>2, <1>3 DEF SealInvariant
----------------------------------------------------------------------------
(* No step contradicts what is committed *)

\* No MsgApp conflicts with what its receiver has committed: the panic in
\* maybeAppend never comes.
LEMMA NoClash ==
    ASSUME NEW nd, NEW dk, NEW nt, Group(nd, dk, nt), CommitInvariant(nd, dk, nt),
           NEW i \in Server, NEW v \in Underway(nd, nt)
    PROVE  ~Clash(nd[i], v)
<1> SUFFICES ASSUME Clash(nd[i], v) PROVE FALSE OBVIOUS
<1> DEFINE r == nd[i]
           ci == findConflict(r.log, v.index, v.entries)
<1>1. /\ v.type = "MsgApp" /\ v.term >= r.Term /\ matchTerm(r.log, v.index, v.logTerm)
      /\ ci \in 1..r.committed
  BY DEF Clash
<1>2. v \in Message BY UnderwayType
<1>3. v.term \in Nat /\ v.index \in Nat /\ v.entries \in Seq(Entry) BY <1>2 DEF Message
<1>4. r.log \in Seq(Entry) /\ r.Term \in Nat /\ r.committed \in Nat BY GroupLogs
<1>5. v.index <= Len(r.log) BY <1>1 DEF matchTerm
<1> HIDE DEF r, ci
<1>6. /\ ci # 0 /\ ci \in (v.index + 1)..(v.index + Len(v.entries))
      /\ ~matchTerm(r.log, ci, v.entries[ci - v.index].term)
  BY <1>1, <1>2, <1>4, <1>5, SplicedIs DEF ci
<1>7. Sealed(r.log, r.committed, r.Term, nd, dk, nt) BY DEF CommitInvariant, SealInvariant, r
<1>8. PICK a \in LiveKeys(nd, dk, nt) :
        a.at >= r.committed /\ a.term <= r.Term /\ Agree(r.log, nd[a.owner].log, r.committed)
  BY <1>1, <1>4, <1>7 DEF Sealed
<1>9. a.at \in Nat /\ a.term \in Nat /\ a.owner \in Server BY LiveIs
<1> DEFINE b == nd[a.owner].log
<1>10. b \in Seq(Entry) BY <1>9, GroupLogs
<1>11. a.term <= v.term BY <1>1, <1>3, <1>4, <1>8, <1>9
<1>12. Respects(v, a, b) BY <1>1, <1>11 DEF CommitInvariant, KeyInvariant, Placed
<1>13. Agree(r.log, b, r.committed) BY <1>8
<1> HIDE DEF b
<1>14. Len(v.entries) \in Nat BY <1>3, LenProperties
<1>15. /\ ci \in Nat /\ ci <= r.committed /\ ci <= a.at
       /\ ci - v.index \in 1..Len(v.entries) /\ v.index + (ci - v.index) = ci
  <2>1. r.committed \in Nat /\ r.committed <= a.at BY <1>4, <1>8 DEF r
  <2>2. ci \in 1..r.committed BY <1>1
  <2>3. ci \in Nat /\ ci <= r.committed /\ ci <= a.at BY <1>9, <2>1, <2>2
  <2>4. v.index \in Nat BY <1>3
  <2> QED BY <1>6, <1>14, <2>3, <2>4
<1>16. v.entries[ci - v.index].term = TermAt(b, ci) BY <1>12, <1>15 DEF Respects
<1>17. TermAt(r.log, ci) = TermAt(b, ci) BY <1>4, <1>10, <1>13, <1>15, AgreeTermAt
<1>18. r.committed <= Len(r.log) BY <1>13 DEF Agree
<1>19. ci <= Len(r.log) BY <1>4, <1>15, <1>18, LenProperties
<1> QED BY <1>6, <1>16, <1>17, <1>19 DEF matchTerm

----------------------------------------------------------------------------
(* CommitInv is an invariant of RaftCluster *)

\* From r to s a server keeps what it committed, and that it did.
Firm(r, s) == r.committed <= s.committed /\ Agree(r.log, s.log, r.committed)

LEMMA FirmTrans ==
    ASSUME NEW r \in Node, NEW s \in Node, NEW t \in Node, Firm(r, s), Firm(s, t)
    PROVE  Firm(r, t)
<1>1. /\ r.log \in Seq(Entry) /\ s.log \in Seq(Entry) /\ t.log \in Seq(Entry)
      /\ r.committed \in Nat /\ s.committed \in Nat /\ t.committed \in Nat
  BY DEF Node
<1>2. /\ r.committed <= s.committed /\ s.committed <= t.committed
      /\ Agree(r.log, s.log, r.committed) /\ Agree(s.log, t.log, s.committed)
  BY DEF Firm
<1>3. Agree(s.log, t.log, r.committed) BY <1>1, <1>2, AgreeLess
<1>4. Agree(r.log, t.log, r.committed) BY <1>2, <1>3, AgreeTrans
<1>5. r.committed <= t.committed BY <1>1, <1>2
<1> QED BY <1>4, <1>5 DEF Firm

\* A server's step keeps the invariant.
LEMMA StepKeepsCommit ==
    ASSUME NEW nd \in [Server -> Node], NEW dk \in [Server -> Disk], NEW nt \in SUBSET Message,
           NEW i \in Server, NEW s \in Node, CommitInvariant(nd, dk, nt),
           ElectionInvariant([nd EXCEPT ![i] = s], dk, nt),
           Onward(nd[i], s), NEW N \in SUBSET Heard(nd, nt, i), LogStep(nd[i], s, N),
           CommitStep(nd[i], s, N)
    PROVE  CommitInvariant([nd EXCEPT ![i] = s], dk, nt) /\ Firm(nd[i], s)
<1> DEFINE nw == [nd EXCEPT ![i] = s]
<1>1. ClusterInvariant(nd, dk, nt) /\ ElectionInvariant(nd, dk, nt)
  BY DEF CommitInvariant, ClusterInvariant
<1>2. ClusterInvariant(nw, dk, nt) BY <1>1, StepKeeps
<1>3. \A l \in Server : \A t \in Nat : Won(l, t, nd, dk, nt) => Won(l, t, nw, dk, nt)
  BY <1>1, StepKeepsWon
<1>4. \A x \in Links(nw, dk, nt) :
        x \in Links(nd, dk, nt)
        \/ (s.state = "StateLeader" /\ x \in LogLinks(s.log) /\ x.entry.term = s.Term)
  BY ZenonT(60), StepNewLinks
<1>5. Group(nd, dk, nt) /\ Group(nw, dk, nt) BY DEF Group
<1>6. Mindful(nd[i], s, N)
  <2>1. N \subseteq Underway(nd, nt) BY DEF Heard, Underway
  <2>2. \A v \in N : ~Clash(nd[i], v) BY <1>5, <2>1, NoClash
  <2> QED BY <2>2 DEF CommitStep
<1>7. nw[i] = s /\ \A k \in Server \ {i} : nw[k] = nd[k] OBVIOUS
<1> HIDE DEF nw
<1>8. Stepped(nd, dk, nt, nw, i, N)
  BY <1>2, <1>3, <1>4, <1>5, <1>6, <1>7 DEF Stepped
<1>9. /\ OrderInvariant(nw, dk, nt) /\ AckInvariant(nw, dk, nt)
      /\ KeyInvariant(nw, dk, nt) /\ SealInvariant(nw, dk, nt)
  BY <1>8, StepOrder, StepAcks, StepKeys, StepSeals
<1>10. CommitInvariant(nw, dk, nt) BY <1>2, <1>9 DEF CommitInvariant
<1>11. Firm(nd[i], nw[i])
  <2>1. /\ Sealed(nd[i].log, nd[i].committed, nd[i].Term, nd, dk, nt)
        /\ Sealed(nw[i].log, nw[i].committed, nw[i].Term, nw, dk, nt)
    BY <1>10 DEF CommitInvariant, SealInvariant
  <2>2. /\ nd[i].log \in Seq(Entry) /\ nd[i].Term \in Nat /\ nd[i].committed \in Nat
        /\ nw[i].log \in Seq(Entry) /\ nw[i].committed \in Nat
    BY <1>5, GroupLogs
  <2>3. nd[i].committed <= nw[i].committed BY <1>8, StepCommits
  <2>4. ChosenStays(nd, dk, nt, nw, dk, nt) BY <1>8, StepChosen
  <2>5. nd[i].Term <= nd[i].Term BY <2>2
  <2>6. Sealed(nd[i].log, nd[i].committed, nd[i].Term, nw, dk, nt)
    BY <1>5, <2>1, <2>2, <2>4, <2>5, SealedOn
  <2>7. Agree(nd[i].log, nw[i].log, nd[i].committed)
    BY <1>5, <1>10, <2>1, <2>2, <2>3, <2>6, SealedAgree
  <2> QED BY <2>3, <2>7 DEF Firm
<1> QED BY <1>7, <1>10, <1>11 DEF nw
----------------------------------------------------------------------------
(* A Ready, in its two halves *)

\* One more link is elsewhere only through a log, or a message, that is.
LEMMA ElsewhereLess ==
    ASSUME NEW l, NEW nd, NEW dk, NEW nt, NEW nw, NEW dw, NEW nn,
           \A k \in Server : \A x \in LogLinks(dw[k].log) : x \in Elsewhere(l, nd, dk, nt),
           \A k \in Server \ {l} : \A x \in LogLinks(nw[k].log) : x \in Elsewhere(l, nd, dk, nt),
           \A m \in nn : \A x \in Carried(m) : x \in Elsewhere(l, nd, dk, nt),
           \A k \in Server \ {l} : \A m \in Boxes(nw[k]) \cup Range(nw[k].steps) :
             m \in Boxes(nd[k]) \cup Range(nd[k].steps)
    PROVE  Elsewhere(l, nw, dw, nn) \subseteq Elsewhere(l, nd, dk, nt)
<1> SUFFICES ASSUME NEW x \in Elsewhere(l, nw, dw, nn) PROVE x \in Elsewhere(l, nd, dk, nt)
  OBVIOUS
<1>1. CASE \E k \in Server : x \in LogLinks(dw[k].log) BY <1>1
<1>2. CASE \E k \in Server \ {l} : x \in LogLinks(nw[k].log) BY <1>2
<1>3. CASE \E m \in nn : x \in Carried(m) BY <1>3
<1>4. CASE \E k \in Server \ {l} :
             \E m \in Boxes(nw[k]) \cup Range(nw[k].steps) : x \in Carried(m)
  <2>1. \E k \in Server \ {l} :
          \E m \in Boxes(nd[k]) \cup Range(nd[k].steps) : x \in Carried(m)
    BY <1>4
  <2> QED BY <2>1, ElsewhereIs
<1> QED BY <1>1, <1>2, <1>3, <1>4, ElsewhereIs

\* Server i writes its log and its hard state, and sends what waited for that.
LEMMA WriteKeepsCommit ==
    ASSUME NEW nd \in [Server -> Node], NEW dk \in [Server -> Disk], NEW nt \in SUBSET Message,
           CommitInvariant(nd, dk, nt), NEW i \in Server, NEW d \in Disk,
           d.hs = hardState(nd[i]), d.log = nd[i].log,
           d.synced = dk[i].synced \/ d.synced = nd[i].committed,
           NEW M \in SUBSET Boxes(nd[i])
    PROVE  CommitInvariant(nd, [dk EXCEPT ![i] = d], nt \cup M)
<1> DEFINE dw == [dk EXCEPT ![i] = d]
           nn == nt \cup M
<1>1. ClusterInvariant(nd, dk, nt) /\ ElectionInvariant(nd, dk, nt)
  BY DEF CommitInvariant, ClusterInvariant
<1>2. ClusterInvariant(nd, dw, nn) BY <1>1, WriteKeepsAll
<1>3. \A l \in Server : \A t \in Nat : Won(l, t, nd, dk, nt) => Won(l, t, nd, dw, nn)
  BY <1>1, WriteKeepsWon
<1>4. M \subseteq Message BY BoxesType
<1>5. Group(nd, dk, nt) /\ Group(nd, dw, nn) BY <1>4 DEF Group
<1>6. dw[i] = d /\ \A k \in Server \ {i} : dw[k] = dk[k] OBVIOUS
<1>7. nt \subseteq nn /\ \A m \in nn : m \in nt \/ m \in Boxes(nd[i]) OBVIOUS
<1> HIDE DEF dw, nn
<1>8. Underway(nd, nn) \subseteq Underway(nd, nt) BY <1>7 DEF Underway
<1>9. Links(nd, dw, nn) \subseteq Links(nd, dk, nt)
  <2> DEFINE L == Links(nd, dk, nt)
  <2>1. \A k \in Server : LogLinks(nd[k].log) \subseteq L /\ LogLinks(dk[k].log) \subseteq L
    BY LinksOfLogs
  <2>2. \A k \in Server : \A m \in Boxes(nd[k]) \cup Range(nd[k].steps) : Carried(m) \subseteq L
    BY UnderwayOf, LinksOfMessages
  <2>3. \A m \in nn : m \in Underway(nd, nt) BY <1>8 DEF Underway
  <2>4. \A m \in nn : Carried(m) \subseteq L BY <2>3, LinksOfMessages
  <2> HIDE DEF L
  <2>5. \A k \in Server : LogLinks(nd[k].log) \subseteq L /\ LogLinks(dw[k].log) \subseteq L
    BY <1>6, <2>1
  <2>6. Links(nd, dw, nn) \subseteq L BY <2>2, <2>4, <2>5, LinksWithin
  <2> QED BY <2>6 DEF L
<1>10. /\ d.hs.Term = nd[i].Term /\ d.hs.Commit = nd[i].committed
       /\ nd[i].Term >= dk[i].hs.Term
  BY <1>1 DEF hardState, ElectionInvariant, Durable
<1>11. ASSUME NEW l \in Server, l # i
       PROVE  Elsewhere(l, nd, dw, nn) \subseteq Elsewhere(l, nd, dk, nt)
  <2>1. \A k \in Server : \A x \in LogLinks(dw[k].log) : x \in Elsewhere(l, nd, dk, nt)
    <3>1. \A k \in Server : dw[k].log = dk[k].log \/ (k # l /\ dw[k].log = nd[k].log)
      BY <1>6, <1>11
    <3>2. \A k \in Server : \A x \in LogLinks(dk[k].log) : x \in Elsewhere(l, nd, dk, nt)
      BY ElsewhereIs
    <3>3. \A k \in Server \ {l} : \A x \in LogLinks(nd[k].log) : x \in Elsewhere(l, nd, dk, nt)
      BY ElsewhereIs
    <3> QED BY <3>1, <3>2, <3>3
  <2>2. \A m \in nn : \A x \in Carried(m) : x \in Elsewhere(l, nd, dk, nt)
    BY <1>7, <1>11, ElsewhereIs
  <2>3. \A k \in Server \ {l} : \A x \in LogLinks(nd[k].log) : x \in Elsewhere(l, nd, dk, nt)
    BY ElsewhereIs
  <2> QED BY <2>1, <2>2, <2>3, ElsewhereLess
<1>12. \A m \in Handed(nd, nn) :
         m \in Handed(nd, nt)
         \/ (m \in Boxes(nd[i]) /\ dw[i].log = nd[i].log /\ dw[i].hs.Term = nd[i].Term)
  BY <1>6, <1>7, <1>10 DEF Handed
<1>13. Queued(nd[i]) BY DEF CommitInvariant, OrderInvariant
<1>14. /\ Sealed(nd[i].log, nd[i].committed, nd[i].Term, nd, dk, nt)
       /\ dk[i].synced <= dk[i].hs.Commit /\ dk[i].hs.Commit <= nd[i].committed
  BY DEF CommitInvariant, SealInvariant
<1>15. dw[i].synced <= dw[i].hs.Commit /\ dw[i].hs.Commit <= nd[i].committed
  <2>1. dk[i].synced \in Nat /\ dk[i].hs.Commit \in Nat /\ nd[i].committed \in Nat
    BY <1>5, GroupLogs
  <2> QED BY <1>6, <1>10, <1>14, <2>1
<1>16. dw[i].hs.Term >= dk[i].hs.Term BY <1>6, <1>10
<1>17. Sealed(dw[i].log, dw[i].hs.Commit, dw[i].hs.Term, nd, dk, nt) BY <1>6, <1>10, <1>14
<1>18. dw[i].log = nd[i].log BY <1>6
<1>19. Settles(nd, dk, nt, nd, dw, nn, i)
  BY <1>3, <1>6, <1>7, <1>8, <1>9, <1>11, <1>12, <1>13, <1>14, <1>15, <1>16, <1>17, <1>18
     DEF Settles
<1>20. CommitInvariant(nd, dw, nn) BY <1>2, <1>5, <1>19, SettleKeeps
<1> QED BY <1>20 DEF dw, nn

\* What waited for the append goes on to Advance, and the outboxes are empty.
LEMMA AcceptReadyKeepsCommit ==
    ASSUME NEW nd \in [Server -> Node], NEW dk \in [Server -> Disk], NEW nt \in SUBSET Message,
           CommitInvariant(nd, dk, nt), NEW i \in Server,
           dk[i].hs = hardState(nd[i]), dk[i].log = nd[i].log
    PROVE  CommitInvariant([nd EXCEPT ![i] = acceptReady(nd[i])], dk, nt)
<1> DEFINE r == nd[i]
           s == acceptReady(r)
           nw == [nd EXCEPT ![i] = s]
<1>1. ClusterInvariant(nd, dk, nt) /\ ElectionInvariant(nd, dk, nt)
  BY DEF CommitInvariant, ClusterInvariant
<1>2. ClusterInvariant(nw, dk, nt) BY <1>1, AcceptReadyKeepsAll
<1>3. r \in Node /\ s \in Node /\ r.id = i BY <1>1, AcceptReadyType DEF ElectionInvariant
<1>4. /\ s.Term = r.Term /\ s.state = r.state /\ s.log = r.log /\ s.committed = r.committed
      /\ s.id = r.id /\ s.prs = r.prs /\ s.steps = r.after[r.id]
      /\ \A d \in Server : s.msgs[d] = <<>> /\ s.after[d] = <<>>
  BY <1>3 DEF acceptReady, Node
<1>5. Group(nd, dk, nt) /\ Group(nw, dk, nt) BY <1>3 DEF Group
<1>6. nw[i] = s /\ \A k \in Server \ {i} : nw[k] = nd[k] OBVIOUS
<1> HIDE DEF nw, s
<1>7. Range(<<>>) = {} BY DEF Range
<1>8. Boxes(s) = {} /\ Withheld(s) = {} BY <1>4, <1>7 DEF Boxes, Withheld
<1>9. Range(s.steps) \subseteq Boxes(r) /\ Range(s.steps) \subseteq Withheld(r)
  BY <1>3, <1>4 DEF Boxes, Withheld
<1>10. \A k \in Server : \A m \in Boxes(nw[k]) \cup Range(nw[k].steps) :
         m \in Boxes(nd[k]) \cup Range(nd[k].steps)
  BY <1>6, <1>8, <1>9
<1>11. Underway(nw, nt) \subseteq Underway(nd, nt) BY <1>10 DEF Underway
<1>12. Links(nw, dk, nt) \subseteq Links(nd, dk, nt)
  <2> DEFINE L == Links(nd, dk, nt)
  <2>1. \A k \in Server : LogLinks(nd[k].log) \subseteq L /\ LogLinks(dk[k].log) \subseteq L
    BY LinksOfLogs
  <2>2. \A m \in Underway(nd, nt) : Carried(m) \subseteq L BY LinksOfMessages
  <2>3. /\ \A m \in nt : m \in Underway(nd, nt)
        /\ \A k \in Server : \A m \in Boxes(nw[k]) \cup Range(nw[k].steps) : m \in Underway(nd, nt)
    BY <1>11 DEF Underway
  <2> HIDE DEF L
  <2>4. \A k \in Server : LogLinks(nw[k].log) \subseteq L /\ LogLinks(dk[k].log) \subseteq L
    BY <1>4, <1>6, <2>1
  <2>5. Links(nw, dk, nt) \subseteq L BY <2>2, <2>3, <2>4, LinksWithin
  <2> QED BY <2>5 DEF L
<1>13. ASSUME NEW l \in Server, NEW t \in Nat, Won(l, t, nd, dk, nt) PROVE Won(l, t, nw, dk, nt)
  <2>1. Boxes(nw[l]) \subseteq Boxes(nd[l]) /\ nw[l].state = nd[l].state /\ nw[l].Term = nd[l].Term
    BY <1>4, <1>6, <1>8
  <2> QED BY <1>13, <2>1 DEF Won
<1>14. ASSUME NEW l \in Server
       PROVE  Elsewhere(l, nw, dk, nt) \subseteq Elsewhere(l, nd, dk, nt)
  <2>1. \A k \in Server : nw[k].log = nd[k].log BY <1>4, <1>6
  <2>2. /\ \A k \in Server : \A x \in LogLinks(dk[k].log) : x \in Elsewhere(l, nd, dk, nt)
        /\ \A k \in Server \ {l} : \A x \in LogLinks(nd[k].log) : x \in Elsewhere(l, nd, dk, nt)
        /\ \A m \in nt : \A x \in Carried(m) : x \in Elsewhere(l, nd, dk, nt)
    BY ElsewhereIs
  <2>3. \A k \in Server \ {l} : \A x \in LogLinks(nw[k].log) : x \in Elsewhere(l, nd, dk, nt)
    BY <2>1, <2>2
  <2> QED BY <1>10, <2>2, <2>3, ElsewhereLess
<1>15. dk[i].hs.Term = r.Term /\ dk[i].hs.Commit = r.committed /\ dk[i].hs.Term \in Nat
  <2>1. dk[i].hs.Term \in Nat BY <1>5, GroupLogs
  <2> QED BY <2>1 DEF hardState
<1>16. \A m \in Handed(nw, nt) :
         m \in Handed(nd, nt)
         \/ (m \in Boxes(nd[i]) /\ dk[i].log = nd[i].log /\ dk[i].hs.Term = nd[i].Term)
  <2>1. \A k \in Server : \A m \in Range(nw[k].steps) :
          m \in Range(nd[k].steps) \/ (k = i /\ m \in Boxes(nd[i]))
    BY <1>6, <1>9
  <2> QED BY <1>15, <2>1 DEF Handed
<1>17. Queued(s)
  <2>1. Queued(r) BY DEF CommitInvariant, OrderInvariant
  <2> HIDE DEF r
  <2> QED BY <1>4, <1>8, <1>9, <2>1 DEF Queued
<1>18. /\ Sealed(r.log, r.committed, r.Term, nd, dk, nt)
       /\ Sealed(dk[i].log, dk[i].hs.Commit, dk[i].hs.Term, nd, dk, nt)
       /\ dk[i].synced <= dk[i].hs.Commit /\ dk[i].hs.Commit <= r.committed
  BY DEF CommitInvariant, SealInvariant
<1>19. dk[i].hs.Term >= dk[i].hs.Term BY <1>15
<1>20. /\ s.state = r.state /\ s.Term = r.Term /\ s.log = r.log /\ s.prs = r.prs
       /\ s.committed = r.committed
  BY <1>4
<1> HIDE DEF r
<1>21. Settles(nd, dk, nt, nw, dk, nt, i)
  BY <1>6, <1>11, <1>12, <1>13, <1>14, <1>16, <1>17, <1>18, <1>19, <1>20 DEF Settles, r
<1>22. CommitInvariant(nw, dk, nt) BY <1>2, <1>5, <1>21, SettleKeeps
<1> QED BY <1>22 DEF nw, s, r
----------------------------------------------------------------------------
(* A restart *)

\* A server starts again from a disk with its term and vote, a commit index
\* that was written, and the log it had on disk or in memory: entries may have
\* reached the disk alone, a hard state never does.
LEMMA RestartKeepsCommit ==
    ASSUME NEW nd \in [Server -> Node], NEW dk \in [Server -> Disk], NEW nt \in SUBSET Message,
           CommitInvariant(nd, dk, nt), NEW i \in Server, NEW e \in Disk,
           e.hs.Term = dk[i].hs.Term, e.hs.Vote = dk[i].hs.Vote,
           e.log \in {dk[i].log, nd[i].log},
           e.hs.Commit <= dk[i].hs.Commit, e.synced = e.hs.Commit
    PROVE  CommitInvariant([nd EXCEPT ![i] = newRaft(i, Server, e.hs, e.log)],
                           [dk EXCEPT ![i] = e], nt)
<1> DEFINE s == newRaft(i, Server, e.hs, e.log)
           nw == [nd EXCEPT ![i] = s]
           dw == [dk EXCEPT ![i] = e]
<1>1. ClusterInvariant(nd, dk, nt) BY DEF CommitInvariant
<1>2. ClusterInvariant(nw, dw, nt) BY <1>1, RestartKeepsAll
<1>3. e.hs \in HardState /\ e.log \in Seq(Entry) /\ e.hs.Term \in Nat /\ e.hs.Commit \in Nat
  BY DEF Disk, HardState
<1>4. /\ s \in Node /\ s.state = "StateFollower" /\ s.steps = <<>> /\ s.log = e.log
      /\ s.Term = e.hs.Term /\ s.committed = e.hs.Commit
      /\ \A d \in Server : s.msgs[d] = <<>> /\ s.after[d] = <<>>
  <2>1. s \in Node BY <1>3, NewRaftType DEF HardState
  <2>2. /\ s.state = "StateFollower" /\ s.steps = <<>>
        /\ \A d \in Server : s.msgs[d] = <<>> /\ s.after[d] = <<>>
    BY DEF newRaft, restored, reset
  <2>3. s.log = e.log BY <1>3, NewRaftLog
  <2>4. s.Term = e.hs.Term /\ s.committed = e.hs.Commit BY DEF newRaft, restored, reset
  <2> QED BY <2>1, <2>2, <2>3, <2>4
<1>5. Group(nd, dk, nt) /\ Group(nw, dw, nt) BY <1>4 DEF Group
<1>6. /\ nw[i] = s /\ \A k \in Server \ {i} : nw[k] = nd[k]
      /\ dw[i] = e /\ \A k \in Server \ {i} : dw[k] = dk[k]
  OBVIOUS
<1> HIDE DEF nw, dw, s
<1>7. Range(<<>>) = {} BY DEF Range
<1>8. Boxes(s) = {} /\ Withheld(s) = {} /\ Range(s.steps) = {}
  BY <1>4, <1>7 DEF Boxes, Withheld
<1>9. \A k \in Server : /\ \A m \in Boxes(nw[k]) \cup Range(nw[k].steps) :
                             k # i /\ m \in Boxes(nd[k]) \cup Range(nd[k].steps)
                        /\ \A m \in Range(nw[k].steps) : m \in Range(nd[k].steps)
  BY <1>6, <1>8
<1>10. Underway(nw, nt) \subseteq Underway(nd, nt) BY <1>9 DEF Underway
<1>11. ASSUME NEW l \in Server, NEW t \in Nat, Won(l, t, nd, dk, nt) PROVE Won(l, t, nw, dw, nt)
  <2>1. Claims(t, l, dw[l].hs)
    <3>1. dw[l].hs.Term = dk[l].hs.Term /\ dw[l].hs.Vote = dk[l].hs.Vote BY <1>6
    <3> QED BY <1>11, <3>1 DEF Won, Claims
  <2>2. Boxes(nw[l]) \subseteq Boxes(nd[l]) BY <1>6, <1>8
  <2>3. nw[l].state = "StateCandidate" =>
          nd[l].state = "StateCandidate" /\ nd[l].Term = nw[l].Term
    BY <1>4, <1>6
  <2> QED BY <1>11, <2>1, <2>2, <2>3 DEF Won
<1>12. ASSUME NEW l \in Server, l # i \/ e.log # nd[i].log
       PROVE  /\ \A k \in Server : \A x \in LogLinks(dw[k].log) : x \in Elsewhere(l, nd, dk, nt)
              /\ \A k \in Server \ {l} : \A x \in LogLinks(nw[k].log) :
                   x \in Elsewhere(l, nd, dk, nt)
              /\ \A m \in nt : \A x \in Carried(m) : x \in Elsewhere(l, nd, dk, nt)
              /\ \A x \in LogLinks(e.log) : x \in Elsewhere(l, nd, dk, nt)
  <2>1. /\ \A k \in Server : \A x \in LogLinks(dk[k].log) : x \in Elsewhere(l, nd, dk, nt)
        /\ \A k \in Server \ {l} : \A x \in LogLinks(nd[k].log) : x \in Elsewhere(l, nd, dk, nt)
        /\ \A m \in nt : \A x \in Carried(m) : x \in Elsewhere(l, nd, dk, nt)
    BY ElsewhereIs
  <2>2. e.log = dk[i].log \/ (l # i /\ e.log = nd[i].log) BY <1>12
  <2>3. \A x \in LogLinks(e.log) : x \in Elsewhere(l, nd, dk, nt) BY <2>1, <2>2
  <2>4. \A k \in Server : (dw[k].log = dk[k].log \/ dw[k].log = e.log)
                          /\ (nw[k].log = nd[k].log \/ nw[k].log = e.log)
    BY <1>4, <1>6
  <2> QED BY <2>1, <2>3, <2>4
<1>13. ASSUME NEW l \in Server, l # i \/ dw[i].log # nd[i].log
       PROVE  Elsewhere(l, nw, dw, nt) \subseteq Elsewhere(l, nd, dk, nt)
  <2>1. l # i \/ e.log # nd[i].log BY <1>6, <1>13
  <2> QED BY <1>9, <1>12, <2>1, ElsewhereLess
<1>14. nw[i].log = nd[i].log \/ Links(nw, dw, nt) \subseteq Elsewhere(i, nd, dk, nt)
  <2>1. SUFFICES ASSUME e.log # nd[i].log
                 PROVE  Links(nw, dw, nt) \subseteq Elsewhere(i, nd, dk, nt)
    BY <1>4, <1>6
  <2> DEFINE E == Elsewhere(i, nd, dk, nt)
  <2>2. /\ \A k \in Server : \A x \in LogLinks(dw[k].log) : x \in E
        /\ \A k \in Server \ {i} : \A x \in LogLinks(nw[k].log) : x \in E
        /\ \A m \in nt : \A x \in Carried(m) : x \in E
        /\ \A x \in LogLinks(e.log) : x \in E
    BY <1>12, <2>1
  <2>3. \A k \in Server \ {i} : \A m \in Boxes(nd[k]) \cup Range(nd[k].steps) :
          \A x \in Carried(m) : x \in E
    BY ElsewhereIs
  <2> HIDE DEF E
  <2>4. \A k \in Server : LogLinks(nw[k].log) \subseteq E /\ LogLinks(dw[k].log) \subseteq E
    BY <1>4, <1>6, <2>2
  <2>5. \A k \in Server : \A m \in Boxes(nw[k]) \cup Range(nw[k].steps) : Carried(m) \subseteq E
    BY <1>9, <2>3
  <2>6. \A m \in nt : Carried(m) \subseteq E BY <2>2
  <2>7. Links(nw, dw, nt) \subseteq E BY <2>4, <2>5, <2>6, LinksWithin
  <2> QED BY <2>7 DEF E
<1>15. Links(nw, dw, nt) \subseteq Links(nd, dk, nt)
  <2> DEFINE L == Links(nd, dk, nt)
  <2>1. \A k \in Server : LogLinks(nd[k].log) \subseteq L /\ LogLinks(dk[k].log) \subseteq L
    BY LinksOfLogs
  <2>2. \A m \in Underway(nd, nt) : Carried(m) \subseteq L BY LinksOfMessages
  <2>3. /\ \A m \in nt : m \in Underway(nd, nt)
        /\ \A k \in Server : \A m \in Boxes(nw[k]) \cup Range(nw[k].steps) : m \in Underway(nd, nt)
    BY <1>10 DEF Underway
  <2> HIDE DEF L
  <2>4. \A k \in Server : LogLinks(nw[k].log) \subseteq L /\ LogLinks(dw[k].log) \subseteq L
    BY <1>4, <1>6, <2>1
  <2>5. Links(nw, dw, nt) \subseteq L BY <2>2, <2>3, <2>4, LinksWithin
  <2> QED BY <2>5 DEF L
<1>16. \A m \in Handed(nw, nt) : m \in Handed(nd, nt)
  <2>1. \A k \in Server : Range(nw[k].steps) \subseteq Range(nd[k].steps) BY <1>9
  <2> QED BY ZenonT(60), <2>1 DEF Handed
<1>17. Queued(s) BY <1>8 DEF Queued
<1>18. /\ Sealed(nd[i].log, nd[i].committed, nd[i].Term, nd, dk, nt)
       /\ Sealed(dk[i].log, dk[i].hs.Commit, dk[i].hs.Term, nd, dk, nt)
       /\ dk[i].hs.Commit <= nd[i].committed
  BY DEF CommitInvariant, SealInvariant
<1>19. Sealed(e.log, e.hs.Commit, e.hs.Term, nd, dk, nt)
  <2>1. /\ nd[i].log \in Seq(Entry) /\ nd[i].committed \in Nat
        /\ dk[i].log \in Seq(Entry) /\ dk[i].hs.Commit \in Nat /\ dk[i].hs.Term \in Nat
    BY <1>5, GroupLogs
  <2>2. Sealed(nd[i].log, dk[i].hs.Commit, dk[i].hs.Term, nd, dk, nt)
    BY <1>5, <1>18, <2>1, SealedDown
  <2>3. Sealed(e.log, dk[i].hs.Commit, dk[i].hs.Term, nd, dk, nt) BY <1>18, <2>2
  <2>4. dk[i].hs.Term <= e.hs.Term BY <2>1
  <2> QED BY <1>3, <1>5, <2>1, <2>3, <2>4, SealedLess
<1>20. dw[i].hs.Term >= dk[i].hs.Term /\ e.synced <= e.hs.Commit BY <1>3, <1>6
<1>21. e.hs.Commit <= e.hs.Commit BY <1>3
<1>22. /\ nw[i].state = "StateFollower" /\ nw[i].log = dw[i].log /\ nw[i].Term = dw[i].hs.Term
       /\ Boxes(nw[i]) = {} /\ dw[i].log \in {nd[i].log, dk[i].log}
  BY <1>4, <1>6, <1>8
<1>23. /\ Queued(nw[i]) /\ Sealed(nw[i].log, nw[i].committed, nw[i].Term, nd, dk, nt)
       /\ Sealed(dw[i].log, dw[i].hs.Commit, dw[i].hs.Term, nd, dk, nt)
       /\ dw[i].synced <= dw[i].hs.Commit /\ dw[i].hs.Commit <= nw[i].committed
  BY <1>4, <1>6, <1>17, <1>19, <1>20, <1>21
<1>24. Settles(nd, dk, nt, nw, dw, nt, i)
  BY <1>6, <1>10, <1>11, <1>13, <1>14, <1>15, <1>16, <1>20, <1>22, <1>23 DEF Settles
<1>25. CommitInvariant(nw, dw, nt) BY <1>2, <1>5, <1>24, SettleKeeps
<1> QED BY <1>25 DEF nw, dw, s

\* RestartFrom, from a disk d whose commit index may fall back to what was synced.
LEMMA RestartedKeepsCommit ==
    ASSUME TypeOK, CommitInv, NEW i \in Server, NEW d \in Disk, RestartFrom(i, d), net' = net,
           d.hs = disk[i].hs, d.synced = disk[i].synced, d.log \in {disk[i].log, node[i].log}
    PROVE  CommitInv'
<1>1. node \in [Server -> Node] /\ disk \in [Server -> Disk] /\ net \in SUBSET Message
  BY DEF TypeOK
<1>2. PICK c \in d.synced..d.hs.Commit :
        LET hs == [d.hs EXCEPT !.Commit = c]
        IN  /\ disk' = [disk EXCEPT ![i] = [hs |-> hs, log |-> d.log, synced |-> c]]
            /\ node' = [node EXCEPT ![i] = newRaft(i, Server, hs, d.log)]
  BY DEF RestartFrom
<1> DEFINE hs == [d.hs EXCEPT !.Commit = c]
           e == [hs |-> hs, log |-> d.log, synced |-> c]
<1>3. /\ c \in Nat /\ c <= d.hs.Commit /\ d.log \in Seq(Entry) /\ d.hs \in HardState
  BY DEF Disk, HardState
<1>4. /\ hs \in HardState /\ hs.Term = d.hs.Term /\ hs.Vote = d.hs.Vote /\ hs.Commit = c
  BY <1>3 DEF HardState
<1>5. disk' = [disk EXCEPT ![i] = e] /\ node' = [node EXCEPT ![i] = newRaft(i, Server, hs, d.log)]
  BY <1>2
<1> HIDE DEF hs
<1>6. e \in Disk /\ e.hs = hs /\ e.log = d.log /\ e.synced = c BY <1>3, <1>4 DEF Disk
<1> HIDE DEF e
<1>7. CommitInvariant([node EXCEPT ![i] = newRaft(i, Server, e.hs, e.log)],
                      [disk EXCEPT ![i] = e], net)
  <2>1. CommitInvariant(node, disk, net) BY DEF CommitInv
  <2>2. /\ e.hs.Term = disk[i].hs.Term /\ e.hs.Vote = disk[i].hs.Vote
        /\ e.log \in {disk[i].log, node[i].log}
        /\ e.hs.Commit <= disk[i].hs.Commit /\ e.synced = e.hs.Commit
    BY <1>3, <1>4, <1>6
  <2> QED BY <1>1, <1>6, <2>1, <2>2, RestartKeepsCommit
<1> QED BY <1>5, <1>6, <1>7 DEF CommitInv
----------------------------------------------------------------------------
(* Advance, and an input with its Ready *)

LEMMA AdvanceKeepsCommit ==
    ASSUME NEW nd \in [Server -> Node], NEW dk \in [Server -> Disk], NEW nt \in SUBSET Message,
           CommitInvariant(nd, dk, nt), NEW i \in Server, nd[i].steps # <<>>
    PROVE  /\ CommitInvariant([nd EXCEPT ![i] = advanceOne(nd[i])], dk, nt)
           /\ Firm(nd[i], advanceOne(nd[i])) /\ advanceOne(nd[i]) \in Node
<1> DEFINE r == nd[i]
           p == [r EXCEPT !.steps = Tail(@)]
           m == Head(r.steps)
           s == advanceOne(r)
<1>1. ClusterInvariant(nd, dk, nt) /\ ElectionInvariant(nd, dk, nt)
  BY DEF CommitInvariant, ClusterInvariant
<1>2. /\ m \in Message /\ m \in Range(r.steps) /\ Stamped(m) /\ s = Step(p, m)
      /\ p \in Node /\ p.id = r.id /\ p.voters = r.voters /\ p.Term = r.Term
      /\ p.state = r.state /\ p.log = r.log /\ p.msgs = r.msgs /\ p.after = r.after
      /\ Seated(p)
      /\ s \in Node /\ Onward(r, s) /\ LogStep(r, s, {m})
  BY <1>1, AdvanceIsStep
<1>3. ElectionInvariant([nd EXCEPT ![i] = s], dk, nt) BY <1>1, AdvanceKeeps
<1>4. r \in Node OBVIOUS
<1>5. p.committed = r.committed /\ p.prs = r.prs BY <1>4 DEF Node
<1> HIDE DEF p, m, s
<1>6. m.type \in AfterAppendTypes
  BY <1>2 DEF CommitInvariant, OrderInvariant, Queued
<1>7. {m} \in SUBSET Heard(nd, nt, i) BY <1>2 DEF Heard
<1> HIDE DEF r
<1>8. CommitStep(r, s, {m})
  <2>1. m.type # "MsgHeartbeat" BY <1>6 DEF AfterAppendTypes
  <2>2. m \in {m} /\ {m} \in SUBSET Message BY <1>2
  <2>3. CommitStep(p, s, {m}) BY <1>2, <2>1, <2>2, StepCommitStep
  <2>4. r.Term \in Nat BY <1>4 DEF Node
  <2>5. Prepared(r, p) BY <1>2, <1>5, <2>4 DEF Prepared, Unmoved
  <2> QED BY <1>2, <1>4, <2>2, <2>3, <2>5, PreparedThen
<1>9. CommitInvariant([nd EXCEPT ![i] = s], dk, nt) /\ Firm(nd[i], s)
  BY <1>2, <1>3, <1>7, <1>8, StepKeepsCommit DEF r
<1> QED BY <1>2, <1>9 DEF s, r

\* What a step of the group does to server k: it keeps what it committed, and
\* its disk does too.
Retains(k) ==
    /\ used'["restarts"] = used["restarts"] => Firm(node[k], node'[k])
    /\ disk'[k].log \in {disk[k].log, node[k].log}
       \/ Agree(node[k].log, disk'[k].log, node[k].committed)

LEMMA FirmRefl ==
    ASSUME NEW nd, NEW dk, NEW nt, Group(nd, dk, nt), CommitInvariant(nd, dk, nt), NEW k \in Server
    PROVE  Firm(nd[k], nd[k])
<1>1. Sealed(nd[k].log, nd[k].committed, nd[k].Term, nd, dk, nt)
  BY DEF CommitInvariant, SealInvariant
<1>2. nd[k].log \in Seq(Entry) /\ nd[k].committed \in Nat BY GroupLogs
<1>3. nd[k].committed <= Len(nd[k].log) BY <1>1, <1>2, SealedLen
<1>4. nd[k].committed <= nd[k].committed BY <1>2
<1> QED BY <1>3, <1>4, AgreeSelf DEF Firm

\* A step of server i concerns i alone.
LEMMA OthersRetain ==
    ASSUME TypeOK, CommitInv, NEW i \in Server, NEW s \in Node, NEW d,
           node' = [node EXCEPT ![i] = s], disk' = [disk EXCEPT ![i] = d],
           used'["restarts"] = used["restarts"] => Firm(node[i], s),
           d.log \in {disk[i].log, node[i].log} \/ Agree(node[i].log, d.log, node[i].committed)
    PROVE  \A k \in Server : Retains(k)
<1> TAKE k \in Server
<1>1. node \in [Server -> Node] /\ disk \in [Server -> Disk] BY DEF TypeOK
<1>2. CASE k = i
  <2>1. node'[k] = s /\ disk'[k] = d BY <1>1, <1>2
  <2> QED BY <1>2, <2>1 DEF Retains
<1>3. CASE k # i
  <2>1. node'[k] = node[k] /\ disk'[k] = disk[k] BY <1>1, <1>3
  <2>2. Firm(node[k], node[k]) BY FirmRefl DEF TypeOK, CommitInv, Group
  <2> QED BY <2>1, <2>2 DEF Retains
<1> QED BY <1>2, <1>3

\* An input, with or without its Ready and the first message of Advance.
LEMMA MovesKeepsCommit ==
    ASSUME TypeOK, CommitInv, NEW i \in Server, NEW r \in Node,
           BallotStep(node[i], r), Evidence(r, net),
           NEW N \in SUBSET Heard(node, net, i), LogStep(node[i], r, N),
           CommitStep(node[i], r, N), Moves(i, r)
    PROVE  CommitInv' /\ \A k \in Server : Retains(k)
<1> DEFINE nb == [node EXCEPT ![i] = r]
           na == [nb EXCEPT ![i] = acceptReady(nb[i])]
           d == Written(disk[i], r)
           dw == [disk EXCEPT ![i] = d]
           nn == net \cup readyMessages(r)
<1>1. /\ node \in [Server -> Node] /\ disk \in [Server -> Disk] /\ net \in SUBSET Message
      /\ CommitInvariant(node, disk, net)
  BY DEF TypeOK, CommitInv
<1>2. nb \in [Server -> Node] /\ nb[i] = r BY <1>1
<1>3. CommitInvariant(nb, disk, net) /\ Firm(node[i], r)
  <2>1. ElectionInvariant(nb, disk, net)
    BY <1>1, BallotKeeps DEF CommitInvariant, ClusterInvariant
  <2>2. Onward(node[i], r) BY BallotOnward
  <2> QED BY <1>1, <2>1, <2>2, StepKeepsCommit
<1>4. CASE MaxPending > 0 \/ r.panic
  <2>1. node' = nb /\ disk' = disk /\ net' = net BY <1>4 DEF Moves
  <2>2. CommitInv' BY <1>3, <2>1 DEF CommitInv
  <2>3. disk' = [disk EXCEPT ![i] = disk[i]] BY <1>1, <2>1
  <2>4. \A k \in Server : Retains(k) BY <1>3, <2>1, <2>3, OthersRetain
  <2> QED BY <2>2, <2>4
<1>5. CASE ~(MaxPending > 0 \/ r.panic)
  <2>1. /\ node' = [node EXCEPT ![i] = Turn(r)]
        /\ disk' = dw /\ net' = nn
    BY <1>5 DEF Moves
  <2>2. /\ d \in Disk /\ d.hs = hardState(r) /\ d.log = r.log
        /\ d.synced = disk[i].synced \/ d.synced = r.committed
    BY <1>1, WrittenType DEF Written
  <2>3. readyMessages(r) \in SUBSET Boxes(r) /\ readyMessages(r) \in SUBSET Message
    BY ReadyMessagesType DEF readyMessages, Boxes
  <2> HIDE DEF nb, d
  <2>4. CommitInvariant(nb, dw, nn) BY <1>1, <1>2, <1>3, <2>2, <2>3, WriteKeepsCommit
  <2>5. dw \in [Server -> Disk] /\ nn \in SUBSET Message /\ dw[i] = d BY <1>1, <2>2, <2>3
  <2> HIDE DEF dw, nn
  <2>6. CommitInvariant(na, dw, nn) BY <1>2, <2>2, <2>4, <2>5, AcceptReadyKeepsCommit
  <2>7. na \in [Server -> Node] /\ na[i] = acceptReady(r) BY <1>2, AcceptReadyType
  <2>8. /\ acceptReady(r) \in Node
        /\ acceptReady(r).committed = r.committed /\ acceptReady(r).log = r.log
    BY AcceptReadyType DEF acceptReady, Node
  <2>9. Firm(node[i], acceptReady(r)) BY <1>3, <2>8 DEF Firm
  <2>10. Agree(node[i].log, d.log, node[i].committed) BY <1>3, <2>2 DEF Firm
  <2>11. CASE acceptReady(r).steps = <<>>
    <3>1. Turn(r) = acceptReady(r) BY SMTT(60), <2>11 DEF Turn
    <3>2. node' = na BY <1>2, <2>1, <3>1 DEF nb
    <3>3. CommitInv' BY <2>1, <2>6, <3>2 DEF CommitInv
    <3>4. \A k \in Server : Retains(k)
      BY <2>1, <2>8, <2>9, <2>10, <3>1, OthersRetain DEF dw
    <3> QED BY <3>3, <3>4
  <2>12. CASE acceptReady(r).steps # <<>>
    <3>1. Turn(r) = advanceOne(acceptReady(r)) BY SMTT(60), <2>12 DEF Turn
    <3>2. node' = [na EXCEPT ![i] = advanceOne(na[i])] BY <1>1, <2>1, <2>7, <3>1 DEF nb
    <3> HIDE DEF na
    <3>3. /\ CommitInvariant([na EXCEPT ![i] = advanceOne(na[i])], dw, nn)
          /\ advanceOne(na[i]) \in Node /\ Firm(na[i], advanceOne(na[i]))
      BY <2>5, <2>6, <2>7, <2>12, AdvanceKeepsCommit
    <3>4. CommitInv' BY <2>1, <3>2, <3>3 DEF CommitInv
    <3> DEFINE t == advanceOne(acceptReady(r))
    <3>5. t \in Node /\ Firm(acceptReady(r), t) BY <2>7, <3>3
    <3>6. node' = [node EXCEPT ![i] = t] BY <2>1, <3>1
    <3> HIDE DEF t
    <3>7. node[i] \in Node BY <1>1
    <3>8. Firm(node[i], t) BY <2>8, <2>9, <3>5, <3>7, FirmTrans
    <3>9. \A k \in Server : Retains(k)
      BY <2>1, <2>10, <3>5, <3>6, <3>8, OthersRetain DEF dw
    <3> QED BY <3>4, <3>9
  <2> QED BY <2>11, <2>12
<1> QED BY <1>4, <1>5
----------------------------------------------------------------------------
(* CommitInv holds at first and after every step *)

LEMMA CommitInit == TypeOK /\ Init => CommitInv
<1> SUFFICES ASSUME TypeOK, Init PROVE CommitInv OBVIOUS
<1>1. ClusterInvariant(node, disk, net) BY ClusterInit DEF ClusterInv
<1>2. ASSUME NEW i \in Server
      PROVE  /\ node[i].steps = <<>> /\ node[i].state = "StateFollower"
             /\ \A d \in Server : node[i].msgs[d] = <<>> /\ node[i].after[d] = <<>>
             /\ node[i].log = <<>> /\ disk[i].log = <<>>
             /\ node[i].committed = 0 /\ disk[i].hs.Commit = 0 /\ disk[i].synced = 0
  BY DEF Init, newRaft, restored, reset, InitialHardState
<1>3. Range(<<>>) = {} BY DEF Range
<1>4. \A i \in Server : Boxes(node[i]) = {} /\ Withheld(node[i]) = {} /\ Range(node[i].steps) = {}
  BY <1>2, <1>3 DEF Boxes, Withheld
<1>5. net = {} BY DEF Init
<1>6. Underway(node, net) = {} BY <1>4, <1>5 DEF Underway
<1>7. Links(node, disk, net) = {}
  <2>1. LogLinks(<<>>) = {} BY DEF LogLinks
  <2>2. \A i \in Server : LogLinks(node[i].log) = {} /\ LogLinks(disk[i].log) = {} BY <1>2, <2>1
  <2> QED BY <1>6, <2>2 DEF Links
<1>8. LiveKeys(node, disk, net) = {} BY <1>7 DEF LiveKeys, Keys
<1>9. OrderInvariant(node, disk, net)
  BY <1>2, <1>4, <1>6, <1>7 DEF OrderInvariant, LinksRise, LeaderKnows, Queued
<1>10. AckInvariant(node, disk, net) BY <1>4, <1>5, <1>6 DEF AckInvariant
<1>11. KeyInvariant(node, disk, net) BY <1>6, <1>8 DEF KeyInvariant
<1>12. SealInvariant(node, disk, net)
  BY <1>2, <1>6 DEF SealInvariant, Sealed, Counted
<1> QED BY <1>1, <1>9, <1>10, <1>11, <1>12 DEF CommitInv, CommitInvariant

\* Every step keeps CommitInv, and what any server has committed.
LEMMA CommitNext ==
    TypeOK /\ CommitInv /\ EntriesFirst /\ [Next]_vars =>
      CommitInv' /\ \A k \in Server : Retains(k)
<1> DEFINE Goal == CommitInv' /\ \A k \in Server : Retains(k)
<1> SUFFICES ASSUME TypeOK, CommitInv, EntriesFirst, [Next]_vars PROVE Goal OBVIOUS
<1>0. /\ node \in [Server -> Node] /\ disk \in [Server -> Disk] /\ net \in SUBSET Message
      /\ ClusterInvariant(node, disk, net) /\ CommitInvariant(node, disk, net)
      /\ ElectionInvariant(node, disk, net) /\ TrailInvariant(node, disk, net)
  BY DEF TypeOK, CommitInv, CommitInvariant, ClusterInvariant
<1>1. CASE UNCHANGED vars
  <2>1. CommitInv' BY <1>1 DEF vars, CommitInv
  <2>2. \A k \in Server : Firm(node[k], node[k]) BY <1>0, FirmRefl DEF Group
  <2> QED BY <1>1, <2>1, <2>2 DEF vars, Retains
<1>2. ASSUME NEW i \in Server,
             \/ Tick(i) \/ LocalCall(i) \/ ReceiveAny(i)
             \/ Ready(i) \/ Advance(i) \/ Restart(i) \/ CrashInReady(i)
      PROVE  Goal
  <2> DEFINE r == node[i]
  <2>0. /\ r \in Node /\ disk[i] \in Disk /\ r.id = i /\ r.voters = Server /\ Evidence(r, net)
        /\ Seated(r)
    BY <1>0 DEF ElectionInvariant, Evidence, Seated
  <2> HIDE DEF r
  <2>1. ASSUME NEW s \in Node, BallotStep(r, s), Evidence(s, net), NEW N \in SUBSET net,
               LogStep(r, s, N), CommitStep(r, s, N), Moves(i, s)
        PROVE  Goal
    <3>1. N \in SUBSET Heard(node, net, i) BY DEF Heard
    <3> QED BY <2>1, <3>1, MovesKeepsCommit DEF r
  <2>2. ASSUME NEW m \in Message, Stamped(m), Given(r, m, net), NEW N \in SUBSET net,
               LogStep(r, Step(r, m), N), CommitStep(r, Step(r, m), N), Moves(i, Step(r, m))
        PROVE  Goal
    <3>1. Step(r, m) \in Node /\ BallotStep(r, Step(r, m)) /\ Evidence(Step(r, m), net)
      BY <2>0, <2>2, StepType, StepBallot
    <3> QED BY <2>1, <2>2, <3>1
  <2>3. ASSUME NEW m \in Message, m.type \in {"MsgProp", "MsgTransferLeader"}, Moves(i, Step(r, m))
        PROVE  Goal
    <3>1. Stamped(m) /\ Given(r, m, net) /\ OwnGrant(r, m)
      BY <2>3 DEF Stamped, Given, Granted, OwnGrant
    <3>2. LogStep(r, Step(r, m), {m}) BY <2>0, <3>1, StepLogStep
    <3>3. LogStep(r, Step(r, m), {}) BY <2>0, <2>3, <3>2, NothingLearned
    <3>4. CommitStep(r, Step(r, m), {m})
      <4>1. m \in {m} /\ {m} \in SUBSET Message OBVIOUS
      <4> QED BY <2>0, <2>3, <3>1, <4>1, StepCommitStep
    <3>5. CommitStep(r, Step(r, m), {})
      <4>1. {m} = {} \cup {m} OBVIOUS
      <4>2. CommitStep(r, Step(r, m), {} \cup {m}) BY <3>4, <4>1
      <4> QED BY <2>3, <4>2, NothingOwed
    <3> QED BY <2>2, <2>3, <3>1, <3>3, <3>5
  <2>4. ASSUME NEW m \in net, m.to = i, Moves(i, Step(r, m)) PROVE Goal
    <3>1. m \in Message /\ Stamped(m) BY <1>0 DEF ElectionInvariant
    <3>2. Given(r, m, net) /\ OwnGrant(r, m) BY <2>0, <2>4 DEF Given, OwnGrant
    <3>3. LogStep(r, Step(r, m), net) BY <2>0, <2>4, <3>1, <3>2, StepLogStep
    <3>4. CommitStep(r, Step(r, m), net) BY <1>0, <2>0, <2>4, <3>1, StepCommitStep
    <3> QED BY <2>2, <2>4, <3>1, <3>2, <3>3, <3>4
  <2>5. ASSUME NEW past \in BOOLEAN, Moves(i, tickElection(r, past)) PROVE Goal
    <3>1. CommitStep(r, tickElection(r, past), {}) BY <2>0, TickElectionMindful
    <3>2. {} \in SUBSET net OBVIOUS
    <3> QED
      BY <2>0, <2>1, <2>5, <3>1, <3>2, TickElectionType, TickElectionBallot, TickElectionLogStep
  <2>6. ASSUME NEW timedOut \in BOOLEAN, NEW beat \in BOOLEAN,
               Moves(i, tickHeartbeat(r, timedOut, beat))
        PROVE  Goal
    <3>1. CommitStep(r, tickHeartbeat(r, timedOut, beat), {})
      BY <2>0, TickHeartbeatMindful DEF CommitStep
    <3>2. {} \in SUBSET net OBVIOUS
    <3> QED
      BY <2>0, <2>1, <2>6, <3>1, <3>2, TickHeartbeatType, TickHeartbeatBallot, TickHeartbeatLogStep
  <2>7. CASE Tick(i)
    BY <2>5, <2>6, <2>7 DEF Tick, TickElection, TickLease, TickBeat, TickQuorum, r
  <2>8. CASE Propose(i)
    <3>1. PICK v \in Value :
            Moves(i, Step(r, [Msg("MsgProp", i, i) EXCEPT !.entries = <<[term |-> 0, val |-> v]>>]))
      BY <2>8 DEF Propose, r
    <3> DEFINE ents == <<[term |-> 0, val |-> v]>>
               msg == Msg("MsgProp", i, i)
               m == [msg EXCEPT !.entries = ents]
    <3>2. ents \in Seq(Entry) BY DEF Entry
    <3>3. msg \in Message /\ msg.type = "MsgProp" BY MsgIsMessage DEF MsgType, Msg
    <3>4. Moves(i, Step(r, m)) BY <3>1
    <3> HIDE DEF ents, msg
    <3>5. m \in Message /\ m.type = "MsgProp" BY <3>2, <3>3 DEF Message
    <3> HIDE DEF m
    <3> QED BY <2>3, <3>4, <3>5
  <2>9. CASE TransferLeader(i)
    <3>1. PICK to \in Server : Moves(i, Step(r, Msg("MsgTransferLeader", to, i)))
      BY <2>9 DEF TransferLeader, r
    <3> DEFINE m == Msg("MsgTransferLeader", to, i)
    <3>2. m \in Message /\ m.type = "MsgTransferLeader" BY MsgIsMessage DEF MsgType, Msg
    <3>3. Moves(i, Step(r, m)) BY <3>1
    <3> HIDE DEF m
    <3> QED BY <2>3, <3>2, <3>3
  <2>10. CASE ReportUnreachable(i)
    <3>1. PICK id \in Server \ {i} : Moves(i, handleUnreachable(r, id))
      BY <2>10 DEF ReportUnreachable, r
    <3> DEFINE s == handleUnreachable(r, id)
    <3>2. s \in Node /\ Quiet(r, s) BY <2>0, HandleUnreachableType, HandleUnreachableQuiet
    <3>3. Kept(r, s) BY <2>0, HandleUnreachableKept
    <3>4. Steady(r, s) BY <2>0, HandleUnreachableSteady
    <3>5. Moves(i, s) BY <3>1
    <3> HIDE DEF s
    <3>6. LogStep(r, s, {}) BY <2>0, <3>2, <3>3, KeptLogStep
    <3>7. CommitStep(r, s, {}) BY <2>0, <3>4, SteadyMindful DEF CommitStep
    <3>8. {} \in SUBSET net OBVIOUS
    <3> QED BY <2>0, <2>1, <3>2, <3>5, <3>6, <3>7, <3>8, QuietIsBallot, QuietKeepsEvidence
  <2>11. ASSUME NEW types, Receive(i, types) PROVE Goal
    BY <2>4, <2>11 DEF Receive, r
  <2>12. CASE ReceiveAny(i)
    BY <2>11, <2>12 DEF ReceiveAny, ReceiveVote, ReceiveVoteResp, ReceiveApp, ReceiveAppResp,
       ReceiveHeartbeat, ReceiveHeartbeatResp, ReceiveTransferLeader, ReceiveProp,
       ReceiveTimeoutNow
  <2>13. CASE Ready(i)
    <3> DEFINE d == Written(disk[i], node[i])
               dw == [disk EXCEPT ![i] = d]
               nn == net \cup readyMessages(node[i])
    <3>1. /\ d \in Disk /\ d.hs = hardState(node[i]) /\ d.log = node[i].log
          /\ d.synced = disk[i].synced \/ d.synced = node[i].committed
      BY <2>0, WrittenType DEF Written, r
    <3>2. /\ readyMessages(node[i]) \in SUBSET Boxes(node[i])
          /\ readyMessages(node[i]) \in SUBSET Message
      BY <2>0, ReadyMessagesType DEF readyMessages, Boxes, r
    <3>3. node' = [node EXCEPT ![i] = acceptReady(node[i])] /\ disk' = dw /\ net' = nn
      BY <2>13 DEF Ready
    <3> HIDE DEF d
    <3>4. CommitInvariant(node, dw, nn) BY <1>0, <3>1, <3>2, WriteKeepsCommit
    <3>5. /\ dw \in [Server -> Disk] /\ nn \in SUBSET Message
          /\ dw[i].hs = hardState(node[i]) /\ dw[i].log = node[i].log
      BY <1>0, <3>1, <3>2
    <3> HIDE DEF dw, nn
    <3>6. CommitInvariant([node EXCEPT ![i] = acceptReady(node[i])], dw, nn)
      BY <1>0, <3>4, <3>5, AcceptReadyKeepsCommit
    <3>7. CommitInv' BY <3>3, <3>6 DEF CommitInv
    <3>8. \A q \in Node : /\ acceptReady(q) \in Node
                          /\ acceptReady(q).log = q.log /\ acceptReady(q).committed = q.committed
      BY AcceptReadyType DEF acceptReady, Node
    <3>9. Firm(node[i], acceptReady(node[i]))
      <4>1. Firm(node[i], node[i]) BY <1>0, FirmRefl DEF Group
      <4> QED BY <1>0, <3>8, <4>1 DEF Firm
    <3>10. acceptReady(node[i]) \in Node BY <1>0, <3>8
    <3>11. \A k \in Server : Retains(k) BY <3>1, <3>3, <3>9, <3>10, OthersRetain DEF dw
    <3> QED BY <3>7, <3>11
  <2>14. CASE Advance(i)
    <3>1. /\ CommitInvariant([node EXCEPT ![i] = advanceOne(node[i])], disk, net)
          /\ advanceOne(node[i]) \in Node /\ Firm(node[i], advanceOne(node[i]))
      BY <1>0, <2>14, AdvanceKeepsCommit DEF Advance
    <3>2. /\ node' = [node EXCEPT ![i] = advanceOne(node[i])]
          /\ disk' = disk /\ net' = net
      BY <2>14 DEF Advance
    <3>3. CommitInv' BY <3>1, <3>2 DEF CommitInv
    <3>4. disk' = [disk EXCEPT ![i] = disk[i]] BY <1>0, <3>2
    <3>5. \A k \in Server : Retains(k) BY <3>1, <3>2, <3>4, OthersRetain
    <3> QED BY <3>3, <3>5
  <2>15. ASSUME NEW d \in Disk, RestartFrom(i, d), net' = net, d.hs = disk[i].hs,
                d.synced = disk[i].synced, d.log \in {disk[i].log, node[i].log}
         PROVE  Goal
    <3>1. CommitInv' BY <2>15, RestartedKeepsCommit
    <3>2. PICK c \in d.synced..d.hs.Commit :
            LET hs == [d.hs EXCEPT !.Commit = c]
            IN  /\ disk' = [disk EXCEPT ![i] = [hs |-> hs, log |-> d.log, synced |-> c]]
                /\ node' = [node EXCEPT ![i] = newRaft(i, Server, hs, d.log)]
      BY <2>15 DEF RestartFrom
    <3> DEFINE hs == [d.hs EXCEPT !.Commit = c]
               e == [hs |-> hs, log |-> d.log, synced |-> c]
               s == newRaft(i, Server, hs, d.log)
    <3>3. disk' = [disk EXCEPT ![i] = e] /\ node' = [node EXCEPT ![i] = s] /\ e.log = d.log
      BY <3>2
    <3>4. s \in Node
      <4>1. c \in Nat /\ d.log \in Seq(Entry) /\ d.hs \in HardState BY DEF Disk, HardState
      <4>2. hs \in HardState BY <4>1 DEF HardState
      <4> HIDE DEF hs
      <4> QED BY <4>1, <4>2, NewRaftType DEF HardState
    <3> HIDE DEF e, s
    <3>5. used'["restarts"] # used["restarts"]
      <4>1. used \in [Event -> Nat] BY DEF TypeOK
      <4>2. used' = [used EXCEPT !["restarts"] = @ + 1] BY <2>15 DEF RestartFrom, Count
      <4>3. "restarts" \in Event BY DEF Event
      <4>4. used["restarts"] \in Nat BY <4>1, <4>3
      <4>5. used'["restarts"] = used["restarts"] + 1 BY <4>1, <4>2, <4>3
      <4> QED BY <4>4, <4>5
    <3>6. e.log \in {disk[i].log, node[i].log} BY <2>15, <3>3
    <3>7. \A k \in Server : Retains(k) BY <3>3, <3>4, <3>5, <3>6, OthersRetain
    <3> QED BY <3>1, <3>7
  <2>16. CASE Restart(i)
    <3>1. RestartFrom(i, disk[i]) /\ net' = net BY <2>16 DEF Restart
    <3> QED BY <2>0, <2>15, <3>1
  <2>17. CASE CrashInReady(i)
    <3> DEFINE half == [disk[i] EXCEPT !.log = node[i].log]
    <3>1. /\ half \in Disk /\ half.hs = disk[i].hs /\ half.log = node[i].log
          /\ half.synced = disk[i].synced
      BY <2>0 DEF Disk, Node, r
    <3>2. RestartFrom(i, half) /\ net' = net BY <2>17 DEF CrashInReady, EntriesFirst
    <3> HIDE DEF half
    <3> QED BY <2>15, <3>1, <3>2
  <2> QED BY <1>2, <2>7, <2>8, <2>9, <2>10, <2>12, <2>13, <2>14, <2>16, <2>17 DEF LocalCall
<1> QED BY <1>1, <1>2 DEF Next

\* What is committed was chosen by a quorum and is never lost, in every
\* reachable state (maybeCommit, maybeAppend, the votes and the Ready cycle), as
\* long as a Ready's hard state is not written without its entries.
THEOREM CommitInvariance == EntriesFirst => (Spec => []CommitInv)
<1> SUFFICES ASSUME EntriesFirst PROVE Spec => []CommitInv OBVIOUS
<1>1. TypeOK /\ Init => CommitInv BY CommitInit
<1>2. TypeOK /\ CommitInv /\ [Next]_vars => CommitInv' BY CommitNext
<1>3. Spec => []TypeOK BY TypeCorrect
<1> QED BY <1>1, <1>2, <1>3, PTL DEF Spec
----------------------------------------------------------------------------
(* What follows *)

\* A prefix of a log, entry by entry.
LEMMA PrefixIs ==
    ASSUME NEW log \in Seq(Entry), NEW n \in Nat, n <= Len(log)
    PROVE  /\ SubSeq(log, 1, n) \in Seq(Entry) /\ Len(SubSeq(log, 1, n)) = n
           /\ \A k \in 1..n : SubSeq(log, 1, n)[k] = log[k]
<1>1. Len(log) \in Nat BY LenProperties
<1>2. \A k \in 1..n : k \in 1..Len(log) BY <1>1
<1>3. \A k \in 1..n : log[k] \in Entry BY <1>2, ElementOfSeq
<1> QED BY <1>3, SubSeqProperties

LEMMA AgreePrefix ==
    ASSUME NEW a \in Seq(Entry), NEW b \in Seq(Entry), NEW n \in Nat, Agree(a, b, n)
    PROVE  SubSeq(a, 1, n) = SubSeq(b, 1, n)
<1>1. n <= Len(a) /\ n <= Len(b) /\ \A k \in 1..n : a[k] = b[k] BY DEF Agree
<1> DEFINE p == SubSeq(a, 1, n)
           q == SubSeq(b, 1, n)
<1>2. /\ p \in Seq(Entry) /\ Len(p) = n /\ \A k \in 1..n : p[k] = a[k]
      /\ q \in Seq(Entry) /\ Len(q) = n /\ \A k \in 1..n : q[k] = b[k]
  BY <1>1, PrefixIs
<1> HIDE DEF p, q
<1>3. p = q BY <1>1, <1>2, SeqEqual
<1> QED BY <1>3 DEF p, q

LEMMA CommittedSealed ==
    ASSUME TypeOK, CommitInv, NEW i \in Server
    PROVE  /\ Group(node, disk, net) /\ CommitInvariant(node, disk, net)
           /\ node[i].log \in Seq(Entry) /\ node[i].committed \in Nat /\ node[i].Term \in Nat
           /\ disk[i].log \in Seq(Entry)
           /\ Sealed(node[i].log, node[i].committed, node[i].Term, node, disk, net)
           /\ node[i].committed <= Len(node[i].log)
<1>1. Group(node, disk, net) /\ CommitInvariant(node, disk, net)
  BY DEF TypeOK, CommitInv, Group
<1>2. /\ node[i].log \in Seq(Entry) /\ node[i].committed \in Nat /\ node[i].Term \in Nat
      /\ disk[i].log \in Seq(Entry)
  BY <1>1, GroupLogs
<1>3. Sealed(node[i].log, node[i].committed, node[i].Term, node, disk, net)
  BY <1>1 DEF CommitInvariant, SealInvariant
<1>4. node[i].committed <= Len(node[i].log) BY <1>2, <1>3, SealedLen
<1> QED BY <1>1, <1>2, <1>3, <1>4

LEMMA StateMachinesSafe == TypeOK /\ CommitInv => StateMachineSafety
<1> SUFFICES ASSUME TypeOK, CommitInv, NEW i \in Server, NEW j \in Server,
                    NEW k \in 1..Least(node[i].committed, node[j].committed)
             PROVE  node[i].log[k] = node[j].log[k]
  BY DEF StateMachineSafety
<1>1. /\ Group(node, disk, net) /\ CommitInvariant(node, disk, net)
      /\ \A l \in {i, j} :
           /\ node[l].log \in Seq(Entry) /\ node[l].committed \in Nat
           /\ Sealed(node[l].log, node[l].committed, node[l].Term, node, disk, net)
  BY CommittedSealed
<1>2. k \in 1..node[i].committed /\ k \in 1..node[j].committed BY <1>1 DEF Least
<1>3. CASE node[i].committed <= node[j].committed
  <2>1. Agree(node[i].log, node[j].log, node[i].committed) BY <1>1, <1>3, SealedAgree
  <2> QED BY <1>2, <2>1 DEF Agree
<1>4. CASE node[j].committed <= node[i].committed
  <2>1. Agree(node[j].log, node[i].log, node[j].committed) BY <1>1, <1>4, SealedAgree
  <2> QED BY <1>2, <2>1 DEF Agree
<1> QED BY <1>1, <1>3, <1>4

LEMMA LeadersComplete == TypeOK /\ CommitInv => LeaderCompleteness
<1> SUFFICES ASSUME TypeOK, CommitInv, NEW i \in Leaders, NEW j \in Server,
                    node[j].Term <= node[i].Term
             PROVE  /\ node[j].committed <= Len(node[i].log)
                    /\ CommittedLog(j) = SubSeq(node[i].log, 1, node[j].committed)
  BY DEF LeaderCompleteness
<1>1. i \in Server /\ node[i].state = "StateLeader" BY DEF Leaders
<1> DEFINE n == node[j].committed
           t == node[j].Term
<1>2. /\ Group(node, disk, net) /\ CommitInvariant(node, disk, net)
      /\ node[i].log \in Seq(Entry) /\ node[i].Term \in Nat
      /\ node[j].log \in Seq(Entry) /\ n \in Nat /\ t \in Nat /\ n <= Len(node[j].log)
      /\ Sealed(node[j].log, n, t, node, disk, net)
  BY <1>1, CommittedSealed
<1> HIDE DEF n, t
<1>3. t <= node[i].Term BY DEF t
<1>4. Agree(node[j].log, node[i].log, n)
  <2>1. CASE n = 0 BY <1>2, <2>1, AgreeNone
  <2>2. CASE n # 0
    <3>1. PICK a \in LiveKeys(node, disk, net) :
            a.at >= n /\ a.term <= t /\ Agree(node[j].log, node[a.owner].log, n)
      BY <1>2, <2>2 DEF Sealed
    <3>2. a.at \in Nat /\ a.term \in Nat /\ a.owner \in Server BY <1>2, LiveIs
    <3>3. a.term <= node[i].Term BY <1>2, <1>3, <3>1, <3>2
    <3>4. /\ Has(node[i].log, a.at, a.term) /\ Has(node[a.owner].log, a.at, a.term)
      BY <1>1, <1>2, <3>3 DEF CommitInvariant, KeyInvariant, Placed
    <3>5. node[a.owner].log \in Seq(Entry) BY <1>2, <3>2, GroupLogs
    <3>6. Matched(node[a.owner].log, node[i].log)
      BY <1>1, <1>2, <3>2, GroupMatched DEF CommitInvariant, ClusterInvariant
    <3>7. Agree(node[a.owner].log, node[i].log, a.at) BY <1>2, <3>4, <3>5, <3>6, HasAgree
    <3>8. Agree(node[a.owner].log, node[i].log, n) BY <1>2, <3>1, <3>2, <3>5, <3>7, AgreeLess
    <3> QED BY <3>1, <3>8, AgreeTrans
  <2> QED BY <2>1, <2>2
<1>5. SubSeq(node[j].log, 1, n) = SubSeq(node[i].log, 1, n) BY <1>2, <1>4, AgreePrefix
<1>6. n <= Len(node[i].log) BY <1>4 DEF Agree
<1> QED BY <1>5, <1>6 DEF n, CommittedLog

\* More than a quorum is a quorum.
LEMMA QuorumMore ==
    ASSUME NEW Q \in SUBSET Server, NEW R \in SUBSET Server, Q \subseteq R, IsQuorum(Q, Server)
    PROVE  IsQuorum(R, Server)
<1>1. IsFiniteSet(R) /\ IsFiniteSet(Q) BY ServerAssumption, FS_Subset
<1>2. Cardinality(Q) <= Cardinality(R) BY <1>1, FS_Subset
<1>3. Cardinality(Q) \in Nat /\ Cardinality(R) \in Nat /\ Cardinality(Server) \in Nat
  BY <1>1, ServerAssumption, FS_CardinalityType
<1> QED BY <1>2, <1>3 DEF IsQuorum

LEMMA CommitsAreOnDisks == TypeOK /\ CommitInv => CommittedOnDisks
<1> SUFFICES ASSUME TypeOK, CommitInv, NEW i \in Server, NEW k \in 1..node[i].committed
             PROVE  IsQuorum({j \in Server : Len(disk[j].log) >= k
                                             /\ disk[j].log[k] = node[i].log[k]}, Server)
  BY DEF CommittedOnDisks
<1> DEFINE n == node[i].committed
<1>1. /\ Group(node, disk, net) /\ CommitInvariant(node, disk, net)
      /\ node[i].log \in Seq(Entry) /\ n \in Nat
      /\ Sealed(node[i].log, n, node[i].Term, node, disk, net)
  BY CommittedSealed
<1>2. k \in 1..n OBVIOUS
<1> HIDE DEF n
<1>3. PICK a \in LiveKeys(node, disk, net) :
        a.at >= n /\ Chosen(a, disk, net) /\ Agree(node[i].log, node[a.owner].log, n)
  BY <1>1, <1>2 DEF Sealed
<1>4. /\ a \in Key /\ a.at \in Nat /\ a.term \in Nat /\ a.owner \in Server BY <1>1, LiveIs
<1> DEFINE b == node[a.owner].log
<1>5. b \in Seq(Entry) /\ Has(b, a.at, a.term)
  BY <1>1, <1>4, GroupLogs DEF CommitInvariant, KeyInvariant, Placed
<1>6. PICK Q \in SUBSET Server : IsQuorum(Q, Server) /\ \A j \in Q : Holds(j, a, net)
  BY <1>3 DEF Chosen
<1>7. k \in Nat /\ k <= a.at /\ k \in 1..a.at BY <1>1, <1>2, <1>3, <1>4
<1>8. node[i].log[k] = b[k] BY <1>2, <1>3 DEF Agree
<1>9. ASSUME NEW j \in Q PROVE Agree(disk[j].log, b, a.at)
  <2>0. j \in Server /\ disk[j].log \in Seq(Entry) BY <1>1, GroupLogs
  <2>1. CASE j = a.owner
    <3>1. Has(disk[j].log, a.at, a.term) BY <1>3, <2>1 DEF Chosen
    <3>2. Matched(disk[j].log, b)
      BY <1>1, <1>4, <2>0, GroupMatched DEF CommitInvariant, ClusterInvariant
    <3> HIDE DEF b
    <3> QED BY <1>5, <2>0, <3>1, <3>2, HasAgree
  <2>2. CASE j # a.owner
    <3>1. PICK m \in net : Acknowledges(m) /\ m.from = j /\ m.term = a.term /\ m.index >= a.at
      BY <1>6, <2>2 DEF Holds, Acked
    <3>2. m.index \in Nat BY <1>1 DEF Group, Message
    <3>3. Backs(m, disk[m.from].log, disk[m.from].hs.Term, node, disk, net)
      BY <1>1 DEF CommitInvariant, AckInvariant
    <3>4. a.term <= m.term BY <1>4, <3>1
    <3>5. Copies(disk[j].log, m.index, a, b) BY <3>1, <3>3, <3>4 DEF Backs
    <3>6. Least(m.index, a.at) = a.at BY <1>4, <3>1, <3>2, LeastIs
    <3> QED BY <3>5, <3>6 DEF Copies
  <2> QED BY <2>1, <2>2
<1> HIDE DEF b
<1> DEFINE R == {j \in Server : Len(disk[j].log) >= k /\ disk[j].log[k] = node[i].log[k]}
<1>10. ASSUME NEW j \in Q PROVE j \in R
  <2>1. Agree(disk[j].log, b, a.at) BY <1>9
  <2>2. disk[j].log[k] = b[k] /\ a.at <= Len(disk[j].log) BY <1>7, <2>1 DEF Agree
  <2>3. disk[j].log \in Seq(Entry) BY <1>1, GroupLogs
  <2>4. Len(disk[j].log) \in Nat BY <2>3, LenProperties
  <2>5. Len(disk[j].log) >= k BY <1>4, <1>7, <2>2, <2>4
  <2> QED BY <1>8, <2>2, <2>5
<1>11. Q \subseteq R /\ R \in SUBSET Server BY <1>10
<1> HIDE DEF R
<1>12. IsQuorum(R, Server) BY <1>6, <1>11, QuorumMore
<1> QED BY <1>12 DEF R

LEMMA CommitsAreKept ==
    ASSUME TypeOK, CommitInv, TypeOK', \A i \in Server : Retains(i)
    PROVE  CommittedKept
<1> SUFFICES ASSUME NEW i \in Server
             PROVE  /\ \A k \in 1..node[i].committed :
                         k <= Len(disk[i].log) /\ disk[i].log[k] = node[i].log[k]
                         => Len(disk'[i].log) >= k /\ disk'[i].log[k] = disk[i].log[k]
                    /\ used'["restarts"] = used["restarts"] =>
                         node'[i].committed >= node[i].committed
                         /\ SubSeq(node'[i].log, 1, node[i].committed) = CommittedLog(i)
  BY DEF CommittedKept
<1> DEFINE a == node[i].log
           n == node[i].committed
           e == disk'[i].log
<1>1. a \in Seq(Entry) /\ n \in Nat /\ disk[i].log \in Seq(Entry) /\ n <= Len(a)
  BY CommittedSealed
<1>2. /\ node'[i].log \in Seq(Entry) /\ node'[i].committed \in Nat /\ e \in Seq(Entry)
  BY DEF TypeOK, Node, Disk
<1>3. /\ used'["restarts"] = used["restarts"] => Firm(node[i], node'[i])
      /\ e \in {disk[i].log, a} \/ Agree(a, e, n)
  BY DEF Retains
<1>4. ASSUME NEW k \in 1..n, k <= Len(disk[i].log), disk[i].log[k] = a[k]
      PROVE  Len(e) >= k /\ e[k] = disk[i].log[k]
  <2>1. Len(disk[i].log) \in Nat /\ Len(a) \in Nat /\ Len(e) \in Nat BY <1>1, <1>2, LenProperties
  <2> HIDE DEF a, n, e
  <2>2. CASE e = disk[i].log BY <1>1, <1>4, <2>1, <2>2
  <2>3. CASE e = a BY <1>1, <1>4, <2>1, <2>3
  <2>4. CASE Agree(a, e, n)
    <3>1. n <= Len(e) /\ a[k] = e[k] BY <2>4 DEF Agree
    <3> QED BY <1>1, <1>4, <2>1, <3>1
  <2> QED BY <1>3, <2>2, <2>3, <2>4
<1>5. ASSUME used'["restarts"] = used["restarts"]
      PROVE  node'[i].committed >= n /\ SubSeq(node'[i].log, 1, n) = CommittedLog(i)
  <2>1. n <= node'[i].committed /\ Agree(a, node'[i].log, n) BY <1>3, <1>5 DEF Firm
  <2>2. node'[i].committed >= n BY <1>1, <1>2, <2>1
  <2>3. SubSeq(a, 1, n) = SubSeq(node'[i].log, 1, n) BY <1>1, <1>2, <2>1, AgreePrefix
  <2> QED BY <2>2, <2>3 DEF CommittedLog
<1> QED BY <1>4, <1>5

\* Two servers never commit different entries at one index, in every reachable
\* state (maybeCommit, maybeAppend, handleHeartbeat, the restart).
THEOREM CommitsAgree == EntriesFirst => (Spec => []StateMachineSafety)
<1> SUFFICES ASSUME EntriesFirst PROVE Spec => []StateMachineSafety OBVIOUS
<1>1. Spec => []TypeOK BY TypeCorrect
<1>2. Spec => []CommitInv BY CommitInvariance
<1> QED BY <1>1, <1>2, StateMachinesSafe, PTL

\* A leader has whatever was committed in its own term or before (isUpToDate,
\* the votes in Step, maybeCommit's term check).
THEOREM LeadersHaveCommits == EntriesFirst => (Spec => []LeaderCompleteness)
<1> SUFFICES ASSUME EntriesFirst PROVE Spec => []LeaderCompleteness OBVIOUS
<1>1. Spec => []TypeOK BY TypeCorrect
<1>2. Spec => []CommitInv BY CommitInvariance
<1> QED BY <1>1, <1>2, LeadersComplete, PTL

\* What any server has committed is on the disks of a quorum (msgsAfterAppend).
THEOREM CommitsOnDisks == EntriesFirst => (Spec => []CommittedOnDisks)
<1> SUFFICES ASSUME EntriesFirst PROVE Spec => []CommittedOnDisks OBVIOUS
<1>1. Spec => []TypeOK BY TypeCorrect
<1>2. Spec => []CommitInv BY CommitInvariance
<1> QED BY <1>1, <1>2, CommitsAreOnDisks, PTL

\* Nothing committed is rewritten, and no commit index moves back but by a crash
\* (commitTo, maybeAppend, newRaft).
THEOREM CommitsStay == EntriesFirst => (Spec => CommittedStable)
<1> SUFFICES ASSUME EntriesFirst PROVE Spec => CommittedStable OBVIOUS
<1>1. Spec => []TypeOK BY TypeCorrect
<1>2. Spec => []CommitInv BY CommitInvariance
<1>3. TypeOK /\ TypeOK' /\ CommitInv /\ [Next]_vars => CommittedKept
  BY CommitNext, CommitsAreKept
<1> QED BY <1>1, <1>2, <1>3, PTL DEF Spec, CommittedStable
=============================================================================
