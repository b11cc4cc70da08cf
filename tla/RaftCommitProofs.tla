--------------------------- MODULE RaftCommitProofs ---------------------------
(***************************************************************************)
(* What is committed stays, for every group and every configuration: the   *)
(* second half of the proof of StateMachineSafety and LeaderCompleteness.  *)
(*                                                                         *)
(* First, what one step of a server does to its commit index, to what it   *)
(* knows of its followers, and to what it promises: the operators of       *)
(* RaftNode, one after the other.  Steady is for the operators that only   *)
(* send; Mindful is for a whole step and names for each change the message *)
(* it owes to.                                                             *)
(*                                                                         *)
(* Then, what the steps of the group do.  A Ready, a write and a restart   *)
(* say nothing new, and are treated as one kind of step (Settles).  A step *)
(* of a server may add keys (a leader's own), acknowledge keys, vote, win  *)
(* a term and commit: it keeps every live key where it must be, and what   *)
(* it commits was chosen.                                                  *)
(***************************************************************************)
EXTENDS RaftCommits, RaftLogProofs

----------------------------------------------------------------------------
(* What a step may do *)

\* What a leader reports of its log and its commit index.
Proper(w, s) ==
    /\ w.type = "MsgApp" =>
         /\ s.state = "StateLeader" /\ w.term = s.Term
         /\ Slice(w, s.log) /\ w.commit <= s.committed
    /\ w.type = "MsgHeartbeat" =>
         /\ s.state = "StateLeader" /\ w.term = s.Term /\ w.from = s.id /\ w.to \in Server \ {s.id}
         /\ w.commit = Least(s.prs[w.to].Match, s.committed)

\* A message that promises nothing.
Idle(w, r) ==
    /\ Proper(w, r) /\ w.type # "MsgVote" /\ ~Granted(w)
    /\ Acknowledges(w) => w.index = 0 /\ w.from = r.id /\ w.term = r.Term

\* From r to s nothing changes but outboxes and the pace of sending.
Steady(r, s) ==
    /\ s.id = r.id /\ s.voters = r.voters /\ s.state = r.state /\ s.Term = r.Term
    /\ s.log = r.log /\ s.committed = r.committed
    /\ \A d \in Server : s.prs[d].Match = r.prs[d].Match
    /\ \A w \in Boxes(s) : w \in Boxes(r) \/ Idle(w, r)
    /\ \A w \in Withheld(s) : w \in Withheld(r) \/ w.type \in AfterAppendTypes

\* A MsgApp that fits r's log, and contradicts what r has committed.
Clash(r, v) ==
    /\ v.type = "MsgApp" /\ v.term >= r.Term /\ matchTerm(r.log, v.index, v.logTerm)
    /\ findConflict(r.log, v.index, v.entries) \in 1..r.committed

\* The log once the entries of the MsgApp v were appended.
Spliced(log, v) ==
    LET ci == findConflict(log, v.index, v.entries)
    IN  IF ci = 0 THEN log
        ELSE SubSeq(log, 1, ci - 1) \o SubSeq(v.entries, ci - v.index, Len(v.entries))

\* From r to s the server took in the MsgApp v.
Taken(r, s, v) ==
    /\ v.type = "MsgApp" /\ v.term = s.Term /\ v.term > 0 /\ s.state = "StateFollower"
    /\ matchTerm(r.log, v.index, v.logTerm) /\ s.log = Spliced(r.log, v)

\* What s acknowledges is on its log: a leader's own, what it has committed, or
\* what a MsgApp told.
AckFits(w, r, s, N) ==
    /\ w.from = s.id /\ w.term = s.Term
    /\ \/ w.index = 0
       \/ s.state = "StateLeader" /\ s.Term > 0 /\ w.index = Len(s.log)
       \/ /\ s.state = "StateFollower"
          /\ \E v \in N : /\ v.type = "MsgApp" /\ v.term = s.Term /\ v.term > 0
                          /\ \/ w.index <= r.committed
                             \/ Taken(r, s, v) /\ w.index = v.index + Len(v.entries)

\* A request for votes tells the candidate's log; a vote went to a log no worse.
VoteFits(w, s, N) ==
    /\ w.type = "MsgVote" =>
         s.state = "StateCandidate" /\ w.index = Len(s.log) /\ w.logTerm = lastTerm(s.log)
    /\ Granted(w) /\ w.to # s.id =>
         \E v \in N : /\ v.type = "MsgVote" /\ v.from = w.to /\ v.term = w.term
                      /\ isUpToDate(s.log, v.index, v.logTerm)

\* Why the commit index moved: a quorum of acknowledgements of an entry of the
\* leader's term, a MsgApp that was taken in, or a heartbeat.
CommitFits(r, s, N) ==
    \/ /\ s.state = "StateLeader" /\ r.state = "StateLeader" /\ Has(s.log, s.committed, s.Term)
       /\ IsQuorum({d \in s.voters : s.prs[d].Match >= s.committed}, s.voters)
    \/ \E v \in N : /\ Taken(r, s, v) /\ s.committed <= v.commit
                    /\ s.committed <= v.index + Len(v.entries)
    \/ \E v \in N : /\ v.type = "MsgHeartbeat" /\ v.to = s.id /\ v.term = s.Term
                    /\ s.log = r.log /\ s.committed = v.commit /\ s.committed <= Len(s.log)

\* Why Match of server d is what it is at the leader s.
MatchFits(d, r, s, N) ==
    \/ r.state = "StateLeader" /\ s.prs[d].Match = r.prs[d].Match
    \/ /\ r.state = "StateLeader"
       /\ \E v \in N : /\ Acknowledges(v) /\ v.from = d /\ v.term \in {0, s.Term}
                       /\ v.index > 0 /\ s.prs[d].Match = v.index
    \/ r.state = "StateCandidate" /\ s.prs[d].Match = IF d = s.id THEN Len(r.log) ELSE 0

\* What a step may send.
Fitting(w, r, s, N) ==
    Proper(w, s) /\ (Acknowledges(w) => AckFits(w, r, s, N)) /\ VoteFits(w, s, N)

\* A step from r to s of a server that may read the messages N.
Mindful(r, s, N) ==
    /\ \/ s.log = r.log
       \/ s.state = "StateLeader"
       \/ \E v \in N : Taken(r, s, v)
    /\ s.state = "StateLeader" =>
         \/ r.state = "StateLeader"
         \/ r.state = "StateCandidate" /\ Len(s.log) > Len(r.log)
    /\ s.committed # r.committed => s.committed > r.committed /\ CommitFits(r, s, N)
    /\ s.state = "StateLeader" => \A d \in Server : MatchFits(d, r, s, N)
    /\ \A w \in Boxes(s) : w \in Boxes(r) \/ Fitting(w, r, s, N)
    /\ \A w \in Withheld(s) : w \in Withheld(r) \/ w.type \in AfterAppendTypes

CommitStep(r, s, N) == Mindful(r, s, N) \/ \E v \in N : Clash(r, v)

----------------------------------------------------------------------------
(* Sending *)

LEMMA SteadyRefl == ASSUME NEW r PROVE Steady(r, r)
BY DEF Steady

LEMMA SteadyTrans ==
    ASSUME NEW r, NEW s, NEW t, Steady(r, s), Steady(s, t)
    PROVE  Steady(r, t)
<1>1. \A w : Idle(w, s) => Idle(w, r) BY DEF Idle, Proper, Steady
<1> QED BY <1>1 DEF Steady

LEMMA SendWithheld ==
    ASSUME NEW r \in Node, NEW m \in Message, NEW w \in Withheld(send(r, m))
    PROVE  w \in Withheld(r) \/ w.type \in AfterAppendTypes
<1> DEFINE s == send(r, m)
           q == Outgoing(r, m)
<1>1. q \in Message /\ q.type = m.type /\ m.to \in Server BY DEF Outgoing, Message, Node
<1>2. r.after \in [Server -> Seq(Message)] BY DEF Node
<1>3. \/ s.after = r.after
      \/ m.type \in AfterAppendTypes /\ s.after = [r.after EXCEPT ![m.to] = Append(@, q)]
  BY DEF send, Panic, Outgoing, Node
<1> HIDE DEF s, q
<1>4. PICK d \in Server : w \in Range(s.after[d]) BY DEF Withheld, s
<1>5. CASE s.after = r.after BY <1>4, <1>5 DEF Withheld
<1>6. CASE m.type \in AfterAppendTypes /\ s.after = [r.after EXCEPT ![m.to] = Append(@, q)]
  <2>1. w \in Range(r.after[d]) \/ w \in Range(Append(r.after[d], q))
    BY <1>2, <1>4, <1>6
  <2>2. w \in Range(r.after[d]) \/ w = q BY <1>1, <1>2, <2>1, RangeAppend
  <2> QED BY <1>1, <1>6, <2>2 DEF Withheld
<1> QED BY <1>3, <1>5, <1>6

\* What send leaves alone.
LEMMA SendKeeps ==
    ASSUME NEW r \in Node, NEW m \in Message
    PROVE  LET s == send(r, m)
           IN  /\ s.id = r.id /\ s.voters = r.voters /\ s.state = r.state /\ s.Term = r.Term
               /\ s.log = r.log /\ s.committed = r.committed /\ s.prs = r.prs
BY DEF send, Panic, Node

LEMMA SendSteady ==
    ASSUME NEW r \in Node, NEW m \in Message, Idle(Outgoing(r, m), r)
    PROVE  Steady(r, send(r, m))
<1> DEFINE s == send(r, m)
<1>1. /\ s.id = r.id /\ s.voters = r.voters /\ s.state = r.state /\ s.Term = r.Term
      /\ s.log = r.log /\ s.committed = r.committed /\ s.prs = r.prs
  BY SendKeeps
<1>2. \A w \in Boxes(s) : w \in Boxes(r) \/ w = Outgoing(r, m) BY SendBoxes
<1>3. \A w \in Withheld(s) : w \in Withheld(r) \/ w.type \in AfterAppendTypes BY SendWithheld
<1> HIDE DEF s
<1> QED BY <1>1, <1>2, <1>3 DEF Steady, s

\* What neither counts nor promises anything.
LEMMA SendOtherSteady ==
    ASSUME NEW r \in Node, NEW m \in Message,
           m.type \notin {"MsgApp", "MsgHeartbeat", "MsgVote", "MsgVoteResp", "MsgAppResp"}
    PROVE  Steady(r, send(r, m))
<1>1. Outgoing(r, m).type = m.type BY DEF Outgoing, Message
<1>2. Idle(Outgoing(r, m), r) BY <1>1 DEF Idle, Proper, Granted, Acknowledges
<1> QED BY <1>2, SendSteady

\* From r to s all that Steady is about stays, messages too.
LEMMA SameSteady ==
    ASSUME NEW r, NEW s, s.id = r.id, s.voters = r.voters, s.state = r.state, s.Term = r.Term,
           s.log = r.log, s.committed = r.committed, s.msgs = r.msgs, s.after = r.after,
           \A d \in Server : s.prs[d].Match = r.prs[d].Match
    PROVE  Steady(r, s)
<1>1. Boxes(s) = Boxes(r) BY SameBoxes
<1>2. Withheld(s) = Withheld(r) BY DEF Withheld
<1> QED BY <1>1, <1>2 DEF Steady

LEMMA PanicSteady == ASSUME NEW r \in Node PROVE Steady(r, Panic(r))
<1> DEFINE s == Panic(r)
<1>1. /\ s.id = r.id /\ s.voters = r.voters /\ s.state = r.state /\ s.Term = r.Term
      /\ s.log = r.log /\ s.committed = r.committed /\ s.msgs = r.msgs /\ s.after = r.after
      /\ s.prs = r.prs
  BY DEF Panic, Node
<1> HIDE DEF s
<1>2. Steady(r, s) BY <1>1, SameSteady
<1> QED BY <1>2 DEF s

LEMMA ProgressSteady ==
    ASSUME NEW r \in Node, NEW d \in Server, NEW pr, pr.Match = r.prs[d].Match
    PROVE  Steady(r, [r EXCEPT !.prs[d] = pr])
<1> DEFINE s == [r EXCEPT !.prs[d] = pr]
<1>1. /\ s.id = r.id /\ s.voters = r.voters /\ s.state = r.state /\ s.Term = r.Term
      /\ s.log = r.log /\ s.committed = r.committed /\ s.msgs = r.msgs /\ s.after = r.after
      /\ \A e \in Server : s.prs[e] = IF e = d THEN pr ELSE r.prs[e]
  BY DEF Node
<1> HIDE DEF s
<1>2. Steady(r, s) BY <1>1, SameSteady
<1> QED BY <1>2 DEF s

----------------------------------------------------------------------------
(* A leader's appends and heartbeats *)

\* What a MsgApp tells is a part of the sender's log.
LEMMA AppMsgProper ==
    ASSUME NEW r \in Node, r.state = "StateLeader", NEW to \in Server, NEW next \in Nat \ {0},
           next - 1 <= Len(r.log)
    PROVE  Idle([AppMsg(r, to, next) EXCEPT !.term = r.Term], r)
<1> DEFINE log == r.log
           m == [AppMsg(r, to, next) EXCEPT !.term = r.Term]
           n == Least(Len(log), next + MaxEntries - 1)
<1>1. log \in Seq(Entry) /\ Len(log) \in Nat /\ MaxEntries \in Nat \ {0}
  BY LenProperties, ConfigAssumption DEF Node
<1>2. /\ m.type = "MsgApp" /\ m.index = next - 1 /\ m.logTerm = TermAt(log, next - 1)
      /\ m.entries = SubSeq(log, next, n) /\ m.commit = r.committed /\ m.term = r.Term
  BY DEF AppMsg, Msg, Entries
<1>3. r.committed \in Nat BY DEF Node
<1> HIDE DEF m
<1>4. n \in Nat /\ n <= Len(log)
  <2>1. next + MaxEntries - 1 \in Nat BY <1>1
  <2> QED BY <1>1, <2>1, LeastType
<1> HIDE DEF n, log
<1>5. \A i \in next..n : log[i] \in Entry
  <2>1. \A i \in next..n : i \in 1..Len(log) BY <1>1, <1>4
  <2> QED BY <1>1, <2>1, ElementOfSeq
<1>6. /\ Len(m.entries) = IF next <= n THEN n - next + 1 ELSE 0
      /\ \A k \in 1..Len(m.entries) : m.entries[k] = log[next + k - 1]
  BY <1>2, <1>4, <1>5, SubSeqProperties
<1>7. Slice(m, log)
  <2>1. m.index + Len(m.entries) <= Len(log) BY <1>1, <1>2, <1>4, <1>6 DEF log
  <2>2. \A k \in 1..Len(m.entries) : next + k - 1 = m.index + k BY <1>1, <1>2, <1>4, <1>6
  <2> QED BY <1>2, <1>6, <2>1, <2>2 DEF Slice
<1>8. Idle(m, r) BY <1>2, <1>3, <1>7 DEF Idle, Proper, Granted, Acknowledges, log
<1> QED BY <1>8 DEF m

LEMMA SendAppSteady ==
    ASSUME NEW r \in Node, NEW m \in Message, m.type = "MsgApp",
           Idle([m EXCEPT !.term = r.Term], r)
    PROVE  Steady(r, sendApp(r, m))
<1> DEFINE to == m.to
           pr == r.prs[to]
           n == Len(m.entries)
           sent == UpdateOnEntriesSend(pr, n, pr.Next)
           s == [r EXCEPT !.prs[to] = sent]
<1>1. to \in Server /\ n \in Nat BY LenProperties DEF Message
<1>2. sent \in Progress BY <1>1, UpdateOnEntriesSendType DEF Node
<1>3. sent.Match = r.prs[to].Match
  <2>1. pr \in Progress BY <1>1 DEF Node
  <2> QED BY <2>1 DEF UpdateOnEntriesSend, Progress
<1> HIDE DEF sent, to
<1>4. s \in Node /\ Steady(r, s) BY <1>1, <1>2, <1>3, ProgressOf, ProgressSteady
<1>5. s.Term = r.Term BY DEF Node
<1>6. sendApp(r, m) = send(s, m) BY DEF sendApp, sent, to
<1> HIDE DEF s
<1>7. Outgoing(s, m) = [m EXCEPT !.term = r.Term] BY <1>5 DEF Outgoing, VoteTypes
<1>8. \A w : Idle(w, r) => Idle(w, s) BY <1>4 DEF Steady, Idle, Proper
<1>9. Steady(s, send(s, m)) BY <1>4, <1>7, <1>8, SendSteady
<1> QED BY <1>4, <1>6, <1>9, SteadyTrans

LEMMA MaybeSendAppendSteady ==
    ASSUME NEW r \in Node, r.state = "StateLeader", NEW to \in Server, NEW sendIfEmpty \in BOOLEAN
    PROVE  Steady(r, maybeSendAppend(r, to, sendIfEmpty))
<1> DEFINE next == r.prs[to].Next
           m == AppMsg(r, to, next)
<1>1. next \in Nat \ {0} /\ Len(r.log) \in Nat BY LenProperties DEF Node, Progress
<1>2. maybeSendAppend(r, to, sendIfEmpty) =
        IF IsPaused(r.prs[to]) \/ (next > Len(r.log) /\ ~sendIfEmpty) THEN r
        ELSE IF next - 1 > Len(r.log)
        THEN IF r.prs[to].RecentActive THEN Panic(r) ELSE r
        ELSE sendApp(r, m)
  BY DEF maybeSendAppend
<1> HIDE DEF next
<1>3. ASSUME ~(next - 1 > Len(r.log)) PROVE Steady(r, sendApp(r, m))
  <2>1. m \in Message BY <1>1, AppMsgType
  <2>2. m.type = "MsgApp" BY DEF AppMsg, Msg
  <2>3. Idle([m EXCEPT !.term = r.Term], r) BY <1>1, <1>3, AppMsgProper
  <2> HIDE DEF m
  <2> QED BY <2>1, <2>2, <2>3, SendAppSteady
<1> HIDE DEF m
<1> QED BY <1>2, <1>3, PanicSteady, SteadyRefl

LEMMA SendAppendSteady ==
    ASSUME NEW r \in Node, r.state = "StateLeader", NEW to \in Server
    PROVE  Steady(r, sendAppend(r, to))
BY MaybeSendAppendSteady DEF sendAppend

LEMMA JoinedSteady ==
    ASSUME NEW r \in Node, NEW each \in [Server -> Node], \A d \in Server : Steady(r, each[d])
    PROVE  Steady(r, joined(r, each))
<1> DEFINE s == joined(r, each)
<1>1. /\ s.id = r.id /\ s.voters = r.voters /\ s.state = r.state /\ s.Term = r.Term
      /\ s.log = r.log /\ s.committed = r.committed /\ s.after = r.after
      /\ \A d \in Server : s.msgs[d] = each[d].msgs[d] /\ s.prs[d] = each[d].prs[d]
  BY DEF joined, Node
<1> HIDE DEF s
<1>2. ASSUME NEW w \in Boxes(s) PROVE w \in Boxes(r) \/ Idle(w, r)
  <2>1. PICK d \in Server : w \in Range(s.msgs[d]) \/ w \in Range(s.after[d])
    BY <1>2 DEF Boxes
  <2>2. CASE w \in Range(s.msgs[d])
    <3>1. w \in Boxes(each[d]) BY <1>1, <2>2 DEF Boxes
    <3> QED BY <3>1 DEF Steady
  <2>3. CASE w \in Range(s.after[d]) BY <1>1, <2>3 DEF Boxes
  <2> QED BY <2>1, <2>2, <2>3
<1>3. Withheld(s) = Withheld(r) BY <1>1 DEF Withheld
<1>4. \A d \in Server : s.prs[d].Match = r.prs[d].Match BY <1>1 DEF Steady
<1> QED BY <1>1, <1>2, <1>3, <1>4 DEF Steady, s

LEMMA BcastAppendSteady ==
    ASSUME NEW r \in Node, r.state = "StateLeader" PROVE Steady(r, bcastAppend(r))
<1> DEFINE each == [d \in Server |-> IF d \in r.voters \ {r.id} THEN sendAppend(r, d) ELSE r]
<1>1. each \in [Server -> Node] BY SendAppendType
<1>2. \A d \in Server : Steady(r, each[d]) BY SendAppendSteady, SteadyRefl
<1> HIDE DEF each
<1>3. Steady(r, joined(r, each)) BY <1>1, <1>2, JoinedSteady
<1> QED BY <1>3 DEF bcastAppend, each

LEMMA BcastHeartbeatSteady ==
    ASSUME NEW r \in Node, r.state = "StateLeader" PROVE Steady(r, bcastHeartbeat(r))
<1> DEFINE s == bcastHeartbeat(r)
<1>1. /\ s.id = r.id /\ s.voters = r.voters /\ s.state = r.state /\ s.Term = r.Term
      /\ s.log = r.log /\ s.committed = r.committed /\ s.after = r.after /\ s.prs = r.prs
      /\ \A d \in Server : s.msgs[d] = IF d \in r.voters \ {r.id}
                                       THEN Append(r.msgs[d], heartbeatMsg(r, d)) ELSE r.msgs[d]
  BY DEF bcastHeartbeat, Node
<1> HIDE DEF s
<1>2. ASSUME NEW d \in Server, d # r.id
      PROVE  heartbeatMsg(r, d) \in Message /\ Idle(heartbeatMsg(r, d), r)
  <2>1. heartbeatMsg(r, d) \in Message BY HeartbeatMsgType
  <2> DEFINE m == heartbeatMsg(r, d)
  <2>2. /\ m.type = "MsgHeartbeat" /\ m.term = r.Term /\ m.from = r.id /\ m.to = d
        /\ m.commit = Least(r.prs[d].Match, r.committed)
    BY DEF heartbeatMsg, Msg
  <2> HIDE DEF m
  <2>3. Idle(m, r) BY <1>2, <2>2 DEF Idle, Proper, Granted, Acknowledges
  <2> QED BY <2>1, <2>3 DEF m
<1>3. ASSUME NEW w \in Boxes(s) PROVE w \in Boxes(r) \/ Idle(w, r)
  <2>1. PICK d \in Server : w \in Range(s.msgs[d]) \/ w \in Range(s.after[d])
    BY <1>3 DEF Boxes
  <2>2. r.msgs[d] \in Seq(Message) BY DEF Node
  <2>3. w \in Range(r.msgs[d]) \/ w \in Range(r.after[d]) \/ (d # r.id /\ w = heartbeatMsg(r, d))
    BY <1>1, <1>2, <2>1, <2>2, RangeAppend
  <2> QED BY <1>2, <2>3 DEF Boxes
<1>4. Withheld(s) = Withheld(r) BY <1>1 DEF Withheld
<1> QED BY <1>1, <1>3, <1>4 DEF Steady, s

LEMMA SendTimeoutNowSteady ==
    ASSUME NEW r \in Node, NEW to \in Server
    PROVE  Steady(r, sendTimeoutNow(r, to))
<1>1. Msg("MsgTimeoutNow", r.id, to) \in Message BY MsgIsMessage DEF Node, MsgType
<1>2. Msg("MsgTimeoutNow", r.id, to).type = "MsgTimeoutNow" BY DEF Msg
<1> QED BY <1>1, <1>2, SendOtherSteady DEF sendTimeoutNow

LEMMA HeardSteady ==
    ASSUME NEW r \in Node, NEW d \in Server
    PROVE  Steady(r, [r EXCEPT !.prs[d].RecentActive = TRUE])
<1> DEFINE pr == [r.prs[d] EXCEPT !.RecentActive = TRUE]
<1>1. pr.Match = r.prs[d].Match
  <2>1. r.prs[d] \in Progress BY DEF Node
  <2> QED BY <2>1 DEF Progress
<1> HIDE DEF pr
<1>2. Steady(r, [r EXCEPT !.prs[d] = pr]) BY <1>1, ProgressSteady
<1>3. [r EXCEPT !.prs[d] = pr] = [r EXCEPT !.prs[d].RecentActive = TRUE] BY DEF pr, Node
<1> QED BY <1>2, <1>3

\* Each message of a batch starts within the log.
LEMMA BatchStart ==
    ASSUME NEW len \in Nat, NEW next \in Nat \ {0}, NEW size \in Nat \ {0}, next <= len,
           NEW k \in 1..((len - next + size) \div size)
    PROVE  next + (k - 1) * size <= len
<1> DEFINE a == len - next + size
           q == a \div size
<1>1. a \in Nat /\ q \in Nat /\ k \in Nat /\ k - 1 \in Nat /\ k <= q BY SMT
<1>2. q * size <= a
  <2>1. a = size * (a \div size) + (a % size) /\ a % size \in 0..(size - 1) BY <1>1, SMT
  <2> QED BY <1>1, <2>1, SMT
<1> HIDE DEF q
<1>3. k * size <= q * size BY <1>1, SMT
<1>4. (k - 1) * size = k * size - size BY <1>1, SMT
<1>5. k * size \in Int /\ q * size \in Int BY <1>1, SMT
<1> QED BY <1>2, <1>3, <1>4, <1>5, SMT

LEMMA BatchProper ==
    ASSUME NEW r \in Node, r.state = "StateLeader", NEW to \in Server,
           ~(r.prs[to].Next > Len(r.log)), NEW k \in 1..Len(AppBatch(r, to))
    PROVE  Idle(AppBatch(r, to)[k], r)
<1> DEFINE next  == r.prs[to].Next
           len == Len(r.log)
           count == (len - next + MaxEntries) \div MaxEntries
           at == next + (k - 1) * MaxEntries
           msg(j) == [AppMsg(r, to, next + (j - 1) * MaxEntries) EXCEPT !.term = r.Term]
<1>1. /\ AppBatch(r, to) \in Seq(Message) /\ Len(AppBatch(r, to)) \in Nat
      /\ r.Term \in Nat /\ next \in Nat \ {0} /\ MaxEntries \in Nat \ {0} /\ len \in Nat
  BY AppBatchType, LenProperties, ConfigAssumption DEF Node, Progress
<1>2. AppBatch(r, to) = [j \in 1..count |-> msg(j)] BY DEF AppBatch
<1> HIDE DEF msg
<1>3. DOMAIN AppBatch(r, to) = 1..count BY <1>2
<1>4. DOMAIN AppBatch(r, to) = 1..Len(AppBatch(r, to)) BY <1>1, LenProperties
<1>5. AppBatch(r, to)[k] = msg(k) BY <1>2, <1>3, <1>4
<1>6. k \in 1..count BY <1>3, <1>4
<1>7. next <= len BY <1>1
<1>8. next + (k - 1) * MaxEntries <= len
  <2> HIDE DEF next, len
  <2> QED BY <1>1, <1>6, <1>7, BatchStart
<1>9. k - 1 \in Nat BY <1>1
<1>10. (k - 1) * MaxEntries \in Nat BY <1>1, <1>9
<1>11. at \in Nat \ {0} /\ at - 1 <= len BY <1>1, <1>8, <1>10
<1>12. msg(k) = [AppMsg(r, to, at) EXCEPT !.term = r.Term] BY DEF msg
<1> HIDE DEF at
<1>13. Idle(msg(k), r) BY <1>11, <1>12, AppMsgProper
<1> QED BY <1>5, <1>13

LEMMA SendRemainingSteady ==
    ASSUME NEW r \in Node, r.state = "StateLeader", NEW to \in Server
    PROVE  Steady(r, sendRemaining(r, to))
<1> DEFINE pr    == r.prs[to]
           batch == AppBatch(r, to)
           next  == Len(r.log) + 1
           s     == [r EXCEPT !.prs[to].Next = next, !.msgs[to] = @ \o batch]
<1>1. Steady(r, maybeSendAppend(r, to, FALSE)) BY MaybeSendAppendSteady
<1>2. ASSUME ~(pr.Next > Len(r.log)) PROVE Steady(r, s)
  <2>1. batch \in Seq(Message) /\ \A k \in 1..Len(batch) : Idle(batch[k], r)
    BY <1>2, AppBatchType, BatchProper
  <2> HIDE DEF batch, next
  <2>2. /\ s.id = r.id /\ s.voters = r.voters /\ s.state = r.state /\ s.Term = r.Term
        /\ s.log = r.log /\ s.committed = r.committed /\ s.after = r.after
        /\ \A d \in Server : s.prs[d].Match = r.prs[d].Match
    BY DEF Node, Progress
  <2>3. s.msgs = [r.msgs EXCEPT ![to] = @ \o batch] BY DEF Node
  <2> HIDE DEF s
  <2>4. r.msgs \in [Server -> Seq(Message)] BY DEF Node
  <2>5. \A m \in Range(batch) : Idle(m, r)
    <3>1. Range(batch) = {batch[k] : k \in 1..Len(batch)} BY <2>1, RangeEquality
    <3> QED BY <2>1, <3>1
  <2>6. ASSUME NEW w \in Boxes(s) PROVE w \in Boxes(r) \/ Idle(w, r)
    <3>1. PICK d \in Server : w \in Range(s.msgs[d]) \/ w \in Range(s.after[d])
      BY <2>6 DEF Boxes
    <3>2. CASE w \in Range(s.after[d]) BY <2>2, <3>2 DEF Boxes
    <3>3. CASE w \in Range(s.msgs[d]) /\ d # to BY <2>3, <2>4, <3>3 DEF Boxes
    <3>4. CASE w \in Range(s.msgs[d]) /\ d = to
      <4>1. s.msgs[d] = r.msgs[to] \o batch BY <2>3, <2>4, <3>4
      <4>2. Range(r.msgs[to] \o batch) = Range(r.msgs[to]) \cup Range(batch)
        BY <2>1, <2>4, RangeConcatenation
      <4> QED BY <2>5, <3>4, <4>1, <4>2 DEF Boxes
    <3> QED BY <3>1, <3>2, <3>3, <3>4
  <2>7. Withheld(s) = Withheld(r) BY <2>2 DEF Withheld
  <2> QED BY <2>2, <2>6, <2>7 DEF Steady
<1> HIDE DEF batch, next
<1>3. CASE pr.State = "StateProbe" \/ pr.Next > Len(r.log)
  BY <1>3, <1>1 DEF sendRemaining
<1>4. CASE ~(pr.State = "StateProbe" \/ pr.Next > Len(r.log)) /\ IsPaused(pr)
  BY <1>4, SteadyRefl DEF sendRemaining
<1>5. CASE ~(pr.State = "StateProbe" \/ pr.Next > Len(r.log)) /\ ~IsPaused(pr)
  BY <1>5, <1>2 DEF sendRemaining, batch, next
<1> QED BY <1>3, <1>4, <1>5

----------------------------------------------------------------------------
(* What a leader does with an answer *)

LEMMA HandleAppRejectSteady ==
    ASSUME NEW r \in Node, r.state = "StateLeader", NEW m \in Message
    PROVE  Steady(r, handleAppReject(r, m))
<1> DEFINE heard == [r EXCEPT !.prs[m.from].RecentActive = TRUE]
           pr == heard.prs[m.from]
           hint == rejectionHint(r, m)
           back == backOff(pr, m, hint)
           backed == [heard EXCEPT !.prs[m.from] = back]
<1>1. m.from \in Server /\ m.index \in Nat /\ m.hint \in Nat /\ m.logTerm \in Nat
  BY DEF Message
<1>2. heard \in Node /\ Steady(r, heard) BY <1>1, HeardType, HeardSteady
<1> HIDE DEF heard
<1>3. pr \in Progress BY <1>1, <1>2 DEF Node
<1>4. hint \in Nat BY <1>1, FindConflictByTermType DEF rejectionHint, Node
<1> HIDE DEF hint
<1>5. back \in Progress /\ back.Match = pr.Match
  <2> HIDE DEF pr
  <2>1. back \in Progress
    BY <1>1, <1>3, <1>4, MaybeDecrToType, BecomeProbeType DEF backOff
  <2>2. \A p \in Progress : BecomeProbe(p).Match = p.Match BY DEF BecomeProbe, Progress
  <2>3. MaybeDecrTo(pr, m.index, hint) \in Progress /\ MaybeDecrTo(pr, m.index, hint).Match = pr.Match
    <3>1. MaybeDecrTo(pr, m.index, hint).Match = pr.Match BY <1>3 DEF MaybeDecrTo, Progress
    <3> QED BY <1>1, <1>3, <1>4, <3>1, MaybeDecrToType
  <2> QED BY <2>1, <2>2, <2>3 DEF backOff
<1> HIDE DEF back
<1>6. backed \in Node /\ Steady(heard, backed) BY <1>1, <1>2, <1>5, ProgressOf, ProgressSteady
<1> HIDE DEF backed
<1>7. Steady(r, backed) BY <1>2, <1>6, SteadyTrans
<1>8. Steady(backed, sendAppend(backed, m.from)) BY <1>1, <1>6, <1>7, SendAppendSteady DEF Steady
<1>9. Steady(r, sendAppend(backed, m.from)) BY <1>7, <1>8, SteadyTrans
<1>10. handleAppReject(r, m) \in {heard, sendAppend(backed, m.from)}
  BY DEF handleAppReject, heard, backed, back, pr, hint
<1> QED BY <1>2, <1>9, <1>10

LEMMA HandleHeartbeatRespSteady ==
    ASSUME NEW r \in Node, r.state = "StateLeader", NEW m \in Message
    PROVE  Steady(r, handleHeartbeatResp(r, m))
<1> DEFINE pr == [r.prs[m.from] EXCEPT !.RecentActive = TRUE, !.MsgAppFlowPaused = FALSE]
           s == [r EXCEPT !.prs[m.from] = pr]
<1>1. m.from \in Server BY DEF Message
<1>2. pr \in Progress /\ pr.Match = r.prs[m.from].Match
  <2>1. r.prs[m.from] \in Progress BY <1>1 DEF Node
  <2> QED BY <2>1 DEF Progress
<1> HIDE DEF pr
<1>3. s \in Node /\ Steady(r, s) BY <1>1, <1>2, ProgressOf, ProgressSteady
<1> HIDE DEF s
<1>4. Steady(s, sendAppend(s, m.from)) BY <1>1, <1>3, SendAppendSteady DEF Steady
<1>5. Steady(r, sendAppend(s, m.from)) BY <1>3, <1>4, SteadyTrans
<1>6. s = [r EXCEPT !.prs[m.from].RecentActive = TRUE, !.prs[m.from].MsgAppFlowPaused = FALSE]
  BY <1>1 DEF s, pr, Node
<1>7. handleHeartbeatResp(r, m) \in {s, sendAppend(s, m.from)} BY <1>6 DEF handleHeartbeatResp
<1> QED BY <1>3, <1>5, <1>7

LEMMA HandleUnreachableSteady ==
    ASSUME NEW r \in Node, NEW from \in Server
    PROVE  Steady(r, handleUnreachable(r, from))
<1>1. BecomeProbe(r.prs[from]).Match = r.prs[from].Match
  <2>1. r.prs[from] \in Progress BY DEF Node
  <2> QED BY <2>1 DEF BecomeProbe, Progress
<1> QED BY <1>1, ProgressSteady, SteadyRefl DEF handleUnreachable

LEMMA HandleTransferLeaderSteady ==
    ASSUME NEW r \in Node, r.state = "StateLeader", NEW m \in Message
    PROVE  Steady(r, handleTransferLeader(r, m))
<1> DEFINE s == [r EXCEPT !.leadTransferee = m.from, !.expired = FALSE]
           t == [r EXCEPT !.leadTransferee = Nil]
<1>1. m.from \in Server BY DEF Message
<1>2. s \in Node BY <1>1 DEF Node
<1>3. Steady(r, s) /\ Steady(r, t)
  <2>1. \A x \in {s, t} :
           /\ x.id = r.id /\ x.voters = r.voters /\ x.state = r.state /\ x.Term = r.Term
           /\ x.log = r.log /\ x.committed = r.committed /\ x.msgs = r.msgs
           /\ x.after = r.after /\ x.prs = r.prs
    BY ZenonT(60) DEF Node
  <2> HIDE DEF s, t
  <2>2. \A x \in {s, t} : Steady(r, x) BY <2>1, SameSteady
  <2> QED BY <2>2
<1> HIDE DEF s, t
<1>4. s.state = "StateLeader" BY <1>3 DEF Steady
<1>5. Steady(s, sendTimeoutNow(s, m.from)) BY <1>1, <1>2, SendTimeoutNowSteady
<1>6. Steady(s, sendAppend(s, m.from)) BY <1>1, <1>2, <1>4, SendAppendSteady
<1>7. Steady(r, sendTimeoutNow(s, m.from)) /\ Steady(r, sendAppend(s, m.from))
  BY <1>3, <1>5, <1>6, SteadyTrans
<1>8. handleTransferLeader(r, m) \in {r, t, sendTimeoutNow(s, m.from), sendAppend(s, m.from)}
  BY DEF handleTransferLeader, s, t
<1> QED BY <1>3, <1>7, <1>8, SteadyRefl

----------------------------------------------------------------------------
(* From sends to steps *)

\* The fields that Mindful is about, but for the outboxes.
Unmoved(s, t) ==
    /\ t.id = s.id /\ t.voters = s.voters /\ t.state = s.state /\ t.Term = s.Term
    /\ t.log = s.log /\ t.committed = s.committed
    /\ \A d \in Server : t.prs[d].Match = s.prs[d].Match

LEMMA UnmovedFitting ==
    ASSUME NEW r, NEW s, NEW t, NEW N, NEW w, Unmoved(s, t), Fitting(w, r, s, N)
    PROVE  Fitting(w, r, t, N)
<1>1. Proper(w, t) BY DEF Fitting, Proper, Unmoved
<1>2. \A v : Taken(r, s, v) => Taken(r, t, v) BY DEF Taken, Unmoved
<1>3. AckFits(w, r, s, N) => AckFits(w, r, t, N) BY <1>2 DEF AckFits, Unmoved
<1>4. VoteFits(w, t, N) BY DEF Fitting, VoteFits, Unmoved
<1> QED BY <1>1, <1>3, <1>4 DEF Fitting

LEMMA MindfulMoves ==
    ASSUME NEW r, NEW s \in Node, NEW t, NEW N, Mindful(r, s, N), Unmoved(s, t),
           \A w \in Boxes(t) : w \in Boxes(s) \/ Fitting(w, r, s, N),
           \A w \in Withheld(t) : w \in Withheld(s) \/ w.type \in AfterAppendTypes
    PROVE  Mindful(r, t, N)
<1>1. \A v : Taken(r, s, v) => Taken(r, t, v) BY DEF Taken, Unmoved
<1>2. CommitFits(r, s, N) => CommitFits(r, t, N)
  <2>1. s.voters \subseteq Server BY DEF Node
  <2>2. {d \in t.voters : t.prs[d].Match >= t.committed}
          = {d \in s.voters : s.prs[d].Match >= s.committed}
    BY <2>1 DEF Unmoved
  <2> QED BY <1>1, <2>2 DEF CommitFits, Unmoved
<1>3. \A d \in Server : MatchFits(d, r, s, N) => MatchFits(d, r, t, N) BY DEF MatchFits, Unmoved
<1>4. \A w : Fitting(w, r, s, N) => Fitting(w, r, t, N) BY UnmovedFitting
<1>5. \A w \in Boxes(t) : w \in Boxes(r) \/ Fitting(w, r, t, N)
  BY <1>4 DEF Mindful, Fitting
<1>6. \A w \in Withheld(t) : w \in Withheld(r) \/ w.type \in AfterAppendTypes BY DEF Mindful
<1>7. /\ t.log = s.log /\ t.committed = s.committed /\ t.state = s.state
  BY DEF Unmoved
<1> QED BY <1>1, <1>2, <1>3, <1>5, <1>6, <1>7 DEF Mindful, Fitting

LEMMA IdleFitting ==
    ASSUME NEW r, NEW s, NEW N, NEW w, Idle(w, s)
    PROVE  Fitting(w, r, s, N)
BY DEF Idle, Fitting, AckFits, VoteFits

LEMMA MindfulThenSteady ==
    ASSUME NEW r, NEW s \in Node, NEW t, NEW N, Mindful(r, s, N), Steady(s, t)
    PROVE  Mindful(r, t, N)
<1>1. Unmoved(s, t) BY DEF Unmoved, Steady
<1>2. \A w \in Boxes(t) : w \in Boxes(s) \/ Fitting(w, r, s, N) BY IdleFitting DEF Steady
<1>3. \A w \in Withheld(t) : w \in Withheld(s) \/ w.type \in AfterAppendTypes BY DEF Steady
<1> QED BY <1>1, <1>2, <1>3, MindfulMoves

LEMMA MindfulRefl == ASSUME NEW r, NEW N PROVE Mindful(r, r, N)
BY DEF Mindful, MatchFits

LEMMA SteadyMindful ==
    ASSUME NEW r \in Node, NEW s, NEW N, Steady(r, s)
    PROVE  Mindful(r, s, N)
BY MindfulRefl, MindfulThenSteady

LEMMA MindfulThenSend ==
    ASSUME NEW r, NEW s \in Node, NEW N, Mindful(r, s, N), NEW m \in Message,
           Fitting(Outgoing(s, m), r, s, N)
    PROVE  Mindful(r, send(s, m), N)
<1> DEFINE t == send(s, m)
<1>1. Unmoved(s, t) BY SendKeeps DEF Unmoved
<1>2. \A w \in Boxes(t) : w \in Boxes(s) \/ w = Outgoing(s, m) BY SendBoxes
<1>3. \A w \in Withheld(t) : w \in Withheld(s) \/ w.type \in AfterAppendTypes BY SendWithheld
<1> HIDE DEF t
<1>4. Mindful(r, t, N) BY <1>1, <1>2, <1>3, MindfulMoves
<1> QED BY <1>4 DEF t

\* From r to s a server may take a newer term and become a follower, or count a
\* vote; it commits, appends and sends nothing.
Prepared(r, s) ==
    /\ s.id = r.id /\ s.voters = r.voters /\ s.log = r.log /\ s.committed = r.committed
    /\ s.Term >= r.Term
    /\ s.msgs = r.msgs /\ s.after = r.after
    /\ s.state = "StateFollower" \/ Unmoved(r, s)

LEMMA PreparedThen ==
    ASSUME NEW r \in Node, NEW s \in Node, NEW t, NEW N \in SUBSET Message,
           Prepared(r, s), CommitStep(s, t, N)
    PROVE  CommitStep(r, t, N)
<1>1. ASSUME NEW v \in N, Clash(s, v) PROVE Clash(r, v)
  <2>1. v.term \in Nat /\ s.Term \in Nat /\ r.Term \in Nat BY DEF Message, Node
  <2> QED BY <1>1, <2>1 DEF Clash, Prepared
<1>2. ASSUME Mindful(s, t, N) PROVE Mindful(r, t, N)
  <2>1. Boxes(s) = Boxes(r) BY SameBoxes DEF Prepared
  <2>2. Withheld(s) = Withheld(r) BY DEF Withheld, Prepared
  <2>3. \A v : Taken(s, t, v) => Taken(r, t, v) BY DEF Taken, Prepared
  <2>4. \A w : Fitting(w, s, t, N) => Fitting(w, r, t, N)
    BY <2>3 DEF Fitting, AckFits, Prepared
  <2>5. ASSUME t.state = "StateLeader" PROVE s.state = r.state /\ Unmoved(r, s)
    BY <1>2, <2>5 DEF Mindful, Prepared, Unmoved
  <2>6. t.state = "StateLeader" =>
          \A d \in Server : MatchFits(d, s, t, N) => MatchFits(d, r, t, N)
    BY <2>5 DEF MatchFits, Unmoved
  <2>7. CommitFits(s, t, N) => CommitFits(r, t, N)
    BY <2>3, <2>5 DEF CommitFits, Prepared
  <2>8. s.log = r.log /\ s.committed = r.committed BY DEF Prepared
  <2> QED BY <1>2, <2>1, <2>2, <2>3, <2>4, <2>5, <2>6, <2>7, <2>8 DEF Mindful
<1> QED BY <1>1, <1>2 DEF CommitStep

LEMMA PreparedMindful ==
    ASSUME NEW r \in Node, NEW s \in Node, NEW N \in SUBSET Message, Prepared(r, s)
    PROVE  Mindful(r, s, N)
<1>1. Boxes(s) = Boxes(r) BY SameBoxes DEF Prepared
<1>2. Withheld(s) = Withheld(r) BY DEF Withheld, Prepared
<1>3. s.log = r.log /\ s.committed = r.committed BY DEF Prepared
<1>4. s.state = "StateLeader" =>
        r.state = "StateLeader" /\ \A d \in Server : MatchFits(d, r, s, N)
  BY DEF Prepared, Unmoved, MatchFits
<1> QED BY <1>1, <1>2, <1>3, <1>4 DEF Mindful

LEMMA MoreMindful ==
    ASSUME NEW r, NEW s, NEW N, NEW M, Mindful(r, s, N), N \subseteq M
    PROVE  Mindful(r, s, M)
<1>1. \A w : AckFits(w, r, s, N) => AckFits(w, r, s, M) BY DEF AckFits
<1>2. \A w : Fitting(w, r, s, N) => Fitting(w, r, s, M) BY <1>1 DEF Fitting, VoteFits
<1>3. CommitFits(r, s, N) => CommitFits(r, s, M) BY DEF CommitFits
<1>4. \A d \in Server : MatchFits(d, r, s, N) => MatchFits(d, r, s, M) BY DEF MatchFits
<1> QED BY <1>2, <1>3, <1>4 DEF Mindful

----------------------------------------------------------------------------
(* What a leader counts and appends *)

\* maybeCommit moves the commit index to an entry of the leader's term that a
\* quorum acknowledged.
LEMMA MaybeCommitMindful ==
    ASSUME NEW r, NEW s \in Node, NEW N, s.log = r.log, s.committed = r.committed,
           s.state = "StateLeader", r.state = "StateLeader",
           s.msgs = r.msgs, s.after = r.after, \A d \in Server : MatchFits(d, r, s, N)
    PROVE  Mindful(r, maybeCommit(s), N)
<1> DEFINE mci == Committed(s)
           C == {k \in {s.prs[d].Match : d \in s.voters} :
                   IsQuorum({d \in s.voters : s.prs[d].Match >= k}, s.voters)}
           moved == [s EXCEPT !.committed = mci]
<1>1. mci \in Nat /\ s.committed \in Nat /\ s.log \in Seq(Entry) /\ Len(s.log) \in Nat
  BY CommittedType, LenProperties DEF Node
<1>2. mci > 0 => mci \in C
  <2>1. mci = MaxOr0(C) BY DEF Committed
  <2> HIDE DEF mci, C
  <2> QED BY <1>1, <2>1 DEF MaxOr0
<1>3. maybeCommit(s) =
        IF mci > s.committed /\ TermAt(s.log, mci) = s.Term THEN commitTo(s, mci) ELSE s
  BY DEF maybeCommit
<1>4. mci > 0 => IsQuorum({d \in s.voters : s.prs[d].Match >= mci}, s.voters) BY <1>2
<1> HIDE DEF mci, C
<1>5. \A x : x.msgs = s.msgs /\ x.after = s.after =>
               Boxes(x) = Boxes(r) /\ Withheld(x) = Withheld(r)
  BY SameBoxes DEF Withheld
<1>6. Mindful(r, s, N) BY <1>5 DEF Mindful
<1>7. ASSUME mci > s.committed, TermAt(s.log, mci) = s.Term, ~(Len(s.log) < mci)
      PROVE  Mindful(r, moved, N)
  <2>1. mci > 0 /\ mci \in 1..Len(s.log) BY <1>1, <1>7
  <2>2. Has(s.log, mci, s.Term) BY <1>7, <2>1 DEF Has, TermAt
  <2>3. IsQuorum({d \in s.voters : s.prs[d].Match >= mci}, s.voters) BY <1>4, <2>1
  <2>4. /\ moved.id = s.id /\ moved.voters = s.voters /\ moved.state = s.state
        /\ moved.Term = s.Term /\ moved.log = s.log /\ moved.prs = s.prs
        /\ moved.msgs = s.msgs /\ moved.after = s.after /\ moved.committed = mci
    BY DEF Node
  <2> HIDE DEF moved
  <2>5. CommitFits(r, moved, N) BY <2>2, <2>3, <2>4 DEF CommitFits
  <2>6. Boxes(moved) = Boxes(r) /\ Withheld(moved) = Withheld(r) BY <1>5, <2>4
  <2>7. \A d \in Server : MatchFits(d, r, moved, N) BY <2>4 DEF MatchFits
  <2> QED BY <1>7, <2>4, <2>5, <2>6, <2>7 DEF Mindful
<1>8. Mindful(r, Panic(s), N)
  <2> DEFINE p == Panic(s)
  <2>1. Steady(s, p) BY PanicSteady
  <2> HIDE DEF p
  <2>2. Mindful(r, p, N) BY <1>6, <2>1, MindfulThenSteady
  <2> QED BY <2>2 DEF p
<1> HIDE DEF moved
<1>9. mci > s.committed /\ TermAt(s.log, mci) = s.Term => Mindful(r, commitTo(s, mci), N)
  BY <1>1, <1>6, <1>7, <1>8 DEF commitTo, moved
<1> QED BY <1>3, <1>6, <1>9

LEMMA HandleAppAcceptMindful ==
    ASSUME NEW r \in Node, r.state = "StateLeader", NEW m \in Message, NEW N, m \in N,
           Acknowledges(m), m.term \in {0, r.Term}
    PROVE  Mindful(r, handleAppAccept(r, m), N)
<1> DEFINE from == m.from
           heard == [r EXCEPT !.prs[from].RecentActive = TRUE]
           pr == heard.prs[from]
           upd == MaybeUpdate(pr, m.index)
           ack == acknowledged(pr, m.index)
           stale == [heard EXCEPT !.prs[from] = upd]
           acked == [heard EXCEPT !.prs[from] = ack]
           moved == maybeCommit(acked)
           told == announce(moved, r.committed, from, IsPaused(r.prs[from]))
           full == refill(told, from)
           sent == finishTransfer(full, from)
<1>1. from \in Server /\ m.index \in Nat BY DEF Message
<1>2. heard \in Node /\ Steady(r, heard) BY <1>1, HeardType, HeardSteady
<1>3. heard.msgs = r.msgs /\ heard.after = r.after BY DEF Node
<1> HIDE DEF heard
<1>4. pr \in Progress /\ pr.Match = r.prs[from].Match /\ pr.Match \in Nat
  BY <1>1, <1>2 DEF Node, Steady, Progress
<1>5. pr.Match >= m.index => upd.Match = pr.Match
  <2>1. upd.Match = Greatest(pr.Match, m.index) BY <1>4 DEF MaybeUpdate, Progress
  <2> QED BY <1>1, <1>4, <2>1 DEF Greatest
<1>6. upd \in Progress BY <1>1, <1>4, MaybeUpdateType
<1>7. ack \in Progress /\ (~(pr.Match >= m.index) => ack.Match = m.index)
  <2> HIDE DEF pr
  <2>1. ack \in Progress BY <1>1, <1>4, MaybeUpdateType, BecomeReplicateType DEF acknowledged
  <2>2. MaybeUpdate(pr, m.index).Match = Greatest(pr.Match, m.index)
    BY <1>4 DEF MaybeUpdate, Progress
  <2>3. \A p \in Progress : BecomeReplicate(p).Match = p.Match BY DEF BecomeReplicate, Progress
  <2>4. ack.Match = Greatest(pr.Match, m.index)
    BY <1>6, <2>2, <2>3 DEF acknowledged
  <2> HIDE DEF ack
  <2> QED BY <1>1, <1>4, <2>1, <2>4 DEF Greatest
<1> HIDE DEF upd, ack
<1>8. pr.Match >= m.index => Steady(heard, stale) BY <1>1, <1>2, <1>5, ProgressSteady
<1>9. pr.Match >= m.index => Mindful(r, stale, N)
  <2> HIDE DEF stale
  <2> QED BY <1>2, <1>8, SteadyMindful, SteadyTrans
<1>10. acked \in Node BY <1>2, <1>1, <1>7, ProgressOf
<1>11. /\ acked.id = r.id /\ acked.voters = r.voters /\ acked.state = r.state
       /\ acked.Term = r.Term /\ acked.log = r.log /\ acked.committed = r.committed
       /\ acked.msgs = r.msgs /\ acked.after = r.after
       /\ \A d \in Server : acked.prs[d].Match = IF d = from THEN ack.Match ELSE r.prs[d].Match
  BY <1>1, <1>2, <1>3 DEF Node, Steady
<1> HIDE DEF acked, stale
<1>12. ASSUME ~(pr.Match >= m.index) PROVE Mindful(r, sent, N)
  <2>1. \A d \in Server : MatchFits(d, r, acked, N)
    <3>1. m.index > 0 BY <1>1, <1>4, <1>12
    <3>2. ack.Match = m.index BY <1>7, <1>12
    <3> QED BY <1>11, <3>1, <3>2 DEF MatchFits
  <2>2. Mindful(r, moved, N) BY <1>10, <1>11, <2>1, MaybeCommitMindful
  <2>3. moved \in Node /\ moved.state = "StateLeader"
    <3>1. moved \in Node BY <1>10, MaybeCommitType
    <3>2. moved.state = acked.state BY <1>10 DEF maybeCommit, commitTo, Panic, Node
    <3> QED BY <1>11, <3>1, <3>2
  <2> HIDE DEF moved, pr
  <2>4. told \in Node /\ Steady(moved, told)
    BY <1>1, <2>3, BcastAppendType, SendAppendType, BcastAppendSteady, SendAppendSteady,
       SteadyRefl DEF announce
  <2> HIDE DEF told
  <2>5. full \in Node /\ Steady(told, full)
    BY <1>1, <2>3, <2>4, SendRemainingType, SendRemainingSteady, SteadyRefl DEF refill, Steady
  <2> HIDE DEF full
  <2>6. Steady(full, sent) BY <1>1, <2>5, SendTimeoutNowSteady, SteadyRefl DEF finishTransfer
  <2> HIDE DEF sent
  <2>7. Steady(moved, sent) BY <2>4, <2>5, <2>6, SteadyTrans
  <2> QED BY <2>2, <2>3, <2>7, MindfulThenSteady
<1>13. handleAppAccept(r, m) = IF r.prs[from].Match >= m.index THEN stale ELSE sent
  BY DEF handleAppAccept, sent, full, told, moved, acked, stale, ack, upd, pr, heard
<1> HIDE DEF pr, sent
<1> QED BY <1>4, <1>9, <1>12, <1>13

\* A leader appends in its term and acknowledges to itself all it has.
LEMMA AppendEntryMindful ==
    ASSUME NEW r, NEW q \in Node, NEW N, NEW vals \in Seq(Value \cup {Nil}),
           q.state = "StateLeader", q.Term > 0, q.committed = r.committed,
           r.state = "StateLeader" \/ (r.state = "StateCandidate" /\ Len(vals) > 0),
           q.msgs = r.msgs, q.after = r.after, q.log = r.log,
           \A d \in Server : MatchFits(d, r, q, N)
    PROVE  Mindful(r, appendEntry(q, vals), N) /\ appendEntry(q, vals).state = "StateLeader"
<1> DEFINE ents == [k \in 1..Len(vals) |-> [term |-> q.Term, val |-> vals[k]]]
           log == q.log \o ents
           index == Len(q.log) + Len(vals)
           own == Msg("MsgAppResp", q.id, q.id)
           s == [q EXCEPT !.log = log]
           m == [own EXCEPT !.index = index]
<1>1. q.log \in Seq(Entry) /\ Len(q.log) \in Nat /\ Len(vals) \in Nat /\ q.Term \in Nat
  BY LenProperties DEF Node
<1>2. \A k \in 1..Len(vals) : [term |-> q.Term, val |-> vals[k]] \in Entry
  BY <1>1, ElementOfSeq DEF Entry
<1>3. ents \in Seq(Entry) /\ Len(ents) = Len(vals) BY <1>1, <1>2, MakeSeq
<1> HIDE DEF ents
<1>4. log \in Seq(Entry) /\ Len(log) = index
  <2>1. log \in Seq(Entry) /\ Len(log) = Len(q.log) + Len(ents) BY <1>1, <1>3, ConcatProperties
  <2> QED BY <1>3, <2>1
<1>5. index \in Nat /\ (Len(vals) > 0 => index > Len(q.log)) BY <1>1
<1>6. /\ own \in Message /\ own.type = "MsgAppResp" /\ own.from = q.id
      /\ own.to = q.id
  BY MsgIsMessage DEF Node, MsgType, Msg
<1> HIDE DEF log, index, own
<1>7. /\ s \in Node /\ s.log = log /\ s.Term = q.Term /\ s.state = q.state /\ s.id = q.id
      /\ s.committed = q.committed /\ s.msgs = q.msgs /\ s.after = q.after
      /\ s.prs = q.prs
  BY <1>4 DEF Node
<1>8. /\ m \in Message /\ m.type = "MsgAppResp" /\ m.from = q.id /\ m.index = index
  BY <1>5, <1>6 DEF Message
<1> HIDE DEF s, m
<1>9. Mindful(r, s, N)
  <2>1. Boxes(s) = Boxes(r) BY <1>7, SameBoxes
  <2>2. Withheld(s) = Withheld(r) BY <1>7 DEF Withheld
  <2>3. \A d \in Server : MatchFits(d, r, s, N) BY <1>7 DEF MatchFits
  <2> QED BY <1>4, <1>5, <1>7, <2>1, <2>2, <2>3 DEF Mindful
<1>10. Fitting(Outgoing(s, m), r, s, N)
  <2> DEFINE w == Outgoing(s, m)
  <2>1. w.type = "MsgAppResp" /\ w.from = q.id /\ w.index = index /\ w.term = s.Term
    BY <1>8 DEF Outgoing, VoteTypes, Message
  <2> HIDE DEF w
  <2>2. Fitting(w, r, s, N)
    BY <1>4, <1>7, <2>1 DEF Fitting, Proper, AckFits, VoteFits, Granted
  <2> QED BY <2>2 DEF w
<1>11. Mindful(r, send(s, m), N) BY <1>7, <1>8, <1>9, <1>10, MindfulThenSend
<1>12. send(s, m).state = s.state BY <1>7, <1>8, SendKeeps
<1>13. appendEntry(q, vals) = send(s, m) BY DEF appendEntry, s, m, ents, log, index, own
<1> QED BY <1>7, <1>11, <1>12, <1>13

LEMMA HandlePropMindful ==
    ASSUME NEW r \in Node, r.state = "StateLeader", r.Term > 0, NEW m \in Message, NEW N
    PROVE  Mindful(r, handleProp(r, m), N)
<1> DEFINE vals == [k \in 1..Len(m.entries) |-> m.entries[k].val]
           s == appendEntry(r, vals)
<1>1. m.entries \in Seq(Entry) /\ Len(m.entries) \in Nat BY LenProperties DEF Message
<1>2. ASSUME NEW k \in 1..Len(m.entries) PROVE m.entries[k].val \in Value \cup {Nil}
  <2>1. m.entries[k] \in Entry BY <1>1, ElementOfSeq
  <2> QED BY <2>1 DEF Entry
<1>3. vals \in Seq(Value \cup {Nil}) BY <1>1, <1>2, MakeSeq
<1> HIDE DEF vals
<1>4. \A d \in Server : MatchFits(d, r, r, N) BY DEF MatchFits
<1>5. s \in Node /\ Mindful(r, s, N) /\ s.state = "StateLeader"
  BY <1>3, <1>4, AppendEntryType, AppendEntryMindful
<1> HIDE DEF s
<1>6. Mindful(r, bcastAppend(s), N) BY <1>5, BcastAppendSteady, MindfulThenSteady
<1> QED BY <1>6, MindfulRefl DEF handleProp, s, vals

----------------------------------------------------------------------------
(* Roles *)

LEMMA ResetKeeps ==
    ASSUME NEW r \in Node, NEW term \in Nat
    PROVE  LET s == reset(r, term)
           IN  /\ s.id = r.id /\ s.voters = r.voters /\ s.Term = term /\ s.state = r.state
               /\ s.log = r.log /\ s.committed = r.committed
               /\ s.msgs = r.msgs /\ s.after = r.after
               /\ \A d \in Server : s.prs[d].Match = IF d = r.id THEN Len(r.log) ELSE 0
<1> DEFINE s == reset(r, term)
<1>1. /\ s.id = r.id /\ s.voters = r.voters /\ s.Term = term /\ s.state = r.state
      /\ s.log = r.log /\ s.committed = r.committed /\ s.msgs = r.msgs /\ s.after = r.after
      /\ s.prs = [d \in Server |-> resetProgress(r, d)]
  BY DEF reset, Node
<1>2. \A d \in Server : resetProgress(r, d).Match = IF d = r.id THEN Len(r.log) ELSE 0
  BY DEF resetProgress, newProgress
<1> HIDE DEF s
<1> QED BY <1>1, <1>2 DEF s

LEMMA BecomeFollowerPrepared ==
    ASSUME NEW r \in Node, NEW term \in Nat, term >= r.Term, NEW lead
    PROVE  LET s == becomeFollower(r, term, lead)
           IN  Prepared(r, s) /\ s.state = "StateFollower" /\ s.Term = term
<1> DEFINE t == reset(r, term)
           s == becomeFollower(r, term, lead)
<1>1. t \in Node BY ResetType
<1>2. /\ t.id = r.id /\ t.voters = r.voters /\ t.Term = term /\ t.log = r.log
      /\ t.committed = r.committed /\ t.msgs = r.msgs /\ t.after = r.after
  BY ResetKeeps
<1>3. s = [t EXCEPT !.lead = lead, !.state = "StateFollower"] BY DEF becomeFollower
<1> HIDE DEF t
<1>4. /\ s.id = t.id /\ s.voters = t.voters /\ s.Term = t.Term /\ s.log = t.log
      /\ s.committed = t.committed /\ s.msgs = t.msgs /\ s.after = t.after
      /\ s.state = "StateFollower"
  BY <1>1, <1>3 DEF Node
<1> HIDE DEF s
<1>5. Prepared(r, s) /\ s.state = "StateFollower" /\ s.Term = term
  BY <1>2, <1>4 DEF Prepared
<1> QED BY <1>5 DEF s

LEMMA RecordVotePrepared ==
    ASSUME NEW r \in Node, NEW m \in Message
    PROVE  Prepared(r, RecordVote(r, m))
<1> DEFINE s == RecordVote(r, m)
<1>1. /\ s.id = r.id /\ s.voters = r.voters /\ s.Term = r.Term /\ s.log = r.log
      /\ s.committed = r.committed /\ s.msgs = r.msgs /\ s.after = r.after
      /\ s.state = r.state /\ s.prs = r.prs
  BY DEF RecordVote, Node
<1>2. r.Term \in Nat BY DEF Node
<1> HIDE DEF s
<1>3. Prepared(r, s) BY <1>1, <1>2 DEF Prepared, Unmoved
<1> QED BY <1>3 DEF s

\* A server that keeps its log and does not lead owes only what it sends.
LEMMA StandsMindful ==
    ASSUME NEW r, NEW s, NEW N, s.log = r.log, s.committed = r.committed,
           s.state # "StateLeader",
           \A w \in Boxes(s) : w \in Boxes(r) \/ Fitting(w, r, s, N),
           \A w \in Withheld(s) : w \in Withheld(r) \/ w.type \in AfterAppendTypes
    PROVE  Mindful(r, s, N)
BY DEF Mindful

\* The requests for votes tell the candidate's log.
LEMMA RequestVotesFitting ==
    ASSUME NEW r \in Node, NEW term \in Nat, NEW transfer \in BOOLEAN,
           NEW voteType \in {"MsgVote", "MsgPreVote"},
           voteType = "MsgVote" => r.state = "StateCandidate", NEW q, NEW N
    PROVE  LET s == requestVotes(r, voteType, voteRespMsgType(voteType), term, transfer)
           IN  /\ s.state = r.state /\ s.log = r.log /\ s.committed = r.committed
               /\ \A w \in Boxes(s) : w \in Boxes(r) \/ Fitting(w, q, s, N)
               /\ \A w \in Withheld(s) : w \in Withheld(r) \/ w.type \in AfterAppendTypes
<1> DEFINE respType == voteRespMsgType(voteType)
           s == requestVotes(r, voteType, respType, term, transfer)
           own == [Msg(respType, r.id, r.id) EXCEPT !.term = term]
           ask(d) == VoteMsg(r, voteType, d, term, transfer)
<1>1. /\ s.id = r.id /\ s.state = r.state /\ s.log = r.log /\ s.committed = r.committed
      /\ s.after = [r.after EXCEPT ![r.id] = Append(@, own)]
      /\ \A d \in Server : s.msgs[d] = IF d \in r.voters \ {r.id}
                                       THEN Append(r.msgs[d], ask(d)) ELSE r.msgs[d]
  BY DEF requestVotes, Node
<1>2. /\ respType \in MsgType /\ voteType \in MsgType
      /\ respType \in {"MsgVoteResp", "MsgPreVoteResp"}
  BY DEF voteRespMsgType, MsgType
<1>3. /\ r.id \in Server /\ r.msgs \in [Server -> Seq(Message)]
      /\ r.after \in [Server -> Seq(Message)]
  BY DEF Node
<1>4. own \in Message /\ own.to = r.id /\ own.type = respType
  <2>1. Msg(respType, r.id, r.id) \in Message BY <1>2, <1>3, MsgIsMessage
  <2> QED BY <2>1 DEF Message, Msg
<1>5. ASSUME NEW d \in Server
      PROVE  /\ ask(d) \in Message /\ ask(d).type = voteType
             /\ ask(d).index = Len(r.log) /\ ask(d).logTerm = lastTerm(r.log)
  <2>1. ask(d) \in Message BY <1>2, VoteMsgType
  <2>2. /\ ask(d).type = voteType /\ ask(d).index = Len(r.log)
        /\ ask(d).logTerm = lastTerm(r.log)
    BY DEF VoteMsg, Msg, lastIndex
  <2> QED BY <2>1, <2>2
<1> HIDE DEF s, own, ask, respType
<1>6. Fitting(own, q, s, N)
  BY <1>1, <1>2, <1>4 DEF Fitting, Proper, Acknowledges, VoteFits
<1>7. ASSUME NEW d \in Server PROVE Fitting(ask(d), q, s, N)
  BY <1>1, <1>5 DEF Fitting, Proper, Acknowledges, VoteFits, Granted
<1>8. ASSUME NEW w \in Boxes(s) PROVE w \in Boxes(r) \/ Fitting(w, q, s, N)
  <2>1. PICK d \in Server : w \in Range(s.msgs[d]) \/ w \in Range(s.after[d])
    BY <1>8 DEF Boxes
  <2>2. CASE w \in Range(s.msgs[d])
    <3>1. w \in Range(r.msgs[d]) \/ w = ask(d) BY <1>1, <1>3, <1>5, <2>2, RangeAppend
    <3> QED BY <1>7, <3>1 DEF Boxes
  <2>3. CASE w \in Range(s.after[d])
    <3>1. w \in Range(r.after[d]) \/ w = own BY <1>1, <1>3, <1>4, <2>3, RangeAppend
    <3> QED BY <1>6, <3>1 DEF Boxes
  <2> QED BY <2>1, <2>2, <2>3
<1>9. ASSUME NEW w \in Withheld(s) PROVE w \in Withheld(r) \/ w.type \in AfterAppendTypes
  <2>1. PICK d \in Server : w \in Range(s.after[d]) BY <1>9 DEF Withheld
  <2>2. w \in Range(r.after[d]) \/ w = own BY <1>1, <1>3, <1>4, <2>1, RangeAppend
  <2> QED BY <1>2, <1>4, <2>2 DEF Withheld, AfterAppendTypes
<1> QED BY <1>1, <1>8, <1>9 DEF s, respType

LEMMA CampaignElectionMindful ==
    ASSUME NEW r \in Node, r.state # "StateLeader", NEW transfer \in BOOLEAN, NEW N
    PROVE  Mindful(r, campaignElection(r, transfer), N)
<1> DEFINE next == r.Term + 1
           reborn == reset(r, next)
           s == becomeCandidate(r)
           t == requestVotes(s, "MsgVote", "MsgVoteResp", s.Term, transfer)
<1>1. next \in Nat BY DEF Node
<1> HIDE DEF next
<1>2. /\ reborn \in Node /\ reborn.log = r.log /\ reborn.committed = r.committed
      /\ reborn.msgs = r.msgs /\ reborn.after = r.after
  BY <1>1, ResetType, ResetKeeps
<1>3. s = [reborn EXCEPT !.Vote = r.id, !.state = "StateCandidate"] BY DEF becomeCandidate, next
<1> HIDE DEF reborn
<1>4. /\ s.log = r.log /\ s.committed = r.committed /\ s.msgs = r.msgs /\ s.after = r.after
      /\ s.state = "StateCandidate"
  BY <1>2, <1>3 DEF Node
<1>5. s \in Node BY BecomeCandidateType
<1> HIDE DEF s
<1>6. Boxes(s) = Boxes(r) /\ Withheld(s) = Withheld(r) BY <1>4, SameBoxes DEF Withheld
<1>7. s.Term \in Nat BY <1>5 DEF Node
<1>8. /\ t.state = s.state /\ t.log = s.log /\ t.committed = s.committed
      /\ \A w \in Boxes(t) : w \in Boxes(s) \/ Fitting(w, r, t, N)
      /\ \A w \in Withheld(t) : w \in Withheld(s) \/ w.type \in AfterAppendTypes
  BY <1>4, <1>5, <1>7, RequestVotesFitting DEF voteRespMsgType
<1>9. campaignElection(r, transfer) = t BY DEF campaignElection, s
<1> HIDE DEF t
<1>10. Mindful(r, t, N) BY <1>4, <1>6, <1>8, StandsMindful
<1> QED BY <1>9, <1>10

LEMMA CampaignPreElectionMindful ==
    ASSUME NEW r \in Node, r.state # "StateLeader", NEW N
    PROVE  Mindful(r, campaignPreElection(r), N)
<1> DEFINE s == becomePreCandidate(r)
           next == s.Term + 1
           t == requestVotes(s, "MsgPreVote", "MsgPreVoteResp", next, FALSE)
<1>1. s \in Node BY BecomePreCandidateType
<1>2. /\ s.log = r.log /\ s.committed = r.committed /\ s.msgs = r.msgs /\ s.after = r.after
      /\ s.state = "StatePreCandidate"
  BY DEF becomePreCandidate, Node
<1> HIDE DEF s
<1>3. Boxes(s) = Boxes(r) /\ Withheld(s) = Withheld(r) BY <1>2, SameBoxes DEF Withheld
<1>4. next \in Nat
  <2>1. s.Term \in Nat BY <1>1 DEF Node
  <2> QED BY <2>1
<1> HIDE DEF next
<1>5. /\ t.state = s.state /\ t.log = s.log /\ t.committed = s.committed
      /\ \A w \in Boxes(t) : w \in Boxes(s) \/ Fitting(w, r, t, N)
      /\ \A w \in Withheld(t) : w \in Withheld(s) \/ w.type \in AfterAppendTypes
  BY <1>1, <1>4, RequestVotesFitting DEF voteRespMsgType
<1>6. campaignPreElection(r) = t BY DEF campaignPreElection, s, next
<1> HIDE DEF t
<1>7. Mindful(r, t, N) BY <1>2, <1>3, <1>5, StandsMindful
<1> QED BY <1>6, <1>7

LEMMA HupMindful ==
    ASSUME NEW r \in Node, NEW transfer \in BOOLEAN, NEW N
    PROVE  Mindful(r, hup(r, transfer), N)
BY MindfulRefl, CampaignElectionMindful, CampaignPreElectionMindful DEF hup

\* Who becomes a leader appends an entry to its log.
LEMMA BecomeLeaderMindful ==
    ASSUME NEW r \in Node, NEW N, r.state = "StateCandidate", r.Term > 0
    PROVE  Mindful(r, becomeLeader(r), N) /\ becomeLeader(r).state = "StateLeader"
<1> DEFINE t == reset(r, r.Term)
           pr == [BecomeReplicate(t.prs[r.id]) EXCEPT !.RecentActive = TRUE]
           led == [t EXCEPT !.lead = r.id, !.state = "StateLeader", !.prs[r.id] = pr]
           s == becomeLeader(r)
<1>1. r.Term \in Nat /\ r.id \in Server BY DEF Node
<1>2. t \in Node BY <1>1, ResetType
<1>3. /\ t.id = r.id /\ t.voters = r.voters /\ t.Term = r.Term /\ t.log = r.log
      /\ t.committed = r.committed /\ t.msgs = r.msgs /\ t.after = r.after
      /\ \A d \in Server : t.prs[d].Match = IF d = r.id THEN Len(r.log) ELSE 0
  BY <1>1, ResetKeeps
<1> HIDE DEF t
<1>4. pr \in Progress /\ pr.Match = t.prs[r.id].Match
  <2> DEFINE p == t.prs[r.id]
             q == BecomeReplicate(p)
  <2>1. p \in Progress BY <1>1, <1>2 DEF Node
  <2> HIDE DEF p
  <2>2. q \in Progress /\ q.Match = p.Match
    BY <2>1, BecomeReplicateType DEF BecomeReplicate, Progress
  <2> HIDE DEF q
  <2>3. [q EXCEPT !.RecentActive = TRUE] \in Progress
        /\ [q EXCEPT !.RecentActive = TRUE].Match = q.Match
    BY <2>2 DEF Progress
  <2> QED BY <2>2, <2>3 DEF q, p
<1> HIDE DEF pr
<1>5. led \in Node
  <2> DEFINE p == [t.prs EXCEPT ![r.id] = pr]
  <2>1. p \in [Server -> Progress] BY <1>1, <1>2, <1>4 DEF Node
  <2>2. led = [t EXCEPT !.lead = r.id, !.state = "StateLeader", !.prs = p] BY DEF p
  <2> HIDE DEF p
  <2> QED BY <1>1, <1>2, <2>1, <2>2 DEF Node, StateType
<1>6. /\ led.id = t.id /\ led.Term = t.Term /\ led.log = t.log /\ led.committed = t.committed
      /\ led.msgs = t.msgs /\ led.after = t.after /\ led.state = "StateLeader"
      /\ \A d \in Server : led.prs[d] = IF d = r.id THEN pr ELSE t.prs[d]
  BY <1>1, <1>2 DEF Node
<1>7. s = appendEntry(led, <<Nil>>) BY DEF becomeLeader, t, pr
<1> HIDE DEF led, s
<1>8. \A d \in Server : MatchFits(d, r, led, N) BY <1>1, <1>3, <1>4, <1>6 DEF MatchFits
<1>9. <<Nil>> \in Seq(Value \cup {Nil}) /\ Len(<<Nil>>) > 0 OBVIOUS
<1>10. Mindful(r, s, N) /\ s.state = "StateLeader"
  <2> DEFINE vals == <<Nil>>
  <2>1. vals \in Seq(Value \cup {Nil}) /\ Len(vals) > 0 BY <1>9
  <2>2. s = appendEntry(led, vals) BY <1>7
  <2> HIDE DEF vals
  <2>3. led.Term > 0 /\ led.committed = r.committed /\ led.log = r.log
        /\ led.msgs = r.msgs /\ led.after = r.after
    BY <1>3, <1>6
  <2> QED BY <1>5, <1>6, <1>8, <2>1, <2>2, <2>3, AppendEntryMindful
<1> QED BY <1>10 DEF s

LEMMA HandleVoteRespMindful ==
    ASSUME NEW r \in Node, NEW m \in Message, NEW N \in SUBSET Message,
           r.state \in {"StateCandidate", "StatePreCandidate"}, Seated(r)
    PROVE  CommitStep(r, handleVoteResp(r, m), N)
<1> DEFINE s == RecordVote(r, m)
           result == TallyVotes(s)
           t == becomeFollower(s, s.Term, Nil)
           c == campaignElection(s, FALSE)
           led == becomeLeader(s)
           b == bcastAppend(led)
<1>1. s \in Node /\ Prepared(r, s) BY RecordVoteType, RecordVotePrepared
<1>2. s.state = r.state /\ s.Term = r.Term BY RecordVoteBallot
<1>3. handleVoteResp(r, m) = afterPoll(s, result) BY DEF handleVoteResp
<1> HIDE DEF s
<1>4. \A x : CommitStep(s, x, N) => CommitStep(r, x, N) BY <1>1, PreparedThen
<1>5. s.Term \in Nat /\ s.Term >= s.Term BY <1>1 DEF Node
<1>6. t \in Node /\ Prepared(s, t)
  BY <1>1, <1>5, BecomeFollowerType, BecomeFollowerPrepared
<1>7. s.state # "StateLeader" => Mindful(s, c, N) BY <1>1, CampaignElectionMindful
<1>8. s.state = "StateCandidate" => Mindful(s, b, N)
  <2>1. SUFFICES ASSUME s.state = "StateCandidate" PROVE Mindful(s, b, N) OBVIOUS
  <2>2. s.Term > 0 BY <1>2, <2>1 DEF Seated
  <2>3. led \in Node /\ Mindful(s, led, N) /\ led.state = "StateLeader"
    BY <1>1, <2>1, <2>2, BecomeLeaderType, BecomeLeaderMindful
  <2> HIDE DEF led
  <2> QED BY <2>3, BcastAppendSteady, MindfulThenSteady
<1>9. Mindful(s, t, N)
  <2> HIDE DEF t
  <2> QED BY <1>1, <1>6, PreparedMindful
<1>10. handleVoteResp(r, m) \in {s, t} \/ (s.state = "StatePreCandidate" /\ handleVoteResp(r, m) = c)
       \/ (s.state # "StatePreCandidate" /\ handleVoteResp(r, m) = b)
  BY <1>3 DEF afterPoll
<1> HIDE DEF t, c, b
<1> QED BY <1>2, <1>4, <1>7, <1>8, <1>9, <1>10, MindfulRefl DEF CommitStep

\* A vote goes to a log that is no worse.
LEMMA HandleVoteMindful ==
    ASSUME NEW r \in Node, NEW m \in Message, NEW N, m \in N,
           m.type \in {"MsgVote", "MsgPreVote"}
    PROVE  Mindful(r, handleVote(r, m), N)
<1> DEFINE resp == Msg(voteRespMsgType(m.type), r.id, m.from)
           granting == [r EXCEPT !.Vote = m.from, !.expired = FALSE]
           refusal == [resp EXCEPT !.term = r.Term, !.reject = TRUE]
           grant == [resp EXCEPT !.term = m.term]
<1>1. r.Term \in Nat /\ m.term \in Nat /\ m.from \in Server /\ r.id \in Server
  BY DEF Node, Message
<1>2. /\ resp \in Message /\ resp.type = voteRespMsgType(m.type)
      /\ resp.from = r.id /\ resp.to = m.from
  BY <1>1, MsgIsMessage DEF voteRespMsgType, MsgType, Msg
<1> HIDE DEF resp
<1>3. /\ refusal \in Message /\ refusal.type \in {"MsgVoteResp", "MsgPreVoteResp"}
      /\ refusal.reject
  BY <1>1, <1>2 DEF Message, voteRespMsgType
<1>4. /\ grant \in Message /\ grant.type = voteRespMsgType(m.type) /\ grant.term = m.term
      /\ grant.to = m.from
  BY <1>1, <1>2 DEF Message
<1>5. granting \in Node BY <1>1 DEF Node
<1>6. Steady(r, granting) /\ granting.log = r.log
  <2> DEFINE s == granting
  <2>1. /\ s.id = r.id /\ s.voters = r.voters /\ s.state = r.state /\ s.Term = r.Term
        /\ s.log = r.log /\ s.committed = r.committed /\ s.msgs = r.msgs /\ s.after = r.after
        /\ s.prs = r.prs
    BY DEF Node
  <2> HIDE DEF s
  <2>2. Steady(r, s) BY <2>1, SameSteady
  <2> QED BY <2>1, <2>2 DEF s
<1>7. \/ handleVote(r, m) = send(r, refusal)
      \/ m.type = "MsgPreVote" /\ handleVote(r, m) = send(r, grant)
      \/ m.type = "MsgVote" /\ isUpToDate(r.log, m.index, m.logTerm)
         /\ handleVote(r, m) = send(granting, grant)
  BY DEF handleVote, resp
<1> HIDE DEF refusal, grant, granting
<1>8. Mindful(r, send(r, refusal), N)
  <2>1. Outgoing(r, refusal) = refusal BY <1>3 DEF Outgoing, VoteTypes
  <2>2. Idle(refusal, r) BY <1>3 DEF Idle, Proper, Granted, Acknowledges
  <2> QED BY <1>3, <2>1, <2>2, SendSteady, SteadyMindful
<1>9. m.type = "MsgPreVote" => Mindful(r, send(r, grant), N)
  <2>1. m.type = "MsgPreVote" => grant.type = "MsgPreVoteResp" BY <1>4 DEF voteRespMsgType
  <2> QED BY <1>4, <2>1, SendOtherSteady, SteadyMindful
<1>10. ASSUME m.type = "MsgVote", isUpToDate(r.log, m.index, m.logTerm)
       PROVE  Mindful(r, send(granting, grant), N)
  <2>1. grant.type = "MsgVoteResp" BY <1>4, <1>10 DEF voteRespMsgType
  <2>2. Outgoing(granting, grant) = grant BY <2>1 DEF Outgoing, VoteTypes
  <2>3. Fitting(grant, r, granting, N)
    BY <1>4, <1>6, <1>10, <2>1 DEF Fitting, Proper, Acknowledges, VoteFits
  <2>4. Mindful(r, granting, N) BY <1>6, SteadyMindful
  <2> QED BY <1>4, <1>5, <2>2, <2>3, <2>4, MindfulThenSend
<1> QED BY <1>7, <1>8, <1>9, <1>10

LEMMA ForwardSteady ==
    ASSUME NEW r \in Node, NEW m \in Message, m.type \in {"MsgProp", "MsgTransferLeader"}
    PROVE  Steady(r, forward(r, m))
<1> DEFINE n == [m EXCEPT !.to = r.lead]
<1>1. ASSUME r.lead # Nil PROVE Steady(r, send(r, n))
  <2>1. n \in Message /\ n.type = m.type BY <1>1 DEF Node, Message
  <2> HIDE DEF n
  <2> QED BY <2>1, SendOtherSteady
<1> HIDE DEF n
<1>2. forward(r, m) = IF r.lead = Nil THEN r ELSE send(r, n) BY DEF forward, n
<1> QED BY <1>1, <1>2, SteadyRefl

LEMMA StepLowerTermSteady ==
    ASSUME NEW r \in Node, NEW m \in Message
    PROVE  Steady(r, stepLowerTerm(r, m))
<1> DEFINE ack == Msg("MsgAppResp", r.id, m.from)
           resp == Msg("MsgPreVoteResp", r.id, m.from)
           refusal == [resp EXCEPT !.term = r.Term, !.reject = TRUE]
<1>1. r.Term \in Nat /\ r.id \in Server /\ m.from \in Server BY DEF Node, Message
<1>2. ack \in Message /\ ack.type = "MsgAppResp" /\ ack.index = 0 /\ ack.from = r.id
  BY <1>1, MsgIsMessage DEF MsgType, Msg
<1>3. resp \in Message /\ resp.type = "MsgPreVoteResp" BY <1>1, MsgIsMessage DEF MsgType, Msg
<1> HIDE DEF ack, resp
<1>4. refusal \in Message /\ refusal.type = "MsgPreVoteResp" BY <1>1, <1>3 DEF Message
<1> HIDE DEF refusal
<1>5. Steady(r, send(r, refusal)) BY <1>4, SendOtherSteady
<1>6. Steady(r, send(r, ack))
  <2> DEFINE w == Outgoing(r, ack)
  <2>1. w.type = "MsgAppResp" /\ w.index = 0 /\ w.from = r.id /\ w.term = r.Term
    BY <1>2 DEF Outgoing, VoteTypes, Message
  <2> HIDE DEF w
  <2>2. Idle(w, r) BY <2>1 DEF Idle, Proper, Granted
  <2> QED BY <1>2, <2>2, SendSteady DEF w
<1>7. stepLowerTerm(r, m) \in {r, send(r, ack), send(r, refusal)}
  BY DEF stepLowerTerm, ack, resp, refusal
<1> QED BY <1>5, <1>6, <1>7, SteadyRefl

----------------------------------------------------------------------------
(* What a follower takes in *)

\* commitTo, where the reason to commit is known.
LEMMA CommitToMindful ==
    ASSUME NEW r, NEW s \in Node, NEW N, Mindful(r, s, N), s.state = "StateFollower",
           s.committed = r.committed, s.msgs = r.msgs, s.after = r.after, NEW c \in Nat,
           c <= Len(s.log) => CommitFits(r, [s EXCEPT !.committed = c], N)
    PROVE  LET t == commitTo(s, c)
           IN  /\ Mindful(r, t, N)
               /\ t \in Node /\ t.id = s.id /\ t.state = s.state /\ t.Term = s.Term
               /\ t.log = s.log
<1> DEFINE t == commitTo(s, c)
           moved == [s EXCEPT !.committed = c]
           p == Panic(s)
<1>1. s.committed \in Nat /\ Len(s.log) \in Nat BY LenProperties DEF Node
<1>2. t = IF s.committed >= c THEN s ELSE IF Len(s.log) < c THEN p ELSE moved
  BY DEF commitTo
<1>3. Mindful(r, p, N) /\ p.id = s.id /\ p.state = s.state /\ p.Term = s.Term /\ p.log = s.log
  <2>1. Steady(s, p) BY PanicSteady
  <2> HIDE DEF p
  <2> QED BY <2>1, MindfulThenSteady DEF Steady
<1>4. /\ moved.id = s.id /\ moved.state = s.state /\ moved.Term = s.Term /\ moved.log = s.log
      /\ moved.msgs = s.msgs /\ moved.after = s.after /\ moved.committed = c
  BY DEF Node
<1>5. t \in Node BY CommitToType
<1>6. ASSUME ~(s.committed >= c), ~(Len(s.log) < c) PROVE Mindful(r, moved, N)
  <2>1. CommitFits(r, moved, N) BY <1>1, <1>6
  <2> HIDE DEF moved
  <2>2. Boxes(moved) = Boxes(r) /\ Withheld(moved) = Withheld(r)
    BY <1>4, SameBoxes DEF Withheld
  <2>3. \A v : Taken(r, s, v) => Taken(r, moved, v) BY <1>4 DEF Taken
  <2> QED BY <1>1, <1>4, <1>6, <2>1, <2>2, <2>3 DEF Mindful
<1> HIDE DEF t, p, moved
<1>7. /\ Mindful(r, t, N) /\ t.id = s.id /\ t.state = s.state /\ t.Term = s.Term
      /\ t.log = s.log
  BY <1>2, <1>3, <1>4, <1>6
<1> QED BY <1>5, <1>7 DEF t

LEMMA HandleHeartbeatMindful ==
    ASSUME NEW r \in Node, r.state = "StateFollower", NEW m \in Message, NEW N, m \in N,
           m.type = "MsgHeartbeat", m.to = r.id, m.term = r.Term
    PROVE  Mindful(r, handleHeartbeat(r, m), N)
<1> DEFINE c == m.commit
           s == commitTo(r, c)
           moved == [r EXCEPT !.committed = c]
           resp == Msg("MsgHeartbeatResp", r.id, m.from)
<1>1. c \in Nat /\ m.from \in Server /\ r.id \in Server BY DEF Node, Message
<1>2. c <= Len(r.log) => CommitFits(r, moved, N)
  <2>1. moved.id = r.id /\ moved.Term = r.Term /\ moved.log = r.log /\ moved.committed = c
    BY DEF Node
  <2> HIDE DEF moved
  <2> QED BY <2>1 DEF CommitFits
<1>3. resp \in Message /\ resp.type = "MsgHeartbeatResp" BY <1>1, MsgIsMessage DEF MsgType, Msg
<1>4. handleHeartbeat(r, m) = send(s, resp) BY DEF handleHeartbeat
<1> HIDE DEF resp, c
<1>5. s \in Node /\ Mindful(r, s, N) BY <1>1, <1>2, MindfulRefl, CommitToMindful
<1> HIDE DEF s
<1>6. Mindful(r, send(s, resp), N) BY <1>3, <1>5, SendOtherSteady, MindfulThenSteady
<1> QED BY <1>4, <1>6

\* maybeAppend, unless the MsgApp contradicts what is committed.
LEMMA MaybeAppendMindful ==
    ASSUME NEW r \in Node, r.state = "StateFollower", NEW m \in Message, NEW N, m \in N,
           m.type = "MsgApp", m.term = r.Term, m.term > 0,
           matchTerm(r.log, m.index, m.logTerm), ~Clash(r, m)
    PROVE  LET s == maybeAppend(r, m.index, m.commit, m.entries)
           IN  /\ Mindful(r, s, N) /\ Taken(r, s, m) /\ s \in Node
               /\ s.id = r.id /\ s.Term = r.Term /\ s.state = r.state
<1> DEFINE i == m.index
           ents == m.entries
           ci == findConflict(r.log, i, ents)
           longer == SubSeq(r.log, 1, ci - 1) \o SubSeq(ents, ci - i, Len(ents))
           longer1 == [r EXCEPT !.log = longer]
           taken == IF ci = 0 THEN r ELSE longer1
           c == Least(m.commit, i + Len(ents))
           moved == [taken EXCEPT !.committed = c]
           s == maybeAppend(r, m.index, m.commit, m.entries)
<1>1. /\ i \in Nat /\ ents \in Seq(Entry) /\ Len(ents) \in Nat /\ m.commit \in Nat
      /\ r.log \in Seq(Entry) /\ r.committed \in Nat /\ r.Term \in Nat /\ m.term \in Nat
  BY LenProperties DEF Message, Node
<1>2. ci # 0 => ci \in (i + 1)..(i + Len(ents)) /\ ~(ci <= r.committed)
  <2>1. ci # 0 => ci \in (i + 1)..(i + Len(ents)) BY <1>1, FindConflictFirst
  <2>2. m.term >= r.Term BY <1>1
  <2>3. ci \notin 1..r.committed BY <2>2 DEF Clash
  <2> HIDE DEF ci, i, ents
  <2> QED BY <1>1, <2>1, <2>3
<1>3. s = commitTo(taken, c)
  <2>1. s = commitTo(IF ci = 0 THEN r ELSE IF ci <= r.committed THEN Panic(r) ELSE longer1, c)
    BY Zenon DEF maybeAppend
  <2> HIDE DEF ci, longer1, s
  <2> QED BY <1>2, <2>1
<1>4. ci # 0 => longer \in Seq(Entry)
  <2>1. /\ \A k \in 1..(ci - 1) : ci # 0 => k \in 1..Len(r.log)
        /\ ci # 0 => ci - i \in Nat \ {0} /\ ci \in Nat
    <3>1. i <= Len(r.log) /\ Len(r.log) \in Nat BY <1>1, LenProperties DEF matchTerm
    <3>2. ci # 0 => \A j \in (i + 1)..(ci - 1) : j <= Len(r.log) BY <1>1, FindConflictFirst
    <3> HIDE DEF ci
    <3> QED BY <1>1, <1>2, <3>1, <3>2
  <2> HIDE DEF ci
  <2>2. ci # 0 => ci - 1 <= Len(r.log) /\ ci - 1 \in Int
    <3>1. Len(r.log) \in Nat BY <1>1, LenProperties
    <3>2. ci # 0 => ci \in Nat BY <2>1
    <3>3. ci # 0 /\ ci - 1 >= 1 => ci - 1 \in 1..(ci - 1) BY <3>2
    <3>4. ci # 0 /\ ci - 1 >= 1 => ci - 1 \in 1..Len(r.log) BY <2>1, <3>3
    <3> QED BY <3>1, <3>2, <3>4
  <2>3. ci # 0 => SubSeq(r.log, 1, ci - 1) \in Seq(Entry) BY <1>1, <2>2, SliceType
  <2>4. ci # 0 => SubSeq(ents, ci - i, Len(ents)) \in Seq(Entry) BY <1>1, <2>1, SliceType
  <2> QED BY <2>3, <2>4, ConcatProperties
<1> HIDE DEF longer
<1>5. longer \in Seq(Entry) =>
        /\ longer1 \in Node /\ longer1.id = r.id /\ longer1.voters = r.voters
        /\ longer1.state = r.state /\ longer1.Term = r.Term /\ longer1.log = longer
        /\ longer1.committed = r.committed /\ longer1.msgs = r.msgs /\ longer1.after = r.after
  BY DEF Node
<1> HIDE DEF longer1, ci, s
<1>6. /\ taken \in Node /\ taken.id = r.id /\ taken.state = r.state /\ taken.Term = r.Term
      /\ taken.log = Spliced(r.log, m) /\ taken.committed = r.committed
      /\ taken.msgs = r.msgs /\ taken.after = r.after
  <2>1. Spliced(r.log, m) = IF ci = 0 THEN r.log ELSE longer BY DEF Spliced, longer, ci
  <2> QED BY <1>4, <1>5, <2>1
<1> HIDE DEF taken
<1>7. Taken(r, taken, m) BY <1>6 DEF Taken
<1>8. Mindful(r, taken, N)
  <2>1. Boxes(taken) = Boxes(r) /\ Withheld(taken) = Withheld(r)
    BY <1>6, SameBoxes DEF Withheld
  <2> QED BY <1>6, <1>7, <2>1 DEF Mindful
<1>9. c \in Nat /\ c <= m.commit /\ c <= i + Len(ents)
  <2>1. i + Len(ents) \in Nat BY <1>1
  <2> QED BY <1>1, <2>1, LeastType
<1> HIDE DEF c
<1>10. CommitFits(r, moved, N)
  <2>1. moved.committed = c /\ moved.log = taken.log /\ moved.Term = taken.Term
        /\ moved.state = taken.state
    BY <1>6 DEF Node
  <2> HIDE DEF moved
  <2>2. Taken(r, moved, m) BY <1>7, <2>1 DEF Taken
  <2> QED BY <1>9, <2>1, <2>2 DEF CommitFits
<1>11. /\ Mindful(r, s, N) /\ s \in Node /\ s.id = taken.id /\ s.state = taken.state
       /\ s.Term = taken.Term /\ s.log = taken.log
  BY <1>3, <1>6, <1>8, <1>9, <1>10, CommitToMindful
<1>12. Taken(r, s, m) BY <1>7, <1>11 DEF Taken
<1> QED BY <1>6, <1>11, <1>12 DEF s

LEMMA HandleAppendEntriesMindful ==
    ASSUME NEW r \in Node, r.state = "StateFollower", NEW m \in Message, NEW N, m \in N,
           m.type = "MsgApp", m.term = r.Term, m.term > 0
    PROVE  CommitStep(r, handleAppendEntries(r, m), N)
<1> DEFINE resp == Msg("MsgAppResp", r.id, m.from)
           hint == findConflictByTerm(r.log, Least(m.index, Len(r.log)), m.logTerm)
           hintTerm == TermAt(r.log, hint)
           last == m.index + Len(m.entries)
           old == [resp EXCEPT !.index = r.committed]
           done == [resp EXCEPT !.index = last]
           refusal == [resp EXCEPT !.index = m.index, !.reject = TRUE, !.hint = hint,
                                   !.logTerm = hintTerm]
           s == maybeAppend(r, m.index, m.commit, m.entries)
<1>1. /\ m.from \in Server /\ m.index \in Nat /\ m.logTerm \in Nat /\ r.id \in Server
      /\ m.entries \in Seq(Entry) /\ Len(m.entries) \in Nat /\ r.committed \in Nat
      /\ r.log \in Seq(Entry) /\ Len(r.log) \in Nat /\ last \in Nat
  <2>1. m.from \in Server /\ m.index \in Nat /\ m.logTerm \in Nat /\ m.entries \in Seq(Entry)
    BY DEF Message
  <2>2. r.id \in Server /\ r.committed \in Nat /\ r.log \in Seq(Entry) BY DEF Node
  <2> QED BY <2>1, <2>2, LenProperties
<1>2. hint \in Nat
  <2>1. Least(m.index, Len(r.log)) \in Nat BY <1>1, LeastType
  <2> QED BY <1>1, <2>1, FindConflictByTermType
<1>3. hintTerm \in Nat
  <2> HIDE DEF hint
  <2>1. hint \in Int BY <1>2
  <2> QED BY <1>1, <2>1, TermAtType
<1>4. resp \in Message /\ resp.type = "MsgAppResp" /\ resp.from = r.id
  BY <1>1, MsgIsMessage DEF MsgType, Msg
<1>5. /\ m.index < r.committed => handleAppendEntries(r, m) = send(r, old)
      /\ ~(m.index < r.committed) /\ matchTerm(r.log, m.index, m.logTerm) =>
           handleAppendEntries(r, m) = send(s, done)
      /\ ~(m.index < r.committed) /\ ~matchTerm(r.log, m.index, m.logTerm) =>
           handleAppendEntries(r, m) = send(r, refusal)
  BY DEF handleAppendEntries
<1> HIDE DEF resp, hint, hintTerm, last
<1>6. /\ old \in Message /\ old.type = "MsgAppResp" /\ old.from = r.id
      /\ old.index = r.committed
  BY <1>1, <1>4 DEF Message
<1>7. /\ done \in Message /\ done.type = "MsgAppResp" /\ done.from = r.id
      /\ done.index = last
  BY <1>1, <1>4 DEF Message
<1>8. refusal \in Message /\ refusal.type = "MsgAppResp" /\ refusal.reject
  BY <1>1, <1>2, <1>3, <1>4 DEF Message
<1> HIDE DEF old, done, refusal, s
<1>9. Mindful(r, send(r, old), N)
  <2> DEFINE w == Outgoing(r, old)
  <2>1. w.type = "MsgAppResp" /\ w.from = r.id /\ w.index = r.committed /\ w.term = r.Term
    BY <1>6 DEF Outgoing, VoteTypes, Message
  <2> HIDE DEF w
  <2>2. r.committed <= r.committed BY <1>1
  <2>3. Fitting(w, r, r, N) BY <2>1, <2>2 DEF Fitting, Proper, AckFits, VoteFits, Granted
  <2> QED BY <1>6, <2>3, MindfulRefl, MindfulThenSend DEF w
<1>10. Mindful(r, send(r, refusal), N)
  <2> DEFINE w == Outgoing(r, refusal)
  <2>1. w.type = "MsgAppResp" /\ w.reject BY <1>8 DEF Outgoing, VoteTypes, Message
  <2> HIDE DEF w
  <2>2. Idle(w, r) BY <2>1 DEF Idle, Proper, Granted, Acknowledges
  <2> QED BY <1>8, <2>2, SendSteady, SteadyMindful DEF w
<1>11. ASSUME matchTerm(r.log, m.index, m.logTerm), ~Clash(r, m)
       PROVE  Mindful(r, send(s, done), N)
  <2>1. /\ Mindful(r, s, N) /\ Taken(r, s, m) /\ s \in Node
        /\ s.id = r.id /\ s.Term = r.Term /\ s.state = r.state
    BY <1>11, MaybeAppendMindful DEF s
  <2> DEFINE w == Outgoing(s, done)
  <2>2. w.type = "MsgAppResp" /\ w.from = r.id /\ w.index = last /\ w.term = s.Term
    BY <1>7 DEF Outgoing, VoteTypes, Message
  <2> HIDE DEF w
  <2>3. AckFits(w, r, s, N) BY <2>1, <2>2 DEF AckFits, last
  <2>4. Fitting(w, r, s, N) BY <2>2, <2>3 DEF Fitting, Proper, VoteFits, Granted
  <2> QED BY <1>7, <2>1, <2>4, MindfulThenSend DEF w
<1> QED BY <1>5, <1>9, <1>10, <1>11 DEF CommitStep

----------------------------------------------------------------------------
(* Step and the ticks *)

\* What Step has made sure of before it dispatches m by role.
Matching(r, m) ==
    /\ OfThisTerm(r, m)
    /\ m.type = "MsgHeartbeat" => m.to = r.id
    /\ Acknowledges(m) => m.term \in {0, r.Term}

LEMMA StepLeaderMindful ==
    ASSUME NEW r \in Node, r.state = "StateLeader", r.Term > 0, NEW m \in Message,
           NEW N, m \in N, Matching(r, m)
    PROVE  Mindful(r, stepLeader(r, m), N)
<1>1. m.type = "MsgAppResp" => Mindful(r, handleAppResp(r, m), N)
  <2>1. Mindful(r, handleAppReject(r, m), N) BY HandleAppRejectSteady, SteadyMindful
  <2>2. m.type = "MsgAppResp" /\ ~m.reject => Mindful(r, handleAppAccept(r, m), N)
    BY HandleAppAcceptMindful DEF Matching, Acknowledges
  <2> QED BY <2>1, <2>2 DEF handleAppResp
<1>2. Mindful(r, handleProp(r, m), N) BY HandlePropMindful
<1>3. Mindful(r, handleHeartbeatResp(r, m), N) /\ Mindful(r, handleTransferLeader(r, m), N)
  BY HandleHeartbeatRespSteady, HandleTransferLeaderSteady, SteadyMindful
<1> QED BY <1>1, <1>2, <1>3, MindfulRefl DEF stepLeader

LEMMA StepFollowerCommit ==
    ASSUME NEW r \in Node, r.state = "StateFollower", NEW m \in Message,
           NEW N \in SUBSET Message, m \in N, Matching(r, m)
    PROVE  CommitStep(r, stepFollower(r, m), N)
<1> DEFINE heard == [r EXCEPT !.expired = FALSE, !.lead = m.from]
           s == handleAppendEntries(heard, m)
           t == handleHeartbeat(heard, m)
<1>1. heard \in Node BY DEF Node, Message
<1>2. /\ heard.id = r.id /\ heard.voters = r.voters /\ heard.state = r.state
      /\ heard.Term = r.Term /\ heard.log = r.log /\ heard.committed = r.committed
      /\ heard.msgs = r.msgs /\ heard.after = r.after /\ heard.prs = r.prs
  BY DEF Node
<1>3. r.Term \in Nat BY DEF Node
<1>4. \/ m.type = "MsgApp" /\ stepFollower(r, m) = s
      \/ m.type = "MsgHeartbeat" /\ stepFollower(r, m) = t
      \/ m.type \in {"MsgProp", "MsgTransferLeader"} /\ stepFollower(r, m) = forward(r, m)
      \/ stepFollower(r, m) \in {hup(r, TRUE), r}
  BY DEF stepFollower
<1> HIDE DEF heard
<1>5. Prepared(r, heard) BY <1>2, <1>3 DEF Prepared
<1>6. m.type = "MsgApp" => CommitStep(heard, s, N)
  BY <1>1, <1>2, HandleAppendEntriesMindful DEF Matching, OfThisTerm
<1>7. m.type = "MsgHeartbeat" => CommitStep(heard, t, N)
  BY <1>1, <1>2, HandleHeartbeatMindful DEF Matching, OfThisTerm, CommitStep
<1> HIDE DEF s, t
<1>8. \A x : CommitStep(heard, x, N) => CommitStep(r, x, N) BY <1>1, <1>5, PreparedThen
<1>9. m.type \in {"MsgProp", "MsgTransferLeader"} => CommitStep(r, forward(r, m), N)
  BY ForwardSteady, SteadyMindful DEF CommitStep
<1>10. CommitStep(r, hup(r, TRUE), N) /\ CommitStep(r, r, N)
  BY HupMindful, MindfulRefl DEF CommitStep
<1> QED BY <1>4, <1>6, <1>7, <1>8, <1>9, <1>10

LEMMA StepCandidateCommit ==
    ASSUME NEW r \in Node, r.state \in {"StateCandidate", "StatePreCandidate"}, NEW m \in Message,
           NEW N \in SUBSET Message, m \in N, Matching(r, m), Seated(r)
    PROVE  CommitStep(r, stepCandidate(r, m), N)
<1> DEFINE s == becomeFollower(r, m.term, m.from)
           a == handleAppendEntries(s, m)
           h == handleHeartbeat(s, m)
<1>1. m.term \in Nat /\ m.from \in Server /\ r.Term \in Nat BY DEF Message, Node
<1>2. \/ m.type = "MsgApp" /\ stepCandidate(r, m) = a
      \/ m.type = "MsgHeartbeat" /\ stepCandidate(r, m) = h
      \/ stepCandidate(r, m) \in {handleVoteResp(r, m), r}
  BY DEF stepCandidate
<1>3. ASSUME m.type \in {"MsgApp", "MsgHeartbeat"}
      PROVE  /\ s \in Node /\ Prepared(r, s) /\ s.state = "StateFollower" /\ s.Term = m.term
             /\ s.id = r.id
  <2>1. m.term >= r.Term BY <1>1, <1>3 DEF Matching, OfThisTerm
  <2> QED BY <1>1, <2>1, BecomeFollowerType, BecomeFollowerPrepared DEF Prepared
<1> HIDE DEF s
<1>4. m.type = "MsgApp" => CommitStep(s, a, N)
  BY <1>3, HandleAppendEntriesMindful DEF Matching, OfThisTerm
<1>5. m.type = "MsgHeartbeat" => CommitStep(s, h, N)
  BY <1>3, HandleHeartbeatMindful DEF Matching, CommitStep
<1> HIDE DEF a, h
<1>6. m.type \in {"MsgApp", "MsgHeartbeat"} =>
        \A x : CommitStep(s, x, N) => CommitStep(r, x, N)
  BY <1>3, PreparedThen
<1>7. CommitStep(r, handleVoteResp(r, m), N) /\ CommitStep(r, r, N)
  BY HandleVoteRespMindful, MindfulRefl DEF CommitStep
<1> QED BY <1>2, <1>4, <1>5, <1>6, <1>7

LEMMA StepRoleCommit ==
    ASSUME NEW r \in Node, NEW m \in Message, NEW N \in SUBSET Message, m \in N,
           Matching(r, m), Seated(r)
    PROVE  CommitStep(r, stepRole(r, m), N)
<1>1. CASE m.type \in {"MsgVote", "MsgPreVote"}
  BY <1>1, HandleVoteMindful DEF stepRole, CommitStep
<1>2. CASE m.type \notin {"MsgVote", "MsgPreVote"} /\ r.state = "StateLeader"
  BY <1>2, StepLeaderMindful DEF stepRole, CommitStep, Seated
<1>3. CASE m.type \notin {"MsgVote", "MsgPreVote"} /\ r.state = "StateFollower"
  BY <1>3, StepFollowerCommit DEF stepRole
<1>4. CASE /\ m.type \notin {"MsgVote", "MsgPreVote"}
           /\ r.state \in {"StateCandidate", "StatePreCandidate"}
  BY <1>4, StepCandidateCommit DEF stepRole
<1>5. r.state \in StateType BY DEF Node
<1> QED BY <1>1, <1>2, <1>3, <1>4, <1>5 DEF StateType

\* What one message does to a server's commit index, and to what it promises.
LEMMA StepCommitStep ==
    ASSUME NEW r \in Node, NEW m \in Message, NEW N \in SUBSET Message, m \in N,
           Stamped(m), Seated(r), m.type = "MsgHeartbeat" => m.to = r.id
    PROVE  CommitStep(r, Step(r, m), N)
<1>0. r.Term \in Nat /\ m.term \in Nat /\ m.from \in Server BY DEF Node, Message
<1>1. CASE m.term # 0 /\ m.term < r.Term
  BY <1>1, StepLowerTermSteady, SteadyMindful DEF Step, CommitStep
<1>2. CASE m.term > r.Term /\ ignoresVote(r, m)
  <2>1. Step(r, m) = r BY <1>0, <1>2 DEF Step
  <2> QED BY <2>1, MindfulRefl DEF CommitStep
<1>3. CASE m.term > r.Term /\ ~ignoresVote(r, m)
  <2> DEFINE s == adoptTerm(r, m)
  <2>1. Step(r, m) = stepRole(s, m) BY <1>0, <1>3 DEF Step
  <2>2. CASE m.type = "MsgPreVote" \/ (m.type = "MsgPreVoteResp" /\ ~m.reject)
    <3>1. s = r /\ Matching(r, m)
      BY <2>2 DEF adoptTerm, OfThisTerm, Granted, Matching, Acknowledges
    <3> QED BY <2>1, <3>1, StepRoleCommit
  <2>3. CASE ~(m.type = "MsgPreVote" \/ (m.type = "MsgPreVoteResp" /\ ~m.reject))
    <3> DEFINE lead == IF m.type \in {"MsgApp", "MsgHeartbeat"} THEN m.from ELSE Nil
    <3>1. s = becomeFollower(r, m.term, lead) BY <2>3 DEF adoptTerm
    <3>2. lead \in Server \cup {Nil} /\ m.term >= r.Term BY <1>0, <1>3
    <3> HIDE DEF s, lead
    <3>3. s \in Node /\ Prepared(r, s) /\ s.Term = m.term /\ s.state = "StateFollower"
      BY <1>0, <3>1, <3>2, BecomeFollowerType, BecomeFollowerPrepared
    <3>4. Matching(s, m) /\ Seated(s)
      BY <3>3 DEF Prepared, Seated, OfThisTerm, Stamped, Matching
    <3>5. CommitStep(s, stepRole(s, m), N) BY <3>3, <3>4, StepRoleCommit
    <3>6. CommitStep(r, stepRole(s, m), N) BY <3>3, <3>5, PreparedThen
    <3> QED BY <2>1, <3>6 DEF s
  <2> QED BY <2>2, <2>3
<1>4. CASE ~(m.term > r.Term) /\ ~(m.term # 0 /\ m.term < r.Term)
  <2>1. Step(r, m) = stepRole(r, m) BY <1>0, <1>4 DEF Step
  <2>2. Matching(r, m) BY <1>0, <1>4 DEF OfThisTerm, Stamped, Matching
  <2> QED BY <2>1, <2>2, StepRoleCommit
<1> QED BY <1>1, <1>2, <1>3, <1>4

LEMMA TickElectionMindful ==
    ASSUME NEW r \in Node, NEW past \in BOOLEAN, NEW N \in SUBSET Message
    PROVE  CommitStep(r, tickElection(r, past), N)
<1> DEFINE s == [r EXCEPT !.expired = FALSE]
           q == [r EXCEPT !.expired = TRUE]
           t == hup(s, FALSE)
<1>1. r.Term \in Nat BY DEF Node
<1>2. s \in Node /\ q \in Node BY DEF Node
<1>3. \A x \in {s, q} :
         /\ x.id = r.id /\ x.voters = r.voters /\ x.state = r.state /\ x.Term = r.Term
         /\ x.log = r.log /\ x.committed = r.committed /\ x.msgs = r.msgs /\ x.after = r.after
         /\ x.prs = r.prs
  BY DEF Node
<1> HIDE DEF s, q
<1>4. \A x \in {s, q} : Prepared(r, x) BY <1>1, <1>3 DEF Prepared, Unmoved
<1>5. CommitStep(s, t, N) BY <1>2, HupMindful DEF CommitStep
<1> HIDE DEF t
<1>6. CommitStep(r, t, N) BY <1>2, <1>4, <1>5, PreparedThen
<1>7. CommitStep(r, q, N) BY <1>2, <1>4, PreparedMindful DEF CommitStep
<1>8. tickElection(r, past) \in {t, q} BY DEF tickElection, t, s, q
<1> QED BY <1>6, <1>7, <1>8

LEMMA TickHeartbeatMindful ==
    ASSUME NEW r \in Node, NEW timedOut \in BOOLEAN, NEW beat \in BOOLEAN,
           NEW N \in SUBSET Message
    PROVE  Mindful(r, tickHeartbeat(r, timedOut, beat), N)
<1> DEFINE down == becomeFollower(r, r.Term, Nil)
           c == IF QuorumActive(r) THEN r ELSE down
           d == [c EXCEPT !.prs = [p \in Server |-> IF p = r.id THEN @[p]
                                            ELSE [@[p] EXCEPT !.RecentActive = FALSE]]]
           s == IF timedOut /\ CheckQuorum THEN checkQuorum(r) ELSE r
           q == [s EXCEPT !.leadTransferee = Nil]
           t == IF timedOut /\ s.state = "StateLeader" THEN q ELSE s
           u == IF beat /\ t.state = "StateLeader" THEN bcastHeartbeat(t) ELSE t
<1>0. r.Term \in Nat /\ r.Term >= r.Term BY DEF Node
<1>1. c \in Node /\ Mindful(r, c, N)
  <2>1. down \in Node /\ Prepared(r, down)
    BY <1>0, BecomeFollowerType, BecomeFollowerPrepared
  <2> HIDE DEF down
  <2> QED BY <2>1, PreparedMindful, MindfulRefl
<1> HIDE DEF c
<1>2. Steady(c, d)
  <2>1. /\ d.id = c.id /\ d.voters = c.voters /\ d.state = c.state /\ d.Term = c.Term
        /\ d.log = c.log /\ d.committed = c.committed /\ d.msgs = c.msgs /\ d.after = c.after
        /\ \A p \in Server : d.prs[p].Match = c.prs[p].Match
    BY <1>1 DEF Node, Progress
  <2> HIDE DEF d
  <2> QED BY <2>1, SameSteady
<1>3. checkQuorum(r) = d BY DEF checkQuorum, c, down
<1> HIDE DEF d
<1>4. Mindful(r, d, N) BY <1>1, <1>2, MindfulThenSteady
<1>5. s \in Node /\ Mindful(r, s, N) BY <1>3, <1>4, CheckQuorumType, MindfulRefl
<1> HIDE DEF s
<1>6. q \in Node /\ Steady(s, q)
  <2>1. q \in Node BY <1>5 DEF Node
  <2>2. /\ q.id = s.id /\ q.voters = s.voters /\ q.state = s.state /\ q.Term = s.Term
        /\ q.log = s.log /\ q.committed = s.committed /\ q.msgs = s.msgs /\ q.after = s.after
        /\ q.prs = s.prs
    BY <1>5 DEF Node
  <2> HIDE DEF q
  <2> QED BY <2>1, <2>2, SameSteady
<1> HIDE DEF q
<1>7. t \in Node /\ Steady(s, t) BY <1>5, <1>6, SteadyRefl
<1> HIDE DEF t
<1>8. Steady(t, u) BY <1>7, BcastHeartbeatSteady, SteadyRefl
<1>9. tickHeartbeat(r, timedOut, beat) = u BY DEF tickHeartbeat, t, q, s
<1> HIDE DEF u
<1>10. Steady(s, u) BY <1>7, <1>8, SteadyTrans
<1> QED BY <1>5, <1>9, <1>10, MindfulThenSteady

\* Nobody learns anything from a proposal or a request to transfer.
LEMMA NothingOwed ==
    ASSUME NEW r, NEW s, NEW N, NEW m, CommitStep(r, s, N \cup {m}),
           m.type \notin {"MsgApp", "MsgHeartbeat", "MsgVote", "MsgAppResp"}
    PROVE  CommitStep(r, s, N)
<1>1. \A v : Clash(r, v) => v.type = "MsgApp" BY DEF Clash
<1>2. \A v : Taken(r, s, v) => v.type = "MsgApp" BY DEF Taken
<1>3. \A w : AckFits(w, r, s, N \cup {m}) => AckFits(w, r, s, N) BY DEF AckFits
<1>4. \A w : VoteFits(w, s, N \cup {m}) => VoteFits(w, s, N) BY DEF VoteFits
<1>5. CommitFits(r, s, N \cup {m}) => CommitFits(r, s, N) BY <1>2 DEF CommitFits
<1>6. \A d \in Server : MatchFits(d, r, s, N \cup {m}) => MatchFits(d, r, s, N)
  BY DEF MatchFits, Acknowledges
<1>7. \A w : Fitting(w, r, s, N \cup {m}) => Fitting(w, r, s, N) BY <1>3, <1>4 DEF Fitting
<1>8. Mindful(r, s, N \cup {m}) => Mindful(r, s, N) BY <1>2, <1>5, <1>6, <1>7 DEF Mindful
<1> QED BY <1>1, <1>8 DEF CommitStep

----------------------------------------------------------------------------
(* Logs that agree *)

LEMMA LogTermsAreNat ==
    ASSUME NEW log \in Seq(Entry), NEW n \in 1..Len(log)
    PROVE  log[n].term \in Nat
<1>1. log[n] \in Entry BY ElementOfSeq
<1> QED BY <1>1 DEF Entry

LEMMA AgreeSym == ASSUME NEW a, NEW b, NEW n, Agree(a, b, n) PROVE Agree(b, a, n)
BY DEF Agree

LEMMA AgreeTrans ==
    ASSUME NEW a, NEW b, NEW c, NEW n, Agree(a, b, n), Agree(b, c, n)
    PROVE  Agree(a, c, n)
BY DEF Agree

LEMMA AgreeLess ==
    ASSUME NEW a \in Seq(Entry), NEW b \in Seq(Entry), NEW n \in Nat, NEW k \in Nat, k <= n,
           Agree(a, b, n)
    PROVE  Agree(a, b, k)
<1>1. Len(a) \in Nat /\ Len(b) \in Nat BY LenProperties
<1> QED BY <1>1 DEF Agree

LEMMA AgreeSelf ==
    ASSUME NEW a, NEW n, n <= Len(a)
    PROVE  Agree(a, a, n)
BY DEF Agree

LEMMA AgreeNone ==
    ASSUME NEW a \in Seq(Entry), NEW b \in Seq(Entry)
    PROVE  Agree(a, b, 0)
<1>1. Len(a) \in Nat /\ Len(b) \in Nat BY LenProperties
<1> QED BY <1>1 DEF Agree

LEMMA AgreeHas ==
    ASSUME NEW a \in Seq(Entry), NEW b \in Seq(Entry), NEW n \in Nat, NEW k \in Nat, k <= n,
           NEW t, Agree(a, b, n), Has(a, k, t)
    PROVE  Has(b, k, t)
<1>1. Len(a) \in Nat /\ Len(b) \in Nat BY LenProperties
<1> QED BY <1>1 DEF Agree, Has

LEMMA AgreeTermAt ==
    ASSUME NEW a \in Seq(Entry), NEW b \in Seq(Entry), NEW n \in Nat, NEW k \in Nat, k <= n,
           Agree(a, b, n)
    PROVE  TermAt(a, k) = TermAt(b, k)
<1>1. Len(a) \in Nat /\ Len(b) \in Nat BY LenProperties
<1> QED BY <1>1 DEF Agree, TermAt

LEMMA LeastIs ==
    ASSUME NEW n \in Nat, NEW k \in Nat
    PROVE  /\ Least(n, k) \in Nat /\ Least(n, k) <= n /\ Least(n, k) <= k
           /\ Least(n, k) = n \/ Least(n, k) = k
           /\ n <= k => Least(n, k) = n
           /\ k <= n => Least(n, k) = k
           /\ Least(n, k) = Least(k, n)
BY DEF Least

\* Of no two links of one index and term is one in a and another in b.
Matched(a, b) ==
    \A x \in LogLinks(a), y \in LogLinks(b) :
        x.at = y.at /\ x.entry.term = y.entry.term => x = y

LEMMA HasAgree ==
    ASSUME NEW a \in Seq(Entry), NEW b \in Seq(Entry), Matched(a, b), NEW k, NEW t,
           Has(a, k, t), Has(b, k, t)
    PROVE  Agree(a, b, k)
<1>1. Len(a) \in Nat /\ Len(b) \in Nat BY LenProperties
<1>2. k \in 1..Len(a) /\ k <= Len(b) /\ k <= Len(a) /\ a[k].term = b[k].term BY <1>1 DEF Has
<1>3. \A n \in 1..k : a[n] = b[n] BY <1>2, LinksAgree DEF Matched
<1> QED BY <1>2, <1>3 DEF Agree

\* The terms of the log never fall.
Sorted(log) == \A c, d \in 1..Len(log) : c <= d => log[c].term <= log[d].term

LEMMA SortedLog ==
    ASSUME NEW log \in Seq(Entry), \A x \in LogLinks(log) : x.prev <= x.entry.term
    PROVE  Sorted(log)
<1>0. Len(log) \in Nat BY LenProperties
<1>1. \A n \in 1..Len(log) : log[n].term \in Nat BY LogTermsAreNat
<1>2. ASSUME NEW n \in 1..Len(log), n > 1 PROVE log[n - 1].term <= log[n].term
  <2> DEFINE x == [at |-> n, entry |-> log[n], prev |-> TermAt(log, n - 1)]
  <2>1. x \in LogLinks(log) BY LinkOfLog
  <2>2. x.prev <= x.entry.term BY <2>1
  <2>3. x.prev = log[n - 1].term /\ x.entry = log[n] BY <1>0, <1>2 DEF TermAt
  <2> HIDE DEF x
  <2> QED BY <2>2, <2>3
<1> SUFFICES ASSUME NEW d \in 1..Len(log), NEW c \in 1..Len(log), c <= d,
                    ~(log[c].term <= log[d].term)
             PROVE  FALSE
  BY DEF Sorted
<1> DEFINE S == {n \in Nat : n < d /\ ~(log[d - n].term <= log[d].term)}
<1>3. d - c \in S
  <2>1. d - c \in Nat /\ d - c < d /\ d - (d - c) = c BY <1>0
  <2> QED BY <2>1
<1>4. S \in SUBSET Nat /\ S # {} BY <1>3
<1>5. PICK n \in S : \A y \in S : n <= y
  <2> HIDE DEF S
  <2> QED BY <1>4, LeastElement
<1>6. n \in Nat /\ n < d /\ ~(log[d - n].term <= log[d].term) OBVIOUS
<1>7. n # 0 BY <1>0, <1>1, <1>6
<1>8. n - 1 \in Nat /\ n - 1 < d /\ ~(n <= n - 1) BY <1>0, <1>6, <1>7
<1>9. n - 1 \notin S
  <2> HIDE DEF S
  <2> QED BY <1>5, <1>8
<1>10. log[d - (n - 1)].term <= log[d].term BY <1>8, <1>9
<1> DEFINE j == d - (n - 1)
<1>11. j \in 1..Len(log) /\ j > 1 /\ j - 1 = d - n /\ j - 1 \in 1..Len(log) BY <1>0, <1>6, <1>8, <1>7
<1> HIDE DEF j
<1>12. log[j - 1].term <= log[j].term BY <1>2, <1>11
<1>13. log[j].term <= log[d].term BY <1>10 DEF j
<1>14. log[j - 1].term <= log[d].term BY SMTT(60), <1>1, <1>11, <1>12, <1>13
<1> QED BY <1>6, <1>11, <1>14

----------------------------------------------------------------------------
(* Appending a MsgApp, and keys *)

\* Keys are numbers and a server.
Key == [at : Nat \ {0}, term : Nat, owner : Server]

LEMMA SplicedIs ==
    ASSUME NEW log \in Seq(Entry), NEW v \in Message, v.index <= Len(log)
    PROVE  LET ci == findConflict(log, v.index, v.entries)
               S  == Spliced(log, v)
               n  == v.index + Len(v.entries)
           IN  /\ S \in Seq(Entry) /\ ci \in Nat /\ n \in Nat
               /\ ci = 0 => /\ S = log
                            /\ \A c \in (v.index + 1)..n :
                                 matchTerm(log, c, v.entries[c - v.index].term)
               /\ ci # 0 => /\ ci \in (v.index + 1)..n /\ Len(S) = n
                            /\ ~matchTerm(log, ci, v.entries[ci - v.index].term)
                            /\ ci - 1 <= Len(log)
                            /\ \A c \in (v.index + 1)..(ci - 1) :
                                 matchTerm(log, c, v.entries[c - v.index].term)
                            /\ \A c \in 1..(ci - 1) : S[c] = log[c]
                            /\ \A c \in ci..n : S[c] = v.entries[c - v.index]
<1> DEFINE ci == findConflict(log, v.index, v.entries)
           S  == Spliced(log, v)
           n  == v.index + Len(v.entries)
           C  == {c \in (v.index + 1)..n : ~matchTerm(log, c, v.entries[c - v.index].term)}
           kept == SubSeq(log, 1, ci - 1)
           added == SubSeq(v.entries, ci - v.index, Len(v.entries))
<1>1. v.index \in Nat /\ v.entries \in Seq(Entry) BY DEF Message
<1>2. Len(v.entries) \in Nat /\ Len(log) \in Nat /\ n \in Nat BY <1>1, LenProperties
<1>3. C \in SUBSET Nat /\ 0 \notin C /\ ci = MinOr0(C) BY <1>1, <1>2 DEF findConflict
<1>4. S = IF ci = 0 THEN log ELSE kept \o added BY DEF Spliced
<1>5. ci = 0 \/ (ci \in C /\ \A y \in C : ci <= y)
  <2> HIDE DEF C, ci
  <2> QED BY <1>3, MinOr0Type
<1>6. ci = 0 => C = {}
  <2> HIDE DEF C, ci
  <2> SUFFICES ASSUME ci = 0, C # {} PROVE FALSE OBVIOUS
  <2>1. PICK x \in C : \A y \in C : x <= y BY <1>3, LeastElement
  <2>2. MinOr0(C) \in C
    <3>1. x \in {z \in C : \A y \in C : z <= y} BY <2>1
    <3> QED BY <2>1, <3>1 DEF MinOr0
  <2> QED BY <1>3, <2>2
<1> HIDE DEF ci, S, n
<1>7. CASE ci = 0
  <2>1. \A c \in (v.index + 1)..n : matchTerm(log, c, v.entries[c - v.index].term)
    BY <1>6, <1>7
  <2> QED BY <1>2, <1>4, <1>7, <2>1 DEF ci, S, n
<1>8. CASE ci # 0
  <2>1. ci \in C /\ \A y \in C : ci <= y BY <1>5, <1>8
  <2>2. ci \in (v.index + 1)..n /\ ~matchTerm(log, ci, v.entries[ci - v.index].term) BY <2>1
  <2>3. \A c \in (v.index + 1)..(ci - 1) :
          c \notin C /\ c \in (v.index + 1)..n
    BY <1>1, <1>2, <2>1, <2>2
  <2>4. \A c \in (v.index + 1)..(ci - 1) : matchTerm(log, c, v.entries[c - v.index].term)
    BY <2>3
  <2>5. ci \in Nat /\ ci - 1 <= Len(log)
    <3>1. CASE ci = v.index + 1 BY <1>1, <1>2, <3>1
    <3>2. CASE ci # v.index + 1
      <4>1. ci - 1 \in (v.index + 1)..(ci - 1) BY <1>1, <1>2, <2>2, <3>2
      <4> QED BY <1>1, <1>2, <2>2, <2>4, <4>1 DEF matchTerm
    <3> QED BY <3>1, <3>2
  <2>6. /\ kept \in Seq(Entry) /\ Len(kept) = ci - 1
        /\ \A c \in 1..(ci - 1) : kept[c] = log[c]
    <3>1. \A c \in 1..(ci - 1) : c \in 1..Len(log) BY <1>2, <2>5
    <3>2. \A c \in 1..(ci - 1) : log[c] \in Entry BY <3>1, ElementOfSeq
    <3>3. ci >= 1 BY <1>8, <2>5
    <3> QED BY <2>5, <3>2, <3>3, SubSeqProperties
  <2>7. /\ added \in Seq(Entry) /\ Len(added) = n - ci + 1
        /\ \A c \in 1..(n - ci + 1) : added[c] = v.entries[ci - v.index + c - 1]
    <3> DEFINE k == ci - v.index
    <3>1. k \in 1..Len(v.entries) /\ Len(v.entries) - k + 1 = n - ci + 1
      BY SMTT(60), <1>1, <1>2, <2>2 DEF n
    <3>2. \A c \in k..Len(v.entries) : v.entries[c] \in Entry
      BY <1>1, <1>2, <3>1, ElementOfSeq
    <3> HIDE DEF k
    <3>3. SubSeq(v.entries, k, Len(v.entries)) \in Seq(Entry)
          /\ Len(SubSeq(v.entries, k, Len(v.entries))) = Len(v.entries) - k + 1
          /\ \A c \in 1..(Len(v.entries) - k + 1) :
               SubSeq(v.entries, k, Len(v.entries))[c] = v.entries[k + c - 1]
      BY <1>2, <3>1, <3>2, SubSeqProperties
    <3> QED BY <3>1, <3>3 DEF k
  <2> HIDE DEF kept, added
  <2>8. /\ S \in Seq(Entry) /\ Len(S) = Len(kept) + Len(added)
        /\ \A c \in 1..(Len(kept) + Len(added)) :
             S[c] = IF c <= Len(kept) THEN kept[c] ELSE added[c - Len(kept)]
    BY <1>4, <1>8, <2>6, <2>7, ConcatProperties
  <2>9. Len(S) = n BY <1>2, <2>5, <2>6, <2>7, <2>8
  <2>10. \A c \in 1..(ci - 1) : S[c] = log[c] BY <1>2, <2>2, <2>5, <2>6, <2>7, <2>8
  <2>11. ASSUME NEW c \in ci..n PROVE S[c] = v.entries[c - v.index]
    <3> DEFINE e == c - Len(kept)
               at == ci - v.index + e - 1
    <3>1. c \in 1..(Len(kept) + Len(added)) /\ ~(c <= Len(kept))
      BY <1>1, <1>2, <2>2, <2>5, <2>6, <2>7
    <3>2. S[c] = added[e] BY <2>8, <3>1
    <3>3. /\ Len(kept) = ci - 1 /\ c \in ci..n
          /\ v.index \in Nat /\ n \in Nat /\ ci \in Nat /\ ci \in (v.index + 1)..n
      BY <1>1, <1>2, <2>2, <2>5, <2>6
    <3>4. e \in 1..(n - ci + 1) /\ at = c - v.index BY <3>3
    <3> HIDE DEF e
    <3>5. added[e] = v.entries[at] BY <2>7, <3>4
    <3> HIDE DEF at
    <3> QED BY <3>2, <3>4, <3>5
  <2> QED BY <1>2, <1>8, <2>2, <2>4, <2>5, <2>8, <2>9, <2>10, <2>11 DEF ci, S, n
<1> QED BY <1>7, <1>8

\* A MsgApp that respects key a does not change a log up to there.
LEMMA SpliceAgrees ==
    ASSUME NEW log \in Seq(Entry), NEW b \in Seq(Entry), NEW v \in Message, NEW a \in Key,
           v.index <= Len(log), Respects(v, a, b), NEW n \in Nat, n <= a.at, Agree(log, b, n)
    PROVE  Agree(Spliced(log, v), b, n)
<1> DEFINE ci == findConflict(log, v.index, v.entries)
           S  == Spliced(log, v)
           e  == v.index + Len(v.entries)
<1>1. /\ S \in Seq(Entry) /\ ci \in Nat /\ e \in Nat
      /\ ci = 0 => S = log
      /\ ci # 0 => /\ ci \in (v.index + 1)..e /\ Len(S) = e
                   /\ ~matchTerm(log, ci, v.entries[ci - v.index].term)
                   /\ \A c \in 1..(ci - 1) : S[c] = log[c]
  BY SplicedIs
<1> HIDE DEF ci, S, e
<1>2. /\ v.index \in Nat /\ Len(log) \in Nat /\ Len(b) \in Nat /\ Len(v.entries) \in Nat
      /\ a.at \in Nat
  BY LenProperties DEF Message, Key
<1>3. CASE ci = 0 BY <1>1, <1>3 DEF S
<1>4. CASE ci # 0
  <2>1. n <= ci - 1
    <3> SUFFICES ASSUME ~(n <= ci - 1) PROVE FALSE OBVIOUS
    <3> DEFINE k == ci - v.index
    <3>0. ci \in Nat /\ v.index + 1 <= ci /\ ci <= v.index + Len(v.entries)
      <4>1. ci \in Nat /\ ci \in (v.index + 1)..e BY <1>1, <1>4
      <4> QED BY <1>2, <4>1 DEF e
    <3>1. k \in 1..Len(v.entries) /\ v.index + k = ci /\ ci <= n /\ ci >= 1 /\ ci <= a.at
      BY <1>2, <3>0
    <3>2. n <= Len(log) /\ n <= Len(b) /\ \A c \in 1..n : log[c] = b[c] BY DEF Agree
    <3> HIDE DEF k
    <3>3. v.entries[k].term = TermAt(b, ci) BY <3>1 DEF Respects
    <3>4. ci \in 1..Len(log) /\ ci \in 1..Len(b) /\ log[ci] = b[ci]
      <4>1. ci \in 1..n BY <3>0, <3>1
      <4>2. ci \in 1..Len(log) /\ ci \in 1..Len(b) BY <1>2, <3>0, <3>1, <3>2
      <4> QED BY <3>2, <4>1, <4>2
    <3>5. v.entries[k].term = log[ci].term BY <3>3, <3>4 DEF TermAt
    <3>6. matchTerm(log, ci, v.entries[k].term) BY <3>4, <3>5, <1>2 DEF matchTerm, TermAt
    <3> QED BY <1>1, <1>4, <3>6 DEF k
  <2>2. n <= Len(S) BY <1>1, <1>2, <1>4, <2>1
  <2>3. \A c \in 1..n : S[c] = log[c] BY <1>1, <1>4, <2>1
  <2> QED BY <2>2, <2>3 DEF Agree, S
<1> QED BY <1>3, <1>4

\* Once a MsgApp that respects key a is on a log that has what follows the key
\* only with the key, the log is right as far as the MsgApp goes.
LEMMA SpliceFollows ==
    ASSUME NEW log \in Seq(Entry), NEW b \in Seq(Entry), NEW v \in Message, NEW a \in Key,
           matchTerm(log, v.index, v.logTerm), Respects(v, a, b), Complete(log, a),
           Has(b, a.at, a.term), Matched(log, b), Matched(Spliced(log, v), b)
    PROVE  Agree(Spliced(log, v), b, Least(v.index + Len(v.entries), a.at))
<1> DEFINE ci == findConflict(log, v.index, v.entries)
           S  == Spliced(log, v)
           e  == v.index + Len(v.entries)
           n  == Least(e, a.at)
<1>0. v.index <= Len(log) /\ TermAt(log, v.index) = v.logTerm BY DEF matchTerm
<1>1. /\ S \in Seq(Entry) /\ ci \in Nat /\ e \in Nat
      /\ ci = 0 => /\ S = log
                   /\ \A c \in (v.index + 1)..e : matchTerm(log, c, v.entries[c - v.index].term)
      /\ ci # 0 => /\ ci \in (v.index + 1)..e /\ Len(S) = e
                   /\ \A c \in (v.index + 1)..(ci - 1) :
                        matchTerm(log, c, v.entries[c - v.index].term)
                   /\ \A c \in 1..(ci - 1) : S[c] = log[c]
                   /\ \A c \in ci..e : S[c] = v.entries[c - v.index]
  BY <1>0, SplicedIs
<1> HIDE DEF ci, S, e
<1>2. /\ v.index \in Nat /\ Len(log) \in Nat /\ Len(b) \in Nat /\ Len(v.entries) \in Nat
      /\ a.at \in Nat /\ a.at # 0 /\ a.term \in Nat /\ v.logTerm \in Nat
  BY LenProperties DEF Message, Key
<1>3. n \in Nat /\ n <= e /\ n <= a.at /\ (n = e \/ n = a.at)
  <2>1. e \in Nat /\ a.at \in Nat BY <1>1, <1>2
  <2> QED BY <2>1, LeastIs
<1> HIDE DEF n
<1>4. a.at <= Len(b) /\ b[a.at].term = a.term BY DEF Has
<1>5. CASE a.at <= v.index
  <2>1. v.index \in 1..Len(log) /\ log[v.index].term = v.logTerm
    BY <1>0, <1>2, <1>5 DEF TermAt
  <2>2. Has(log, a.at, a.term)
    <3>1. CASE v.index = a.at
      <4>1. v.logTerm = a.term BY <1>2, <1>4, <3>1 DEF Respects, TermAt
      <4> QED BY <2>1, <3>1, <4>1 DEF Has
    <3>2. CASE v.index # a.at
      <4>1. v.logTerm >= a.term BY <1>2, <1>5, <3>2 DEF Respects
      <4>2. After(log[v.index].term, v.index, a) BY <1>2, <1>5, <2>1, <4>1 DEF After
      <4> QED BY <2>1, <4>2 DEF Complete
    <3> QED BY <3>1, <3>2
  <2>3. Agree(log, b, a.at) BY <2>2, HasAgree
  <2>4. Agree(log, b, n) BY <1>2, <1>3, <2>3, AgreeLess
  <2>5. Agree(S, b, n) BY <1>0, <1>3, <2>4, SpliceAgrees DEF S
  <2> QED BY <2>5 DEF S, n, e
<1>6. CASE v.index < a.at
  <2>1. v.logTerm = TermAt(b, v.index) BY <1>2, <1>6 DEF Respects
  <2>2. Agree(log, b, v.index)
    <3>1. CASE v.index = 0 BY <3>1, AgreeNone
    <3>2. CASE v.index # 0
      <4>1. v.index \in 1..Len(log) /\ v.index \in 1..Len(b) BY <1>0, <1>2, <1>4, <1>6, <3>2
      <4>2. Has(log, v.index, v.logTerm) /\ Has(b, v.index, v.logTerm)
        BY <1>0, <2>1, <4>1 DEF Has, TermAt
      <4> QED BY <4>2, HasAgree
    <3> QED BY <3>1, <3>2
  <2>3. CASE n <= v.index
    <3>1. Agree(log, b, n) BY <1>2, <1>3, <2>2, <2>3, AgreeLess
    <3>2. Agree(S, b, n) BY <1>0, <1>3, <3>1, SpliceAgrees DEF S
    <3> QED BY <3>2 DEF S, n, e
  <2>4. CASE n > v.index
    <3> DEFINE k == n - v.index
    <3>1. /\ k \in 1..Len(v.entries) /\ v.index + k = n /\ n >= 1 /\ n <= Len(b)
          /\ n \in (v.index + 1)..e
      <4>1. e = v.index + Len(v.entries) BY DEF e
      <4> QED BY SMTT(60), <1>2, <1>3, <1>4, <2>4, <4>1
    <3> HIDE DEF k
    <3>2. v.entries[k].term = TermAt(b, n) BY <1>3, <3>1 DEF Respects
    <3>3. n \in 1..Len(b) BY <1>2, <1>3, <3>1
    <3>4. v.entries[k].term = b[n].term /\ Has(b, n, b[n].term) BY <3>2, <3>3 DEF TermAt, Has
    <3>5. matchTerm(log, n, v.entries[k].term) => Has(log, n, b[n].term)
      <4>1. n <= Len(log) => n \in 1..Len(log) BY <1>2, <1>3, <3>1
      <4> QED BY <3>4, <4>1 DEF matchTerm, TermAt, Has
    <3>6. Has(S, n, b[n].term)
      <4>1. CASE ci = 0 BY <1>1, <3>1, <3>5, <4>1 DEF k
      <4>2. CASE ci # 0 /\ n < ci
        <5>1. n \in (v.index + 1)..(ci - 1) /\ n \in 1..(ci - 1) /\ n \in 1..e
          BY <1>1, <1>2, <3>1, <4>2
        <5>2. matchTerm(log, n, v.entries[k].term) /\ S[n] = log[n] /\ Len(S) = e
          BY <1>1, <4>2, <5>1 DEF k
        <5> QED BY <3>5, <5>1, <5>2 DEF Has
      <4>3. CASE ci # 0 /\ ~(n < ci)
        <5>1. n \in ci..e /\ n \in 1..e BY <1>1, <1>2, <3>1, <4>3
        <5>2. S[n] = v.entries[k] /\ Len(S) = e BY <1>1, <4>3, <5>1 DEF k
        <5> QED BY <3>4, <5>1, <5>2 DEF Has
      <4> QED BY <4>1, <4>2, <4>3
    <3>7. Agree(S, b, n) BY <1>1, <3>4, <3>6, HasAgree DEF S
    <3> QED BY <3>7 DEF S, n, e
  <2> QED BY <1>2, <1>3, <2>3, <2>4
<1> QED BY <1>2, <1>5, <1>6

\* A MsgApp leaves no log with what follows a key but not the key: it respects
\* the key, or it is of an earlier term and has nothing that follows the key.
LEMMA SpliceComplete ==
    ASSUME NEW log \in Seq(Entry), NEW b \in Seq(Entry), NEW v \in Message, NEW a \in Key,
           matchTerm(log, v.index, v.logTerm), a.term <= v.term => Respects(v, a, b),
           Complete(log, a), Has(b, a.at, a.term), Sorted(b),
           \A c \in 1..Len(v.entries) : v.entries[c].term <= v.term,
           Matched(log, b), Matched(Spliced(log, v), b)
    PROVE  Complete(Spliced(log, v), a)
<1> DEFINE ci == findConflict(log, v.index, v.entries)
           S  == Spliced(log, v)
           e  == v.index + Len(v.entries)
<1>0. v.index <= Len(log) BY DEF matchTerm
<1>1. /\ S \in Seq(Entry) /\ ci \in Nat /\ e \in Nat
      /\ ci = 0 => S = log
      /\ ci # 0 => /\ ci \in (v.index + 1)..e /\ Len(S) = e
                   /\ ci - 1 <= Len(log)
                   /\ \A c \in 1..(ci - 1) : S[c] = log[c]
                   /\ \A c \in ci..e : S[c] = v.entries[c - v.index]
  BY <1>0, SplicedIs
<1>2. a.term <= v.term => Agree(S, b, Least(e, a.at)) BY SpliceFollows
<1> HIDE DEF ci, S, e
<1>3. /\ v.index \in Nat /\ Len(log) \in Nat /\ Len(b) \in Nat /\ Len(v.entries) \in Nat
      /\ a.at \in Nat /\ a.at # 0 /\ a.term \in Nat /\ v.term \in Nat
  BY LenProperties DEF Message, Key
<1>4. CASE ci = 0 BY <1>1, <1>4 DEF S
<1>5. ASSUME ci # 0, NEW c \in 1..Len(S), After(S[c].term, c, a)
      PROVE  c >= a.at /\ Has(S, a.at, a.term)
  <2>1. S[c].term \in Nat BY <1>1, LogTermsAreNat
  <2>2. S[c].term >= a.term BY <1>3, <1>5, <2>1 DEF After
  <2>3. CASE a.term <= v.term
    <3> DEFINE n == Least(e, a.at)
    <3>1. /\ n \in Nat /\ n <= e /\ n <= a.at
          /\ e <= a.at => n = e
          /\ a.at <= e => n = a.at
      <4>1. e \in Nat /\ a.at \in Nat BY <1>1, <1>3
      <4> QED BY <4>1, LeastIs
    <3>2. Agree(S, b, n) BY <1>2, <2>3
    <3> HIDE DEF n
    <3>3. CASE c >= a.at
      <4>1. n = a.at BY <1>1, <1>3, <1>5, <3>1, <3>3
      <4>2. Agree(b, S, n) BY <3>2, AgreeSym
      <4> QED BY <1>1, <1>3, <3>1, <3>3, <4>1, <4>2, AgreeHas
    <3>4. CASE ~(c >= a.at)
      <4>1. c \in 1..n /\ c <= n /\ c <= a.at BY <1>1, <1>3, <1>5, <3>1, <3>4
      <4>2. S[c] = b[c] BY <3>2, <4>1 DEF Agree
      <4>3. c \in 1..Len(b) /\ a.at \in 1..Len(b) /\ b[a.at].term = a.term
        BY <1>3, <1>5, <3>4 DEF Has
      <4>4. b[c].term <= a.term BY <4>1, <4>3 DEF Sorted
      <4>5. S[c].term <= a.term BY <4>2, <4>4
      <4> QED BY <1>3, <1>5, <2>1, <3>4, <4>5 DEF After
    <3> QED BY <3>3, <3>4
  <2>4. CASE ~(a.term <= v.term)
    <3>1. c \in 1..(ci - 1)
      <4> SUFFICES ASSUME c \notin 1..(ci - 1) PROVE FALSE OBVIOUS
      <4> DEFINE k == c - v.index
      <4>1. c \in ci..e /\ k \in 1..Len(v.entries) BY SMTT(60), <1>1, <1>3, <1>5 DEF e
      <4>2. S[c] = v.entries[k] BY <1>1, <1>5, <4>1
      <4>3. v.entries[k].term <= v.term BY <4>1
      <4> HIDE DEF k
      <4>4. S[c].term <= v.term BY <4>2, <4>3
      <4> QED BY <1>3, <2>1, <2>2, <2>4, <4>4
    <3>2. S[c] = log[c] /\ c \in 1..Len(log) BY <1>1, <1>3, <1>5, <3>1
    <3>3. After(log[c].term, c, a) BY <1>5, <3>2
    <3>4. c >= a.at /\ Has(log, a.at, a.term) BY <3>2, <3>3 DEF Complete
    <3>5. a.at \in 1..(ci - 1) /\ a.at \in 1..Len(S) BY SMTT(60), <1>1, <1>3, <1>5, <3>1, <3>4
    <3>6. S[a.at] = log[a.at] BY <1>1, <1>5, <3>5
    <3> QED BY <3>4, <3>5, <3>6 DEF Has
  <2> QED BY <2>3, <2>4
<1> QED BY <1>4, <1>5 DEF Complete, S

\* A part of a log that has a key respects the key.
LEMMA SliceRespects ==
    ASSUME NEW log \in Seq(Entry), NEW b \in Seq(Entry), NEW m \in Message, NEW a \in Key,
           Slice(m, log), Has(log, a.at, a.term), Has(b, a.at, a.term), Matched(log, b),
           Sorted(log)
    PROVE  Respects(m, a, b)
<1>1. /\ m.index \in Nat /\ Len(log) \in Nat /\ Len(b) \in Nat /\ Len(m.entries) \in Nat
      /\ a.at \in Nat /\ a.at # 0 /\ a.term \in Nat
  BY LenProperties DEF Message, Key
<1>2. Agree(log, b, a.at) BY HasAgree
<1>3. /\ m.index + Len(m.entries) <= Len(log) /\ m.logTerm = TermAt(log, m.index)
      /\ \A c \in 1..Len(m.entries) : m.entries[c] = log[m.index + c]
  BY DEF Slice
<1>4. a.at \in 1..Len(log) /\ log[a.at].term = a.term BY DEF Has
<1>5. m.index <= a.at => m.logTerm = TermAt(b, m.index)
  BY <1>1, <1>2, <1>3, AgreeTermAt
<1>6. ASSUME m.index > a.at PROVE m.logTerm >= a.term
  <2>1. m.index \in 1..Len(log) /\ a.at <= m.index BY <1>1, <1>3, <1>6
  <2>2. log[a.at].term <= log[m.index].term BY <1>4, <2>1 DEF Sorted
  <2>3. log[m.index].term \in Nat BY <2>1, LogTermsAreNat
  <2>4. m.logTerm = log[m.index].term BY <1>3, <2>1 DEF TermAt
  <2> QED BY <1>1, <1>4, <2>2, <2>3, <2>4
<1>7. ASSUME NEW c \in 1..Len(m.entries), m.index + c <= a.at
      PROVE  m.entries[c].term = TermAt(b, m.index + c)
  <2> DEFINE k == m.index + c
  <2>1. k \in Nat /\ k <= a.at /\ k \in 1..Len(log) BY <1>1, <1>3, <1>7
  <2>2. m.entries[c] = log[k] BY <1>3, <1>7
  <2> HIDE DEF k
  <2>3. TermAt(log, k) = TermAt(b, k) BY <1>1, <1>2, <2>1, AgreeTermAt
  <2>4. m.entries[c].term = TermAt(b, k) BY <2>1, <2>2, <2>3 DEF TermAt
  <2> QED BY <2>4 DEF k
<1> QED BY <1>5, <1>6, <1>7 DEF Respects

----------------------------------------------------------------------------
(* The keys of a group *)

\* Servers, disks and messages.
Group(nd, dk, nt) ==
    nd \in [Server -> Node] /\ dk \in [Server -> Disk] /\ nt \in SUBSET Message

LEMMA GroupLogs ==
    ASSUME NEW nd, NEW dk, NEW nt, Group(nd, dk, nt)
    PROVE  /\ \A j \in Server : /\ nd[j] \in Node /\ nd[j].log \in Seq(Entry)
                                /\ nd[j].Term \in Nat /\ nd[j].committed \in Nat
           /\ \A j \in Server : /\ dk[j] \in Disk /\ dk[j].log \in Seq(Entry)
                                /\ dk[j].hs.Term \in Nat /\ dk[j].hs.Commit \in Nat
                                /\ dk[j].synced \in Nat
<1>1. \A j \in Server : nd[j] \in Node /\ dk[j] \in Disk BY DEF Group
<1>2. \A r \in Node : r.log \in Seq(Entry) /\ r.Term \in Nat /\ r.committed \in Nat BY DEF Node
<1>3. \A d \in Disk : /\ d.log \in Seq(Entry) /\ d.hs.Term \in Nat /\ d.hs.Commit \in Nat
                      /\ d.synced \in Nat
  BY DEF Disk, HardState
<1> QED BY <1>1, <1>2, <1>3

LEMMA UnderwayType ==
    ASSUME NEW nd, NEW dk, NEW nt, Group(nd, dk, nt)
    PROVE  Underway(nd, nt) \subseteq Message
<1> SUFFICES ASSUME NEW m \in Underway(nd, nt) PROVE m \in Message OBVIOUS
<1>1. m \in nt \/ \E j \in Server : m \in Boxes(nd[j]) \cup Range(nd[j].steps) BY DEF Underway
<1>2. ASSUME NEW j \in Server PROVE Boxes(nd[j]) \cup Range(nd[j].steps) \subseteq Message
  <2>1. nd[j] \in Node BY GroupLogs
  <2>2. nd[j].steps \in Seq(Message) BY <2>1 DEF Node
  <2>3. Range(nd[j].steps) = {nd[j].steps[n] : n \in 1..Len(nd[j].steps)}
    BY <2>2, RangeEquality
  <2> QED BY <2>1, <2>2, <2>3, BoxesType, ElementOfSeq
<1> QED BY <1>1, <1>2 DEF Group

\* A key that a log has is the key of one of its links.
LEMMA HasLink ==
    ASSUME NEW log \in Seq(Entry), NEW k, NEW t, Has(log, k, t)
    PROVE  \E x \in LogLinks(log) : x.at = k /\ x.entry.term = t
<1> DEFINE x == [at |-> k, entry |-> log[k], prev |-> TermAt(log, k - 1)]
<1>1. k \in 1..Len(log) /\ log[k].term = t BY DEF Has
<1>2. x \in LogLinks(log) BY <1>1, LinkOfLog
<1>3. x.at = k /\ x.entry = log[k] OBVIOUS
<1> QED BY <1>1, <1>2, <1>3

LEMMA LinkKey ==
    ASSUME NEW S, NEW x \in S, NEW a \in Key, x.at = a.at, x.entry.term = a.term
    PROVE  a \in Keys(S)
<1>1. a = [at |-> x.at, term |-> x.entry.term, owner |-> a.owner] /\ a.owner \in Server
  BY DEF Key
<1> QED BY <1>1 DEF Keys

LEMMA KeyLink ==
    ASSUME NEW S, NEW a \in Keys(S)
    PROVE  a.owner \in Server /\ \E x \in S : x.at = a.at /\ x.entry.term = a.term
BY DEF Keys

LEMMA LinkTypes ==
    ASSUME NEW nd, NEW dk, NEW nt, Group(nd, dk, nt)
    PROVE  \A x \in Links(nd, dk, nt) : x.at \in Nat \ {0} /\ x.entry.term \in Nat
<1> TAKE x \in Links(nd, dk, nt)
<1>1. x.entry.term \in Nat BY LinkTerms DEF Group
<1>2. \/ \E j \in Server : x \in LogLinks(nd[j].log) \cup LogLinks(dk[j].log)
      \/ \E m \in Underway(nd, nt) : x \in Carried(m)
  BY DEF Links
<1>3. ASSUME NEW log \in Seq(Entry), x \in LogLinks(log) PROVE x.at \in Nat \ {0}
  <2>1. x.at \in 1..Len(log) /\ Len(log) \in Nat BY <1>3, LinkAt, LenProperties
  <2> QED BY <2>1
<1>4. ASSUME NEW m \in Message, x \in Carried(m) PROVE x.at \in Nat \ {0}
  <2>1. m.index \in Nat /\ Len(m.entries) \in Nat BY LenProperties DEF Message
  <2>2. \E k \in 1..Len(m.entries) : x.at = m.index + k BY <1>4 DEF Carried
  <2> QED BY <2>1, <2>2
<1> QED BY <1>1, <1>2, <1>3, <1>4, GroupLogs, UnderwayType

LEMMA KeysAre ==
    ASSUME NEW nd, NEW dk, NEW nt, Group(nd, dk, nt)
    PROVE  Keys(Links(nd, dk, nt)) \subseteq Key
BY LinkTypes DEF Keys, Key

LEMMA LiveIs ==
    ASSUME NEW nd, NEW dk, NEW nt, Group(nd, dk, nt), NEW a \in LiveKeys(nd, dk, nt)
    PROVE  /\ a \in Key /\ a.at \in Nat \ {0} /\ a.term \in Nat /\ a.owner \in Server
           /\ a \in Keys(Links(nd, dk, nt)) /\ Won(a.owner, a.term, nd, dk, nt)
           /\ ~Missed(a, nd, dk, nt)
<1>1. /\ a \in Keys(Links(nd, dk, nt)) /\ Won(a.owner, a.term, nd, dk, nt)
      /\ ~Missed(a, nd, dk, nt)
  BY DEF LiveKeys
<1>2. a \in Key BY <1>1, KeysAre
<1> QED BY <1>1, <1>2 DEF Key

\* The logs of a group match.
LEMMA GroupMatched ==
    ASSUME NEW nd, NEW dk, NEW nt, Group(nd, dk, nt), LinkInvariant(nd, dk, nt)
    PROVE  \A j, k \in Server : /\ Matched(nd[j].log, nd[k].log)
                                /\ Matched(nd[j].log, dk[k].log)
                                /\ Matched(dk[j].log, nd[k].log)
<1>1. \A j \in Server : /\ LogLinks(nd[j].log) \subseteq Links(nd, dk, nt)
                        /\ LogLinks(dk[j].log) \subseteq Links(nd, dk, nt)
  BY LinksOfLogs
<1>2. \A x, y \in Links(nd, dk, nt) : x.at = y.at /\ x.entry.term = y.entry.term => x = y
  BY DEF LinkInvariant
<1> QED BY <1>1, <1>2 DEF Matched

\* The owner of a link's key is the one that won its term.
LEMMA LinkOwner ==
    ASSUME NEW nd, NEW dk, NEW nt, Group(nd, dk, nt), ClusterInvariant(nd, dk, nt),
           NEW x \in Links(nd, dk, nt), NEW l \in Server, Won(l, x.entry.term, nd, dk, nt),
           NEW k \in Server, Won(k, x.entry.term, nd, dk, nt)
    PROVE  l = k
BY OneWinner DEF Group, ClusterInvariant

\* Two live keys: the later owner's log has the earlier key.
LEMMA LiveKeysAgree ==
    ASSUME NEW nd, NEW dk, NEW nt, Group(nd, dk, nt), CommitInvariant(nd, dk, nt),
           NEW a \in LiveKeys(nd, dk, nt), NEW c \in LiveKeys(nd, dk, nt)
    PROVE  Agree(nd[a.owner].log, nd[c.owner].log, Least(a.at, c.at))
<1>1. LinkInvariant(nd, dk, nt) /\ ElectionInvariant(nd, dk, nt)
  BY DEF CommitInvariant, ClusterInvariant
<1>2. /\ a.at \in Nat \ {0} /\ a.term \in Nat /\ a.owner \in Server
      /\ c.at \in Nat \ {0} /\ c.term \in Nat /\ c.owner \in Server
      /\ Won(a.owner, a.term, nd, dk, nt) /\ Won(c.owner, c.term, nd, dk, nt)
  BY LiveIs
<1>3. Placed(a, nd, dk, nt) /\ Placed(c, nd, dk, nt) BY DEF CommitInvariant, KeyInvariant
<1>4. Has(nd[a.owner].log, a.at, a.term) /\ Has(nd[c.owner].log, c.at, c.term)
  BY <1>3 DEF Placed
<1>5. nd[a.owner].log \in Seq(Entry) /\ nd[c.owner].log \in Seq(Entry) BY <1>2, GroupLogs
<1>6. Matched(nd[a.owner].log, nd[c.owner].log) /\ Matched(nd[c.owner].log, nd[a.owner].log)
  BY <1>1, <1>2, GroupMatched
<1>7. CASE a.term = c.term
  <2>1. a.owner = c.owner BY <1>1, <1>2, <1>7, OneWinner DEF Group
  <2>2. Least(a.at, c.at) <= Len(nd[a.owner].log)
    <3>1. a.at <= Len(nd[a.owner].log) /\ Len(nd[a.owner].log) \in Nat
      BY <1>4, <1>5, LenProperties DEF Has
    <3> QED BY <1>2, <3>1 DEF Least
  <2> QED BY <2>1, <2>2, AgreeSelf
<1>8. CASE a.term < c.term
  <2>1. c.at \in 1..Len(nd[c.owner].log) /\ nd[c.owner].log[c.at].term = c.term BY <1>4 DEF Has
  <2>2. After(nd[c.owner].log[c.at].term, c.at, a) BY <1>2, <1>8, <2>1 DEF After
  <2>3. c.at >= a.at /\ Has(nd[c.owner].log, a.at, a.term)
    BY <1>2, <1>3, <2>1, <2>2 DEF Placed, Complete
  <2>4. Agree(nd[a.owner].log, nd[c.owner].log, a.at) BY <1>4, <1>5, <1>6, <2>3, HasAgree
  <2>5. Least(a.at, c.at) = a.at BY <1>2, <2>3, LeastIs
  <2> QED BY <2>4, <2>5
<1>9. CASE c.term < a.term
  <2>1. a.at \in 1..Len(nd[a.owner].log) /\ nd[a.owner].log[a.at].term = a.term BY <1>4 DEF Has
  <2>2. After(nd[a.owner].log[a.at].term, a.at, c) BY <1>2, <1>9, <2>1 DEF After
  <2>3. a.at >= c.at /\ Has(nd[a.owner].log, c.at, c.term)
    BY <1>2, <1>3, <2>1, <2>2 DEF Placed, Complete
  <2>4. Agree(nd[a.owner].log, nd[c.owner].log, c.at) BY <1>4, <1>5, <1>6, <2>3, HasAgree
  <2>5. Least(a.at, c.at) = c.at BY <1>2, <2>3, LeastIs
  <2> QED BY <2>4, <2>5
<1> QED BY <1>2, <1>7, <1>8, <1>9

\* A key that was chosen is not missed.
LEMMA ChosenIsLive ==
    ASSUME NEW nd, NEW dk, NEW nt, Group(nd, dk, nt), NEW a \in Key, Chosen(a, dk, nt),
           Won(a.owner, a.term, nd, dk, nt)
    PROVE  a \in LiveKeys(nd, dk, nt)
<1>1. a.owner \in Server BY DEF Key
<1>2. Has(dk[a.owner].log, a.at, a.term) BY DEF Chosen
<1>3. PICK x \in LogLinks(dk[a.owner].log) : x.at = a.at /\ x.entry.term = a.term
  BY <1>1, <1>2, GroupLogs, HasLink
<1>4. x \in Links(nd, dk, nt) BY <1>1, LinksOfLogs
<1>5. a \in Keys(Links(nd, dk, nt)) BY <1>3, <1>4, LinkKey
<1>6. ~Missed(a, nd, dk, nt)
  <2> SUFFICES ASSUME Missed(a, nd, dk, nt) PROVE FALSE OBVIOUS
  <2>1. PICK P \in SUBSET Server :
          IsQuorum(P, Server) /\ \A j \in P : ~Holds(j, a, Underway(nd, nt))
    BY DEF Missed
  <2>2. PICK Q \in SUBSET Server : IsQuorum(Q, Server) /\ \A j \in Q : Holds(j, a, nt)
    BY DEF Chosen
  <2>3. PICK j \in Server : j \in P /\ j \in Q BY <2>1, <2>2, QuorumsMeet
  <2>4. nt \subseteq Underway(nd, nt) BY DEF Underway
  <2>5. Holds(j, a, Underway(nd, nt)) BY <2>2, <2>3, <2>4 DEF Holds, Acked
  <2> QED BY <2>1, <2>3, <2>5
<1> QED BY <1>5, <1>6 DEF LiveKeys

----------------------------------------------------------------------------
(* From one state of the group to the next *)

\* What was chosen stays so, and its owner keeps its log up to there.
ChosenStays(nd, dk, nt, nw, dw, nn) ==
    \A a \in LiveKeys(nd, dk, nt) :
        Chosen(a, dk, nt) =>
            /\ a \in LiveKeys(nw, dw, nn) /\ Chosen(a, dw, nn)
            /\ Agree(nd[a.owner].log, nw[a.owner].log, a.at)

LEMMA ReachedOn ==
    ASSUME NEW nd, NEW dk, NEW nt, NEW nw, NEW dw, NEW nn, Group(nd, dk, nt),
           ChosenStays(nd, dk, nt, nw, dw, nn),
           NEW c, NEW t \in Nat, NEW u \in Nat, t <= u, Reached(c, t, nd, dk, nt)
    PROVE  Reached(c, u, nw, dw, nn)
<1>1. CASE c = 0 BY <1>1 DEF Reached
<1>2. CASE c # 0
  <2>1. PICK a \in LiveKeys(nd, dk, nt) : a.at >= c /\ a.term <= t /\ Chosen(a, dk, nt)
    BY <1>2 DEF Reached
  <2>2. a \in LiveKeys(nw, dw, nn) /\ Chosen(a, dw, nn) BY <2>1 DEF ChosenStays
  <2>3. a.term \in Nat BY LiveIs
  <2>4. a.term <= u BY <2>1, <2>3
  <2> QED BY <2>1, <2>2, <2>4 DEF Reached
<1> QED BY <1>1, <1>2

LEMMA SealedOn ==
    ASSUME NEW nd, NEW dk, NEW nt, NEW nw, NEW dw, NEW nn, Group(nd, dk, nt), Group(nw, dw, nn),
           ChosenStays(nd, dk, nt, nw, dw, nn), NEW log \in Seq(Entry), NEW c \in Nat,
           NEW t \in Nat, NEW u \in Nat, t <= u, Sealed(log, c, t, nd, dk, nt)
    PROVE  Sealed(log, c, u, nw, dw, nn)
<1>1. CASE c = 0 BY <1>1 DEF Sealed
<1>2. CASE c # 0
  <2>1. PICK a \in LiveKeys(nd, dk, nt) : /\ a.at >= c /\ a.term <= t /\ Chosen(a, dk, nt)
                                          /\ Agree(log, nd[a.owner].log, c)
    BY <1>2 DEF Sealed
  <2>2. /\ a \in LiveKeys(nw, dw, nn) /\ Chosen(a, dw, nn)
        /\ Agree(nd[a.owner].log, nw[a.owner].log, a.at)
    BY <2>1 DEF ChosenStays
  <2>3. a.term \in Nat /\ a.at \in Nat /\ a.owner \in Server BY LiveIs
  <2>4. a.term <= u BY <2>1, <2>3
  <2>5. nd[a.owner].log \in Seq(Entry) /\ nw[a.owner].log \in Seq(Entry) BY <2>3, GroupLogs
  <2>6. Agree(nd[a.owner].log, nw[a.owner].log, c) BY <2>1, <2>2, <2>3, <2>5, AgreeLess
  <2>7. Agree(log, nw[a.owner].log, c) BY <2>1, <2>6, AgreeTrans
  <2> QED BY <2>1, <2>2, <2>4, <2>7 DEF Sealed
<1> QED BY <1>1, <1>2

LEMMA SealedLess ==
    ASSUME NEW nd, NEW dk, NEW nt, Group(nd, dk, nt), NEW log \in Seq(Entry), NEW c \in Nat,
           NEW t \in Nat, NEW u \in Nat, t <= u, NEW k \in Nat, k <= c,
           Sealed(log, c, t, nd, dk, nt)
    PROVE  Sealed(log, k, u, nd, dk, nt)
<1>1. CASE c = 0 BY <1>1 DEF Sealed
<1>2. CASE c # 0
  <2>1. PICK a \in LiveKeys(nd, dk, nt) : /\ a.at >= c /\ a.term <= t /\ Chosen(a, dk, nt)
                                          /\ Agree(log, nd[a.owner].log, c)
    BY <1>2 DEF Sealed
  <2>2. a.at \in Nat /\ a.term \in Nat /\ a.owner \in Server BY LiveIs
  <2>3. nd[a.owner].log \in Seq(Entry) BY <2>2, GroupLogs
  <2>4. Agree(log, nd[a.owner].log, k) BY <2>1, <2>3, AgreeLess
  <2>5. a.at >= k /\ a.term <= u BY <2>1, <2>2
  <2> QED BY <2>1, <2>4, <2>5 DEF Sealed
<1> QED BY <1>1, <1>2

LEMMA SealedLog ==
    ASSUME NEW nd, NEW dk, NEW nt, NEW log, NEW other, NEW c, NEW t, Agree(log, other, c),
           Sealed(log, c, t, nd, dk, nt)
    PROVE  Sealed(other, c, t, nd, dk, nt)
<1>1. Agree(other, log, c) BY AgreeSym
<1>2. \A b : Agree(log, b, c) => Agree(other, b, c) BY <1>1, AgreeTrans
<1> QED BY <1>2 DEF Sealed

LEMMA SealedLen ==
    ASSUME NEW nd, NEW dk, NEW nt, NEW log \in Seq(Entry), NEW c, NEW t,
           Sealed(log, c, t, nd, dk, nt)
    PROVE  c <= Len(log)
<1>1. Len(log) \in Nat BY LenProperties
<1> QED BY <1>1 DEF Sealed, Agree

LEMMA SealedReached ==
    ASSUME NEW nd, NEW dk, NEW nt, NEW log, NEW c, NEW t, Sealed(log, c, t, nd, dk, nt)
    PROVE  Reached(c, t, nd, dk, nt)
BY DEF Sealed, Reached

\* What one log has committed is in any log that has committed as much.
LEMMA SealedAgree ==
    ASSUME NEW nd, NEW dk, NEW nt, Group(nd, dk, nt), CommitInvariant(nd, dk, nt),
           NEW log \in Seq(Entry), NEW c \in Nat, NEW t, Sealed(log, c, t, nd, dk, nt),
           NEW other \in Seq(Entry), NEW d \in Nat, NEW u, Sealed(other, d, u, nd, dk, nt),
           c <= d
    PROVE  Agree(log, other, c)
<1>1. CASE c = 0 BY <1>1, AgreeNone
<1>2. CASE c # 0
  <2>1. PICK a \in LiveKeys(nd, dk, nt) : a.at >= c /\ Agree(log, nd[a.owner].log, c)
    BY <1>2 DEF Sealed
  <2>2. PICK e \in LiveKeys(nd, dk, nt) : e.at >= d /\ Agree(other, nd[e.owner].log, d)
    BY <1>2 DEF Sealed
  <2>3. a.at \in Nat /\ a.owner \in Server /\ e.at \in Nat /\ e.owner \in Server BY LiveIs
  <2> DEFINE A == nd[a.owner].log
             E == nd[e.owner].log
             n == Least(a.at, e.at)
  <2>4. A \in Seq(Entry) /\ E \in Seq(Entry) BY <2>3, GroupLogs
  <2>5. Agree(A, E, n) BY LiveKeysAgree
  <2>6. n \in Nat /\ c <= n
    <3>1. n \in Nat /\ (n = a.at \/ n = e.at) BY ZenonT(60), <2>3, LeastIs
    <3> HIDE DEF n
    <3> QED BY <2>1, <2>2, <2>3, <3>1
  <2>7. Agree(log, A, c) /\ Agree(other, E, d) BY <2>1, <2>2
  <2> HIDE DEF A, E, n
  <2>8. Agree(A, E, c) BY <2>4, <2>5, <2>6, AgreeLess
  <2>9. Agree(other, E, c) BY <2>4, <2>7, AgreeLess
  <2>10. Agree(log, E, c) BY <2>7, <2>8, AgreeTrans
  <2>11. Agree(E, other, c) BY <2>9, AgreeSym
  <2> QED BY <2>10, <2>11, AgreeTrans
<1> QED BY <1>1, <1>2

LEMMA SealedDown ==
    ASSUME NEW nd, NEW dk, NEW nt, Group(nd, dk, nt), CommitInvariant(nd, dk, nt),
           NEW log \in Seq(Entry), NEW c \in Nat, NEW t, Sealed(log, c, t, nd, dk, nt),
           NEW other \in Seq(Entry), NEW d \in Nat, NEW u, Sealed(other, d, u, nd, dk, nt),
           c <= d
    PROVE  Sealed(other, c, t, nd, dk, nt)
BY SealedAgree, SealedLog

LEMMA RespectsOn ==
    ASSUME NEW m \in Message, NEW a \in Key, NEW b \in Seq(Entry), NEW w \in Seq(Entry),
           Respects(m, a, b), Agree(b, w, a.at)
    PROVE  Respects(m, a, w)
<1>1. a.at \in Nat /\ m.index \in Nat /\ Len(m.entries) \in Nat BY LenProperties DEF Key, Message
<1>2. \A k \in Nat : k <= a.at => TermAt(b, k) = TermAt(w, k) BY <1>1, AgreeTermAt
<1>3. \A k \in 1..Len(m.entries) : m.index + k \in Nat BY <1>1
<1> QED BY <1>1, <1>2, <1>3 DEF Respects

LEMMA CopiesOn ==
    ASSUME NEW log, NEW n \in Nat, NEW a \in Key, NEW b \in Seq(Entry), NEW w \in Seq(Entry),
           Copies(log, n, a, b), Agree(b, w, a.at)
    PROVE  Copies(log, n, a, w)
<1>1. a.at \in Nat BY DEF Key
<1>2. Least(n, a.at) \in Nat /\ Least(n, a.at) <= a.at BY <1>1, LeastIs
<1>3. Agree(b, w, Least(n, a.at)) BY <1>1, <1>2, AgreeLess
<1> QED BY <1>3, AgreeTrans DEF Copies

\* A key once missed stays missed: terms grow, and no server acknowledges a key
\* of a term that it has left.
LEMMA MissedOn ==
    ASSUME NEW nd, NEW dk, NEW nt, NEW nw, NEW dw, NEW nn, Group(nd, dk, nt), Group(nw, dw, nn),
           NEW a \in Key, Missed(a, nd, dk, nt),
           \A j \in Server : dw[j].hs.Term >= dk[j].hs.Term,
           \A j \in Server : dk[j].hs.Term > a.term /\ Acked(Underway(nw, nn), j, a)
                             => Acked(Underway(nd, nt), j, a)
    PROVE  Missed(a, nw, dw, nn)
<1>1. PICK Q \in SUBSET Server :
        /\ IsQuorum(Q, Server)
        /\ \A j \in Q : dk[j].hs.Term > a.term /\ ~Holds(j, a, Underway(nd, nt))
  BY DEF Missed
<1>2. a.term \in Nat BY DEF Key
<1>3. \A j \in Q : dk[j].hs.Term \in Nat /\ dw[j].hs.Term \in Nat BY GroupLogs
<1>4. \A j \in Q : dw[j].hs.Term > a.term BY <1>1, <1>2, <1>3
<1>5. \A j \in Q : ~Holds(j, a, Underway(nw, nn)) BY <1>1 DEF Holds
<1> QED BY <1>1, <1>4, <1>5 DEF Missed

----------------------------------------------------------------------------
(* A server writes, takes its Ready, or restarts *)

\* What Advance and the network have.
Handed(nd, nt) == nt \cup UNION {Range(nd[j].steps) : j \in Server}

\* Server i says nothing new, and keeps what it has in memory or on disk.
Settles(nd, dk, nt, nw, dw, nn, i) ==
    /\ \A k \in Server \ {i} : nw[k] = nd[k] /\ dw[k] = dk[k]
    /\ nt \subseteq nn /\ Underway(nw, nn) \subseteq Underway(nd, nt)
    /\ Links(nw, dw, nn) \subseteq Links(nd, dk, nt)
    /\ \A l \in Server : \A t \in Nat : Won(l, t, nd, dk, nt) => Won(l, t, nw, dw, nn)
    /\ dw[i].hs.Term >= dk[i].hs.Term
    /\ nw[i].state \in {"StateCandidate", "StateLeader"} =>
         /\ nd[i].state = nw[i].state /\ nd[i].Term = nw[i].Term
         /\ nd[i].log = nw[i].log /\ nd[i].prs = nw[i].prs
    /\ dw[i].log \in {nd[i].log, dk[i].log}
    /\ \/ nw[i].log = nd[i].log /\ nw[i].Term = nd[i].Term
       \/ nw[i].log = dw[i].log /\ nw[i].Term = dw[i].hs.Term /\ Boxes(nw[i]) = {}
    /\ nw[i].log = nd[i].log \/ Links(nw, dw, nn) \subseteq Elsewhere(i, nd, dk, nt)
    /\ \A l \in Server : l # i \/ dw[i].log # nd[i].log =>
         Elsewhere(l, nw, dw, nn) \subseteq Elsewhere(l, nd, dk, nt)
    /\ \A m \in Handed(nw, nn) :
         \/ m \in Handed(nd, nt)
         \/ m \in Boxes(nd[i]) /\ dw[i].log = nd[i].log /\ dw[i].hs.Term = nd[i].Term
    /\ Queued(nw[i])
    /\ Sealed(nw[i].log, nw[i].committed, nw[i].Term, nd, dk, nt)
    /\ Sealed(dw[i].log, dw[i].hs.Commit, dw[i].hs.Term, nd, dk, nt)
    /\ dw[i].synced <= dw[i].hs.Commit /\ dw[i].hs.Commit <= nw[i].committed

LEMMA KeysWithin == ASSUME NEW S, NEW T, S \subseteq T PROVE Keys(S) \subseteq Keys(T)
BY DEF Keys

\* No key comes to life.
LEMMA SettleLive ==
    ASSUME NEW nd, NEW dk, NEW nt, NEW nw, NEW dw, NEW nn, NEW i \in Server,
           Group(nd, dk, nt), Group(nw, dw, nn), CommitInvariant(nd, dk, nt),
           ClusterInvariant(nw, dw, nn), Settles(nd, dk, nt, nw, dw, nn, i)
    PROVE  LiveKeys(nw, dw, nn) \subseteq LiveKeys(nd, dk, nt)
<1> SUFFICES ASSUME NEW a \in LiveKeys(nw, dw, nn) PROVE a \in LiveKeys(nd, dk, nt)
  OBVIOUS
<1>1. /\ a \in Key /\ a.at \in Nat \ {0} /\ a.term \in Nat /\ a.owner \in Server
      /\ a \in Keys(Links(nw, dw, nn)) /\ Won(a.owner, a.term, nw, dw, nn)
      /\ ~Missed(a, nw, dw, nn)
  BY LiveIs
<1>2. Links(nw, dw, nn) \subseteq Links(nd, dk, nt) BY DEF Settles
<1>3. PICK x \in Links(nw, dw, nn) : x.at = a.at /\ x.entry.term = a.term BY <1>1, KeyLink
<1>4. x \in Links(nd, dk, nt) BY <1>2
<1>5. PICK l \in Server : Won(l, a.term, nd, dk, nt)
  BY <1>3, <1>4 DEF CommitInvariant, ClusterInvariant, LinkInvariant
<1>6. Won(l, a.term, nw, dw, nn) BY <1>1, <1>5 DEF Settles
<1>7. l = a.owner BY <1>1, <1>6, OneWinner DEF Group, ClusterInvariant
<1>8. ~Missed(a, nd, dk, nt)
  <2>1. \A j \in Server : dw[j].hs.Term >= dk[j].hs.Term
    <3>1. \A j \in Server : dk[j].hs.Term \in Nat BY GroupLogs
    <3> QED BY <3>1 DEF Settles
  <2>2. \A j \in Server : Acked(Underway(nw, nn), j, a) => Acked(Underway(nd, nt), j, a)
    BY DEF Settles, Acked
  <2> QED BY <1>1, <2>1, <2>2, MissedOn
<1> QED BY <1>1, <1>2, <1>5, <1>7, <1>8, KeysWithin DEF LiveKeys

\* The owner keeps the key, also over a crash: it was written, or it is gone.
LEMMA SettleOwner ==
    ASSUME NEW nd, NEW dk, NEW nt, NEW nw, NEW dw, NEW nn, NEW i \in Server,
           Group(nd, dk, nt), Group(nw, dw, nn), CommitInvariant(nd, dk, nt),
           ClusterInvariant(nw, dw, nn), Settles(nd, dk, nt, nw, dw, nn, i),
           NEW a \in LiveKeys(nd, dk, nt), a \in LiveKeys(nw, dw, nn) \/ Chosen(a, dk, nt)
    PROVE  /\ Agree(nd[a.owner].log, nw[a.owner].log, a.at)
           /\ Has(nw[a.owner].log, a.at, a.term)
           /\ Has(dk[a.owner].log, a.at, a.term) => Has(dw[a.owner].log, a.at, a.term)
<1> DEFINE l == a.owner
<1>1. a \in Key /\ a.at \in Nat \ {0} /\ a.term \in Nat /\ l \in Server BY LiveIs
<1>2. /\ Has(nd[l].log, a.at, a.term)
      /\ a \in Keys(Elsewhere(l, nd, dk, nt)) => Has(dk[l].log, a.at, a.term)
  BY DEF CommitInvariant, KeyInvariant, Placed
<1>3. /\ nd[l].log \in Seq(Entry) /\ dk[l].log \in Seq(Entry)
      /\ Matched(nd[l].log, dk[l].log)
  BY <1>1, GroupLogs, GroupMatched DEF CommitInvariant, ClusterInvariant
<1>4. Has(dk[l].log, a.at, a.term) => Agree(nd[l].log, dk[l].log, a.at)
  BY <1>2, <1>3, HasAgree
<1>5. Agree(nd[l].log, nd[l].log, a.at)
  BY <1>2, <1>3, LenProperties, AgreeSelf DEF Has
<1>6. /\ nw[l].log = nd[l].log \/ (nw[l].log = dk[l].log /\ Has(dk[l].log, a.at, a.term))
      /\ dw[l].log \in {nd[l].log, dk[l].log}
  <2>1. CASE l # i BY <1>1, <2>1 DEF Settles
  <2>2. CASE l = i
    <3>1. nw[i].log = nd[i].log \/ nw[i].log = dk[i].log BY DEF Settles
    <3>2. ASSUME nw[i].log # nd[i].log PROVE Has(dk[l].log, a.at, a.term)
      <4>1. CASE Chosen(a, dk, nt) BY <4>1 DEF Chosen
      <4>2. CASE a \in LiveKeys(nw, dw, nn)
        <5>1. a \in Keys(Links(nw, dw, nn)) BY <4>2 DEF LiveKeys
        <5>2. Links(nw, dw, nn) \subseteq Elsewhere(i, nd, dk, nt) BY <3>2 DEF Settles
        <5> QED BY <1>2, <2>2, <5>1, <5>2, KeysWithin
      <4> QED BY <4>1, <4>2
    <3> QED BY <2>2, <3>1, <3>2 DEF Settles
  <2> QED BY <2>1, <2>2
<1> QED BY <1>2, <1>4, <1>5, <1>6

LEMMA SettleChosen ==
    ASSUME NEW nd, NEW dk, NEW nt, NEW nw, NEW dw, NEW nn, NEW i \in Server,
           Group(nd, dk, nt), Group(nw, dw, nn), CommitInvariant(nd, dk, nt),
           ClusterInvariant(nw, dw, nn), Settles(nd, dk, nt, nw, dw, nn, i)
    PROVE  ChosenStays(nd, dk, nt, nw, dw, nn)
<1> SUFFICES ASSUME NEW a \in LiveKeys(nd, dk, nt), Chosen(a, dk, nt)
             PROVE  /\ a \in LiveKeys(nw, dw, nn) /\ Chosen(a, dw, nn)
                    /\ Agree(nd[a.owner].log, nw[a.owner].log, a.at)
  BY DEF ChosenStays
<1>1. /\ a \in Key /\ a.term \in Nat /\ a.owner \in Server /\ Won(a.owner, a.term, nd, dk, nt)
  BY LiveIs
<1>2. /\ Agree(nd[a.owner].log, nw[a.owner].log, a.at)
      /\ Has(dk[a.owner].log, a.at, a.term) => Has(dw[a.owner].log, a.at, a.term)
  BY SettleOwner
<1>3. Chosen(a, dw, nn)
  <2>1. nt \subseteq nn BY DEF Settles
  <2>2. \A j : Holds(j, a, nt) => Holds(j, a, nn) BY <2>1 DEF Holds, Acked
  <2> QED BY <1>2, <2>2 DEF Chosen
<1>4. Won(a.owner, a.term, nw, dw, nn) BY <1>1 DEF Settles
<1>5. a \in LiveKeys(nw, dw, nn) BY <1>1, <1>3, <1>4, ChosenIsLive
<1> QED BY <1>2, <1>3, <1>5

LEMMA SettleOrder ==
    ASSUME NEW nd, NEW dk, NEW nt, NEW nw, NEW dw, NEW nn, NEW i \in Server,
           Group(nd, dk, nt), Group(nw, dw, nn), CommitInvariant(nd, dk, nt),
           Settles(nd, dk, nt, nw, dw, nn, i)
    PROVE  OrderInvariant(nw, dw, nn)
<1>0. /\ \A k \in Server \ {i} : nw[k] = nd[k] /\ dw[k] = dk[k]
      /\ Underway(nw, nn) \subseteq Underway(nd, nt)
      /\ Links(nw, dw, nn) \subseteq Links(nd, dk, nt)
      /\ nw[i].state \in {"StateCandidate", "StateLeader"} =>
           /\ nd[i].state = nw[i].state /\ nd[i].Term = nw[i].Term
           /\ nd[i].log = nw[i].log /\ nd[i].prs = nw[i].prs
  BY DEF Settles
<1>1. LinksRise(nw, dw, nn) BY <1>0 DEF CommitInvariant, OrderInvariant, LinksRise
<1>2. ASSUME NEW k \in Server PROVE LeaderKnows(nw[k], Underway(nw, nn))
  <2>1. nw[k].state = "StateLeader" =>
          /\ nd[k].state = nw[k].state /\ nd[k].Term = nw[k].Term
          /\ nd[k].log = nw[k].log /\ nd[k].prs = nw[k].prs
    BY <1>0
  <2>2. LeaderKnows(nd[k], Underway(nd, nt)) BY DEF CommitInvariant, OrderInvariant
  <2> QED BY <1>0, <2>1, <2>2 DEF LeaderKnows
<1>3. ASSUME NEW k \in Server, nw[k].state = "StateCandidate", lastTerm(nw[k].log) > nw[k].Term
      PROVE  Beaten(k, nw[k].Term, nw, dw, nn)
  <2>1. nd[k].state = nw[k].state /\ nd[k].Term = nw[k].Term /\ nd[k].log = nw[k].log
    BY <1>0, <1>3
  <2>2. Beaten(k, nd[k].Term, nd, dk, nt) BY <1>3, <2>1 DEF CommitInvariant, OrderInvariant
  <2>3. PICK Q \in SUBSET Server :
          /\ IsQuorum(Q, Server)
          /\ \A j \in Q : dk[j].hs.Term > nd[k].Term /\ ~Backed(Underway(nd, nt), j, k, nd[k].Term)
    BY <2>2 DEF Beaten
  <2>4. ASSUME NEW j \in Q
        PROVE  dw[j].hs.Term > nw[k].Term /\ ~Backed(Underway(nw, nn), j, k, nw[k].Term)
    <3>1. j \in Server /\ dk[j].hs.Term > nd[k].Term BY <2>3
    <3>2. dk[j].hs.Term \in Nat /\ dw[j].hs.Term \in Nat /\ nd[k].Term \in Nat
      BY <3>1, GroupLogs
    <3>3. dw[j].hs.Term >= dk[j].hs.Term
      <4>1. j # i => dw[j] = dk[j] BY <1>0, <3>1
      <4>2. dw[i].hs.Term >= dk[i].hs.Term BY DEF Settles
      <4> QED BY <3>2, <4>1, <4>2
    <3>4. ~Backed(Underway(nw, nn), j, k, nd[k].Term) BY <1>0, <2>3 DEF Backed
    <3> QED BY <2>1, <3>1, <3>2, <3>3, <3>4
  <2> QED BY <2>3, <2>4 DEF Beaten
<1>4. ASSUME NEW m \in Underway(nw, nn) PROVE OfTerm(m, nw, dw, nn)
  <2>1. m \in Message /\ OfTerm(m, nd, dk, nt)
    BY <1>0, UnderwayType DEF CommitInvariant, OrderInvariant
  <2>2. m.term \in Nat BY <2>1 DEF Message
  <2>3. \A l \in Server : Won(l, m.term, nd, dk, nt) => Won(l, m.term, nw, dw, nn)
    BY <2>2 DEF Settles
  <2> QED BY <2>1, <2>3 DEF OfTerm
<1>5. \A k \in Server : Queued(nw[k])
  BY <1>0 DEF CommitInvariant, OrderInvariant, Settles
<1> QED BY <1>1, <1>2, <1>3, <1>4, <1>5 DEF OrderInvariant

LEMMA SettleAcks ==
    ASSUME NEW nd, NEW dk, NEW nt, NEW nw, NEW dw, NEW nn, NEW i \in Server,
           Group(nd, dk, nt), Group(nw, dw, nn), CommitInvariant(nd, dk, nt),
           ClusterInvariant(nw, dw, nn), Settles(nd, dk, nt, nw, dw, nn, i)
    PROVE  AckInvariant(nw, dw, nn)
<1>0. /\ \A k \in Server \ {i} : nw[k] = nd[k] /\ dw[k] = dk[k]
      /\ Underway(nw, nn) \subseteq Underway(nd, nt)
      /\ LiveKeys(nw, dw, nn) \subseteq LiveKeys(nd, dk, nt)
  BY SettleLive DEF Settles
<1>1. \A j \in Server : /\ \A m \in Boxes(nw[j]) \cup Range(nw[j].steps) :
                             Acknowledges(m) => m.from = j
                        /\ nw[j].id = j
  <2>1. \A j \in Server : nw[j].id = j BY DEF ClusterInvariant, ElectionInvariant
  <2>2. \A j \in Server : Queued(nw[j])
    BY <1>0 DEF CommitInvariant, OrderInvariant, Settles
  <2> QED BY <2>1, <2>2 DEF Queued
<1>2. \A m \in Boxes(nd[i]) : Acknowledges(m) => m.from = i
  <2>1. nd[i].id = i BY DEF CommitInvariant, ClusterInvariant, ElectionInvariant
  <2>2. Queued(nd[i]) BY DEF CommitInvariant, OrderInvariant
  <2> QED BY <2>1, <2>2 DEF Queued
\* What is said of a log stays true of it: the owners keep theirs.
<1>3. ASSUME NEW m \in Underway(nd, nt), NEW log, NEW t, NEW u \in Nat, t \in Nat, t <= u,
             Backs(m, log, t, nd, dk, nt)
      PROVE  Backs(m, log, u, nw, dw, nn)
  <2>1. m \in Message /\ m.term \in Nat /\ m.index \in Nat BY <1>3, UnderwayType DEF Message
  <2> SUFFICES ASSUME Acknowledges(m)
               PROVE  /\ m.term <= u
                      /\ \A a \in LiveKeys(nw, dw, nn) :
                           a.term <= m.term => Copies(log, m.index, a, nw[a.owner].log)
    BY DEF Backs
  <2>2. m.term <= u BY <1>3, <2>1 DEF Backs
  <2>3. ASSUME NEW a \in LiveKeys(nw, dw, nn), a.term <= m.term
        PROVE  Copies(log, m.index, a, nw[a.owner].log)
    <3>1. a \in LiveKeys(nd, dk, nt) BY <1>0
    <3>2. Copies(log, m.index, a, nd[a.owner].log) BY <1>3, <2>3, <3>1 DEF Backs
    <3>3. a \in Key /\ a.owner \in Server BY <3>1, LiveIs
    <3>4. nd[a.owner].log \in Seq(Entry) /\ nw[a.owner].log \in Seq(Entry) BY <3>3, GroupLogs
    <3>5. Agree(nd[a.owner].log, nw[a.owner].log, a.at) BY <2>3, <3>1, SettleOwner
    <3> QED BY <2>1, <3>2, <3>3, <3>4, <3>5, CopiesOn
  <2> QED BY <2>2, <2>3
<1>4. /\ \A m \in Underway(nd, nt) : Backs(m, nd[m.from].log, nd[m.from].Term, nd, dk, nt)
      /\ \A m \in Handed(nd, nt) : Backs(m, dk[m.from].log, dk[m.from].hs.Term, nd, dk, nt)
  BY DEF CommitInvariant, AckInvariant, Handed
<1>5. ASSUME NEW m, Acknowledges(m) => Backs(m, nw[m.from].log, nw[m.from].Term, nw, dw, nn)
      PROVE  Backs(m, nw[m.from].log, nw[m.from].Term, nw, dw, nn)
  BY <1>5 DEF Backs
<1>6. ASSUME NEW m \in Handed(nw, nn), Acknowledges(m)
      PROVE  Backs(m, dw[m.from].log, dw[m.from].hs.Term, nw, dw, nn)
  <2>1. m \in Underway(nw, nn) BY <1>6 DEF Handed, Underway
  <2>2. m \in Underway(nd, nt) /\ m.from \in Server
    BY <1>0, <2>1, UnderwayType DEF Message
  <2>3. /\ nd[m.from].Term \in Nat /\ dk[m.from].hs.Term \in Nat /\ dw[m.from].hs.Term \in Nat
    BY <2>2, GroupLogs
  <2>4. CASE m \in Handed(nd, nt)
    <3>1. Backs(m, dk[m.from].log, dk[m.from].hs.Term, nd, dk, nt) BY <1>4, <2>4
    <3>2. CASE m.from # i
      <4>1. dw[m.from] = dk[m.from] BY <1>0, <2>2, <3>2
      <4>2. dk[m.from].hs.Term <= dk[m.from].hs.Term BY <2>3
      <4> QED BY <1>3, <2>2, <2>3, <3>1, <4>1, <4>2
    <3>3. CASE m.from = i
      <4>1. dk[i].hs.Term <= dw[i].hs.Term BY <2>3, <3>3 DEF Settles
      <4>2. dw[i].log = nd[i].log \/ dw[i].log = dk[i].log BY DEF Settles
      <4>3. Backs(m, nd[i].log, nd[i].Term, nd, dk, nt) BY <1>4, <2>2, <3>3
      <4>4. Backs(m, nd[i].log, dk[i].hs.Term, nd, dk, nt) BY <3>1, <3>3, <4>3 DEF Backs
      <4>5. Backs(m, dw[i].log, dk[i].hs.Term, nd, dk, nt) BY <3>1, <3>3, <4>2, <4>4
      <4> QED BY <1>3, <2>2, <2>3, <3>3, <4>1, <4>5
    <3> QED BY <3>2, <3>3
  <2>5. CASE m \notin Handed(nd, nt)
    <3>1. m \in Boxes(nd[i]) /\ dw[i].log = nd[i].log /\ dw[i].hs.Term = nd[i].Term
      BY <1>6, <2>5 DEF Settles
    <3>2. m.from = i BY <1>2, <1>6, <3>1
    <3>3. Backs(m, dw[i].log, dw[i].hs.Term, nd, dk, nt) BY <1>4, <2>2, <3>1, <3>2
    <3>4. dw[i].hs.Term <= dw[i].hs.Term BY <2>3, <3>2
    <3> QED BY <1>3, <2>2, <2>3, <3>2, <3>3, <3>4
  <2> QED BY <2>4, <2>5
<1>7. ASSUME NEW m \in Underway(nw, nn), Acknowledges(m)
      PROVE  Backs(m, nw[m.from].log, nw[m.from].Term, nw, dw, nn)
  <2>2. m \in Underway(nd, nt) /\ m.from \in Server
    BY <1>0, <1>7, UnderwayType DEF Message
  <2>3. nd[m.from].Term \in Nat /\ nw[m.from].Term \in Nat BY <2>2, GroupLogs
  <2>4. CASE nw[m.from].log = nd[m.from].log /\ nw[m.from].Term = nd[m.from].Term
    <3>1. Backs(m, nd[m.from].log, nd[m.from].Term, nd, dk, nt) BY <1>4, <2>2
    <3>2. nd[m.from].Term <= nd[m.from].Term BY <2>3
    <3> QED BY <1>3, <2>2, <2>3, <2>4, <3>1, <3>2
  <2>5. CASE ~(nw[m.from].log = nd[m.from].log /\ nw[m.from].Term = nd[m.from].Term)
    <3>1. m.from = i BY <1>0, <2>2, <2>5
    <3>2. nw[i].log = dw[i].log /\ nw[i].Term = dw[i].hs.Term /\ Boxes(nw[i]) = {}
      BY <2>5, <3>1 DEF Settles
    <3>3. m \in Handed(nw, nn)
      <4>1. m \in nn \/ \E j \in Server : m \in Boxes(nw[j]) \cup Range(nw[j].steps)
        BY <1>7 DEF Underway
      <4>2. \A j \in Server : m \notin Boxes(nw[j]) BY <1>1, <1>7, <3>1, <3>2
      <4> QED BY <4>1, <4>2 DEF Handed
    <3>4. Backs(m, dw[i].log, dw[i].hs.Term, nw, dw, nn) BY <1>6, <1>7, <3>1, <3>3
    <3> QED BY <3>1, <3>2, <3>4
  <2> QED BY <2>4, <2>5
<1>8. /\ \A m \in Underway(nw, nn) : Backs(m, nw[m.from].log, nw[m.from].Term, nw, dw, nn)
      /\ \A m \in Handed(nw, nn) : Backs(m, dw[m.from].log, dw[m.from].hs.Term, nw, dw, nn)
  BY <1>6, <1>7 DEF Backs
<1> QED BY <1>8 DEF AckInvariant, Handed

LEMMA SettleKeys ==
    ASSUME NEW nd, NEW dk, NEW nt, NEW nw, NEW dw, NEW nn, NEW i \in Server,
           Group(nd, dk, nt), Group(nw, dw, nn), CommitInvariant(nd, dk, nt),
           ClusterInvariant(nw, dw, nn), Settles(nd, dk, nt, nw, dw, nn, i)
    PROVE  KeyInvariant(nw, dw, nn)
<1>0. /\ \A k \in Server \ {i} : nw[k] = nd[k] /\ dw[k] = dk[k]
      /\ Underway(nw, nn) \subseteq Underway(nd, nt)
      /\ LiveKeys(nw, dw, nn) \subseteq LiveKeys(nd, dk, nt)
      /\ \A k \in Server : nw[k].state \in {"StateCandidate", "StateLeader"} =>
           nd[k].state = nw[k].state /\ nd[k].Term = nw[k].Term /\ nd[k].log = nw[k].log
      /\ dw[i].log = nd[i].log \/ dw[i].log = dk[i].log
      /\ nw[i].log = nd[i].log \/ nw[i].log = dw[i].log
  BY SettleLive DEF Settles
<1>1. ASSUME NEW a \in LiveKeys(nw, dw, nn) PROVE Placed(a, nw, dw, nn)
  <2>1. a \in LiveKeys(nd, dk, nt) BY <1>0
  <2>2. a \in Key /\ a.at \in Nat \ {0} /\ a.term \in Nat /\ a.owner \in Server BY <2>1, LiveIs
  <2>3. Placed(a, nd, dk, nt) BY <2>1 DEF CommitInvariant, KeyInvariant
  <2>4. /\ Agree(nd[a.owner].log, nw[a.owner].log, a.at)
        /\ Has(nw[a.owner].log, a.at, a.term)
        /\ Has(dk[a.owner].log, a.at, a.term) => Has(dw[a.owner].log, a.at, a.term)
    BY <1>1, <2>1, SettleOwner
  <2>5. ASSUME NEW k \in Server PROVE Complete(nw[k].log, a) /\ Complete(dw[k].log, a)
    <3>1. Complete(nd[k].log, a) /\ Complete(dk[k].log, a) BY <2>3 DEF Placed
    <3>2. k # i => nw[k].log = nd[k].log /\ dw[k].log = dk[k].log BY <1>0
    <3> QED BY <1>0, <3>1, <3>2
  <2>6. ASSUME a \in Keys(Elsewhere(a.owner, nw, dw, nn)) PROVE Has(dw[a.owner].log, a.at, a.term)
    <3>1. CASE a.owner # i \/ dw[i].log # nd[i].log
      <4>1. Elsewhere(a.owner, nw, dw, nn) \subseteq Elsewhere(a.owner, nd, dk, nt)
        BY <2>2, <3>1 DEF Settles
      <4>2. Has(dk[a.owner].log, a.at, a.term) BY <2>3, <2>6, <4>1, KeysWithin DEF Placed
      <4> QED BY <2>4, <4>2
    <3>2. CASE a.owner = i /\ dw[i].log = nd[i].log
      <4>1. Has(nd[i].log, a.at, a.term) BY <2>3, <3>2 DEF Placed
      <4> QED BY <3>2, <4>1
    <3> QED BY <3>1, <3>2
  <2>7. ASSUME NEW k \in Server, nw[k].state = "StateLeader", a.term <= nw[k].Term
        PROVE  Has(nw[k].log, a.at, a.term)
    <3>1. nd[k].state = "StateLeader" /\ nd[k].Term = nw[k].Term /\ nd[k].log = nw[k].log
      BY <1>0, <2>7
    <3>2. Has(nd[k].log, a.at, a.term) BY <2>3, <2>7, <3>1 DEF Placed
    <3> QED BY <3>1, <3>2
  <2>8. ASSUME NEW m \in Underway(nw, nn), m.type = "MsgApp", a.term <= m.term
        PROVE  Respects(m, a, nw[a.owner].log)
    <3>1. m \in Underway(nd, nt) /\ m \in Message BY <1>0, UnderwayType
    <3>2. Respects(m, a, nd[a.owner].log) BY <2>3, <2>8, <3>1 DEF Placed
    <3>3. nd[a.owner].log \in Seq(Entry) /\ nw[a.owner].log \in Seq(Entry) BY <2>2, GroupLogs
    <3> QED BY <2>2, <2>4, <3>1, <3>2, <3>3, RespectsOn
  <2>9. ASSUME NEW g \in Underway(nw, nn), Granted(g), g.from # g.to, a.term < g.term,
               nw[g.to].state = "StateCandidate", nw[g.to].Term = g.term,
               Holds(g.from, a, Underway(nw, nn))
        PROVE  After(lastTerm(nw[g.to].log), Len(nw[g.to].log), a)
    <3>1. g \in Underway(nd, nt) /\ g.to \in Server BY <1>0, UnderwayType DEF Message
    <3>2. nd[g.to].state = "StateCandidate" /\ nd[g.to].Term = g.term /\ nd[g.to].log = nw[g.to].log
      BY <1>0, <2>9, <3>1
    <3>3. Holds(g.from, a, Underway(nd, nt)) BY <1>0, <2>9 DEF Holds, Acked
    <3>4. After(lastTerm(nd[g.to].log), Len(nd[g.to].log), a)
      BY <2>3, <2>9, <3>1, <3>2, <3>3 DEF Placed
    <3> QED BY <3>2, <3>4
  <2> QED BY <2>4, <2>5, <2>6, <2>7, <2>8, <2>9 DEF Placed
<1>2. ASSUME NEW m \in Underway(nw, nn), m.type = "MsgVote",
             nw[m.from].state = "StateCandidate", nw[m.from].Term = m.term
      PROVE  m.index = Len(nw[m.from].log) /\ m.logTerm = lastTerm(nw[m.from].log)
  <2>1. m \in Underway(nd, nt) /\ m.from \in Server BY <1>0, UnderwayType DEF Message
  <2>2. /\ nd[m.from].state = "StateCandidate" /\ nd[m.from].Term = m.term
        /\ nd[m.from].log = nw[m.from].log
    BY <1>0, <1>2, <2>1
  <2>3. m.index = Len(nd[m.from].log) /\ m.logTerm = lastTerm(nd[m.from].log)
    BY <1>2, <2>1, <2>2 DEF CommitInvariant, KeyInvariant
  <2> QED BY <2>2, <2>3
<1> QED BY <1>1, <1>2 DEF KeyInvariant

LEMMA SettleSeals ==
    ASSUME NEW nd, NEW dk, NEW nt, NEW nw, NEW dw, NEW nn, NEW i \in Server,
           Group(nd, dk, nt), Group(nw, dw, nn), CommitInvariant(nd, dk, nt),
           ClusterInvariant(nw, dw, nn), Settles(nd, dk, nt, nw, dw, nn, i)
    PROVE  SealInvariant(nw, dw, nn)
<1>0. /\ \A k \in Server \ {i} : nw[k] = nd[k] /\ dw[k] = dk[k]
      /\ nt \subseteq nn
      /\ Underway(nw, nn) \subseteq Underway(nd, nt)
      /\ LiveKeys(nw, dw, nn) \subseteq LiveKeys(nd, dk, nt)
      /\ nw[i].state = "StateLeader" =>
           nd[i].state = nw[i].state /\ nd[i].Term = nw[i].Term /\ nd[i].prs = nw[i].prs
  BY SettleLive DEF Settles
<1>1. ChosenStays(nd, dk, nt, nw, dw, nn) BY SettleChosen
<1>2. ASSUME NEW log \in Seq(Entry), NEW c \in Nat, NEW t \in Nat, Sealed(log, c, t, nd, dk, nt)
      PROVE  Sealed(log, c, t, nw, dw, nn)
  <2>1. t <= t OBVIOUS
  <2> QED BY <1>1, <1>2, <2>1, SealedOn
<1>3. \A j \in Server :
        /\ Sealed(nd[j].log, nd[j].committed, nd[j].Term, nd, dk, nt)
        /\ Sealed(dk[j].log, dk[j].hs.Commit, dk[j].hs.Term, nd, dk, nt)
        /\ dk[j].synced <= dk[j].hs.Commit /\ dk[j].hs.Commit <= nd[j].committed
        /\ Counted(j, nd, dk, nt)
  BY DEF CommitInvariant, SealInvariant
<1>4. ASSUME NEW k \in Server
      PROVE  /\ Sealed(nw[k].log, nw[k].committed, nw[k].Term, nw, dw, nn)
             /\ Sealed(dw[k].log, dw[k].hs.Commit, dw[k].hs.Term, nw, dw, nn)
             /\ dw[k].synced <= dw[k].hs.Commit /\ dw[k].hs.Commit <= nw[k].committed
  <2>1. /\ nw[k].log \in Seq(Entry) /\ nw[k].committed \in Nat /\ nw[k].Term \in Nat
        /\ dw[k].log \in Seq(Entry) /\ dw[k].hs.Commit \in Nat /\ dw[k].hs.Term \in Nat
    BY GroupLogs
  <2>2. /\ Sealed(nw[k].log, nw[k].committed, nw[k].Term, nd, dk, nt)
        /\ Sealed(dw[k].log, dw[k].hs.Commit, dw[k].hs.Term, nd, dk, nt)
        /\ dw[k].synced <= dw[k].hs.Commit /\ dw[k].hs.Commit <= nw[k].committed
    <3>1. CASE k = i BY <3>1 DEF Settles
    <3>2. CASE k # i
      <4>1. nw[k] = nd[k] /\ dw[k] = dk[k] BY <1>0, <3>2
      <4> QED BY <1>3, <4>1
    <3> QED BY <3>1, <3>2
  <2> QED BY <1>2, <2>1, <2>2
<1>5. ASSUME NEW k \in Server, nw[k].state = "StateLeader"
      PROVE  /\ \A j \in Server \ {k} : nw[k].prs[j].Match > 0 =>
                  Acked(nn, j, [at |-> nw[k].prs[j].Match, term |-> nw[k].Term, owner |-> k])
             /\ \A a \in LiveKeys(nw, dw, nn) :
                  a.term = nw[k].Term /\ a.at <= nw[k].prs[k].Match =>
                    Has(dw[k].log, a.at, a.term)
  <2>1. nd[k].state = "StateLeader" /\ nd[k].Term = nw[k].Term /\ nd[k].prs = nw[k].prs
    BY <1>0, <1>5
  <2>2. /\ \A j \in Server \ {k} : nd[k].prs[j].Match > 0 =>
             Acked(nt, j, [at |-> nd[k].prs[j].Match, term |-> nd[k].Term, owner |-> k])
        /\ \A a \in LiveKeys(nd, dk, nt) :
             a.term = nd[k].Term /\ a.at <= nd[k].prs[k].Match => Has(dk[k].log, a.at, a.term)
    BY <1>3, <2>1 DEF Counted
  <2>3. \A j, a : Acked(nt, j, a) => Acked(nn, j, a) BY <1>0 DEF Acked
  <2>4. ASSUME NEW a \in LiveKeys(nw, dw, nn), a.term = nw[k].Term, a.at <= nw[k].prs[k].Match
        PROVE  Has(dw[k].log, a.at, a.term)
    <3>1. a \in LiveKeys(nd, dk, nt) BY <1>0
    <3>2. Has(dk[k].log, a.at, a.term) BY <2>1, <2>2, <2>4, <3>1
    <3>3. a.owner = k
      <4>1. a.owner \in Server /\ Won(a.owner, a.term, nw, dw, nn) BY <2>4, LiveIs
      <4>2. Won(k, a.term, nw, dw, nn)
        BY <1>5, <2>4 DEF ClusterInvariant, LinkInvariant
      <4> QED BY <4>1, <4>2, OneWinner DEF Group, ClusterInvariant
    <3> QED BY <2>4, <3>1, <3>2, <3>3, SettleOwner
  <2> QED BY <2>1, <2>2, <2>3, <2>4
<1>6. ASSUME NEW m \in Underway(nw, nn) PROVE Told(m, nw, dw, nn)
  <2>1. m \in Message /\ m \in Underway(nd, nt) BY <1>0, UnderwayType
  <2>2. m.term \in Nat /\ m.term <= m.term BY <2>1 DEF Message
  <2>3. Told(m, nd, dk, nt) BY <2>1 DEF CommitInvariant, SealInvariant
  <2>4. Reached(m.commit, m.term, nd, dk, nt) => Reached(m.commit, m.term, nw, dw, nn)
    BY <1>1, <2>2, ReachedOn
  <2>5. \A j, a : Acked(nt, j, a) => Acked(nn, j, a) BY <1>0 DEF Acked
  <2> QED BY <2>3, <2>4, <2>5 DEF Told
<1>7. \A k \in Server : Counted(k, nw, dw, nn) BY <1>5 DEF Counted
<1> QED BY <1>4, <1>6, <1>7 DEF SealInvariant

LEMMA SettleKeeps ==
    ASSUME NEW nd, NEW dk, NEW nt, NEW nw, NEW dw, NEW nn, NEW i \in Server,
           Group(nd, dk, nt), Group(nw, dw, nn), CommitInvariant(nd, dk, nt),
           ClusterInvariant(nw, dw, nn), Settles(nd, dk, nt, nw, dw, nn, i)
    PROVE  CommitInvariant(nw, dw, nn)
<1>1. OrderInvariant(nw, dw, nn) BY SettleOrder
<1>2. AckInvariant(nw, dw, nn) BY SettleAcks
<1>3. KeyInvariant(nw, dw, nn) BY SettleKeys
<1>4. SealInvariant(nw, dw, nn) BY SettleSeals
<1> QED BY <1>1, <1>2, <1>3, <1>4 DEF CommitInvariant

----------------------------------------------------------------------------
(* A server takes a step *)

\* Server i took a step, from nd[i] to nw[i], in which it read messages of N.
Stepped(nd, dk, nt, nw, i, N) ==
    /\ Group(nd, dk, nt) /\ Group(nw, dk, nt)
    /\ CommitInvariant(nd, dk, nt) /\ ClusterInvariant(nw, dk, nt)
    /\ \A k \in Server \ {i} : nw[k] = nd[k]
    /\ N \subseteq Heard(nd, nt, i)
    /\ Onward(nd[i], nw[i]) /\ LogStep(nd[i], nw[i], N) /\ Mindful(nd[i], nw[i], N)
    /\ \A l \in Server : \A t \in Nat : Won(l, t, nd, dk, nt) => Won(l, t, nw, dk, nt)
    /\ \A x \in Links(nw, dk, nt) :
         \/ x \in Links(nd, dk, nt)
         \/ nw[i].state = "StateLeader" /\ x \in LogLinks(nw[i].log) /\ x.entry.term = nw[i].Term

\* What the step said.
Said(m, r, s, N) ==
    /\ Fitting(m, r, s, N) /\ Honest(m, s, N)
    /\ Granted(m) \/ Acknowledges(m) => m.from = s.id /\ m.term = s.Term

LEMMA SteppedTypes ==
    ASSUME NEW nd, NEW dk, NEW nt, NEW nw, NEW i \in Server, NEW N,
           Stepped(nd, dk, nt, nw, i, N)
    PROVE  /\ nd[i] \in Node /\ nw[i] \in Node
           /\ nd[i].log \in Seq(Entry) /\ nw[i].log \in Seq(Entry)
           /\ Len(nd[i].log) \in Nat /\ Len(nw[i].log) \in Nat
           /\ nd[i].id = i /\ nw[i].id = i /\ nw[i].voters = Server
           /\ nd[i].Term \in Nat /\ nw[i].Term \in Nat /\ dk[i].hs.Term \in Nat
           /\ dk[i].hs.Term <= nd[i].Term /\ nd[i].Term <= nw[i].Term
           /\ dk[i].hs.Term <= nw[i].Term
           /\ nd[i].committed \in Nat /\ nw[i].committed \in Nat
<1>1. Group(nd, dk, nt) /\ Group(nw, dk, nt) BY DEF Stepped
<1>2. /\ nd[i] \in Node /\ nd[i].log \in Seq(Entry) /\ nd[i].Term \in Nat
      /\ nd[i].committed \in Nat /\ dk[i].hs.Term \in Nat
  BY <1>1, GroupLogs
<1>3. /\ nw[i] \in Node /\ nw[i].log \in Seq(Entry) /\ nw[i].Term \in Nat
      /\ nw[i].committed \in Nat
  BY <1>1, GroupLogs
<1>4. nd[i].id = i /\ nd[i].Term >= dk[i].hs.Term
  BY DEF Stepped, CommitInvariant, ClusterInvariant, ElectionInvariant, Durable
<1>5. nw[i].id = i /\ nw[i].voters = Server
  BY DEF Stepped, ClusterInvariant, ElectionInvariant
<1>6. nw[i].Term >= nd[i].Term BY DEF Stepped, Onward
<1>7. Len(nd[i].log) \in Nat /\ Len(nw[i].log) \in Nat BY <1>2, <1>3, LenProperties
<1> QED BY <1>2, <1>3, <1>4, <1>5, <1>6, <1>7

LEMMA SteppedMessages ==
    ASSUME NEW nd, NEW dk, NEW nt, NEW nw, NEW i \in Server, NEW N,
           Stepped(nd, dk, nt, nw, i, N)
    PROVE  /\ N \subseteq Underway(nd, nt)
           /\ nt \subseteq Underway(nd, nt) /\ nt \subseteq Underway(nw, nt)
           /\ Handed(nw, nt) \subseteq Handed(nd, nt)
           /\ Underway(nd, nt) \subseteq Message /\ Underway(nw, nt) \subseteq Message
           /\ \A m \in Underway(nw, nt) :
                m \in Underway(nd, nt) \/ (m \in Boxes(nw[i]) /\ Said(m, nd[i], nw[i], N))
<1> DEFINE r == nd[i]
           s == nw[i]
<1>1. /\ \A k \in Server \ {i} : nw[k] = nd[k]
      /\ N \subseteq Heard(nd, nt, i)
      /\ Onward(r, s) /\ LogStep(r, s, N) /\ Mindful(r, s, N)
      /\ Group(nd, dk, nt) /\ Group(nw, dk, nt)
  BY DEF Stepped
<1>2. Range(s.steps) \subseteq Range(r.steps) BY <1>1 DEF Onward
<1>3. /\ N \subseteq Underway(nd, nt)
      /\ nt \subseteq Underway(nd, nt) /\ nt \subseteq Underway(nw, nt)
  BY <1>1 DEF Heard, Underway
<1>4. \A k \in Server : Range(nw[k].steps) \subseteq Range(nd[k].steps) BY <1>1, <1>2
<1>5. Handed(nw, nt) \subseteq Handed(nd, nt)
  <2> SUFFICES ASSUME NEW m \in Handed(nw, nt) PROVE m \in Handed(nd, nt) OBVIOUS
  <2>1. m \in nt \/ \E k \in Server : m \in Range(nw[k].steps) BY DEF Handed
  <2>2. m \in nt \/ \E k \in Server : m \in Range(nd[k].steps) BY <1>4, <2>1
  <2> QED BY <2>2 DEF Handed
<1>6. ASSUME NEW m \in Underway(nw, nt), m \notin Underway(nd, nt)
      PROVE  m \in Boxes(s) /\ Said(m, r, s, N)
  <2>1. m \in nt \/ \E k \in Server : m \in Boxes(nw[k]) \cup Range(nw[k].steps)
    BY DEF Underway
  <2>2. \A k \in Server : m \notin Boxes(nd[k]) /\ m \notin Range(nd[k].steps)
    BY <1>6, UnderwayOf
  <2>3. m \in Boxes(s)
    <3>1. m \notin nt BY <1>3, <1>6
    <3>2. \A k \in Server \ {i} : m \notin Boxes(nw[k]) BY <1>1, <2>2
    <3>3. \A k \in Server : m \notin Range(nw[k].steps) BY <1>4, <2>2
    <3> QED BY <2>1, <3>1, <3>2, <3>3
  <2>4. m \notin Boxes(r) BY <2>2
  <2>5. Fitting(m, r, s, N) BY <1>1, <2>3, <2>4 DEF Mindful
  <2>6. Honest(m, s, N) BY <1>1, <2>3, <2>4 DEF LogStep
  <2>7. Acknowledges(m) => m.from = s.id /\ m.term = s.Term BY <2>5 DEF Fitting, AckFits
  <2>8. Granted(m) => m.from = s.id /\ m.term = s.Term
    <3>1. Granted(m) => m.term = s.Term BY <1>1, <2>3, <2>4 DEF Onward
    <3>2. Granted(m) => m.from = i
      BY <2>3 DEF Stepped, ClusterInvariant, ElectionInvariant
    <3>3. s.id = i BY SteppedTypes
    <3> QED BY <3>1, <3>2, <3>3
  <2> QED BY <2>3, <2>5, <2>6, <2>7, <2>8 DEF Said
<1>7. Underway(nd, nt) \subseteq Message /\ Underway(nw, nt) \subseteq Message
  BY <1>1, UnderwayType
<1> QED BY <1>3, <1>5, <1>6, <1>7

\* A key that was missed stays so.
LEMMA StepMissed ==
    ASSUME NEW nd, NEW dk, NEW nt, NEW nw, NEW i \in Server, NEW N,
           Stepped(nd, dk, nt, nw, i, N), NEW a \in Key, Missed(a, nd, dk, nt)
    PROVE  Missed(a, nw, dk, nt)
<1>1. Group(nd, dk, nt) /\ Group(nw, dk, nt) BY DEF Stepped
<1>2. \A j \in Server : dk[j].hs.Term >= dk[j].hs.Term
  <2>1. \A j \in Server : dk[j].hs.Term \in Nat BY <1>1, GroupLogs
  <2> QED BY <2>1
<1>3. ASSUME NEW j \in Server, dk[j].hs.Term > a.term, Acked(Underway(nw, nt), j, a)
      PROVE  Acked(Underway(nd, nt), j, a)
  <2>1. PICK m \in Underway(nw, nt) :
          Acknowledges(m) /\ m.from = j /\ m.term = a.term /\ m.index >= a.at
    BY <1>3 DEF Acked
  <2>2. ASSUME m \notin Underway(nd, nt) PROVE FALSE
    <3>1. Said(m, nd[i], nw[i], N) BY <2>2, SteppedMessages
    <3>2. j = i /\ a.term = nw[i].Term BY <2>1, <3>1, SteppedTypes DEF Said
    <3>3. dk[i].hs.Term \in Nat /\ nw[i].Term \in Nat /\ dk[i].hs.Term <= nw[i].Term
      BY SteppedTypes
    <3> QED BY <1>3, <3>2, <3>3
  <2> QED BY <2>1, <2>2 DEF Acked
<1> QED BY <1>1, <1>2, <1>3, MissedOn

\* Who leads after its step has won its term.
LEMMA LeaderIs ==
    ASSUME NEW nd, NEW dk, NEW nt, NEW nw, NEW i \in Server, NEW N,
           Stepped(nd, dk, nt, nw, i, N), nw[i].state = "StateLeader"
    PROVE  /\ nw[i].Term = nd[i].Term /\ nw[i].Term > 0
           /\ Won(i, nw[i].Term, nw, dk, nt)
           /\ nd[i].state \in {"StateLeader", "StateCandidate"}
<1>1. nw[i].Term = nd[i].Term /\ nd[i].state \in {"StateLeader", "StateCandidate"}
  BY DEF Stepped, LogStep
<1>2. Won(i, nw[i].Term, nw, dk, nt) BY DEF Stepped, ClusterInvariant, LinkInvariant
<1>3. nw[i].Term > 0 BY DEF Stepped, ClusterInvariant, ElectionInvariant, Evidence
<1> QED BY <1>1, <1>2, <1>3

\* Beyond index n the log has entries of term t only.
Grown(log, n, t) == \A c \in 1..Len(log) : c > n => log[c].term = t

\* A leader's log after its step: the old one, and entries of its term.
LEMMA LeaderLog ==
    ASSUME NEW nd, NEW dk, NEW nt, NEW nw, NEW i \in Server, NEW N,
           Stepped(nd, dk, nt, nw, i, N), nw[i].state = "StateLeader"
    PROVE  /\ Len(nd[i].log) <= Len(nw[i].log)
           /\ Agree(nw[i].log, nd[i].log, Len(nd[i].log))
           /\ Grown(nw[i].log, Len(nd[i].log), nw[i].Term)
           /\ LogLinks(nd[i].log) \subseteq LogLinks(nw[i].log)
           /\ \A x \in LogLinks(nw[i].log) : x.at <= Len(nd[i].log) => x \in LogLinks(nd[i].log)
<1> DEFINE r == nd[i]
           s == nw[i]
<1>1. Extends(r.log, s.log, s.Term) BY DEF Stepped, LogStep
<1>4. /\ r.log \in Seq(Entry) /\ s.log \in Seq(Entry)
      /\ Len(r.log) \in Nat /\ Len(s.log) \in Nat
  BY SteppedTypes
<1>5. /\ Len(r.log) <= Len(s.log) /\ \A k \in 1..Len(r.log) : s.log[k] = r.log[k]
      /\ LogLinks(r.log) \subseteq LogLinks(s.log)
      /\ \A l \in LogLinks(s.log) : l \in LogLinks(r.log) \/ l.entry.term = s.Term
  BY <1>1, <1>4, ExtendsLinks
<1>6. ASSUME NEW c \in 1..Len(s.log), c > Len(r.log) PROVE s.log[c].term = s.Term
  <2> DEFINE x == [at |-> c, entry |-> s.log[c], prev |-> TermAt(s.log, c - 1)]
  <2>1. x \in LogLinks(s.log) BY LinkOfLog
  <2>2. x \notin LogLinks(r.log)
    <3> SUFFICES ASSUME x \in LogLinks(r.log) PROVE FALSE OBVIOUS
    <3>1. x.at \in 1..Len(r.log) BY LinkAt
    <3> QED BY <1>4, <1>6, <3>1
  <2>3. x.entry.term = s.Term BY <1>5, <2>1, <2>2
  <2> QED BY <2>3
<1>7. ASSUME NEW x \in LogLinks(s.log), x.at <= Len(r.log) PROVE x \in LogLinks(r.log)
  <2> DEFINE y == [at |-> x.at, entry |-> r.log[x.at], prev |-> TermAt(r.log, x.at - 1)]
  <2>1. x.at \in 1..Len(s.log) /\ x.at \in 1..Len(r.log)
    <3>1. x.at \in 1..Len(s.log) BY LinkAt
    <3> QED BY <1>4, <1>7, <3>1
  <2>2. y \in LogLinks(r.log) BY <2>1, LinkOfLog
  <2>3. y \in LogLinks(s.log) /\ y.at = x.at BY <1>5, <2>2
  <2> HIDE DEF y
  <2>4. y = x
    <3>1. x = [at |-> x.at, entry |-> s.log[x.at], prev |-> TermAt(s.log, x.at - 1)] BY LinkAt
    <3>2. y = [at |-> y.at, entry |-> s.log[y.at], prev |-> TermAt(s.log, y.at - 1)]
      BY <2>3, LinkAt
    <3> QED BY <2>3, <3>1, <3>2
  <2> QED BY <2>2, <2>4
<1>8. Agree(s.log, r.log, Len(r.log)) BY <1>4, <1>5 DEF Agree
<1>9. Grown(s.log, Len(r.log), s.Term) BY <1>6 DEF Grown
<1> QED BY <1>5, <1>7, <1>8, <1>9

\* Key a came with the step: an entry that leader i appended.
Appended(a, nd, nw, i) ==
    /\ a.owner = i /\ nw[i].state = "StateLeader" /\ a.term = nw[i].Term
    /\ a.at > Len(nd[i].log) /\ Has(nw[i].log, a.at, a.term)

\* A live key is an old one, or the leader has just appended it.
LEMMA StepLive ==
    ASSUME NEW nd, NEW dk, NEW nt, NEW nw, NEW i \in Server, NEW N,
           Stepped(nd, dk, nt, nw, i, N), NEW a \in LiveKeys(nw, dk, nt)
    PROVE  a \in LiveKeys(nd, dk, nt) \/ Appended(a, nd, nw, i)
<1>0. Group(nd, dk, nt) /\ Group(nw, dk, nt) /\ ClusterInvariant(nw, dk, nt) BY DEF Stepped
<1>1. /\ a \in Key /\ a.at \in Nat \ {0} /\ a.term \in Nat /\ a.owner \in Server
      /\ a \in Keys(Links(nw, dk, nt)) /\ Won(a.owner, a.term, nw, dk, nt)
      /\ ~Missed(a, nw, dk, nt)
  BY <1>0, LiveIs
<1>2. PICK x \in Links(nw, dk, nt) : x.at = a.at /\ x.entry.term = a.term BY <1>1, KeyLink
<1>3. ASSUME x \in Links(nd, dk, nt) PROVE a \in LiveKeys(nd, dk, nt)
  <2>1. PICK l \in Server : Won(l, a.term, nd, dk, nt)
    BY <1>2, <1>3 DEF Stepped, CommitInvariant, ClusterInvariant, LinkInvariant
  <2>2. Won(l, a.term, nw, dk, nt) BY <1>1, <2>1 DEF Stepped
  <2>3. l = a.owner BY <1>0, <1>1, <2>2, OneWinner DEF Group, ClusterInvariant
  <2>4. ~Missed(a, nd, dk, nt) BY <1>1, StepMissed
  <2>5. a \in Keys(Links(nd, dk, nt)) BY <1>1, <1>2, <1>3, LinkKey
  <2> QED BY <2>1, <2>3, <2>4, <2>5 DEF LiveKeys
<1>4. ASSUME x \notin Links(nd, dk, nt) PROVE Appended(a, nd, nw, i)
  <2>1. nw[i].state = "StateLeader" /\ x \in LogLinks(nw[i].log) /\ x.entry.term = nw[i].Term
    BY <1>2, <1>4 DEF Stepped
  <2>2. Won(i, nw[i].Term, nw, dk, nt) BY <2>1, LeaderIs
  <2>3. a.owner = i BY <1>0, <1>1, <1>2, <2>1, <2>2, OneWinner DEF Group, ClusterInvariant
  <2>4. x \notin LogLinks(nd[i].log) BY <1>4, LinksOfLogs
  <2>5. ~(x.at <= Len(nd[i].log)) BY <2>1, <2>4, LeaderLog
  <2>6. Len(nd[i].log) \in Nat BY SteppedTypes
  <2>7. a.at > Len(nd[i].log) BY <1>1, <1>2, <2>5, <2>6
  <2>8. Has(nw[i].log, a.at, a.term) BY <1>2, <2>1, LinkAt DEF Has
  <2> QED BY <1>2, <2>1, <2>3, <2>7, <2>8 DEF Appended
<1> QED BY <1>3, <1>4

\* A step does not take away what a log has of a live key's log, unless the key
\* is of a later term.
LEMMA LogKeeps ==
    ASSUME NEW nd, NEW dk, NEW nt, NEW nw, NEW i \in Server, NEW N,
           Stepped(nd, dk, nt, nw, i, N), NEW a \in LiveKeys(nd, dk, nt), a.term <= nw[i].Term,
           NEW n \in Nat, n <= a.at, Agree(nd[i].log, nd[a.owner].log, n)
    PROVE  Agree(nw[i].log, nd[a.owner].log, n)
<1> DEFINE r == nd[i]
           s == nw[i]
           b == nd[a.owner].log
<1>0. Group(nd, dk, nt) /\ a \in Key /\ a.owner \in Server BY LiveIs DEF Stepped
<1>1. r.log \in Seq(Entry) /\ s.log \in Seq(Entry) /\ Len(r.log) \in Nat /\ Len(s.log) \in Nat
  BY SteppedTypes
<1>2. b \in Seq(Entry) BY <1>0, GroupLogs
<1>3. s.log = r.log \/ s.state = "StateLeader" \/ \E v \in N : Taken(r, s, v)
  BY DEF Stepped, Mindful
<1>4. CASE s.log = r.log BY <1>4
<1>5. CASE s.state = "StateLeader"
  <2>1. Agree(s.log, r.log, Len(r.log)) BY <1>5, LeaderLog
  <2>2. Agree(r.log, b, n) OBVIOUS
  <2> HIDE DEF r, s, b
  <2>3. n <= Len(r.log) BY <2>2 DEF Agree
  <2>4. Agree(s.log, r.log, n) BY <1>1, <2>1, <2>3, AgreeLess
  <2>5. Agree(s.log, b, n) BY <2>2, <2>4, AgreeTrans
  <2> QED BY <2>5 DEF s, b
<1>6. ASSUME NEW v \in N, Taken(r, s, v) PROVE Agree(s.log, b, n)
  <2>1. v \in Underway(nd, nt) /\ v \in Message BY SteppedMessages
  <2>2. v.type = "MsgApp" /\ v.term = s.Term /\ v.index <= Len(r.log) /\ s.log = Spliced(r.log, v)
    BY <1>6 DEF Taken, matchTerm
  <2>3. Placed(a, nd, dk, nt) BY DEF Stepped, CommitInvariant, KeyInvariant
  <2>4. Respects(v, a, b) BY <2>1, <2>2, <2>3 DEF Placed
  <2>5. Agree(r.log, b, n) OBVIOUS
  <2>6. r.log \in Seq(Entry) BY <1>1
  <2> HIDE DEF b, r, s
  <2>7. Agree(Spliced(r.log, v), b, n) BY <1>0, <1>2, <2>1, <2>2, <2>4, <2>5, <2>6, SpliceAgrees
  <2> QED BY <2>2, <2>7
<1> QED BY <1>3, <1>4, <1>5, <1>6

\* The owner of a live key keeps it.
LEMMA StepOwner ==
    ASSUME NEW nd, NEW dk, NEW nt, NEW nw, NEW i \in Server, NEW N,
           Stepped(nd, dk, nt, nw, i, N), NEW a \in LiveKeys(nd, dk, nt)
    PROVE  /\ Agree(nd[a.owner].log, nw[a.owner].log, a.at)
           /\ Has(nw[a.owner].log, a.at, a.term)
           /\ nd[a.owner].log \in Seq(Entry) /\ nw[a.owner].log \in Seq(Entry)
<1>0. Group(nd, dk, nt) /\ Group(nw, dk, nt) BY DEF Stepped
<1>1. /\ a.at \in Nat \ {0} /\ a.term \in Nat /\ a.owner \in Server
      /\ Won(a.owner, a.term, nd, dk, nt)
  BY <1>0, LiveIs
<1>2. nd[a.owner].log \in Seq(Entry) /\ nw[a.owner].log \in Seq(Entry) BY <1>0, <1>1, GroupLogs
<1>3. Has(nd[a.owner].log, a.at, a.term)
  BY DEF Stepped, CommitInvariant, KeyInvariant, Placed
<1>4. Agree(nd[a.owner].log, nd[a.owner].log, a.at)
  BY <1>2, <1>3, LenProperties, AgreeSelf DEF Has
<1>5. Agree(nd[a.owner].log, nw[a.owner].log, a.at)
  <2>1. CASE a.owner # i
    <3>1. nw[a.owner] = nd[a.owner] BY <1>1, <2>1 DEF Stepped
    <3> QED BY <1>4, <3>1
  <2>2. CASE a.owner = i
    <3>1. a.term <= dk[i].hs.Term BY <1>1, <2>2 DEF Won, Claims
    <3>2. dk[i].hs.Term \in Nat /\ nw[i].Term \in Nat /\ dk[i].hs.Term <= nw[i].Term
      BY SteppedTypes
    <3>3. a.term <= nw[i].Term BY <1>1, <3>1, <3>2
    <3>4. a.at \in Nat /\ a.at <= a.at BY <1>1
    <3>5. Agree(nw[i].log, nd[a.owner].log, a.at) BY <1>4, <2>2, <3>3, <3>4, LogKeeps
    <3> QED BY <2>2, <3>5, AgreeSym
  <2> QED BY <2>1, <2>2
<1>6. Has(nw[a.owner].log, a.at, a.term) BY <1>1, <1>2, <1>3, <1>5, AgreeHas
<1> QED BY <1>2, <1>5, <1>6

LEMMA StepChosen ==
    ASSUME NEW nd, NEW dk, NEW nt, NEW nw, NEW i \in Server, NEW N,
           Stepped(nd, dk, nt, nw, i, N)
    PROVE  ChosenStays(nd, dk, nt, nw, dk, nt)
<1>0. Group(nd, dk, nt) /\ Group(nw, dk, nt) BY DEF Stepped
<1> SUFFICES ASSUME NEW a \in LiveKeys(nd, dk, nt), Chosen(a, dk, nt)
             PROVE  a \in LiveKeys(nw, dk, nt) /\ Agree(nd[a.owner].log, nw[a.owner].log, a.at)
  BY DEF ChosenStays
<1>1. /\ a \in Key /\ a.term \in Nat /\ a.owner \in Server /\ Won(a.owner, a.term, nd, dk, nt)
  BY <1>0, LiveIs
<1>2. Won(a.owner, a.term, nw, dk, nt) BY <1>1 DEF Stepped
<1>3. a \in LiveKeys(nw, dk, nt) BY <1>0, <1>1, <1>2, ChosenIsLive
<1> QED BY <1>3, StepOwner

\* What the server has committed stays committed.
LEMMA StepSealed ==
    ASSUME NEW nd, NEW dk, NEW nt, NEW nw, NEW i \in Server, NEW N,
           Stepped(nd, dk, nt, nw, i, N), NEW c \in Nat,
           Sealed(nd[i].log, c, nd[i].Term, nd, dk, nt)
    PROVE  Sealed(nw[i].log, c, nw[i].Term, nw, dk, nt)
<1>0. Group(nd, dk, nt) /\ Group(nw, dk, nt) BY DEF Stepped
<1>1. CASE c = 0 BY <1>1 DEF Sealed
<1>2. CASE c # 0
  <2>1. PICK a \in LiveKeys(nd, dk, nt) :
          /\ a.at >= c /\ a.term <= nd[i].Term /\ Chosen(a, dk, nt)
          /\ Agree(nd[i].log, nd[a.owner].log, c)
    BY <1>2 DEF Sealed
  <2>2. a.at \in Nat /\ a.term \in Nat /\ a.owner \in Server BY <1>0, LiveIs
  <2>3. nd[i].Term \in Nat /\ nw[i].Term \in Nat /\ nd[i].Term <= nw[i].Term BY SteppedTypes
  <2>4. a.term <= nw[i].Term /\ c <= a.at BY <2>1, <2>2, <2>3
  <2>5. Agree(nw[i].log, nd[a.owner].log, c) BY <2>1, <2>4, LogKeeps
  <2>6. /\ Agree(nd[a.owner].log, nw[a.owner].log, a.at)
        /\ nd[a.owner].log \in Seq(Entry) /\ nw[a.owner].log \in Seq(Entry)
    BY StepOwner
  <2>7. Agree(nd[a.owner].log, nw[a.owner].log, c) BY <2>2, <2>4, <2>6, AgreeLess
  <2>8. Agree(nw[i].log, nw[a.owner].log, c) BY <2>5, <2>7, AgreeTrans
  <2>9. a \in LiveKeys(nw, dk, nt)
    <3>1. ChosenStays(nd, dk, nt, nw, dk, nt) BY StepChosen
    <3> QED BY <2>1, <3>1 DEF ChosenStays
  <2> QED BY <2>1, <2>4, <2>8, <2>9 DEF Sealed
<1> QED BY <1>1, <1>2

----------------------------------------------------------------------------
(* Who leads has what may have been counted *)

\* A server that acknowledged a live key has it.
LEMMA HolderHas ==
    ASSUME NEW nd, NEW dk, NEW nt, Group(nd, dk, nt), CommitInvariant(nd, dk, nt),
           NEW a \in LiveKeys(nd, dk, nt), NEW j \in Server, Holds(j, a, Underway(nd, nt))
    PROVE  Has(nd[j].log, a.at, a.term)
<1>1. a \in Key /\ a.at \in Nat /\ a.term \in Nat /\ a.owner \in Server BY LiveIs
<1>2. Has(nd[a.owner].log, a.at, a.term) BY DEF CommitInvariant, KeyInvariant, Placed
<1>3. CASE j = a.owner BY <1>2, <1>3
<1>4. CASE j # a.owner
  <2>1. PICK m \in Underway(nd, nt) :
          Acknowledges(m) /\ m.from = j /\ m.term = a.term /\ m.index >= a.at
    BY <1>4 DEF Holds, Acked
  <2>2. m \in Message /\ m.index \in Nat BY UnderwayType DEF Message
  <2>3. Backs(m, nd[m.from].log, nd[m.from].Term, nd, dk, nt) BY DEF CommitInvariant, AckInvariant
  <2>4. a.term <= m.term BY <1>1, <2>1
  <2>5. Copies(nd[j].log, m.index, a, nd[a.owner].log) BY <2>1, <2>3, <2>4 DEF Backs
  <2>6. Least(m.index, a.at) = a.at BY <1>1, <2>1, <2>2, LeastIs
  <2>7. Agree(nd[j].log, nd[a.owner].log, a.at) BY <2>5, <2>6 DEF Copies
  <2>8. Agree(nd[a.owner].log, nd[j].log, a.at) BY <2>7, AgreeSym
  <2>9. nd[j].log \in Seq(Entry) /\ nd[a.owner].log \in Seq(Entry) BY <1>1, GroupLogs
  <2>10. a.at <= a.at BY <1>1
  <2> QED BY <1>1, <1>2, <2>8, <2>9, <2>10, AgreeHas
<1> QED BY <1>3, <1>4

\* A complete log that ends after a key has the key.
LEMMA LastHas ==
    ASSUME NEW log \in Seq(Entry), NEW a \in Key, Complete(log, a),
           After(lastTerm(log), Len(log), a)
    PROVE  Has(log, a.at, a.term)
<1>1. Len(log) \in Nat /\ a.at \in Nat \ {0} /\ a.term \in Nat BY LenProperties DEF Key
<1>2. Len(log) # 0
  <2> SUFFICES ASSUME Len(log) = 0 PROVE FALSE OBVIOUS
  <2>1. lastTerm(log) = 0 BY DEF lastTerm, TermAt
  <2> QED BY <1>1, <2>1 DEF After
<1>3. Len(log) \in 1..Len(log) BY <1>1, <1>2
<1>4. lastTerm(log) = log[Len(log)].term BY <1>3 DEF lastTerm, TermAt
<1> QED BY <1>3, <1>4 DEF Complete

\* A grant is of a term its sender has reached.
LEMMA GrantsBehind ==
    ASSUME NEW nd, NEW dk, NEW nt, Group(nd, dk, nt), ClusterInvariant(nd, dk, nt),
           NEW g \in Underway(nd, nt), Granted(g)
    PROVE  /\ g.term <= nd[g.from].Term
           /\ g \in nt => g.term <= dk[g.from].hs.Term
<1>1. g \in Message /\ g.from \in Server /\ g.term \in Nat BY UnderwayType DEF Message
<1>2. nd[g.from].Term \in Nat /\ dk[g.from].hs.Term \in Nat BY <1>1, GroupLogs
<1>3. nd[g.from].Term >= dk[g.from].hs.Term
  BY <1>1 DEF ClusterInvariant, ElectionInvariant, Durable
<1>4. CASE g \in nt
  <2>1. g.term <= dk[g.from].hs.Term
    BY <1>4 DEF ClusterInvariant, ElectionInvariant, StoodBy
  <2> QED BY <1>1, <1>2, <1>3, <2>1
<1>5. CASE g \notin nt
  <2>1. PICK k \in Server : g \in Boxes(nd[k]) \/ g \in Range(nd[k].steps)
    BY <1>5 DEF Underway
  <2>2. CASE g \in Boxes(nd[k])
    BY <1>5, <2>2 DEF ClusterInvariant, ElectionInvariant, StoodBy
  <2>3. CASE g \in Range(nd[k].steps)
    <3>1. g.from = k BY <2>3 DEF ClusterInvariant, ElectionInvariant
    <3>2. StoodBy(g, nd[k]) BY <2>3 DEF ClusterInvariant, TrailInvariant
    <3> QED BY <1>5, <3>1, <3>2 DEF StoodBy
  <2> QED BY <2>1, <2>2, <2>3
<1> QED BY <1>4, <1>5

\* Until a candidate takes the lead nobody has won its term.
LEMMA NotWonYet ==
    ASSUME NEW nd, NEW dk, NEW nt, NEW nw, NEW i \in Server, NEW N,
           Stepped(nd, dk, nt, nw, i, N), nw[i].state = "StateLeader",
           nd[i].state = "StateCandidate", NEW l \in Server
    PROVE  ~Won(l, nw[i].Term, nd, dk, nt)
<1>0. Group(nw, dk, nt) /\ ClusterInvariant(nw, dk, nt) BY DEF Stepped
<1> SUFFICES ASSUME Won(l, nw[i].Term, nd, dk, nt) PROVE FALSE OBVIOUS
<1>1. nw[i].Term = nd[i].Term /\ Won(i, nw[i].Term, nw, dk, nt) BY LeaderIs
<1>2. nw[i].Term \in Nat BY SteppedTypes
<1>3. Won(l, nw[i].Term, nw, dk, nt) BY <1>2 DEF Stepped
<1>4. l = i BY <1>0, <1>1, <1>3, OneWinner DEF Group, ClusterInvariant
<1> QED BY <1>1, <1>4 DEF Won

\* What there is of a leader's term is in its log.
LEMMA LeaderTerm ==
    ASSUME NEW nd, NEW dk, NEW nt, NEW nw, NEW i \in Server, NEW N,
           Stepped(nd, dk, nt, nw, i, N), nw[i].state = "StateLeader"
    PROVE  /\ \A x \in Links(nd, dk, nt) : x.entry.term = nw[i].Term => x \in LogLinks(nd[i].log)
           /\ \A m \in Underway(nd, nt) : m.term = nw[i].Term =>
                /\ m.type = "MsgApp" => Slice(m, nd[i].log)
                /\ Acknowledges(m) => m.index <= Len(nd[i].log)
<1>0. Group(nd, dk, nt) BY DEF Stepped
<1>1. nw[i].Term = nd[i].Term /\ nd[i].state \in {"StateLeader", "StateCandidate"} BY LeaderIs
<1>2. CASE nd[i].state = "StateLeader"
  <2>1. \A x \in Links(nd, dk, nt) : x.entry.term = nd[i].Term => x \in LogLinks(nd[i].log)
    BY <1>2 DEF Stepped, CommitInvariant, ClusterInvariant, LinkInvariant
  <2>2. LeaderKnows(nd[i], Underway(nd, nt)) BY DEF Stepped, CommitInvariant, OrderInvariant
  <2> QED BY <1>1, <1>2, <2>1, <2>2 DEF LeaderKnows
<1>3. CASE nd[i].state = "StateCandidate"
  <2>1. \A l \in Server : ~Won(l, nw[i].Term, nd, dk, nt) BY <1>3, NotWonYet
  <2>2. \A x \in Links(nd, dk, nt) : x.entry.term # nw[i].Term
    BY <2>1 DEF Stepped, CommitInvariant, ClusterInvariant, LinkInvariant
  <2>3. ASSUME NEW m \in Underway(nd, nt), m.term = nw[i].Term
        PROVE  m.type # "MsgApp" /\ (Acknowledges(m) => m.index <= Len(nd[i].log))
    <3>1. OfTerm(m, nd, dk, nt) BY DEF Stepped, CommitInvariant, OrderInvariant
    <3>2. m.index \in Nat BY <1>0, UnderwayType DEF Message
    <3>3. Len(nd[i].log) \in Nat BY SteppedTypes
    <3>4. m.type # "MsgApp" /\ ~(Acknowledges(m) /\ m.index > 0) BY <2>1, <2>3, <3>1 DEF OfTerm
    <3> QED BY <3>2, <3>3, <3>4
  <2> QED BY <2>2, <2>3
<1> QED BY <1>1, <1>2, <1>3

\* Leader completeness in the making: whoever takes the lead was voted for by a
\* server that acknowledged the key, or that never can.
LEMMA LeaderHas ==
    ASSUME NEW nd, NEW dk, NEW nt, NEW nw, NEW i \in Server, NEW N,
           Stepped(nd, dk, nt, nw, i, N), nw[i].state = "StateLeader",
           NEW a \in LiveKeys(nd, dk, nt), a.term <= nw[i].Term
    PROVE  /\ Has(nd[i].log, a.at, a.term) /\ Has(nw[i].log, a.at, a.term)
           /\ a.at <= Len(nd[i].log)
<1> DEFINE t == nw[i].Term
<1>0. Group(nd, dk, nt) /\ CommitInvariant(nd, dk, nt) BY DEF Stepped
<1>1. t = nd[i].Term /\ nd[i].state \in {"StateLeader", "StateCandidate"} BY LeaderIs
<1>2. /\ a \in Key /\ a.at \in Nat \ {0} /\ a.term \in Nat /\ a.owner \in Server
      /\ Won(a.owner, a.term, nd, dk, nt) /\ ~Missed(a, nd, dk, nt)
  BY <1>0, LiveIs
<1>3. t \in Nat /\ a.term <= t /\ nd[i].log \in Seq(Entry) /\ nw[i].log \in Seq(Entry)
  BY SteppedTypes
<1>4. Placed(a, nd, dk, nt) BY DEF Stepped, CommitInvariant, KeyInvariant
<1>5. Has(nd[i].log, a.at, a.term)
  <2>1. CASE nd[i].state = "StateLeader" BY <1>1, <1>3, <1>4, <2>1 DEF Placed
  <2>2. CASE nd[i].state = "StateCandidate"
    <3>1. a.term # t BY <1>2, <2>2, NotWonYet
    <3>2. PICK Q \in SUBSET Server :
            IsQuorum(Q, Server) /\ \A j \in Q \ {i} : Backed(nt, j, i, t)
      <4>1. Evidence(nw[i], nt) /\ nw[i].id = i
        BY DEF Stepped, ClusterInvariant, ElectionInvariant
      <4> QED BY <4>1 DEF Evidence
    <3>3. ASSUME NEW j \in Q PROVE t <= dk[j].hs.Term
      <4>1. CASE j = i
        <5>1. Won(i, t, nw, dk, nt) BY LeaderIs
        <5> QED BY <4>1, <5>1 DEF Won, Claims
      <4>2. CASE j # i
        <5>1. PICK g \in nt : Granted(g) /\ g.from = j /\ g.term = t BY <3>2, <4>2 DEF Backed
        <5>2. g \in Underway(nd, nt) BY DEF Underway
        <5>3. g.term <= dk[g.from].hs.Term
          BY <1>0, <5>1, <5>2, GrantsBehind DEF CommitInvariant
        <5> QED BY <5>1, <5>3
      <4> QED BY <4>1, <4>2
    <3>4. \A j \in Q : dk[j].hs.Term > a.term
      <4>1. \A j \in Q : dk[j].hs.Term \in Nat BY <1>0, GroupLogs
      <4> HIDE DEF t
      <4> QED BY <1>2, <1>3, <3>1, <3>3, <4>1
    <3>5. PICK j \in Q : Holds(j, a, Underway(nd, nt)) BY <1>2, <3>2, <3>4 DEF Missed
    <3>6. CASE j = i BY <1>0, <3>5, <3>6, HolderHas
    <3>7. CASE j # i
      <4>1. PICK g \in nt : Granted(g) /\ g.from = j /\ g.to = i /\ g.term = t
        BY <3>2, <3>7 DEF Backed
      <4>2. g \in Underway(nd, nt) BY DEF Underway
      <4>3. a.term < g.term BY <1>2, <1>3, <3>1, <4>1
      <4>4. /\ g.from # g.to /\ nd[g.to].state = "StateCandidate" /\ nd[g.to].Term = g.term
            /\ Holds(g.from, a, Underway(nd, nt))
        BY <1>1, <2>2, <3>5, <3>7, <4>1
      <4>5. After(lastTerm(nd[g.to].log), Len(nd[g.to].log), a)
        BY <1>4, <4>1, <4>2, <4>3, <4>4 DEF Placed
      <4>6. After(lastTerm(nd[i].log), Len(nd[i].log), a) BY <4>1, <4>5
      <4>7. Complete(nd[i].log, a) BY <1>4 DEF Placed
      <4> QED BY <1>2, <1>3, <4>6, <4>7, LastHas
    <3> QED BY <3>6, <3>7
  <2> QED BY <1>1, <2>1, <2>2
<1>6. Len(nd[i].log) \in Nat /\ a.at <= Len(nd[i].log) BY <1>3, <1>5, LenProperties DEF Has
<1>7. Agree(nd[i].log, nw[i].log, Len(nd[i].log)) BY LeaderLog, AgreeSym
<1>8. Has(nw[i].log, a.at, a.term) BY <1>2, <1>3, <1>5, <1>6, <1>7, AgreeHas
<1> QED BY <1>5, <1>6, <1>8

\* A quorum of votes is against a candidate that is beaten: terms keep growing.
LEMMA StepRise ==
    ASSUME NEW nd, NEW dk, NEW nt, NEW nw, NEW i \in Server, NEW N,
           Stepped(nd, dk, nt, nw, i, N)
    PROVE  LinksRise(nw, dk, nt)
<1> DEFINE t == nw[i].Term
           r == nd[i]
           s == nw[i]
<1>0. Group(nd, dk, nt) BY DEF Stepped
<1> SUFFICES ASSUME NEW x \in Links(nw, dk, nt) PROVE x.prev <= x.entry.term
  BY DEF LinksRise
<1>1. CASE x \in Links(nd, dk, nt)
  BY <1>1 DEF Stepped, CommitInvariant, OrderInvariant, LinksRise
<1>2. CASE x \notin Links(nd, dk, nt)
  <2>1. s.state = "StateLeader" /\ x \in LogLinks(s.log) /\ x.entry.term = t
    BY <1>2 DEF Stepped
  <2>2. t = r.Term /\ r.state \in {"StateLeader", "StateCandidate"} BY <2>1, LeaderIs
  <2>3. /\ r.log \in Seq(Entry) /\ s.log \in Seq(Entry) /\ Len(r.log) \in Nat
        /\ Len(s.log) \in Nat /\ t \in Nat
    BY SteppedTypes
  <2>4. x.at \in 1..Len(s.log) /\ x.prev = TermAt(s.log, x.at - 1) BY <2>1, LinkAt
  <2>5. ~(x.at <= Len(r.log))
    <3>1. x \notin LogLinks(r.log) BY <1>2, LinksOfLogs
    <3> QED BY <2>1, <3>1, LeaderLog
  <2>6. Grown(s.log, Len(r.log), t) BY <2>1, LeaderLog
  <2>7. Agree(s.log, r.log, Len(r.log)) BY <2>1, LeaderLog
  <2>8. lastTerm(r.log) <= t
    <3>1. CASE r.state = "StateLeader"
      <4>1. LeaderKnows(r, Underway(nd, nt)) BY DEF Stepped, CommitInvariant, OrderInvariant
      <4>2. Has(r.log, Len(r.log), t) BY <2>2, <3>1, <4>1 DEF LeaderKnows
      <4>3. lastTerm(r.log) = t BY <4>2 DEF Has, lastTerm, TermAt
      <4> QED BY <2>3, <4>3
    <3>2. CASE r.state = "StateCandidate"
      <4> SUFFICES ASSUME lastTerm(r.log) > r.Term PROVE FALSE
        <5>1. lastTerm(r.log) \in Nat
          <6>1. \A n \in 1..Len(r.log) : r.log[n].term \in Nat BY <2>3, LogTermsAreNat
          <6> QED BY <6>1 DEF lastTerm, TermAt
        <5> QED BY <2>2, <2>3, <5>1
      <4>1. Beaten(i, t, nd, dk, nt)
        BY <2>2, <3>2 DEF Stepped, CommitInvariant, OrderInvariant
      <4>2. PICK P \in SUBSET Server :
              /\ IsQuorum(P, Server)
              /\ \A j \in P : dk[j].hs.Term > t /\ ~Backed(Underway(nd, nt), j, i, t)
        BY <4>1 DEF Beaten
      <4>3. PICK Q \in SUBSET Server :
              IsQuorum(Q, Server) /\ \A j \in Q \ {i} : Backed(nt, j, i, t)
        <5>1. Evidence(nw[i], nt) /\ nw[i].id = i
          BY DEF Stepped, ClusterInvariant, ElectionInvariant
        <5> QED BY <2>1, <5>1 DEF Evidence
      <4>4. PICK j \in Server : j \in P /\ j \in Q BY <4>2, <4>3, QuorumsMeet
      <4>5. nt \subseteq Underway(nd, nt) BY DEF Underway
      <4>6. j = i BY <4>2, <4>3, <4>4, <4>5 DEF Backed
      <4>7. dk[i].hs.Term > t BY <4>2, <4>4, <4>6
      <4>8. dk[i].hs.Term \in Nat /\ nw[i].Term \in Nat /\ dk[i].hs.Term <= nw[i].Term
        BY SteppedTypes
      <4> QED BY <4>7, <4>8
    <3> QED BY <2>2, <3>1, <3>2
  <2>9. x.prev <= t
    <3> HIDE DEF r, s, t
    <3>1. CASE x.at - 1 > Len(r.log)
      <4>1. x.at - 1 \in 1..Len(s.log) BY <2>3, <2>4, <3>1
      <4>2. TermAt(s.log, x.at - 1) = t BY <2>6, <3>1, <4>1 DEF TermAt, Grown
      <4> QED BY <2>3, <2>4, <4>2
    <3>2. CASE ~(x.at - 1 > Len(r.log))
      <4>1. x.at - 1 = Len(r.log) BY <2>3, <2>4, <2>5, <3>2
      <4>2. Len(r.log) <= Len(r.log) BY <2>3
      <4>3. TermAt(s.log, Len(r.log)) = TermAt(r.log, Len(r.log)) BY <2>3, <2>7, <4>2, AgreeTermAt
      <4> QED BY <2>4, <2>8, <4>1, <4>3 DEF lastTerm
    <3> QED BY <3>1, <3>2
  <2> QED BY <2>1, <2>9
<1> QED BY <1>1, <1>2

LEMMA GroupSorted ==
    ASSUME NEW nd, NEW dk, NEW nt, Group(nd, dk, nt), LinksRise(nd, dk, nt)
    PROVE  \A j \in Server : Sorted(nd[j].log) /\ Sorted(dk[j].log)
<1> TAKE j \in Server
<1>1. nd[j].log \in Seq(Entry) /\ dk[j].log \in Seq(Entry) BY GroupLogs
<1>2. /\ \A x \in LogLinks(nd[j].log) : x.prev <= x.entry.term
      /\ \A x \in LogLinks(dk[j].log) : x.prev <= x.entry.term
  BY LinksOfLogs DEF LinksRise
<1> QED BY <1>1, <1>2, SortedLog

\* As long as an entry that was just appended can be counted, nobody has won a
\* later term.
LEMMA NoneLater ==
    ASSUME NEW nd, NEW dk, NEW nt, NEW nw, NEW i \in Server, NEW N,
           Stepped(nd, dk, nt, nw, i, N), NEW a \in LiveKeys(nw, dk, nt),
           Appended(a, nd, nw, i), NEW l \in Server, NEW t \in Nat, t > a.term
    PROVE  ~Won(l, t, nw, dk, nt)
<1> SUFFICES ASSUME Won(l, t, nw, dk, nt) PROVE FALSE OBVIOUS
<1>0. Group(nd, dk, nt) /\ Group(nw, dk, nt) /\ ClusterInvariant(nw, dk, nt) BY DEF Stepped
<1>1. a \in Key /\ a.at \in Nat /\ a.term \in Nat /\ ~Missed(a, nw, dk, nt) BY <1>0, LiveIs
<1>2. /\ a.owner = i /\ nw[i].state = "StateLeader" /\ a.term = nw[i].Term
      /\ a.at > Len(nd[i].log)
  BY DEF Appended
<1>3. PICK Q \in SUBSET Server : IsQuorum(Q, Server) /\ \A j \in Q \ {l} : Backed(nt, j, l, t)
  BY DEF Won
<1>4. ASSUME NEW j \in Q PROVE t <= dk[j].hs.Term
  <2>1. CASE j = l BY <2>1 DEF Won, Claims
  <2>2. CASE j # l
    <3>1. PICK g \in nt : Granted(g) /\ g.from = j /\ g.term = t BY <1>3, <2>2 DEF Backed
    <3>2. g \in Underway(nw, nt) BY DEF Underway
    <3>3. g.term <= dk[g.from].hs.Term BY <1>0, <3>1, <3>2, GrantsBehind
    <3> QED BY <3>1, <3>3
  <2> QED BY <2>1, <2>2
<1>5. \A j \in Q : dk[j].hs.Term > a.term
  <2>1. \A j \in Q : dk[j].hs.Term \in Nat BY <1>0, GroupLogs
  <2> QED BY <1>1, <1>4, <2>1
<1>6. i \notin Q
  <2>1. dk[i].hs.Term \in Nat /\ nw[i].Term \in Nat /\ dk[i].hs.Term <= nw[i].Term
    BY SteppedTypes
  <2> QED BY <1>2, <1>5, <2>1
<1>7. ASSUME NEW j \in Q PROVE ~Holds(j, a, Underway(nw, nt))
  <2> SUFFICES ASSUME Holds(j, a, Underway(nw, nt)) PROVE FALSE OBVIOUS
  <2>1. j # i BY <1>6
  <2>2. PICK m \in Underway(nw, nt) :
          Acknowledges(m) /\ m.from = j /\ m.term = a.term /\ m.index >= a.at
    BY <1>2, <2>1 DEF Holds, Acked
  <2>3. m \in Underway(nd, nt)
    <3> SUFFICES ASSUME m \notin Underway(nd, nt) PROVE FALSE OBVIOUS
    <3>1. Said(m, nd[i], nw[i], N) BY SteppedMessages
    <3>2. m.from = i BY <2>2, <3>1, SteppedTypes DEF Said
    <3> QED BY <2>1, <2>2, <3>2
  <2>4. m.index <= Len(nd[i].log) BY <1>2, <2>2, <2>3, LeaderTerm
  <2>5. m.index \in Nat /\ Len(nd[i].log) \in Nat
    BY <1>0, UnderwayType, SteppedTypes DEF Message
  <2> QED BY <1>1, <1>2, <2>2, <2>4, <2>5
<1>8. Missed(a, nw, dk, nt) BY <1>3, <1>5, <1>7 DEF Missed
<1> QED BY <1>1, <1>8

\* Requests for votes and grants are of a term their candidate has reached.
LEMMA VotesBehind ==
    ASSUME NEW nd, NEW dk, NEW nt, Group(nd, dk, nt), ClusterInvariant(nd, dk, nt),
           NEW m \in Underway(nd, nt)
    PROVE  /\ m.type = "MsgVote" => m.term <= nd[m.from].Term
           /\ Granted(m) => m.term <= nd[m.to].Term
<1>1. m \in Message /\ m.from \in Server /\ m.to \in Server /\ m.term \in Nat
  BY UnderwayType DEF Message
<1>2. \A j \in Server : /\ nd[j].Term \in Nat /\ dk[j].hs.Term \in Nat
                        /\ dk[j].hs.Term <= nd[j].Term
  BY GroupLogs DEF ClusterInvariant, ElectionInvariant, Durable
<1>3. ASSUME NEW hs, Shown(m, hs), \A j \in Server : hs[j].Term \in Nat /\ hs[j].Term <= nd[j].Term
      PROVE  /\ m.type = "MsgVote" => m.term <= nd[m.from].Term
             /\ Granted(m) => m.term <= nd[m.to].Term
  <2>1. /\ m.type = "MsgVote" => m.term <= hs[m.from].Term
        /\ Granted(m) => m.term <= hs[m.to].Term
    BY <1>3 DEF Shown, Claims
  <2>2. hs[m.from].Term \in Nat /\ hs[m.from].Term <= nd[m.from].Term /\ nd[m.from].Term \in Nat
    BY <1>1, <1>2, <1>3
  <2>3. hs[m.to].Term \in Nat /\ hs[m.to].Term <= nd[m.to].Term /\ nd[m.to].Term \in Nat
    BY <1>1, <1>2, <1>3
  <2>4. m.type = "MsgVote" => m.term <= nd[m.from].Term BY <1>1, <2>1, <2>2
  <2>5. Granted(m) => m.term <= nd[m.to].Term BY <1>1, <2>1, <2>3
  <2> QED BY <2>4, <2>5
<1>4. \A j \in Server : DiskStates(dk)[j].Term \in Nat /\ DiskStates(dk)[j].Term <= nd[j].Term
  BY <1>2 DEF DiskStates
<1>5. \A k \in Server : \A j \in Server :
        ReadyStates(nd, dk, k)[j].Term \in Nat /\ ReadyStates(nd, dk, k)[j].Term <= nd[j].Term
  BY <1>2, <1>4 DEF ReadyStates, DiskStates, hardState
<1>6. Shown(m, DiskStates(dk)) \/ \E k \in Server : Shown(m, ReadyStates(nd, dk, k))
  BY DEF Underway, ClusterInvariant, TrailInvariant
<1> QED BY <1>3, <1>4, <1>5, <1>6

LEMMA SliceOn ==
    ASSUME NEW m \in Message, NEW log \in Seq(Entry), NEW more \in Seq(Entry), Slice(m, log),
           Agree(more, log, Len(log))
    PROVE  Slice(m, more)
<1>1. /\ m.index \in Nat /\ Len(m.entries) \in Nat /\ Len(log) \in Nat /\ Len(more) \in Nat
  BY LenProperties DEF Message
<1>2. /\ m.index + Len(m.entries) <= Len(log) /\ m.logTerm = TermAt(log, m.index)
      /\ \A c \in 1..Len(m.entries) : m.entries[c] = log[m.index + c]
  BY DEF Slice
<1>3. Len(log) <= Len(more) /\ \A c \in 1..Len(log) : more[c] = log[c] BY DEF Agree
<1>4. m.index <= Len(log) BY <1>1, <1>2
<1>5. TermAt(more, m.index) = TermAt(log, m.index) BY <1>1, <1>4, AgreeTermAt
<1>6. \A c \in 1..Len(m.entries) : m.index + c \in 1..Len(log) BY <1>1, <1>2
<1>7. \A c \in 1..Len(m.entries) : m.entries[c] = more[m.index + c] BY <1>2, <1>3, <1>6
<1>8. m.index + Len(m.entries) <= Len(more) BY <1>1, <1>2, <1>3
<1> QED BY <1>2, <1>5, <1>7, <1>8 DEF Slice

\* Two servers that lead in the same term are one.
LEMMA OneLeads ==
    ASSUME NEW nd, NEW dk, NEW nt, Group(nd, dk, nt), ClusterInvariant(nd, dk, nt),
           NEW j \in Server, nd[j].state = "StateLeader",
           NEW k \in Server, nd[k].state = "StateLeader", nd[j].Term = nd[k].Term
    PROVE  j = k
<1>1. Won(j, nd[j].Term, nd, dk, nt) /\ Won(k, nd[k].Term, nd, dk, nt)
  BY DEF ClusterInvariant, LinkInvariant
<1> QED BY <1>1, OneWinner DEF Group, ClusterInvariant

\* The leader knows what was said in its term, also after a step of its own ...
LEMMA LeaderStillKnows ==
    ASSUME NEW nd, NEW dk, NEW nt, NEW nw, NEW i \in Server, NEW N,
           Stepped(nd, dk, nt, nw, i, N), nw[i].state = "StateLeader"
    PROVE  LeaderKnows(nw[i], Underway(nw, nt))
<1> DEFINE r == nd[i]
           s == nw[i]
<1>0. Group(nd, dk, nt) BY DEF Stepped
<1>1. /\ r.log \in Seq(Entry) /\ s.log \in Seq(Entry) /\ Len(r.log) \in Nat /\ Len(s.log) \in Nat
      /\ s.Term \in Nat /\ s.Term = r.Term /\ s.Term > 0
  BY SteppedTypes, LeaderIs
<1>2. /\ Len(r.log) <= Len(s.log) /\ Agree(s.log, r.log, Len(r.log))
      /\ Grown(s.log, Len(r.log), s.Term)
  BY LeaderLog
<1>3. r.state = "StateLeader" \/ (r.state = "StateCandidate" /\ Len(s.log) > Len(r.log))
  BY DEF Stepped, Mindful
<1>4. LeaderKnows(r, Underway(nd, nt)) BY DEF Stepped, CommitInvariant, OrderInvariant
<1>5. Has(s.log, Len(s.log), s.Term)
  <2>1. CASE Len(s.log) > Len(r.log)
    <3>1. Len(s.log) \in 1..Len(s.log) BY <1>1, <2>1
    <3> QED BY <1>2, <2>1, <3>1 DEF Grown, Has
  <2>2. CASE ~(Len(s.log) > Len(r.log))
    <3>1. Len(s.log) = Len(r.log) BY <1>1, <1>2, <2>2
    <3>2. Has(r.log, Len(r.log), s.Term) BY <1>1, <1>3, <1>4, <2>2 DEF LeaderKnows
    <3>3. Agree(r.log, s.log, Len(r.log)) BY <1>2, AgreeSym
    <3>4. Len(r.log) <= Len(r.log) BY <1>1
    <3>5. Has(s.log, Len(r.log), s.Term) BY <1>1, <3>2, <3>3, <3>4, AgreeHas
    <3> QED BY <3>1, <3>5
  <2> QED BY <2>1, <2>2
<1>6. ASSUME NEW d \in Server PROVE s.prs[d].Match <= Len(s.log)
  <2>1. s.prs[d].Match \in Nat
    <3>1. s \in Node BY SteppedTypes
    <3>2. s.prs \in [Server -> Progress] BY <3>1 DEF Node
    <3>3. s.prs[d] \in Progress BY <3>2
    <3> QED BY <3>3 DEF Progress
  <2>2. MatchFits(d, r, s, N) BY DEF Stepped, Mindful
  <2>3. CASE r.state = "StateLeader" /\ s.prs[d].Match = r.prs[d].Match
    <3>1. r.prs[d].Match <= Len(r.log) BY <1>4, <2>3 DEF LeaderKnows
    <3> QED BY <1>1, <1>2, <2>1, <2>3, <3>1
  <2>4. ASSUME NEW v \in N, Acknowledges(v), v.term \in {0, s.Term}, v.index > 0,
               s.prs[d].Match = v.index
        PROVE  s.prs[d].Match <= Len(s.log)
    <3>1. v \in Underway(nd, nt) BY SteppedMessages
    <3>2. OfTerm(v, nd, dk, nt) BY <3>1 DEF Stepped, CommitInvariant, OrderInvariant
    <3>3. v.term > 0 BY <2>4, <3>2 DEF OfTerm
    <3>4. v.term = s.Term BY <2>4, <3>3
    <3>5. v.index <= Len(r.log) BY <2>4, <3>1, <3>4, LeaderTerm
    <3> QED BY <1>1, <1>2, <2>1, <2>4, <3>5
  <2>5. CASE s.prs[d].Match = Len(r.log) \/ s.prs[d].Match = 0 BY <1>1, <1>2, <2>5
  <2> QED BY <2>2, <2>3, <2>4, <2>5 DEF MatchFits
<1>7. ASSUME NEW m \in Underway(nw, nt), m.term = s.Term
      PROVE  /\ m.type = "MsgApp" => Slice(m, s.log)
             /\ Acknowledges(m) => m.index <= Len(s.log)
  <2>00. m \in Message BY SteppedMessages
  <2>0. m \in Message /\ m.index \in Nat BY <2>00 DEF Message
  <2>1. CASE m \in Underway(nd, nt)
    <3>1. m.type = "MsgApp" => Slice(m, r.log) BY <1>7, <2>1, LeaderTerm
    <3>2. Acknowledges(m) => m.index <= Len(r.log) BY <1>7, <2>1, LeaderTerm
    <3>3. m.type = "MsgApp" => Slice(m, s.log)
      <4> HIDE DEF r, s
      <4> QED BY <1>1, <1>2, <2>0, <3>1, SliceOn
    <3>4. Acknowledges(m) => m.index <= Len(s.log) BY <1>1, <1>2, <2>0, <3>2
    <3> QED BY <3>3, <3>4
  <2>2. CASE m \notin Underway(nd, nt)
    <3>1. Said(m, r, s, N) BY <2>2, SteppedMessages
    <3>2. m.type = "MsgApp" => Slice(m, s.log) BY <3>1 DEF Said, Fitting, Proper
    <3>3. Acknowledges(m) => m.index = 0 \/ m.index = Len(s.log)
      BY <3>1 DEF Said, Fitting, AckFits
    <3>4. Acknowledges(m) => m.index <= Len(s.log) BY <1>1, <3>3
    <3> QED BY <3>2, <3>4
  <2> QED BY <2>1, <2>2
<1> QED BY <1>5, <1>6, <1>7 DEF LeaderKnows

\* ... and after one of another server, which acknowledges what it was sent.
LEMMA OthersStillKnow ==
    ASSUME NEW nd, NEW dk, NEW nt, NEW nw, NEW i \in Server, NEW N,
           Stepped(nd, dk, nt, nw, i, N), NEW k \in Server \ {i}, nw[k].state = "StateLeader"
    PROVE  LeaderKnows(nw[k], Underway(nw, nt))
<1> DEFINE r == nd[i]
           s == nw[i]
           log == nd[k].log
<1>0. Group(nd, dk, nt) /\ Group(nw, dk, nt) /\ ClusterInvariant(nw, dk, nt) BY DEF Stepped
<1>1. nw[k] = nd[k] BY DEF Stepped
<1>2. log \in Seq(Entry) /\ Len(log) \in Nat BY <1>0, GroupLogs, LenProperties
<1>3. LeaderKnows(nd[k], Underway(nd, nt)) BY DEF Stepped, CommitInvariant, OrderInvariant
<1>4. s.state = "StateLeader" => s.Term # nd[k].Term
  <2> SUFFICES ASSUME s.state = "StateLeader", s.Term = nd[k].Term PROVE FALSE OBVIOUS
  <2>1. i = k BY <1>0, <1>1, OneLeads
  <2> QED BY <2>1
<1>5. ASSUME NEW m \in Underway(nw, nt), m \notin Underway(nd, nt), m.term = nd[k].Term
      PROVE  m.type # "MsgApp" /\ (Acknowledges(m) => m.index <= Len(log))
  <2>1. Said(m, r, s, N) BY <1>5, SteppedMessages
  <2>2. m.type # "MsgApp" BY <1>4, <1>5, <2>1 DEF Said, Fitting, Proper
  <2>3. ASSUME Acknowledges(m) PROVE m.index <= Len(log)
    <3>00. m \in Message BY SteppedMessages
    <3>0. m \in Message /\ m.index \in Nat BY <3>00 DEF Message
    <3>1. AckFits(m, r, s, N) /\ s.Term = nd[k].Term
      BY <1>5, <2>1, <2>3 DEF Said, Fitting, AckFits
    <3>2. CASE m.index = 0 BY <1>2, <3>2
    <3>3. CASE s.state = "StateLeader" BY <1>4, <3>1, <3>3
    <3>4. ASSUME NEW v \in N, v.type = "MsgApp", v.term = s.Term,
                 m.index = v.index + Len(v.entries)
          PROVE  m.index <= Len(log)
      <4>1. v \in Underway(nd, nt) BY SteppedMessages
      <4>2. Slice(v, log) BY <1>1, <1>3, <3>1, <3>4, <4>1 DEF LeaderKnows
      <4> QED BY <3>4, <4>2 DEF Slice
    <3>5. CASE m.index <= r.committed
      <4>1. r.committed \in Nat /\ r.Term \in Nat /\ s.Term \in Nat /\ r.Term <= s.Term
        BY SteppedTypes
      <4>2. CASE r.committed = 0 BY <1>2, <3>0, <3>5, <4>2
      <4>3. CASE r.committed # 0
        <5>1. Sealed(r.log, r.committed, r.Term, nd, dk, nt)
          BY DEF Stepped, CommitInvariant, SealInvariant
        <5>2. PICK a \in LiveKeys(nd, dk, nt) : a.at >= r.committed /\ a.term <= r.Term
          BY <4>3, <5>1 DEF Sealed
        <5>3. a.at \in Nat /\ a.term \in Nat BY <1>0, LiveIs
        <5>4. a.term <= nd[k].Term BY <3>1, <4>1, <5>2, <5>3
        <5>5. Has(log, a.at, a.term)
          BY <1>1, <5>4 DEF Stepped, CommitInvariant, KeyInvariant, Placed
        <5>6. a.at <= Len(log) BY <1>2, <5>5 DEF Has
        <5> QED BY <1>2, <3>0, <3>5, <4>1, <5>2, <5>3, <5>6
      <4> QED BY <4>2, <4>3
    <3> QED BY <3>1, <3>2, <3>3, <3>4, <3>5 DEF AckFits
  <2> QED BY <2>2, <2>3
<1> QED BY <1>1, <1>3, <1>5 DEF LeaderKnows
=============================================================================
