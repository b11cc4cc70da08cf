--------------------------- MODULE RaftPanicProofs ---------------------------
(***************************************************************************)
(* The library does not panic, for every group and every configuration, if *)
(* no crash comes between the entries of a Ready and its hard state where  *)
(* that does harm (EntriesFirst, TermWithEntries).                         *)
(*                                                                         *)
(* First, what each operator of RaftNode does to a server that is Fit:     *)
(* most are Calm (role, term and leader stay, the server stays Fit, and    *)
(* what it sends is Mail of its role), and a whole step is Sound (Fit, its *)
(* mail is that of its new role, and it follows whom it did or who wrote   *)
(* to it as the leader), if the message it reads is Apt.  Then, that       *)
(* messages are Apt for whom they reach when PanicInv holds, and that the  *)
(* actions of RaftCluster keep PanicInv.                                   *)
(***************************************************************************)
EXTENDS RaftPanics, RaftCommitTheorems

----------------------------------------------------------------------------
(* What a step may do *)

\* What s may send: appends and heartbeats as the leader, answers to others,
\* proposals without a term, and requests to transfer to the leader it follows.
Mail(w, s) ==
    /\ FromLeader(w) => w.from = s.id /\ s.state = "StateLeader" /\ w.term = s.Term
    /\ ToOther(w) => w.from # w.to
    /\ Polled(w)
    /\ w.type = "MsgProp" => w.term = 0
    /\ w.type = "MsgTransferLeader" =>
         s.state = "StateFollower" /\ w.to = s.lead /\ s.lead # Nil /\ w.term = s.Term

\* From r to a server s that is fit the role stays.
Calm(r, s) ==
    /\ s.id = r.id /\ s.state = r.state /\ s.Term = r.Term /\ s.lead = r.lead
    /\ Fit(s)
    /\ \A w \in Boxes(s) : w \in Boxes(r) \/ Mail(w, r)

\* Whom s follows: whom r did, or who sent one of the messages N.
LeadFits(r, s, N) ==
    s.state = "StateFollower" /\ s.lead # Nil =>
        \/ r.state = "StateFollower" /\ s.Term = r.Term /\ s.lead = r.lead
        \/ \E m \in N : FromLeader(m) /\ m.from = s.lead /\ m.term = s.Term

\* A step from r to s of a server that may read the messages N.
Sound(r, s, N) ==
    /\ Fit(s)
    /\ LeadFits(r, s, N)
    /\ \A w \in Boxes(s) : w \in Boxes(r) \/ Mail(w, s)

\* What r may be given.
Apt(r, m) ==
    /\ ToOther(m) => m.from # r.id
    /\ m.type = "MsgHeartbeat" => m.commit <= Len(r.log)
    /\ ~Clash(r, m)
    /\ r.state = "StateLeader" /\ Acknowledges(m) /\ m.term \in {0, r.Term} =>
         m.index <= Len(r.log)
    /\ m.type = "MsgProp" => m.term = 0
    /\ m.type = "MsgTransferLeader" /\ m.term # 0 /\ m.term = r.Term
       /\ r.state = "StateFollower" => r.lead = Nil
    /\ Polled(m) /\ Titled(r.log, r.Term)

----------------------------------------------------------------------------
(* Sending *)

LEMMA CalmRefl == ASSUME NEW r, Fit(r) PROVE Calm(r, r)
BY DEF Calm

LEMMA CalmTrans ==
    ASSUME NEW r, NEW s, NEW t, Calm(r, s), Calm(s, t)
    PROVE  Calm(r, t)
<1>1. \A w : Mail(w, s) => Mail(w, r) BY DEF Mail, Calm
<1> QED BY <1>1 DEF Calm

LEMMA CalmSound ==
    ASSUME NEW r, NEW s, NEW N, Calm(r, s)
    PROVE  Sound(r, s, N)
<1>1. \A w : Mail(w, r) => Mail(w, s) BY DEF Mail, Calm
<1> QED BY <1>1 DEF Calm, Sound, LeadFits

LEMMA SoundThenCalm ==
    ASSUME NEW r, NEW s, NEW t, NEW N, Sound(r, s, N), Calm(s, t)
    PROVE  Sound(r, t, N)
<1>1. \A w : Mail(w, s) => Mail(w, t) BY DEF Mail, Calm
<1>2. LeadFits(r, t, N) BY DEF LeadFits, Sound, Calm
<1> QED BY <1>1, <1>2 DEF Calm, Sound

\* From r to s nothing changes that Fit and Calm are about but the progress.
LEMMA SameCalm ==
    ASSUME NEW r, NEW s, Fit(r), s.id = r.id, s.state = r.state, s.Term = r.Term,
           s.lead = r.lead, s.msgs = r.msgs, s.after = r.after, ~s.panic,
           r.state = "StateLeader" =>
             /\ \A d \in Server : s.prs[d].Next <= Len(s.log) + 1
             /\ ~IsPaused(s.prs[r.id])
             /\ s.leadTransferee # r.id
    PROVE  Calm(r, s)
<1>1. Boxes(s) = Boxes(r) BY SameBoxes
<1>2. Fit(s) BY DEF Fit
<1> QED BY <1>1, <1>2 DEF Calm

LEMMA ProgressCalm ==
    ASSUME NEW r \in Node, Fit(r), NEW d \in Server, NEW pr, pr.Next <= Len(r.log) + 1,
           d = r.id => ~IsPaused(pr)
    PROVE  Calm(r, [r EXCEPT !.prs[d] = pr])
<1> DEFINE s == [r EXCEPT !.prs[d] = pr]
<1>1. /\ s.id = r.id /\ s.state = r.state /\ s.Term = r.Term /\ s.lead = r.lead
      /\ s.log = r.log /\ s.msgs = r.msgs /\ s.after = r.after /\ s.panic = r.panic
      /\ s.leadTransferee = r.leadTransferee
      /\ \A e \in Server : s.prs[e] = IF e = d THEN pr ELSE r.prs[e]
  BY DEF Node
<1>2. r.id \in Server BY DEF Node
<1> HIDE DEF s
<1>3. r.state = "StateLeader" =>
        /\ \A e \in Server : s.prs[e].Next <= Len(s.log) + 1
        /\ ~IsPaused(s.prs[r.id])
        /\ s.leadTransferee # r.id
  BY <1>1, <1>2 DEF Fit
<1>4. Calm(r, s) BY <1>1, <1>3, SameCalm DEF Fit
<1> QED BY <1>4 DEF s

\* The outbox that send puts a message in is that of its destination.
LEMMA SendAfter ==
    ASSUME NEW r \in Node, NEW m \in Message
    PROVE  \A d \in Server : \A w \in Range(send(r, m).after[d]) :
             w \in Range(r.after[d]) \/ w.to = d
<1> DEFINE s == send(r, m)
           q == Outgoing(r, m)
<1>1. q \in Message /\ q.to = m.to /\ m.to \in Server BY DEF Outgoing, Message, Node
<1>2. r.after \in [Server -> Seq(Message)] BY DEF Node
<1>3. \/ s.after = r.after
      \/ m.type \in AfterAppendTypes /\ s.after = [r.after EXCEPT ![m.to] = Append(@, q)]
  BY DEF send, Panic, Outgoing, Node
<1> HIDE DEF s, q
<1>4. ASSUME NEW d \in Server, NEW w \in Range(s.after[d])
      PROVE  w \in Range(r.after[d]) \/ w.to = d
  <2>1. CASE d # m.to \/ s.after = r.after BY <1>1, <1>2, <1>3, <1>4, <2>1
  <2>2. CASE d = m.to /\ s.after = [r.after EXCEPT ![m.to] = Append(@, q)]
    <3>1. w \in Range(Append(r.after[d], q)) BY <1>1, <1>2, <1>4, <2>2
    <3>2. w \in Range(r.after[d]) \/ w = q BY <1>1, <1>2, <3>1, RangeAppend
    <3> QED BY <1>1, <2>2, <3>2
  <2> QED BY <1>3, <2>1, <2>2
<1> QED BY <1>4 DEF s

\* What send lets pass: campaign messages have a term, others get theirs, and
\* only a promise is for the server itself.
Sendable(r, m) ==
    /\ m.type \in VoteTypes <=> m.term # 0
    /\ m.type \in AfterAppendTypes \/ m.to # r.id

LEMMA SendCalm ==
    ASSUME NEW r \in Node, Fit(r), NEW m \in Message, Mail(Outgoing(r, m), r), Sendable(r, m)
    PROVE  Calm(r, send(r, m))
<1> DEFINE s == send(r, m)
<1>1. /\ s.id = r.id /\ s.state = r.state /\ s.Term = r.Term /\ s.log = r.log /\ s.prs = r.prs
  BY SendKeeps
<1>2. s.lead = r.lead /\ s.panic = r.panic /\ s.leadTransferee = r.leadTransferee
  BY DEF send, Sendable, Node
<1>3. \A w \in Boxes(s) : w \in Boxes(r) \/ w = Outgoing(r, m) BY SendBoxes
<1>4. \A d \in Server : \A w \in Range(s.after[d]) : w \in Range(r.after[d]) \/ w.to = d
  BY SendAfter
<1> HIDE DEF s
<1>5. Fit(s) BY <1>1, <1>2, <1>4 DEF Fit
<1>6. Calm(r, s) BY <1>1, <1>2, <1>3, <1>5 DEF Calm
<1> QED BY <1>6 DEF s

\* What may go to anybody.
LEMMA SendPlainCalm ==
    ASSUME NEW r \in Node, Fit(r), NEW m \in Message, ~ToOther(m),
           m.type \notin {"MsgProp", "MsgTransferLeader", "MsgPreVote"}, Sendable(r, m)
    PROVE  Calm(r, send(r, m))
<1>1. Outgoing(r, m).type = m.type /\ Outgoing(r, m).reject = m.reject
  BY DEF Outgoing, Message
<1>2. Mail(Outgoing(r, m), r) BY <1>1 DEF Mail, Polled, ToOther, FromLeader
<1> QED BY <1>2, SendCalm

\* An answer to another server.
LEMMA AnswerCalm ==
    ASSUME NEW r \in Node, Fit(r), NEW m \in Message, m.from # m.to,
           m.type \in {"MsgAppResp", "MsgHeartbeatResp"}, Sendable(r, m)
    PROVE  Calm(r, send(r, m))
<1> DEFINE w == Outgoing(r, m)
<1>1. w.type = m.type /\ w.from = m.from /\ w.to = m.to BY DEF Outgoing, Message
<1> HIDE DEF w
<1>2. Mail(w, r) BY <1>1 DEF Mail, Polled, ToOther, FromLeader
<1> QED BY <1>2, SendCalm DEF w

----------------------------------------------------------------------------
(* A leader's appends and heartbeats *)

LEMMA SendAppCalm ==
    ASSUME NEW r \in Node, Fit(r), r.state = "StateLeader", NEW to \in Server, to # r.id,
           r.prs[to].Next - 1 <= Len(r.log)
    PROVE  Calm(r, sendApp(r, AppMsg(r, to, r.prs[to].Next)))
<1> DEFINE pr == r.prs[to]
           next == pr.Next
           m == AppMsg(r, to, next)
           n == Len(m.entries)
           sent == UpdateOnEntriesSend(pr, n, next)
           s == [r EXCEPT !.prs[to] = sent]
<1>1. /\ r.log \in Seq(Entry) /\ Len(r.log) \in Nat /\ pr \in Progress
      /\ next \in Nat \ {0} /\ MaxEntries \in Nat \ {0} /\ next - 1 <= Len(r.log)
  BY LenProperties, ConfigAssumption DEF Node, Progress
<1>2. m \in Message BY <1>1, AppMsgType
<1>3. /\ m.type = "MsgApp" /\ m.from = r.id /\ m.to = to /\ m.entries = Entries(r.log, next)
      /\ m.term = 0
  BY DEF AppMsg, Msg
<1>4. sendApp(r, m) = send(s, m) BY <1>3 DEF sendApp
<1>5. n \in Nat /\ next + n <= Len(r.log) + 1
  <2> DEFINE e == Least(Len(r.log), next + MaxEntries - 1)
  <2>1. e \in Nat /\ e <= Len(r.log)
    <3>1. next + MaxEntries - 1 \in Nat BY <1>1
    <3> QED BY <1>1, <3>1, LeastType
  <2>2. m.entries = SubSeq(r.log, next, e) BY <1>3 DEF Entries
  <2> HIDE DEF e, m
  <2>3. \A i \in next..e : r.log[i] \in Entry
    <3>1. \A i \in next..e : i \in 1..Len(r.log) BY <1>1, <2>1
    <3> QED BY <1>1, <3>1, ElementOfSeq
  <2>4. Len(SubSeq(r.log, next, e)) = IF next <= e THEN e - next + 1 ELSE 0
    BY <1>1, <2>1, <2>3, SubSeqProperties
  <2> HIDE DEF next
  <2> QED BY <1>1, <2>1, <2>2, <2>4
<1> HIDE DEF m, n
<1>6. sent \in Progress BY <1>1, <1>5, UpdateOnEntriesSendType
<1>7. sent.Next <= Len(r.log) + 1
  <2>1. sent.Next \in {next, next + n} BY <1>1 DEF UpdateOnEntriesSend, Progress
  <2> HIDE DEF sent, next
  <2> QED BY <1>1, <1>5, <2>1
<1> HIDE DEF sent
<1>8. s \in Node /\ Calm(r, s) BY <1>6, <1>7, ProgressOf, ProgressCalm
<1>9. s.Term = r.Term /\ s.id = r.id BY DEF Node
<1> HIDE DEF s, next, pr
<1>10. Mail(Outgoing(s, m), s)
  <2> DEFINE w == Outgoing(s, m)
  <2>1. w.type = "MsgApp" /\ w.from = r.id /\ w.to = to /\ w.term = s.Term
    BY <1>2, <1>3 DEF Outgoing, VoteTypes, Message
  <2> HIDE DEF w
  <2>2. Mail(w, s) BY <1>8, <2>1 DEF Mail, Polled, Calm, FromLeader, ToOther
  <2> QED BY <2>2 DEF w
<1>11. Calm(s, send(s, m))
  <2>1. Sendable(s, m) BY <1>3, <1>9 DEF Sendable, VoteTypes
  <2> QED BY <1>2, <1>8, <1>10, <2>1, SendCalm DEF Calm
<1>12. Calm(r, send(s, m)) BY <1>8, <1>11, CalmTrans
<1> QED BY <1>4, <1>12 DEF m, next, pr

LEMMA MaybeSendAppendCalm ==
    ASSUME NEW r \in Node, Fit(r), r.state = "StateLeader", NEW to \in Server, to # r.id,
           NEW sendIfEmpty \in BOOLEAN
    PROVE  Calm(r, maybeSendAppend(r, to, sendIfEmpty))
<1> DEFINE next == r.prs[to].Next
<1>1. next \in Nat \ {0} /\ Len(r.log) \in Nat /\ next <= Len(r.log) + 1
  BY LenProperties DEF Node, Progress, Fit
<1>2. maybeSendAppend(r, to, sendIfEmpty) =
        IF IsPaused(r.prs[to]) \/ (next > Len(r.log) /\ ~sendIfEmpty) THEN r
        ELSE IF next - 1 > Len(r.log)
        THEN IF r.prs[to].RecentActive THEN Panic(r) ELSE r
        ELSE sendApp(r, AppMsg(r, to, next))
  BY DEF maybeSendAppend
<1>3. next - 1 <= Len(r.log) /\ ~(next - 1 > Len(r.log)) BY <1>1
<1>4. Calm(r, sendApp(r, AppMsg(r, to, next))) BY <1>3, SendAppCalm
<1> HIDE DEF next
<1> QED BY <1>2, <1>3, <1>4, CalmRefl

LEMMA SendAppendCalm ==
    ASSUME NEW r \in Node, Fit(r), r.state = "StateLeader", NEW to \in Server, to # r.id
    PROVE  Calm(r, sendAppend(r, to))
BY MaybeSendAppendCalm DEF sendAppend

LEMMA JoinedCalm ==
    ASSUME NEW r \in Node, Fit(r), NEW each \in [Server -> Node],
           \A d \in Server : Calm(r, each[d]) /\ each[d].log = r.log, each[r.id] = r
    PROVE  Calm(r, joined(r, each))
<1> DEFINE s == joined(r, each)
<1>1. /\ s.id = r.id /\ s.state = r.state /\ s.Term = r.Term /\ s.lead = r.lead
      /\ s.log = r.log /\ s.after = r.after /\ s.leadTransferee = r.leadTransferee
      /\ s.panic = \E d \in Server : each[d].panic
      /\ \A d \in Server : s.msgs[d] = each[d].msgs[d] /\ s.prs[d] = each[d].prs[d]
  BY DEF joined, Node
<1>2. r.id \in Server BY DEF Node
<1> HIDE DEF s
<1>3. ASSUME NEW w \in Boxes(s) PROVE w \in Boxes(r) \/ Mail(w, r)
  <2>1. PICK d \in Server : w \in Range(s.msgs[d]) \/ w \in Range(s.after[d])
    BY <1>3 DEF Boxes
  <2>2. CASE w \in Range(s.msgs[d])
    <3>1. w \in Boxes(each[d]) BY <1>1, <2>2 DEF Boxes
    <3> QED BY <3>1 DEF Calm
  <2>3. CASE w \in Range(s.after[d]) BY <1>1, <2>3 DEF Boxes
  <2> QED BY <2>1, <2>2, <2>3
<1>4. \A d \in Server : Fit(each[d]) /\ each[d].state = r.state BY DEF Calm
<1>5. ~s.panic BY <1>1, <1>4 DEF Fit
<1>6. r.state = "StateLeader" =>
        /\ \A d \in Server : s.prs[d].Next <= Len(s.log) + 1
        /\ ~IsPaused(s.prs[s.id])
        /\ s.leadTransferee # s.id
  BY <1>1, <1>2, <1>4 DEF Fit
<1>7. r.state = "StateFollower" => s.lead # s.id BY <1>1 DEF Fit
<1>8. \A d \in Server : \A m \in Range(s.after[d]) : m.to = d BY <1>1 DEF Fit
<1>9. Fit(s) BY <1>1, <1>5, <1>6, <1>7, <1>8 DEF Fit
<1>10. Calm(r, s) BY <1>1, <1>3, <1>9 DEF Calm
<1> QED BY <1>10 DEF s

LEMMA BcastAppendCalm ==
    ASSUME NEW r \in Node, Fit(r), r.state = "StateLeader"
    PROVE  Calm(r, bcastAppend(r))
<1> DEFINE each == [d \in Server |-> IF d \in r.voters \ {r.id} THEN sendAppend(r, d) ELSE r]
<1>1. each \in [Server -> Node] BY SendAppendType
<1>2. \A d \in Server : Calm(r, each[d]) BY SendAppendCalm, CalmRefl
<1>3. \A d \in Server : each[d].log = r.log BY SendAppendSteady DEF Steady
<1>4. each[r.id] = r BY DEF Node
<1> HIDE DEF each
<1>5. Calm(r, joined(r, each)) BY <1>1, <1>2, <1>3, <1>4, JoinedCalm
<1> QED BY <1>5 DEF bcastAppend, each

LEMMA BcastHeartbeatCalm ==
    ASSUME NEW r \in Node, Fit(r), r.state = "StateLeader"
    PROVE  Calm(r, bcastHeartbeat(r))
<1> DEFINE s == bcastHeartbeat(r)
<1>1. /\ s.id = r.id /\ s.state = r.state /\ s.Term = r.Term /\ s.lead = r.lead
      /\ s.log = r.log /\ s.after = r.after /\ s.prs = r.prs /\ s.panic = r.panic
      /\ s.leadTransferee = r.leadTransferee
      /\ \A d \in Server : s.msgs[d] = IF d \in r.voters \ {r.id}
                                       THEN Append(r.msgs[d], heartbeatMsg(r, d)) ELSE r.msgs[d]
  BY DEF bcastHeartbeat, Node
<1> HIDE DEF s
<1>2. ASSUME NEW d \in Server, d # r.id
      PROVE  heartbeatMsg(r, d) \in Message /\ Mail(heartbeatMsg(r, d), r)
  <2>1. heartbeatMsg(r, d) \in Message BY HeartbeatMsgType
  <2> DEFINE m == heartbeatMsg(r, d)
  <2>2. m.type = "MsgHeartbeat" /\ m.term = r.Term /\ m.from = r.id /\ m.to = d
    BY DEF heartbeatMsg, Msg
  <2> HIDE DEF m
  <2>3. Mail(m, r) BY <1>2, <2>2 DEF Mail, Polled, FromLeader, ToOther
  <2> QED BY <2>1, <2>3 DEF m
<1>3. ASSUME NEW w \in Boxes(s) PROVE w \in Boxes(r) \/ Mail(w, r)
  <2>1. PICK d \in Server : w \in Range(s.msgs[d]) \/ w \in Range(s.after[d])
    BY <1>3 DEF Boxes
  <2>2. r.msgs[d] \in Seq(Message) BY DEF Node
  <2>3. w \in Range(r.msgs[d]) \/ w \in Range(r.after[d]) \/ (d # r.id /\ w = heartbeatMsg(r, d))
    BY <1>1, <1>2, <2>1, <2>2, RangeAppend
  <2> QED BY <1>2, <2>3 DEF Boxes
<1>4. Fit(s) BY <1>1 DEF Fit
<1> QED BY <1>1, <1>3, <1>4 DEF Calm, s

LEMMA SendTimeoutNowCalm ==
    ASSUME NEW r \in Node, Fit(r), NEW to \in Server, to # r.id
    PROVE  Calm(r, sendTimeoutNow(r, to))
<1>1. Msg("MsgTimeoutNow", r.id, to) \in Message BY MsgIsMessage DEF Node, MsgType
<1>2. Msg("MsgTimeoutNow", r.id, to).type = "MsgTimeoutNow" BY DEF Msg
<1>3. Sendable(r, Msg("MsgTimeoutNow", r.id, to)) BY DEF Sendable, Msg, VoteTypes
<1> QED BY <1>1, <1>2, <1>3, SendPlainCalm DEF sendTimeoutNow, ToOther, FromLeader

LEMMA HeardCalm ==
    ASSUME NEW r \in Node, Fit(r), r.state = "StateLeader", NEW d \in Server
    PROVE  Calm(r, [r EXCEPT !.prs[d].RecentActive = TRUE])
<1> DEFINE pr == [r.prs[d] EXCEPT !.RecentActive = TRUE]
<1>1. pr.Next = r.prs[d].Next /\ pr.MsgAppFlowPaused = r.prs[d].MsgAppFlowPaused
  <2>1. r.prs[d] \in Progress BY DEF Node
  <2> QED BY <2>1 DEF Progress
<1>2. pr.Next <= Len(r.log) + 1 /\ (d = r.id => ~IsPaused(pr)) BY <1>1 DEF Fit, IsPaused
<1> HIDE DEF pr
<1>3. Calm(r, [r EXCEPT !.prs[d] = pr]) BY <1>2, ProgressCalm
<1>4. [r EXCEPT !.prs[d] = pr] = [r EXCEPT !.prs[d].RecentActive = TRUE] BY DEF pr, Node
<1> QED BY <1>3, <1>4

\* The messages of a batch are the leader's own.
LEMMA BatchMail ==
    ASSUME NEW r \in Node, r.state = "StateLeader", NEW to \in Server, to # r.id,
           ~(r.prs[to].Next > Len(r.log)), NEW w \in Range(AppBatch(r, to))
    PROVE  Mail(w, r)
<1> DEFINE next  == r.prs[to].Next
           count == (Len(r.log) - next + MaxEntries) \div MaxEntries
           msg(j) == [AppMsg(r, to, next + (j - 1) * MaxEntries) EXCEPT !.term = r.Term]
<1>1. AppBatch(r, to) = [j \in 1..count |-> msg(j)] BY DEF AppBatch
<1>2. \A j : /\ msg(j).type = "MsgApp" /\ msg(j).from = r.id /\ msg(j).to = to
             /\ msg(j).term = r.Term
  BY DEF AppMsg, Msg
<1> HIDE DEF msg, count
<1>3. PICK j \in 1..count : w = msg(j) BY <1>1 DEF Range
<1> QED BY <1>2, <1>3 DEF Mail, Polled, FromLeader, ToOther

LEMMA SendRemainingCalm ==
    ASSUME NEW r \in Node, Fit(r), r.state = "StateLeader", NEW to \in Server, to # r.id
    PROVE  Calm(r, sendRemaining(r, to))
<1> DEFINE pr    == r.prs[to]
           batch == AppBatch(r, to)
           next  == Len(r.log) + 1
           s     == [r EXCEPT !.prs[to].Next = next, !.msgs[to] = @ \o batch]
<1>1. Calm(r, maybeSendAppend(r, to, FALSE)) BY MaybeSendAppendCalm
<1>2. ASSUME ~(pr.Next > Len(r.log)) PROVE Calm(r, s)
  <2>1. batch \in Seq(Message) /\ \A w \in Range(batch) : Mail(w, r)
    BY <1>2, AppBatchType, BatchMail
  <2>2. next \in Nat /\ next <= Len(r.log) + 1 BY LenProperties DEF Node
  <2>3. pr \in Progress /\ r.id \in Server BY DEF Node
  <2> HIDE DEF batch, next, pr
  <2>4. /\ s.id = r.id /\ s.state = r.state /\ s.Term = r.Term /\ s.lead = r.lead
        /\ s.log = r.log /\ s.after = r.after /\ s.panic = r.panic
        /\ s.leadTransferee = r.leadTransferee
        /\ s.msgs = [r.msgs EXCEPT ![to] = @ \o batch]
        /\ \A d \in Server : s.prs[d] = IF d = to THEN [r.prs[d] EXCEPT !.Next = next]
                                        ELSE r.prs[d]
    BY DEF Node
  <2>5. [r.prs[to] EXCEPT !.Next = next].Next = next BY <2>3 DEF pr, Progress
  <2> HIDE DEF s
  <2>6. r.msgs \in [Server -> Seq(Message)] BY DEF Node
  <2>7. ASSUME NEW w \in Boxes(s) PROVE w \in Boxes(r) \/ Mail(w, r)
    <3>1. PICK d \in Server : w \in Range(s.msgs[d]) \/ w \in Range(s.after[d])
      BY <2>7 DEF Boxes
    <3>2. CASE w \in Range(s.after[d]) BY <2>4, <3>2 DEF Boxes
    <3>3. CASE w \in Range(s.msgs[d]) /\ d # to BY <2>4, <2>6, <3>3 DEF Boxes
    <3>4. CASE w \in Range(s.msgs[d]) /\ d = to
      <4>1. s.msgs[d] = r.msgs[to] \o batch BY <2>4, <2>6, <3>4
      <4>2. Range(r.msgs[to] \o batch) = Range(r.msgs[to]) \cup Range(batch)
        BY <2>1, <2>6, RangeConcatenation
      <4> QED BY <2>1, <3>4, <4>1, <4>2 DEF Boxes
    <3> QED BY <3>1, <3>2, <3>3, <3>4
  <2>8. Fit(s)
    <3>0. \A d \in Server : s.prs[d].Next = IF d = to THEN next ELSE r.prs[d].Next
      BY <2>4, <2>5
    <3>1. \A d \in Server : s.prs[d].Next <= Len(s.log) + 1 BY <2>2, <2>4, <3>0 DEF Fit
    <3>2. ~IsPaused(s.prs[s.id]) BY <2>3, <2>4 DEF Fit
    <3> QED BY <2>4, <3>1, <3>2 DEF Fit
  <2> QED BY <2>4, <2>7, <2>8 DEF Calm
<1> HIDE DEF batch, next
<1>3. CASE pr.State = "StateProbe" \/ pr.Next > Len(r.log)
  BY <1>3, <1>1 DEF sendRemaining
<1>4. CASE ~(pr.State = "StateProbe" \/ pr.Next > Len(r.log)) /\ IsPaused(pr)
  BY <1>4, CalmRefl DEF sendRemaining
<1>5. CASE ~(pr.State = "StateProbe" \/ pr.Next > Len(r.log)) /\ ~IsPaused(pr)
  BY <1>5, <1>2 DEF sendRemaining, batch, next
<1> QED BY <1>3, <1>4, <1>5

----------------------------------------------------------------------------
(* What a leader does with an answer *)

\* Nobody acknowledged more than the leader has.
Within(r) == r.state = "StateLeader" => \A d \in Server : r.prs[d].Match <= Len(r.log)

LEMMA BackOffNext ==
    ASSUME NEW pr \in Progress, NEW m \in Message, NEW hint \in Nat, NEW n \in Nat,
           pr.Next <= n + 1, pr.Match <= n,
           DecrToApplies(pr, m.index)
    PROVE  backOff(pr, m, hint).Next <= n + 1
<1>1. pr.Match \in Nat /\ pr.Next \in Nat \ {0} /\ m.index \in Nat BY DEF Progress, Message
<1>2. CASE pr.State = "StateReplicate"
  <2> DEFINE q == MaybeDecrTo(pr, m.index, hint)
  <2>1. q = [pr EXCEPT !.Next = pr.Match + 1] BY <1>2 DEF MaybeDecrTo
  <2>2. q.Match = pr.Match /\ q \in Progress BY <1>1, <2>1 DEF Progress
  <2> HIDE DEF q
  <2>3. BecomeProbe(q).Next = pr.Match + 1 BY <2>2 DEF BecomeProbe, Progress
  <2>4. backOff(pr, m, hint) = BecomeProbe(q) BY <1>2 DEF backOff, q
  <2> QED BY <1>1, <2>3, <2>4
<1>3. CASE pr.State # "StateReplicate"
  <2> DEFINE least == Least(m.index, hint + 1)
             next == Greatest(least, 1)
  <2>1. backOff(pr, m, hint) = [pr EXCEPT !.Next = next, !.MsgAppFlowPaused = FALSE]
    BY <1>3 DEF backOff, MaybeDecrTo
  <2>2. least \in Nat /\ least <= m.index
    <3>1. hint + 1 \in Nat OBVIOUS
    <3> QED BY <1>1, <3>1, LeastType
  <2>3. m.index = pr.Next - 1 BY <1>3 DEF DecrToApplies
  <2> HIDE DEF least
  <2>4. next <= n + 1 BY <1>1, <2>2, <2>3 DEF Greatest
  <2> HIDE DEF next
  <2>5. backOff(pr, m, hint).Next = next BY <2>1 DEF Progress
  <2> QED BY <2>4, <2>5
<1> QED BY <1>2, <1>3

LEMMA HandleAppRejectCalm ==
    ASSUME NEW r \in Node, Fit(r), Within(r), r.state = "StateLeader", NEW m \in Message,
           m.from # r.id
    PROVE  Calm(r, handleAppReject(r, m))
<1> DEFINE heard == [r EXCEPT !.prs[m.from].RecentActive = TRUE]
           pr == heard.prs[m.from]
           hint == rejectionHint(r, m)
           back == backOff(pr, m, hint)
           backed == [heard EXCEPT !.prs[m.from] = back]
<1>1. m.from \in Server /\ m.index \in Nat /\ m.hint \in Nat /\ m.logTerm \in Nat
  BY DEF Message
<1>2. heard \in Node /\ Calm(r, heard) BY <1>1, HeardType, HeardCalm
<1>3. /\ heard.log = r.log /\ pr.Next = r.prs[m.from].Next /\ pr.Match = r.prs[m.from].Match
      /\ pr.State = r.prs[m.from].State
  <2>1. r.prs[m.from] \in Progress BY <1>1 DEF Node
  <2> QED BY <1>1, <2>1 DEF Node, Progress
<1> HIDE DEF heard
<1>4. pr \in Progress /\ Len(r.log) \in Nat BY <1>1, <1>2, LenProperties DEF Node
<1>5. hint \in Nat BY <1>1, FindConflictByTermType DEF rejectionHint, Node
<1> HIDE DEF hint
<1>6. pr.Next <= Len(r.log) + 1 /\ pr.Match <= Len(r.log) BY <1>1, <1>3 DEF Fit, Within
<1>7. DecrToApplies(r.prs[m.from], m.index) = DecrToApplies(pr, m.index)
  BY <1>3 DEF DecrToApplies
<1>8. back \in Progress
  <2> HIDE DEF pr
  <2> QED BY <1>1, <1>4, <1>5, MaybeDecrToType, BecomeProbeType DEF backOff
<1>9. DecrToApplies(pr, m.index) => back.Next <= Len(r.log) + 1
  <2> HIDE DEF pr
  <2> QED BY <1>4, <1>5, <1>6, BackOffNext
<1> HIDE DEF back, pr
<1>10. heard.id = r.id /\ heard.state = r.state /\ Fit(heard) BY <1>2 DEF Calm
<1>11. ASSUME DecrToApplies(pr, m.index)
       PROVE  Calm(r, sendAppend(backed, m.from))
  <2>1. backed \in Node BY <1>1, <1>2, <1>8, ProgressOf
  <2>2. Calm(heard, backed) BY <1>1, <1>2, <1>3, <1>9, <1>10, <1>11, ProgressCalm
  <2> HIDE DEF backed
  <2>3. backed.id = r.id /\ backed.state = r.state /\ Fit(backed) BY <1>10, <2>2 DEF Calm
  <2>4. Calm(backed, sendAppend(backed, m.from)) BY <1>1, <2>1, <2>3, SendAppendCalm
  <2> QED BY <1>2, <2>2, <2>4, CalmTrans
<1>12. handleAppReject(r, m) =
         IF ~DecrToApplies(r.prs[m.from], m.index) THEN heard ELSE sendAppend(backed, m.from)
  BY DEF handleAppReject, heard, backed, back, pr, hint
<1> QED BY <1>2, <1>7, <1>11, <1>12

LEMMA HandleHeartbeatRespCalm ==
    ASSUME NEW r \in Node, Fit(r), r.state = "StateLeader", NEW m \in Message, m.from # r.id
    PROVE  Calm(r, handleHeartbeatResp(r, m))
<1> DEFINE pr == [r.prs[m.from] EXCEPT !.RecentActive = TRUE, !.MsgAppFlowPaused = FALSE]
           s == [r EXCEPT !.prs[m.from] = pr]
<1>1. m.from \in Server BY DEF Message
<1>2. pr \in Progress /\ pr.Next = r.prs[m.from].Next
  <2>1. r.prs[m.from] \in Progress BY <1>1 DEF Node
  <2> QED BY <2>1 DEF Progress
<1>3. pr.Next <= Len(r.log) + 1 BY <1>1, <1>2 DEF Fit
<1> HIDE DEF pr
<1>4. s \in Node /\ Calm(r, s) BY <1>1, <1>2, <1>3, ProgressOf, ProgressCalm
<1> HIDE DEF s
<1>5. s.id = r.id /\ s.state = r.state /\ Fit(s) BY <1>4 DEF Calm
<1>6. Calm(s, sendAppend(s, m.from)) BY <1>1, <1>4, <1>5, SendAppendCalm
<1>7. Calm(r, sendAppend(s, m.from)) BY <1>4, <1>6, CalmTrans
<1>8. s = [r EXCEPT !.prs[m.from].RecentActive = TRUE, !.prs[m.from].MsgAppFlowPaused = FALSE]
  BY <1>1 DEF s, pr, Node
<1>9. handleHeartbeatResp(r, m) \in {s, sendAppend(s, m.from)} BY <1>8 DEF handleHeartbeatResp
<1> QED BY <1>4, <1>7, <1>9

LEMMA HandleUnreachableCalm ==
    ASSUME NEW r \in Node, Fit(r), Within(r), r.state = "StateLeader", NEW from \in Server
    PROVE  Calm(r, handleUnreachable(r, from))
<1> DEFINE pr == BecomeProbe(r.prs[from])
<1>1. r.prs[from] \in Progress /\ Len(r.log) \in Nat BY LenProperties DEF Node
<1>2. pr.Next = r.prs[from].Match + 1 /\ ~pr.MsgAppFlowPaused
  BY <1>1 DEF BecomeProbe, Progress
<1>3. r.prs[from].Match \in Nat /\ r.prs[from].Match <= Len(r.log)
  BY <1>1 DEF Within, Progress
<1> HIDE DEF pr
<1>4. pr.Next <= Len(r.log) + 1 BY <1>1, <1>2, <1>3
<1>5. ~IsPaused(pr) BY <1>2 DEF IsPaused
<1>6. Calm(r, [r EXCEPT !.prs[from] = pr]) BY <1>4, <1>5, ProgressCalm
<1>7. handleUnreachable(r, from) \in {r, [r EXCEPT !.prs[from] = pr]}
  BY DEF handleUnreachable, pr
<1> QED BY <1>6, <1>7, CalmRefl

LEMMA HandleTransferLeaderCalm ==
    ASSUME NEW r \in Node, Fit(r), r.state = "StateLeader", NEW m \in Message
    PROVE  Calm(r, handleTransferLeader(r, m))
<1> DEFINE s == [r EXCEPT !.leadTransferee = m.from, !.expired = FALSE]
           t == [r EXCEPT !.leadTransferee = Nil]
<1>1. m.from \in Server BY DEF Message
<1>2. s \in Node BY <1>1 DEF Node
<1>3. (m.from # r.id => Calm(r, s)) /\ Calm(r, t)
  <2>1. \A x \in {s, t} :
           /\ x.id = r.id /\ x.state = r.state /\ x.Term = r.Term /\ x.lead = r.lead
           /\ x.log = r.log /\ x.msgs = r.msgs /\ x.after = r.after
           /\ x.prs = r.prs /\ x.panic = r.panic
    BY ZenonT(60) DEF Node
  <2>2. s.leadTransferee = m.from /\ t.leadTransferee = Nil BY DEF Node
  <2>3. r.id \in Server /\ Nil # r.id BY ServerAssumption DEF Node
  <2> HIDE DEF s, t
  <2>4. \A x \in {s, t} : x.leadTransferee # r.id => Calm(r, x) BY <2>1, SameCalm DEF Fit
  <2> QED BY <2>2, <2>3, <2>4
<1> HIDE DEF s, t
<1>4. m.from # r.id => s.state = "StateLeader" /\ s.id = r.id /\ Fit(s) BY <1>3 DEF Calm
<1>5. m.from # r.id => Calm(s, sendTimeoutNow(s, m.from))
  BY <1>1, <1>2, <1>4, SendTimeoutNowCalm
<1>6. m.from # r.id => Calm(s, sendAppend(s, m.from)) BY <1>1, <1>2, <1>4, SendAppendCalm
<1>7. m.from # r.id =>
        Calm(r, sendTimeoutNow(s, m.from)) /\ Calm(r, sendAppend(s, m.from))
  BY <1>3, <1>5, <1>6, CalmTrans
<1>8. \/ handleTransferLeader(r, m) \in {r, t}
      \/ /\ m.from # r.id
         /\ handleTransferLeader(r, m) \in {sendTimeoutNow(s, m.from), sendAppend(s, m.from)}
  BY DEF handleTransferLeader, s, t
<1> QED BY <1>3, <1>7, <1>8, CalmRefl

\* maybeCommit never passes the end of the log: there it finds no term.
LEMMA MaybeCommitCalm ==
    ASSUME NEW r \in Node, Fit(r), r.Term > 0
    PROVE  Calm(r, maybeCommit(r)) /\ maybeCommit(r).prs = r.prs
<1> DEFINE mci == Committed(r)
           moved == [r EXCEPT !.committed = mci]
<1>1. mci \in Nat /\ Len(r.log) \in Nat BY CommittedType, LenProperties DEF Node
<1> HIDE DEF mci
<1>2. TermAt(r.log, mci) = r.Term => mci <= Len(r.log) BY <1>1 DEF TermAt
<1>3. /\ moved.id = r.id /\ moved.state = r.state /\ moved.Term = r.Term /\ moved.lead = r.lead
      /\ moved.log = r.log /\ moved.msgs = r.msgs /\ moved.after = r.after
      /\ moved.prs = r.prs /\ moved.panic = r.panic
      /\ moved.leadTransferee = r.leadTransferee
  BY DEF Node
<1>4. maybeCommit(r) \in {r, moved}
  <2>1. maybeCommit(r) = IF mci > r.committed /\ TermAt(r.log, mci) = r.Term
                         THEN commitTo(r, mci) ELSE r
    BY DEF maybeCommit, mci
  <2>2. ~(Len(r.log) < mci) => commitTo(r, mci) \in {r, moved} BY DEF commitTo
  <2>3. TermAt(r.log, mci) = r.Term => ~(Len(r.log) < mci) BY <1>1, <1>2
  <2> HIDE DEF moved
  <2> QED BY <2>1, <2>2, <2>3
<1> HIDE DEF moved
<1>5. Calm(r, moved) BY <1>3, SameCalm DEF Fit
<1> QED BY <1>3, <1>4, <1>5, CalmRefl

LEMMA UpdateNext ==
    ASSUME NEW pr \in Progress, NEW n \in Nat
    PROVE  LET q == MaybeUpdate(pr, n)
           IN  /\ q \in Progress /\ q.Next = Greatest(pr.Next, n + 1)
               /\ q.Match = Greatest(pr.Match, n)
               /\ IsPaused(q) => IsPaused(pr)
<1> DEFINE q == MaybeUpdate(pr, n)
<1>1. q \in Progress BY MaybeUpdateType
<1>2. /\ q.Next = Greatest(pr.Next, n + 1) /\ q.Match = Greatest(pr.Match, n)
      /\ q.MsgAppFlowPaused = (pr.MsgAppFlowPaused /\ pr.Match >= n)
  BY DEF MaybeUpdate, Progress
<1> HIDE DEF q
<1>3. IsPaused(q) => IsPaused(pr) BY <1>2 DEF IsPaused
<1> QED BY <1>1, <1>2, <1>3 DEF q

\* An acknowledgement of what the leader has leaves Next within its log.
LEMMA AcknowledgedNext ==
    ASSUME NEW pr \in Progress, NEW n \in Nat, NEW len \in Nat, n <= len,
           pr.Next <= len + 1, pr.Match <= len
    PROVE  \A q \in {MaybeUpdate(pr, n), acknowledged(pr, n)} :
             q \in Progress /\ q.Next <= len + 1 /\ (IsPaused(q) => IsPaused(pr))
<1> DEFINE q == MaybeUpdate(pr, n)
           p == BecomeReplicate(q)
<1>1. pr.Next \in Nat /\ pr.Match \in Nat BY DEF Progress
<1>2. /\ q \in Progress /\ q.Next = Greatest(pr.Next, n + 1) /\ q.Match = Greatest(pr.Match, n)
      /\ IsPaused(q) => IsPaused(pr)
  BY UpdateNext
<1> HIDE DEF q
<1>3. q.Next <= len + 1 /\ q.Match <= len /\ q.Match \in Nat BY <1>1, <1>2 DEF Greatest
<1>4. p \in Progress /\ p.Next = q.Match + 1 /\ ~p.MsgAppFlowPaused
  BY <1>2, BecomeReplicateType DEF BecomeReplicate, Progress
<1>5. acknowledged(pr, n) \in {p, q} BY DEF acknowledged, q
<1> HIDE DEF p
<1>6. p.Next <= len + 1 /\ ~IsPaused(p) BY <1>3, <1>4 DEF IsPaused
<1> QED BY <1>2, <1>3, <1>4, <1>5, <1>6 DEF q

LEMMA HandleAppAcceptCalm ==
    ASSUME NEW r \in Node, Fit(r), Within(r), r.state = "StateLeader", r.Term > 0,
           NEW m \in Message, m.index <= Len(r.log)
    PROVE  Calm(r, handleAppAccept(r, m))
<1> DEFINE from == m.from
           heard == [r EXCEPT !.prs[from].RecentActive = TRUE]
           pr == heard.prs[from]
           upd == MaybeUpdate(pr, m.index)
           ack == acknowledged(pr, m.index)
           stale == [heard EXCEPT !.prs[from] = upd]
           acked == [heard EXCEPT !.prs[from] = ack]
           moved == maybeCommit(acked)
           paused == IsPaused(r.prs[from])
           told == announce(moved, r.committed, from, paused)
           full == refill(told, from)
           sent == finishTransfer(full, from)
<1>1. from \in Server /\ m.index \in Nat /\ Len(r.log) \in Nat BY LenProperties DEF Message, Node
<1>2. heard \in Node /\ Calm(r, heard) BY <1>1, HeardType, HeardCalm
<1>3. /\ heard.log = r.log /\ pr.Next = r.prs[from].Next /\ pr.Match = r.prs[from].Match
      /\ pr.MsgAppFlowPaused = r.prs[from].MsgAppFlowPaused
  <2>1. r.prs[from] \in Progress BY <1>1 DEF Node
  <2> QED BY <1>1, <2>1 DEF Node, Progress
<1> HIDE DEF heard
<1>4. pr \in Progress BY <1>1, <1>2 DEF Node
<1>5. pr.Next <= Len(r.log) + 1 /\ pr.Match <= Len(r.log) BY <1>1, <1>3 DEF Fit, Within
<1>6. heard.id = r.id /\ heard.state = r.state /\ heard.Term = r.Term /\ Fit(heard)
  BY <1>2 DEF Calm
<1>7. from = r.id => ~paused BY DEF Fit
<1>8. IsPaused(pr) = paused BY <1>3 DEF IsPaused
<1> HIDE DEF pr, paused
<1>9. \A q \in {upd, ack} : q \in Progress /\ q.Next <= Len(r.log) + 1 /\ (IsPaused(q) => paused)
  BY <1>1, <1>4, <1>5, <1>8, AcknowledgedNext
<1> HIDE DEF upd, ack
<1>10. stale \in Node /\ Calm(heard, stale)
  BY <1>1, <1>2, <1>3, <1>6, <1>7, <1>9, ProgressOf, ProgressCalm
<1>11. acked \in Node /\ Calm(heard, acked)
  BY <1>1, <1>2, <1>3, <1>6, <1>7, <1>9, ProgressOf, ProgressCalm
<1> HIDE DEF stale, acked
<1>12. acked.id = r.id /\ acked.state = r.state /\ acked.Term = r.Term /\ Fit(acked)
  BY <1>6, <1>11 DEF Calm
<1>13. moved \in Node /\ Calm(acked, moved)
  BY <1>11, <1>12, MaybeCommitType, MaybeCommitCalm
<1> HIDE DEF moved
<1>14. moved.id = r.id /\ moved.state = "StateLeader" /\ Fit(moved) BY <1>12, <1>13 DEF Calm
<1>15. told \in Node /\ Calm(moved, told)
  <2>1. bcastAppend(moved) \in Node /\ Calm(moved, bcastAppend(moved))
    BY <1>13, <1>14, BcastAppendType, BcastAppendCalm
  <2>2. paused => sendAppend(moved, from) \in Node /\ Calm(moved, sendAppend(moved, from))
    BY <1>1, <1>7, <1>13, <1>14, SendAppendType, SendAppendCalm
  <2> QED BY <1>13, <1>14, <2>1, <2>2, CalmRefl DEF announce
<1> HIDE DEF told
<1>16. told.id = r.id /\ told.state = "StateLeader" /\ Fit(told) BY <1>14, <1>15 DEF Calm
<1>17. full \in Node /\ Calm(told, full)
  BY <1>1, <1>15, <1>16, SendRemainingType, SendRemainingCalm, CalmRefl DEF refill
<1> HIDE DEF full
<1>18. full.state = "StateLeader" /\ Fit(full) BY <1>16, <1>17 DEF Calm
<1>19. Calm(full, sent)
  <2>1. full.leadTransferee # full.id BY <1>18 DEF Fit
  <2> QED BY <1>1, <1>17, <1>18, <2>1, SendTimeoutNowCalm, CalmRefl DEF finishTransfer
<1> HIDE DEF sent
<1>20. Calm(r, stale) BY <1>2, <1>10, CalmTrans
<1>21. Calm(r, sent)
  <2>1. Calm(r, moved) BY <1>2, <1>11, <1>13, CalmTrans
  <2>2. Calm(moved, sent) BY <1>15, <1>17, <1>19, CalmTrans
  <2> QED BY <2>1, <2>2, CalmTrans
<1>22. handleAppAccept(r, m) \in {stale, sent}
  BY DEF handleAppAccept, sent, full, told, paused, moved, acked, stale, ack, upd, pr, heard
<1> QED BY <1>20, <1>21, <1>22

\* A leader's log grows, so Next stays within it.
LEMMA AppendEntryCalm ==
    ASSUME NEW r \in Node, Fit(r), r.state = "StateLeader", NEW vals \in Seq(Value \cup {Nil})
    PROVE  Calm(r, appendEntry(r, vals))
<1> DEFINE ents == [k \in 1..Len(vals) |-> [term |-> r.Term, val |-> vals[k]]]
           log == r.log \o ents
           index == Len(r.log) + Len(vals)
           own == Msg("MsgAppResp", r.id, r.id)
           s == [r EXCEPT !.log = log]
           m == [own EXCEPT !.index = index]
<1>1. r.log \in Seq(Entry) /\ Len(r.log) \in Nat /\ Len(vals) \in Nat /\ r.Term \in Nat
  BY LenProperties DEF Node
<1>2. \A k \in 1..Len(vals) : [term |-> r.Term, val |-> vals[k]] \in Entry
  BY <1>1, ElementOfSeq DEF Entry
<1>3. ents \in Seq(Entry) /\ Len(ents) = Len(vals) BY <1>1, <1>2, MakeSeq
<1> HIDE DEF ents
<1>4. log \in Seq(Entry) /\ Len(log) = index
  <2>1. log \in Seq(Entry) /\ Len(log) = Len(r.log) + Len(ents) BY <1>1, <1>3, ConcatProperties
  <2> QED BY <1>3, <2>1
<1>5. index \in Nat /\ index >= Len(r.log) BY <1>1
<1>6. own \in Message /\ own.type = "MsgAppResp" /\ ~own.reject /\ own.term = 0
  BY MsgIsMessage DEF Node, MsgType, Msg
<1> HIDE DEF log, index, own
<1>7. /\ s \in Node /\ s.log = log /\ s.Term = r.Term /\ s.state = r.state /\ s.id = r.id
      /\ s.lead = r.lead /\ s.msgs = r.msgs /\ s.after = r.after /\ s.prs = r.prs
      /\ s.panic = r.panic /\ s.leadTransferee = r.leadTransferee
  BY <1>4 DEF Node
<1>8. m \in Message /\ m.type = "MsgAppResp" /\ ~m.reject /\ m.term = 0
  BY <1>5, <1>6 DEF Message
<1> HIDE DEF s, m
<1>9. Calm(r, s)
  <2>1. \A d \in Server : s.prs[d].Next <= Len(s.log) + 1
    <3>1. \A d \in Server : r.prs[d].Next \in Nat BY DEF Node, Progress
    <3>2. \A d \in Server : r.prs[d].Next <= Len(r.log) + 1 BY DEF Fit
    <3> QED BY <1>1, <1>4, <1>5, <1>7, <3>1, <3>2
  <2> QED BY <1>7, <2>1, SameCalm DEF Fit
<1>10. Fit(s) BY <1>9 DEF Calm
<1>11. ~ToOther(m) BY <1>8 DEF ToOther, FromLeader
<1>12. Calm(s, send(s, m))
  <2>1. Sendable(s, m) BY <1>8 DEF Sendable, VoteTypes, AfterAppendTypes
  <2> QED BY <1>7, <1>8, <1>10, <1>11, <2>1, SendPlainCalm
<1>13. appendEntry(r, vals) = send(s, m) BY DEF appendEntry, s, m, ents, log, index, own
<1> QED BY <1>9, <1>12, <1>13, CalmTrans

LEMMA HandlePropCalm ==
    ASSUME NEW r \in Node, Fit(r), r.state = "StateLeader", NEW m \in Message
    PROVE  Calm(r, handleProp(r, m))
<1> DEFINE vals == [k \in 1..Len(m.entries) |-> m.entries[k].val]
           s == appendEntry(r, vals)
<1>1. m.entries \in Seq(Entry) /\ Len(m.entries) \in Nat BY LenProperties DEF Message
<1>2. ASSUME NEW k \in 1..Len(m.entries) PROVE m.entries[k].val \in Value \cup {Nil}
  <2>1. m.entries[k] \in Entry BY <1>1, ElementOfSeq
  <2> QED BY <2>1 DEF Entry
<1>3. vals \in Seq(Value \cup {Nil}) BY <1>1, <1>2, MakeSeq
<1> HIDE DEF vals
<1>4. s \in Node /\ Calm(r, s) BY <1>3, AppendEntryType, AppendEntryCalm
<1> HIDE DEF s
<1>5. s.state = "StateLeader" /\ Fit(s) BY <1>4 DEF Calm
<1>6. Calm(r, bcastAppend(s)) BY <1>4, <1>5, BcastAppendCalm, CalmTrans
<1> QED BY <1>6, CalmRefl DEF handleProp, s, vals

----------------------------------------------------------------------------
(* Roles *)

\* What anybody may send to anybody.
Common(w) == ~ToOther(w) /\ Polled(w) /\ w.type \notin {"MsgProp", "MsgTransferLeader"}

LEMMA CommonMail == ASSUME NEW w, Common(w), NEW s PROVE Mail(w, s)
BY DEF Common, Mail, ToOther

LEMMA SoundRefl == ASSUME NEW r, NEW N, Fit(r) PROVE Sound(r, r, N)
BY CalmRefl, CalmSound

\* From r to s nothing was sent.
LEMMA SilentThenSound ==
    ASSUME NEW r, NEW s, NEW t, NEW N, Boxes(s) = Boxes(r), LeadFits(r, s, N), Sound(s, t, N)
    PROVE  Sound(r, t, N)
<1>1. LeadFits(r, t, N) BY DEF LeadFits, Sound
<1> QED BY <1>1 DEF Sound

LEMMA BecomeFollowerFit ==
    ASSUME NEW r \in Node, Fit(r), NEW term \in Nat, NEW lead \in Server \cup {Nil}, lead # r.id
    PROVE  LET s == becomeFollower(r, term, lead)
           IN  /\ s \in Node /\ Fit(s) /\ Boxes(s) = Boxes(r)
               /\ s.id = r.id /\ s.state = "StateFollower" /\ s.Term = term /\ s.lead = lead
               /\ s.log = r.log /\ s.committed = r.committed
<1> DEFINE t == reset(r, term)
           s == becomeFollower(r, term, lead)
<1>1. t \in Node /\ s \in Node BY ResetType, BecomeFollowerType
<1>2. /\ t.id = r.id /\ t.Term = term /\ t.log = r.log
      /\ t.committed = r.committed /\ t.msgs = r.msgs /\ t.after = r.after
  BY ResetKeeps
<1>3. t.panic = r.panic BY DEF reset, Node
<1>4. s = [t EXCEPT !.lead = lead, !.state = "StateFollower"] BY DEF becomeFollower
<1> HIDE DEF t
<1>5. /\ s.id = t.id /\ s.Term = t.Term /\ s.log = t.log /\ s.lead = lead
      /\ s.committed = t.committed /\ s.msgs = t.msgs /\ s.after = t.after
      /\ s.state = "StateFollower" /\ s.panic = t.panic
  BY <1>1, <1>4 DEF Node
<1> HIDE DEF s
<1>6. Boxes(s) = Boxes(r) BY <1>2, <1>5, SameBoxes
<1>7. Fit(s) BY <1>2, <1>3, <1>5 DEF Fit
<1> QED BY <1>1, <1>2, <1>5, <1>6, <1>7 DEF s

\* A candidate's requests go to anybody, its own vote to itself.
LEMMA RequestVotesFit ==
    ASSUME NEW r \in Node, Fit(r), r.state \in {"StateCandidate", "StatePreCandidate"},
           NEW term \in Nat, NEW transfer \in BOOLEAN, NEW voteType \in {"MsgVote", "MsgPreVote"},
           voteType = "MsgPreVote" => PreVote /\ term > 0
    PROVE  LET s == requestVotes(r, voteType, voteRespMsgType(voteType), term, transfer)
           IN  /\ Fit(s) /\ s.state = r.state
               /\ \A w \in Boxes(s) : w \in Boxes(r) \/ Common(w)
<1> DEFINE respType == voteRespMsgType(voteType)
           s == requestVotes(r, voteType, respType, term, transfer)
           own == [Msg(respType, r.id, r.id) EXCEPT !.term = term]
           ask(d) == VoteMsg(r, voteType, d, term, transfer)
<1>1. /\ s.id = r.id /\ s.state = r.state /\ s.log = r.log /\ s.panic = r.panic
      /\ s.after = [r.after EXCEPT ![r.id] = Append(@, own)]
      /\ \A d \in Server : s.msgs[d] = IF d \in r.voters \ {r.id}
                                       THEN Append(r.msgs[d], ask(d)) ELSE r.msgs[d]
  BY DEF requestVotes, Node
<1>2. /\ respType \in MsgType /\ voteType \in MsgType
      /\ respType \in {"MsgVoteResp", "MsgPreVoteResp"}
  BY DEF voteRespMsgType, MsgType
<1>3. /\ r.id \in Server /\ r.msgs \in [Server -> Seq(Message)]
      /\ r.after \in [Server -> Seq(Message)]
  BY DEF Node
<1>4. own \in Message /\ own.to = r.id /\ own.type = respType
  <2>1. Msg(respType, r.id, r.id) \in Message BY <1>2, <1>3, MsgIsMessage
  <2> QED BY <2>1 DEF Message, Msg
<1>5. ASSUME NEW d \in Server PROVE ask(d) \in Message /\ ask(d).type = voteType /\ ask(d).term = term
  <2>1. ask(d) \in Message BY <1>2, VoteMsgType
  <2>2. ask(d).type = voteType /\ ask(d).term = term BY DEF VoteMsg, Msg
  <2> QED BY <2>1, <2>2
<1> HIDE DEF s, own, ask, respType
<1>6. Common(own) BY <1>2, <1>4 DEF Common, Polled, ToOther, FromLeader
<1>7. \A d \in Server : Common(ask(d)) BY <1>5 DEF Common, Polled, ToOther, FromLeader
<1>8. ASSUME NEW w \in Boxes(s) PROVE w \in Boxes(r) \/ Common(w)
  <2>1. PICK d \in Server : w \in Range(s.msgs[d]) \/ w \in Range(s.after[d])
    BY <1>8 DEF Boxes
  <2>2. CASE w \in Range(s.msgs[d])
    <3>1. w \in Range(r.msgs[d]) \/ w = ask(d) BY <1>1, <1>3, <1>5, <2>2, RangeAppend
    <3> QED BY <1>7, <3>1 DEF Boxes
  <2>3. CASE w \in Range(s.after[d])
    <3>1. w \in Range(r.after[d]) \/ w = own BY <1>1, <1>3, <1>4, <2>3, RangeAppend
    <3> QED BY <1>6, <3>1 DEF Boxes
  <2> QED BY <2>1, <2>2, <2>3
<1>9. ASSUME NEW d \in Server, NEW w \in Range(s.after[d]) PROVE w.to = d
  <2>1. w \in Range(r.after[d]) \/ (d = r.id /\ w = own)
    <3>1. CASE d = r.id BY <1>1, <1>3, <1>4, <1>9, <3>1, RangeAppend
    <3>2. CASE d # r.id BY <1>1, <1>3, <1>9, <3>2
    <3> QED BY <3>1, <3>2
  <2> QED BY <1>4, <2>1 DEF Fit
<1>10. Fit(s) BY <1>1, <1>9 DEF Fit
<1> QED BY <1>1, <1>8, <1>10 DEF s, respType

LEMMA CampaignElectionSound ==
    ASSUME NEW r \in Node, Fit(r), r.state # "StateLeader", NEW transfer \in BOOLEAN, NEW N
    PROVE  Sound(r, campaignElection(r, transfer), N)
<1> DEFINE next == r.Term + 1
           reborn == reset(r, next)
           s == becomeCandidate(r)
           t == requestVotes(s, "MsgVote", "MsgVoteResp", s.Term, transfer)
<1>1. next \in Nat BY DEF Node
<1> HIDE DEF next
<1>2. reborn \in Node /\ reborn.msgs = r.msgs /\ reborn.after = r.after
  BY <1>1, ResetType, ResetKeeps
<1>3. reborn.panic = r.panic BY DEF reset, Node
<1>4. s = [reborn EXCEPT !.Vote = r.id, !.state = "StateCandidate"] BY DEF becomeCandidate, next
<1> HIDE DEF reborn
<1>5. /\ s.msgs = r.msgs /\ s.after = r.after /\ s.panic = r.panic
      /\ s.state = "StateCandidate"
  BY <1>2, <1>3, <1>4 DEF Node
<1>6. s \in Node BY BecomeCandidateType
<1> HIDE DEF s
<1>7. Boxes(s) = Boxes(r) /\ Fit(s) BY <1>5, SameBoxes DEF Fit
<1>8. s.Term \in Nat BY <1>6 DEF Node
<1>9. Fit(t) /\ t.state = s.state /\ \A w \in Boxes(t) : w \in Boxes(s) \/ Common(w)
  BY <1>5, <1>6, <1>7, <1>8, RequestVotesFit DEF voteRespMsgType
<1>10. campaignElection(r, transfer) = t BY DEF campaignElection, s
<1> HIDE DEF t
<1>11. Sound(r, t, N) BY <1>5, <1>7, <1>9, CommonMail DEF Sound, LeadFits
<1> QED BY <1>10, <1>11

LEMMA CampaignPreElectionSound ==
    ASSUME NEW r \in Node, Fit(r), r.state # "StateLeader", PreVote, NEW N
    PROVE  Sound(r, campaignPreElection(r), N)
<1> DEFINE s == becomePreCandidate(r)
           next == s.Term + 1
           t == requestVotes(s, "MsgPreVote", "MsgPreVoteResp", next, FALSE)
<1>1. s \in Node BY BecomePreCandidateType
<1>2. s.msgs = r.msgs /\ s.after = r.after /\ s.state = "StatePreCandidate" /\ s.panic = r.panic
  BY DEF becomePreCandidate, Node
<1> HIDE DEF s
<1>3. Boxes(s) = Boxes(r) /\ Fit(s) BY <1>2, SameBoxes DEF Fit
<1>4. next \in Nat /\ next > 0
  <2>1. s.Term \in Nat BY <1>1 DEF Node
  <2> QED BY <2>1
<1> HIDE DEF next
<1>5. Fit(t) /\ t.state = s.state /\ \A w \in Boxes(t) : w \in Boxes(s) \/ Common(w)
  BY <1>1, <1>2, <1>3, <1>4, RequestVotesFit DEF voteRespMsgType
<1>6. campaignPreElection(r) = t BY DEF campaignPreElection, s, next
<1> HIDE DEF t
<1>7. Sound(r, t, N) BY <1>2, <1>3, <1>5, CommonMail DEF Sound, LeadFits
<1> QED BY <1>6, <1>7

LEMMA HupSound ==
    ASSUME NEW r \in Node, Fit(r), NEW transfer \in BOOLEAN, NEW N
    PROVE  Sound(r, hup(r, transfer), N)
BY SoundRefl, CampaignElectionSound, CampaignPreElectionSound DEF hup

\* A new leader probes everybody from the end of its log.
LEMMA BecomeLeaderSound ==
    ASSUME NEW r \in Node, Fit(r), r.state = "StateCandidate", NEW N
    PROVE  Sound(r, becomeLeader(r), N) /\ becomeLeader(r).state = "StateLeader"
<1> DEFINE t == reset(r, r.Term)
           p == t.prs[r.id]
           pr == [BecomeReplicate(p) EXCEPT !.RecentActive = TRUE]
           led == [t EXCEPT !.lead = r.id, !.state = "StateLeader", !.prs[r.id] = pr]
           s == becomeLeader(r)
<1>1. r.Term \in Nat /\ r.id \in Server BY DEF Node
<1>2. t \in Node BY <1>1, ResetType
<1>3. /\ t.id = r.id /\ t.Term = r.Term /\ t.log = r.log
      /\ t.msgs = r.msgs /\ t.after = r.after
      /\ \A d \in Server : t.prs[d].Match = IF d = r.id THEN Len(r.log) ELSE 0
  BY <1>1, ResetKeeps
<1>4. t.panic = r.panic /\ t.leadTransferee = Nil /\ \A d \in Server : t.prs[d].Next = Len(r.log) + 1
  <2>1. /\ t.panic = r.panic /\ t.leadTransferee = Nil
        /\ t.prs = [d \in Server |-> resetProgress(r, d)]
    BY DEF reset, Node
  <2>2. \A d \in Server : resetProgress(r, d).Next = Len(r.log) + 1
    BY DEF resetProgress, newProgress
  <2> HIDE DEF t
  <2> QED BY <2>1, <2>2
<1> HIDE DEF t
<1>5. p \in Progress BY <1>1, <1>2 DEF Node
<1>6. p.Match = Len(r.log) BY <1>1, <1>3
<1> HIDE DEF p
<1>7. pr \in Progress /\ pr.Next = Len(r.log) + 1 /\ ~pr.MsgAppFlowPaused
  <2> DEFINE q == BecomeReplicate(p)
  <2>1. q \in Progress /\ q.Next = p.Match + 1 /\ ~q.MsgAppFlowPaused
    BY <1>5, BecomeReplicateType DEF BecomeReplicate, Progress
  <2> HIDE DEF q
  <2>2. /\ [q EXCEPT !.RecentActive = TRUE] \in Progress
        /\ [q EXCEPT !.RecentActive = TRUE].Next = q.Next
        /\ [q EXCEPT !.RecentActive = TRUE].MsgAppFlowPaused = q.MsgAppFlowPaused
    BY <2>1 DEF Progress
  <2> QED BY <1>6, <2>1, <2>2 DEF q
<1> HIDE DEF pr
<1>8. led \in Node
  <2> DEFINE prs == [t.prs EXCEPT ![r.id] = pr]
  <2>1. prs \in [Server -> Progress] BY <1>1, <1>2, <1>7 DEF Node
  <2>2. led = [t EXCEPT !.lead = r.id, !.state = "StateLeader", !.prs = prs] BY DEF prs
  <2> HIDE DEF prs
  <2> QED BY <1>1, <1>2, <2>1, <2>2 DEF Node, StateType
<1>9. /\ led.id = t.id /\ led.log = t.log
      /\ led.msgs = t.msgs /\ led.after = t.after /\ led.state = "StateLeader"
      /\ led.panic = t.panic /\ led.leadTransferee = t.leadTransferee
      /\ \A d \in Server : led.prs[d] = IF d = r.id THEN pr ELSE t.prs[d]
  BY <1>1, <1>2 DEF Node
<1>10. s = appendEntry(led, <<Nil>>) BY DEF becomeLeader, t, pr, p
<1> HIDE DEF led, s
<1>11. Boxes(led) = Boxes(r) BY <1>3, <1>9, SameBoxes
<1>12. Fit(led)
  <2>1. \A d \in Server : led.prs[d].Next = Len(led.log) + 1 BY <1>3, <1>4, <1>7, <1>9
  <2>2. Len(led.log) \in Nat BY <1>8, LenProperties DEF Node
  <2>3. ~IsPaused(led.prs[led.id]) BY <1>1, <1>3, <1>7, <1>9 DEF IsPaused
  <2>4. \A d \in Server : led.prs[d].Next <= Len(led.log) + 1 BY <2>1, <2>2
  <2>5. led.leadTransferee # led.id BY <1>1, <1>3, <1>4, <1>9, ServerAssumption
  <2> QED BY <1>3, <1>4, <1>9, <2>3, <2>4, <2>5 DEF Fit
<1>13. Calm(led, s)
  <2> DEFINE vals == <<Nil>>
  <2>1. vals \in Seq(Value \cup {Nil}) OBVIOUS
  <2>2. s = appendEntry(led, vals) BY <1>10
  <2> HIDE DEF vals
  <2> QED BY <1>8, <1>9, <1>12, <2>1, <2>2, AppendEntryCalm
<1>14. Sound(r, led, N) BY <1>9, <1>11, <1>12 DEF Sound, LeadFits
<1>15. Sound(r, s, N) BY <1>13, <1>14, SoundThenCalm
<1> QED BY <1>9, <1>13, <1>15 DEF Calm, s

LEMMA HandleVoteRespSound ==
    ASSUME NEW r \in Node, Fit(r), NEW m \in Message, NEW N,
           r.state \in {"StateCandidate", "StatePreCandidate"}
    PROVE  Sound(r, handleVoteResp(r, m), N)
<1> DEFINE s == RecordVote(r, m)
           result == TallyVotes(s)
           t == becomeFollower(s, s.Term, Nil)
           c == campaignElection(s, FALSE)
           led == becomeLeader(s)
           b == bcastAppend(led)
<1>1. s \in Node BY RecordVoteType
<1>2. /\ s.state = r.state /\ s.panic = r.panic /\ s.msgs = r.msgs /\ s.after = r.after
  BY DEF RecordVote, Node
<1>3. handleVoteResp(r, m) = afterPoll(s, result) BY DEF handleVoteResp
<1> HIDE DEF s
<1>4. Fit(s) /\ Boxes(s) = Boxes(r) BY <1>2, SameBoxes DEF Fit
<1>5. LeadFits(r, s, N) BY <1>2 DEF LeadFits
<1>6. \A x : Sound(s, x, N) => Sound(r, x, N) BY <1>4, <1>5, SilentThenSound
<1>7. Sound(s, t, N)
  <2>1. s.Term \in Nat /\ s.id \in Server BY <1>1 DEF Node
  <2>2. Nil # s.id BY <2>1, ServerAssumption
  <2>3. Fit(t) /\ Boxes(t) = Boxes(s) /\ t.lead = Nil
    BY <1>1, <1>4, <2>1, <2>2, BecomeFollowerFit
  <2> HIDE DEF t
  <2> QED BY <2>3 DEF Sound, LeadFits
<1>8. Sound(s, c, N) BY <1>1, <1>2, <1>4, CampaignElectionSound
<1>9. s.state = "StateCandidate" => Sound(s, b, N)
  <2>1. SUFFICES ASSUME s.state = "StateCandidate" PROVE Sound(s, b, N) OBVIOUS
  <2>2. led \in Node /\ Sound(s, led, N) /\ led.state = "StateLeader"
    BY <1>1, <1>4, <2>1, BecomeLeaderType, BecomeLeaderSound
  <2> HIDE DEF led
  <2>3. Calm(led, b) BY <2>2, BcastAppendCalm DEF Sound
  <2> QED BY <2>2, <2>3, SoundThenCalm
<1>10. handleVoteResp(r, m) \in {s, t, c} \/ (s.state # "StatePreCandidate" /\ handleVoteResp(r, m) = b)
  BY <1>3 DEF afterPoll
<1> HIDE DEF t, c, b
<1>11. Sound(s, s, N) BY <1>4, SoundRefl
<1> QED BY <1>2, <1>6, <1>7, <1>8, <1>9, <1>10, <1>11

\* A grant has the term of the request.  A refusal has the server's, which is a
\* term unless its log is empty, and then it has no reason to refuse.
LEMMA HandleVoteCalm ==
    ASSUME NEW r \in Node, Fit(r), NEW m \in Message, m.term > 0,
           \/ r.Term > 0
           \/ m.type = "MsgPreVote" /\ r.log = <<>>
    PROVE  Calm(r, handleVote(r, m))
<1> DEFINE resp == Msg(voteRespMsgType(m.type), r.id, m.from)
           granting == [r EXCEPT !.Vote = m.from, !.expired = FALSE]
           refusal == [resp EXCEPT !.term = r.Term, !.reject = TRUE]
           grant == [resp EXCEPT !.term = m.term]
<1>1. r.Term \in Nat /\ m.term \in Nat /\ m.from \in Server /\ r.id \in Server
  BY DEF Node, Message
<1>2. resp \in Message /\ resp.type \in {"MsgVoteResp", "MsgPreVoteResp"}
  BY <1>1, MsgIsMessage DEF voteRespMsgType, MsgType, Msg
<1> HIDE DEF resp
<1>3. /\ refusal \in Message /\ refusal.type = resp.type
      /\ grant \in Message /\ grant.type = resp.type
      /\ refusal.term = r.Term /\ grant.term = m.term
  BY <1>1, <1>2 DEF Message
<1>4. granting \in Node BY <1>1 DEF Node
<1>5. Calm(r, granting)
  <2> DEFINE s == granting
  <2>1. /\ s.id = r.id /\ s.state = r.state /\ s.Term = r.Term /\ s.lead = r.lead
        /\ s.log = r.log /\ s.msgs = r.msgs /\ s.after = r.after
        /\ s.prs = r.prs /\ s.panic = r.panic /\ s.leadTransferee = r.leadTransferee
    BY DEF Node
  <2> HIDE DEF s
  <2>2. Calm(r, s) BY <2>1, SameCalm DEF Fit
  <2> QED BY <2>2 DEF s
<1>6. \/ handleVote(r, m) = send(r, refusal) /\ r.Term > 0
      \/ handleVote(r, m) \in {send(r, grant), send(granting, grant)}
  <2>1. CASE r.Term > 0 BY <2>1 DEF handleVote, resp
  <2>2. CASE m.type = "MsgPreVote" /\ r.log = <<>> /\ ~(r.Term > 0)
    <3>1. canVote(r, m) BY <1>1, <2>2 DEF canVote
    <3>2. isUpToDate(r.log, m.index, m.logTerm)
      <4>1. m.index \in Nat /\ m.logTerm \in Nat BY DEF Message
      <4>2. lastTerm(r.log) = 0 /\ lastIndex(r.log) = 0
        BY <2>2 DEF lastTerm, lastIndex, TermAt
      <4> QED BY <4>1, <4>2 DEF isUpToDate
    <3> QED BY <3>1, <3>2 DEF handleVote, resp
  <2> QED BY <1>1, <2>1, <2>2
<1> HIDE DEF refusal, grant, granting
<1>7. ~ToOther(grant) /\ ~ToOther(refusal) BY <1>2, <1>3 DEF ToOther, FromLeader
<1>8. /\ Sendable(r, grant) /\ Sendable(granting, grant)
      /\ r.Term > 0 => Sendable(r, refusal)
  BY <1>1, <1>2, <1>3 DEF Sendable, VoteTypes, AfterAppendTypes
<1>9. (r.Term > 0 => Calm(r, send(r, refusal))) /\ Calm(r, send(r, grant))
  BY <1>2, <1>3, <1>7, <1>8, SendPlainCalm
<1>10. Calm(granting, send(granting, grant))
  BY <1>2, <1>3, <1>4, <1>5, <1>7, <1>8, SendPlainCalm DEF Calm
<1> QED BY <1>5, <1>6, <1>9, <1>10, CalmTrans

\* forward sends to another server, and what has no term yet.
LEMMA ForwardCalm ==
    ASSUME NEW r \in Node, Fit(r), r.state = "StateFollower", NEW m \in Message, Apt(r, m),
           m.type \in {"MsgProp", "MsgTransferLeader"}, m.term \in {0, r.Term}
    PROVE  Calm(r, forward(r, m))
<1> DEFINE n == [m EXCEPT !.to = r.lead]
           w == Outgoing(r, n)
<1>1. CASE r.lead = Nil BY <1>1, CalmRefl DEF forward
<1>2. CASE r.lead # Nil
  <2>1. m.term = 0 BY <1>2 DEF Apt
  <2>2. r.lead # r.id BY DEF Fit
  <2>3. forward(r, m) = send(r, n) BY <1>2 DEF forward
  <2>4. n \in Message /\ n.type = m.type /\ n.to = r.lead /\ n.term = m.term
    BY <1>2 DEF Node, Message
  <2> HIDE DEF n
  <2>5. /\ w.type = m.type /\ w.to = r.lead
        /\ w.term = IF m.type = "MsgProp" THEN 0 ELSE r.Term
    BY <2>1, <2>4 DEF Outgoing, VoteTypes, Message
  <2> HIDE DEF w
  <2>6. Mail(w, r) BY <1>2, <2>5 DEF Mail, Polled, ToOther, FromLeader
  <2>7. Sendable(r, n) BY <2>1, <2>2, <2>4 DEF Sendable, VoteTypes
  <2>8. Calm(r, send(r, n)) BY <2>4, <2>6, <2>7, SendCalm DEF w
  <2> QED BY <2>3, <2>8
<1> QED BY <1>1, <1>2

LEMMA StepLowerTermCalm ==
    ASSUME NEW r \in Node, Fit(r), NEW m \in Message, r.Term > 0
    PROVE  Calm(r, stepLowerTerm(r, m))
<1> DEFINE ack == Msg("MsgAppResp", r.id, m.from)
           resp == Msg("MsgPreVoteResp", r.id, m.from)
           refusal == [resp EXCEPT !.term = r.Term, !.reject = TRUE]
<1>1. r.Term \in Nat /\ r.id \in Server /\ m.from \in Server BY DEF Node, Message
<1>2. ack \in Message /\ ack.type = "MsgAppResp" /\ ~ack.reject /\ ack.term = 0
  BY <1>1, MsgIsMessage DEF MsgType, Msg
<1>3. resp \in Message /\ resp.type = "MsgPreVoteResp" BY <1>1, MsgIsMessage DEF MsgType, Msg
<1> HIDE DEF ack, resp
<1>4. refusal \in Message /\ refusal.type = "MsgPreVoteResp" /\ refusal.term = r.Term
  BY <1>1, <1>3 DEF Message
<1> HIDE DEF refusal
<1>5. ~ToOther(ack) /\ ~ToOther(refusal) BY <1>2, <1>4 DEF ToOther, FromLeader
<1>6. Calm(r, send(r, ack)) /\ Calm(r, send(r, refusal))
  <2>1. Sendable(r, ack) /\ Sendable(r, refusal)
    BY <1>1, <1>2, <1>4 DEF Sendable, VoteTypes, AfterAppendTypes
  <2> QED BY <1>2, <1>4, <1>5, <2>1, SendPlainCalm
<1>7. stepLowerTerm(r, m) \in {r, send(r, ack), send(r, refusal)}
  BY DEF stepLowerTerm, ack, resp, refusal
<1> QED BY <1>6, <1>7, CalmRefl

----------------------------------------------------------------------------
(* What a follower takes in *)

LEMMA CommitToCalm ==
    ASSUME NEW r \in Node, Fit(r), NEW c \in Nat, c <= Len(r.log)
    PROVE  Calm(r, commitTo(r, c)) /\ commitTo(r, c) \in Node
<1> DEFINE moved == [r EXCEPT !.committed = c]
<1>1. /\ moved.id = r.id /\ moved.state = r.state /\ moved.Term = r.Term /\ moved.lead = r.lead
      /\ moved.log = r.log /\ moved.msgs = r.msgs /\ moved.after = r.after
      /\ moved.prs = r.prs /\ moved.panic = r.panic
      /\ moved.leadTransferee = r.leadTransferee
  BY DEF Node
<1>2. Len(r.log) \in Nat BY LenProperties DEF Node
<1>3. commitTo(r, c) \in {r, moved} BY <1>2 DEF commitTo
<1> HIDE DEF moved
<1>4. Calm(r, moved) BY <1>1, SameCalm DEF Fit
<1> QED BY <1>3, <1>4, CalmRefl, CommitToType

LEMMA HandleHeartbeatCalm ==
    ASSUME NEW r \in Node, Fit(r), NEW m \in Message, m.from # r.id, m.commit <= Len(r.log)
    PROVE  Calm(r, handleHeartbeat(r, m))
<1> DEFINE s == commitTo(r, m.commit)
           resp == Msg("MsgHeartbeatResp", r.id, m.from)
<1>1. m.commit \in Nat /\ m.from \in Server /\ r.id \in Server BY DEF Node, Message
<1>2. s \in Node /\ Calm(r, s) BY <1>1, CommitToCalm
<1> HIDE DEF s
<1>3. /\ resp \in Message /\ resp.type = "MsgHeartbeatResp"
      /\ resp.from = r.id /\ resp.to = m.from /\ resp.term = 0
  BY <1>1, MsgIsMessage DEF MsgType, Msg
<1> HIDE DEF resp
<1>4. Calm(s, send(s, resp))
  <2>1. s.id = r.id BY <1>2 DEF Calm
  <2>2. Sendable(s, resp) BY <1>3, <2>1 DEF Sendable, VoteTypes
  <2> QED BY <1>2, <1>3, <2>2, AnswerCalm DEF Calm
<1>5. handleHeartbeat(r, m) = send(s, resp) BY DEF handleHeartbeat, s, resp
<1> QED BY <1>2, <1>4, <1>5, CalmTrans

\* maybeAppend has all that it was told, and may commit that far.
LEMMA MaybeAppendCalm ==
    ASSUME NEW r \in Node, Fit(r), r.state = "StateFollower", NEW m \in Message,
           m.type = "MsgApp", m.term >= r.Term,
           matchTerm(r.log, m.index, m.logTerm), ~Clash(r, m)
    PROVE  LET s == maybeAppend(r, m.index, m.commit, m.entries)
           IN  s \in Node /\ Calm(r, s)
<1> DEFINE ents == m.entries
           ci == findConflict(r.log, m.index, ents)
           longer == SubSeq(r.log, 1, ci - 1) \o SubSeq(ents, ci - m.index, Len(ents))
           longer1 == [r EXCEPT !.log = longer]
           taken == IF ci = 0 THEN r ELSE longer1
           n == m.index + Len(ents)
           c == Least(m.commit, n)
           s == maybeAppend(r, m.index, m.commit, m.entries)
           S == Spliced(r.log, m)
<1>1. /\ m.index \in Nat /\ ents \in Seq(Entry) /\ Len(ents) \in Nat /\ m.commit \in Nat
      /\ r.log \in Seq(Entry) /\ r.committed \in Nat /\ Len(r.log) \in Nat
  BY LenProperties DEF Message, Node
<1>2. m.index <= Len(r.log) BY DEF matchTerm
<1>3. /\ S \in Seq(Entry) /\ ci \in Nat /\ n \in Nat
      /\ ci = 0 => S = r.log /\ \A k \in (m.index + 1)..n : matchTerm(r.log, k, ents[k - m.index].term)
      /\ ci # 0 => ci \in (m.index + 1)..n /\ Len(S) = n
  BY <1>1, <1>2, SplicedIs
<1>4. ci # 0 => ~(ci <= r.committed)
  <2>1. ci \notin 1..r.committed BY DEF Clash
  <2> HIDE DEF ci, n
  <2> QED BY <1>1, <1>3, <2>1
<1>5. s = commitTo(taken, c)
  <2>1. s = commitTo(IF ci = 0 THEN r ELSE IF ci <= r.committed THEN Panic(r) ELSE longer1, c)
    BY Zenon DEF maybeAppend
  <2> HIDE DEF ci, longer1, s
  <2> QED BY <1>4, <2>1
<1>6. S = IF ci = 0 THEN r.log ELSE longer BY DEF Spliced
<1>7. n <= Len(S)
  <2> HIDE DEF ci, S, n
  <2>1. CASE ci = 0
    <3>1. CASE n = m.index BY <1>2, <1>3, <2>1, <3>1
    <3>2. CASE n # m.index
      <4>1. n \in (m.index + 1)..n BY <1>1, <1>3, <3>2 DEF n
      <4> QED BY <1>3, <2>1, <4>1 DEF matchTerm
    <3> QED BY <3>1, <3>2
  <2>2. CASE ci # 0 BY <1>3, <2>2
  <2> QED BY <2>1, <2>2
<1> HIDE DEF longer, ci, s, S, n
<1>8. ci # 0 =>
        /\ longer1 \in Node /\ longer1.id = r.id
        /\ longer1.state = r.state /\ longer1.Term = r.Term /\ longer1.log = longer
        /\ longer1.lead = r.lead /\ longer1.prs = r.prs /\ longer1.panic = r.panic
        /\ longer1.msgs = r.msgs /\ longer1.after = r.after
  BY <1>3, <1>6 DEF Node
<1> HIDE DEF longer1
<1>9. taken \in Node /\ taken.log = S /\ Calm(r, taken)
  <2>1. ci # 0 => Calm(r, longer1) BY <1>8, SameCalm DEF Fit
  <2> QED BY <1>6, <1>8, <2>1, CalmRefl
<1> HIDE DEF taken
<1>10. c \in Nat /\ c <= n BY <1>1, <1>3, LeastType
<1>11. c <= Len(taken.log)
  <2>1. Len(S) \in Nat BY <1>3, LenProperties
  <2> HIDE DEF c
  <2> QED BY <1>3, <1>7, <1>9, <1>10, <2>1
<1> HIDE DEF c
<1>12. Fit(taken) BY <1>9 DEF Calm
<1>13. s \in Node /\ Calm(taken, s) BY <1>5, <1>9, <1>10, <1>11, <1>12, CommitToCalm
<1>14. Calm(r, s) BY <1>9, <1>13, CalmTrans
<1> QED BY <1>13, <1>14 DEF s

LEMMA HandleAppendEntriesCalm ==
    ASSUME NEW r \in Node, Fit(r), r.state = "StateFollower", NEW m \in Message,
           m.type = "MsgApp", m.term >= r.Term, m.from # r.id, ~Clash(r, m)
    PROVE  Calm(r, handleAppendEntries(r, m))
<1> DEFINE resp == Msg("MsgAppResp", r.id, m.from)
           hint == findConflictByTerm(r.log, Least(m.index, Len(r.log)), m.logTerm)
           hintTerm == TermAt(r.log, hint)
           last == m.index + Len(m.entries)
           old == [resp EXCEPT !.index = r.committed]
           done == [resp EXCEPT !.index = last]
           refusal == [resp EXCEPT !.index = m.index, !.reject = TRUE, !.hint = hint,
                                   !.logTerm = hintTerm]
           s == maybeAppend(r, m.index, m.commit, m.entries)
<1>1. /\ m.from \in Server /\ m.index \in Nat /\ m.logTerm \in Nat /\ r.id \in Server
      /\ m.entries \in Seq(Entry) /\ Len(m.entries) \in Nat /\ r.committed \in Nat
      /\ r.log \in Seq(Entry) /\ Len(r.log) \in Nat /\ last \in Nat
  <2>1. m.from \in Server /\ m.index \in Nat /\ m.logTerm \in Nat /\ m.entries \in Seq(Entry)
    BY DEF Message
  <2>2. r.id \in Server /\ r.committed \in Nat /\ r.log \in Seq(Entry) BY DEF Node
  <2> QED BY <2>1, <2>2, LenProperties
<1>2. hint \in Nat
  <2>1. Least(m.index, Len(r.log)) \in Nat BY <1>1, LeastType
  <2> QED BY <1>1, <2>1, FindConflictByTermType
<1>3. hintTerm \in Nat
  <2> HIDE DEF hint
  <2>1. hint \in Int BY <1>2
  <2> QED BY <1>1, <2>1, TermAtType
<1>4. /\ resp \in Message /\ resp.type = "MsgAppResp" /\ resp.from = r.id /\ resp.to = m.from
      /\ ~resp.reject /\ resp.term = 0
  BY <1>1, MsgIsMessage DEF MsgType, Msg
<1>5. /\ m.index < r.committed => handleAppendEntries(r, m) = send(r, old)
      /\ ~(m.index < r.committed) /\ matchTerm(r.log, m.index, m.logTerm) =>
           handleAppendEntries(r, m) = send(s, done)
      /\ ~(m.index < r.committed) /\ ~matchTerm(r.log, m.index, m.logTerm) =>
           handleAppendEntries(r, m) = send(r, refusal)
  BY DEF handleAppendEntries
<1> HIDE DEF resp, hint, hintTerm, last
<1>6. old \in Message /\ old.type = "MsgAppResp" /\ ~old.reject /\ old.term = 0
  BY <1>1, <1>4 DEF Message
<1>7. done \in Message /\ done.type = "MsgAppResp" /\ ~done.reject /\ done.term = 0
  BY <1>1, <1>4 DEF Message
<1>8. /\ refusal \in Message /\ refusal.type = "MsgAppResp"
      /\ refusal.from = r.id /\ refusal.to = m.from /\ refusal.term = 0
  BY <1>1, <1>2, <1>3, <1>4 DEF Message
<1> HIDE DEF old, done, refusal, s
<1>9. ~ToOther(old) /\ ~ToOther(done) BY <1>6, <1>7 DEF ToOther, FromLeader
<1>10. \A x : Sendable(x, old) /\ Sendable(x, done) /\ Sendable(x, refusal)
  BY <1>6, <1>7, <1>8 DEF Sendable, VoteTypes, AfterAppendTypes
<1>11. Calm(r, send(r, old)) /\ Calm(r, send(r, refusal))
  BY <1>6, <1>8, <1>9, <1>10, SendPlainCalm, AnswerCalm
<1>12. ASSUME matchTerm(r.log, m.index, m.logTerm) PROVE Calm(r, send(s, done))
  <2>1. s \in Node /\ Calm(r, s) BY <1>12, MaybeAppendCalm DEF s
  <2>2. Calm(s, send(s, done)) BY <1>7, <1>9, <1>10, <2>1, SendPlainCalm DEF Calm
  <2> QED BY <2>1, <2>2, CalmTrans
<1> QED BY <1>5, <1>11, <1>12

----------------------------------------------------------------------------
(* Step and the ticks *)

\* What Step has made sure of before it dispatches m by role.
Current(r, m) ==
    /\ m.type \notin {"MsgPreVote", "MsgPreVoteResp"} => m.term \in {0, r.Term}
    /\ FromLeader(m) => m.term = r.Term

LEMMA StepLeaderCalm ==
    ASSUME NEW r \in Node, Fit(r), Within(r), r.state = "StateLeader", r.Term > 0,
           NEW m \in Message, Apt(r, m), Current(r, m)
    PROVE  Calm(r, stepLeader(r, m))
<1>1. CASE m.type = "MsgAppResp" /\ m.reject
  <2>1. m.from # r.id BY <1>1 DEF Apt, ToOther
  <2> QED BY <1>1, <2>1, HandleAppRejectCalm, CalmRefl DEF stepLeader, handleAppResp
<1>2. CASE m.type = "MsgAppResp" /\ ~m.reject
  <2>1. m.index <= Len(r.log) BY <1>2 DEF Apt, Current, Acknowledges
  <2> QED BY <1>2, <2>1, HandleAppAcceptCalm, CalmRefl DEF stepLeader, handleAppResp
<1>3. CASE m.type = "MsgHeartbeatResp"
  <2>1. m.from # r.id BY <1>3 DEF Apt, ToOther
  <2> QED BY <1>3, <2>1, HandleHeartbeatRespCalm, CalmRefl DEF stepLeader
<1>4. CASE m.type \notin {"MsgAppResp", "MsgHeartbeatResp"}
  BY <1>4, HandlePropCalm, HandleTransferLeaderCalm, CalmRefl DEF stepLeader
<1> QED BY <1>1, <1>2, <1>3, <1>4

LEMMA StepFollowerSound ==
    ASSUME NEW r \in Node, Fit(r), r.state = "StateFollower", NEW m \in Message,
           NEW N, m \in N, Apt(r, m), Current(r, m)
    PROVE  Sound(r, stepFollower(r, m), N)
<1> DEFINE heard == [r EXCEPT !.expired = FALSE, !.lead = m.from]
           s == handleAppendEntries(heard, m)
           t == handleHeartbeat(heard, m)
<1>1. heard \in Node BY DEF Node, Message
<1>2. /\ heard.id = r.id /\ heard.state = r.state /\ heard.Term = r.Term /\ heard.log = r.log
      /\ heard.committed = r.committed /\ heard.msgs = r.msgs /\ heard.after = r.after
      /\ heard.lead = m.from /\ heard.panic = r.panic
  BY DEF Node
<1>3. \/ m.type = "MsgApp" /\ stepFollower(r, m) = s
      \/ m.type = "MsgHeartbeat" /\ stepFollower(r, m) = t
      \/ m.type \in {"MsgProp", "MsgTransferLeader"} /\ stepFollower(r, m) = forward(r, m)
      \/ stepFollower(r, m) \in {hup(r, TRUE), r}
  BY DEF stepFollower
<1> HIDE DEF heard
<1>4. ASSUME FromLeader(m)
      PROVE  /\ Fit(heard) /\ Boxes(heard) = Boxes(r) /\ LeadFits(r, heard, N)
             /\ m.from # heard.id /\ m.term >= heard.Term /\ ~Clash(heard, m)
  <2>1. m.from # r.id BY <1>4 DEF Apt, ToOther
  <2>2. m.term = r.Term /\ r.Term \in Nat BY <1>4 DEF Current, Node
  <2>3. ~Clash(heard, m) BY <1>2 DEF Apt, Clash
  <2>4. Fit(heard) BY <1>2, <2>1 DEF Fit
  <2>5. LeadFits(r, heard, N) BY <1>2, <1>4, <2>2 DEF LeadFits
  <2> QED BY <1>2, <2>1, <2>2, <2>3, <2>4, <2>5, SameBoxes
<1>5. m.type = "MsgApp" => Sound(r, s, N)
  <2>1. SUFFICES ASSUME m.type = "MsgApp" PROVE Sound(r, s, N) OBVIOUS
  <2>2. FromLeader(m) BY <2>1 DEF FromLeader
  <2>3. heard.state = "StateFollower" BY <1>2
  <2>4. Calm(heard, s) BY <1>1, <1>4, <2>1, <2>2, <2>3, HandleAppendEntriesCalm
  <2> HIDE DEF s
  <2>5. Sound(heard, s, N) BY <2>4, CalmSound
  <2> QED BY <1>4, <2>2, <2>5, SilentThenSound
<1>6. m.type = "MsgHeartbeat" => Sound(r, t, N)
  <2>1. SUFFICES ASSUME m.type = "MsgHeartbeat" PROVE Sound(r, t, N) OBVIOUS
  <2>2. FromLeader(m) BY <2>1 DEF FromLeader
  <2>3. m.commit <= Len(heard.log) BY <1>2, <2>1 DEF Apt
  <2>4. Calm(heard, t) BY <1>1, <1>4, <2>2, <2>3, HandleHeartbeatCalm
  <2> HIDE DEF t
  <2>5. Sound(heard, t, N) BY <2>4, CalmSound
  <2> QED BY <1>4, <2>2, <2>5, SilentThenSound
<1> HIDE DEF s, t
<1>7. m.type \in {"MsgProp", "MsgTransferLeader"} => Sound(r, forward(r, m), N)
  BY ForwardCalm, CalmSound DEF Current
<1>8. Sound(r, hup(r, TRUE), N) /\ Sound(r, r, N) BY HupSound, SoundRefl
<1> QED BY <1>3, <1>5, <1>6, <1>7, <1>8

LEMMA StepCandidateSound ==
    ASSUME NEW r \in Node, Fit(r), r.state \in {"StateCandidate", "StatePreCandidate"},
           NEW m \in Message, NEW N, m \in N, Apt(r, m), Current(r, m)
    PROVE  Sound(r, stepCandidate(r, m), N)
<1> DEFINE s == becomeFollower(r, m.term, m.from)
           a == handleAppendEntries(s, m)
           h == handleHeartbeat(s, m)
<1>1. m.term \in Nat /\ m.from \in Server /\ r.Term \in Nat BY DEF Message, Node
<1>2. \/ m.type = "MsgApp" /\ stepCandidate(r, m) = a
      \/ m.type = "MsgHeartbeat" /\ stepCandidate(r, m) = h
      \/ stepCandidate(r, m) \in {handleVoteResp(r, m), r}
  BY DEF stepCandidate
<1>3. ASSUME FromLeader(m)
      PROVE  /\ s \in Node /\ Fit(s) /\ Boxes(s) = Boxes(r) /\ LeadFits(r, s, N)
             /\ s.state = "StateFollower" /\ s.log = r.log
             /\ m.from # s.id /\ m.term >= s.Term /\ ~Clash(s, m)
  <2>1. m.from # r.id BY <1>3 DEF Apt, ToOther
  <2>2. m.term = r.Term BY <1>3 DEF Current
  <2>3. /\ s \in Node /\ Fit(s) /\ Boxes(s) = Boxes(r)
        /\ s.id = r.id /\ s.state = "StateFollower" /\ s.Term = m.term /\ s.lead = m.from
        /\ s.log = r.log /\ s.committed = r.committed
    BY <1>1, <2>1, BecomeFollowerFit
  <2> HIDE DEF s
  <2>4. ~Clash(s, m) BY <2>2, <2>3 DEF Apt, Clash
  <2>5. LeadFits(r, s, N) BY <1>3, <2>3 DEF LeadFits
  <2> QED BY <1>1, <2>1, <2>3, <2>4, <2>5
<1> HIDE DEF s
<1>4. m.type = "MsgApp" => Sound(r, a, N)
  <2>1. SUFFICES ASSUME m.type = "MsgApp" PROVE Sound(r, a, N) OBVIOUS
  <2>2. FromLeader(m) BY <2>1 DEF FromLeader
  <2>3. Calm(s, a) BY <1>3, <2>1, <2>2, HandleAppendEntriesCalm
  <2> HIDE DEF a
  <2>4. Sound(s, a, N) BY <2>3, CalmSound
  <2> QED BY <1>3, <2>2, <2>4, SilentThenSound
<1>5. m.type = "MsgHeartbeat" => Sound(r, h, N)
  <2>1. SUFFICES ASSUME m.type = "MsgHeartbeat" PROVE Sound(r, h, N) OBVIOUS
  <2>2. FromLeader(m) BY <2>1 DEF FromLeader
  <2>3. m.commit <= Len(s.log) BY <1>3, <2>1, <2>2 DEF Apt
  <2>4. Calm(s, h) BY <1>3, <2>2, <2>3, HandleHeartbeatCalm
  <2> HIDE DEF h
  <2>5. Sound(s, h, N) BY <2>4, CalmSound
  <2> QED BY <1>3, <2>2, <2>5, SilentThenSound
<1> HIDE DEF a, h
<1>6. Sound(r, handleVoteResp(r, m), N) /\ Sound(r, r, N) BY HandleVoteRespSound, SoundRefl
<1> QED BY <1>2, <1>4, <1>5, <1>6

LEMMA StepRoleSound ==
    ASSUME NEW r \in Node, Fit(r), Within(r), Seated(r), NEW m \in Message, NEW N, m \in N,
           Apt(r, m), Current(r, m), Stamped(m)
    PROVE  Sound(r, stepRole(r, m), N)
<1>0. m.term \in Nat /\ r.Term \in Nat BY DEF Message, Node
<1>1. CASE m.type \in {"MsgVote", "MsgPreVote"}
  <2>1. m.term > 0 BY <1>1 DEF Stamped, Apt, Polled
  <2>2. r.Term > 0 \/ (m.type = "MsgPreVote" /\ r.log = <<>>)
    <3>1. CASE m.type = "MsgVote" BY <1>0, <2>1, <3>1 DEF Current
    <3>2. CASE m.type = "MsgPreVote" BY <3>2 DEF Apt, Polled, Titled
    <3> QED BY <1>1, <3>1, <3>2
  <2>3. Calm(r, handleVote(r, m)) BY <2>1, <2>2, HandleVoteCalm
  <2> QED BY <1>1, <2>3, CalmSound DEF stepRole
<1>2. CASE m.type \notin {"MsgVote", "MsgPreVote"} /\ r.state = "StateLeader"
  BY <1>2, StepLeaderCalm, CalmSound DEF stepRole, Seated
<1>3. CASE m.type \notin {"MsgVote", "MsgPreVote"} /\ r.state = "StateFollower"
  BY <1>3, StepFollowerSound DEF stepRole
<1>4. CASE /\ m.type \notin {"MsgVote", "MsgPreVote"}
           /\ r.state \in {"StateCandidate", "StatePreCandidate"}
  BY <1>4, StepCandidateSound DEF stepRole
<1>5. r.state \in StateType BY DEF Node
<1> QED BY <1>1, <1>2, <1>3, <1>4, <1>5 DEF StateType

\* No message that a server may be given makes it panic.
LEMMA StepSound ==
    ASSUME NEW r \in Node, Fit(r), Within(r), Seated(r), NEW m \in Message, NEW N, m \in N,
           Apt(r, m), Stamped(m)
    PROVE  Sound(r, Step(r, m), N)
<1>0. r.Term \in Nat /\ m.term \in Nat /\ m.from \in Server /\ r.id \in Server
  BY DEF Node, Message
<1>1. CASE m.term # 0 /\ m.term < r.Term
  <2>1. r.Term > 0 BY <1>0, <1>1
  <2> QED BY <1>1, <2>1, StepLowerTermCalm, CalmSound DEF Step
<1>2. CASE m.term > r.Term /\ ignoresVote(r, m)
  <2>1. Step(r, m) = r BY <1>0, <1>2 DEF Step
  <2> QED BY <2>1, SoundRefl
<1>3. CASE m.term > r.Term /\ ~ignoresVote(r, m)
  <2> DEFINE s == adoptTerm(r, m)
  <2>1. Step(r, m) = stepRole(s, m) BY <1>0, <1>3 DEF Step
  <2>2. CASE m.type = "MsgPreVote" \/ (m.type = "MsgPreVoteResp" /\ ~m.reject)
    <3>1. s = r /\ Current(r, m) BY <2>2 DEF adoptTerm, Current, FromLeader
    <3> QED BY <2>1, <3>1, StepRoleSound
  <2>3. CASE ~(m.type = "MsgPreVote" \/ (m.type = "MsgPreVoteResp" /\ ~m.reject))
    <3> DEFINE lead == IF m.type \in {"MsgApp", "MsgHeartbeat"} THEN m.from ELSE Nil
    <3>1. s = becomeFollower(r, m.term, lead) BY <2>3 DEF adoptTerm
    <3>2. lead \in Server \cup {Nil} BY <1>0
    <3>3. lead # r.id BY <1>0, ServerAssumption DEF Apt, ToOther, FromLeader
    <3>4. lead # Nil => FromLeader(m) /\ lead = m.from BY DEF FromLeader
    <3> HIDE DEF s, lead
    <3>5. /\ s \in Node /\ Fit(s) /\ Boxes(s) = Boxes(r)
          /\ s.id = r.id /\ s.state = "StateFollower" /\ s.Term = m.term /\ s.lead = lead
          /\ s.log = r.log /\ s.committed = r.committed
      BY <1>0, <3>1, <3>2, <3>3, BecomeFollowerFit
    <3>6. LeadFits(r, s, N) BY <3>4, <3>5 DEF LeadFits
    <3>7. Current(s, m) /\ Within(s) /\ Seated(s) BY <3>5 DEF Current, Within, Seated
    <3>8. Apt(s, m)
      <4>1. ~Clash(s, m)
        <5>1. Clash(s, m) => Clash(r, m) BY <1>0, <1>3, <3>5 DEF Clash
        <5> QED BY <5>1 DEF Apt
      <4>2. m.type = "MsgTransferLeader" => s.lead = Nil BY <3>4, <3>5 DEF FromLeader
      <4>3. Titled(s.log, s.Term) BY <1>0, <1>3, <3>5 DEF Titled
      <4>4. Polled(m) BY DEF Apt
      <4> QED BY <3>5, <4>1, <4>2, <4>3, <4>4 DEF Apt
    <3>9. Sound(s, stepRole(s, m), N) BY <3>5, <3>7, <3>8, StepRoleSound
    <3>10. Sound(r, stepRole(s, m), N) BY <3>5, <3>6, <3>9, SilentThenSound
    <3> QED BY <2>1, <3>10 DEF s
  <2> QED BY <2>2, <2>3
<1>4. CASE ~(m.term > r.Term) /\ ~(m.term # 0 /\ m.term < r.Term)
  <2>1. Step(r, m) = stepRole(r, m) BY <1>0, <1>4 DEF Step
  <2>2. m.term \in {0, r.Term} BY <1>0, <1>4
  <2>3. FromLeader(m) => m.term > 0 BY DEF FromLeader, Stamped
  <2>4. Current(r, m) BY <2>2, <2>3 DEF Current
  <2> QED BY <2>1, <2>4, StepRoleSound
<1> QED BY <1>1, <1>2, <1>3, <1>4

LEMMA TickElectionSound ==
    ASSUME NEW r \in Node, Fit(r), NEW past \in BOOLEAN, NEW N
    PROVE  Sound(r, tickElection(r, past), N)
<1> DEFINE s == [r EXCEPT !.expired = FALSE]
           q == [r EXCEPT !.expired = TRUE]
           t == hup(s, FALSE)
<1>1. s \in Node /\ q \in Node BY DEF Node
<1>2. \A x \in {s, q} :
         /\ x.id = r.id /\ x.state = r.state /\ x.Term = r.Term /\ x.lead = r.lead
         /\ x.log = r.log /\ x.msgs = r.msgs /\ x.after = r.after
         /\ x.prs = r.prs /\ x.panic = r.panic /\ x.leadTransferee = r.leadTransferee
  BY DEF Node
<1> HIDE DEF s, q
<1>3. \A x \in {s, q} : Calm(r, x) BY <1>2, SameCalm DEF Fit
<1>4. Sound(r, s, N) /\ Sound(r, q, N) BY <1>3, CalmSound
<1>5. Boxes(s) = Boxes(r) BY <1>2, SameBoxes
<1>6. Sound(s, t, N) BY <1>1, <1>4, HupSound DEF Sound
<1> HIDE DEF t
<1>7. Sound(r, t, N) BY <1>4, <1>5, <1>6, SilentThenSound DEF Sound
<1>8. tickElection(r, past) \in {t, q} BY DEF tickElection, t, s, q
<1> QED BY <1>4, <1>7, <1>8

LEMMA TickHeartbeatSound ==
    ASSUME NEW r \in Node, Fit(r), NEW timedOut \in BOOLEAN, NEW beat \in BOOLEAN, NEW N
    PROVE  Sound(r, tickHeartbeat(r, timedOut, beat), N)
<1> DEFINE down == becomeFollower(r, r.Term, Nil)
           c == IF QuorumActive(r) THEN r ELSE down
           prs == [p \in Server |-> IF p = r.id THEN c.prs[p]
                                    ELSE [c.prs[p] EXCEPT !.RecentActive = FALSE]]
           d == [c EXCEPT !.prs = prs]
           s == IF timedOut /\ CheckQuorum THEN checkQuorum(r) ELSE r
           q == [s EXCEPT !.leadTransferee = Nil]
           t == IF timedOut /\ s.state = "StateLeader" THEN q ELSE s
           u == IF beat /\ t.state = "StateLeader" THEN bcastHeartbeat(t) ELSE t
<1>0. r.Term \in Nat /\ r.id \in Server /\ Nil # r.id BY ServerAssumption DEF Node
<1>1. c \in Node /\ c.id = r.id /\ Sound(r, c, N)
  <2>1. /\ down \in Node /\ Fit(down) /\ Boxes(down) = Boxes(r)
        /\ down.id = r.id /\ down.lead = Nil
    BY <1>0, BecomeFollowerFit
  <2> HIDE DEF down
  <2>2. Sound(r, down, N) BY <2>1 DEF Sound, LeadFits
  <2> QED BY <2>1, <2>2, SoundRefl
<1>2. checkQuorum(r) = d BY DEF checkQuorum, c, down
<1> HIDE DEF c
<1>3. Calm(c, d)
  <2>1. \A p \in Server : prs[p].Next = c.prs[p].Next
                          /\ prs[p].MsgAppFlowPaused = c.prs[p].MsgAppFlowPaused
    <3>1. \A p \in Server : c.prs[p] \in Progress BY <1>1 DEF Node
    <3> QED BY <3>1 DEF Progress
  <2> HIDE DEF prs
  <2>2. /\ d.id = c.id /\ d.state = c.state /\ d.Term = c.Term /\ d.lead = c.lead
        /\ d.log = c.log /\ d.msgs = c.msgs /\ d.after = c.after /\ d.panic = c.panic
        /\ d.prs = prs /\ d.leadTransferee = c.leadTransferee
    BY <1>1 DEF Node
  <2> HIDE DEF d
  <2>3. Fit(c) BY <1>1 DEF Sound
  <2>4. c.state = "StateLeader" =>
          /\ \A p \in Server : d.prs[p].Next <= Len(d.log) + 1
          /\ ~IsPaused(d.prs[c.id])
          /\ d.leadTransferee # c.id
    BY <1>0, <1>1, <2>1, <2>2, <2>3 DEF Fit, IsPaused
  <2> QED BY <2>2, <2>3, <2>4, SameCalm DEF Fit
<1> HIDE DEF d
<1>4. Sound(r, d, N) BY <1>1, <1>3, SoundThenCalm
<1>5. s \in Node /\ Sound(r, s, N) BY <1>2, <1>4, CheckQuorumType, SoundRefl
<1> HIDE DEF s
<1>6. q \in Node /\ Calm(s, q)
  <2>1. q \in Node BY <1>5 DEF Node
  <2>2. /\ q.id = s.id /\ q.state = s.state /\ q.Term = s.Term /\ q.lead = s.lead
        /\ q.log = s.log /\ q.msgs = s.msgs /\ q.after = s.after
        /\ q.prs = s.prs /\ q.panic = s.panic /\ q.leadTransferee = Nil
    BY <1>5 DEF Node
  <2>3. s.id \in Server /\ Nil # s.id BY <1>5, ServerAssumption DEF Node
  <2> HIDE DEF q
  <2>4. Fit(s) BY <1>5 DEF Sound
  <2> QED BY <2>1, <2>2, <2>3, <2>4, SameCalm DEF Fit
<1> HIDE DEF q
<1>7. Fit(s) BY <1>5 DEF Sound
<1>8. t \in Node /\ Calm(s, t) BY <1>5, <1>6, <1>7, CalmRefl
<1> HIDE DEF t
<1>9. Fit(t) BY <1>8 DEF Calm
<1>10. Calm(t, u) BY <1>8, <1>9, BcastHeartbeatCalm, CalmRefl
<1>11. tickHeartbeat(r, timedOut, beat) = u BY DEF tickHeartbeat, u, t, q, s
<1> HIDE DEF u
<1>12. Sound(r, u, N) BY <1>5, <1>8, <1>10, SoundThenCalm, CalmTrans
<1> QED BY <1>11, <1>12

----------------------------------------------------------------------------
(* What a server is given suits it *)

\* An acknowledgement of index c, and a key that was chosen at c or later: the
\* log of who acknowledged is that long.
LEMMA ToldIsHeld ==
    ASSUME NEW nd, NEW dk, NEW nt, Group(nd, dk, nt), CommitInvariant(nd, dk, nt),
           NEW i \in Server, NEW m \in Underway(nd, nt), m.type = "MsgHeartbeat", m.to = i
    PROVE  m.commit <= Len(nd[i].log)
<1>1. m \in Message BY UnderwayType
<1>2. m.commit \in Nat /\ m.term \in Nat BY <1>1 DEF Message
<1>3. nd[i].log \in Seq(Entry) BY GroupLogs
<1>4. Len(nd[i].log) \in Nat BY <1>3, LenProperties
<1>5. CASE m.commit = 0 BY <1>2, <1>4, <1>5
<1>6. CASE m.commit # 0
  <2>1. Told(m, nd, dk, nt) BY DEF CommitInvariant, SealInvariant
  <2>2. m.commit > 0 BY <1>2, <1>6
  <2>3. PICK v \in nt : Acknowledges(v) /\ v.from = i /\ v.term = m.term /\ v.index >= m.commit
    BY <2>1, <2>2 DEF Told, Acked
  <2>4. PICK a \in LiveKeys(nd, dk, nt) : a.at >= m.commit /\ a.term <= m.term
    BY <1>6, <2>1 DEF Told, Reached
  <2>5. v \in Underway(nd, nt) BY DEF Underway
  <2>6. Backs(v, nd[i].log, nd[i].Term, nd, dk, nt)
    BY <2>3, <2>5 DEF CommitInvariant, AckInvariant
  <2>7. Copies(nd[i].log, v.index, a, nd[a.owner].log) BY <2>3, <2>4, <2>6 DEF Backs
  <2>8. Least(v.index, a.at) <= Len(nd[i].log) BY <2>7 DEF Copies, Agree
  <2>9. Least(v.index, a.at) \in {v.index, a.at} BY DEF Least
  <2>10. v.index \in Nat BY <2>5, UnderwayType DEF Message
  <2>11. a.at \in Nat BY LiveIs
  <2> QED BY <1>2, <1>4, <2>3, <2>4, <2>8, <2>9, <2>10, <2>11
<1> QED BY <1>5, <1>6

\* No acknowledgement of a leader's term, and none without a term, is beyond
\* the leader's log.
LEMMA AckIsHeld ==
    ASSUME NEW nd, NEW dk, NEW nt, Group(nd, dk, nt), CommitInvariant(nd, dk, nt),
           NEW i \in Server, NEW m \in Underway(nd, nt), nd[i].state = "StateLeader",
           Acknowledges(m), m.term \in {0, nd[i].Term}
    PROVE  m.index <= Len(nd[i].log)
<1>1. m \in Message BY UnderwayType
<1>2. m.index \in Nat /\ m.term \in Nat BY <1>1 DEF Message
<1>3. Len(nd[i].log) \in Nat BY GroupLogs, LenProperties
<1>4. CASE m.term = nd[i].Term BY <1>4 DEF CommitInvariant, OrderInvariant, LeaderKnows
<1>5. CASE m.term = 0
  <2>1. m.index > 0 => m.term > 0 BY DEF CommitInvariant, OrderInvariant, OfTerm
  <2>2. m.index = 0 BY <1>2, <1>5, <2>1
  <2> QED BY <1>3, <2>2
<1> QED BY <1>4, <1>5

\* Whatever reaches its addressee.
LEMMA HeardApt ==
    ASSUME NEW nd, NEW dk, NEW nt, Group(nd, dk, nt), PanicInvariant(nd, dk, nt),
           NEW i \in Server, NEW m \in Underway(nd, nt), m.to = i
    PROVE  Apt(nd[i], m)
<1> DEFINE r == nd[i]
<1>1. /\ CommitInvariant(nd, dk, nt) /\ Fit(r) /\ Obeys(r, nd, dk, nt)
      /\ Directed(m, nd, dk, nt) /\ ElectionInvariant(nd, dk, nt) /\ r.id = i
  BY DEF PanicInvariant, LeadInvariant, CommitInvariant, ClusterInvariant, ElectionInvariant
<1>2. nd \in [Server -> Node] /\ dk \in [Server -> Disk] /\ nt \in SUBSET Message BY DEF Group
<1>3. r.lead \in Server \cup {Nil} BY <1>2 DEF Node
<1>4. ToOther(m) => m.from # r.id BY <1>1 DEF Directed
<1>5. m.type = "MsgHeartbeat" => m.commit <= Len(r.log) BY <1>1, ToldIsHeld
<1>6. ~Clash(r, m) BY <1>1, NoClash
<1>7. r.state = "StateLeader" /\ Acknowledges(m) /\ m.term \in {0, r.Term} =>
        m.index <= Len(r.log)
  BY <1>1, AckIsHeld
<1>8. m.type = "MsgProp" => m.term = 0 BY <1>1 DEF Directed
<1>9. ASSUME m.type = "MsgTransferLeader", m.term # 0, m.term = r.Term,
             r.state = "StateFollower", r.lead # Nil
      PROVE  FALSE
  <2>1. Won(i, r.Term, nd, dk, nt) BY <1>1, <1>9 DEF Directed
  <2>2. Won(r.lead, r.Term, nd, dk, nt) /\ r.lead \in Server BY <1>1, <1>3, <1>9 DEF Obeys
  <2>3. r.lead = i BY <1>1, <1>2, <2>1, <2>2, OneWinner
  <2> QED BY <1>1, <1>9, <2>3 DEF Fit
<1> HIDE DEF r
<1>10. Polled(m) /\ Titled(r.log, r.Term)
  BY <1>1 DEF Directed, PanicInvariant, LeadInvariant, r
<1>11. Apt(r, m) BY <1>4, <1>5, <1>6, <1>7, <1>8, <1>9, <1>10 DEF Apt
<1> QED BY <1>11 DEF r

\* What the application proposes or asks for.
LEMMA AskedApt ==
    ASSUME NEW r, NEW m, m.type \in {"MsgProp", "MsgTransferLeader"}, m.term = 0,
           Titled(r.log, r.Term)
    PROVE  Apt(r, m)
BY DEF Apt, Polled, ToOther, FromLeader, Clash, Acknowledges

LEMMA AllWithin ==
    ASSUME NEW nd, NEW dk, NEW nt, CommitInvariant(nd, dk, nt), NEW i \in Server
    PROVE  Within(nd[i])
BY DEF CommitInvariant, OrderInvariant, LeaderKnows, Within

----------------------------------------------------------------------------
(* One server moves *)

\* Server i changed, and what it sends is directed: the others stay as they are.
LEMMA LeadOn ==
    ASSUME NEW nd, NEW dk, NEW nt, Group(nd, dk, nt), LeadInvariant(nd, dk, nt),
           NEW nw, NEW dw, NEW nn, NEW i \in Server,
           \A l \in Server : \A t \in Nat : Won(l, t, nd, dk, nt) => Won(l, t, nw, dw, nn),
           \A k \in Server \ {i} : nw[k] = nd[k],
           \A k \in Server \ {i} : dw[k] = dk[k],
           Fit(nw[i]), Obeys(nw[i], nw, dw, nn), \A m \in Range(nw[i].steps) : m.to = i,
           Titled(nw[i].log, nw[i].Term), Titled(dw[i].log, dw[i].hs.Term),
           \A m \in Underway(nw, nn) : m \in Underway(nd, nt) \/ Directed(m, nw, dw, nn)
    PROVE  LeadInvariant(nw, dw, nn)
<1>1. ASSUME NEW k \in Server, k # i
      PROVE  Fit(nw[k]) /\ Obeys(nw[k], nw, dw, nn) /\ \A m \in Range(nw[k].steps) : m.to = k
  <2>1. nw[k] = nd[k] BY <1>1
  <2>2. /\ Fit(nd[k]) /\ Obeys(nd[k], nd, dk, nt)
        /\ \A m \in Range(nd[k].steps) : m.to = k
    BY DEF LeadInvariant
  <2>3. nd[k].lead \in Server \cup {Nil} /\ nd[k].Term \in Nat
    <3>1. nd[k] \in Node BY GroupLogs
    <3> QED BY <3>1 DEF Node
  <2>4. Obeys(nd[k], nw, dw, nn) BY <2>2, <2>3 DEF Obeys
  <2> QED BY <2>1, <2>2, <2>4
<1>2. ASSUME NEW m \in Underway(nw, nn) PROVE Directed(m, nw, dw, nn)
  <2>1. CASE m \in Underway(nd, nt)
    <3>1. m \in Message BY <2>1, UnderwayType
    <3>2. m.from \in Server /\ m.to \in Server /\ m.term \in Nat BY <3>1 DEF Message
    <3>3. Directed(m, nd, dk, nt) BY <2>1 DEF LeadInvariant
    <3> QED BY <3>2, <3>3 DEF Directed
  <2> QED BY <1>2, <2>1
<1>3. ASSUME NEW k \in Server
      PROVE  Titled(nw[k].log, nw[k].Term) /\ Titled(dw[k].log, dw[k].hs.Term)
  <2>1. CASE k = i BY <2>1
  <2>2. CASE k # i
    <3>1. nw[k] = nd[k] /\ dw[k] = dk[k] BY <2>2
    <3> QED BY <3>1 DEF LeadInvariant
  <2> QED BY <2>1, <2>2
<1> QED BY <1>1, <1>2, <1>3 DEF LeadInvariant

\* A server's step keeps the invariant.
LEMMA StepKeepsLead ==
    ASSUME NEW nd \in [Server -> Node], NEW dk \in [Server -> Disk], NEW nt \in SUBSET Message,
           NEW i \in Server, NEW s \in Node, PanicInvariant(nd, dk, nt),
           ElectionInvariant([nd EXCEPT ![i] = s], dk, nt),
           Onward(nd[i], s), NEW N \in SUBSET Heard(nd, nt, i), LogStep(nd[i], s, N),
           CommitStep(nd[i], s, N), Sound(nd[i], s, N)
    PROVE  LeadInvariant([nd EXCEPT ![i] = s], dk, nt)
<1> DEFINE nw == [nd EXCEPT ![i] = s]
<1>1. /\ CommitInvariant(nd, dk, nt) /\ LeadInvariant(nd, dk, nt)
      /\ ClusterInvariant(nd, dk, nt) /\ ElectionInvariant(nd, dk, nt)
  BY DEF PanicInvariant, CommitInvariant, ClusterInvariant
<1>2. ClusterInvariant(nw, dk, nt) BY <1>1, StepKeeps
<1>3. \A l \in Server : \A t \in Nat : Won(l, t, nd, dk, nt) => Won(l, t, nw, dk, nt)
  BY <1>1, StepKeepsWon
<1>4. Group(nd, dk, nt) BY DEF Group
<1>5. nw[i] = s /\ \A k \in Server \ {i} : nw[k] = nd[k] OBVIOUS
<1> HIDE DEF nw
<1>6. s.Term \in Nat /\ s.lead \in Server \cup {Nil} BY DEF Node
<1>7. s.id = i /\ nd[i].Term \in Nat
  BY <1>2, <1>4, <1>5, GroupLogs DEF ClusterInvariant, ElectionInvariant
<1>8. Obeys(s, nw, dk, nt)
  <2>1. SUFFICES ASSUME s.state = "StateFollower", s.lead # Nil PROVE Won(s.lead, s.Term, nw, dk, nt)
    BY DEF Obeys
  <2>2. CASE nd[i].state = "StateFollower" /\ s.Term = nd[i].Term /\ s.lead = nd[i].lead
    <3>1. Obeys(nd[i], nd, dk, nt) BY <1>1 DEF LeadInvariant
    <3>2. Won(s.lead, s.Term, nd, dk, nt) BY <2>1, <2>2, <3>1 DEF Obeys
    <3> QED BY <1>3, <1>6, <2>1, <3>2
  <2>3. CASE \E m \in N : FromLeader(m) /\ m.from = s.lead /\ m.term = s.Term
    <3>1. PICK m \in N : FromLeader(m) /\ m.from = s.lead /\ m.term = s.Term BY <2>3
    <3>2. m \in Underway(nd, nt) BY DEF Heard, Underway
    <3>3. Directed(m, nd, dk, nt) BY <1>1, <3>2 DEF LeadInvariant
    <3>4. Won(s.lead, s.Term, nd, dk, nt) BY <3>1, <3>3 DEF Directed
    <3> QED BY <1>3, <1>6, <2>1, <3>4
  <2> QED BY <2>1, <2>2, <2>3 DEF Sound, LeadFits
<1>9. ASSUME NEW w, Mail(w, s) PROVE Directed(w, nw, dk, nt)
  <2>1. s.state = "StateLeader" => Won(i, s.Term, nw, dk, nt)
    BY <1>2, <1>5 DEF ClusterInvariant, LinkInvariant
  <2>2. FromLeader(w) => Won(w.from, w.term, nw, dk, nt) BY <1>7, <1>9, <2>1 DEF Mail
  <2>3. w.type = "MsgTransferLeader" => Won(w.to, w.term, nw, dk, nt)
    BY <1>8, <1>9 DEF Mail, Obeys
  <2>4. Polled(w) BY <1>9 DEF Mail
  <2> QED BY <1>9, <2>2, <2>3, <2>4 DEF Mail, Directed
<1>10. \A m \in Range(s.steps) : m \in Range(nd[i].steps) BY DEF Onward
<1>11. \A m \in Range(s.steps) : m.to = i BY <1>1, <1>10 DEF LeadInvariant
<1>12. ASSUME NEW m \in Underway(nw, nt)
       PROVE  m \in Underway(nd, nt) \/ Directed(m, nw, dk, nt)
  <2>1. CASE m \in nt BY <2>1 DEF Underway
  <2>2. ASSUME NEW k \in Server, m \in Boxes(nw[k]) \cup Range(nw[k].steps)
        PROVE  m \in Underway(nd, nt) \/ Directed(m, nw, dk, nt)
    <3>1. CASE k # i
      <4>1. m \in Boxes(nd[k]) \cup Range(nd[k].steps) BY <1>5, <2>2, <3>1
      <4> QED BY <4>1, UnderwayOf
    <3>2. CASE k = i
      <4>1. m \in Boxes(s) \/ m \in Range(s.steps) BY <1>5, <2>2, <3>2
      <4>2. CASE m \in Range(s.steps) BY <1>10, <4>2, UnderwayOf
      <4>3. CASE m \in Boxes(s)
        <5>1. m \in Boxes(nd[i]) \/ Mail(m, s) BY <4>3 DEF Sound
        <5> QED BY <1>9, <5>1, UnderwayOf
      <4> QED BY <4>1, <4>2, <4>3
    <3> QED BY <3>1, <3>2
  <2> QED BY <2>1, <2>2 DEF Underway
<1>13. Fit(s) BY DEF Sound
<1>14. Titled(s.log, s.Term)
  <2>1. N \subseteq Underway(nd, nt) BY DEF Heard, Underway
  <2>2. Mindful(nd[i], s, N)
    <3>1. \A v \in N : ~Clash(nd[i], v) BY <1>1, <1>4, <2>1, NoClash
    <3> QED BY <3>1 DEF CommitStep
  <2>3. CASE s.log = nd[i].log
    <3>1. Titled(nd[i].log, nd[i].Term) BY <1>1 DEF LeadInvariant
    <3>2. s.Term >= nd[i].Term BY DEF Onward
    <3>3. nd[i].Term > 0 => s.Term > 0 BY <1>6, <1>7, <3>2
    <3> QED BY <2>3, <3>1, <3>3 DEF Titled
  <2>4. CASE s.state = "StateLeader"
    <3>1. Evidence(nw[i], nt) BY <1>2 DEF ClusterInvariant, ElectionInvariant
    <3> QED BY <1>5, <2>4, <3>1 DEF Evidence, Titled
  <2>5. ASSUME NEW v \in N, Taken(nd[i], s, v) PROVE s.Term > 0
    <3>1. v \in Underway(nd, nt) BY <2>1
    <3>2. Stamped(v) BY <1>1, <3>1 DEF ElectionInvariant, Underway
    <3> QED BY <2>5, <3>2 DEF Taken, Stamped
  <2> QED BY <2>2, <2>3, <2>4, <2>5 DEF Mindful, Titled
<1>15. Titled(dk[i].log, dk[i].hs.Term) BY <1>1 DEF LeadInvariant
<1>16. LeadInvariant(nw, dk, nt)
  BY <1>1, <1>3, <1>4, <1>5, <1>8, <1>11, <1>12, <1>13, <1>14, <1>15, LeadOn
<1> QED BY <1>16 DEF nw

----------------------------------------------------------------------------
(* A Ready, a restart, Advance *)

LEMMA WriteKeepsLead ==
    ASSUME NEW nd \in [Server -> Node], NEW dk \in [Server -> Disk], NEW nt \in SUBSET Message,
           PanicInvariant(nd, dk, nt), NEW i \in Server, NEW d \in Disk,
           d.hs = hardState(nd[i]), d.log = nd[i].log, NEW M \in SUBSET Boxes(nd[i])
    PROVE  LeadInvariant(nd, [dk EXCEPT ![i] = d], nt \cup M)
<1> DEFINE dw == [dk EXCEPT ![i] = d]
           nn == nt \cup M
<1>1. ElectionInvariant(nd, dk, nt) /\ LeadInvariant(nd, dk, nt)
  BY DEF PanicInvariant, CommitInvariant, ClusterInvariant
<1>2. \A l \in Server : \A t \in Nat : Won(l, t, nd, dk, nt) => Won(l, t, nd, dw, nn)
  BY <1>1, WriteKeepsWon
<1>3. Underway(nd, nn) \subseteq Underway(nd, nt) BY DEF Underway
<1>4. dw[i] = d /\ \A k \in Server \ {i} : dw[k] = dk[k] OBVIOUS
<1> HIDE DEF dw, nn
<1>5. Group(nd, dk, nt) BY DEF Group
<1>6. /\ Fit(nd[i]) /\ Obeys(nd[i], nd, dk, nt)
      /\ \A m \in Range(nd[i].steps) : m.to = i
      /\ Titled(nd[i].log, nd[i].Term)
  BY <1>1 DEF LeadInvariant
<1>7. Titled(d.log, d.hs.Term)
  <2>1. d.hs.Term = nd[i].Term BY DEF hardState
  <2> QED BY <1>6, <2>1
<1>8. nd[i].lead \in Server \cup {Nil} /\ nd[i].Term \in Nat BY DEF Node
<1>9. Obeys(nd[i], nd, dw, nn) BY <1>2, <1>6, <1>8 DEF Obeys
<1>10. LeadInvariant(nd, dw, nn)
  BY <1>1, <1>2, <1>3, <1>5, <1>6, <1>9, <1>4, <1>7, LeadOn
<1> QED BY <1>10 DEF dw, nn

LEMMA AcceptReadyKeepsLead ==
    ASSUME NEW nd \in [Server -> Node], NEW dk \in [Server -> Disk], NEW nt \in SUBSET Message,
           PanicInvariant(nd, dk, nt), NEW i \in Server
    PROVE  LeadInvariant([nd EXCEPT ![i] = acceptReady(nd[i])], dk, nt)
<1> DEFINE r == nd[i]
           s == acceptReady(r)
           nw == [nd EXCEPT ![i] = s]
<1>1. ElectionInvariant(nd, dk, nt) /\ LeadInvariant(nd, dk, nt)
  BY DEF PanicInvariant, CommitInvariant, ClusterInvariant
<1>2. r \in Node /\ r.id = i BY <1>1 DEF ElectionInvariant
<1>3. /\ s.Term = r.Term /\ s.state = r.state /\ s.log = r.log /\ s.lead = r.lead
      /\ s.id = r.id /\ s.prs = r.prs /\ s.panic = r.panic /\ s.steps = r.after[i]
      /\ s.leadTransferee = r.leadTransferee
      /\ \A d \in Server : s.msgs[d] = <<>> /\ s.after[d] = <<>>
  BY <1>2 DEF acceptReady, Node
<1>4. Group(nd, dk, nt) BY DEF Group
<1>5. nw[i] = s /\ \A k \in Server \ {i} : nw[k] = nd[k] OBVIOUS
<1>6. Range(<<>>) = {} BY DEF Range
<1>7. /\ Fit(r) /\ Obeys(r, nd, dk, nt) /\ Titled(r.log, r.Term)
      /\ Titled(dk[i].log, dk[i].hs.Term)
  BY <1>1 DEF LeadInvariant
<1>8. r.lead \in Server \cup {Nil} /\ r.Term \in Nat BY <1>2 DEF Node
<1> HIDE DEF nw, s, r
<1>9. Boxes(s) = {} BY <1>3, <1>6 DEF Boxes
<1>10. Range(s.steps) \subseteq Boxes(r) BY <1>3 DEF Boxes
<1>11. Fit(s) BY <1>3, <1>6, <1>7 DEF Fit
<1>12. \A m \in Range(s.steps) : m.to = i BY <1>3, <1>7 DEF Fit
<1>13. ASSUME NEW l \in Server, NEW t \in Nat, Won(l, t, nd, dk, nt) PROVE Won(l, t, nw, dk, nt)
  <2>1. Boxes(nw[l]) \subseteq Boxes(nd[l]) /\ nw[l].state = nd[l].state /\ nw[l].Term = nd[l].Term
    BY <1>3, <1>5, <1>9 DEF r
  <2> QED BY <1>13, <2>1 DEF Won
<1>14. Obeys(s, nw, dk, nt) BY <1>3, <1>7, <1>8, <1>13 DEF Obeys
<1>15. \A k \in Server : \A m \in Boxes(nw[k]) \cup Range(nw[k].steps) :
         m \in Boxes(nd[k]) \cup Range(nd[k].steps)
  BY <1>5, <1>9, <1>10 DEF r
<1>16. Underway(nw, nt) \subseteq Underway(nd, nt) BY <1>15 DEF Underway
<1>17. Titled(s.log, s.Term) BY <1>3, <1>7
<1>18. LeadInvariant(nw, dk, nt)
  BY <1>1, <1>4, <1>5, <1>7, <1>11, <1>12, <1>13, <1>14, <1>16, <1>17, LeadOn
<1> QED BY <1>18 DEF nw, s, r

\* The commit index of the hard state is one that the log on disk has, and a
\* server that starts follows nobody.
LEMMA RestartKeepsLead ==
    ASSUME NEW nd \in [Server -> Node], NEW dk \in [Server -> Disk], NEW nt \in SUBSET Message,
           PanicInvariant(nd, dk, nt), NEW i \in Server, NEW e \in Disk,
           e.hs.Term = dk[i].hs.Term, e.hs.Vote = dk[i].hs.Vote,
           e.log \in {dk[i].log, nd[i].log}, e.hs.Commit <= dk[i].hs.Commit,
           PreVote => e.log = dk[i].log
    PROVE  LeadInvariant([nd EXCEPT ![i] = newRaft(i, Server, e.hs, e.log)],
                         [dk EXCEPT ![i] = e], nt)
<1> DEFINE s == newRaft(i, Server, e.hs, e.log)
           nw == [nd EXCEPT ![i] = s]
           dw == [dk EXCEPT ![i] = e]
<1>1. CommitInvariant(nd, dk, nt) /\ LeadInvariant(nd, dk, nt) BY DEF PanicInvariant
<1>2. Group(nd, dk, nt) BY DEF Group
<1>3. e.hs.Commit <= Len(e.log)
  <2>1. /\ nd[i].log \in Seq(Entry) /\ nd[i].committed \in Nat
        /\ dk[i].log \in Seq(Entry) /\ dk[i].hs.Commit \in Nat
    BY <1>2, GroupLogs
  <2>2. /\ Sealed(nd[i].log, nd[i].committed, nd[i].Term, nd, dk, nt)
        /\ Sealed(dk[i].log, dk[i].hs.Commit, dk[i].hs.Term, nd, dk, nt)
        /\ dk[i].hs.Commit <= nd[i].committed
    BY <1>1 DEF CommitInvariant, SealInvariant
  <2>3. nd[i].committed <= Len(nd[i].log) /\ dk[i].hs.Commit <= Len(dk[i].log)
    BY <2>1, <2>2, SealedLen
  <2>4. e.hs.Commit \in Nat BY DEF Disk, HardState
  <2>5. Len(nd[i].log) \in Nat /\ Len(dk[i].log) \in Nat BY <2>1, LenProperties
  <2>6. CASE e.log = dk[i].log
    <3>1. Len(e.log) = Len(dk[i].log) BY <2>6
    <3> QED BY <2>1, <2>3, <2>4, <2>5, <3>1
  <2>7. CASE e.log = nd[i].log
    <3>1. Len(e.log) = Len(nd[i].log) BY <2>7
    <3> QED BY <2>1, <2>2, <2>3, <2>4, <2>5, <3>1
  <2> QED BY <2>6, <2>7
<1>4. Len(e.log) \in Nat /\ e.hs.Commit \in Nat BY LenProperties DEF Disk, HardState
<1>5. /\ s.id = i /\ s.state = "StateFollower" /\ s.steps = <<>> /\ s.lead = Nil
      /\ \A d \in Server : s.msgs[d] = <<>> /\ s.after[d] = <<>>
      /\ s.panic = (e.hs.Commit > Len(e.log)) /\ s.log = e.log /\ s.Term = e.hs.Term
  BY DEF newRaft, restored, reset
<1>7. /\ nw[i] = s /\ \A k \in Server \ {i} : nw[k] = nd[k]
      /\ dw[i] = e /\ \A k \in Server \ {i} : dw[k] = dk[k]
  OBVIOUS
<1> HIDE DEF nw, dw, s
<1>6. ~s.panic
  <2>1. ~(e.hs.Commit > Len(e.log)) BY <1>3, <1>4
  <2> QED BY Zenon, <1>5, <2>1
<1>8. Range(<<>>) = {} BY DEF Range
<1>9. Boxes(s) = {} /\ Range(s.steps) = {} BY <1>5, <1>8 DEF Boxes
<1>10. i # Nil BY ServerAssumption
<1>11. Fit(s) BY <1>5, <1>6, <1>8, <1>10 DEF Fit
<1>12. Obeys(s, nw, dw, nt) BY <1>5 DEF Obeys
<1>13. ASSUME NEW l \in Server, NEW t \in Nat, Won(l, t, nd, dk, nt) PROVE Won(l, t, nw, dw, nt)
  <2>1. Claims(t, l, dw[l].hs)
    <3>1. dw[l].hs.Term = dk[l].hs.Term /\ dw[l].hs.Vote = dk[l].hs.Vote BY <1>7
    <3> QED BY <1>13, <3>1 DEF Won, Claims
  <2>2. Boxes(nw[l]) \subseteq Boxes(nd[l]) BY <1>7, <1>9
  <2>3. nw[l].state = "StateCandidate" =>
          nd[l].state = "StateCandidate" /\ nd[l].Term = nw[l].Term
    BY <1>5, <1>7
  <2> QED BY <1>13, <2>1, <2>2, <2>3 DEF Won
<1>14. \A k \in Server : \A m \in Boxes(nw[k]) \cup Range(nw[k].steps) :
         m \in Boxes(nd[k]) \cup Range(nd[k].steps)
  BY <1>7, <1>9
<1>15. Underway(nw, nt) \subseteq Underway(nd, nt) BY <1>14 DEF Underway
<1>16. Titled(e.log, e.hs.Term)
  <2>1. Titled(dk[i].log, dk[i].hs.Term) BY <1>1 DEF LeadInvariant
  <2> QED BY <2>1 DEF Titled
<1>17. Titled(s.log, s.Term) BY <1>5, <1>16
<1>18. LeadInvariant(nw, dw, nt)
  BY <1>1, <1>2, <1>7, <1>9, <1>11, <1>12, <1>13, <1>15, <1>16, <1>17, LeadOn
<1> QED BY <1>18 DEF nw, dw, s

LEMMA AdvanceKeepsLead ==
    ASSUME NEW nd \in [Server -> Node], NEW dk \in [Server -> Disk], NEW nt \in SUBSET Message,
           PanicInvariant(nd, dk, nt), NEW i \in Server, nd[i].steps # <<>>
    PROVE  LeadInvariant([nd EXCEPT ![i] = advanceOne(nd[i])], dk, nt)
<1> DEFINE r == nd[i]
           p == [r EXCEPT !.steps = Tail(@)]
           m == Head(r.steps)
           s == advanceOne(r)
<1>1. /\ CommitInvariant(nd, dk, nt) /\ LeadInvariant(nd, dk, nt)
      /\ ClusterInvariant(nd, dk, nt) /\ ElectionInvariant(nd, dk, nt)
  BY DEF PanicInvariant, CommitInvariant, ClusterInvariant
<1>2. /\ m \in Message /\ m \in Range(r.steps) /\ Stamped(m) /\ s = Step(p, m)
      /\ p \in Node /\ p.id = r.id /\ p.Term = r.Term
      /\ p.state = r.state /\ p.log = r.log /\ p.msgs = r.msgs /\ p.after = r.after
      /\ Seated(p)
      /\ s \in Node /\ Onward(r, s) /\ LogStep(r, s, {m})
  BY <1>1, AdvanceIsStep
<1>3. ElectionInvariant([nd EXCEPT ![i] = s], dk, nt) BY <1>1, AdvanceKeeps
<1>4. r \in Node OBVIOUS
<1>5. /\ p.committed = r.committed /\ p.prs = r.prs /\ p.lead = r.lead /\ p.panic = r.panic
      /\ p.leadTransferee = r.leadTransferee /\ p.voters = r.voters
  BY <1>4 DEF Node
<1> HIDE DEF p, m, s
<1>6. Fit(r) /\ m.to = i /\ Within(r) BY <1>1, <1>2, AllWithin DEF LeadInvariant
<1>7. m \in Underway(nd, nt) BY <1>2, UnderwayOf
<1>8. Group(nd, dk, nt) BY DEF Group
<1>9. Apt(r, m) BY <1>6, <1>7, <1>8, HeardApt
<1>10. {m} \in SUBSET Heard(nd, nt, i) BY <1>2 DEF Heard
<1> HIDE DEF r
<1>11. CommitStep(r, s, {m})
  <2>1. m.type \in AfterAppendTypes
    BY <1>1, <1>2 DEF CommitInvariant, OrderInvariant, Queued, r
  <2>2. m.type # "MsgHeartbeat" BY <2>1 DEF AfterAppendTypes
  <2>3. m \in {m} /\ {m} \in SUBSET Message BY <1>2
  <2>4. CommitStep(p, s, {m}) BY <1>2, <2>2, <2>3, StepCommitStep
  <2>5. r.Term \in Nat BY <1>4 DEF Node
  <2>6. Prepared(r, p) BY <1>2, <1>5, <2>5 DEF Prepared, Unmoved
  <2> QED BY <1>2, <1>4, <2>3, <2>4, <2>6, PreparedThen
<1>12. Sound(r, s, {m})
  <2>1. Fit(p) /\ Within(p) BY <1>2, <1>5, <1>6 DEF Fit, Within
  <2>2. Apt(p, m)
    <3>1. Clash(p, m) => Clash(r, m) BY <1>2, <1>5 DEF Clash
    <3> QED BY <1>2, <1>5, <1>9, <3>1 DEF Apt
  <2>3. m \in {m} OBVIOUS
  <2>4. Sound(p, s, {m}) BY <1>2, <2>1, <2>2, <2>3, StepSound
  <2>5. Boxes(p) = Boxes(r) BY <1>2 DEF Boxes
  <2>6. LeadFits(r, s, {m}) BY <1>2, <1>5, <2>4 DEF Sound, LeadFits
  <2> QED BY <2>4, <2>5, <2>6 DEF Sound
<1>13. LeadInvariant([nd EXCEPT ![i] = s], dk, nt)
  BY <1>2, <1>3, <1>10, <1>12, <1>11, StepKeepsLead DEF r
<1> QED BY <1>13 DEF s, r

----------------------------------------------------------------------------
(* An input with its Ready *)

LEMMA MovesKeepsPanic ==
    ASSUME TypeOK, PanicInv, NEW i \in Server, NEW r \in Node,
           BallotStep(node[i], r), Evidence(r, net),
           NEW N \in SUBSET Heard(node, net, i), LogStep(node[i], r, N),
           CommitStep(node[i], r, N), Sound(node[i], r, N), Moves(i, r)
    PROVE  PanicInv'
<1> DEFINE nb == [node EXCEPT ![i] = r]
           na == [nb EXCEPT ![i] = acceptReady(nb[i])]
           d == Written(disk[i], r)
           dw == [disk EXCEPT ![i] = d]
           nn == net \cup readyMessages(r)
<1>1. /\ node \in [Server -> Node] /\ disk \in [Server -> Disk] /\ net \in SUBSET Message
      /\ PanicInvariant(node, disk, net) /\ CommitInvariant(node, disk, net)
  BY DEF TypeOK, PanicInv, PanicInvariant
<1>2. nb \in [Server -> Node] /\ nb[i] = r BY <1>1
<1>3. PanicInvariant(nb, disk, net)
  <2>1. ElectionInvariant(nb, disk, net)
    BY <1>1, BallotKeeps DEF CommitInvariant, ClusterInvariant
  <2>2. Onward(node[i], r) BY BallotOnward
  <2>3. CommitInvariant(nb, disk, net) BY <1>1, <2>1, <2>2, StepKeepsCommit
  <2>4. LeadInvariant(nb, disk, net) BY <1>1, <2>1, <2>2, StepKeepsLead
  <2> QED BY <2>3, <2>4 DEF PanicInvariant
<1>4. CASE MaxPending > 0 \/ r.panic
  <2>1. node' = nb /\ disk' = disk /\ net' = net BY <1>4 DEF Moves
  <2> QED BY <1>3, <2>1 DEF PanicInv
<1>5. CASE ~(MaxPending > 0 \/ r.panic)
  <2>1. /\ node' = [node EXCEPT ![i] = Turn(r)]
        /\ disk' = dw /\ net' = nn
    BY <1>5 DEF Moves
  <2>2. /\ d \in Disk /\ d.hs = hardState(r) /\ d.log = r.log
        /\ d.synced = disk[i].synced \/ d.synced = r.committed
    BY <1>1, WrittenType DEF Written
  <2>3. readyMessages(r) \in SUBSET Boxes(r) /\ readyMessages(r) \in SUBSET Message
    BY ReadyMessagesType DEF readyMessages, Boxes
  <2> HIDE DEF nb, d
  <2>4. PanicInvariant(nb, dw, nn)
    <3>1. CommitInvariant(nb, disk, net) BY <1>3 DEF PanicInvariant
    <3>2. CommitInvariant(nb, dw, nn) BY <1>1, <1>2, <2>2, <2>3, <3>1, WriteKeepsCommit
    <3>3. LeadInvariant(nb, dw, nn) BY <1>1, <1>2, <1>3, <2>2, <2>3, WriteKeepsLead
    <3> QED BY <3>2, <3>3 DEF PanicInvariant
  <2>5. dw \in [Server -> Disk] /\ nn \in SUBSET Message /\ dw[i] = d BY <1>1, <2>2, <2>3
  <2> HIDE DEF dw, nn
  <2>6. PanicInvariant(na, dw, nn)
    <3>1. CommitInvariant(nb, dw, nn) BY <2>4 DEF PanicInvariant
    <3>2. CommitInvariant(na, dw, nn)
      BY <1>2, <2>2, <2>5, <3>1, AcceptReadyKeepsCommit
    <3>3. LeadInvariant(na, dw, nn) BY <1>2, <2>4, <2>5, AcceptReadyKeepsLead
    <3> QED BY <3>2, <3>3 DEF PanicInvariant
  <2>7. na \in [Server -> Node] /\ na[i] = acceptReady(r) BY <1>2, AcceptReadyType
  <2>8. CASE acceptReady(r).steps = <<>>
    <3>1. Turn(r) = acceptReady(r) BY SMTT(60), <2>8 DEF Turn
    <3>2. node' = na BY <1>2, <2>1, <3>1 DEF nb
    <3> QED BY <2>1, <2>6, <3>2 DEF PanicInv
  <2>9. CASE acceptReady(r).steps # <<>>
    <3>1. Turn(r) = advanceOne(acceptReady(r)) BY SMTT(60), <2>9 DEF Turn
    <3>2. node' = [na EXCEPT ![i] = advanceOne(na[i])] BY <1>1, <2>1, <2>7, <3>1 DEF nb
    <3> HIDE DEF na
    <3>3. CommitInvariant(na, dw, nn) BY <2>6 DEF PanicInvariant
    <3>4. CommitInvariant([na EXCEPT ![i] = advanceOne(na[i])], dw, nn)
      BY <2>5, <2>7, <2>9, <3>3, AdvanceKeepsCommit
    <3>5. LeadInvariant([na EXCEPT ![i] = advanceOne(na[i])], dw, nn)
      BY <2>5, <2>6, <2>7, <2>9, AdvanceKeepsLead
    <3> QED BY <2>1, <3>2, <3>4, <3>5 DEF PanicInv, PanicInvariant
  <2> QED BY <2>8, <2>9
<1> QED BY <1>4, <1>5

\* RestartFrom, from a disk d whose commit index may fall back to what was synced.
LEMMA RestartedKeepsLead ==
    ASSUME TypeOK, PanicInv, NEW i \in Server, NEW d \in Disk, RestartFrom(i, d), net' = net,
           d.hs = disk[i].hs, d.synced = disk[i].synced, d.log \in {disk[i].log, node[i].log},
           PreVote => d.log = disk[i].log
    PROVE  LeadInvariant(node', disk', net')
<1>1. /\ node \in [Server -> Node] /\ disk \in [Server -> Disk] /\ net \in SUBSET Message
      /\ PanicInvariant(node, disk, net)
  BY DEF TypeOK, PanicInv
<1>2. PICK c \in d.synced..d.hs.Commit :
        LET hs == [d.hs EXCEPT !.Commit = c]
        IN  /\ disk' = [disk EXCEPT ![i] = [hs |-> hs, log |-> d.log, synced |-> c]]
            /\ node' = [node EXCEPT ![i] = newRaft(i, Server, hs, d.log)]
  BY DEF RestartFrom
<1> DEFINE hs == [d.hs EXCEPT !.Commit = c]
           e == [hs |-> hs, log |-> d.log, synced |-> c]
<1>3. /\ c \in Nat /\ c <= d.hs.Commit /\ d.log \in Seq(Entry) /\ d.hs \in HardState
  BY DEF Disk, HardState
<1>4. /\ hs \in HardState /\ hs.Term = d.hs.Term /\ hs.Vote = d.hs.Vote /\ hs.Commit = c
  BY <1>3 DEF HardState
<1>5. disk' = [disk EXCEPT ![i] = e] /\ node' = [node EXCEPT ![i] = newRaft(i, Server, hs, d.log)]
  BY <1>2
<1> HIDE DEF hs
<1>6. e \in Disk /\ e.hs = hs /\ e.log = d.log BY <1>3, <1>4 DEF Disk
<1> HIDE DEF e
<1>7. /\ e.hs.Term = disk[i].hs.Term /\ e.hs.Vote = disk[i].hs.Vote
      /\ e.log \in {disk[i].log, node[i].log} /\ e.hs.Commit <= disk[i].hs.Commit
      /\ PreVote => e.log = disk[i].log
  BY <1>3, <1>4, <1>6
<1>8. LeadInvariant([node EXCEPT ![i] = newRaft(i, Server, e.hs, e.log)],
                    [disk EXCEPT ![i] = e], net)
  BY <1>1, <1>6, <1>7, RestartKeepsLead
<1> QED BY <1>5, <1>6, <1>8

----------------------------------------------------------------------------
(* PanicInv holds at first and after every step *)

LEMMA PanicInit == TypeOK /\ Init => PanicInv
<1> SUFFICES ASSUME TypeOK, Init PROVE PanicInv OBVIOUS
<1>1. CommitInvariant(node, disk, net) BY CommitInit DEF CommitInv
<1>3. ASSUME NEW i \in Server
      PROVE  /\ node[i].steps = <<>> /\ node[i].state = "StateFollower" /\ node[i].lead = Nil
             /\ \A d \in Server : node[i].msgs[d] = <<>> /\ node[i].after[d] = <<>>
             /\ node[i].id = i /\ node[i].panic = (0 > 0)
             /\ node[i].log = <<>> /\ disk[i].log = <<>>
  BY DEF Init, newRaft, restored, reset, InitialHardState
<1>4. Range(<<>>) = {} BY DEF Range
<1>5. \A i \in Server : Boxes(node[i]) = {} /\ Range(node[i].steps) = {}
  BY <1>3, <1>4 DEF Boxes
<1>6. net = {} BY DEF Init
<1>7. Underway(node, net) = {} BY <1>5, <1>6 DEF Underway
<1>8. ASSUME NEW i \in Server PROVE Fit(node[i]) /\ Obeys(node[i], node, disk, net)
  <2>1. ~(0 > 0) OBVIOUS
  <2>2. ~node[i].panic BY <1>3, <2>1
  <2>3. i # Nil BY ServerAssumption
  <2> QED BY <1>3, <1>4, <2>2, <2>3 DEF Fit, Obeys
<1>9. \A i \in Server :
        Titled(node[i].log, node[i].Term) /\ Titled(disk[i].log, disk[i].hs.Term)
  BY <1>3 DEF Titled
<1>10. LeadInvariant(node, disk, net) BY <1>5, <1>7, <1>8, <1>9 DEF LeadInvariant
<1> QED BY <1>1, <1>10 DEF PanicInv, PanicInvariant

\* What the application asks for is no leader's message.
LEMMA NothingFollowed ==
    ASSUME NEW r, NEW s, NEW m, ~FromLeader(m), Sound(r, s, {m})
    PROVE  Sound(r, s, {})
BY DEF Sound, LeadFits

\* Every step keeps PanicInv.
LEMMA PanicNext ==
    TypeOK /\ PanicInv /\ EntriesFirst /\ TermWithEntries /\ [Next]_vars => PanicInv'
<1> SUFFICES ASSUME TypeOK, PanicInv, EntriesFirst, TermWithEntries, [Next]_vars
             PROVE  PanicInv'
  OBVIOUS
<1>0. /\ node \in [Server -> Node] /\ disk \in [Server -> Disk] /\ net \in SUBSET Message
      /\ PanicInvariant(node, disk, net) /\ CommitInvariant(node, disk, net) /\ CommitInv
      /\ ElectionInvariant(node, disk, net) /\ LeadInvariant(node, disk, net)
  BY DEF TypeOK, PanicInv, PanicInvariant, CommitInv, CommitInvariant, ClusterInvariant
<1>1. CASE UNCHANGED vars BY <1>1 DEF vars, PanicInv
<1>2. ASSUME NEW i \in Server,
             \/ Tick(i) \/ LocalCall(i) \/ ReceiveAny(i)
             \/ Ready(i) \/ Advance(i) \/ Restart(i) \/ CrashInReady(i)
      PROVE  PanicInv'
  <2> DEFINE r == node[i]
  <2>0. /\ r \in Node /\ disk[i] \in Disk /\ r.id = i /\ r.voters = Server /\ Evidence(r, net)
        /\ Seated(r) /\ Fit(r) /\ Within(r) /\ Titled(r.log, r.Term)
    BY <1>0, AllWithin DEF ElectionInvariant, Evidence, Seated, LeadInvariant
  <2> HIDE DEF r
  <2>1. ASSUME NEW s \in Node, BallotStep(r, s), Evidence(s, net), NEW N \in SUBSET net,
               LogStep(r, s, N), CommitStep(r, s, N), Sound(r, s, N), Moves(i, s)
        PROVE  PanicInv'
    <3>1. N \in SUBSET Heard(node, net, i) BY DEF Heard
    <3> QED BY <2>1, <3>1, MovesKeepsPanic DEF r
  <2>2. ASSUME NEW m \in Message, Stamped(m), Given(r, m, net), NEW N \in SUBSET net,
               LogStep(r, Step(r, m), N), CommitStep(r, Step(r, m), N),
               Sound(r, Step(r, m), N), Moves(i, Step(r, m))
        PROVE  PanicInv'
    <3>1. Step(r, m) \in Node /\ BallotStep(r, Step(r, m)) /\ Evidence(Step(r, m), net)
      BY <2>0, <2>2, StepType, StepBallot
    <3> QED BY <2>1, <2>2, <3>1
  <2>3. ASSUME NEW m \in Message, m.type \in {"MsgProp", "MsgTransferLeader"}, m.term = 0,
               Moves(i, Step(r, m))
        PROVE  PanicInv'
    <3>1. Stamped(m) /\ Given(r, m, net) /\ OwnGrant(r, m)
      BY <2>3 DEF Stamped, Given, Granted, OwnGrant
    <3>2. LogStep(r, Step(r, m), {m}) BY <2>0, <3>1, StepLogStep
    <3>3. LogStep(r, Step(r, m), {}) BY <2>0, <2>3, <3>2, NothingLearned
    <3>4. CommitStep(r, Step(r, m), {m})
      <4>1. m \in {m} /\ {m} \in SUBSET Message OBVIOUS
      <4> QED BY <2>0, <2>3, <3>1, <4>1, StepCommitStep
    <3>5. CommitStep(r, Step(r, m), {})
      <4>1. {m} = {} \cup {m} OBVIOUS
      <4>2. CommitStep(r, Step(r, m), {} \cup {m}) BY <3>4, <4>1
      <4> QED BY <2>3, <4>2, NothingOwed
    <3>6. Sound(r, Step(r, m), {})
      <4>1. Apt(r, m) /\ ~FromLeader(m) BY <2>0, <2>3, AskedApt DEF FromLeader
      <4>2. m \in {m} OBVIOUS
      <4>3. Sound(r, Step(r, m), {m}) BY <2>0, <3>1, <4>1, <4>2, StepSound
      <4> QED BY <4>1, <4>3, NothingFollowed
    <3>7. {} \in SUBSET net OBVIOUS
    <3> QED BY <2>2, <2>3, <3>1, <3>3, <3>5, <3>6, <3>7
  <2>4. ASSUME NEW m \in net, m.to = i, Moves(i, Step(r, m)) PROVE PanicInv'
    <3>1. m \in Message /\ Stamped(m) BY <1>0 DEF ElectionInvariant
    <3>2. Given(r, m, net) /\ OwnGrant(r, m) BY <2>0, <2>4 DEF Given, OwnGrant
    <3>3. LogStep(r, Step(r, m), net) BY <2>0, <2>4, <3>1, <3>2, StepLogStep
    <3>4. CommitStep(r, Step(r, m), net) BY <1>0, <2>0, <2>4, <3>1, StepCommitStep
    <3>5. Apt(r, m)
      <4>1. Group(node, disk, net) /\ m \in Underway(node, net) BY <1>0 DEF Group, Underway
      <4> QED BY <1>0, <2>4, <4>1, HeardApt DEF r
    <3>6. Sound(r, Step(r, m), net) BY <2>0, <2>4, <3>1, <3>5, StepSound
    <3>7. net \in SUBSET net OBVIOUS
    <3> QED BY <2>2, <2>4, <3>1, <3>2, <3>3, <3>4, <3>6, <3>7
  <2>5. ASSUME NEW past \in BOOLEAN, Moves(i, tickElection(r, past)) PROVE PanicInv'
    <3>1. CommitStep(r, tickElection(r, past), {}) BY <2>0, TickElectionMindful
    <3>2. {} \in SUBSET net OBVIOUS
    <3>3. Sound(r, tickElection(r, past), {}) BY <2>0, TickElectionSound
    <3> QED
      BY <2>0, <2>1, <2>5, <3>1, <3>2, <3>3, TickElectionType, TickElectionBallot,
         TickElectionLogStep
  <2>6. ASSUME NEW timedOut \in BOOLEAN, NEW beat \in BOOLEAN,
               Moves(i, tickHeartbeat(r, timedOut, beat))
        PROVE  PanicInv'
    <3>1. CommitStep(r, tickHeartbeat(r, timedOut, beat), {})
      BY <2>0, TickHeartbeatMindful DEF CommitStep
    <3>2. {} \in SUBSET net OBVIOUS
    <3>3. Sound(r, tickHeartbeat(r, timedOut, beat), {}) BY <2>0, TickHeartbeatSound
    <3> QED
      BY <2>0, <2>1, <2>6, <3>1, <3>2, <3>3, TickHeartbeatType, TickHeartbeatBallot,
         TickHeartbeatLogStep
  <2>7. CASE Tick(i)
    BY <2>5, <2>6, <2>7 DEF Tick, TickElection, TickLease, TickBeat, TickQuorum, r
  <2>8. CASE Propose(i)
    <3>1. PICK v \in Value :
            Moves(i, Step(r, [Msg("MsgProp", i, i) EXCEPT !.entries = <<[term |-> 0, val |-> v]>>]))
      BY <2>8 DEF Propose, r
    <3> DEFINE ents == <<[term |-> 0, val |-> v]>>
               msg == Msg("MsgProp", i, i)
               m == [msg EXCEPT !.entries = ents]
    <3>2. ents \in Seq(Entry) BY DEF Entry
    <3>3. msg \in Message /\ msg.type = "MsgProp" /\ msg.term = 0
      BY MsgIsMessage DEF MsgType, Msg
    <3>4. Moves(i, Step(r, m)) BY <3>1
    <3> HIDE DEF ents, msg
    <3>5. m \in Message /\ m.type = "MsgProp" /\ m.term = 0 BY <3>2, <3>3 DEF Message
    <3> HIDE DEF m
    <3> QED BY <2>3, <3>4, <3>5
  <2>9. CASE TransferLeader(i)
    <3>1. PICK to \in Server : Moves(i, Step(r, Msg("MsgTransferLeader", to, i)))
      BY <2>9 DEF TransferLeader, r
    <3> DEFINE m == Msg("MsgTransferLeader", to, i)
    <3>2. m \in Message /\ m.type = "MsgTransferLeader" /\ m.term = 0
      BY MsgIsMessage DEF MsgType, Msg
    <3>3. Moves(i, Step(r, m)) BY <3>1
    <3> HIDE DEF m
    <3> QED BY <2>3, <3>2, <3>3
  <2>10. CASE ReportUnreachable(i)
    <3>1. /\ r.state = "StateLeader"
          /\ \E id \in Server \ {i} : Moves(i, handleUnreachable(r, id))
      BY <2>10 DEF ReportUnreachable, r
    <3>2. PICK id \in Server \ {i} : Moves(i, handleUnreachable(r, id)) BY <3>1
    <3> DEFINE s == handleUnreachable(r, id)
    <3>3. s \in Node /\ Quiet(r, s) BY <2>0, HandleUnreachableType, HandleUnreachableQuiet
    <3>4. Kept(r, s) BY <2>0, HandleUnreachableKept
    <3>5. Steady(r, s) BY <2>0, HandleUnreachableSteady
    <3>6. Calm(r, s) BY <2>0, <3>1, HandleUnreachableCalm
    <3>7. Moves(i, s) BY <3>2
    <3> HIDE DEF s
    <3>8. LogStep(r, s, {}) BY <2>0, <3>3, <3>4, KeptLogStep
    <3>9. CommitStep(r, s, {}) BY <2>0, <3>5, SteadyMindful DEF CommitStep
    <3>10. Sound(r, s, {}) BY <3>6, CalmSound
    <3>11. {} \in SUBSET net OBVIOUS
    <3> QED
      BY <2>0, <2>1, <3>3, <3>7, <3>8, <3>9, <3>10, <3>11, QuietIsBallot, QuietKeepsEvidence
  <2>11. ASSUME NEW types, Receive(i, types) PROVE PanicInv'
    BY <2>4, <2>11 DEF Receive, r
  <2>12. CASE ReceiveAny(i)
    BY <2>11, <2>12 DEF ReceiveAny, ReceiveVote, ReceiveVoteResp, ReceiveApp, ReceiveAppResp,
       ReceiveHeartbeat, ReceiveHeartbeatResp, ReceiveTransferLeader, ReceiveProp,
       ReceiveTimeoutNow
  <2>13. CASE Ready(i)
    <3> DEFINE d == Written(disk[i], node[i])
               dw == [disk EXCEPT ![i] = d]
               nn == net \cup readyMessages(node[i])
    <3>1. /\ d \in Disk /\ d.hs = hardState(node[i]) /\ d.log = node[i].log
          /\ d.synced = disk[i].synced \/ d.synced = node[i].committed
      BY <2>0, WrittenType DEF Written, r
    <3>2. /\ readyMessages(node[i]) \in SUBSET Boxes(node[i])
          /\ readyMessages(node[i]) \in SUBSET Message
      BY <2>0, ReadyMessagesType DEF readyMessages, Boxes, r
    <3>3. node' = [node EXCEPT ![i] = acceptReady(node[i])] /\ disk' = dw /\ net' = nn
      BY <2>13 DEF Ready
    <3> HIDE DEF d
    <3>4. CommitInvariant(node, dw, nn) BY <1>0, <3>1, <3>2, WriteKeepsCommit
    <3>5. LeadInvariant(node, dw, nn) BY <1>0, <3>1, <3>2, WriteKeepsLead
    <3>6. PanicInvariant(node, dw, nn) BY <3>4, <3>5 DEF PanicInvariant
    <3>7. /\ dw \in [Server -> Disk] /\ nn \in SUBSET Message
          /\ dw[i].hs = hardState(node[i]) /\ dw[i].log = node[i].log
      BY <1>0, <3>1, <3>2
    <3> HIDE DEF dw, nn
    <3>8. CommitInvariant([node EXCEPT ![i] = acceptReady(node[i])], dw, nn)
      BY <1>0, <3>4, <3>7, AcceptReadyKeepsCommit
    <3>9. LeadInvariant([node EXCEPT ![i] = acceptReady(node[i])], dw, nn)
      BY <1>0, <3>6, <3>7, AcceptReadyKeepsLead
    <3> QED BY <3>3, <3>8, <3>9 DEF PanicInv, PanicInvariant
  <2>14. CASE Advance(i)
    <3>1. node[i].steps # <<>> BY <2>14 DEF Advance
    <3>2. CommitInvariant([node EXCEPT ![i] = advanceOne(node[i])], disk, net)
      BY <1>0, <3>1, AdvanceKeepsCommit
    <3>3. LeadInvariant([node EXCEPT ![i] = advanceOne(node[i])], disk, net)
      BY <1>0, <3>1, AdvanceKeepsLead
    <3>4. /\ node' = [node EXCEPT ![i] = advanceOne(node[i])]
          /\ disk' = disk /\ net' = net
      BY <2>14 DEF Advance
    <3> QED BY <3>2, <3>3, <3>4 DEF PanicInv, PanicInvariant
  <2>15. ASSUME NEW d \in Disk, RestartFrom(i, d), net' = net, d.hs = disk[i].hs,
                d.synced = disk[i].synced, d.log \in {disk[i].log, node[i].log},
                PreVote => d.log = disk[i].log
         PROVE  PanicInv'
    <3>1. CommitInv' BY <1>0, <2>15, RestartedKeepsCommit
    <3>2. LeadInvariant(node', disk', net') BY <2>15, RestartedKeepsLead
    <3> QED BY <3>1, <3>2 DEF PanicInv, PanicInvariant, CommitInv
  <2>16. CASE Restart(i)
    <3>1. RestartFrom(i, disk[i]) /\ net' = net BY <2>16 DEF Restart
    <3> QED BY <2>0, <2>15, <3>1
  <2>17. CASE CrashInReady(i)
    <3> DEFINE half == [disk[i] EXCEPT !.log = node[i].log]
    <3>1. /\ half \in Disk /\ half.hs = disk[i].hs /\ half.log = node[i].log
          /\ half.synced = disk[i].synced
      BY <2>0 DEF Disk, Node, r
    <3>2. RestartFrom(i, half) /\ net' = net /\ ~PreVote
      BY <2>17 DEF CrashInReady, EntriesFirst, TermWithEntries
    <3> HIDE DEF half
    <3> QED BY <2>15, <3>1, <3>2
  <2> QED BY <1>2, <2>7, <2>8, <2>9, <2>10, <2>12, <2>13, <2>14, <2>16, <2>17 DEF LocalCall
<1> QED BY <1>1, <1>2 DEF Next

\* Leadership is book-kept as PanicInv says in every reachable state, as long as
\* a Ready's hard state is not written without its entries, and with PreVote not
\* its entries without the hard state either (core_prevote_crash.cfg shows why).
THEOREM PanicInvariance == EntriesFirst /\ TermWithEntries => (Spec => []PanicInv)
<1> SUFFICES ASSUME EntriesFirst, TermWithEntries PROVE Spec => []PanicInv OBVIOUS
<1>1. TypeOK /\ Init => PanicInv BY PanicInit
<1>2. TypeOK /\ PanicInv /\ [Next]_vars => PanicInv' BY PanicNext
<1>3. Spec => []TypeOK BY TypeCorrect
<1> QED BY <1>1, <1>2, <1>3, PTL DEF Spec

\* No Panicf that RaftNode models is reachable under these two conditions on what
\* a crash leaves: no commit index beyond the log (commitTo, newRaft), no conflict
\* below it (maybeAppend), no follower that needs a snapshot of a log nobody
\* compacted (maybeSendAppend), no campaign message without a term, no other
\* message that has one before it is sent, no message to itself (send), and no
\* illegal role change.
THEOREM NeverPanics == EntriesFirst /\ TermWithEntries => (Spec => []NoPanic)
<1> SUFFICES ASSUME EntriesFirst, TermWithEntries PROVE Spec => []NoPanic OBVIOUS
<1>1. PanicInv => NoPanic BY DEF PanicInv, PanicInvariant, LeadInvariant, Fit, NoPanic
<1>2. Spec => []PanicInv BY PanicInvariance
<1> QED BY <1>1, <1>2, PTL
=============================================================================
