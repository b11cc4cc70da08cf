---------------------------- MODULE RaftLogProofs ----------------------------
(***************************************************************************)
(* Logs match, and leaders only append, for every group and every          *)
(* configuration: the proof of LogMatching, in two halves.                 *)
(*                                                                         *)
(* First, what each operator of RaftNode does to the links of RaftLogs.    *)
(* Most are Kept (the log stays, and what they send carries links of that  *)
(* log).  A leader adds links of its term; a follower takes links from the *)
(* MsgApp it handles.  And, beyond what RaftElectionProofs says of votes:  *)
(* who becomes a candidate enters a new term, and who becomes a leader was *)
(* a candidate that had been granted something.                            *)
(*                                                                         *)
(* Then, each thing that can happen to the group (a step of one server, a  *)
(* write of its disk, a Ready, a restart) keeps ClusterInvariant: who won  *)
(* a term stays its only winner, and no link comes about but in the log of *)
(* the leader of the term.                                                 *)
(***************************************************************************)
EXTENDS RaftLogs, RaftElectionProofs, WellFoundedInduction

----------------------------------------------------------------------------
(* Operators that keep the log *)

\* From r to s the log stays, and every new message carries links of it.
Kept(r, s) ==
    /\ s.log = r.log
    /\ \A m \in Boxes(s) : m \in Boxes(r) \/ Carried(m) \subseteq LogLinks(r.log)

LEMMA KeptRefl == ASSUME NEW r PROVE Kept(r, r)
BY DEF Kept

LEMMA KeptTrans ==
    ASSUME NEW r, NEW s, NEW t, Kept(r, s), Kept(s, t)
    PROVE  Kept(r, t)
BY DEF Kept

LEMMA KeptBoxes ==
    ASSUME NEW r, NEW s, s.msgs = r.msgs, s.after = r.after, s.log = r.log
    PROVE  Kept(r, s)
BY SameBoxes DEF Kept

\* Only a MsgApp carries links.
LEMMA NoLinks == ASSUME NEW m, m.type # "MsgApp" PROVE Carried(m) = {}
BY DEF Carried

\* What the links of a log are.
LEMMA LinkOfLog ==
    ASSUME NEW log, NEW k \in 1..Len(log)
    PROVE  [at |-> k, entry |-> log[k], prev |-> TermAt(log, k - 1)] \in LogLinks(log)
BY DEF LogLinks

LEMMA SendKept ==
    ASSUME NEW r \in Node, NEW m \in Message, Carried(Outgoing(r, m)) \subseteq LogLinks(r.log)
    PROVE  Kept(r, send(r, m))
<1>1. send(r, m).log = r.log BY DEF send, Panic, Node
<1> QED BY <1>1, SendBoxes DEF Kept

LEMMA SendOther ==
    ASSUME NEW r \in Node, NEW m \in Message, m.type # "MsgApp"
    PROVE  Kept(r, send(r, m))
<1>1. Outgoing(r, m).type = m.type BY DEF Outgoing, Message
<1> QED BY <1>1, NoLinks, SendKept

LEMMA PanicKept == ASSUME NEW r \in Node PROVE Kept(r, Panic(r))
<1>1. Panic(r).msgs = r.msgs /\ Panic(r).after = r.after /\ Panic(r).log = r.log
  BY DEF Panic, Node
<1> QED BY <1>1, KeptBoxes

LEMMA ProgressKept ==
    ASSUME NEW r \in Node, NEW d \in Server, NEW pr
    PROVE  Kept(r, [r EXCEPT !.prs[d] = pr])
<1> DEFINE s == [r EXCEPT !.prs[d] = pr]
<1>1. s.msgs = r.msgs /\ s.after = r.after /\ s.log = r.log BY DEF Node
<1> QED BY <1>1, KeptBoxes

LEMMA CommitToKept ==
    ASSUME NEW r \in Node, NEW tocommit \in Nat
    PROVE  Kept(r, commitTo(r, tocommit))
<1> DEFINE s == [r EXCEPT !.committed = tocommit]
<1>1. s.msgs = r.msgs /\ s.after = r.after /\ s.log = r.log BY DEF Node
<1>2. Kept(r, s) BY <1>1, KeptBoxes
<1> QED BY <1>2, PanicKept, KeptRefl DEF commitTo

LEMMA MaybeCommitKept == ASSUME NEW r \in Node PROVE Kept(r, maybeCommit(r))
BY CommittedType, CommitToKept, KeptRefl DEF maybeCommit

\* A MsgApp carries links of its sender's log, the first with the term that
\* precedes it there.
LEMMA AppLinks ==
    ASSUME NEW log \in Seq(Entry), NEW next \in Nat \ {0}, NEW m \in Message,
           m.index = next - 1, m.logTerm = TermAt(log, next - 1),
           m.entries = Entries(log, next)
    PROVE  Carried(m) \subseteq LogLinks(log)
<1> DEFINE n == Least(Len(log), next + MaxEntries - 1)
<1>1. Len(log) \in Nat /\ MaxEntries \in Nat \ {0} BY LenProperties, ConfigAssumption
<1>2. n \in Nat /\ n <= Len(log)
  <2>1. next + MaxEntries - 1 \in Nat BY <1>1
  <2> QED BY <1>1, <2>1, LeastType
<1> HIDE DEF n
<1>3. m.entries = SubSeq(log, next, n) BY DEF Entries, n
<1>4. \A i \in next..n : i \in 1..Len(log) BY <1>1, <1>2
<1>5. /\ Len(m.entries) = IF next <= n THEN n - next + 1 ELSE 0
      /\ \A k \in 1..Len(m.entries) : m.entries[k] = log[next + k - 1]
  <2>1. \A i \in next..n : log[i] \in Entry BY <1>4, ElementOfSeq
  <2> QED BY <1>2, <1>3, <2>1, SubSeqProperties
<1>6. ASSUME NEW k \in 1..Len(m.entries)
      PROVE  [at |-> m.index + k, entry |-> m.entries[k],
              prev |-> IF k = 1 THEN m.logTerm ELSE m.entries[k - 1].term] \in LogLinks(log)
  <2> DEFINE at == m.index + k
  <2>1. at \in 1..Len(log) /\ at = next + k - 1
    <3>1. next <= n /\ k \in 1..(n - next + 1) BY <1>2, <1>5
    <3> QED BY <3>1, <1>1, <1>2
  <2>2. m.entries[k] = log[at] BY <1>5, <2>1
  <2>3. (IF k = 1 THEN m.logTerm ELSE m.entries[k - 1].term) = TermAt(log, at - 1)
    <3>1. CASE k = 1 BY <3>1, <2>1
    <3>2. CASE k # 1
      <4>1. k - 1 \in 1..Len(m.entries) /\ at - 1 = next + (k - 1) - 1 /\ at - 1 \in 1..Len(log)
        BY <3>2, <2>1, <1>1, <1>2, <1>5
      <4>2. m.entries[k - 1] = log[at - 1] BY <1>5, <4>1
      <4> QED BY <3>2, <4>1, <4>2 DEF TermAt
    <3> QED BY <3>1, <3>2
  <2> HIDE DEF at
  <2>4. [at |-> at, entry |-> log[at], prev |-> TermAt(log, at - 1)] \in LogLinks(log)
    BY <2>1, LinkOfLog
  <2> QED BY <2>2, <2>3, <2>4 DEF at
<1> QED BY <1>6 DEF Carried

LEMMA AppMsgLinks ==
    ASSUME NEW r \in Node, NEW to \in Server, NEW next \in Nat \ {0}, NEW term \in Nat
    PROVE  Carried([AppMsg(r, to, next) EXCEPT !.term = term]) \subseteq LogLinks(r.log)
<1> DEFINE app == AppMsg(r, to, next)
           m == [app EXCEPT !.term = term]
<1>1. app \in Message BY AppMsgType
<1>2. /\ app.index = next - 1 /\ app.logTerm = TermAt(r.log, next - 1)
      /\ app.entries = Entries(r.log, next)
  BY DEF AppMsg, Msg
<1> HIDE DEF app
<1>3. /\ m \in Message /\ m.index = next - 1 /\ m.logTerm = TermAt(r.log, next - 1)
      /\ m.entries = Entries(r.log, next)
  BY <1>1, <1>2 DEF Message
<1> HIDE DEF m
<1>4. r.log \in Seq(Entry) BY DEF Node
<1>5. Carried(m) \subseteq LogLinks(r.log) BY <1>3, <1>4, AppLinks
<1> QED BY <1>5 DEF m, app

LEMMA SendAppKept ==
    ASSUME NEW r \in Node, NEW m \in Message,
           Carried([m EXCEPT !.term = r.Term]) \subseteq LogLinks(r.log), m.type = "MsgApp"
    PROVE  Kept(r, sendApp(r, m))
<1> DEFINE to == m.to
           pr == r.prs[to]
           n == Len(m.entries)
           sent == UpdateOnEntriesSend(pr, n, pr.Next)
           s == [r EXCEPT !.prs[to] = sent]
<1>1. to \in Server /\ n \in Nat BY LenProperties DEF Message
<1>2. sent \in Progress BY <1>1, UpdateOnEntriesSendType DEF Node
<1> HIDE DEF sent, to
<1>3. s \in Node /\ Kept(r, s) BY <1>1, <1>2, ProgressOf, ProgressKept
<1>4. s.Term = r.Term BY DEF Node
<1>5. sendApp(r, m) = send(s, m) BY DEF sendApp, sent, to
<1> HIDE DEF s
<1>6. Outgoing(s, m) = [m EXCEPT !.term = r.Term] BY <1>4 DEF Outgoing, VoteTypes
<1>7. Kept(s, send(s, m)) BY <1>3, <1>6, SendKept DEF Kept
<1> QED BY <1>3, <1>5, <1>7, KeptTrans

LEMMA MaybeSendAppendKept ==
    ASSUME NEW r \in Node, NEW to \in Server, NEW sendIfEmpty \in BOOLEAN
    PROVE  Kept(r, maybeSendAppend(r, to, sendIfEmpty))
<1> DEFINE next == r.prs[to].Next
           m == AppMsg(r, to, next)
<1>1. next \in Nat \ {0} /\ r.Term \in Nat BY DEF Node, Progress
<1> HIDE DEF next
<1>2. m \in Message BY <1>1, AppMsgType
<1>3. m.type = "MsgApp" BY DEF AppMsg, Msg
<1>4. Carried([m EXCEPT !.term = r.Term]) \subseteq LogLinks(r.log) BY <1>1, AppMsgLinks
<1> HIDE DEF m
<1>5. Kept(r, sendApp(r, m)) BY <1>2, <1>3, <1>4, SendAppKept
<1> QED BY <1>5, PanicKept, KeptRefl DEF maybeSendAppend, m, next

LEMMA SendAppendKept ==
    ASSUME NEW r \in Node, NEW to \in Server
    PROVE  Kept(r, sendAppend(r, to))
BY MaybeSendAppendKept DEF sendAppend

LEMMA JoinedKept ==
    ASSUME NEW r \in Node, NEW each \in [Server -> Node], \A d \in Server : Kept(r, each[d])
    PROVE  Kept(r, joined(r, each))
<1> DEFINE s == joined(r, each)
<1>1. s.log = r.log /\ s.after = r.after /\ \A d \in Server : s.msgs[d] = each[d].msgs[d]
  BY DEF joined, Node
<1> HIDE DEF s
<1>2. ASSUME NEW m \in Boxes(s) PROVE m \in Boxes(r) \/ Carried(m) \subseteq LogLinks(r.log)
  <2>1. PICK d \in Server : m \in Range(s.msgs[d]) \/ m \in Range(s.after[d])
    BY <1>2 DEF Boxes
  <2>2. CASE m \in Range(s.msgs[d])
    <3>1. m \in Boxes(each[d]) BY <1>1, <2>2 DEF Boxes
    <3> QED BY <3>1 DEF Kept
  <2>3. CASE m \in Range(s.after[d]) BY <1>1, <2>3 DEF Boxes
  <2> QED BY <2>1, <2>2, <2>3
<1> QED BY <1>1, <1>2 DEF Kept, s

LEMMA BcastAppendKept == ASSUME NEW r \in Node PROVE Kept(r, bcastAppend(r))
<1> DEFINE each == [d \in Server |-> IF d \in r.voters \ {r.id} THEN sendAppend(r, d) ELSE r]
<1>1. each \in [Server -> Node] BY SendAppendType
<1>2. \A d \in Server : Kept(r, each[d]) BY SendAppendKept, KeptRefl
<1> HIDE DEF each
<1>3. Kept(r, joined(r, each)) BY <1>1, <1>2, JoinedKept
<1> QED BY <1>3 DEF bcastAppend, each

LEMMA BcastHeartbeatKept == ASSUME NEW r \in Node PROVE Kept(r, bcastHeartbeat(r))
<1> DEFINE s == bcastHeartbeat(r)
<1>1. /\ s.log = r.log /\ s.after = r.after
      /\ \A d \in Server : s.msgs[d] = IF d \in r.voters \ {r.id}
                                       THEN Append(r.msgs[d], heartbeatMsg(r, d)) ELSE r.msgs[d]
  BY DEF bcastHeartbeat, Node
<1> HIDE DEF s
<1>2. ASSUME NEW d \in Server
      PROVE  heartbeatMsg(r, d) \in Message /\ Carried(heartbeatMsg(r, d)) = {}
  <2>1. heartbeatMsg(r, d) \in Message BY HeartbeatMsgType
  <2>2. heartbeatMsg(r, d).type = "MsgHeartbeat" BY DEF heartbeatMsg, Msg
  <2> QED BY <2>1, <2>2, NoLinks
<1>3. ASSUME NEW m \in Boxes(s) PROVE m \in Boxes(r) \/ Carried(m) \subseteq LogLinks(r.log)
  <2>1. PICK d \in Server : m \in Range(s.msgs[d]) \/ m \in Range(s.after[d])
    BY <1>3 DEF Boxes
  <2>2. r.msgs[d] \in Seq(Message) BY DEF Node
  <2>3. m \in Range(r.msgs[d]) \/ m \in Range(r.after[d]) \/ m = heartbeatMsg(r, d)
    BY <1>1, <1>2, <2>1, <2>2, RangeAppend
  <2> QED BY <1>2, <2>3 DEF Boxes
<1> QED BY <1>1, <1>3 DEF Kept, s

LEMMA SendTimeoutNowKept ==
    ASSUME NEW r \in Node, NEW to \in Server
    PROVE  Kept(r, sendTimeoutNow(r, to))
<1>1. Msg("MsgTimeoutNow", r.id, to) \in Message BY MsgIsMessage DEF Node, MsgType
<1>2. Msg("MsgTimeoutNow", r.id, to).type = "MsgTimeoutNow" BY DEF Msg
<1> QED BY <1>1, <1>2, SendOther DEF sendTimeoutNow

\* The messages of a batch carry links of the log.
LEMMA BatchLinks ==
    ASSUME NEW r \in Node, NEW to \in Server, ~(r.prs[to].Next > Len(r.log)),
           NEW k \in 1..Len(AppBatch(r, to))
    PROVE  Carried(AppBatch(r, to)[k]) \subseteq LogLinks(r.log)
<1> DEFINE next  == r.prs[to].Next
           count == (Len(r.log) - next + MaxEntries) \div MaxEntries
           at == next + (k - 1) * MaxEntries
           msg(j) == [AppMsg(r, to, next + (j - 1) * MaxEntries) EXCEPT !.term = r.Term]
<1>1. /\ AppBatch(r, to) \in Seq(Message) /\ Len(AppBatch(r, to)) \in Nat
      /\ r.Term \in Nat /\ next \in Nat \ {0} /\ MaxEntries \in Nat \ {0}
  BY AppBatchType, LenProperties, ConfigAssumption DEF Node, Progress
<1>2. AppBatch(r, to) = [j \in 1..count |-> msg(j)] BY DEF AppBatch
<1> HIDE DEF count, msg
<1>3. DOMAIN AppBatch(r, to) = 1..count BY <1>2
<1>4. DOMAIN AppBatch(r, to) = 1..Len(AppBatch(r, to)) BY <1>1, LenProperties
<1>5. AppBatch(r, to)[k] = msg(k) BY <1>2, <1>3, <1>4
<1>6. k - 1 \in Nat BY <1>1
<1>7. (k - 1) * MaxEntries \in Nat BY <1>1, <1>6
<1>8. at \in Nat \ {0} BY <1>1, <1>7
<1>9. msg(k) = [AppMsg(r, to, at) EXCEPT !.term = r.Term] BY DEF msg
<1> HIDE DEF at
<1> QED BY <1>1, <1>5, <1>8, <1>9, AppMsgLinks

LEMMA SendRemainingKept ==
    ASSUME NEW r \in Node, NEW to \in Server
    PROVE  Kept(r, sendRemaining(r, to))
<1> DEFINE pr    == r.prs[to]
           batch == AppBatch(r, to)
           next  == Len(r.log) + 1
           s     == [r EXCEPT !.prs[to].Next = next, !.msgs[to] = @ \o batch]
<1>1. Kept(r, maybeSendAppend(r, to, FALSE)) BY MaybeSendAppendKept
<1>2. ASSUME ~(pr.Next > Len(r.log)) PROVE Kept(r, s)
  <2>1. /\ batch \in Seq(Message)
        /\ \A k \in 1..Len(batch) : Carried(batch[k]) \subseteq LogLinks(r.log)
    BY <1>2, AppBatchType, BatchLinks
  <2> HIDE DEF batch, next
  <2>2. s.log = r.log /\ s.after = r.after BY DEF Node
  <2>3. s.msgs = [r.msgs EXCEPT ![to] = @ \o batch] BY DEF Node
  <2> HIDE DEF s
  <2>4. r.msgs \in [Server -> Seq(Message)] BY DEF Node
  <2>5. \A m \in Range(batch) : Carried(m) \subseteq LogLinks(r.log)
    <3>1. Range(batch) = {batch[k] : k \in 1..Len(batch)} BY <2>1, RangeEquality
    <3> QED BY <2>1, <3>1
  <2>6. ASSUME NEW m \in Boxes(s) PROVE m \in Boxes(r) \/ Carried(m) \subseteq LogLinks(r.log)
    <3>1. PICK d \in Server : m \in Range(s.msgs[d]) \/ m \in Range(s.after[d])
      BY <2>6 DEF Boxes
    <3>2. CASE m \in Range(s.after[d]) BY <2>2, <3>2 DEF Boxes
    <3>3. CASE m \in Range(s.msgs[d]) /\ d # to BY <2>3, <2>4, <3>3 DEF Boxes
    <3>4. CASE m \in Range(s.msgs[d]) /\ d = to
      <4>1. s.msgs[d] = r.msgs[to] \o batch BY <2>3, <2>4, <3>4
      <4>2. Range(r.msgs[to] \o batch) = Range(r.msgs[to]) \cup Range(batch)
        BY <2>1, <2>4, RangeConcatenation
      <4> QED BY <2>5, <3>4, <4>1, <4>2 DEF Boxes
    <3> QED BY <3>1, <3>2, <3>3, <3>4
  <2> QED BY <2>2, <2>6 DEF Kept
<1> HIDE DEF batch, next
<1>3. CASE pr.State = "StateProbe" \/ pr.Next > Len(r.log)
  BY <1>3, <1>1 DEF sendRemaining
<1>4. CASE ~(pr.State = "StateProbe" \/ pr.Next > Len(r.log)) /\ IsPaused(pr)
  BY <1>4, KeptRefl DEF sendRemaining
<1>5. CASE ~(pr.State = "StateProbe" \/ pr.Next > Len(r.log)) /\ ~IsPaused(pr)
  BY <1>5, <1>2 DEF sendRemaining, batch, next
<1> QED BY <1>3, <1>4, <1>5

LEMMA HandleHeartbeatKept ==
    ASSUME NEW r \in Node, NEW m \in Message
    PROVE  Kept(r, handleHeartbeat(r, m))
<1> DEFINE s == commitTo(r, m.commit)
           resp == Msg("MsgHeartbeatResp", r.id, m.from)
<1>1. m.commit \in Nat /\ m.from \in Server /\ r.id \in Server BY DEF Node, Message
<1>2. s \in Node /\ Kept(r, s) BY <1>1, CommitToType, CommitToKept
<1>3. resp \in Message /\ resp.type = "MsgHeartbeatResp" BY <1>1, MsgIsMessage DEF MsgType, Msg
<1> HIDE DEF s, resp
<1>4. Kept(s, send(s, resp)) BY <1>2, <1>3, SendOther
<1>5. Kept(r, send(s, resp)) BY <1>2, <1>4, KeptTrans
<1> QED BY <1>5 DEF handleHeartbeat, s, resp

LEMMA HandleAppRejectKept ==
    ASSUME NEW r \in Node, NEW m \in Message
    PROVE  Kept(r, handleAppReject(r, m))
<1> DEFINE heard == [r EXCEPT !.prs[m.from].RecentActive = TRUE]
           pr == heard.prs[m.from]
           hint == rejectionHint(r, m)
           back == backOff(pr, m, hint)
           backed == [heard EXCEPT !.prs[m.from] = back]
<1>1. m.from \in Server /\ m.index \in Nat /\ m.hint \in Nat /\ m.logTerm \in Nat
  BY DEF Message
<1>2. heard \in Node /\ Kept(r, heard) BY <1>1, HeardType, ProgressKept
<1> HIDE DEF heard
<1>3. pr \in Progress BY <1>1, <1>2 DEF Node
<1>4. hint \in Nat BY <1>1, FindConflictByTermType DEF rejectionHint, Node
<1> HIDE DEF pr, hint
<1>5. back \in Progress BY <1>1, <1>3, <1>4, MaybeDecrToType, BecomeProbeType DEF backOff
<1> HIDE DEF back
<1>6. backed \in Node /\ Kept(heard, backed) BY <1>1, <1>2, <1>5, ProgressOf, ProgressKept
<1> HIDE DEF backed
<1>7. Kept(r, backed) BY <1>2, <1>6, KeptTrans
<1>8. Kept(backed, sendAppend(backed, m.from)) BY <1>1, <1>6, SendAppendKept
<1>9. Kept(r, sendAppend(backed, m.from)) BY <1>7, <1>8, KeptTrans
<1>10. handleAppReject(r, m) \in {heard, sendAppend(backed, m.from)}
  BY DEF handleAppReject, heard, backed, back, pr, hint
<1> QED BY <1>2, <1>9, <1>10

LEMMA HandleAppAcceptKept ==
    ASSUME NEW r \in Node, NEW m \in Message
    PROVE  Kept(r, handleAppAccept(r, m))
<1> DEFINE from == m.from
           heard == [r EXCEPT !.prs[from].RecentActive = TRUE]
           pr == heard.prs[from]
           upd == MaybeUpdate(pr, m.index)
           ack == acknowledged(pr, m.index)
           stale == [heard EXCEPT !.prs[from] = upd]
           acked == [heard EXCEPT !.prs[from] = ack]
           moved == maybeCommit(acked)
           told == announce(moved, r.committed, from, IsPaused(r.prs[from]))
           full == refill(told, from)
           sent == finishTransfer(full, from)
<1>1. from \in Server /\ m.index \in Nat BY DEF Message
<1>2. heard \in Node /\ Kept(r, heard) BY <1>1, HeardType, ProgressKept
<1> HIDE DEF heard
<1>3. pr \in Progress BY <1>1, <1>2 DEF Node
<1> HIDE DEF pr
<1>4. upd \in Progress BY <1>1, <1>3, MaybeUpdateType
<1>5. ack \in Progress BY <1>1, <1>3, MaybeUpdateType, BecomeReplicateType DEF acknowledged
<1> HIDE DEF upd, ack
<1>6. Kept(heard, stale) BY <1>1, <1>2, <1>4, ProgressKept
<1>7. acked \in Node /\ Kept(heard, acked) BY <1>1, <1>2, <1>5, ProgressOf, ProgressKept
<1> HIDE DEF stale, acked
<1>8. Kept(r, stale) /\ Kept(r, acked) BY <1>2, <1>6, <1>7, KeptTrans
<1>9. moved \in Node /\ Kept(r, moved)
  BY <1>7, <1>8, MaybeCommitType, MaybeCommitKept, KeptTrans
<1> HIDE DEF moved
<1>10. told \in Node /\ Kept(moved, told)
  BY <1>1, <1>9, BcastAppendType, SendAppendType, BcastAppendKept, SendAppendKept,
     KeptRefl DEF announce
<1> HIDE DEF told
<1>11. Kept(r, told) BY <1>9, <1>10, KeptTrans
<1>12. full \in Node /\ Kept(told, full)
  BY <1>1, <1>10, SendRemainingType, SendRemainingKept, KeptRefl DEF refill
<1> HIDE DEF full
<1>13. Kept(full, sent) BY <1>1, <1>12, SendTimeoutNowKept, KeptRefl DEF finishTransfer
<1> HIDE DEF sent
<1>14. Kept(r, sent) BY <1>11, <1>12, <1>13, KeptTrans
<1>15. handleAppAccept(r, m) \in {stale, sent}
  BY DEF handleAppAccept, sent, full, told, moved, acked, stale, ack, upd, pr, heard
<1> QED BY <1>8, <1>14, <1>15

LEMMA HandleHeartbeatRespKept ==
    ASSUME NEW r \in Node, NEW m \in Message
    PROVE  Kept(r, handleHeartbeatResp(r, m))
<1> DEFINE pr == [r.prs[m.from] EXCEPT !.RecentActive = TRUE, !.MsgAppFlowPaused = FALSE]
           s == [r EXCEPT !.prs[m.from] = pr]
<1>1. m.from \in Server BY DEF Message
<1>2. pr \in Progress
  <2>1. r.prs[m.from] \in Progress BY <1>1 DEF Node
  <2> QED BY <2>1 DEF Progress
<1> HIDE DEF pr
<1>3. s \in Node /\ Kept(r, s) BY <1>1, <1>2, ProgressOf, ProgressKept
<1> HIDE DEF s
<1>4. Kept(s, sendAppend(s, m.from)) BY <1>1, <1>3, SendAppendKept
<1>5. Kept(r, sendAppend(s, m.from)) BY <1>3, <1>4, KeptTrans
<1>6. s = [r EXCEPT !.prs[m.from].RecentActive = TRUE, !.prs[m.from].MsgAppFlowPaused = FALSE]
  BY <1>1 DEF s, pr, Node
<1>7. handleHeartbeatResp(r, m) \in {s, sendAppend(s, m.from)} BY <1>6 DEF handleHeartbeatResp
<1> QED BY <1>3, <1>5, <1>7

LEMMA HandleUnreachableKept ==
    ASSUME NEW r \in Node, NEW from \in Server
    PROVE  Kept(r, handleUnreachable(r, from))
BY ProgressKept, KeptRefl DEF handleUnreachable

LEMMA HandleTransferLeaderKept ==
    ASSUME NEW r \in Node, NEW m \in Message
    PROVE  Kept(r, handleTransferLeader(r, m))
<1> DEFINE s == [r EXCEPT !.leadTransferee = m.from, !.expired = FALSE]
           t == [r EXCEPT !.leadTransferee = Nil]
<1>1. m.from \in Server BY DEF Message
<1>2. s \in Node BY <1>1 DEF Node
<1>3. /\ s.msgs = r.msgs /\ s.after = r.after /\ s.log = r.log
      /\ t.msgs = r.msgs /\ t.after = r.after /\ t.log = r.log
  BY DEF Node
<1>4. Kept(r, s) /\ Kept(r, t) BY <1>3, KeptBoxes
<1> HIDE DEF s, t
<1>5. Kept(s, sendTimeoutNow(s, m.from)) BY <1>1, <1>2, SendTimeoutNowKept
<1>6. Kept(s, sendAppend(s, m.from)) BY <1>1, <1>2, SendAppendKept
<1>7. Kept(r, sendTimeoutNow(s, m.from)) /\ Kept(r, sendAppend(s, m.from))
  BY <1>4, <1>5, <1>6, KeptTrans
<1>8. handleTransferLeader(r, m) \in {r, t, sendTimeoutNow(s, m.from), sendAppend(s, m.from)}
  BY DEF handleTransferLeader, s, t
<1> QED BY <1>4, <1>7, <1>8, KeptRefl

LEMMA ForwardKept ==
    ASSUME NEW r \in Node, NEW m \in Message, m.type # "MsgApp"
    PROVE  Kept(r, forward(r, m))
<1> DEFINE n == [m EXCEPT !.to = r.lead]
<1>1. ASSUME r.lead # Nil PROVE Kept(r, send(r, n))
  <2>1. n \in Message /\ n.type = m.type BY <1>1 DEF Node, Message
  <2> HIDE DEF n
  <2> QED BY <2>1, SendOther
<1> HIDE DEF n
<1>2. forward(r, m) = IF r.lead = Nil THEN r ELSE send(r, n) BY DEF forward, n
<1> QED BY <1>1, <1>2, KeptRefl

LEMMA StepLowerTermKept ==
    ASSUME NEW r \in Node, NEW m \in Message
    PROVE  Kept(r, stepLowerTerm(r, m))
<1> DEFINE ack == Msg("MsgAppResp", r.id, m.from)
           resp == Msg("MsgPreVoteResp", r.id, m.from)
           refusal == [resp EXCEPT !.term = r.Term, !.reject = TRUE]
<1>1. r.Term \in Nat /\ r.id \in Server /\ m.from \in Server BY DEF Node, Message
<1>2. ack \in Message /\ ack.type = "MsgAppResp" BY <1>1, MsgIsMessage DEF MsgType, Msg
<1>3. resp \in Message /\ resp.type = "MsgPreVoteResp" BY <1>1, MsgIsMessage DEF MsgType, Msg
<1> HIDE DEF ack, resp
<1>4. refusal \in Message /\ refusal.type = "MsgPreVoteResp" BY <1>1, <1>3 DEF Message
<1> HIDE DEF refusal
<1>5. Kept(r, send(r, ack)) /\ Kept(r, send(r, refusal)) BY <1>2, <1>4, SendOther
<1>6. stepLowerTerm(r, m) \in {r, send(r, ack), send(r, refusal)}
  BY DEF stepLowerTerm, ack, resp, refusal
<1> QED BY <1>5, <1>6, KeptRefl

----------------------------------------------------------------------------
(* Operators that change the log *)

\* b is the log a with entries of term t behind it.
Extends(a, b, t) ==
    \E ents \in Seq(Entry) : b = a \o ents /\ \A k \in 1..Len(ents) : ents[k].term = t

\* What leaves r's successor s carries links of its log.
Sends(r, s) == \A m \in Boxes(s) : m \in Boxes(r) \/ Carried(m) \subseteq LogLinks(s.log)

\* The step of a leader.
Leads(r, s) == Extends(r.log, s.log, s.Term) /\ Sends(r, s)

\* The step of a server that does not lead, when it may read the messages N.
Follows(r, s, N) ==
    /\ LogLinks(s.log) \subseteq LogLinks(r.log) \cup UNION {Carried(m) : m \in N}
    /\ Sends(r, s)

LEMMA KeptFollows ==
    ASSUME NEW r, NEW s, NEW N, Kept(r, s)
    PROVE  Follows(r, s, N)
BY DEF Kept, Follows, Sends

LEMMA KeptLeads ==
    ASSUME NEW r \in Node, NEW s, Kept(r, s)
    PROVE  Leads(r, s)
<1>1. r.log \in Seq(Entry) /\ s.log = r.log BY DEF Node, Kept
<1> DEFINE none == <<>>
<1>2. none \in Seq(Entry) /\ Len(none) = 0 /\ r.log \o none = r.log
  BY <1>1, EmptySeq, ConcatEmptySeq
<1> HIDE DEF none
<1>3. s.log = r.log \o none /\ \A k \in 1..Len(none) : none[k].term = s.Term BY <1>1, <1>2
<1>4. Extends(r.log, s.log, s.Term) BY <1>2, <1>3 DEF Extends
<1> QED BY <1>4 DEF Kept, Leads, Sends

LEMMA LeadsThenKept ==
    ASSUME NEW r, NEW s, NEW t, Leads(r, s), Kept(s, t), t.Term = s.Term
    PROVE  Leads(r, t)
BY DEF Leads, Kept, Sends

LEMMA FollowsThenKept ==
    ASSUME NEW r, NEW s, NEW t, NEW N, Follows(r, s, N), Kept(s, t)
    PROVE  Follows(r, t, N)
BY DEF Follows, Kept, Sends

LEMMA KeptThenFollows ==
    ASSUME NEW r, NEW s, NEW t, NEW N, Kept(r, s), Boxes(s) = Boxes(r), Follows(s, t, N)
    PROVE  Follows(r, t, N)
BY DEF Follows, Kept, Sends

\* What a longer log has that the shorter one had not is of the new term.
LEMMA ExtendsLinks ==
    ASSUME NEW a \in Seq(Entry), NEW b \in Seq(Entry), NEW t, Extends(a, b, t)
    PROVE  /\ Len(a) <= Len(b) /\ \A k \in 1..Len(a) : b[k] = a[k]
           /\ LogLinks(a) \subseteq LogLinks(b)
           /\ \A l \in LogLinks(b) : l \in LogLinks(a) \/ l.entry.term = t
<1>1. PICK ents \in Seq(Entry) : b = a \o ents /\ \A k \in 1..Len(ents) : ents[k].term = t
  BY DEF Extends
<1>2. /\ Len(a) \in Nat /\ Len(ents) \in Nat /\ Len(b) = Len(a) + Len(ents)
      /\ \A k \in 1..Len(b) : b[k] = IF k <= Len(a) THEN a[k] ELSE ents[k - Len(a)]
  BY <1>1, LenProperties, ConcatProperties
<1>3. Len(a) <= Len(b) /\ \A k \in 1..Len(a) : k \in 1..Len(b) /\ b[k] = a[k] BY <1>2
<1>4. ASSUME NEW k \in 1..Len(a)
      PROVE  TermAt(b, k - 1) = TermAt(a, k - 1)
  <2>1. CASE k = 1 BY <2>1 DEF TermAt
  <2>2. CASE k # 1
    <3>1. k - 1 \in 1..Len(a) BY <2>2, <1>2
    <3> QED BY <3>1, <1>3 DEF TermAt
  <2> QED BY <2>1, <2>2
<1>5. LogLinks(a) \subseteq LogLinks(b) BY <1>3, <1>4 DEF LogLinks
<1>6. ASSUME NEW k \in 1..Len(b), k > Len(a) PROVE b[k].term = t
  <2>1. k - Len(a) \in 1..Len(ents) BY <1>2, <1>6
  <2>2. b[k] = ents[k - Len(a)] BY <1>2, <1>6
  <2> QED BY <1>1, <2>1, <2>2
<1>7. ASSUME NEW k \in 1..Len(b), k <= Len(a)
      PROVE  [at |-> k, entry |-> b[k], prev |-> TermAt(b, k - 1)] \in LogLinks(a)
  <2>1. k \in 1..Len(a) BY <1>2, <1>7
  <2> QED BY <2>1, <1>3, <1>4 DEF LogLinks
<1>8. \A l \in LogLinks(b) : l \in LogLinks(a) \/ l.entry.term = t
  <2> TAKE l \in LogLinks(b)
  <2>1. PICK k \in 1..Len(b) : l = [at |-> k, entry |-> b[k], prev |-> TermAt(b, k - 1)]
    BY DEF LogLinks
  <2>2. k <= Len(a) \/ k > Len(a) BY <1>2
  <2> QED BY <2>1, <2>2, <1>6, <1>7
<1> QED BY <1>3, <1>5, <1>8

LEMMA AppendEntryLeads ==
    ASSUME NEW r \in Node, NEW vals \in Seq(Value \cup {Nil})
    PROVE  Leads(r, appendEntry(r, vals)) /\ appendEntry(r, vals).Term = r.Term
<1> DEFINE ents == [k \in 1..Len(vals) |-> [term |-> r.Term, val |-> vals[k]]]
           log == r.log \o ents
           index == Len(r.log) + Len(vals)
           own == Msg("MsgAppResp", r.id, r.id)
           s == [r EXCEPT !.log = log]
           m == [own EXCEPT !.index = index]
<1>1. r.log \in Seq(Entry) /\ Len(r.log) \in Nat /\ Len(vals) \in Nat /\ r.Term \in Nat
  BY LenProperties DEF Node
<1>2. \A k \in 1..Len(vals) : [term |-> r.Term, val |-> vals[k]] \in Entry
  BY <1>1, ElementOfSeq DEF Entry
<1>3. ents \in Seq(Entry) /\ Len(ents) = Len(vals) BY <1>1, <1>2, MakeSeq
<1>4. \A k \in 1..Len(ents) : ents[k].term = r.Term BY <1>3
<1> HIDE DEF ents
<1>5. log \in Seq(Entry) BY <1>1, <1>3, ConcatProperties
<1>6. index \in Nat BY <1>1
<1>7. own \in Message /\ own.type = "MsgAppResp" BY MsgIsMessage DEF Node, MsgType, Msg
<1>8. Extends(r.log, log, r.Term) BY <1>3, <1>4 DEF Extends
<1> HIDE DEF log, index, own
<1>9. s \in Node /\ s.log = log /\ s.Term = r.Term BY <1>5 DEF Node
<1>10. Leads(r, s)
  <2>1. s.msgs = r.msgs /\ s.after = r.after BY DEF Node
  <2>2. Boxes(s) = Boxes(r) BY <2>1, SameBoxes
  <2> QED BY <1>8, <1>9, <2>2 DEF Leads, Sends
<1>11. m \in Message /\ m.type = "MsgAppResp" BY <1>6, <1>7 DEF Message
<1> HIDE DEF s, m
<1>12. Kept(s, send(s, m)) /\ send(s, m).Term = s.Term BY <1>9, <1>11, SendOther, SendBoxes
<1>13. appendEntry(r, vals) = send(s, m) BY DEF appendEntry, s, m, ents, log, index, own
<1> QED BY <1>9, <1>10, <1>12, <1>13, LeadsThenKept

\* A leader stamps the proposed payloads with its term and appends them.
LEMMA HandlePropLeads ==
    ASSUME NEW r \in Node, NEW m \in Message, r.Term > 0
    PROVE  Leads(r, handleProp(r, m))
<1> DEFINE vals == [k \in 1..Len(m.entries) |-> m.entries[k].val]
           s == appendEntry(r, vals)
<1>1. m.entries \in Seq(Entry) /\ Len(m.entries) \in Nat BY LenProperties DEF Message
<1>2. ASSUME NEW k \in 1..Len(m.entries) PROVE m.entries[k].val \in Value \cup {Nil}
  <2>1. m.entries[k] \in Entry BY <1>1, ElementOfSeq
  <2> QED BY <2>1 DEF Entry
<1>3. vals \in Seq(Value \cup {Nil}) BY <1>1, <1>2, MakeSeq
<1> HIDE DEF vals
<1>4. s \in Node /\ Leads(r, s) /\ s.Term = r.Term BY <1>3, AppendEntryType, AppendEntryLeads
<1> HIDE DEF s
<1>5. Kept(s, bcastAppend(s)) /\ bcastAppend(s).Term = s.Term
  BY <1>4, BcastAppendKept, BcastAppendQuiet DEF Quiet
<1>6. Leads(r, bcastAppend(s)) BY <1>4, <1>5, LeadsThenKept
<1> QED BY <1>6, KeptRefl, KeptLeads DEF handleProp, s, vals

LEMMA StepLeaderLeads ==
    ASSUME NEW r \in Node, NEW m \in Message, r.Term > 0
    PROVE  Leads(r, stepLeader(r, m))
BY HandlePropLeads, HandleAppRejectKept, HandleAppAcceptKept, HandleHeartbeatRespKept,
   HandleTransferLeaderKept, KeptRefl, KeptLeads DEF stepLeader, handleAppResp

\* The follower's half of the consistency check: a log that has the predecessor
\* of a MsgApp, and takes its entries from the first conflict on, has no link
\* that was not there or in the message before.
LEMMA SpliceLinks ==
    ASSUME NEW log \in Seq(Entry), NEW m \in Message, m.type = "MsgApp",
           matchTerm(log, m.index, m.logTerm), findConflict(log, m.index, m.entries) # 0
    PROVE  LET ci == findConflict(log, m.index, m.entries)
           IN  LogLinks(SubSeq(log, 1, ci - 1)
                        \o SubSeq(m.entries, ci - m.index, Len(m.entries)))
                 \subseteq LogLinks(log) \cup Carried(m)
<1> DEFINE ci == findConflict(log, m.index, m.entries)
           i == m.index
           ents == m.entries
           from == ci - i
           kept == SubSeq(log, 1, ci - 1)
           added == SubSeq(ents, from, Len(ents))
           new == kept \o added
<1>1. i \in Nat /\ ents \in Seq(Entry) /\ Len(ents) \in Nat /\ Len(log) \in Nat
  BY LenProperties DEF Message
<1>2. /\ ci \in (i + 1)..(i + Len(ents))
      /\ \A j \in (i + 1)..(ci - 1) : j <= Len(log) /\ TermAt(log, j) = ents[j - i].term
  BY <1>1, FindConflictFirst
<1>3. i <= Len(log) /\ TermAt(log, i) = m.logTerm BY DEF matchTerm
<1> HIDE DEF ci
<1>4. ci \in Nat /\ ci - 1 \in Nat /\ from \in 1..Len(ents) /\ ci - 1 <= Len(log)
  <2>1. ci \in Nat /\ ci - 1 \in Nat /\ from \in 1..Len(ents) BY <1>1, <1>2
  <2>2. CASE ci = i + 1
    <3>1. ci - 1 = i BY <2>2, <1>1
    <3> QED BY <2>1, <3>1, <1>3
  <2>3. CASE ci # i + 1
    <3>1. ci - 1 \in (i + 1)..(ci - 1) BY <1>1, <1>2, <2>3
    <3> QED BY <2>1, <3>1, <1>2
  <2> QED BY <2>1, <2>2, <2>3
<1>5. /\ kept \in Seq(Entry) /\ Len(kept) = ci - 1
      /\ \A k \in 1..(ci - 1) : kept[k] = log[k]
  <2>1. \A k \in 1..(ci - 1) : k \in 1..Len(log) BY <1>1, <1>4
  <2>2. \A k \in 1..(ci - 1) : log[k] \in Entry BY <2>1, ElementOfSeq
  <2>3. /\ kept \in Seq(Entry) /\ Len(kept) = IF 1 <= ci - 1 THEN ci - 1 - 1 + 1 ELSE 0
        /\ \A k \in 1..(ci - 1 - 1 + 1) : kept[k] = log[1 + k - 1]
    BY <1>4, <2>2, SubSeqProperties
  <2> HIDE DEF kept
  <2>4. Len(kept) = ci - 1 BY <2>3, <1>4
  <2>5. \A k \in 1..(ci - 1) : k \in 1..(ci - 1 - 1 + 1) /\ 1 + k - 1 = k BY <1>4
  <2>6. \A k \in 1..(ci - 1) : kept[k] = log[k] BY <2>3, <2>5
  <2> QED BY <2>3, <2>4, <2>6
<1>6. /\ added \in Seq(Entry) /\ Len(added) = Len(ents) - from + 1
      /\ \A k \in 1..Len(added) : added[k] = ents[from + k - 1]
  <2> HIDE DEF from
  <2>1. \A k \in from..Len(ents) : k \in 1..Len(ents) BY <1>1, <1>4
  <2>2. \A k \in from..Len(ents) : ents[k] \in Entry BY <1>1, <2>1, ElementOfSeq
  <2>3. /\ added \in Seq(Entry)
        /\ Len(added) = IF from <= Len(ents) THEN Len(ents) - from + 1 ELSE 0
        /\ \A k \in 1..(Len(ents) - from + 1) : added[k] = ents[from + k - 1]
    BY <1>1, <1>4, <2>2, SubSeqProperties
  <2> HIDE DEF added
  <2> QED BY <2>3, <1>1, <1>4
<1> HIDE DEF kept, added
<1>7. /\ Len(new) = Len(kept) + Len(added)
      /\ \A k \in 1..Len(new) : new[k] = IF k <= ci - 1 THEN log[k] ELSE ents[k - i]
  <2>1. /\ Len(new) = Len(kept) + Len(added)
        /\ \A k \in 1..(Len(kept) + Len(added)) :
             new[k] = IF k <= Len(kept) THEN kept[k] ELSE added[k - Len(kept)]
    BY <1>5, <1>6, ConcatProperties
  <2> HIDE DEF new
  <2>2. ASSUME NEW k \in 1..Len(new)
        PROVE  new[k] = IF k <= ci - 1 THEN log[k] ELSE ents[k - i]
    <3>1. CASE k <= ci - 1
      <4>1. k \in 1..(ci - 1) BY <1>4, <3>1, <2>1, <1>5, <1>6
      <4> QED BY <4>1, <2>1, <1>5, <3>1
    <3>2. CASE ~(k <= ci - 1)
      <4>1. k - (ci - 1) \in 1..Len(added) BY <3>2, <2>1, <1>1, <1>4, <1>5, <1>6
      <4>2. from + (k - (ci - 1)) - 1 = k - i BY <1>1, <1>4, <2>1, <1>5, <1>6
      <4>3. added[k - (ci - 1)] = ents[k - i] BY <4>1, <4>2, <1>6
      <4> QED BY <2>1, <3>2, <4>3, <1>5
    <3> QED BY <3>1, <3>2
  <2> QED BY <2>1, <2>2
<1> HIDE DEF new
<1>8. ASSUME NEW k \in 1..Len(new)
      PROVE  [at |-> k, entry |-> new[k], prev |-> TermAt(new, k - 1)]
               \in LogLinks(log) \cup Carried(m)
  <2>0. Len(new) = (ci - 1) + (Len(ents) - from + 1) /\ k \in Nat
    BY <1>1, <1>4, <1>5, <1>6, <1>7
  <2>1. CASE k <= ci - 1
    <3>1. k \in 1..Len(log) /\ new[k] = log[k] BY <1>1, <1>4, <1>7, <2>1
    <3>2. TermAt(new, k - 1) = TermAt(log, k - 1)
      <4>1. CASE k = 1 BY <4>1 DEF TermAt
      <4>2. CASE k # 1
        <5>1. k - 1 \in 1..Len(new) /\ k - 1 \in 1..Len(log) /\ k - 1 <= ci - 1
          BY <4>2, <1>1, <1>4, <2>0, <2>1, <3>1
        <5> QED BY <5>1, <1>7 DEF TermAt
      <4> QED BY <4>1, <4>2
    <3> QED BY <3>1, <3>2 DEF LogLinks
  <2>2. CASE ~(k <= ci - 1)
    <3> DEFINE j == k - i
               before == IF j = 1 THEN m.logTerm ELSE ents[j - 1].term
    <3>1. j \in 1..Len(ents) /\ k = i + j
      <4>1. k <= i + Len(ents) /\ k >= ci BY SMTT(60), <1>1, <1>4, <2>0, <2>2
      <4>2. k >= i + 1 /\ i \in Nat /\ k \in Nat /\ Len(ents) \in Nat BY <4>1, <1>1, <1>2, <1>4, <2>0
      <4> HIDE DEF i, ents
      <4> QED BY <4>1, <4>2
    <3>2. new[k] = ents[j] BY <1>7, <2>2
    <3>3. TermAt(new, k - 1) = before
      <4>1. CASE k - 1 <= ci - 1
        <5>1. k = ci /\ k - 1 \in Nat BY <4>1, <2>2, <2>0, <1>1, <1>4
        <5>2. TermAt(new, k - 1) = TermAt(log, k - 1)
          <6>1. CASE k = 1 BY <6>1 DEF TermAt
          <6>2. CASE k # 1
            <7>1. k - 1 \in 1..Len(new) /\ k - 1 \in 1..Len(log)
              <8>1. k \in 1..Len(new) OBVIOUS
              <8> QED BY <8>1, <6>2, <1>1, <1>4, <2>0, <5>1
            <7>2. new[k - 1] = log[k - 1] BY <7>1, <4>1, <1>7
            <7> QED BY <7>1, <7>2 DEF TermAt
          <6> QED BY <6>1, <6>2
        <5>3. CASE j = 1
          <6>1. k - 1 = i BY <5>3, <3>1, <1>1
          <6> QED BY <5>2, <5>3, <6>1, <1>3
        <5>4. CASE j # 1
          <6>1. k - 1 \in (i + 1)..(ci - 1) /\ (k - 1) - i = j - 1
            BY <5>1, <5>4, <3>1, <1>1, <1>4
          <6> QED BY <5>2, <5>4, <6>1, <1>2
        <5> QED BY <5>3, <5>4
      <4>2. CASE ~(k - 1 <= ci - 1)
        <5>1. k - 1 \in 1..Len(new) /\ j # 1 /\ (k - 1) - i = j - 1
          BY SMTT(60), <4>2, <1>1, <1>4, <2>0
        <5> QED BY <5>1, <4>2, <1>7 DEF TermAt
      <4> QED BY <4>1, <4>2
    <3> HIDE DEF j, before
    <3>4. [at |-> i + j, entry |-> ents[j], prev |-> before] \in Carried(m)
      BY <3>1 DEF Carried, before
    <3> QED BY <3>1, <3>2, <3>3, <3>4
  <2> QED BY <2>1, <2>2
<1>9. LogLinks(new) \subseteq LogLinks(log) \cup Carried(m) BY <1>8 DEF LogLinks
<1> QED BY <1>9 DEF new, kept, added, from, ci

\* maybeAppend takes in the entries of a MsgApp, and nothing else.
LEMMA MaybeAppendFollows ==
    ASSUME NEW r \in Node, NEW m \in Message, m.type = "MsgApp",
           matchTerm(r.log, m.index, m.logTerm)
    PROVE  Follows(r, maybeAppend(r, m.index, m.commit, m.entries), {m})
<1> DEFINE ci == findConflict(r.log, m.index, m.entries)
           log == SubSeq(r.log, 1, ci - 1) \o SubSeq(m.entries, ci - m.index, Len(m.entries))
           cut == [r EXCEPT !.log = log]
           appended == IF ci = 0 THEN r ELSE IF ci <= r.committed THEN Panic(r) ELSE cut
           upto == Least(m.commit, m.index + Len(m.entries))
           s == maybeAppend(r, m.index, m.commit, m.entries)
<1>1. r.log \in Seq(Entry) BY DEF Node
<1>2. ci # 0 => LogLinks(log) \subseteq LogLinks(r.log) \cup Carried(m) BY <1>1, SpliceLinks
<1> HIDE DEF log, ci
<1>3. cut.log = log /\ cut.msgs = r.msgs /\ cut.after = r.after BY DEF Node
<1>4. /\ Panic(r).log = r.log /\ Panic(r).msgs = r.msgs /\ Panic(r).after = r.after
  BY DEF Panic, Node
<1> HIDE DEF cut
<1>5. /\ LogLinks(appended.log) \subseteq LogLinks(r.log) \cup Carried(m)
      /\ appended.msgs = r.msgs /\ appended.after = r.after
  BY <1>2, <1>3, <1>4
<1>6. s = commitTo(appended, upto) BY DEF maybeAppend, ci, log, cut
<1> HIDE DEF appended, upto, s
<1>7. s.log = appended.log /\ s.msgs = appended.msgs /\ s.after = appended.after
  BY <1>6 DEF commitTo, Panic
<1>8. Boxes(s) = Boxes(r) BY <1>5, <1>7, SameBoxes
<1> QED BY <1>5, <1>7, <1>8 DEF Follows, Sends, s

LEMMA HandleAppendEntriesFollows ==
    ASSUME NEW r \in Node, NEW m \in Message, m.type = "MsgApp"
    PROVE  Follows(r, handleAppendEntries(r, m), {m})
<1> DEFINE resp == Msg("MsgAppResp", r.id, m.from)
           hint == findConflictByTerm(r.log, Least(m.index, Len(r.log)), m.logTerm)
           hintTerm == TermAt(r.log, hint)
           index == m.index + Len(m.entries)
           stale == [resp EXCEPT !.index = r.committed]
           done == [resp EXCEPT !.index = index]
           refusal == [resp EXCEPT !.index = m.index, !.reject = TRUE, !.hint = hint,
                                   !.logTerm = hintTerm]
           appended == maybeAppend(r, m.index, m.commit, m.entries)
<1>1. /\ r.log \in Seq(Entry) /\ r.committed \in Nat /\ r.id \in Server
      /\ m.index \in Nat /\ m.logTerm \in Nat /\ m.commit \in Nat
      /\ m.entries \in Seq(Entry) /\ m.from \in Server
  BY DEF Node, Message
<1>2. Len(r.log) \in Nat /\ Len(m.entries) \in Nat BY <1>1, LenProperties
<1>3. resp \in Message /\ resp.type = "MsgAppResp" BY <1>1, MsgIsMessage DEF MsgType, Msg
<1>4. hint \in Nat
  <2>1. Least(m.index, Len(r.log)) \in Nat BY <1>1, <1>2, LeastType
  <2> QED BY <1>1, <2>1, FindConflictByTermType
<1>5. hintTerm \in Nat
  <2> HIDE DEF hint
  <2> QED BY <1>1, <1>4, TermAtType
<1>6. index \in Nat BY <1>1, <1>2
<1> HIDE DEF resp, hint, hintTerm, index
<1>7. /\ stale \in Message /\ stale.type = "MsgAppResp"
      /\ done \in Message /\ done.type = "MsgAppResp"
      /\ refusal \in Message /\ refusal.type = "MsgAppResp"
  BY <1>1, <1>3, <1>4, <1>5, <1>6 DEF Message
<1> HIDE DEF stale, done, refusal
<1>8. CASE m.index < r.committed
  <2>1. Kept(r, send(r, stale)) BY <1>7, SendOther
  <2>2. handleAppendEntries(r, m) = send(r, stale) BY <1>8 DEF handleAppendEntries, resp, stale
  <2> QED BY <2>1, <2>2, KeptFollows
<1>9. CASE ~(m.index < r.committed) /\ matchTerm(r.log, m.index, m.logTerm)
  <2>1. m.index <= Len(r.log) BY <1>9 DEF matchTerm
  <2>2. appended \in Node /\ Follows(r, appended, {m})
    BY <1>1, <1>9, <2>1, MaybeAppendType, MaybeAppendFollows
  <2>3. handleAppendEntries(r, m) = send(appended, done)
    BY <1>9 DEF handleAppendEntries, resp, index, done
  <2> HIDE DEF appended
  <2>4. Kept(appended, send(appended, done)) BY <1>7, <2>2, SendOther
  <2> QED BY <2>2, <2>3, <2>4, FollowsThenKept
<1>10. CASE ~(m.index < r.committed) /\ ~matchTerm(r.log, m.index, m.logTerm)
  <2>1. Kept(r, send(r, refusal)) BY <1>7, SendOther
  <2>2. handleAppendEntries(r, m) = send(r, refusal)
    BY <1>10 DEF handleAppendEntries, resp, hint, hintTerm, refusal
  <2> QED BY <2>1, <2>2, KeptFollows
<1> QED BY <1>8, <1>9, <1>10

----------------------------------------------------------------------------
(* Steps *)

\* Server r has been granted a vote, or is about to find one among N.
Supported(r, N) ==
    r.granted # {} \/ \E v \in N : Granted(v) /\ v.to = r.id /\ v.term = r.Term

\* What may leave s: a request for a vote once s voted for itself, a grant for
\* the candidate that asked for it, and links of the log.
Honest(m, s, N) ==
    /\ m.type = "MsgVote" => m.from = s.id /\ m.term = s.Term /\ s.Vote = s.id
    /\ Granted(m) => \/ m.to = s.id
                     \/ \E v \in N : v.type = "MsgVote" /\ v.from = m.to /\ v.term = m.term
    /\ Carried(m) \subseteq LogLinks(s.log)

\* One step of a server that may read the messages N: a candidate is at a new
\* term or was one before, a leader led before or was a candidate that had a
\* vote, and only who does not lead takes links from messages.
LogStep(r, s, N) ==
    /\ \A m \in Boxes(s) : m \in Boxes(r) \/ Honest(m, s, N)
    /\ s.state = "StateCandidate" =>
         \/ s.Term > r.Term /\ s.granted = {}
         \/ r.state = "StateCandidate" /\ s.Term = r.Term /\ (s.granted # {} => Supported(r, N))
    /\ s.state = "StateLeader" =>
         /\ s.Term = r.Term /\ Extends(r.log, s.log, s.Term)
         /\ r.state = "StateLeader" \/ (r.state = "StateCandidate" /\ Supported(r, N))
    /\ s.state # "StateLeader" =>
         LogLinks(s.log) \subseteq LogLinks(r.log) \cup UNION {Carried(m) : m \in N}

LEMMA QuietLogStep ==
    ASSUME NEW r, NEW s, NEW N, Quiet(r, s),
           IF r.state = "StateLeader" THEN Leads(r, s) ELSE Follows(r, s, N)
    PROVE  LogStep(r, s, N)
<1>1. Sends(r, s) BY DEF Leads, Follows
<1>2. \A m \in Boxes(s) : m \in Boxes(r) \/ Honest(m, s, N)
  BY <1>1 DEF Quiet, Plain, Sends, Honest
<1> QED BY <1>2 DEF LogStep, Quiet, Leads, Follows, Supported

LEMMA KeptLogStep ==
    ASSUME NEW r \in Node, NEW s, NEW N, Quiet(r, s), Kept(r, s)
    PROVE  LogStep(r, s, N)
BY QuietLogStep, KeptLeads, KeptFollows

LEMMA ReflLogStep == ASSUME NEW r \in Node, NEW N PROVE LogStep(r, r, N)
BY KeptLogStep, QuietRefl, KeptRefl

LEMMA LogStepThenKept ==
    ASSUME NEW r, NEW s, NEW t, NEW N, LogStep(r, s, N), Quiet(s, t), Kept(s, t)
    PROVE  LogStep(r, t, N)
<1>1. /\ t.id = s.id /\ t.Term = s.Term /\ t.Vote = s.Vote /\ t.state = s.state
      /\ t.granted = s.granted /\ t.log = s.log
  BY DEF Quiet, Kept
<1>2. \A m : Honest(m, s, N) => Honest(m, t, N) BY <1>1 DEF Honest
<1>3. \A m \in Boxes(t) : m \in Boxes(s) \/ Honest(m, t, N)
  BY <1>1 DEF Quiet, Plain, Kept, Honest
<1>4. \A m \in Boxes(t) : m \in Boxes(r) \/ Honest(m, t, N) BY <1>2, <1>3 DEF LogStep
<1> QED BY <1>1, <1>4 DEF LogStep

\* s is r without its role, perhaps at a later term.
Fresh(r, s) ==
    /\ s.id = r.id /\ s.log = r.log /\ Boxes(s) = Boxes(r) /\ s.Term >= r.Term
    /\ s.state \in {"StateFollower", "StatePreCandidate"}

LEMMA FreshLogStep == ASSUME NEW r, NEW s, NEW N, Fresh(r, s) PROVE LogStep(r, s, N)
BY DEF Fresh, LogStep

LEMMA FreshThenLogStep ==
    ASSUME NEW r \in Node, NEW s \in Node, NEW t \in Node, NEW N, Fresh(r, s), LogStep(s, t, N)
    PROVE  LogStep(r, t, N)
<1>1. r.Term \in Nat /\ s.Term \in Nat /\ t.Term \in Nat BY DEF Node
<1>2. t.state # "StateLeader" BY DEF Fresh, LogStep
<1>3. t.state = "StateCandidate" => t.Term > r.Term /\ t.granted = {}
  BY <1>1 DEF Fresh, LogStep
<1> QED BY <1>2, <1>3 DEF Fresh, LogStep

\* s is r but for what does not matter here.
Alike(r, s) ==
    /\ s.id = r.id /\ s.log = r.log /\ Boxes(s) = Boxes(r) /\ s.Term = r.Term
    /\ s.state = r.state

LEMMA AlikeThenLogStep ==
    ASSUME NEW r, NEW s, NEW t, NEW N, Alike(r, s), LogStep(s, t, N),
           r.state = "StateCandidate" /\ Supported(s, N) => Supported(r, N)
    PROVE  LogStep(r, t, N)
BY DEF Alike, LogStep

----------------------------------------------------------------------------
(* Operators that change role, term or vote *)

LEMMA ResetLog ==
    ASSUME NEW r \in Node, NEW term \in Nat
    PROVE  reset(r, term).log = r.log
BY DEF reset, Node

LEMMA BecomeFollowerFresh ==
    ASSUME NEW r \in Node, NEW term \in Nat, term >= r.Term, NEW lead
    PROVE  Fresh(r, becomeFollower(r, term, lead))
<1>1. becomeFollower(r, term, lead).log = r.log
  <2> DEFINE t == reset(r, term)
  <2>1. t \in Node /\ t.log = r.log BY ResetType, ResetLog
  <2> HIDE DEF t
  <2>2. becomeFollower(r, term, lead) = [t EXCEPT !.lead = lead, !.state = "StateFollower"]
    BY DEF becomeFollower, t
  <2> QED BY <2>1, <2>2 DEF Node
<1> QED BY <1>1, BecomeFollowerBallot DEF Fresh, BallotStep

\* The requests of a campaign come from a server that voted for itself, and so
\* does its own vote.
LEMMA RequestVotesHonest ==
    ASSUME NEW r \in Node, NEW term \in Nat, NEW transfer \in BOOLEAN,
           NEW voteType \in {"MsgVote", "MsgPreVote"},
           voteType = "MsgVote" => term = r.Term /\ r.Vote = r.id, NEW N
    PROVE  LET s == requestVotes(r, voteType, voteRespMsgType(voteType), term, transfer)
           IN  /\ s.id = r.id /\ s.log = r.log
               /\ \A m \in Boxes(s) : m \in Boxes(r) \/ Honest(m, s, N)
<1> DEFINE respType == voteRespMsgType(voteType)
           s == requestVotes(r, voteType, respType, term, transfer)
           own == [Msg(respType, r.id, r.id) EXCEPT !.term = term]
           ask(d) == VoteMsg(r, voteType, d, term, transfer)
<1>1. /\ s.id = r.id /\ s.Term = r.Term /\ s.Vote = r.Vote /\ s.log = r.log
      /\ s.after = [r.after EXCEPT ![r.id] = Append(@, own)]
      /\ \A d \in Server : s.msgs[d] = IF d \in r.voters \ {r.id}
                                       THEN Append(r.msgs[d], ask(d)) ELSE r.msgs[d]
  BY DEF requestVotes, Node
<1>2. respType \in MsgType /\ voteType \in MsgType /\ respType # "MsgApp" /\ respType # "MsgVote"
  BY DEF voteRespMsgType, MsgType
<1>3. /\ r.id \in Server /\ r.msgs \in [Server -> Seq(Message)] /\ r.Term \in Nat
      /\ r.after \in [Server -> Seq(Message)]
  BY DEF Node
<1>4. own \in Message /\ own.to = r.id /\ own.type = respType
  <2>1. Msg(respType, r.id, r.id) \in Message BY <1>2, <1>3, MsgIsMessage
  <2> QED BY <2>1 DEF Message, Msg
<1>5. ASSUME NEW d \in Server
      PROVE  /\ ask(d) \in Message /\ ask(d).type = voteType /\ ask(d).term = term
             /\ ask(d).from = r.id
  <2>1. ask(d) \in Message BY <1>2, VoteMsgType
  <2>2. ask(d).type = voteType /\ ask(d).term = term /\ ask(d).from = r.id BY DEF VoteMsg, Msg
  <2> QED BY <2>1, <2>2
<1> HIDE DEF s, own, ask, respType
<1>6. Honest(own, s, N) BY <1>1, <1>2, <1>4, NoLinks DEF Honest
<1>7. ASSUME NEW d \in Server PROVE Honest(ask(d), s, N)
  <2>1. ~Granted(ask(d)) /\ ask(d).type # "MsgApp" BY <1>5 DEF Granted
  <2> QED BY <1>1, <1>5, <2>1, NoLinks DEF Honest
<1>8. ASSUME NEW m \in Boxes(s)
      PROVE  m \in Boxes(r) \/ Honest(m, s, N)
  <2>1. PICK d \in Server : m \in Range(s.msgs[d]) \/ m \in Range(s.after[d])
    BY <1>8 DEF Boxes
  <2>2. CASE m \in Range(s.msgs[d])
    <3>1. m \in Range(r.msgs[d]) \/ m = ask(d) BY <1>1, <1>3, <1>5, <2>2, RangeAppend
    <3> QED BY <1>7, <3>1 DEF Boxes
  <2>3. CASE m \in Range(s.after[d])
    <3>1. m \in Range(r.after[d]) \/ m = own BY <1>1, <1>3, <1>4, <2>3, RangeAppend
    <3> QED BY <1>6, <3>1 DEF Boxes
  <2> QED BY <2>1, <2>2, <2>3
<1> QED BY <1>1, <1>8 DEF s, respType

LEMMA CampaignElectionLogStep ==
    ASSUME NEW r \in Node, r.state # "StateLeader", NEW transfer \in BOOLEAN, NEW N
    PROVE  LogStep(r, campaignElection(r, transfer), N)
<1> DEFINE next == r.Term + 1
           reborn == reset(r, next)
           s == becomeCandidate(r)
           t == requestVotes(s, "MsgVote", "MsgVoteResp", s.Term, transfer)
<1>1. r.Term \in Nat BY DEF Node
<1>2. next \in Nat /\ next > r.Term /\ next >= r.Term BY <1>1
<1> HIDE DEF next
<1>3. reborn \in Node /\ reborn.log = r.log /\ reborn.Term = next
  BY <1>2, ResetType, ResetLog, ResetBallot
<1>4. s = [reborn EXCEPT !.Vote = r.id, !.state = "StateCandidate"] BY DEF becomeCandidate, next
<1> HIDE DEF reborn
<1>5. s.log = r.log /\ s.Term > r.Term BY <1>2, <1>3, <1>4 DEF Node
<1>6. /\ s \in Node /\ Boxes(s) = Boxes(r)
      /\ s.Term > 0 /\ s.Vote = s.id /\ s.state = "StateCandidate" /\ s.granted = {}
  BY BecomeCandidateType, BecomeCandidateBallot
<1> HIDE DEF s
<1>7. s.Term \in Nat BY <1>6 DEF Node
<1>8. t.state = "StateCandidate" /\ t.granted = {} /\ t.Term = s.Term
  BY <1>6, <1>7, RequestVotesBallot DEF voteRespMsgType
<1>9. t.log = s.log /\ \A m \in Boxes(t) : m \in Boxes(s) \/ Honest(m, t, N)
  BY <1>6, <1>7, RequestVotesHonest DEF voteRespMsgType
<1>10. campaignElection(r, transfer) = t BY DEF campaignElection, s
<1> HIDE DEF t
<1>11. LogStep(r, t, N) BY <1>5, <1>6, <1>8, <1>9 DEF LogStep
<1> QED BY <1>10, <1>11

LEMMA CampaignPreElectionLogStep ==
    ASSUME NEW r \in Node, r.state # "StateLeader", NEW N
    PROVE  LogStep(r, campaignPreElection(r), N)
<1> DEFINE s == becomePreCandidate(r)
           next == s.Term + 1
           t == requestVotes(s, "MsgPreVote", "MsgPreVoteResp", next, FALSE)
<1>1. /\ s \in Node /\ Boxes(s) = Boxes(r) /\ s.state = "StatePreCandidate" /\ s.Term >= r.Term
  BY BecomePreCandidateType, BecomePreCandidateBallot DEF BallotStep
<1>2. s.log = r.log BY DEF becomePreCandidate, Node
<1> HIDE DEF s
<1>3. s.Term \in Nat BY <1>1 DEF Node
<1>4. next \in Nat BY <1>3
<1> HIDE DEF next
<1>5. t.state = "StatePreCandidate" BY <1>1, <1>4, RequestVotesBallot DEF voteRespMsgType
<1>6. t.log = s.log /\ \A m \in Boxes(t) : m \in Boxes(s) \/ Honest(m, t, N)
  BY <1>1, <1>4, RequestVotesHonest DEF voteRespMsgType
<1>7. campaignPreElection(r) = t BY DEF campaignPreElection, s, next
<1> HIDE DEF t
<1>8. LogStep(r, t, N) BY <1>1, <1>2, <1>5, <1>6 DEF LogStep
<1> QED BY <1>7, <1>8

LEMMA HupLogStep ==
    ASSUME NEW r \in Node, NEW transfer \in BOOLEAN, NEW N
    PROVE  LogStep(r, hup(r, transfer), N)
BY ReflLogStep, CampaignElectionLogStep, CampaignPreElectionLogStep DEF hup

\* A quorum is not empty.
LEMMA NoEmptyQuorum == ~IsQuorum({}, Server)
<1>1. {} \cap Server = {} /\ Cardinality({}) = 0 BY FS_EmptySet
<1>2. Cardinality(Server) \in Nat BY ServerAssumption, FS_CardinalityType
<1> QED BY <1>1, <1>2 DEF IsQuorum

\* Who becomes a leader was a candidate with a vote, and extends its log.
LEMMA BecomeLeaderLogStep ==
    ASSUME NEW r \in Node, NEW N, r.state = "StateCandidate", r.granted # {}
    PROVE  LogStep(r, becomeLeader(r), N) /\ becomeLeader(r).Term = r.Term
<1> DEFINE t == reset(r, r.Term)
           pr == [BecomeReplicate(t.prs[r.id]) EXCEPT !.RecentActive = TRUE]
           led == [t EXCEPT !.lead = r.id, !.state = "StateLeader", !.prs[r.id] = pr]
           s == becomeLeader(r)
<1>1. r.Term \in Nat /\ r.id \in Server /\ r.Term >= r.Term BY DEF Node
<1>2. t \in Node /\ Boxes(t) = Boxes(r) /\ t.Term = r.Term /\ t.log = r.log
  BY <1>1, ResetType, ResetBallot, ResetLog
<1>3. pr \in Progress
  <2> DEFINE q == BecomeReplicate(t.prs[r.id])
  <2>1. q \in Progress BY <1>1, <1>2, BecomeReplicateType DEF Node
  <2> HIDE DEF q
  <2>2. [q EXCEPT !.RecentActive = TRUE] \in Progress BY <2>1 DEF Progress
  <2> QED BY <2>2 DEF q
<1> HIDE DEF t, pr
<1>4. led \in Node
  <2> DEFINE p == [t.prs EXCEPT ![r.id] = pr]
  <2>1. p \in [Server -> Progress] BY <1>1, <1>2, <1>3 DEF Node
  <2>2. led = [t EXCEPT !.lead = r.id, !.state = "StateLeader", !.prs = p] BY DEF p
  <2> HIDE DEF p
  <2> QED BY <1>1, <1>2, <2>1, <2>2 DEF Node, StateType
<1>5. /\ led.msgs = t.msgs /\ led.after = t.after /\ led.Term = t.Term /\ led.log = t.log
      /\ led.state = "StateLeader"
  BY <1>2 DEF Node
<1>6. s = appendEntry(led, <<Nil>>) BY DEF becomeLeader, t, pr
<1> HIDE DEF led, s
<1>7. Boxes(led) = Boxes(r) BY <1>2, <1>5, SameBoxes
<1>8. <<Nil>> \in Seq(Value \cup {Nil}) OBVIOUS
<1>9. Leads(led, s) /\ s.Term = led.Term BY <1>4, <1>6, <1>8, AppendEntryLeads
<1>10. Quiet(led, s) BY <1>4, <1>6, <1>8, AppendEntryQuiet
<1>11. s.state = "StateLeader" BY <1>5, <1>10 DEF Quiet
<1>12. LogStep(led, s, N) BY <1>5, <1>9, <1>10, QuietLogStep
<1>13. Extends(r.log, s.log, s.Term) BY <1>2, <1>5, <1>9 DEF Leads
<1>14. \A m \in Boxes(s) : m \in Boxes(r) \/ Honest(m, s, N) BY <1>7, <1>12 DEF LogStep
<1>15. LogStep(r, s, N)
  BY <1>2, <1>5, <1>9, <1>11, <1>13, <1>14 DEF LogStep, Supported
<1>16. s.Term = r.Term BY <1>2, <1>5, <1>9
<1> QED BY <1>15, <1>16 DEF s

\* Who wins a poll has been granted something, before it or by it.
LEMMA HandleVoteRespLogStep ==
    ASSUME NEW r \in Node, NEW m \in Message, NEW N, m \in N,
           r.state \in {"StateCandidate", "StatePreCandidate"}, r.voters = Server,
           r.state = "StateCandidate" =>
             r.Term > 0 /\ m.type = "MsgVoteResp" /\ (~m.reject => m.to = r.id /\ m.term = r.Term)
    PROVE  LogStep(r, handleVoteResp(r, m), N)
<1> DEFINE s == RecordVote(r, m)
           result == TallyVotes(s)
<1>1. /\ s \in Node /\ Boxes(s) = Boxes(r)
      /\ s.id = r.id /\ s.voters = r.voters /\ s.Term = r.Term /\ s.state = r.state
      /\ \A j \in s.granted : j \in r.granted \/ (j = m.from /\ ~m.reject)
  BY RecordVoteType, RecordVoteBallot
<1>2. s.log = r.log BY DEF RecordVote, Node
<1> HIDE DEF s
<1>3. Alike(r, s) BY <1>1, <1>2 DEF Alike
<1>4. r.state = "StateCandidate" /\ Supported(s, N) => Supported(r, N)
  BY <1>1 DEF Supported, Granted
<1>5. ASSUME NEW t, LogStep(s, t, N) PROVE LogStep(r, t, N)
  BY <1>3, <1>4, <1>5, AlikeThenLogStep
<1>6. s.Term \in Nat /\ s.Term >= s.Term /\ s.id \in Server BY <1>1 DEF Node
<1>7. handleVoteResp(r, m) = afterPoll(s, result) BY DEF handleVoteResp, s
<1>8. CASE result = "VotePending"
  <2>1. handleVoteResp(r, m) = s BY <1>7, <1>8 DEF afterPoll
  <2> QED BY <1>1, <1>5, <2>1, ReflLogStep
<1>9. CASE result = "VoteLost"
  <2>1. handleVoteResp(r, m) = becomeFollower(s, s.Term, Nil) BY <1>7, <1>9 DEF afterPoll
  <2>2. LogStep(s, becomeFollower(s, s.Term, Nil), N)
    BY <1>1, <1>6, BecomeFollowerFresh, FreshLogStep
  <2> QED BY <1>5, <2>1, <2>2
<1>10. CASE result = "VoteWon"
  <2>1. IsQuorum(s.granted, Server) BY <1>1, <1>6, <1>10 DEF TallyVotes, VoteResult
  <2>2. s.granted # {} BY <2>1, NoEmptyQuorum
  <2>3. CASE s.state = "StatePreCandidate"
    <3>1. handleVoteResp(r, m) = campaignElection(s, FALSE) BY <1>7, <1>10, <2>3 DEF afterPoll
    <3>2. LogStep(s, campaignElection(s, FALSE), N) BY <1>1, <2>3, CampaignElectionLogStep
    <3> QED BY <1>5, <3>1, <3>2
  <2>4. CASE s.state = "StateCandidate"
    <3> DEFINE led == becomeLeader(s)
               t == bcastAppend(led)
    <3>1. led \in Node /\ LogStep(s, led, N)
      BY <1>1, <2>2, <2>4, BecomeLeaderType, BecomeLeaderLogStep
    <3>2. handleVoteResp(r, m) = t BY <1>7, <1>10, <2>4 DEF afterPoll
    <3>3. led.Term > 0 BY <1>1, <2>2, <2>4, BecomeLeaderLogStep
    <3> HIDE DEF led
    <3>4. Quiet(led, t) /\ Kept(led, t) BY <3>1, <3>3, BcastAppendQuiet, BcastAppendKept
    <3> HIDE DEF t
    <3>5. LogStep(s, t, N) BY <3>1, <3>4, LogStepThenKept
    <3> QED BY <1>5, <3>2, <3>5
  <2> QED BY <1>1, <2>3, <2>4
<1>11. result \in {"VotePending", "VoteLost", "VoteWon"} BY DEF TallyVotes, VoteResult
<1> QED BY <1>8, <1>9, <1>10, <1>11

\* A vote is given to a candidate that asked for it.
LEMMA HandleVoteLogStep ==
    ASSUME NEW r \in Node, NEW m \in Message, NEW N, m \in N,
           m.type \in {"MsgVote", "MsgPreVote"}
    PROVE  LogStep(r, handleVote(r, m), N)
<1> DEFINE resp == Msg(voteRespMsgType(m.type), r.id, m.from)
           granting == [r EXCEPT !.Vote = m.from, !.expired = FALSE]
           refusal == [resp EXCEPT !.term = r.Term, !.reject = TRUE]
           grant == [resp EXCEPT !.term = m.term]
           s == send(granting, grant)
<1>1. r.Term \in Nat /\ m.term \in Nat /\ m.from \in Server /\ r.id \in Server
  BY DEF Node, Message
<1>2. /\ resp \in Message /\ resp.type = voteRespMsgType(m.type)
      /\ resp.from = r.id /\ resp.to = m.from
  BY <1>1, MsgIsMessage DEF voteRespMsgType, MsgType, Msg
<1> HIDE DEF resp
<1>3. /\ refusal \in Message /\ refusal.type \in {"MsgVoteResp", "MsgPreVoteResp"}
      /\ refusal.reject
  BY <1>1, <1>2 DEF Message, voteRespMsgType
<1>4. /\ grant \in Message /\ grant.type = voteRespMsgType(m.type) /\ grant.term = m.term
      /\ grant.from = r.id /\ grant.to = m.from
  BY <1>1, <1>2 DEF Message
<1>5. granting \in Node BY <1>1 DEF Node
<1>6. /\ granting.msgs = r.msgs /\ granting.after = r.after /\ granting.id = r.id
      /\ granting.Term = r.Term /\ granting.state = r.state /\ granting.granted = r.granted
      /\ granting.log = r.log
  BY DEF Node
<1>7. /\ m.type = "MsgPreVote" => handleVote(r, m) \in {send(r, refusal), send(r, grant)}
      /\ m.type # "MsgPreVote" => handleVote(r, m) \in {send(r, refusal), s}
  BY DEF handleVote, resp
<1> HIDE DEF refusal, grant, granting
<1>8. LogStep(r, send(r, refusal), N)
  <2>1. Quiet(r, send(r, refusal)) BY <1>3, SendPlain DEF Granted
  <2>2. Kept(r, send(r, refusal)) BY <1>3, SendOther
  <2> QED BY <2>1, <2>2, KeptLogStep
<1>9. m.type = "MsgPreVote" => LogStep(r, send(r, grant), N)
  <2>1. m.type = "MsgPreVote" => Quiet(r, send(r, grant))
    BY <1>4, SendPlain DEF Granted, voteRespMsgType
  <2>2. Kept(r, send(r, grant)) BY <1>4, SendOther DEF voteRespMsgType
  <2> QED BY <2>1, <2>2, KeptLogStep
<1>10. m.type = "MsgVote" => LogStep(r, s, N)
  <2>1. /\ s.Term = granting.Term /\ s.state = granting.state
        /\ s.granted = granting.granted
        /\ \A n \in Boxes(s) : n \in Boxes(granting) \/ n = Outgoing(granting, grant)
    BY <1>4, <1>5, SendBoxes
  <2>2. Boxes(granting) = Boxes(r) BY <1>6, SameBoxes
  <2>3. Outgoing(granting, grant) = grant BY <1>4 DEF Outgoing, VoteTypes, voteRespMsgType
  <2>4. s.log = granting.log
    <3>1. grant.type # "MsgApp" BY <1>4 DEF voteRespMsgType
    <3> QED BY <1>4, <1>5, <3>1, SendOther DEF Kept
  <2> HIDE DEF s
  <2>5. m.type = "MsgVote" => Honest(grant, s, N)
    <3>1. Carried(grant) = {} BY <1>4, NoLinks DEF voteRespMsgType
    <3>2. grant.type # "MsgVote" BY <1>4 DEF voteRespMsgType
    <3> QED BY <1>4, <3>1, <3>2 DEF Honest
  <2>6. Extends(r.log, s.log, s.Term)
    <3>1. Leads(r, r) BY KeptLeads, KeptRefl
    <3> QED BY <1>6, <2>1, <2>4, <3>1 DEF Leads
  <2>7. m.type = "MsgVote" => \A n \in Boxes(s) : n \in Boxes(r) \/ Honest(n, s, N)
    BY <2>1, <2>2, <2>3, <2>5
  <2> QED BY <1>6, <2>1, <2>4, <2>6, <2>7 DEF LogStep, Supported
<1> QED BY <1>7, <1>8, <1>9, <1>10

----------------------------------------------------------------------------
(* Step and the ticks *)

LEMMA StepFollowerLogStep ==
    ASSUME NEW r \in Node, r.state = "StateFollower", NEW m \in Message, NEW N, m \in N
    PROVE  LogStep(r, stepFollower(r, m), N)
<1> DEFINE heard == [r EXCEPT !.expired = FALSE, !.lead = m.from]
           s == handleAppendEntries(heard, m)
           t == handleHeartbeat(heard, m)
<1>1. heard \in Node BY DEF Node, Message
<1>2. /\ heard.msgs = r.msgs /\ heard.after = r.after /\ heard.id = r.id /\ heard.log = r.log
      /\ heard.Term = r.Term /\ heard.state = r.state
  BY DEF Node
<1>3. Alike(r, heard) BY <1>2, SameBoxes DEF Alike
<1> HIDE DEF heard
<1>4. ASSUME m.type = "MsgApp" PROVE LogStep(heard, s, N)
  <2>1. Follows(heard, s, {m}) BY <1>1, <1>4, HandleAppendEntriesFollows
  <2>2. Quiet(heard, s) BY <1>1, HandleAppendEntriesQuiet
  <2> HIDE DEF s
  <2>3. Follows(heard, s, N) BY <2>1 DEF Follows
  <2> QED BY <1>2, <2>2, <2>3, QuietLogStep
<1>5. LogStep(heard, t, N) BY <1>1, HandleHeartbeatQuiet, HandleHeartbeatKept, KeptLogStep
<1>6. \A q : LogStep(heard, q, N) => LogStep(r, q, N) BY <1>3, AlikeThenLogStep
<1>7. m.type \in {"MsgProp", "MsgTransferLeader"} => LogStep(r, forward(r, m), N)
  BY ForwardQuiet, ForwardKept, KeptLogStep
<1>8. LogStep(r, hup(r, TRUE), N) /\ LogStep(r, r, N) BY HupLogStep, ReflLogStep
<1>9. \/ m.type = "MsgApp" /\ stepFollower(r, m) = s
      \/ stepFollower(r, m) = t
      \/ m.type \in {"MsgProp", "MsgTransferLeader"} /\ stepFollower(r, m) = forward(r, m)
      \/ stepFollower(r, m) \in {hup(r, TRUE), r}
  BY DEF stepFollower, heard
<1> HIDE DEF s, t
<1> QED BY <1>4, <1>5, <1>6, <1>7, <1>8, <1>9

\* A candidate at m's term is the one that m grants its vote to.
OwnGrant(r, m) == Granted(m) /\ r.state = "StateCandidate" /\ m.term = r.Term => m.to = r.id

\* The term of a candidate or leader is not 0.
Seated(r) == r.state \in {"StateCandidate", "StateLeader"} => r.Term > 0

LEMMA StepCandidateLogStep ==
    ASSUME NEW r \in Node, NEW m \in Message, NEW N, m \in N, r.voters = Server,
           r.state \in {"StateCandidate", "StatePreCandidate"},
           OfThisTerm(r, m), OwnGrant(r, m), Seated(r)
    PROVE  LogStep(r, stepCandidate(r, m), N)
<1>1. m.term \in Nat /\ m.from \in Server /\ r.Term \in Nat BY DEF Message, Node
<1>2. CASE m.type \in {"MsgApp", "MsgHeartbeat"}
  <2> DEFINE s == becomeFollower(r, m.term, m.from)
             t == stepCandidate(r, m)
  <2>1. m.term >= r.Term BY <1>1, <1>2 DEF OfThisTerm
  <2>2. s \in Node /\ Fresh(r, s) /\ s.state = "StateFollower"
    BY <1>1, <2>1, BecomeFollowerType, BecomeFollowerBallot, BecomeFollowerFresh
  <2>3. \/ m.type = "MsgApp" /\ t = handleAppendEntries(s, m)
        \/ t = handleHeartbeat(s, m)
    BY <1>2 DEF stepCandidate
  <2>4. t \in Node BY StepCandidateType
  <2> HIDE DEF s, t
  <2>5. ASSUME m.type = "MsgApp", t = handleAppendEntries(s, m) PROVE LogStep(s, t, N)
    <3>1. Follows(s, t, {m}) /\ Quiet(s, t)
      BY <2>2, <2>5, HandleAppendEntriesFollows, HandleAppendEntriesQuiet
    <3>2. Follows(s, t, N) BY <3>1 DEF Follows
    <3> QED BY <2>2, <3>1, <3>2, QuietLogStep
  <2>6. t = handleHeartbeat(s, m) => LogStep(s, t, N)
    BY <2>2, HandleHeartbeatQuiet, HandleHeartbeatKept, KeptLogStep
  <2>7. LogStep(r, t, N) BY <2>2, <2>3, <2>4, <2>5, <2>6, FreshThenLogStep
  <2> QED BY <2>7 DEF t
<1>3. CASE m.type \in {"MsgVoteResp", "MsgPreVoteResp"} /\ stepCandidate(r, m) = handleVoteResp(r, m)
           /\ (r.state = "StateCandidate" => m.type = "MsgVoteResp")
  <2>1. r.state = "StateCandidate" =>
          r.Term > 0 /\ m.type = "MsgVoteResp" /\ (~m.reject => m.to = r.id /\ m.term = r.Term)
    BY <1>3 DEF OwnGrant, Granted, OfThisTerm, Seated
  <2> QED BY <1>3, <2>1, HandleVoteRespLogStep
<1>4. CASE stepCandidate(r, m) = r BY <1>4, ReflLogStep
<1> QED BY <1>2, <1>3, <1>4 DEF stepCandidate

LEMMA StepRoleLogStep ==
    ASSUME NEW r \in Node, NEW m \in Message, NEW N, m \in N, r.voters = Server,
           OfThisTerm(r, m), OwnGrant(r, m), Seated(r)
    PROVE  LogStep(r, stepRole(r, m), N)
<1>1. CASE m.type \in {"MsgVote", "MsgPreVote"} BY <1>1, HandleVoteLogStep DEF stepRole
<1>2. CASE m.type \notin {"MsgVote", "MsgPreVote"} /\ r.state = "StateLeader"
  <2>1. Quiet(r, stepLeader(r, m)) /\ Leads(r, stepLeader(r, m))
    BY <1>2, StepLeaderQuiet, StepLeaderLeads DEF Seated
  <2> QED BY <1>2, <2>1, QuietLogStep DEF stepRole
<1>3. CASE m.type \notin {"MsgVote", "MsgPreVote"} /\ r.state = "StateFollower"
  BY <1>3, StepFollowerLogStep DEF stepRole
<1>4. CASE /\ m.type \notin {"MsgVote", "MsgPreVote"}
           /\ r.state \in {"StateCandidate", "StatePreCandidate"}
  BY <1>4, StepCandidateLogStep DEF stepRole
<1>5. r.state \in StateType BY DEF Node
<1> QED BY <1>1, <1>2, <1>3, <1>4, <1>5 DEF StateType

\* What one message does to a server's log, and to its role.
LEMMA StepLogStep ==
    ASSUME NEW r \in Node, NEW m \in Message, NEW N, m \in N, r.voters = Server,
           Stamped(m), OwnGrant(r, m), Seated(r)
    PROVE  LogStep(r, Step(r, m), N)
<1>0. r.Term \in Nat /\ m.term \in Nat /\ m.from \in Server BY DEF Node, Message
<1>1. CASE m.term # 0 /\ m.term < r.Term
  BY <1>1, StepLowerTermQuiet, StepLowerTermKept, KeptLogStep DEF Step
<1>2. CASE m.term > r.Term /\ ignoresVote(r, m)
  <2>1. Step(r, m) = r BY <1>0, <1>2 DEF Step
  <2> QED BY <2>1, ReflLogStep
<1>3. CASE m.term > r.Term /\ ~ignoresVote(r, m)
  <2> DEFINE s == adoptTerm(r, m)
  <2>1. Step(r, m) = stepRole(s, m) BY <1>0, <1>3 DEF Step
  <2>2. CASE m.type = "MsgPreVote" \/ (m.type = "MsgPreVoteResp" /\ ~m.reject)
    <3>1. s = r /\ OfThisTerm(r, m) BY <2>2 DEF adoptTerm, OfThisTerm, Granted
    <3> QED BY <2>1, <3>1, StepRoleLogStep
  <2>3. CASE ~(m.type = "MsgPreVote" \/ (m.type = "MsgPreVoteResp" /\ ~m.reject))
    <3> DEFINE lead == IF m.type \in {"MsgApp", "MsgHeartbeat"} THEN m.from ELSE Nil
    <3>1. s = becomeFollower(r, m.term, lead) BY <2>3 DEF adoptTerm
    <3>2. lead \in Server \cup {Nil} /\ m.term >= r.Term BY <1>0, <1>3
    <3> HIDE DEF s, lead
    <3>3. /\ s \in Node /\ BallotStep(r, s) /\ Fresh(r, s)
          /\ s.Term = m.term /\ s.state = "StateFollower"
      BY <1>0, <3>1, <3>2, BecomeFollowerType, BecomeFollowerBallot, BecomeFollowerFresh
    <3>4. s.voters = Server /\ OfThisTerm(s, m) /\ OwnGrant(s, m) /\ Seated(s)
      BY <3>3 DEF BallotStep, OwnGrant, Seated, OfThisTerm, Stamped
    <3>5. LogStep(s, stepRole(s, m), N) BY <3>3, <3>4, StepRoleLogStep
    <3>6. stepRole(s, m) \in Node BY <3>3, StepRoleType
    <3>7. LogStep(r, stepRole(s, m), N) BY <3>3, <3>5, <3>6, FreshThenLogStep
    <3> QED BY <2>1, <3>7 DEF s
  <2> QED BY <2>2, <2>3
<1>4. CASE ~(m.term > r.Term) /\ ~(m.term # 0 /\ m.term < r.Term)
  <2>1. Step(r, m) = stepRole(r, m) BY <1>0, <1>4 DEF Step
  <2>2. OfThisTerm(r, m) BY <1>0, <1>4 DEF OfThisTerm, Stamped
  <2> QED BY <2>1, <2>2, StepRoleLogStep
<1> QED BY <1>1, <1>2, <1>3, <1>4

LEMMA TickElectionLogStep ==
    ASSUME NEW r \in Node, NEW past \in BOOLEAN, NEW N
    PROVE  LogStep(r, tickElection(r, past), N)
<1> DEFINE s == [r EXCEPT !.expired = FALSE]
           q == [r EXCEPT !.expired = TRUE]
           t == hup(s, FALSE)
<1>1. s \in Node /\ Alike(r, s) /\ s.granted = r.granted
  <2>1. s.msgs = r.msgs /\ s.after = r.after BY DEF Node
  <2>2. Boxes(s) = Boxes(r) BY <2>1, SameBoxes
  <2> QED BY <2>2 DEF Alike, Node
<1>2. Quiet(r, q) /\ Kept(r, q)
  <2>1. q.msgs = r.msgs /\ q.after = r.after /\ q.log = r.log BY DEF Node
  <2>2. Boxes(q) = Boxes(r) BY <2>1, SameBoxes
  <2>3. Quiet(r, q) BY <2>2 DEF Quiet, Node
  <2> QED BY <2>1, <2>3, KeptBoxes
<1> HIDE DEF s, q
<1>3. LogStep(s, t, N) BY <1>1, HupLogStep
<1> HIDE DEF t
<1>4. Supported(s, N) => Supported(r, N) BY <1>1 DEF Alike, Supported
<1>5. LogStep(r, t, N) BY <1>1, <1>3, <1>4, AlikeThenLogStep
<1>6. LogStep(r, q, N) BY <1>2, KeptLogStep
<1>7. tickElection(r, past) \in {t, q} BY DEF tickElection, t, s, q
<1> QED BY <1>5, <1>6, <1>7

LEMMA TickHeartbeatLogStep ==
    ASSUME NEW r \in Node, NEW timedOut \in BOOLEAN, NEW beat \in BOOLEAN, NEW N, Seated(r)
    PROVE  LogStep(r, tickHeartbeat(r, timedOut, beat), N)
<1> DEFINE down == becomeFollower(r, r.Term, Nil)
           c == IF QuorumActive(r) THEN r ELSE down
           d == [c EXCEPT !.prs = [p \in Server |-> IF p = r.id THEN @[p]
                                            ELSE [@[p] EXCEPT !.RecentActive = FALSE]]]
           s == IF timedOut /\ CheckQuorum THEN checkQuorum(r) ELSE r
           q == [s EXCEPT !.leadTransferee = Nil]
           t == IF timedOut /\ s.state = "StateLeader" THEN q ELSE s
           u == IF beat /\ t.state = "StateLeader" THEN bcastHeartbeat(t) ELSE t
<1>0. r.Term \in Nat /\ r.Term >= r.Term BY DEF Node
<1>1. c \in Node /\ LogStep(r, c, N) /\ c.Term = r.Term /\ (c.state = "StateLeader" => c = r)
  <2>1. /\ down \in Node /\ Fresh(r, down) /\ down.Term = r.Term
        /\ down.state = "StateFollower"
    BY <1>0, BecomeFollowerType, BecomeFollowerBallot, BecomeFollowerFresh
  <2> HIDE DEF down
  <2> QED BY <2>1, ReflLogStep, FreshLogStep
<1> HIDE DEF c
<1>2. Quiet(c, d) /\ Kept(c, d)
  <2>1. d.msgs = c.msgs /\ d.after = c.after /\ d.log = c.log BY <1>1 DEF Node
  <2>2. Boxes(d) = Boxes(c) BY <2>1, SameBoxes
  <2>3. Quiet(c, d) BY <1>1, <2>2 DEF Quiet, Node
  <2> QED BY <2>1, <2>3, KeptBoxes
<1>3. checkQuorum(r) = d BY DEF checkQuorum, c, down
<1> HIDE DEF d
<1>4. LogStep(r, d, N) BY <1>1, <1>2, LogStepThenKept
<1>5. s \in Node /\ LogStep(r, s, N) /\ s.Term = r.Term /\ (s.state = "StateLeader" => Seated(s))
  <2>1. d.Term = r.Term /\ (d.state = "StateLeader" => r.state = "StateLeader")
    BY <1>1, <1>2 DEF Quiet
  <2> QED BY <1>3, <1>4, <2>1, CheckQuorumType, ReflLogStep DEF Seated
<1> HIDE DEF s
<1>6. q \in Node /\ Quiet(s, q) /\ Kept(s, q)
  <2>1. q \in Node BY <1>5 DEF Node
  <2>2. q.msgs = s.msgs /\ q.after = s.after /\ q.log = s.log BY <1>5 DEF Node
  <2>3. Boxes(q) = Boxes(s) BY <2>2, SameBoxes
  <2>4. Quiet(s, q) BY <1>5, <2>3 DEF Quiet, Node
  <2> QED BY <2>1, <2>2, <2>4, KeptBoxes
<1> HIDE DEF q
<1>7. t \in Node /\ Quiet(s, t) /\ Kept(s, t) BY <1>5, <1>6, QuietRefl, KeptRefl
<1> HIDE DEF t
<1>8. LogStep(r, t, N) BY <1>5, <1>7, LogStepThenKept
<1>9. t.state = "StateLeader" => t.Term > 0 BY <1>5, <1>7 DEF Quiet, Seated
<1>10. Quiet(t, u) /\ Kept(t, u)
  BY <1>7, <1>9, BcastHeartbeatQuiet, BcastHeartbeatKept, QuietRefl, KeptRefl
<1>11. tickHeartbeat(r, timedOut, beat) = u BY DEF tickHeartbeat, t, q, s
<1> HIDE DEF u
<1> QED BY <1>8, <1>10, <1>11, LogStepThenKept


----------------------------------------------------------------------------
(* Claims, and who won *)

\* A claim on x holds for whoever does not contradict x.
LEMMA ClaimsGrow ==
    ASSUME NEW x, NEW y, x.Term \in Nat, y.Term \in Nat, NEW t \in Nat, NEW v \in Server,
           y.Term >= x.Term, y.Term = x.Term /\ x.Vote # Nil => y.Vote = x.Vote,
           Claims(t, v, x)
    PROVE  Claims(t, v, y)
<1>1. v # Nil BY ServerAssumption
<1> QED BY <1>1 DEF Claims

\* The hard states hs stand behind m, and so do later ones.
LEMMA ShownGrow ==
    ASSUME NEW m \in Message, NEW g, NEW h, Shown(m, g),
           \A j \in Server : /\ g[j].Term \in Nat /\ h[j].Term \in Nat /\ h[j].Term >= g[j].Term
                             /\ h[j].Term = g[j].Term /\ g[j].Vote # Nil => h[j].Vote = g[j].Vote
    PROVE  Shown(m, h)
<1>1. m.from \in Server /\ m.to \in Server /\ m.term \in Nat BY DEF Message
<1>2. m.type = "MsgVote" => Claims(m.term, m.from, h[m.from]) BY <1>1, ClaimsGrow DEF Shown
<1>3. Granted(m) => Claims(m.term, m.to, h[m.to]) BY <1>1, ClaimsGrow DEF Shown
<1> QED BY <1>2, <1>3 DEF Shown

LEMMA SameShown ==
    ASSUME NEW m \in Message, NEW g, NEW h, Shown(m, g),
           \A j \in Server : h[j].Term = g[j].Term /\ h[j].Vote = g[j].Vote
    PROVE  Shown(m, h)
<1>1. m.from \in Server /\ m.to \in Server BY DEF Message
<1> QED BY <1>1 DEF Shown, Claims

\* Nobody wins a term that another has won.
LEMMA OneWinner ==
    ASSUME NEW nd \in [Server -> Node], NEW dk \in [Server -> Disk], NEW nt \in SUBSET Message,
           ElectionInvariant(nd, dk, nt), NEW l \in Server, NEW k \in Server, NEW t,
           Won(l, t, nd, dk, nt), Won(k, t, nd, dk, nt)
    PROVE  l = k
<1>1. PICK P \in SUBSET Server : IsQuorum(P, Server) /\ \A j \in P \ {l} : Backed(nt, j, l, t)
  BY DEF Won
<1>2. PICK Q \in SUBSET Server : IsQuorum(Q, Server) /\ \A j \in Q \ {k} : Backed(nt, j, k, t)
  BY DEF Won
<1>3. PICK j \in Server : j \in P /\ j \in Q BY <1>1, <1>2, QuorumsMeet
<1>4. \A m \in nt : Granted(m) /\ m.from = l /\ m.term = t => m.to = l BY DEF Won
<1>5. \A m \in nt : Granted(m) /\ m.from = k /\ m.term = t => m.to = k BY DEF Won
<1>6. CASE j = l /\ j # k BY <1>2, <1>3, <1>4, <1>6 DEF Backed
<1>7. CASE j = k /\ j # l BY <1>1, <1>3, <1>5, <1>7 DEF Backed
<1>8. CASE j # l /\ j # k
  <2>1. PICK m \in nt : Granted(m) /\ m.from = j /\ m.to = l /\ m.term = t
    BY <1>1, <1>3, <1>8 DEF Backed
  <2>2. PICK n \in nt : Granted(n) /\ n.from = j /\ n.to = k /\ n.term = t
    BY <1>2, <1>3, <1>8 DEF Backed
  <2> QED BY <1>3, <2>1, <2>2 DEF ElectionInvariant
<1> QED BY <1>6, <1>7, <1>8

----------------------------------------------------------------------------
(* Links *)

\* A link of a log tells its place there.
LEMMA LinkAt ==
    ASSUME NEW log, NEW a \in LogLinks(log)
    PROVE  /\ a.at \in 1..Len(log) /\ a.entry = log[a.at]
           /\ a = [at |-> a.at, entry |-> log[a.at], prev |-> TermAt(log, a.at - 1)]
BY DEF LogLinks

LEMMA LinksOfLogs ==
    ASSUME NEW nd, NEW dk, NEW nt, NEW i \in Server
    PROVE  /\ LogLinks(nd[i].log) \subseteq Links(nd, dk, nt)
           /\ LogLinks(dk[i].log) \subseteq Links(nd, dk, nt)
<1> DEFINE logs == UNION {LogLinks(nd[k].log) \cup LogLinks(dk[k].log) : k \in Server}
<1>1. \A a \in LogLinks(nd[i].log) \cup LogLinks(dk[i].log) : a \in logs OBVIOUS
<1>2. logs \subseteq Links(nd, dk, nt) BY DEF Links
<1> HIDE DEF logs
<1> QED BY <1>1, <1>2

LEMMA LinksOfMessages ==
    ASSUME NEW nd, NEW dk, NEW nt, NEW m \in Underway(nd, nt)
    PROVE  Carried(m) \subseteq Links(nd, dk, nt)
<1> DEFINE carried == UNION {Carried(n) : n \in Underway(nd, nt)}
<1>1. \A a \in Carried(m) : a \in carried OBVIOUS
<1>2. carried \subseteq Links(nd, dk, nt) BY DEF Links
<1> HIDE DEF carried
<1> QED BY <1>1, <1>2

LEMMA UnderwayOf ==
    ASSUME NEW nd, NEW nt, NEW i \in Server
    PROVE  Boxes(nd[i]) \subseteq Underway(nd, nt) /\ Range(nd[i].steps) \subseteq Underway(nd, nt)
BY DEF Underway

\* All links of a group lie in S if those of its logs and messages do.
LEMMA LinksWithin ==
    ASSUME NEW nd, NEW dk, NEW nt, NEW S,
           \A i \in Server : LogLinks(nd[i].log) \subseteq S /\ LogLinks(dk[i].log) \subseteq S,
           \A m \in nt : Carried(m) \subseteq S,
           \A i \in Server : \A m \in Boxes(nd[i]) \cup Range(nd[i].steps) : Carried(m) \subseteq S
    PROVE  Links(nd, dk, nt) \subseteq S
<1>1. \A m \in Underway(nd, nt) : Carried(m) \subseteq S
  <2> TAKE m \in Underway(nd, nt)
  <2>1. m \in nt \/ \E i \in Server : m \in Boxes(nd[i]) \cup Range(nd[i].steps) BY DEF Underway
  <2> QED BY <2>1
<1>2. ASSUME NEW a \in Links(nd, dk, nt) PROVE a \in S
  <2>1. \/ \E i \in Server : a \in LogLinks(nd[i].log) \cup LogLinks(dk[i].log)
        \/ \E m \in Underway(nd, nt) : a \in Carried(m)
    BY <1>2 DEF Links
  <2> QED BY <1>1, <2>1
<1> QED BY <1>2

\* The term of a link is a number.
LEMMA LinkTerms ==
    ASSUME NEW nd \in [Server -> Node], NEW dk \in [Server -> Disk], NEW nt \in SUBSET Message
    PROVE  \A a \in Links(nd, dk, nt) : a.entry.term \in Nat
<1> DEFINE S == {a \in Links(nd, dk, nt) : a.entry.term \in Nat}
<1>1. ASSUME NEW log \in Seq(Entry), NEW a \in LogLinks(log) PROVE a.entry.term \in Nat
  <2>1. a.at \in 1..Len(log) /\ a.entry = log[a.at] BY LinkAt
  <2>2. log[a.at] \in Entry BY <2>1, ElementOfSeq
  <2> QED BY <2>1, <2>2 DEF Entry
<1>2. ASSUME NEW m \in Message, NEW a \in Carried(m) PROVE a.entry.term \in Nat
  <2>1. m.entries \in Seq(Entry) BY DEF Message
  <2>2. \E k \in 1..Len(m.entries) : a.entry = m.entries[k] BY DEF Carried
  <2>3. \A k \in 1..Len(m.entries) : m.entries[k] \in Entry BY <2>1, ElementOfSeq
  <2> QED BY <2>2, <2>3 DEF Entry
<1>3. \A i \in Server : LogLinks(nd[i].log) \subseteq S /\ LogLinks(dk[i].log) \subseteq S
  <2> TAKE i \in Server
  <2>1. nd[i].log \in Seq(Entry) /\ dk[i].log \in Seq(Entry) BY DEF Node, Disk
  <2> QED BY <1>1, <2>1, LinksOfLogs
<1>4. \A m \in Underway(nd, nt) : m \in Message /\ Carried(m) \subseteq S
  <2> TAKE m \in Underway(nd, nt)
  <2>1. m \in nt \/ \E i \in Server : m \in Boxes(nd[i]) \cup Range(nd[i].steps) BY DEF Underway
  <2>2. \A i \in Server : Boxes(nd[i]) \cup Range(nd[i].steps) \subseteq Message
    <3> TAKE i \in Server
    <3>1. nd[i] \in Node /\ nd[i].steps \in Seq(Message) BY DEF Node
    <3>2. Range(nd[i].steps) = {nd[i].steps[n] : n \in 1..Len(nd[i].steps)}
      BY <3>1, RangeEquality
    <3> QED BY <3>1, <3>2, BoxesType, ElementOfSeq
  <2>3. m \in Message BY <2>1, <2>2
  <2> QED BY <1>2, <2>3, LinksOfMessages
<1>5. \A i \in Server : \A m \in Boxes(nd[i]) \cup Range(nd[i].steps) : Carried(m) \subseteq S
  BY <1>4, UnderwayOf
<1>6. \A m \in nt : Carried(m) \subseteq S BY <1>4 DEF Underway
<1> HIDE DEF S
<1>7. Links(nd, dk, nt) \subseteq S BY <1>3, <1>5, <1>6, LinksWithin
<1> QED BY <1>7 DEF S

\* Where no link comes about, no leader turns up and nobody loses a term, the
\* links stay in order.
LEMMA FewerLinks ==
    ASSUME NEW nd \in [Server -> Node], NEW dk \in [Server -> Disk], NEW nt \in SUBSET Message,
           NEW nw, NEW dw, NEW nn, LinkInvariant(nd, dk, nt),
           Links(nw, dw, nn) \subseteq Links(nd, dk, nt),
           \A l \in Server : \A t \in Nat : Won(l, t, nd, dk, nt) => Won(l, t, nw, dw, nn),
           \A k \in Server : nw[k].state = "StateLeader" =>
             nd[k].state = "StateLeader" /\ nw[k].Term = nd[k].Term /\ nw[k].log = nd[k].log
    PROVE  LinkInvariant(nw, dw, nn)
<1>1. \A a, b \in Links(nw, dw, nn) : a.at = b.at /\ a.entry.term = b.entry.term => a = b
  BY DEF LinkInvariant
<1>2. \A a \in Links(nw, dw, nn) : \E l \in Server : Won(l, a.entry.term, nw, dw, nn)
  BY LinkTerms DEF LinkInvariant
<1>3. ASSUME NEW k \in Server, nw[k].state = "StateLeader"
      PROVE  /\ Won(k, nw[k].Term, nw, dw, nn)
             /\ \A a \in Links(nw, dw, nn) :
                  a.entry.term = nw[k].Term => a \in LogLinks(nw[k].log)
  <2>1. nd[k].state = "StateLeader" /\ nw[k].Term = nd[k].Term /\ nw[k].log = nd[k].log
    BY <1>3
  <2>2. /\ Won(k, nd[k].Term, nd, dk, nt)
        /\ \A a \in Links(nd, dk, nt) : a.entry.term = nd[k].Term => a \in LogLinks(nd[k].log)
    BY <2>1 DEF LinkInvariant
  <2>3. nd[k].Term \in Nat BY DEF Node
  <2> QED BY <2>1, <2>2, <2>3
<1> QED BY <1>1, <1>2, <1>3 DEF LinkInvariant

----------------------------------------------------------------------------
(* One server takes a step *)

\* From r to s no vote was taken back, and no more was granted than s stands by.
Onward(r, s) ==
    /\ Range(s.steps) \subseteq Range(r.steps)
    /\ s.Term >= r.Term
    /\ s.Term = r.Term /\ r.Vote # Nil => s.Vote = r.Vote
    /\ \A m \in Boxes(s) :
         m \in Boxes(r) \/ (Granted(m) => m.term = s.Term /\ m.to = s.Vote)

LEMMA BallotOnward ==
    ASSUME NEW r, NEW p, NEW s, Range(p.steps) \subseteq Range(r.steps),
           p.Term = r.Term, p.Vote = r.Vote, Boxes(p) = Boxes(r), BallotStep(p, s)
    PROVE  Onward(r, s)
BY DEF BallotStep, Onward

\* What server i may learn from: the network, and its own messages.
Heard(nd, nt, i) == nt \cup Range(nd[i].steps)

\* A grant for i that it heard is a vote on its disk; so is its own request.
LEMMA HeardShown ==
    ASSUME NEW nd, NEW dk, NEW nt, TrailInvariant(nd, dk, nt), NEW i \in Server,
           NEW v \in Heard(nd, nt, i)
    PROVE  Shown(v, DiskStates(dk))
BY DEF TrailInvariant, Heard

LEMMA StepKeepsTrail ==
    ASSUME NEW nd \in [Server -> Node], NEW dk \in [Server -> Disk], NEW nt \in SUBSET Message,
           NEW i \in Server, NEW s \in Node,
           ElectionInvariant(nd, dk, nt), TrailInvariant(nd, dk, nt),
           ElectionInvariant([nd EXCEPT ![i] = s], dk, nt),
           Onward(nd[i], s), NEW N \in SUBSET Heard(nd, nt, i), LogStep(nd[i], s, N)
    PROVE  TrailInvariant([nd EXCEPT ![i] = s], dk, nt)
<1> DEFINE r == nd[i]
           nw == [nd EXCEPT ![i] = s]
           before == ReadyStates(nd, dk, i)
           after == ReadyStates(nw, dk, i)
<1>1. nw[i] = s /\ \A k \in Server \ {i} : nw[k] = nd[k] OBVIOUS
<1> HIDE DEF nw
<1>2. r \in Node /\ r.Term \in Nat /\ s.Term \in Nat /\ s.id = i /\ r.id = i
  <2>1. s.id = i /\ r.id = i BY <1>1 DEF ElectionInvariant
  <2> QED BY <2>1 DEF Node
<1>3. /\ before[i].Term = r.Term /\ before[i].Vote = r.Vote
      /\ after[i].Term = s.Term /\ after[i].Vote = s.Vote
      /\ \A j \in Server \ {i} : before[j] = dk[j].hs /\ after[j] = dk[j].hs
  BY <1>1 DEF ReadyStates, DiskStates, hardState
<1>4. \A j \in Server : dk[j].hs.Term \in Nat BY DEF Disk, HardState
<1>5. \A k \in Server \ {i} : ReadyStates(nw, dk, k) = ReadyStates(nd, dk, k)
  BY <1>1 DEF ReadyStates
<1> HIDE DEF before, after
<1>6. \A m \in nt : Shown(m, DiskStates(dk)) BY DEF TrailInvariant
<1>7. ASSUME NEW k \in Server, NEW m \in Range(nw[k].steps)
      PROVE  Shown(m, DiskStates(dk)) /\ (Granted(m) => StoodBy(m, nw[k]))
  <2>1. CASE k # i BY <1>1, <1>7, <2>1 DEF TrailInvariant
  <2>2. CASE k = i
    <3>1. m \in Range(r.steps) BY <1>1, <1>7, <2>2 DEF Onward
    <3>2. m \in Message
      <4>1. r.steps \in Seq(Message) BY <1>2 DEF Node
      <4>2. Range(r.steps) = {r.steps[n] : n \in 1..Len(r.steps)} BY <4>1, RangeEquality
      <4> QED BY <3>1, <4>1, <4>2, ElementOfSeq
    <3>3. Shown(m, DiskStates(dk)) /\ (Granted(m) => StoodBy(m, r)) BY <3>1 DEF TrailInvariant
    <3>4. m.to # Nil /\ m.term \in Nat BY <3>2, ServerAssumption DEF Message
    <3>5. StoodBy(m, r) => StoodBy(m, s) BY <1>2, <3>4 DEF StoodBy, Onward
    <3> QED BY <1>1, <2>2, <3>3, <3>5
  <2> QED BY <2>1, <2>2
<1>8. ASSUME NEW m \in Boxes(s)
      PROVE  Shown(m, after) /\ (m.type = "MsgVote" => m.from = i)
  <2>1. m \in Message BY <1>8, BoxesType
  <2>2. CASE m \in Boxes(r)
    <3>1. Shown(m, before) /\ (m.type = "MsgVote" => m.from = i)
      BY <2>2 DEF TrailInvariant, before
    <3>2. \A j \in Server : /\ before[j].Term \in Nat /\ after[j].Term \in Nat
                            /\ after[j].Term >= before[j].Term
                            /\ after[j].Term = before[j].Term /\ before[j].Vote # Nil =>
                                 after[j].Vote = before[j].Vote
      BY <1>2, <1>3, <1>4 DEF Onward
    <3> QED BY <2>1, <3>1, <3>2, ShownGrow
  <2>3. CASE m \notin Boxes(r)
    <3>1. Honest(m, s, N) BY <1>8, <2>3 DEF LogStep
    <3>2. m.type = "MsgVote" => m.from = i /\ Claims(m.term, m.from, after[m.from])
      BY <1>2, <1>3, <3>1 DEF Honest, Claims
    <3>3. Granted(m) /\ m.to = i => Claims(m.term, m.to, after[m.to])
      <4>1. Granted(m) => StoodBy(m, s) BY <1>1, <1>8 DEF ElectionInvariant
      <4> QED BY <1>3, <4>1 DEF StoodBy, Claims
    <3>4. Granted(m) /\ m.to # i => Claims(m.term, m.to, after[m.to])
      <4>1. ASSUME Granted(m), m.to # i
            PROVE  Claims(m.term, m.to, dk[m.to].hs) /\ m.to \in Server
        <5>1. PICK v \in N : v.type = "MsgVote" /\ v.from = m.to /\ v.term = m.term
          BY <1>2, <3>1, <4>1 DEF Honest
        <5>2. Shown(v, DiskStates(dk)) BY HeardShown
        <5>3. m.to \in Server BY <2>1 DEF Message
        <5> QED BY <5>1, <5>2, <5>3 DEF Shown, DiskStates
      <4> QED BY <1>3, <4>1
    <3> QED BY <3>2, <3>3, <3>4 DEF Shown
  <2> QED BY <2>2, <2>3
<1>9. ASSUME NEW k \in Server, NEW m \in Boxes(nw[k])
      PROVE  Shown(m, ReadyStates(nw, dk, k)) /\ (m.type = "MsgVote" => m.from = k)
  <2>1. CASE k # i BY <1>1, <1>5, <1>9, <2>1 DEF TrailInvariant
  <2>2. CASE k = i BY <1>1, <1>8, <1>9, <2>2 DEF after
  <2> QED BY <2>1, <2>2
<1>10. ASSUME NEW k \in Server, nw[k].state = "StateCandidate", nw[k].granted # {}
       PROVE  Claims(nw[k].Term, k, dk[k].hs)
  <2>1. CASE k # i BY <1>1, <1>10, <2>1 DEF TrailInvariant
  <2>2. CASE k = i
    <3>1. r.state = "StateCandidate" /\ s.Term = r.Term /\ Supported(r, N)
      BY <1>1, <1>10, <2>2 DEF LogStep
    <3>2. CASE r.granted # {} BY <1>1, <2>2, <3>1, <3>2 DEF TrailInvariant
    <3>3. CASE \E v \in N : Granted(v) /\ v.to = r.id /\ v.term = r.Term
      <4>1. PICK v \in N : Granted(v) /\ v.to = i /\ v.term = r.Term BY <1>2, <3>3
      <4>2. Shown(v, DiskStates(dk)) BY HeardShown
      <4> QED BY <1>1, <2>2, <3>1, <4>1, <4>2 DEF Shown, DiskStates
    <3> QED BY <3>1, <3>2, <3>3 DEF Supported
  <2> QED BY <2>1, <2>2
<1>11. TrailInvariant(nw, dk, nt) BY <1>6, <1>7, <1>9, <1>10 DEF TrailInvariant
<1> QED BY <1>11 DEF nw

\* A step takes no term away from its winner.
LEMMA StepKeepsWon ==
    ASSUME NEW nd \in [Server -> Node], NEW dk \in [Server -> Disk], NEW nt \in SUBSET Message,
           NEW i \in Server, NEW s \in Node, ElectionInvariant(nd, dk, nt),
           ElectionInvariant([nd EXCEPT ![i] = s], dk, nt),
           Onward(nd[i], s), NEW N, LogStep(nd[i], s, N),
           NEW l \in Server, NEW t, Won(l, t, nd, dk, nt)
    PROVE  Won(l, t, [nd EXCEPT ![i] = s], dk, nt)
<1> DEFINE r == nd[i]
           hs == dk[i].hs
           nw == [nd EXCEPT ![i] = s]
<1>1. nw[i] = s /\ \A k \in Server \ {i} : nw[k] = nd[k] OBVIOUS
<1> HIDE DEF nw
<1>2. ASSUME l # i PROVE Won(l, t, nw, dk, nt)
  <2>1. nw[l] = nd[l] BY <1>1, <1>2
  <2> QED BY <2>1 DEF Won
<1>3. ASSUME l = i PROVE Won(l, t, nw, dk, nt)
  <2>1. /\ \E Q \in SUBSET Server : IsQuorum(Q, Server) /\ \A j \in Q \ {l} : Backed(nt, j, l, t)
        /\ Claims(t, l, dk[l].hs)
    BY DEF Won
  <2>2. /\ hs.Term \in Nat /\ r.Term \in Nat /\ s.Term \in Nat BY DEF Disk, HardState, Node
  <2>3. /\ r.Term >= hs.Term /\ s.Term >= r.Term
        /\ s.Term = hs.Term /\ hs.Vote # Nil => s.Vote = hs.Vote
    BY <1>1 DEF ElectionInvariant, Durable, Onward
  <2>4. t <= hs.Term /\ (t = hs.Term => hs.Vote = i) /\ i # Nil
    BY <1>3, <2>1, ServerAssumption DEF Claims
  <2>5. ASSUME s.state = "StateCandidate", s.Term = t PROVE FALSE
    <3>1. ~(r.state = "StateCandidate" /\ r.Term = t) BY <1>3 DEF Won
    <3>2. s.Term > r.Term BY <2>5, <3>1 DEF LogStep
    <3> QED BY <2>2, <2>3, <2>4, <2>5, <3>2
  <2>6. ASSUME NEW m \in Boxes(s) \cup nt, Granted(m), m.from = i, m.term = t PROVE m.to = i
    <3>1. CASE m \in Boxes(r) \cup nt BY <1>3, <2>6, <3>1 DEF Won
    <3>2. CASE m \in Boxes(s) /\ m \notin Boxes(r)
      <4>1. m.term = s.Term /\ m.to = s.Vote BY <2>6, <3>2 DEF Onward
      <4>2. t = s.Term /\ s.Term <= hs.Term /\ hs.Term <= s.Term BY <2>2, <2>3, <2>4, <2>6, <4>1
      <4>3. s.Term = hs.Term BY <2>2, <4>2
      <4> QED BY <2>3, <2>4, <4>1, <4>2, <4>3
    <3> QED BY <2>6, <3>1, <3>2
  <2> QED BY <1>1, <1>3, <2>1, <2>5, <2>6 DEF Won
<1>4. Won(l, t, nw, dk, nt) BY <1>2, <1>3
<1> QED BY <1>4 DEF nw

\* Who takes the lead has won: a quorum backs it, and its own vote is durable.
LEMMA StepWins ==
    ASSUME NEW nd \in [Server -> Node], NEW dk \in [Server -> Disk], NEW nt \in SUBSET Message,
           NEW i \in Server, NEW s \in Node,
           ElectionInvariant(nd, dk, nt), TrailInvariant(nd, dk, nt),
           ElectionInvariant([nd EXCEPT ![i] = s], dk, nt),
           NEW N \in SUBSET Heard(nd, nt, i), LogStep(nd[i], s, N),
           s.state = "StateLeader", nd[i].state = "StateCandidate"
    PROVE  Won(i, s.Term, [nd EXCEPT ![i] = s], dk, nt)
<1> DEFINE r == nd[i]
           nw == [nd EXCEPT ![i] = s]
           t == s.Term
<1>1. nw[i] = s OBVIOUS
<1> HIDE DEF nw
<1>2. /\ r.id = i /\ s.id = i /\ Evidence(s, nt) /\ Durable(s, dk[i].hs)
      /\ \A m \in Boxes(s) : Granted(m) => StoodBy(m, s)
      /\ \A m \in nt : Granted(m) => StoodBy(m, dk[m.from].hs)
  BY <1>1 DEF ElectionInvariant
<1>3. s.Vote = i
      /\ \E Q \in SUBSET Server : IsQuorum(Q, Server) /\ \A j \in Q \ {i} : Backed(nt, j, i, t)
  BY <1>2 DEF Evidence
<1>4. t = r.Term /\ Supported(r, N) BY DEF LogStep
<1>5. Claims(t, i, dk[i].hs)
  <2>1. CASE r.granted # {} BY <1>4, <2>1 DEF TrailInvariant
  <2>2. CASE \E v \in N : Granted(v) /\ v.to = r.id /\ v.term = r.Term
    <3>1. PICK v \in N : Granted(v) /\ v.to = i /\ v.term = t BY <1>2, <1>4, <2>2
    <3>2. Shown(v, DiskStates(dk)) BY HeardShown
    <3> QED BY <3>1, <3>2 DEF Shown, DiskStates
  <2> QED BY <1>4, <2>1, <2>2 DEF Supported
<1>6. ASSUME NEW m \in Boxes(s) \cup nt, Granted(m), m.from = i, m.term = t PROVE m.to = i
  <2>1. StoodBy(m, s)
    <3>1. CASE m \in Boxes(s) BY <1>2, <1>6, <3>1
    <3>2. CASE m \in nt
      <4>1. m \in Message /\ dk[i].hs \in HardState /\ StoodBy(m, dk[i].hs)
        BY <1>2, <1>6, <3>2 DEF Disk
      <4> QED BY <1>2, <4>1, StoodByDisk
    <3> QED BY <1>6, <3>1, <3>2
  <2> QED BY <1>3, <1>6, <2>1 DEF StoodBy
<1>7. Won(i, t, nw, dk, nt) BY <1>1, <1>3, <1>5, <1>6 DEF Won
<1> QED BY <1>7 DEF nw

\* Links come about only in the log of a leader, and are of its term.
LEMMA StepNewLinks ==
    ASSUME NEW nd \in [Server -> Node], NEW dk \in [Server -> Disk], NEW nt \in SUBSET Message,
           NEW i \in Server, NEW s \in Node,
           Onward(nd[i], s), NEW N \in SUBSET Heard(nd, nt, i), LogStep(nd[i], s, N)
    PROVE  \A a \in Links([nd EXCEPT ![i] = s], dk, nt) :
             \/ a \in Links(nd, dk, nt)
             \/ s.state = "StateLeader" /\ a \in LogLinks(s.log) /\ a.entry.term = s.Term
<1> DEFINE r == nd[i]
           nw == [nd EXCEPT ![i] = s]
           L == Links(nd, dk, nt)
           S == L \cup {a \in LogLinks(s.log) : s.state = "StateLeader" /\ a.entry.term = s.Term}
<1>1. nw[i] = s /\ \A k \in Server \ {i} : nw[k] = nd[k] OBVIOUS
<1> HIDE DEF nw
<1>2. LogLinks(r.log) \subseteq L /\ \A m \in N : Carried(m) \subseteq L
  <2>1. \A m \in N : m \in Underway(nd, nt) BY DEF Heard, Underway
  <2>2. \A m \in N : Carried(m) \subseteq L BY <2>1, LinksOfMessages
  <2> QED BY <2>2, LinksOfLogs
<1>3. \A m \in nt \cup Boxes(r) \cup Range(r.steps) : Carried(m) \subseteq L
  <2>1. \A m \in nt \cup Boxes(r) \cup Range(r.steps) : m \in Underway(nd, nt) BY DEF Underway
  <2> HIDE DEF L
  <2> QED BY <2>1, LinksOfMessages DEF L
<1>4. LogLinks(s.log) \subseteq S
  <2>1. CASE s.state = "StateLeader"
    <3>1. r.log \in Seq(Entry) /\ s.log \in Seq(Entry) BY DEF Node
    <3>2. Extends(r.log, s.log, s.Term) BY <2>1 DEF LogStep
    <3>3. \A a \in LogLinks(s.log) : a \in LogLinks(r.log) \/ a.entry.term = s.Term
      BY <3>1, <3>2, ExtendsLinks
    <3> HIDE DEF L
    <3> QED BY <1>2, <2>1, <3>3
  <2>2. CASE s.state # "StateLeader"
    <3>1. LogLinks(s.log) \subseteq LogLinks(r.log) \cup UNION {Carried(m) : m \in N}
      BY <2>2 DEF LogStep
    <3>2. UNION {Carried(m) : m \in N} \subseteq L
      <4> HIDE DEF L
      <4> QED BY <1>2
    <3> HIDE DEF L
    <3> QED BY <1>2, <3>1, <3>2
  <2> QED BY <2>1, <2>2
<1>5. \A k \in Server : LogLinks(nw[k].log) \subseteq S /\ LogLinks(dk[k].log) \subseteq S
  <2>1. \A k \in Server : LogLinks(nd[k].log) \subseteq L /\ LogLinks(dk[k].log) \subseteq L
    BY LinksOfLogs
  <2> HIDE DEF L
  <2>2. L \subseteq S OBVIOUS
  <2> HIDE DEF S
  <2> QED BY <1>1, <1>4, <2>1, <2>2
<1>6. \A k \in Server : \A m \in Boxes(nw[k]) \cup Range(nw[k].steps) : Carried(m) \subseteq S
  <2> TAKE k \in Server
  <2> TAKE m \in Boxes(nw[k]) \cup Range(nw[k].steps)
  <2>1. L \subseteq S
    <3> HIDE DEF L
    <3> QED OBVIOUS
  <2>2. CASE k # i
    <3>1. m \in Underway(nd, nt) BY <1>1, <2>2, UnderwayOf
    <3>2. Carried(m) \subseteq L BY <3>1, LinksOfMessages
    <3> HIDE DEF L, S
    <3> QED BY <2>1, <3>2
  <2>3. CASE k = i
    <3>1. m \in Boxes(r) \cup Range(r.steps) \/ Carried(m) \subseteq LogLinks(s.log)
      BY <1>1, <2>3 DEF Onward, LogStep, Honest
    <3> HIDE DEF L, S
    <3> QED BY <1>3, <1>4, <2>1, <3>1
  <2> QED BY <2>2, <2>3
<1>7. \A m \in nt : Carried(m) \subseteq S
  <2> HIDE DEF L
  <2> QED BY <1>3
<1> HIDE DEF S
<1>8. Links(nw, dk, nt) \subseteq S BY <1>5, <1>6, <1>7, LinksWithin
<1>9. \A a \in Links(nw, dk, nt) :
        a \in L \/ (s.state = "StateLeader" /\ a \in LogLinks(s.log) /\ a.entry.term = s.Term)
  <2> HIDE DEF L
  <2> QED BY <1>8 DEF S
<1> QED BY <1>9 DEF nw

LEMMA StepKeepsLinks ==
    ASSUME NEW nd \in [Server -> Node], NEW dk \in [Server -> Disk], NEW nt \in SUBSET Message,
           NEW i \in Server, NEW s \in Node, ClusterInvariant(nd, dk, nt),
           ElectionInvariant([nd EXCEPT ![i] = s], dk, nt),
           Onward(nd[i], s), NEW N \in SUBSET Heard(nd, nt, i), LogStep(nd[i], s, N)
    PROVE  LinkInvariant([nd EXCEPT ![i] = s], dk, nt)
<1> DEFINE r == nd[i]
           nw == [nd EXCEPT ![i] = s]
           L == Links(nd, dk, nt)
           Lw == Links(nw, dk, nt)
           t == s.Term
<1>0. /\ ElectionInvariant(nd, dk, nt) /\ TrailInvariant(nd, dk, nt)
      /\ LinkInvariant(nd, dk, nt) /\ ElectionInvariant(nw, dk, nt)
  BY DEF ClusterInvariant
<1>1. nw \in [Server -> Node] /\ nw[i] = s /\ \A k \in Server \ {i} : nw[k] = nd[k] OBVIOUS
<1>2. \A a \in Lw :
        a \in L \/ (s.state = "StateLeader" /\ a \in LogLinks(s.log) /\ a.entry.term = t)
  BY ZenonT(60), StepNewLinks
<1>3. \A l \in Server : \A u : Won(l, u, nd, dk, nt) => Won(l, u, nw, dk, nt)
  BY <1>0, StepKeepsWon
<1>4. s.state = "StateLeader" /\ r.state = "StateCandidate" => Won(i, t, nw, dk, nt)
  BY <1>0, StepWins
<1>5. \A l, k \in Server : \A u : Won(l, u, nw, dk, nt) /\ Won(k, u, nw, dk, nt) => l = k
  <2> HIDE DEF nw
  <2> QED BY <1>0, <1>1, OneWinner
<1>6. /\ \A a, b \in L : a.at = b.at /\ a.entry.term = b.entry.term => a = b
      /\ \A a \in L : \E l \in Server : Won(l, a.entry.term, nd, dk, nt)
      /\ \A k \in Server : nd[k].state = "StateLeader" =>
           /\ Won(k, nd[k].Term, nd, dk, nt)
           /\ \A a \in L : a.entry.term = nd[k].Term => a \in LogLinks(nd[k].log)
  BY <1>0 DEF LinkInvariant
<1> HIDE DEF nw, L, Lw
<1>7. ASSUME s.state # "StateLeader" PROVE LinkInvariant(nw, dk, nt)
  <2>1. Lw \subseteq L BY <1>2, <1>7
  <2>2. \A k \in Server : nw[k].state = "StateLeader" =>
          nd[k].state = "StateLeader" /\ nw[k].Term = nd[k].Term /\ nw[k].log = nd[k].log
    BY <1>1, <1>7
  <2> QED BY <1>0, <1>3, <2>1, <2>2, FewerLinks DEF L, Lw
<1>8. ASSUME s.state = "StateLeader" PROVE LinkInvariant(nw, dk, nt)
  <2>0. /\ t = r.Term /\ Extends(r.log, s.log, t)
        /\ r.state = "StateLeader" \/ r.state = "StateCandidate"
    BY <1>8 DEF LogStep
  <2>1. Won(i, t, nw, dk, nt) BY <1>3, <1>4, <1>6, <1>8, <2>0
  <2>2. ASSUME NEW a \in L, a.entry.term = t PROVE a \in LogLinks(s.log)
    <3>1. CASE r.state = "StateLeader"
      <4>1. a \in LogLinks(r.log) BY <1>6, <2>0, <2>2, <3>1
      <4>2. r.log \in Seq(Entry) /\ s.log \in Seq(Entry) BY DEF Node
      <4> QED BY <2>0, <4>1, <4>2, ExtendsLinks
    <3>2. CASE r.state = "StateCandidate"
      <4>1. PICK l \in Server : Won(l, t, nd, dk, nt) BY <1>6, <2>2
      <4>2. l # i BY <2>0, <3>2, <4>1 DEF Won
      <4> QED BY <1>3, <1>5, <2>1, <4>1, <4>2
    <3> QED BY <2>0, <3>1, <3>2
  <2>3. \A a \in Lw : a \in L \/ a.entry.term = t BY <1>2
  <2>4. \A a \in Lw : a.entry.term = t => a \in LogLinks(s.log) BY <1>2, <2>2
  <2>5. ASSUME NEW a \in Lw, NEW b \in Lw, a.at = b.at, a.entry.term = b.entry.term
        PROVE  a = b
    <3>1. CASE a.entry.term = t
      <4>1. a \in LogLinks(s.log) /\ b \in LogLinks(s.log) BY <2>4, <2>5, <3>1
      <4> QED BY <2>5, <4>1, LinkAt
    <3>2. CASE a.entry.term # t BY <1>6, <2>3, <2>5, <3>2
    <3> QED BY <3>1, <3>2
  <2>6. \A a \in Lw : \E l \in Server : Won(l, a.entry.term, nw, dk, nt)
    BY <1>3, <1>6, <2>1, <2>3
  <2>7. ASSUME NEW k \in Server, nw[k].state = "StateLeader"
        PROVE  /\ Won(k, nw[k].Term, nw, dk, nt)
               /\ \A a \in Lw : a.entry.term = nw[k].Term => a \in LogLinks(nw[k].log)
    <3>1. CASE k = i BY <1>1, <2>1, <2>4, <3>1
    <3>2. CASE k # i
      <4>1. nw[k] = nd[k] BY <1>1, <3>2
      <4>2. Won(k, nd[k].Term, nw, dk, nt) BY <1>3, <1>6, <2>7, <4>1
      <4>3. nd[k].Term # t BY <1>5, <2>1, <3>2, <4>2
      <4> QED BY <1>6, <2>3, <2>7, <4>1, <4>2, <4>3
    <3> QED BY <3>1, <3>2
  <2> QED BY <2>5, <2>6, <2>7 DEF LinkInvariant, Lw
<1>9. LinkInvariant(nw, dk, nt) BY <1>7, <1>8
<1> QED BY <1>9 DEF nw

\* A server may take any step that takes no vote back.
LEMMA StepKeeps ==
    ASSUME NEW nd \in [Server -> Node], NEW dk \in [Server -> Disk], NEW nt \in SUBSET Message,
           NEW i \in Server, NEW s \in Node, ClusterInvariant(nd, dk, nt),
           ElectionInvariant([nd EXCEPT ![i] = s], dk, nt),
           Onward(nd[i], s), NEW N \in SUBSET Heard(nd, nt, i), LogStep(nd[i], s, N)
    PROVE  ClusterInvariant([nd EXCEPT ![i] = s], dk, nt)
<1>1. ElectionInvariant(nd, dk, nt) /\ TrailInvariant(nd, dk, nt) BY DEF ClusterInvariant
<1>2. TrailInvariant([nd EXCEPT ![i] = s], dk, nt) BY <1>1, StepKeepsTrail
<1>3. LinkInvariant([nd EXCEPT ![i] = s], dk, nt) BY StepKeepsLinks
<1> QED BY <1>2, <1>3 DEF ClusterInvariant

----------------------------------------------------------------------------
(* One server writes its disk, and what waited for that leaves *)

LEMMA WriteKeepsTrail ==
    ASSUME NEW nd \in [Server -> Node], NEW dk \in [Server -> Disk], NEW nt \in SUBSET Message,
           ElectionInvariant(nd, dk, nt), TrailInvariant(nd, dk, nt),
           NEW i \in Server, NEW d \in Disk, d.hs = hardState(nd[i]), NEW M \in SUBSET Boxes(nd[i])
    PROVE  TrailInvariant(nd, [dk EXCEPT ![i] = d], nt \cup M)
<1> DEFINE dw == [dk EXCEPT ![i] = d]
           before == DiskStates(dk)
           after == DiskStates(dw)
<1>1. dw \in [Server -> Disk] /\ dw[i] = d /\ \A k \in Server \ {i} : dw[k] = dk[k] OBVIOUS
<1> HIDE DEF dw
<1>2. d.hs.Term = nd[i].Term /\ d.hs.Vote = nd[i].Vote BY DEF hardState
<1>3. \A j \in Server : dk[j].hs.Term \in Nat /\ dw[j].hs.Term \in Nat BY <1>1 DEF Disk, HardState
<1>4. \A j \in Server : /\ dw[j].hs.Term >= dk[j].hs.Term
                        /\ dw[j].hs.Term = dk[j].hs.Term /\ dk[j].hs.Vote # Nil =>
                             dw[j].hs.Vote = dk[j].hs.Vote
  BY <1>1, <1>2, <1>3 DEF ElectionInvariant, Durable
<1>5. \A j \in Server : /\ before[j].Term \in Nat /\ after[j].Term \in Nat
                        /\ after[j].Term >= before[j].Term
                        /\ after[j].Term = before[j].Term /\ before[j].Vote # Nil =>
                             after[j].Vote = before[j].Vote
  BY <1>3, <1>4 DEF DiskStates
<1>6. after = ReadyStates(nd, dk, i)
  BY <1>1 DEF ReadyStates, DiskStates
<1>7. ASSUME NEW m \in Message, Shown(m, before) PROVE Shown(m, after)
  <2> HIDE DEF before, after
  <2> QED BY <1>5, <1>7, ShownGrow
<1>8. ASSUME NEW m \in nt \cup M PROVE Shown(m, after)
  <2>1. CASE m \in nt BY <1>7, <2>1 DEF TrailInvariant
  <2>2. CASE m \in M BY <1>6, <2>2 DEF TrailInvariant
  <2> QED BY <2>1, <2>2
<1>9. ASSUME NEW k \in Server, NEW m \in Range(nd[k].steps)
      PROVE  Shown(m, after) /\ (Granted(m) => StoodBy(m, nd[k]))
  <2>1. m \in Message
    <3>1. nd[k].steps \in Seq(Message) BY DEF Node
    <3>2. Range(nd[k].steps) = {nd[k].steps[n] : n \in 1..Len(nd[k].steps)}
      BY <3>1, RangeEquality
    <3> QED BY <3>1, <3>2, ElementOfSeq
  <2> QED BY <1>7, <2>1 DEF TrailInvariant
<1>10. ASSUME NEW k \in Server, NEW m \in Boxes(nd[k])
       PROVE  Shown(m, ReadyStates(nd, dw, k)) /\ (m.type = "MsgVote" => m.from = k)
  <2> DEFINE g == ReadyStates(nd, dk, k)
             h == ReadyStates(nd, dw, k)
  <2>1. m \in Message BY BoxesType
  <2>2. Shown(m, g) /\ (m.type = "MsgVote" => m.from = k) BY DEF TrailInvariant
  <2>3. /\ g[k] = hardState(nd[k]) /\ h[k] = hardState(nd[k])
        /\ \A j \in Server \ {k} : g[j] = dk[j].hs /\ h[j] = dw[j].hs
    BY DEF ReadyStates, DiskStates
  <2> HIDE DEF g, h
  <2>4. hardState(nd[k]).Term \in Nat BY DEF hardState, Node
  <2>5. \A j \in Server : /\ g[j].Term \in Nat /\ h[j].Term \in Nat /\ h[j].Term >= g[j].Term
                          /\ h[j].Term = g[j].Term /\ g[j].Vote # Nil => h[j].Vote = g[j].Vote
    BY <1>3, <1>4, <2>3, <2>4
  <2> QED BY <2>1, <2>2, <2>5, ShownGrow DEF h
<1>11. ASSUME NEW k \in Server, nd[k].state = "StateCandidate", nd[k].granted # {}
       PROVE  Claims(nd[k].Term, k, dw[k].hs)
  <2>1. Claims(nd[k].Term, k, dk[k].hs) BY <1>11 DEF TrailInvariant
  <2>2. nd[k].Term \in Nat BY DEF Node
  <2> QED BY <1>3, <1>4, <2>1, <2>2, ClaimsGrow
<1>12. TrailInvariant(nd, dw, nt \cup M) BY <1>8, <1>9, <1>10, <1>11 DEF TrailInvariant
<1> QED BY <1>12 DEF dw

LEMMA WriteKeepsWon ==
    ASSUME NEW nd \in [Server -> Node], NEW dk \in [Server -> Disk], NEW nt \in SUBSET Message,
           ElectionInvariant(nd, dk, nt),
           NEW i \in Server, NEW d \in Disk, d.hs = hardState(nd[i]), NEW M \in SUBSET Boxes(nd[i]),
           NEW l \in Server, NEW t \in Nat, Won(l, t, nd, dk, nt)
    PROVE  Won(l, t, nd, [dk EXCEPT ![i] = d], nt \cup M)
<1> DEFINE dw == [dk EXCEPT ![i] = d]
           nn == nt \cup M
<1>1. dw[i] = d /\ \A k \in Server \ {i} : dw[k] = dk[k] OBVIOUS
<1> HIDE DEF dw
<1>2. \A j : Backed(nt, j, l, t) => Backed(nn, j, l, t) BY DEF Backed
<1>3. Claims(t, l, dw[l].hs)
  <2>1. Claims(t, l, dk[l].hs) BY DEF Won
  <2>2. CASE l # i BY <1>1, <2>1, <2>2
  <2>3. CASE l = i
    <3>1. d.hs.Term = nd[i].Term /\ d.hs.Vote = nd[i].Vote BY DEF hardState
    <3>2. d.hs.Term \in Nat /\ dk[i].hs.Term \in Nat BY DEF Disk, HardState
    <3>3. /\ d.hs.Term >= dk[i].hs.Term
          /\ d.hs.Term = dk[i].hs.Term /\ dk[i].hs.Vote # Nil => d.hs.Vote = dk[i].hs.Vote
      BY <3>1 DEF ElectionInvariant, Durable
    <3> QED BY <1>1, <2>1, <2>3, <3>2, <3>3, ClaimsGrow
  <2> QED BY <2>2, <2>3
<1>4. ASSUME NEW m \in Boxes(nd[l]) \cup nn, Granted(m), m.from = l, m.term = t
      PROVE  m.to = l
  <2>1. m \in Boxes(nd[l]) \cup nt BY <1>4 DEF ElectionInvariant
  <2> QED BY <1>4, <2>1 DEF Won
<1>5. /\ \E Q \in SUBSET Server : IsQuorum(Q, Server) /\ \A j \in Q \ {l} : Backed(nn, j, l, t)
      /\ ~(nd[l].state = "StateCandidate" /\ nd[l].Term = t)
  BY <1>2 DEF Won
<1> HIDE DEF nn
<1>6. Won(l, t, nd, dw, nn) BY <1>3, <1>4, <1>5 DEF Won
<1> QED BY <1>6 DEF dw, nn

\* A server may write its hard state, with the log it has in memory or the one
\* already on disk, and send what waits in its outboxes.
LEMMA WriteKeepsAll ==
    ASSUME NEW nd \in [Server -> Node], NEW dk \in [Server -> Disk], NEW nt \in SUBSET Message,
           ClusterInvariant(nd, dk, nt), NEW i \in Server, NEW d \in Disk,
           d.hs = hardState(nd[i]), d.log \in {nd[i].log, dk[i].log},
           NEW M \in SUBSET Boxes(nd[i])
    PROVE  ClusterInvariant(nd, [dk EXCEPT ![i] = d], nt \cup M)
<1> DEFINE dw == [dk EXCEPT ![i] = d]
           nn == nt \cup M
           L == Links(nd, dk, nt)
<1>1. ElectionInvariant(nd, dk, nt) /\ TrailInvariant(nd, dk, nt) /\ LinkInvariant(nd, dk, nt)
  BY DEF ClusterInvariant
<1>2. ElectionInvariant(nd, dw, nn) BY <1>1, WriteKeeps
<1>3. TrailInvariant(nd, dw, nn) BY <1>1, WriteKeepsTrail
<1>4. \A l \in Server : \A t \in Nat : Won(l, t, nd, dk, nt) => Won(l, t, nd, dw, nn)
  BY <1>1, WriteKeepsWon
<1>5. dw[i] = d /\ \A k \in Server \ {i} : dw[k] = dk[k] OBVIOUS
<1> HIDE DEF dw
<1>6. \A k \in Server : LogLinks(nd[k].log) \subseteq L /\ LogLinks(dw[k].log) \subseteq L
  <2>1. \A k \in Server : LogLinks(nd[k].log) \subseteq L /\ LogLinks(dk[k].log) \subseteq L
    BY LinksOfLogs
  <2> HIDE DEF L
  <2> QED BY <1>5, <2>1
<1>7. \A k \in Server : \A m \in Boxes(nd[k]) \cup Range(nd[k].steps) : Carried(m) \subseteq L
  BY UnderwayOf, LinksOfMessages
<1>8. \A m \in nn : Carried(m) \subseteq L
  <2>1. \A m \in nt : m \in Underway(nd, nt) BY DEF Underway
  <2>2. \A m \in nt : Carried(m) \subseteq L BY <2>1, LinksOfMessages
  <2> HIDE DEF L
  <2> QED BY <1>7, <2>2
<1> HIDE DEF nn
<1>9. Links(nd, dw, nn) \subseteq L
  <2> HIDE DEF L
  <2> QED BY <1>6, <1>7, <1>8, LinksWithin
<1>10. LinkInvariant(nd, dw, nn) BY <1>1, <1>4, <1>9, FewerLinks
<1> QED BY <1>2, <1>3, <1>10 DEF ClusterInvariant, dw, nn

----------------------------------------------------------------------------
(* A Ready empties the outboxes *)

\* A server's own messages may leave its outboxes for Advance once its term and
\* vote are on its disk.
LEMMA EmptyKeepsAll ==
    ASSUME NEW nd \in [Server -> Node], NEW dk \in [Server -> Disk], NEW nt \in SUBSET Message,
           ClusterInvariant(nd, dk, nt), NEW i \in Server, NEW s \in Node,
           s.id = nd[i].id, s.voters = nd[i].voters, s.Term = nd[i].Term, s.Vote = nd[i].Vote,
           s.state = nd[i].state, s.granted = nd[i].granted, s.log = nd[i].log,
           Boxes(s) \subseteq Boxes(nd[i]),
           Range(s.steps) \subseteq Range(nd[i].steps) \cup Boxes(nd[i]),
           dk[i].hs.Term = nd[i].Term, dk[i].hs.Vote = nd[i].Vote
    PROVE  ClusterInvariant([nd EXCEPT ![i] = s], dk, nt)
<1> DEFINE r == nd[i]
           nw == [nd EXCEPT ![i] = s]
           L == Links(nd, dk, nt)
           before == ReadyStates(nd, dk, i)
           after == ReadyStates(nw, dk, i)
<1>1. ElectionInvariant(nd, dk, nt) /\ TrailInvariant(nd, dk, nt) /\ LinkInvariant(nd, dk, nt)
  BY DEF ClusterInvariant
<1>2. ElectionInvariant(nw, dk, nt) BY <1>1, EmptyKeeps
<1>3. nw[i] = s /\ \A k \in Server \ {i} : nw[k] = nd[k] OBVIOUS
<1> HIDE DEF nw
<1>4. \A j \in Server : /\ DiskStates(dk)[j].Term = before[j].Term
                        /\ DiskStates(dk)[j].Vote = before[j].Vote
                        /\ after[j].Term = before[j].Term /\ after[j].Vote = before[j].Vote
  BY <1>3 DEF ReadyStates, DiskStates, hardState
<1> HIDE DEF after
<1>5. ASSUME NEW m \in Boxes(r)
      PROVE  /\ Shown(m, DiskStates(dk)) /\ Shown(m, after) /\ (Granted(m) => StoodBy(m, r))
             /\ (m.type = "MsgVote" => m.from = i)
  <2>1. m \in Message BY BoxesType
  <2>2. Shown(m, before) /\ (m.type = "MsgVote" => m.from = i) BY <1>1 DEF TrailInvariant
  <2>3. Granted(m) => StoodBy(m, r) BY <1>1 DEF ElectionInvariant
  <2> HIDE DEF before
  <2> QED BY <1>4, <2>1, <2>2, <2>3, SameShown
<1>6. ASSUME NEW k \in Server, NEW m \in Range(nw[k].steps)
      PROVE  Shown(m, DiskStates(dk)) /\ (Granted(m) => StoodBy(m, nw[k]))
  <2>1. CASE m \in Range(nd[k].steps)
    <3>1. Shown(m, DiskStates(dk)) /\ (Granted(m) => StoodBy(m, nd[k]))
      BY <1>1, <2>1 DEF TrailInvariant
    <3> QED BY <1>3, <3>1 DEF StoodBy
  <2>2. CASE k = i /\ m \in Boxes(r) BY <1>3, <1>5, <2>2 DEF StoodBy
  <2> QED BY <1>3, <1>6, <2>1, <2>2
<1>7. ASSUME NEW k \in Server, NEW m \in Boxes(nw[k])
      PROVE  Shown(m, ReadyStates(nw, dk, k)) /\ (m.type = "MsgVote" => m.from = k)
  <2>1. CASE k # i
    <3>1. ReadyStates(nw, dk, k) = ReadyStates(nd, dk, k) BY <1>3, <2>1 DEF ReadyStates
    <3> QED BY <1>1, <1>3, <1>7, <2>1, <3>1 DEF TrailInvariant
  <2>2. CASE k = i BY <1>3, <1>5, <1>7, <2>2 DEF after
  <2> QED BY <2>1, <2>2
<1>8. TrailInvariant(nw, dk, nt) BY <1>1, <1>3, <1>6, <1>7 DEF TrailInvariant
<1>9. ASSUME NEW l \in Server, NEW t \in Nat, Won(l, t, nd, dk, nt) PROVE Won(l, t, nw, dk, nt)
  <2>1. Boxes(nw[l]) \subseteq Boxes(nd[l]) /\ nw[l].state = nd[l].state /\ nw[l].Term = nd[l].Term
    BY <1>3
  <2> QED BY <1>9, <2>1 DEF Won
<1>10. Links(nw, dk, nt) \subseteq L
  <2>1. \A k \in Server : LogLinks(nw[k].log) \subseteq L /\ LogLinks(dk[k].log) \subseteq L
    <3>1. \A k \in Server : LogLinks(nd[k].log) \subseteq L /\ LogLinks(dk[k].log) \subseteq L
      BY LinksOfLogs
    <3> HIDE DEF L
    <3> QED BY <1>3, <3>1
  <2>2. \A k \in Server : \A m \in Boxes(nd[k]) \cup Range(nd[k].steps) : Carried(m) \subseteq L
    BY UnderwayOf, LinksOfMessages
  <2>3. \A m \in nt : m \in Underway(nd, nt) BY DEF Underway
  <2>4. \A m \in nt : Carried(m) \subseteq L BY <2>3, LinksOfMessages
  <2> HIDE DEF L
  <2>5. \A k \in Server : \A m \in Boxes(nw[k]) \cup Range(nw[k].steps) : Carried(m) \subseteq L
    BY <1>3, <2>2
  <2> QED BY <2>1, <2>4, <2>5, LinksWithin
<1>11. LinkInvariant(nw, dk, nt)
  <2>1. \A k \in Server : nw[k].state = nd[k].state /\ nw[k].Term = nd[k].Term
                          /\ nw[k].log = nd[k].log
    BY <1>3
  <2> QED BY <1>1, <1>9, <1>10, <2>1, FewerLinks
<1> QED BY <1>2, <1>8, <1>11 DEF ClusterInvariant, nw

LEMMA AcceptReadyKeepsAll ==
    ASSUME NEW nd \in [Server -> Node], NEW dk \in [Server -> Disk], NEW nt \in SUBSET Message,
           ClusterInvariant(nd, dk, nt), NEW i \in Server, dk[i].hs = hardState(nd[i])
    PROVE  ClusterInvariant([nd EXCEPT ![i] = acceptReady(nd[i])], dk, nt)
<1> DEFINE r == nd[i]
           s == acceptReady(r)
<1>1. r \in Node /\ s \in Node /\ r.id \in Server BY AcceptReadyType DEF Node
<1>2. /\ s.id = r.id /\ s.voters = r.voters /\ s.Term = r.Term /\ s.Vote = r.Vote
      /\ s.state = r.state /\ s.granted = r.granted /\ s.log = r.log /\ s.steps = r.after[r.id]
      /\ \A d \in Server : s.msgs[d] = <<>> /\ s.after[d] = <<>>
  BY <1>1 DEF acceptReady, Node
<1> HIDE DEF s
<1>3. Range(<<>>) = {} BY DEF Range
<1>4. Boxes(s) = {} BY <1>2, <1>3 DEF Boxes
<1>5. Range(s.steps) \subseteq Boxes(r) BY <1>1, <1>2 DEF Boxes
<1> HIDE DEF r
<1>6. Boxes(s) \subseteq Boxes(r) /\ Range(s.steps) \subseteq Range(r.steps) \cup Boxes(r)
  BY <1>4, <1>5
<1>7. dk[i].hs.Term = r.Term /\ dk[i].hs.Vote = r.Vote BY DEF hardState, r
<1> QED BY <1>1, <1>2, <1>6, <1>7, EmptyKeepsAll DEF r, s

----------------------------------------------------------------------------
(* What a leader does to its log, and one message of Advance *)

\* A server that leads on in its term keeps its log and may append.
LeadsOn(r, s) ==
    r.state = "StateLeader" /\ s.state = "StateLeader" /\ s.Term = r.Term =>
      Len(r.log) <= Len(s.log) /\ \A k \in 1..Len(r.log) : s.log[k] = r.log[k]

LEMMA LogStepLeadsOn ==
    ASSUME NEW r \in Node, NEW s \in Node, NEW N, LogStep(r, s, N)
    PROVE  LeadsOn(r, s)
<1>1. r.log \in Seq(Entry) /\ s.log \in Seq(Entry) BY DEF Node
<1>2. s.state = "StateLeader" => Extends(r.log, s.log, s.Term) BY DEF LogStep
<1> QED BY <1>1, <1>2, ExtendsLinks DEF LeadsOn

\* Two steps in a row, with nothing of interest between them.
LEMMA StepsLeadOn ==
    ASSUME NEW r \in Node, NEW s \in Node, NEW a \in Node, NEW t \in Node, NEW N, NEW M,
           LogStep(r, s, N), a.state = s.state, a.Term = s.Term, a.log = s.log, LogStep(a, t, M)
    PROVE  LeadsOn(r, t)
<1>1. SUFFICES ASSUME r.state = "StateLeader", t.state = "StateLeader", t.Term = r.Term
               PROVE  LeadsOn(r, t)
  BY DEF LeadsOn
<1>2. r.Term \in Nat /\ s.Term \in Nat BY DEF Node
<1>3. s.Term = r.Term /\ s.state \in {"StateLeader", "StateCandidate"} BY <1>1 DEF LogStep
<1>4. s.state = "StateLeader" BY <1>1, <1>2, <1>3 DEF LogStep
<1>5. LeadsOn(r, s) /\ LeadsOn(a, t) BY LogStepLeadsOn
<1>6. /\ Len(r.log) <= Len(s.log) /\ Len(s.log) <= Len(t.log)
      /\ \A k \in 1..Len(r.log) : s.log[k] = r.log[k]
      /\ \A k \in 1..Len(s.log) : t.log[k] = s.log[k]
  BY <1>1, <1>3, <1>4, <1>5 DEF LeadsOn
<1>7. r.log \in Seq(Entry) /\ s.log \in Seq(Entry) /\ t.log \in Seq(Entry) BY DEF Node
<1>8. Len(r.log) \in Nat /\ Len(s.log) \in Nat /\ Len(t.log) \in Nat BY <1>7, LenProperties
<1>9. \A k \in 1..Len(r.log) : k \in 1..Len(s.log) BY <1>6, <1>8
<1>10. Len(r.log) <= Len(t.log) BY <1>6, <1>8
<1> QED BY <1>6, <1>9, <1>10 DEF LeadsOn

\* advanceOne steps the first of the messages that waited for Advance.
LEMMA AdvanceIsStep ==
    ASSUME NEW nd \in [Server -> Node], NEW dk \in [Server -> Disk], NEW nt \in SUBSET Message,
           ClusterInvariant(nd, dk, nt), NEW i \in Server, nd[i].steps # <<>>
    PROVE  LET r == nd[i]
               p == [r EXCEPT !.steps = Tail(@)]
               m == Head(r.steps)
               s == advanceOne(r)
           IN  /\ m \in Message /\ m \in Range(r.steps) /\ Stamped(m) /\ s = Step(p, m)
               /\ p \in Node /\ p.id = r.id /\ p.voters = r.voters /\ p.Term = r.Term
               /\ p.state = r.state /\ p.log = r.log /\ p.msgs = r.msgs /\ p.after = r.after
               /\ Seated(p)
               /\ s \in Node /\ Onward(r, s) /\ LogStep(r, s, {m})
<1> DEFINE r == nd[i]
           rest == Tail(r.steps)
           m == Head(r.steps)
           p == [r EXCEPT !.steps = rest]
           s == Step(p, m)
<1>0. ElectionInvariant(nd, dk, nt) /\ TrailInvariant(nd, dk, nt) BY DEF ClusterInvariant
<1>1. r \in Node /\ r.steps \in Seq(Message) BY DEF Node
<1>2. m \in Message /\ rest \in Seq(Message) BY <1>1, HeadTailProperties
<1>3. Range(rest) \subseteq Range(r.steps) /\ m \in Range(r.steps)
  <2>1. /\ r.steps # <<>> /\ Len(r.steps) \in Nat /\ m = r.steps[1]
        /\ Len(rest) = Len(r.steps) - 1 /\ \A k \in 1..Len(rest) : rest[k] = r.steps[k + 1]
    BY <1>1, HeadTailProperties, LenProperties
  <2>2. Range(rest) = {rest[k] : k \in 1..Len(rest)} BY <1>2, RangeEquality
  <2>3. Range(r.steps) = {r.steps[k] : k \in 1..Len(r.steps)} BY <1>1, RangeEquality
  <2>4. Len(r.steps) # 0 BY <1>1, <2>1, EmptySeq
  <2>5. 1 \in 1..Len(r.steps) BY <2>1, <2>4
  <2>6. \A k \in 1..Len(rest) : k + 1 \in 1..Len(r.steps) BY <2>1
  <2> HIDE DEF r, rest, m
  <2> QED BY <2>1, <2>2, <2>3, <2>5, <2>6
<1> HIDE DEF rest, m
<1>4. /\ p \in Node /\ p.id = r.id /\ p.voters = r.voters /\ p.Term = r.Term /\ p.Vote = r.Vote
      /\ p.state = r.state /\ p.granted = r.granted /\ p.log = r.log /\ p.steps = rest
      /\ p.msgs = r.msgs /\ p.after = r.after
  BY <1>1, <1>2 DEF Node
<1> HIDE DEF p
<1>5. Boxes(p) = Boxes(r) BY <1>4, SameBoxes
<1>6. s = advanceOne(r) BY DEF advanceOne, s, p, m, rest
<1>7. /\ Stamped(m) /\ (Granted(m) => m.from = i /\ StoodBy(m, r)) /\ p.voters = Server
      /\ r.id = i /\ Evidence(r, nt)
  BY <1>0, <1>3, <1>4 DEF ElectionInvariant, TrailInvariant
<1>8. Evidence(p, nt) BY <1>4, <1>7 DEF Evidence
<1>9. OwnGrant(p, m) /\ Seated(p) BY <1>4, <1>7 DEF OwnGrant, Seated, StoodBy, Evidence
<1>10. Given(p, m, nt) BY <1>4, <1>7 DEF Given
<1>11. s \in Node /\ BallotStep(p, s) /\ LogStep(p, s, {m})
  BY <1>2, <1>4, <1>7, <1>8, <1>9, <1>10, StepType, StepBallot, StepLogStep
<1> HIDE DEF s
<1>12. Onward(r, s) BY <1>3, <1>4, <1>5, <1>11, BallotOnward
<1>13. LogStep(r, s, {m})
  <2>1. Supported(p, {m}) => Supported(r, {m}) BY <1>4 DEF Supported
  <2> QED BY <1>4, <1>5, <1>11, <2>1, AlikeThenLogStep DEF Alike
<1>14. /\ m \in Message /\ m \in Range(r.steps) /\ Stamped(m) /\ s = Step(p, m)
       /\ p \in Node /\ p.id = r.id /\ p.voters = r.voters /\ p.Term = r.Term
       /\ p.state = r.state /\ p.log = r.log /\ p.msgs = r.msgs /\ p.after = r.after
       /\ Seated(p)
       /\ s \in Node /\ Onward(r, s) /\ LogStep(r, s, {m})
  BY <1>2, <1>3, <1>4, <1>7, <1>9, <1>11, <1>12, <1>13 DEF s
<1>15. s = advanceOne(nd[i]) /\ r = nd[i] BY <1>6
<1> HIDE DEF r
<1> QED BY <1>14, <1>15 DEF p, m, rest

LEMMA AdvanceKeepsAll ==
    ASSUME NEW nd \in [Server -> Node], NEW dk \in [Server -> Disk], NEW nt \in SUBSET Message,
           ClusterInvariant(nd, dk, nt), NEW i \in Server, nd[i].steps # <<>>
    PROVE  /\ ClusterInvariant([nd EXCEPT ![i] = advanceOne(nd[i])], dk, nt)
           /\ advanceOne(nd[i]) \in Node
           /\ \E N : LogStep(nd[i], advanceOne(nd[i]), N)
<1> DEFINE s == advanceOne(nd[i])
           m == Head(nd[i].steps)
<1>1. /\ m \in Range(nd[i].steps)
      /\ s \in Node /\ Onward(nd[i], s) /\ LogStep(nd[i], s, {m})
  BY AdvanceIsStep
<1>2. ElectionInvariant([nd EXCEPT ![i] = s], dk, nt) BY AdvanceKeeps DEF ClusterInvariant
<1>3. {m} \in SUBSET Heard(nd, nt, i) BY <1>1 DEF Heard
<1>4. ClusterInvariant([nd EXCEPT ![i] = s], dk, nt) BY <1>1, <1>2, <1>3, StepKeeps
<1> QED BY <1>1, <1>4

----------------------------------------------------------------------------
(* A restart *)

LEMMA NewRaftLog ==
    ASSUME NEW i \in Server, NEW hs \in HardState, NEW log \in Seq(Entry)
    PROVE  newRaft(i, Server, hs, log).log = log
BY DEF newRaft, restored, reset

\* A server starts again from a disk with its term and vote, and with the log
\* that it had on disk or in memory.
LEMMA RestartKeepsAll ==
    ASSUME NEW nd \in [Server -> Node], NEW dk \in [Server -> Disk], NEW nt \in SUBSET Message,
           ClusterInvariant(nd, dk, nt), NEW i \in Server, NEW e \in Disk,
           e.hs.Term = dk[i].hs.Term, e.hs.Vote = dk[i].hs.Vote,
           e.log \in {dk[i].log, nd[i].log}
    PROVE  ClusterInvariant([nd EXCEPT ![i] = newRaft(i, Server, e.hs, e.log)],
                            [dk EXCEPT ![i] = e], nt)
<1> DEFINE s == newRaft(i, Server, e.hs, e.log)
           nw == [nd EXCEPT ![i] = s]
           dw == [dk EXCEPT ![i] = e]
           L == Links(nd, dk, nt)
<1>1. ElectionInvariant(nd, dk, nt) /\ TrailInvariant(nd, dk, nt) /\ LinkInvariant(nd, dk, nt)
  BY DEF ClusterInvariant
<1>2. ElectionInvariant(nw, dw, nt) BY <1>1, RestartKeeps
<1>3. e.hs \in HardState /\ e.log \in Seq(Entry) BY DEF Disk
<1>4. /\ s.state = "StateFollower" /\ s.steps = <<>> /\ s.log = e.log
      /\ \A d \in Server : s.msgs[d] = <<>> /\ s.after[d] = <<>>
  BY <1>3, NewRaftLog DEF newRaft, restored, reset
<1> HIDE DEF s
<1>5. Range(<<>>) = {} BY DEF Range
<1>6. Boxes(s) = {} /\ Range(s.steps) = {} BY <1>4, <1>5 DEF Boxes
<1>7. /\ nw[i] = s /\ \A k \in Server \ {i} : nw[k] = nd[k]
      /\ dw[i] = e /\ \A k \in Server \ {i} : dw[k] = dk[k]
  OBVIOUS
<1> HIDE DEF nw, dw
<1>8. \A k \in Server : dw[k].hs.Term = dk[k].hs.Term /\ dw[k].hs.Vote = dk[k].hs.Vote BY <1>7
<1>9. ASSUME NEW m \in Message, Shown(m, DiskStates(dk)) PROVE Shown(m, DiskStates(dw))
  <2>1. \A j \in Server : /\ DiskStates(dw)[j].Term = DiskStates(dk)[j].Term
                          /\ DiskStates(dw)[j].Vote = DiskStates(dk)[j].Vote
    BY <1>8 DEF DiskStates
  <2> QED BY <1>9, <2>1, SameShown
<1>10. ASSUME NEW k \in Server, NEW m \in Range(nw[k].steps)
       PROVE  Shown(m, DiskStates(dw)) /\ (Granted(m) => StoodBy(m, nw[k]))
  <2>1. k # i /\ nw[k] = nd[k] BY <1>6, <1>7, <1>10
  <2>2. m \in Message
    <3>1. nd[k].steps \in Seq(Message) BY DEF Node
    <3>2. Range(nd[k].steps) = {nd[k].steps[n] : n \in 1..Len(nd[k].steps)}
      BY <3>1, RangeEquality
    <3> QED BY <1>10, <2>1, <3>1, <3>2, ElementOfSeq
  <2>3. Shown(m, DiskStates(dk)) /\ (Granted(m) => StoodBy(m, nd[k]))
    BY <1>1, <1>10, <2>1 DEF TrailInvariant
  <2> QED BY <1>9, <2>1, <2>2, <2>3
<1>11. ASSUME NEW k \in Server, NEW m \in Boxes(nw[k])
       PROVE  Shown(m, ReadyStates(nw, dw, k)) /\ (m.type = "MsgVote" => m.from = k)
  <2> DEFINE g == ReadyStates(nd, dk, k)
             h == ReadyStates(nw, dw, k)
  <2>1. k # i /\ nw[k] = nd[k] BY <1>6, <1>7, <1>11
  <2>2. m \in Message BY <1>11, <2>1, BoxesType
  <2>3. Shown(m, g) /\ (m.type = "MsgVote" => m.from = k)
    BY <1>1, <1>11, <2>1 DEF TrailInvariant
  <2>4. \A j \in Server : h[j].Term = g[j].Term /\ h[j].Vote = g[j].Vote
    BY <1>8, <2>1 DEF ReadyStates, DiskStates
  <2> HIDE DEF g, h
  <2> QED BY <2>2, <2>3, <2>4, SameShown DEF h
<1>12. ASSUME NEW k \in Server, nw[k].state = "StateCandidate", nw[k].granted # {}
       PROVE  Claims(nw[k].Term, k, dw[k].hs)
  <2>1. k # i /\ nw[k] = nd[k] /\ dw[k] = dk[k] BY <1>4, <1>7, <1>12
  <2> QED BY <1>1, <1>12, <2>1 DEF TrailInvariant
<1>13. TrailInvariant(nw, dw, nt)
  <2>1. \A m \in nt : Shown(m, DiskStates(dw)) BY <1>1, <1>9 DEF TrailInvariant
  <2> QED BY <2>1, <1>10, <1>11, <1>12 DEF TrailInvariant
<1>14. ASSUME NEW l \in Server, NEW t \in Nat, Won(l, t, nd, dk, nt) PROVE Won(l, t, nw, dw, nt)
  <2>1. Claims(t, l, dw[l].hs) BY <1>8, <1>14 DEF Won, Claims
  <2>2. Boxes(nw[l]) \subseteq Boxes(nd[l]) BY <1>6, <1>7
  <2>3. nw[l].state = "StateCandidate" =>
          nd[l].state = "StateCandidate" /\ nd[l].Term = nw[l].Term
    BY <1>4, <1>7
  <2> QED BY <1>14, <2>1, <2>2, <2>3 DEF Won
<1>15. Links(nw, dw, nt) \subseteq L
  <2>1. \A k \in Server : LogLinks(nw[k].log) \subseteq L /\ LogLinks(dw[k].log) \subseteq L
    <3>1. \A k \in Server : LogLinks(nd[k].log) \subseteq L /\ LogLinks(dk[k].log) \subseteq L
      BY LinksOfLogs
    <3>2. LogLinks(e.log) \subseteq L
      <4> HIDE DEF L
      <4> QED BY <3>1
    <3> HIDE DEF L
    <3> QED BY <1>4, <1>7, <3>1, <3>2
  <2>2. \A k \in Server : \A m \in Boxes(nd[k]) \cup Range(nd[k].steps) : Carried(m) \subseteq L
    BY UnderwayOf, LinksOfMessages
  <2>3. \A m \in nt : m \in Underway(nd, nt) BY DEF Underway
  <2>4. \A m \in nt : Carried(m) \subseteq L BY <2>3, LinksOfMessages
  <2> HIDE DEF L
  <2>5. \A k \in Server : \A m \in Boxes(nw[k]) \cup Range(nw[k].steps) : Carried(m) \subseteq L
    BY <1>6, <1>7, <2>2
  <2> QED BY <2>1, <2>4, <2>5, LinksWithin
<1>16. LinkInvariant(nw, dw, nt)
  <2>1. \A k \in Server : nw[k].state = "StateLeader" =>
          nd[k].state = "StateLeader" /\ nw[k].Term = nd[k].Term /\ nw[k].log = nd[k].log
    BY <1>4, <1>7
  <2> QED BY <1>1, <1>14, <1>15, <2>1, FewerLinks
<1> QED BY <1>2, <1>13, <1>16 DEF ClusterInvariant, nw, dw, s

\* The same from a disk d whose commit index may be lost down to what was synced.
LEMMA RestartFromKeepsAll ==
    ASSUME NEW nd \in [Server -> Node], NEW dk \in [Server -> Disk], NEW nt \in SUBSET Message,
           ClusterInvariant(nd, dk, nt), NEW i \in Server, NEW d \in Disk,
           d.hs.Term = dk[i].hs.Term, d.hs.Vote = dk[i].hs.Vote,
           d.log \in {dk[i].log, nd[i].log}, NEW c \in d.synced..d.hs.Commit
    PROVE  LET hs == [d.hs EXCEPT !.Commit = c]
           IN  ClusterInvariant([nd EXCEPT ![i] = newRaft(i, Server, hs, d.log)],
                                [dk EXCEPT ![i] = [hs |-> hs, log |-> d.log, synced |-> c]], nt)
<1> DEFINE hs == [d.hs EXCEPT !.Commit = c]
           e == [hs |-> hs, log |-> d.log, synced |-> c]
<1>1. c \in Nat /\ d.log \in Seq(Entry) /\ d.hs \in HardState BY DEF Disk, HardState
<1>2. hs \in HardState /\ hs.Term = d.hs.Term /\ hs.Vote = d.hs.Vote BY <1>1 DEF HardState
<1> HIDE DEF hs
<1>3. e \in Disk /\ e.hs = hs /\ e.log = d.log BY <1>1, <1>2 DEF Disk
<1> HIDE DEF e
<1>4. ClusterInvariant([nd EXCEPT ![i] = newRaft(i, Server, e.hs, e.log)],
                       [dk EXCEPT ![i] = e], nt)
  BY <1>2, <1>3, RestartKeepsAll
<1> QED BY <1>3, <1>4 DEF e, hs

\* A restart of the group's server i; dk is disk but for what i wrote before.
LEMMA RestartedKeepsAll ==
    ASSUME TypeOK, NEW i \in Server, NEW d \in Disk, NEW dk \in [Server -> Disk],
           ClusterInvariant(node, dk, net), RestartFrom(i, d), net' = net,
           \A k \in Server \ {i} : dk[k] = disk[k],
           d.hs.Term = dk[i].hs.Term, d.hs.Vote = dk[i].hs.Vote,
           d.log \in {dk[i].log, node[i].log}
    PROVE  ClusterInv' /\ \A k \in Server : LeadsOn(node[k], node'[k])
<1>1. node \in [Server -> Node] /\ disk \in [Server -> Disk] /\ net \in SUBSET Message
  BY DEF TypeOK
<1>2. PICK c \in d.synced..d.hs.Commit :
        LET hs == [d.hs EXCEPT !.Commit = c]
        IN  /\ disk' = [disk EXCEPT ![i] = [hs |-> hs, log |-> d.log, synced |-> c]]
            /\ node' = [node EXCEPT ![i] = newRaft(i, Server, hs, d.log)]
  BY DEF RestartFrom
<1> DEFINE hs == [d.hs EXCEPT !.Commit = c]
           e == [hs |-> hs, log |-> d.log, synced |-> c]
           s == newRaft(i, Server, hs, d.log)
<1>3. ClusterInvariant([node EXCEPT ![i] = s], [dk EXCEPT ![i] = e], net)
  BY <1>1, RestartFromKeepsAll
<1>4. s.state = "StateFollower" BY DEF newRaft, restored, reset
<1>5. disk' = [disk EXCEPT ![i] = e] /\ node' = [node EXCEPT ![i] = s] BY <1>2
<1> HIDE DEF e, s
<1>6. [dk EXCEPT ![i] = e] = [disk EXCEPT ![i] = e] BY <1>1
<1>7. ClusterInv' BY <1>3, <1>5, <1>6 DEF ClusterInv
<1>8. \A k \in Server : LeadsOn(node[k], node'[k])
  <2> TAKE k \in Server
  <2>1. CASE k = i BY <1>1, <1>4, <1>5, <2>1 DEF LeadsOn
  <2>2. CASE k # i BY <1>1, <1>5, <2>2 DEF LeadsOn
  <2> QED BY <2>1, <2>2
<1> QED BY <1>7, <1>8

----------------------------------------------------------------------------
(* ClusterInv is an invariant of RaftCluster *)

\* A step of server i concerns i alone.
LEMMA OthersLeadOn ==
    ASSUME node \in [Server -> Node], NEW i \in Server, NEW s \in Node,
           node' = [node EXCEPT ![i] = s], LeadsOn(node[i], s)
    PROVE  \A k \in Server : LeadsOn(node[k], node'[k])
<1> TAKE k \in Server
<1>1. CASE k = i BY <1>1
<1>2. CASE k # i
  <2>1. node'[k] = node[k] BY <1>2
  <2>2. node[k].log \in Seq(Entry) BY DEF Node
  <2>3. Len(node[k].log) \in Nat BY <2>2, LenProperties
  <2> QED BY <2>1, <2>3 DEF LeadsOn
<1> QED BY <1>1, <1>2

\* An input, with or without its Ready and the first message of Advance.
LEMMA MovesKeepsAll ==
    ASSUME TypeOK, ClusterInv, NEW i \in Server, NEW r \in Node,
           BallotStep(node[i], r), Evidence(r, net),
           NEW N \in SUBSET Heard(node, net, i), LogStep(node[i], r, N), Moves(i, r)
    PROVE  ClusterInv' /\ \A k \in Server : LeadsOn(node[k], node'[k])
<1> DEFINE nb == [node EXCEPT ![i] = r]
           na == [nb EXCEPT ![i] = acceptReady(nb[i])]
           d == Written(disk[i], r)
           dw == [disk EXCEPT ![i] = d]
           nn == net \cup readyMessages(r)
<1>1. node \in [Server -> Node] /\ disk \in [Server -> Disk] /\ net \in SUBSET Message
  BY DEF TypeOK
<1>2. nb \in [Server -> Node] /\ nb[i] = r BY <1>1
<1>3. ClusterInvariant(nb, disk, net)
  <2>1. ElectionInvariant(nb, disk, net)
    BY <1>1, BallotKeeps DEF ClusterInv, ClusterInvariant
  <2>2. Onward(node[i], r) BY BallotOnward
  <2> QED BY <1>1, <2>1, <2>2, StepKeeps DEF ClusterInv
<1>4. \A s \in Node : node' = [node EXCEPT ![i] = s] /\ LeadsOn(node[i], s) =>
        \A k \in Server : LeadsOn(node[k], node'[k])
  BY <1>1, OthersLeadOn
<1>5. CASE MaxPending > 0 \/ r.panic
  <2>1. node' = nb /\ UNCHANGED <<disk, net>> BY <1>5 DEF Moves
  <2>2. ClusterInv' BY <1>3, <2>1 DEF ClusterInv
  <2>3. LeadsOn(node[i], r) BY <1>1, LogStepLeadsOn
  <2> QED BY <1>4, <2>1, <2>2, <2>3
<1>6. CASE ~(MaxPending > 0 \/ r.panic)
  <2>1. /\ node' = [node EXCEPT ![i] = Turn(r)]
        /\ disk' = dw /\ net' = nn
    BY <1>6 DEF Moves
  <2>2. d \in Disk /\ d.hs = hardState(r) /\ d.log = r.log
    BY <1>1, WrittenType DEF Written
  <2>3. readyMessages(r) \in SUBSET Boxes(r) /\ readyMessages(r) \in SUBSET Message
    BY ReadyMessagesType DEF readyMessages, Boxes
  <2> HIDE DEF nb, d
  <2>4. ClusterInvariant(nb, dw, nn) BY <1>1, <1>2, <1>3, <2>2, <2>3, WriteKeepsAll
  <2>5. dw \in [Server -> Disk] /\ nn \in SUBSET Message /\ dw[i] = d BY <1>1, <2>2, <2>3
  <2> HIDE DEF dw, nn
  <2>6. ClusterInvariant(na, dw, nn) BY <1>2, <2>2, <2>4, <2>5, AcceptReadyKeepsAll
  <2>7. na \in [Server -> Node] /\ na[i] = acceptReady(r) BY <1>2, AcceptReadyType
  <2>8. /\ acceptReady(r) \in Node /\ acceptReady(r).state = r.state
        /\ acceptReady(r).Term = r.Term /\ acceptReady(r).log = r.log
    BY AcceptReadyType DEF acceptReady, Node
  <2>9. CASE acceptReady(r).steps = <<>>
    <3>1. Turn(r) = acceptReady(r) BY SMTT(60), <2>9 DEF Turn
    <3>2. node' = na BY <1>2, <2>1, <3>1 DEF nb
    <3>3. ClusterInv' BY <2>1, <2>6, <3>2 DEF ClusterInv
    <3>4. LeadsOn(node[i], r) BY <1>1, LogStepLeadsOn
    <3>5. LeadsOn(node[i], acceptReady(r)) BY <2>8, <3>4 DEF LeadsOn
    <3> QED BY <1>4, <2>1, <2>8, <3>1, <3>3, <3>5
  <2>10. CASE acceptReady(r).steps # <<>>
    <3>1. Turn(r) = advanceOne(acceptReady(r)) BY <2>10 DEF Turn
    <3>2. node' = [na EXCEPT ![i] = advanceOne(na[i])] BY <1>1, <2>1, <2>7, <3>1 DEF nb
    <3> HIDE DEF na
    <3>3. /\ ClusterInvariant([na EXCEPT ![i] = advanceOne(na[i])], dw, nn)
          /\ advanceOne(na[i]) \in Node
          /\ \E M : LogStep(na[i], advanceOne(na[i]), M)
      BY <2>5, <2>6, <2>7, <2>10, AdvanceKeepsAll
    <3>4. ClusterInv' BY <2>1, <3>2, <3>3 DEF ClusterInv
    <3> DEFINE a == acceptReady(r)
               t == advanceOne(a)
    <3>5. t \in Node /\ \E M : LogStep(a, t, M) BY <2>7, <3>3
    <3>6. a \in Node /\ a.state = r.state /\ a.Term = r.Term /\ a.log = r.log BY <2>8
    <3> HIDE DEF a, t
    <3>7. LeadsOn(node[i], t) BY <1>1, <3>5, <3>6, StepsLeadOn
    <3>8. node' = [node EXCEPT ![i] = t] BY <2>1, <3>1 DEF a, t
    <3> QED BY <1>4, <3>4, <3>5, <3>7, <3>8
  <2> QED BY <2>9, <2>10
<1> QED BY <1>5, <1>6

\* A message that hands over neither a vote nor entries teaches a server nothing.
LEMMA NothingLearned ==
    ASSUME NEW r \in Node, NEW s, NEW m, m.type \in {"MsgProp", "MsgTransferLeader"},
           LogStep(r, s, {m})
    PROVE  LogStep(r, s, {})
<1>1. Carried(m) = {} BY DEF Carried
<1>2. UNION {Carried(n) : n \in {m}} = {} BY <1>1
<1>3. m.type # "MsgVote" /\ ~Granted(m) BY DEF Granted
<1>4. (Supported(r, {m}) => Supported(r, {})) /\ \A n : Honest(n, s, {m}) => Honest(n, s, {})
  BY <1>3 DEF Supported, Honest
<1> QED BY <1>2, <1>4 DEF LogStep

LEMMA ClusterInit == TypeOK /\ Init => ClusterInv
<1> SUFFICES ASSUME TypeOK, Init PROVE ClusterInv OBVIOUS
<1>1. ASSUME NEW i \in Server
      PROVE  /\ node[i].steps = <<>> /\ node[i].state = "StateFollower"
             /\ \A d \in Server : node[i].msgs[d] = <<>> /\ node[i].after[d] = <<>>
             /\ node[i].log = <<>> /\ disk[i].log = <<>>
  BY DEF Init, newRaft, restored, reset, InitialHardState
<1>2. Range(<<>>) = {} BY DEF Range
<1>3. \A i \in Server : Boxes(node[i]) = {} /\ Range(node[i].steps) = {}
  BY <1>1, <1>2 DEF Boxes
<1>4. net = {} BY DEF Init
<1>5. TrailInvariant(node, disk, net) BY <1>1, <1>3, <1>4 DEF TrailInvariant
<1>6. LogLinks(<<>>) = {} BY DEF LogLinks
<1>7. Links(node, disk, net) \subseteq {}
  <2>1. \A i \in Server : LogLinks(node[i].log) = {} /\ LogLinks(disk[i].log) = {} BY <1>1, <1>6
  <2>2. \A i \in Server : Boxes(node[i]) \cup Range(node[i].steps) = {} BY <1>3
  <2>3. Underway(node, net) = {} BY <1>4, <2>2 DEF Underway
  <2> QED BY <2>1, <2>3 DEF Links
<1>8. LinkInvariant(node, disk, net) BY <1>1, <1>7 DEF LinkInvariant
<1>9. ElectionInvariant(node, disk, net) BY ElectionInit DEF ElectionInv
<1> QED BY <1>5, <1>8, <1>9 DEF ClusterInv, ClusterInvariant

\* Every step keeps ClusterInv, and every leader that leads on keeps its log.
LEMMA ClusterNext ==
    TypeOK /\ ClusterInv /\ [Next]_vars =>
      ClusterInv' /\ \A k \in Server : LeadsOn(node[k], node'[k])
<1> DEFINE Goal == ClusterInv' /\ \A k \in Server : LeadsOn(node[k], node'[k])
<1> SUFFICES ASSUME TypeOK, ClusterInv, [Next]_vars PROVE Goal OBVIOUS
<1>0. /\ node \in [Server -> Node] /\ disk \in [Server -> Disk] /\ net \in SUBSET Message
      /\ ElectionInvariant(node, disk, net) /\ TrailInvariant(node, disk, net)
  BY DEF TypeOK, ClusterInv, ClusterInvariant
<1>1. CASE UNCHANGED vars
  <2>1. ClusterInv' BY <1>1 DEF vars, ClusterInv
  <2>2. ASSUME NEW k \in Server PROVE LeadsOn(node[k], node'[k])
    <3>1. node[k].log \in Seq(Entry) BY <1>0 DEF Node
    <3>2. Len(node[k].log) \in Nat BY <3>1, LenProperties
    <3> QED BY <1>1, <3>2 DEF vars, LeadsOn
  <2> QED BY <2>1, <2>2
<1>2. ASSUME NEW i \in Server,
             \/ Tick(i) \/ LocalCall(i) \/ ReceiveAny(i)
             \/ Ready(i) \/ Advance(i) \/ Restart(i) \/ CrashInReady(i)
      PROVE  Goal
  <2> DEFINE r == node[i]
  <2>0. /\ r \in Node /\ disk[i] \in Disk /\ r.id = i /\ r.voters = Server /\ Evidence(r, net)
        /\ Seated(r)
    BY <1>0 DEF ElectionInvariant, Evidence, Seated
  <2> HIDE DEF r
  <2>1. ASSUME NEW s \in Node, BallotStep(r, s), Evidence(s, net), NEW N \in SUBSET net,
               LogStep(r, s, N), Moves(i, s)
        PROVE  Goal
    <3>1. N \in SUBSET Heard(node, net, i) BY DEF Heard
    <3> QED BY <2>1, <3>1, MovesKeepsAll DEF r
  <2>2. ASSUME NEW m \in Message, Stamped(m), Given(r, m, net), NEW N \in SUBSET net,
               LogStep(r, Step(r, m), N), Moves(i, Step(r, m))
        PROVE  Goal
    <3>1. Step(r, m) \in Node /\ BallotStep(r, Step(r, m)) /\ Evidence(Step(r, m), net)
      BY <2>0, <2>2, StepType, StepBallot
    <3> QED BY <2>1, <2>2, <3>1
  <2>3. ASSUME NEW m \in Message, m.type \in {"MsgProp", "MsgTransferLeader"}, Moves(i, Step(r, m))
        PROVE  Goal
    <3>1. Stamped(m) /\ Given(r, m, net) /\ OwnGrant(r, m)
      BY <2>3 DEF Stamped, Given, Granted, OwnGrant
    <3>2. LogStep(r, Step(r, m), {m}) BY <2>0, <3>1, StepLogStep
    <3>3. LogStep(r, Step(r, m), {}) BY <2>0, <2>3, <3>2, NothingLearned
    <3> QED BY <2>2, <2>3, <3>1, <3>3
  <2>4. ASSUME NEW m \in net, m.to = i, Moves(i, Step(r, m)) PROVE Goal
    <3>1. m \in Message /\ Stamped(m) BY <1>0 DEF ElectionInvariant
    <3>2. Given(r, m, net) /\ OwnGrant(r, m) BY <2>0, <2>4 DEF Given, OwnGrant
    <3>3. LogStep(r, Step(r, m), net) BY <2>0, <2>4, <3>1, <3>2, StepLogStep
    <3> QED BY <2>2, <2>4, <3>1, <3>2, <3>3
  <2>5. ASSUME NEW past \in BOOLEAN, Moves(i, tickElection(r, past)) PROVE Goal
    BY <2>0, <2>1, <2>5, TickElectionType, TickElectionBallot, TickElectionLogStep
  <2>6. ASSUME NEW timedOut \in BOOLEAN, NEW beat \in BOOLEAN,
               Moves(i, tickHeartbeat(r, timedOut, beat))
        PROVE  Goal
    BY <2>0, <2>1, <2>6, TickHeartbeatType, TickHeartbeatBallot, TickHeartbeatLogStep
  <2>7. CASE Tick(i)
    BY <2>5, <2>6, <2>7 DEF Tick, TickElection, TickLease, TickBeat, TickQuorum, r
  <2>8. CASE Propose(i)
    <3>1. PICK v \in Value :
            Moves(i, Step(r, [Msg("MsgProp", i, i) EXCEPT !.entries = <<[term |-> 0, val |-> v]>>]))
      BY <2>8 DEF Propose, r
    <3> DEFINE ents == <<[term |-> 0, val |-> v]>>
               msg == Msg("MsgProp", i, i)
               m == [msg EXCEPT !.entries = ents]
    <3>2. ents \in Seq(Entry) BY DEF Entry
    <3>3. msg \in Message /\ msg.type = "MsgProp" BY MsgIsMessage DEF MsgType, Msg
    <3>4. Moves(i, Step(r, m)) BY <3>1
    <3> HIDE DEF ents, msg
    <3>5. m \in Message /\ m.type = "MsgProp" BY <3>2, <3>3 DEF Message
    <3> HIDE DEF m
    <3> QED BY <2>3, <3>4, <3>5
  <2>9. CASE TransferLeader(i)
    <3>1. PICK to \in Server : Moves(i, Step(r, Msg("MsgTransferLeader", to, i)))
      BY <2>9 DEF TransferLeader, r
    <3> DEFINE m == Msg("MsgTransferLeader", to, i)
    <3>2. m \in Message /\ m.type = "MsgTransferLeader" BY MsgIsMessage DEF MsgType, Msg
    <3>3. Moves(i, Step(r, m)) BY <3>1
    <3> HIDE DEF m
    <3> QED BY <2>3, <3>2, <3>3
  <2>10. CASE ReportUnreachable(i)
    <3>1. PICK id \in Server \ {i} : Moves(i, handleUnreachable(r, id))
      BY <2>10 DEF ReportUnreachable, r
    <3> DEFINE s == handleUnreachable(r, id)
    <3>2. s \in Node /\ Quiet(r, s) BY <2>0, HandleUnreachableType, HandleUnreachableQuiet
    <3>3. Kept(r, s) BY <2>0, HandleUnreachableKept
    <3>4. Moves(i, s) BY <3>1
    <3> HIDE DEF s
    <3>5. LogStep(r, s, {}) BY <2>0, <3>2, <3>3, KeptLogStep
    <3> QED BY <2>0, <2>1, <3>2, <3>4, <3>5, QuietIsBallot, QuietKeepsEvidence
  <2>11. ASSUME NEW types, Receive(i, types) PROVE Goal
    BY <2>4, <2>11 DEF Receive, r
  <2>12. CASE ReceiveAny(i)
    BY <2>11, <2>12 DEF ReceiveAny, ReceiveVote, ReceiveVoteResp, ReceiveApp, ReceiveAppResp,
       ReceiveHeartbeat, ReceiveHeartbeatResp, ReceiveTransferLeader, ReceiveProp,
       ReceiveTimeoutNow
  <2>13. CASE Ready(i)
    <3> DEFINE d == Written(disk[i], node[i])
               dw == [disk EXCEPT ![i] = d]
               nn == net \cup readyMessages(node[i])
    <3>1. d \in Disk /\ d.hs = hardState(node[i]) /\ d.log = node[i].log
      BY <2>0, WrittenType DEF Written, r
    <3>2. /\ readyMessages(node[i]) \in SUBSET Boxes(node[i])
          /\ readyMessages(node[i]) \in SUBSET Message
      BY <2>0, ReadyMessagesType DEF readyMessages, Boxes, r
    <3>3. node' = [node EXCEPT ![i] = acceptReady(node[i])] /\ disk' = dw /\ net' = nn
      BY <2>13 DEF Ready
    <3> HIDE DEF d
    <3>4. ClusterInvariant(node, dw, nn) BY <1>0, <3>1, <3>2, WriteKeepsAll DEF ClusterInv
    <3>5. dw \in [Server -> Disk] /\ nn \in SUBSET Message /\ dw[i].hs = hardState(node[i])
      BY <1>0, <3>1, <3>2
    <3> HIDE DEF dw, nn
    <3>6. ClusterInvariant([node EXCEPT ![i] = acceptReady(node[i])], dw, nn)
      BY <1>0, <3>4, <3>5, AcceptReadyKeepsAll
    <3>7. ClusterInv' BY <3>3, <3>6 DEF ClusterInv
    <3>8. \A q \in Node : /\ acceptReady(q) \in Node
                          /\ acceptReady(q).log = q.log /\ acceptReady(q).Term = q.Term
      BY AcceptReadyType DEF acceptReady, Node
    <3>9. LeadsOn(node[i], acceptReady(node[i]))
      <4>1. node[i].log \in Seq(Entry) BY <1>0 DEF Node
      <4>2. Len(node[i].log) \in Nat BY <4>1, LenProperties
      <4>3. acceptReady(node[i]).log = node[i].log BY <1>0, <3>8
      <4> QED BY <4>2, <4>3 DEF LeadsOn
    <3> QED BY <1>0, <3>3, <3>7, <3>8, <3>9, OthersLeadOn
  <2>14. CASE Advance(i)
    <3>1. /\ ClusterInvariant([node EXCEPT ![i] = advanceOne(node[i])], disk, net)
          /\ advanceOne(node[i]) \in Node
          /\ \E N : LogStep(node[i], advanceOne(node[i]), N)
      BY <1>0, <2>14, AdvanceKeepsAll DEF Advance, ClusterInv
    <3>2. /\ node' = [node EXCEPT ![i] = advanceOne(node[i])]
          /\ disk' = disk /\ net' = net
      BY <2>14 DEF Advance
    <3>3. ClusterInv' BY <3>1, <3>2 DEF ClusterInv
    <3>4. LeadsOn(node[i], advanceOne(node[i])) BY <1>0, <3>1, LogStepLeadsOn
    <3> QED BY <1>0, <3>1, <3>2, <3>3, <3>4, OthersLeadOn
  <2>15. CASE Restart(i)
    BY <1>0, <2>0, <2>15, RestartedKeepsAll DEF Restart, ClusterInv
  <2>16. CASE CrashInReady(i)
    <3> DEFINE half == [disk[i] EXCEPT !.log = node[i].log]
               hard == [disk[i] EXCEPT !.hs = hardState(node[i])]
               dk == [disk EXCEPT ![i] = hard]
    <3>1. half \in Disk /\ half.hs = disk[i].hs /\ half.log = node[i].log
      BY <2>0 DEF Disk, Node, r
    <3>2. hardState(node[i]) \in HardState BY <2>0, HardStateType DEF r
    <3>3. hard \in Disk /\ hard.hs = hardState(node[i]) /\ hard.log = disk[i].log
      <4> DEFINE hs == hardState(node[i])
                 e == [disk[i] EXCEPT !.hs = hs]
      <4> HIDE DEF hs
      <4>1. e \in Disk /\ e.hs = hs /\ e.log = disk[i].log BY <2>0, <3>2 DEF Disk, hs
      <4> QED BY <4>1 DEF hs
    <3>4. /\ RestartFrom(i, half) \/ RestartFrom(i, hard)
          /\ net' = net
      BY <2>16 DEF CrashInReady
    <3> HIDE DEF half, hard
    <3>5. CASE RestartFrom(i, half)
      BY <1>0, <3>1, <3>4, <3>5, RestartedKeepsAll DEF ClusterInv
    <3>6. CASE RestartFrom(i, hard)
      <4>1. dk \in [Server -> Disk] /\ dk[i] = hard /\ \A k \in Server \ {i} : dk[k] = disk[k]
        BY <1>0, <3>3
      <4>2. ClusterInvariant(node, dk, net \cup {})
        BY <1>0, <3>3, WriteKeepsAll DEF ClusterInv
      <4>3. net \cup {} = net OBVIOUS
      <4> HIDE DEF dk
      <4>4. ClusterInvariant(node, dk, net) BY <4>2, <4>3
      <4> QED BY <3>3, <3>4, <3>6, <4>1, <4>4, RestartedKeepsAll
    <3> QED BY <3>4, <3>5, <3>6
  <2> QED BY <1>2, <2>7, <2>8, <2>9, <2>10, <2>12, <2>13, <2>14, <2>15, <2>16 DEF LocalCall
<1> QED BY <1>1, <1>2 DEF Next

\* Logs grow out of links, each link of an index and a term is made once, and a
\* term is won once, in every reachable state: through any interleaving of the
\* handlers, lost and repeated messages, and crashes at any point of a Ready
\* (becomeLeader, appendEntry, maybeAppend, handleAppendEntries, the Ready cycle).
THEOREM ClusterInvariance == Spec => []ClusterInv
<1>1. TypeOK /\ Init => ClusterInv BY ClusterInit
<1>2. TypeOK /\ ClusterInv /\ [Next]_vars => ClusterInv' BY ClusterNext
<1>3. Spec => []TypeOK BY TypeCorrect
<1> QED BY <1>1, <1>2, <1>3, PTL DEF Spec

----------------------------------------------------------------------------
(* What follows: logs match *)

\* Every set of naturals that is not empty has a least element.
LEMMA LeastElement ==
    ASSUME NEW S \in SUBSET Nat, S # {}
    PROVE  \E x \in S : \A y \in S : x <= y
<1> DEFINE R == {ss \in Nat \X Nat : ss[1] < ss[2]}
<1>1. IsWellFoundedOn(R, Nat) BY NatLessThanWellFounded DEF OpToRel
<1> HIDE DEF R
<1>2. PICK x \in S : \A y \in S : ~(<<y, x>> \in R) BY <1>1, WFMin
<1>3. \A y \in S : ~(y < x)
  <2> TAKE y \in S
  <2>1. y \in Nat /\ x \in Nat OBVIOUS
  <2> QED BY <1>2, <2>1 DEF R
<1> QED BY <1>2, <1>3

\* Two logs of which no two links of one index and term differ agree up to any
\* entry of the same term.
LEMMA LinksAgree ==
    ASSUME NEW a \in Seq(Entry), NEW b \in Seq(Entry),
           \A x \in LogLinks(a), y \in LogLinks(b) :
             x.at = y.at /\ x.entry.term = y.entry.term => x = y,
           NEW k \in 1..Len(a), k <= Len(b), a[k].term = b[k].term
    PROVE  \A n \in 1..k : a[n] = b[n]
<1>0. Len(a) \in Nat /\ Len(b) \in Nat /\ k \in Nat BY LenProperties
<1>1. \A n \in 1..k : n \in 1..Len(a) /\ n \in 1..Len(b) BY <1>0
<1> DEFINE link(log, n) == [at |-> n, entry |-> log[n], prev |-> TermAt(log, n - 1)]
<1>2. ASSUME NEW n \in 1..k, a[n].term = b[n].term
      PROVE  a[n] = b[n] /\ TermAt(a, n - 1) = TermAt(b, n - 1)
  <2>1. link(a, n) \in LogLinks(a) /\ link(b, n) \in LogLinks(b) BY <1>1 DEF LogLinks
  <2>2. link(a, n) = link(b, n) BY <1>2, <2>1
  <2>3. /\ link(a, n).entry = a[n] /\ link(b, n).entry = b[n]
        /\ link(a, n).prev = TermAt(a, n - 1) /\ link(b, n).prev = TermAt(b, n - 1)
    OBVIOUS
  <2> HIDE DEF link
  <2> QED BY <2>2, <2>3
<1> DEFINE S == {n \in Nat : n < k /\ a[k - n].term # b[k - n].term}
<1>3. S = {}
  <2> SUFFICES ASSUME S # {} PROVE FALSE OBVIOUS
  <2>1. S \in SUBSET Nat OBVIOUS
  <2>2. PICK n \in S : \A y \in S : n <= y
    <3> HIDE DEF S
    <3> QED BY <2>1, LeastElement
  <2>3. n \in Nat /\ n < k /\ a[k - n].term # b[k - n].term OBVIOUS
  <2>4. n # 0 BY <1>0, <2>3
  <2>5. n - 1 \in Nat /\ n - 1 < k /\ ~(n <= n - 1) BY <1>0, <2>3, <2>4
  <2>6. n - 1 \notin S
    <3> HIDE DEF S
    <3> QED BY <2>2, <2>5
  <2>7. a[k - (n - 1)].term = b[k - (n - 1)].term BY <2>5, <2>6
  <2> DEFINE j == k - (n - 1)
  <2>8. j \in 1..k /\ j - 1 = k - n /\ j - 1 \in 1..k BY <1>0, <2>3, <2>5
  <2>9. TermAt(a, j - 1) = TermAt(b, j - 1)
    <3>1. a[j].term = b[j].term BY <2>7
    <3> HIDE DEF j
    <3> QED BY <1>2, <2>8, <3>1
  <2> HIDE DEF j
  <2>10. a[j - 1].term = b[j - 1].term BY <1>1, <2>8, <2>9 DEF TermAt
  <2> QED BY <2>3, <2>8, <2>10
<1>4. ASSUME NEW n \in 1..k PROVE a[n].term = b[n].term
  <2>1. k - n \in Nat /\ k - n < k /\ k - (k - n) = n BY <1>0
  <2>2. k - n \notin S BY <1>3
  <2> QED BY <2>1, <2>2
<1> QED BY <1>2, <1>4

LEMMA LogsMatch == TypeOK /\ ClusterInv => LogMatching
<1> SUFFICES ASSUME TypeOK, ClusterInv,
                    NEW a \in {node[i].log : i \in Server} \cup {disk[i].log : i \in Server},
                    NEW b \in {node[i].log : i \in Server} \cup {disk[i].log : i \in Server},
                    NEW k \in 1..Least(Len(a), Len(b)), a[k].term = b[k].term
             PROVE  SubSeq(a, 1, k) = SubSeq(b, 1, k)
  BY DEF LogMatching
<1> DEFINE L == Links(node, disk, net)
<1>1. \A i \in Server : node[i].log \in Seq(Entry) /\ disk[i].log \in Seq(Entry)
  BY DEF TypeOK, Node, Disk
<1>2. a \in Seq(Entry) /\ b \in Seq(Entry) BY <1>1
<1>3. \A i \in Server : LogLinks(node[i].log) \subseteq L /\ LogLinks(disk[i].log) \subseteq L
  BY LinksOfLogs
<1>4. \A x, y \in L : x.at = y.at /\ x.entry.term = y.entry.term => x = y
  BY DEF ClusterInv, ClusterInvariant, LinkInvariant
<1> HIDE DEF L
<1>5. LogLinks(a) \subseteq L /\ LogLinks(b) \subseteq L BY <1>3
<1>6. Len(a) \in Nat /\ Len(b) \in Nat BY <1>2, LenProperties
<1>7. k \in 1..Len(a) /\ k \in Nat /\ 1 <= k /\ k <= Len(b) BY <1>6 DEF Least
<1>8. \A n \in 1..k : a[n] = b[n]
  <2>1. \A x \in LogLinks(a), y \in LogLinks(b) :
          x.at = y.at /\ x.entry.term = y.entry.term => x = y
    BY <1>4, <1>5
  <2> QED BY <1>2, <1>7, <2>1, LinksAgree
<1>9. \A n \in 1..k : a[n] \in Entry /\ b[n] \in Entry
  <2>1. \A n \in 1..k : n \in 1..Len(a) /\ n \in 1..Len(b) BY <1>6, <1>7
  <2> QED BY <1>2, <2>1, ElementOfSeq
<1>10. /\ SubSeq(a, 1, k) \in Seq(Entry) /\ SubSeq(b, 1, k) \in Seq(Entry)
       /\ Len(SubSeq(a, 1, k)) = k /\ Len(SubSeq(b, 1, k)) = k
       /\ \A n \in 1..k : SubSeq(a, 1, k)[n] = a[n] /\ SubSeq(b, 1, k)[n] = b[n]
  BY <1>7, <1>9, SubSeqProperties
<1> QED BY <1>8, <1>10, SeqEqual

\* If two logs, in memory or on disk, have entries of one term at one index, they
\* are the same up to there (maybeAppend and handleAppendEntries, through every
\* interleaving, loss, repetition and crash).
THEOREM LogsAlwaysMatch == Spec => []LogMatching
<1>1. TypeOK /\ ClusterInv => LogMatching BY LogsMatch
<1> QED BY <1>1, TypeCorrect, ClusterInvariance, PTL

\* A leader never overwrites or removes an entry of its own log while it leads
\* in its term, whatever it receives (appendEntry, stepLeader, Step).
THEOREM LeadersOnlyAppend == Spec => LeaderAppendOnly
<1>1. TypeOK /\ TypeOK' /\ ClusterInv /\ [Next]_vars => LeadersKeepLogs
  <2> SUFFICES ASSUME TypeOK, TypeOK', ClusterInv, [Next]_vars, NEW i \in Leaders,
                      node'[i].state = "StateLeader", node'[i].Term = node[i].Term
               PROVE  /\ Len(node'[i].log) >= Len(node[i].log)
                      /\ SubSeq(node'[i].log, 1, Len(node[i].log)) = node[i].log
    BY DEF LeadersKeepLogs
  <2> DEFINE a == node[i].log
             b == node'[i].log
  <2>1. i \in Server /\ node[i].state = "StateLeader" BY DEF Leaders
  <2>2. a \in Seq(Entry) /\ b \in Seq(Entry) BY <2>1 DEF TypeOK, Node
  <2>3. LeadsOn(node[i], node'[i]) BY <2>1, ClusterNext
  <2>4. Len(a) <= Len(b) /\ \A n \in 1..Len(a) : b[n] = a[n] BY <2>1, <2>3 DEF LeadsOn
  <2> HIDE DEF a, b
  <2>5. Len(a) \in Nat /\ Len(b) \in Nat BY <2>2, LenProperties
  <2>6. \A n \in 1..Len(a) : b[n] \in Entry BY <2>2, <2>4, ElementOfSeq
  <2>7. /\ SubSeq(b, 1, Len(a)) \in Seq(Entry) /\ Len(SubSeq(b, 1, Len(a))) = Len(a)
        /\ \A n \in 1..Len(a) : SubSeq(b, 1, Len(a))[n] = b[n]
    BY <2>5, <2>6, SubSeqProperties
  <2>8. SubSeq(b, 1, Len(a)) = a BY <2>2, <2>4, <2>7, SeqEqual
  <2> QED BY <2>4, <2>5, <2>8 DEF a, b
<1> QED BY <1>1, TypeCorrect, ClusterInvariance, PTL DEF Spec, LeaderAppendOnly
=============================================================================
