------------------------- MODULE RaftElectionProofs -------------------------
(***************************************************************************)
(* TypeOK and at most one leader per term, for every group and every       *)
(* configuration.                                                          *)
(*                                                                         *)
(* First, that every operator of RaftNode takes node records to node       *)
(* records.  These lemmas follow the order of RaftNode; each is about one  *)
(* operator and uses only those of the operators it is built from.  That   *)
(* the types hold is not a matter of course: a log stays a sequence only   *)
(* because findConflict returns the first conflict (maybeAppend would      *)
(* otherwise read beyond the log), and Next stays positive only because    *)
(* MaybeDecrTo is bounded from below.                                      *)
(*                                                                         *)
(* Then, that every action of RaftCluster keeps TypeOK, and what each      *)
(* operator of RaftNode does to the vote: most are Quiet (term, vote, role *)
(* and tally stay, and nothing they send is a vote), the others make a     *)
(* BallotStep (the term does not fall, a vote given in a term stays, a     *)
(* grant they send is the vote they record).  Last, that every action of   *)
(* RaftCluster keeps ElectionInv.                                          *)
(***************************************************************************)
EXTENDS RaftElections, SequenceTheorems, FiniteSetTheorems, TLAPS

----------------------------------------------------------------------------
(* Numbers and sequences *)

\* min returns one of its arguments, and nothing larger than either.
LEMMA LeastType ==
    ASSUME NEW a \in Nat, NEW b \in Nat
    PROVE  Least(a, b) \in Nat /\ Least(a, b) <= a /\ Least(a, b) <= b
BY DEF Least

\* max returns one of its arguments, and nothing smaller than either.
LEMMA GreatestType ==
    ASSUME NEW a \in Nat, NEW b \in Nat
    PROVE  Greatest(a, b) \in Nat /\ Greatest(a, b) >= a /\ Greatest(a, b) >= b
BY DEF Greatest

\* The largest of a set of indexes is an index (or 0).
LEMMA MaxOr0Type == ASSUME NEW S \in SUBSET Nat PROVE MaxOr0(S) \in Nat
BY DEF MaxOr0

\* The smallest of a set of indexes is 0 when there is none, and otherwise an
\* element that no other undercuts.
LEMMA MinOr0Type ==
    ASSUME NEW S \in SUBSET Nat
    PROVE  MinOr0(S) = 0 \/ (MinOr0(S) \in S /\ \A y \in S : MinOr0(S) <= y)
BY DEF MinOr0

\* A slice of a log within its bounds is a sequence of entries.
LEMMA SliceType ==
    ASSUME NEW S, NEW s \in Seq(S), NEW m \in Nat \ {0}, NEW n \in Int, n <= Len(s)
    PROVE  SubSeq(s, m, n) \in Seq(S)
<1>1. \A i \in m..n : i \in 1..Len(s) BY LenProperties
<1>2. \A i \in m..n : s[i] \in S BY <1>1, ElementOfSeq
<1> QED BY <1>2, SubSeqProperties

\* A sequence given by its elements.
LEMMA MakeSeq ==
    ASSUME NEW S, NEW n \in Nat, NEW f \in [1..n -> S]
    PROVE  f \in Seq(S) /\ Len(f) = n
<1>1. f \in Seq(S) BY SeqDef
<1>2. DOMAIN f = 1..n /\ DOMAIN f = 1..Len(f) /\ Len(f) \in Nat BY <1>1, LenProperties
<1> QED BY <1>1, <1>2

----------------------------------------------------------------------------
(* The log *)

\* raftLog.term of an existing entry, or 0.
LEMMA TermAtType ==
    ASSUME NEW log \in Seq(Entry), NEW i \in Int
    PROVE  TermAt(log, i) \in Nat
<1>1. CASE i \in 1..Len(log)
  <2>1. log[i] \in Entry BY <1>1, ElementOfSeq
  <2> QED BY <2>1, <1>1 DEF TermAt, Entry
<1>2. CASE i \notin 1..Len(log) BY <1>2 DEF TermAt
<1> QED BY <1>1, <1>2

\* findConflict returns the first conflict: below it, the log has every entry,
\* with its term.
LEMMA FindConflictFirst ==
    ASSUME NEW log \in Seq(Entry), NEW index \in Nat, NEW ents \in Seq(Entry),
           findConflict(log, index, ents) # 0
    PROVE  LET ci == findConflict(log, index, ents)
           IN  /\ ci \in (index + 1)..(index + Len(ents))
               /\ \A j \in (index + 1)..(ci - 1) :
                    j <= Len(log) /\ TermAt(log, j) = ents[j - index].term
<1> DEFINE C == {i \in (index + 1)..(index + Len(ents)) :
                   ~matchTerm(log, i, ents[i - index].term)}
           ci == findConflict(log, index, ents)
<1>1. Len(ents) \in Nat /\ Len(log) \in Nat BY LenProperties
<1>2. C \in SUBSET Nat BY <1>1
<1>3. ci = MinOr0(C) BY DEF findConflict
<1> HIDE DEF ci
<1>4. ci \in C /\ \A y \in C : ci <= y BY <1>2, <1>3, MinOr0Type DEF ci
<1>5. ASSUME NEW j \in (index + 1)..(ci - 1)
      PROVE  j <= Len(log) /\ TermAt(log, j) = ents[j - index].term
  <2>1. j \in (index + 1)..(index + Len(ents)) BY <1>1, <1>4
  <2>2. j \notin C BY <1>1, <1>4
  <2>3. matchTerm(log, j, ents[j - index].term) BY <2>1, <2>2
  <2> QED BY <2>3 DEF matchTerm
<1> QED BY <1>4, <1>5 DEF ci

\* findConflictByTerm returns an index (of the log, or the given one).
LEMMA FindConflictByTermType ==
    ASSUME NEW log \in Seq(Entry), NEW i \in Nat, NEW term \in Nat
    PROVE  findConflictByTerm(log, i, term) \in Nat
<1>1. {k \in 1..i : TermAt(log, k) <= term} \in SUBSET Nat OBVIOUS
<1> QED BY <1>1, MaxOr0Type DEF findConflictByTerm

\* A panicking server keeps its record.
LEMMA PanicType == ASSUME NEW r \in Node PROVE Panic(r) \in Node
BY DEF Panic, Node

\* commitTo moves the commit index within the log, or panics.
LEMMA CommitToType ==
    ASSUME NEW r \in Node, NEW tocommit \in Nat
    PROVE  commitTo(r, tocommit) \in Node
<1>1. [r EXCEPT !.committed = tocommit] \in Node BY DEF Node
<1> QED BY <1>1, PanicType DEF commitTo

\* maybeAppend truncates at the first conflict, never beyond the log's end.
LEMMA MaybeAppendType ==
    ASSUME NEW r \in Node, NEW index \in Nat, NEW committed \in Nat,
           NEW ents \in Seq(Entry), index <= Len(r.log)
    PROVE  maybeAppend(r, index, committed, ents) \in Node
<1> DEFINE ci == findConflict(r.log, index, ents)
           kept == SubSeq(r.log, 1, ci - 1)
           added == SubSeq(ents, ci - index, Len(ents))
           appended == IF ci = 0 THEN r
                       ELSE IF ci <= r.committed THEN Panic(r)
                       ELSE [r EXCEPT !.log = kept \o added]
<1>1. r.log \in Seq(Entry) /\ Len(r.log) \in Nat /\ Len(ents) \in Nat
  BY LenProperties DEF Node
<1>2. appended \in Node
  <2>1. CASE ci = 0 BY <2>1
  <2>2. CASE ci # 0
    <3>1. /\ ci \in (index + 1)..(index + Len(ents))
          /\ \A j \in (index + 1)..(ci - 1) : j <= Len(r.log)
      BY <1>1, <2>2, FindConflictFirst
    <3> HIDE DEF ci
    <3>2. ci - 1 <= Len(r.log)
      <4>1. CASE ci = index + 1 BY <4>1, <1>1
      <4>2. CASE ci # index + 1
        <5>1. ci - 1 \in (index + 1)..(ci - 1) BY <3>1, <4>2, <1>1
        <5> QED BY <5>1, <3>1
      <4> QED BY <4>1, <4>2
    <3>3. kept \in Seq(Entry)
      <4>1. ci - 1 \in Int BY <3>1, <1>1
      <4> QED BY <4>1, <1>1, <3>2, SliceType
    <3>4. added \in Seq(Entry)
      <4>1. ci - index \in Nat \ {0} BY <3>1, <1>1
      <4> QED BY <4>1, <1>1, SliceType
    <3>5. kept \o added \in Seq(Entry) BY <3>3, <3>4, ConcatProperties
    <3> DEFINE log == kept \o added
    <3> HIDE DEF log
    <3>6. [r EXCEPT !.log = log] \in Node BY <3>5 DEF log, Node
    <3> QED BY <3>6, PanicType DEF log
  <2> QED BY <2>1, <2>2
<1>3. Least(committed, index + Len(ents)) \in Nat
  <2>1. index + Len(ents) \in Nat BY <1>1
  <2> QED BY <2>1, LeastType
<1>4. maybeAppend(r, index, committed, ents) = commitTo(appended, Least(committed, index + Len(ents)))
  BY DEF maybeAppend
<1> HIDE DEF appended
<1> QED BY <1>2, <1>3, <1>4, CommitToType

----------------------------------------------------------------------------
(* Quorums and progress *)

\* The committed index of a quorum is an index.
LEMMA CommittedType == ASSUME NEW r \in Node PROVE Committed(r) \in Nat
<1> DEFINE M == {r.prs[d].Match : d \in r.voters}
           C == {k \in M : IsQuorum({d \in r.voters : r.prs[d].Match >= k}, r.voters)}
<1>1. \A d \in r.voters : r.prs[d].Match \in Nat BY DEF Node, Progress
<1>2. C \in SUBSET Nat BY <1>1
<1> HIDE DEF C
<1>3. MaxOr0(C) \in Nat BY <1>2, MaxOr0Type
<1> QED BY <1>3 DEF Committed, C

\* The operations of a Progress, of which only MaybeDecrTo lowers Next.
LEMMA BecomeProbeType ==
    ASSUME NEW pr \in Progress PROVE BecomeProbe(pr) \in Progress
<1> DEFINE next == pr.Match + 1
<1>1. next \in Nat \ {0} BY DEF Progress
<1> HIDE DEF next
<1>2. [pr EXCEPT !.State = "StateProbe", !.MsgAppFlowPaused = FALSE, !.Next = next] \in Progress
  BY <1>1 DEF Progress, ProgressState
<1> QED BY <1>2 DEF next, BecomeProbe

LEMMA BecomeReplicateType ==
    ASSUME NEW pr \in Progress PROVE BecomeReplicate(pr) \in Progress
<1> DEFINE next == pr.Match + 1
<1>1. next \in Nat \ {0} BY DEF Progress
<1> HIDE DEF next
<1>2. [pr EXCEPT !.State = "StateReplicate", !.MsgAppFlowPaused = FALSE, !.Next = next]
        \in Progress
  BY <1>1 DEF Progress, ProgressState
<1> QED BY <1>2 DEF next, BecomeReplicate

LEMMA UpdateOnEntriesSendType ==
    ASSUME NEW pr \in Progress, NEW n \in Nat
    PROVE  UpdateOnEntriesSend(pr, n, pr.Next) \in Progress
<1> DEFINE next == pr.Next + n
           paused == pr.MsgAppFlowPaused /\ pr.State = "StateProbe"
<1>1. next \in Nat \ {0} BY DEF Progress
<1>2. paused \in BOOLEAN OBVIOUS
<1> HIDE DEF next, paused
<1>3. [pr EXCEPT !.Next = next, !.MsgAppFlowPaused = FALSE] \in Progress
  BY <1>1 DEF Progress, ProgressState
<1>4. [pr EXCEPT !.MsgAppFlowPaused = paused] \in Progress
  BY <1>2 DEF Progress, ProgressState
<1>5. [pr EXCEPT !.MsgAppFlowPaused = TRUE] \in Progress BY DEF Progress, ProgressState
<1> QED BY <1>3, <1>4, <1>5 DEF next, paused, UpdateOnEntriesSend

LEMMA MaybeUpdateType ==
    ASSUME NEW pr \in Progress, NEW n \in Nat
    PROVE  MaybeUpdate(pr, n) \in Progress
<1> DEFINE match == Greatest(pr.Match, n)
           next == Greatest(pr.Next, n + 1)
           paused == pr.MsgAppFlowPaused /\ pr.Match >= n
<1>1. match \in Nat BY GreatestType DEF Progress
<1>2. next \in Nat \ {0} BY DEF Greatest, Progress
<1>3. paused \in BOOLEAN OBVIOUS
<1> HIDE DEF match, next, paused
<1>4. [pr EXCEPT !.Match = match, !.Next = next, !.MsgAppFlowPaused = paused] \in Progress
  BY <1>1, <1>2, <1>3 DEF Progress, ProgressState
<1> QED BY <1>4 DEF match, next, paused, MaybeUpdate

LEMMA MaybeDecrToType ==
    ASSUME NEW pr \in Progress, NEW rejected \in Nat, NEW hint \in Nat
    PROVE  MaybeDecrTo(pr, rejected, hint) \in Progress
<1> DEFINE next == pr.Match + 1
           low == Greatest(Least(rejected, hint + 1), 1)
<1>1. next \in Nat \ {0} BY DEF Progress
<1>2. low \in Nat \ {0} BY DEF Greatest, Least
<1> HIDE DEF next, low
<1>3. [pr EXCEPT !.Next = next] \in Progress BY <1>1 DEF Progress, ProgressState
<1>4. [pr EXCEPT !.Next = low, !.MsgAppFlowPaused = FALSE] \in Progress
  BY <1>2 DEF Progress, ProgressState
<1> QED BY <1>3, <1>4 DEF next, low, MaybeDecrTo

\* A server whose progress of one peer is replaced.
LEMMA ProgressOf ==
    ASSUME NEW r \in Node, NEW d \in Server, NEW pr \in Progress
    PROVE  [r EXCEPT !.prs[d] = pr] \in Node
<1> DEFINE prs == [r.prs EXCEPT ![d] = pr]
<1>1. prs \in [Server -> Progress] BY DEF Node
<1> HIDE DEF prs
<1>2. [r EXCEPT !.prs = prs] \in Node BY <1>1 DEF Node
<1> QED BY <1>2 DEF prs

----------------------------------------------------------------------------
(* Sending *)

\* A message made by Msg is one of that type.
LEMMA MsgIsMessage ==
    ASSUME NEW type \in MsgType, NEW from \in Server, NEW to \in Server
    PROVE  Msg(type, from, to) \in Message
<1>1. <<>> \in Seq(Entry) BY EmptySeq
<1> QED BY <1>1 DEF Msg, Message

\* One more message in an outbox.
LEMMA Outbox ==
    ASSUME NEW box \in [Server -> Seq(Message)], NEW d \in Server, NEW m \in Message
    PROVE  [box EXCEPT ![d] = Append(@, m)] \in [Server -> Seq(Message)]
<1>1. Append(box[d], m) \in Seq(Message) OBVIOUS
<1> QED BY <1>1

\* send puts the message into one of the two outboxes.
LEMMA SendType ==
    ASSUME NEW r \in Node, NEW m \in Message
    PROVE  send(r, m) \in Node
<1> DEFINE q == IF m.type \in VoteTypes \cup {"MsgProp"} THEN m
                ELSE [m EXCEPT !.term = r.Term]
<1>1. [m EXCEPT !.term = r.Term] \in Message BY DEF Node, Message
<1>2. q \in Message BY <1>1
<1>3. m.to \in Server BY DEF Message
<1> HIDE DEF q
<1>4. [r EXCEPT !.after[m.to] = Append(@, q)] \in Node
  <2> DEFINE box == [r.after EXCEPT ![m.to] = Append(@, q)]
  <2>1. box \in [Server -> Seq(Message)] BY <1>2, <1>3, Outbox DEF Node
  <2> HIDE DEF box
  <2>2. [r EXCEPT !.after = box] \in Node BY <2>1 DEF Node
  <2> QED BY <2>2 DEF box
<1>5. [r EXCEPT !.msgs[m.to] = Append(@, q)] \in Node
  <2> DEFINE box == [r.msgs EXCEPT ![m.to] = Append(@, q)]
  <2>1. box \in [Server -> Seq(Message)] BY <1>2, <1>3, Outbox DEF Node
  <2> HIDE DEF box
  <2>2. [r EXCEPT !.msgs = box] \in Node BY <2>1 DEF Node
  <2> QED BY <2>2 DEF box
<1> QED BY <1>4, <1>5, PanicType DEF send, q

\* The entries of a MsgApp are a slice of the log, empty beyond its end.
LEMMA EntriesType ==
    ASSUME NEW log \in Seq(Entry), NEW i \in Nat \ {0}
    PROVE  Entries(log, i) \in Seq(Entry)
<1>1. Len(log) \in Nat /\ MaxEntries \in Nat \ {0} BY LenProperties, ConfigAssumption
<1>2. i + MaxEntries - 1 \in Nat BY <1>1
<1>3. Least(Len(log), i + MaxEntries - 1) \in Nat
      /\ Least(Len(log), i + MaxEntries - 1) <= Len(log)
  BY <1>1, <1>2, LeastType
<1> QED BY <1>3, SliceType DEF Entries

\* A MsgApp is a message.
LEMMA AppMsgType ==
    ASSUME NEW r \in Node, NEW to \in Server, NEW next \in Nat \ {0}
    PROVE  AppMsg(r, to, next) \in Message
<1>1. r.log \in Seq(Entry) /\ r.id \in Server /\ r.committed \in Nat BY DEF Node
<1>2. Entries(r.log, next) \in Seq(Entry) BY <1>1, EntriesType
<1>3. next - 1 \in Nat OBVIOUS
<1>4. TermAt(r.log, next - 1) \in Nat BY SMTT(60), <1>1, <1>3, TermAtType
<1>5. Msg("MsgApp", r.id, to) \in Message BY <1>1, MsgIsMessage DEF MsgType
<1> DEFINE prev == next - 1
           term == TermAt(r.log, prev)
           ents == Entries(r.log, next)
           msg == Msg("MsgApp", r.id, to)
<1> HIDE DEF prev, term, ents, msg
<1>6. [msg EXCEPT !.index = prev, !.logTerm = term, !.entries = ents, !.commit = r.committed]
        \in Message
  BY <1>1, <1>2, <1>3, <1>4, <1>5 DEF prev, term, ents, msg, Message
<1> QED BY <1>6 DEF AppMsg, prev, term, ents, msg

\* sendApp sends, and moves the progress of the receiver.
LEMMA SendAppType ==
    ASSUME NEW r \in Node, NEW m \in Message
    PROVE  sendApp(r, m) \in Node
<1> DEFINE to == m.to
           pr == r.prs[to]
           n == Len(m.entries)
           sent == UpdateOnEntriesSend(pr, n, pr.Next)
<1>1. to \in Server /\ n \in Nat BY LenProperties DEF Message
<1>2. sent \in Progress BY <1>1, UpdateOnEntriesSendType DEF Node
<1> HIDE DEF sent, to
<1>3. [r EXCEPT !.prs[to] = sent] \in Node BY <1>1, <1>2, ProgressOf
<1>4. sendApp(r, m) = send([r EXCEPT !.prs[to] = sent], m) BY DEF sendApp, sent, to
<1> QED BY <1>3, <1>4, SendType

\* maybeSendAppend sends a MsgApp, panics, or does nothing.
LEMMA MaybeSendAppendType ==
    ASSUME NEW r \in Node, NEW to \in Server, NEW sendIfEmpty \in BOOLEAN
    PROVE  maybeSendAppend(r, to, sendIfEmpty) \in Node
<1>1. r.prs[to].Next \in Nat \ {0} BY DEF Node, Progress
<1>2. sendApp(r, AppMsg(r, to, r.prs[to].Next)) \in Node BY <1>1, AppMsgType, SendAppType
<1> QED BY <1>2, PanicType DEF maybeSendAppend

LEMMA SendAppendType ==
    ASSUME NEW r \in Node, NEW to \in Server
    PROVE  sendAppend(r, to) \in Node
BY MaybeSendAppendType DEF sendAppend

\* The messages for a replicating follower: from Next on, MaxEntries entries
\* each, so every one starts at a positive index.
LEMMA AppBatchType ==
    ASSUME NEW r \in Node, NEW to \in Server, ~(r.prs[to].Next > Len(r.log))
    PROVE  /\ AppBatch(r, to) \in Seq(Message)
           /\ \A k \in 1..Len(AppBatch(r, to)) :
                /\ AppBatch(r, to)[k].type = "MsgApp"
                /\ AppBatch(r, to)[k].term = r.Term
<1> DEFINE next  == r.prs[to].Next
           count == (Len(r.log) - next + MaxEntries) \div MaxEntries
           msg(k) == [AppMsg(r, to, next + (k - 1) * MaxEntries) EXCEPT !.term = r.Term]
           batch == [k \in 1..count |-> msg(k)]
<1>1. r.log \in Seq(Entry) /\ Len(r.log) \in Nat /\ next \in Nat \ {0} /\ MaxEntries \in Nat \ {0}
  BY LenProperties, ConfigAssumption DEF Node, Progress
<1>2. count \in Nat
  <2> DEFINE total == Len(r.log) - next + MaxEntries
  <2>1. total \in Nat BY <1>1
  <2> HIDE DEF total
  <2>2. total \div MaxEntries \in Nat BY <2>1, <1>1
  <2> QED BY <2>2 DEF total
<1>3. ASSUME NEW k \in 1..count
      PROVE  msg(k) \in Message /\ msg(k).type = "MsgApp" /\ msg(k).term = r.Term
  <2> DEFINE offset == (k - 1) * MaxEntries
             index == next + offset
  <2>1. k - 1 \in Nat BY <1>2
  <2>2. offset \in Nat BY <2>1, <1>1
  <2> HIDE DEF offset, next
  <2>3. index \in Nat \ {0} BY <2>2, <1>1
  <2> HIDE DEF index
  <2> DEFINE app == AppMsg(r, to, index)
  <2>4. app \in Message BY <2>3, AppMsgType
  <2>5. app.type = "MsgApp" BY DEF AppMsg, Msg
  <2> HIDE DEF app
  <2>6. [app EXCEPT !.term = r.Term] \in Message /\ [app EXCEPT !.term = r.Term].type = "MsgApp"
        /\ [app EXCEPT !.term = r.Term].term = r.Term
    BY <2>4, <2>5 DEF Message, Node
  <2> QED BY <2>6 DEF index, offset, next, app
<1> HIDE DEF count, msg
<1>4. batch \in Seq(Message) /\ Len(batch) = count BY <1>2, <1>3, MakeSeq
<1>5. \A k \in 1..Len(batch) : batch[k].type = "MsgApp" /\ batch[k].term = r.Term
  BY <1>3, <1>4
<1>6. AppBatch(r, to) = batch BY DEF AppBatch, count, msg
<1> HIDE DEF batch
<1> QED BY <1>4, <1>5, <1>6

LEMMA SendRemainingType ==
    ASSUME NEW r \in Node, NEW to \in Server
    PROVE  sendRemaining(r, to) \in Node
<1> DEFINE pr    == r.prs[to]
           batch == AppBatch(r, to)
           next  == Len(r.log) + 1
<1>1. maybeSendAppend(r, to, FALSE) \in Node BY MaybeSendAppendType
<1>2. ASSUME ~(pr.Next > Len(r.log))
      PROVE  [r EXCEPT !.prs[to].Next = next, !.msgs[to] = @ \o batch] \in Node
  <2>1. next \in Nat \ {0} BY LenProperties DEF Node
  <2> DEFINE box == [r.msgs EXCEPT ![to] = @ \o batch]
             prog == [pr EXCEPT !.Next = next]
             prs == [r.prs EXCEPT ![to] = prog]
  <2>2. box \in [Server -> Seq(Message)]
    <3>1. r.msgs \in [Server -> Seq(Message)] BY DEF Node
    <3>2. r.msgs[to] \o batch \in Seq(Message) BY <3>1, <1>2, AppBatchType, ConcatProperties
    <3> HIDE DEF batch
    <3> QED BY <3>1, <3>2
  <2> HIDE DEF batch, next
  <2>3. prog \in Progress
    <3>1. pr \in Progress BY DEF Node
    <3> HIDE DEF pr
    <3> QED BY <2>1, <3>1 DEF Progress
  <2> HIDE DEF prog
  <2>4. prs \in [Server -> Progress] BY <2>3 DEF Node
  <2> HIDE DEF box, prs
  <2>5. [r EXCEPT !.prs = prs, !.msgs = box] \in Node BY <2>2, <2>4 DEF Node
  <2> QED BY <2>5 DEF box, prs, prog
<1> HIDE DEF batch, next
<1>3. CASE pr.State = "StateProbe" \/ pr.Next > Len(r.log)
  BY <1>3, <1>1 DEF sendRemaining
<1>4. CASE ~(pr.State = "StateProbe" \/ pr.Next > Len(r.log)) /\ IsPaused(pr)
  BY <1>4 DEF sendRemaining
<1>5. CASE ~(pr.State = "StateProbe" \/ pr.Next > Len(r.log)) /\ ~IsPaused(pr)
  BY <1>5, <1>2 DEF sendRemaining, batch, next
<1> QED BY <1>3, <1>4, <1>5

\* A broadcast takes the progress and the outbox of each peer from the record
\* that serving it left.
LEMMA JoinedType ==
    ASSUME NEW r \in Node, NEW each \in [Server -> Node]
    PROVE  joined(r, each) \in Node
<1> DEFINE prs == [d \in Server |-> each[d].prs[d]]
           box == [d \in Server |-> each[d].msgs[d]]
           panic == \E d \in Server : each[d].panic
<1>1. prs \in [Server -> Progress] BY DEF Node
<1>2. box \in [Server -> Seq(Message)] BY DEF Node
<1>3. panic \in BOOLEAN OBVIOUS
<1> HIDE DEF prs, box, panic
<1>4. [r EXCEPT !.prs = prs, !.msgs = box, !.panic = panic] \in Node
  BY <1>1, <1>2, <1>3 DEF Node
<1> QED BY <1>4 DEF joined, prs, box, panic

LEMMA BcastAppendType == ASSUME NEW r \in Node PROVE bcastAppend(r) \in Node
<1> DEFINE each == [d \in Server |-> IF d \in r.voters \ {r.id} THEN sendAppend(r, d) ELSE r]
<1>1. each \in [Server -> Node] BY SendAppendType
<1> HIDE DEF each
<1>2. joined(r, each) \in Node BY <1>1, JoinedType
<1> QED BY <1>2 DEF bcastAppend, each

LEMMA HeartbeatMsgType ==
    ASSUME NEW r \in Node, NEW to \in Server
    PROVE  heartbeatMsg(r, to) \in Message
<1> DEFINE commit == Least(r.prs[to].Match, r.committed)
           msg == Msg("MsgHeartbeat", r.id, to)
<1>1. commit \in Nat
  <2>1. r.prs[to].Match \in Nat /\ r.committed \in Nat BY DEF Node, Progress
  <2> QED BY <2>1, LeastType
<1>2. msg \in Message BY MsgIsMessage DEF Node, MsgType
<1> HIDE DEF commit, msg
<1>3. [msg EXCEPT !.term = r.Term, !.commit = commit] \in Message
  BY <1>1, <1>2 DEF Node, Message
<1> QED BY <1>3 DEF heartbeatMsg, msg, commit

LEMMA BcastHeartbeatType == ASSUME NEW r \in Node PROVE bcastHeartbeat(r) \in Node
<1> DEFINE box == [d \in Server |-> IF d \in r.voters \ {r.id}
                                    THEN Append(r.msgs[d], heartbeatMsg(r, d)) ELSE r.msgs[d]]
<1>1. box \in [Server -> Seq(Message)]
  <2>1. \A d \in Server : r.msgs[d] \in Seq(Message) BY DEF Node
  <2>2. \A d \in Server : heartbeatMsg(r, d) \in Message BY HeartbeatMsgType
  <2>3. \A d \in Server : Append(r.msgs[d], heartbeatMsg(r, d)) \in Seq(Message)
    BY <2>1, <2>2, AppendProperties
  <2> QED BY <2>1, <2>3
<1> HIDE DEF box
<1>2. [r EXCEPT !.msgs = box] \in Node BY <1>1 DEF Node
<1> QED BY <1>2 DEF bcastHeartbeat, box

LEMMA SendTimeoutNowType ==
    ASSUME NEW r \in Node, NEW to \in Server
    PROVE  sendTimeoutNow(r, to) \in Node
<1>1. Msg("MsgTimeoutNow", r.id, to) \in Message BY MsgIsMessage DEF Node, MsgType
<1> QED BY <1>1, SendType DEF sendTimeoutNow

----------------------------------------------------------------------------
(* Roles *)

LEMMA MaybeCommitType == ASSUME NEW r \in Node PROVE maybeCommit(r) \in Node
BY CommittedType, CommitToType DEF maybeCommit

\* reset starts every peer at a positive Next.
LEMMA ResetType ==
    ASSUME NEW r \in Node, NEW term \in Nat
    PROVE  reset(r, term) \in Node
<1> DEFINE p == [d \in Server |-> resetProgress(r, d)]
<1>1. ASSUME NEW d \in Server PROVE resetProgress(r, d) \in Progress
  <2>1. Len(r.log) \in Nat /\ Len(r.log) + 1 \in Nat \ {0} BY LenProperties DEF Node
  <2> QED BY <2>1 DEF resetProgress, newProgress, Progress, ProgressState
<1>2. p \in [Server -> Progress] BY <1>1
<1> HIDE DEF p
<1>3. reset(r, term) = [r EXCEPT
        !.Term = term,
        !.Vote = IF r.Term # term THEN Nil ELSE @,
        !.lead = Nil, !.expired = FALSE, !.leadTransferee = Nil,
        !.granted = {}, !.rejected = {},
        !.prs = p]
  BY DEF reset, p
<1> DEFINE vote == IF r.Term # term THEN Nil ELSE r.Vote
           clean == [r EXCEPT !.Term = term, !.Vote = vote, !.lead = Nil, !.expired = FALSE,
                              !.leadTransferee = Nil, !.granted = {}, !.rejected = {}]
<1>4. vote \in Server \cup {Nil} BY DEF Node
<1> HIDE DEF vote
<1>5. clean \in Node BY <1>4 DEF Node
<1>6. [clean EXCEPT !.prs = p] \in Node
  <2> HIDE DEF clean
  <2> QED BY <1>2, <1>5 DEF Node
<1>7. reset(r, term) = [clean EXCEPT !.prs = p] BY <1>3 DEF vote, Node
<1> QED BY <1>6, <1>7

\* appendEntry extends the log and sends the acknowledgement to itself.
LEMMA AppendEntryType ==
    ASSUME NEW r \in Node, NEW vals \in Seq(Value \cup {Nil})
    PROVE  appendEntry(r, vals) \in Node
<1> DEFINE ents == [k \in 1..Len(vals) |-> [term |-> r.Term, val |-> vals[k]]]
           log == r.log \o ents
           index == Len(r.log) + Len(vals)
           msg == Msg("MsgAppResp", r.id, r.id)
<1>1. r.log \in Seq(Entry) /\ Len(r.log) \in Nat /\ Len(vals) \in Nat /\ r.Term \in Nat
  BY LenProperties DEF Node
<1>2. \A k \in 1..Len(vals) : [term |-> r.Term, val |-> vals[k]] \in Entry
  BY <1>1, ElementOfSeq DEF Entry
<1>3. ents \in Seq(Entry) BY <1>1, <1>2, MakeSeq
<1> HIDE DEF ents
<1>4. log \in Seq(Entry) BY <1>1, <1>3, ConcatProperties
<1>5. index \in Nat BY <1>1
<1>6. msg \in Message BY MsgIsMessage DEF Node, MsgType
<1> HIDE DEF log, index, msg
<1>7. [r EXCEPT !.log = log] \in Node BY <1>4 DEF Node
<1>8. [msg EXCEPT !.index = index] \in Message BY <1>5, <1>6 DEF Message
<1>9. send([r EXCEPT !.log = log], [msg EXCEPT !.index = index]) \in Node
  BY <1>7, <1>8, SendType
<1> QED BY <1>9 DEF appendEntry, ents, log, index, msg

LEMMA BecomeFollowerType ==
    ASSUME NEW r \in Node, NEW term \in Nat, NEW lead \in Server \cup {Nil}
    PROVE  becomeFollower(r, term, lead) \in Node
<1> DEFINE s == reset(r, term)
<1>1. s \in Node BY ResetType
<1> HIDE DEF s
<1>2. [s EXCEPT !.lead = lead, !.state = "StateFollower"] \in Node BY <1>1 DEF Node, StateType
<1> QED BY <1>2 DEF becomeFollower, s

LEMMA BecomeCandidateType == ASSUME NEW r \in Node PROVE becomeCandidate(r) \in Node
<1> DEFINE s == reset(r, r.Term + 1)
<1>1. r.Term + 1 \in Nat BY DEF Node
<1>2. s \in Node BY <1>1, ResetType
<1> HIDE DEF s
<1>3. [s EXCEPT !.Vote = r.id, !.state = "StateCandidate"] \in Node BY <1>2 DEF Node, StateType
<1> QED BY <1>3, PanicType DEF becomeCandidate, s

LEMMA BecomePreCandidateType == ASSUME NEW r \in Node PROVE becomePreCandidate(r) \in Node
<1>1. [r EXCEPT !.granted = {}, !.rejected = {}, !.lead = Nil, !.state = "StatePreCandidate"]
        \in Node
  BY DEF Node, StateType
<1> QED BY <1>1, PanicType DEF becomePreCandidate

\* A new leader replicates to itself and appends an empty entry.
LEMMA BecomeLeaderType == ASSUME NEW r \in Node PROVE becomeLeader(r) \in Node
<1> DEFINE s == reset(r, r.Term)
           pr == [BecomeReplicate(s.prs[r.id]) EXCEPT !.RecentActive = TRUE]
           led == [s EXCEPT !.prs[r.id] = pr]
<1>1. s \in Node /\ r.id \in Server BY ResetType DEF Node
<1>2. pr \in Progress
  <2>1. s.prs[r.id] \in Progress BY <1>1 DEF Node
  <2> DEFINE q == BecomeReplicate(s.prs[r.id])
  <2>2. q \in Progress BY <2>1, BecomeReplicateType
  <2> HIDE DEF q
  <2>3. [q EXCEPT !.RecentActive = TRUE] \in Progress BY <2>2 DEF Progress
  <2> QED BY <2>3 DEF q
<1> HIDE DEF s, pr
<1>3. led \in Node BY <1>1, <1>2, ProgressOf
<1> HIDE DEF led
<1> DEFINE t == [led EXCEPT !.lead = r.id, !.state = "StateLeader"]
<1>4. t \in Node BY <1>1, <1>3 DEF Node, StateType
<1>5. <<Nil>> \in Seq(Value \cup {Nil}) OBVIOUS
<1>6. appendEntry(t, <<Nil>>) \in Node BY <1>4, <1>5, AppendEntryType
<1>7. t = [s EXCEPT !.lead = r.id, !.state = "StateLeader", !.prs[r.id] = pr]
  BY <1>1 DEF t, led, Node
<1> HIDE DEF t
<1>8. becomeLeader(r) = IF r.state = "StateFollower" THEN Panic(r) ELSE appendEntry(t, <<Nil>>)
  BY <1>7 DEF becomeLeader, s, pr
<1> QED BY <1>6, <1>8, PanicType

----------------------------------------------------------------------------
(* Elections *)

\* A vote request carries the last index and term of the candidate's log.
LEMMA VoteMsgType ==
    ASSUME NEW r \in Node, NEW type \in MsgType, NEW to \in Server, NEW term \in Nat,
           NEW transfer \in BOOLEAN
    PROVE  VoteMsg(r, type, to, term, transfer) \in Message
<1> DEFINE msg == Msg(type, r.id, to)
           index == lastIndex(r.log)
           logTerm == lastTerm(r.log)
<1>1. r.id \in Server /\ r.log \in Seq(Entry) BY DEF Node
<1>2. msg \in Message BY <1>1, MsgIsMessage
<1>3. index \in Nat BY <1>1, LenProperties DEF lastIndex
<1>4. logTerm \in Nat
  <2>1. Len(r.log) \in Int BY <1>1, LenProperties
  <2> QED BY <1>1, <2>1, TermAtType DEF lastTerm
<1> HIDE DEF msg, index, logTerm
<1>5. [msg EXCEPT !.term = term, !.index = index, !.logTerm = logTerm, !.transfer = transfer]
        \in Message
  BY <1>2, <1>3, <1>4 DEF Message
<1> QED BY <1>5 DEF VoteMsg, msg, index, logTerm

LEMMA RequestVotesType ==
    ASSUME NEW r \in Node, NEW voteType \in MsgType, NEW respType \in MsgType,
           NEW term \in Nat, NEW transfer \in BOOLEAN
    PROVE  requestVotes(r, voteType, respType, term, transfer) \in Node
<1> DEFINE asked == [d \in Server |-> IF d \in r.voters \ {r.id}
                       THEN Append(r.msgs[d], VoteMsg(r, voteType, d, term, transfer))
                       ELSE r.msgs[d]]
           own == [Msg(respType, r.id, r.id) EXCEPT !.term = term]
           after == [r.after EXCEPT ![r.id] = Append(@, own)]
<1>1. r.id \in Server /\ r.after \in [Server -> Seq(Message)] BY DEF Node
<1>2. asked \in [Server -> Seq(Message)]
  <2>1. \A d \in Server : r.msgs[d] \in Seq(Message) BY DEF Node
  <2>2. \A d \in Server : VoteMsg(r, voteType, d, term, transfer) \in Message BY VoteMsgType
  <2>3. \A d \in Server : Append(r.msgs[d], VoteMsg(r, voteType, d, term, transfer))
                            \in Seq(Message)
    BY <2>1, <2>2, AppendProperties
  <2> QED BY <2>1, <2>3
<1>3. own \in Message
  <2>1. Msg(respType, r.id, r.id) \in Message BY <1>1, MsgIsMessage
  <2> QED BY <2>1 DEF Message
<1> HIDE DEF own
<1>4. after \in [Server -> Seq(Message)] BY <1>1, <1>3, Outbox
<1> HIDE DEF asked, after
<1>5. [r EXCEPT !.msgs = asked, !.after = after] \in Node BY <1>2, <1>4 DEF Node
<1> QED BY <1>5 DEF requestVotes, asked, after, own

LEMMA CampaignPreElectionType == ASSUME NEW r \in Node PROVE campaignPreElection(r) \in Node
<1> DEFINE s == becomePreCandidate(r)
<1>1. s \in Node BY BecomePreCandidateType
<1> HIDE DEF s
<1>2. s.Term \in Nat BY <1>1 DEF Node
<1>3. s.Term + 1 \in Nat BY <1>2
<1>4. requestVotes(s, "MsgPreVote", "MsgPreVoteResp", s.Term + 1, FALSE) \in Node
  BY <1>1, <1>3, RequestVotesType DEF MsgType
<1> QED BY <1>4 DEF campaignPreElection, s

LEMMA CampaignElectionType ==
    ASSUME NEW r \in Node, NEW transfer \in BOOLEAN
    PROVE  campaignElection(r, transfer) \in Node
<1> DEFINE s == becomeCandidate(r)
<1>1. s \in Node BY BecomeCandidateType
<1> HIDE DEF s
<1>2. s.Term \in Nat BY <1>1 DEF Node
<1>3. requestVotes(s, "MsgVote", "MsgVoteResp", s.Term, transfer) \in Node
  BY <1>1, <1>2, RequestVotesType DEF MsgType
<1> QED BY <1>3 DEF campaignElection, s

LEMMA HupType ==
    ASSUME NEW r \in Node, NEW transfer \in BOOLEAN
    PROVE  hup(r, transfer) \in Node
BY CampaignPreElectionType, CampaignElectionType DEF hup

LEMMA RecordVoteType ==
    ASSUME NEW r \in Node, NEW m \in Message
    PROVE  RecordVote(r, m) \in Node
<1>1. m.from \in Server BY DEF Message
<1>2. [r EXCEPT !.rejected = @ \cup {m.from}] \in Node BY <1>1 DEF Node
<1>3. [r EXCEPT !.granted = @ \cup {m.from}] \in Node BY <1>1 DEF Node
<1> QED BY <1>2, <1>3 DEF RecordVote

LEMMA HandleVoteRespType ==
    ASSUME NEW r \in Node, NEW m \in Message
    PROVE  handleVoteResp(r, m) \in Node
<1> DEFINE s == RecordVote(r, m)
<1>1. s \in Node BY RecordVoteType
<1> HIDE DEF s
<1>2. ASSUME NEW result PROVE afterPoll(s, result) \in Node
  <2>1. s.Term \in Nat BY <1>1 DEF Node
  <2> QED BY <1>1, <2>1, BecomeFollowerType, CampaignElectionType, BecomeLeaderType,
             BcastAppendType DEF afterPoll
<1> QED BY <1>2 DEF handleVoteResp, s

\* A vote is answered to the candidate, with a term.
LEMMA HandleVoteType ==
    ASSUME NEW r \in Node, NEW m \in Message
    PROVE  handleVote(r, m) \in Node
<1> DEFINE resp == Msg(voteRespMsgType(m.type), r.id, m.from)
           granting == [r EXCEPT !.Vote = m.from, !.expired = FALSE]
<1>1. r.Term \in Nat /\ m.term \in Nat /\ m.from \in Server /\ r.id \in Server
  BY DEF Node, Message
<1>2. resp \in Message BY <1>1, MsgIsMessage DEF voteRespMsgType, MsgType
<1> HIDE DEF resp
<1>3. [resp EXCEPT !.term = r.Term, !.reject = TRUE] \in Message BY <1>1, <1>2 DEF Message
<1>4. [resp EXCEPT !.term = m.term] \in Message BY <1>1, <1>2 DEF Message
<1>5. granting \in Node BY <1>1 DEF Node
<1>6. send(r, [resp EXCEPT !.term = r.Term, !.reject = TRUE]) \in Node BY <1>3, SendType
<1>7. send(r, [resp EXCEPT !.term = m.term]) \in Node BY <1>4, SendType
<1>8. send(granting, [resp EXCEPT !.term = m.term]) \in Node BY <1>4, <1>5, SendType
<1> HIDE DEF granting
<1>9. handleVote(r, m) \in {send(r, [resp EXCEPT !.term = r.Term, !.reject = TRUE]),
                            send(r, [resp EXCEPT !.term = m.term]),
                            send(granting, [resp EXCEPT !.term = m.term])}
  BY DEF handleVote, resp, granting
<1> QED BY <1>6, <1>7, <1>8, <1>9

----------------------------------------------------------------------------
(* Replication, on the follower *)

\* An append is acknowledged, or rejected with a hint.
LEMMA HandleAppendEntriesType ==
    ASSUME NEW r \in Node, NEW m \in Message
    PROVE  handleAppendEntries(r, m) \in Node
<1> DEFINE resp == Msg("MsgAppResp", r.id, m.from)
           hint == findConflictByTerm(r.log, Least(m.index, Len(r.log)), m.logTerm)
           hintTerm == TermAt(r.log, hint)
           index == m.index + Len(m.entries)
<1>1. /\ r.log \in Seq(Entry) /\ r.committed \in Nat /\ r.id \in Server
      /\ m.index \in Nat /\ m.logTerm \in Nat /\ m.commit \in Nat
      /\ m.entries \in Seq(Entry) /\ m.from \in Server
  BY DEF Node, Message
<1>2. Len(r.log) \in Nat /\ Len(m.entries) \in Nat BY <1>1, LenProperties
<1>3. resp \in Message BY <1>1, MsgIsMessage DEF MsgType
<1>4. hint \in Nat
  <2>1. Least(m.index, Len(r.log)) \in Nat BY <1>1, <1>2, LeastType
  <2> QED BY <1>1, <2>1, FindConflictByTermType
<1>5. hintTerm \in Nat
  <2> HIDE DEF hint
  <2> QED BY <1>1, <1>4, TermAtType
<1>6. index \in Nat BY <1>1, <1>2
<1> HIDE DEF resp, hint, hintTerm, index
<1>7. CASE m.index < r.committed
  <2>1. [resp EXCEPT !.index = r.committed] \in Message BY <1>1, <1>3 DEF Message
  <2>2. send(r, [resp EXCEPT !.index = r.committed]) \in Node BY <2>1, SendType
  <2> QED BY <1>7, <2>2 DEF handleAppendEntries, resp
<1>8. CASE ~(m.index < r.committed) /\ matchTerm(r.log, m.index, m.logTerm)
  <2>1. m.index <= Len(r.log) BY <1>8 DEF matchTerm
  <2>2. maybeAppend(r, m.index, m.commit, m.entries) \in Node BY <1>1, <2>1, MaybeAppendType
  <2>3. [resp EXCEPT !.index = index] \in Message BY <1>3, <1>6 DEF Message
  <2>4. send(maybeAppend(r, m.index, m.commit, m.entries), [resp EXCEPT !.index = index]) \in Node
    BY <2>2, <2>3, SendType
  <2> QED BY <1>8, <2>4 DEF handleAppendEntries, resp, index
<1>9. CASE ~(m.index < r.committed) /\ ~matchTerm(r.log, m.index, m.logTerm)
  <2> DEFINE refusal == [resp EXCEPT !.index = m.index, !.reject = TRUE, !.hint = hint,
                                     !.logTerm = hintTerm]
  <2>1. refusal \in Message BY <1>1, <1>3, <1>4, <1>5 DEF Message
  <2>2. send(r, refusal) \in Node BY <2>1, SendType
  <2> QED BY <1>9, <2>2 DEF handleAppendEntries, resp, hint, hintTerm
<1> QED BY <1>7, <1>8, <1>9

LEMMA HandleHeartbeatType ==
    ASSUME NEW r \in Node, NEW m \in Message
    PROVE  handleHeartbeat(r, m) \in Node
<1>1. m.commit \in Nat /\ m.from \in Server /\ r.id \in Server BY DEF Node, Message
<1>2. commitTo(r, m.commit) \in Node BY <1>1, CommitToType
<1>3. Msg("MsgHeartbeatResp", r.id, m.from) \in Message BY <1>1, MsgIsMessage DEF MsgType
<1> QED BY <1>2, <1>3, SendType DEF handleHeartbeat

----------------------------------------------------------------------------
(* Replication, on the leader *)

\* A peer that was heard of.
LEMMA HeardType ==
    ASSUME NEW r \in Node, NEW d \in Server
    PROVE  [r EXCEPT !.prs[d].RecentActive = TRUE] \in Node
<1> DEFINE old == r.prs[d]
           pr  == [old EXCEPT !.RecentActive = TRUE]
<1>1. pr \in Progress
  <2>1. old \in Progress BY DEF Node
  <2> HIDE DEF old
  <2> QED BY <2>1 DEF Progress
<1> HIDE DEF pr
<1>2. [r EXCEPT !.prs[d] = pr] \in Node BY <1>1, ProgressOf
<1> QED BY <1>2 DEF pr

LEMMA HandleAppRejectType ==
    ASSUME NEW r \in Node, NEW m \in Message
    PROVE  handleAppReject(r, m) \in Node
<1> DEFINE heard == [r EXCEPT !.prs[m.from].RecentActive = TRUE]
           pr == heard.prs[m.from]
           hint == rejectionHint(r, m)
           back == backOff(pr, m, hint)
           backed == [heard EXCEPT !.prs[m.from] = back]
<1>1. m.from \in Server /\ m.index \in Nat /\ m.hint \in Nat /\ m.logTerm \in Nat
  BY DEF Message
<1>2. heard \in Node BY <1>1, HeardType
<1> HIDE DEF heard
<1>3. pr \in Progress BY <1>1, <1>2 DEF Node
<1>4. hint \in Nat BY <1>1, FindConflictByTermType DEF rejectionHint, Node
<1> HIDE DEF pr, hint
<1>5. back \in Progress BY <1>1, <1>3, <1>4, MaybeDecrToType, BecomeProbeType DEF backOff
<1> HIDE DEF back
<1>6. backed \in Node BY <1>1, <1>2, <1>5, ProgressOf
<1> HIDE DEF backed
<1>7. sendAppend(backed, m.from) \in Node BY <1>1, <1>6, SendAppendType
<1>8. handleAppReject(r, m) \in {heard, sendAppend(backed, m.from)}
  BY DEF handleAppReject, heard, backed, back, pr, hint
<1> QED BY <1>2, <1>7, <1>8

\* An acknowledgement: progress, commit index, pipeline, transfer, in turn.
LEMMA HandleAppAcceptType ==
    ASSUME NEW r \in Node, NEW m \in Message
    PROVE  handleAppAccept(r, m) \in Node
<1> DEFINE from == m.from
           heard == [r EXCEPT !.prs[from].RecentActive = TRUE]
           pr == heard.prs[from]
           upd == MaybeUpdate(pr, m.index)
           ack == acknowledged(pr, m.index)
           stale == [heard EXCEPT !.prs[from] = upd]
           acked == [heard EXCEPT !.prs[from] = ack]
           told == announce(maybeCommit(acked), r.committed, from, IsPaused(r.prs[from]))
           full == refill(told, from)
<1>1. from \in Server /\ m.index \in Nat BY DEF Message
<1>2. heard \in Node BY <1>1, HeardType
<1> HIDE DEF heard
<1>3. pr \in Progress BY <1>1, <1>2 DEF Node
<1> HIDE DEF pr
<1>4. upd \in Progress BY <1>1, <1>3, MaybeUpdateType
<1>5. ack \in Progress BY <1>1, <1>3, MaybeUpdateType, BecomeReplicateType DEF acknowledged
<1> HIDE DEF upd, ack
<1>6. stale \in Node BY <1>1, <1>2, <1>4, ProgressOf
<1>7. acked \in Node BY <1>1, <1>2, <1>5, ProgressOf
<1> HIDE DEF stale, acked
<1>8. maybeCommit(acked) \in Node BY <1>7, MaybeCommitType
<1>9. told \in Node BY <1>1, <1>8, BcastAppendType, SendAppendType DEF announce
<1> HIDE DEF told
<1>10. full \in Node BY <1>1, <1>9, SendRemainingType DEF refill
<1> HIDE DEF full
<1>11. finishTransfer(full, from) \in Node BY <1>1, <1>10, SendTimeoutNowType DEF finishTransfer
<1>12. handleAppAccept(r, m) \in {stale, finishTransfer(full, from)}
  BY DEF handleAppAccept, full, told, acked, stale, ack, upd, pr, heard
<1> QED BY <1>6, <1>11, <1>12

LEMMA HandleAppRespType ==
    ASSUME NEW r \in Node, NEW m \in Message
    PROVE  handleAppResp(r, m) \in Node
BY HandleAppRejectType, HandleAppAcceptType DEF handleAppResp

LEMMA HandleHeartbeatRespType ==
    ASSUME NEW r \in Node, NEW m \in Message
    PROVE  handleHeartbeatResp(r, m) \in Node
<1> DEFINE pr == [r.prs[m.from] EXCEPT !.RecentActive = TRUE, !.MsgAppFlowPaused = FALSE]
           s == [r EXCEPT !.prs[m.from] = pr]
<1>1. m.from \in Server BY DEF Message
<1>2. pr \in Progress
  <2>1. r.prs[m.from] \in Progress BY <1>1 DEF Node
  <2> QED BY <2>1 DEF Progress
<1> HIDE DEF pr
<1>3. s \in Node BY <1>1, <1>2, ProgressOf
<1> HIDE DEF s
<1>4. sendAppend(s, m.from) \in Node BY <1>1, <1>3, SendAppendType
<1>5. s = [r EXCEPT !.prs[m.from].RecentActive = TRUE, !.prs[m.from].MsgAppFlowPaused = FALSE]
  BY <1>1 DEF s, pr, Node
<1>6. handleHeartbeatResp(r, m) \in {s, sendAppend(s, m.from)} BY <1>5 DEF handleHeartbeatResp
<1> QED BY <1>3, <1>4, <1>6

LEMMA HandleUnreachableType ==
    ASSUME NEW r \in Node, NEW from \in Server
    PROVE  handleUnreachable(r, from) \in Node
<1> DEFINE pr == BecomeProbe(r.prs[from])
<1>1. pr \in Progress BY BecomeProbeType DEF Node
<1> HIDE DEF pr
<1>2. [r EXCEPT !.prs[from] = pr] \in Node BY <1>1, ProgressOf
<1> QED BY <1>2 DEF handleUnreachable, pr

LEMMA HandleTransferLeaderType ==
    ASSUME NEW r \in Node, NEW m \in Message
    PROVE  handleTransferLeader(r, m) \in Node
<1> DEFINE s == [r EXCEPT !.leadTransferee = m.from, !.expired = FALSE]
<1>1. m.from \in Server BY DEF Message
<1>2. s \in Node BY <1>1 DEF Node
<1>3. [r EXCEPT !.leadTransferee = Nil] \in Node BY DEF Node
<1> HIDE DEF s
<1>4. sendTimeoutNow(s, m.from) \in Node BY <1>1, <1>2, SendTimeoutNowType
<1>5. sendAppend(s, m.from) \in Node BY <1>1, <1>2, SendAppendType
<1> QED BY <1>3, <1>4, <1>5 DEF handleTransferLeader, s

LEMMA HandlePropType ==
    ASSUME NEW r \in Node, NEW m \in Message
    PROVE  handleProp(r, m) \in Node
<1> DEFINE vals == [k \in 1..Len(m.entries) |-> m.entries[k].val]
<1>1. m.entries \in Seq(Entry) /\ Len(m.entries) \in Nat BY LenProperties DEF Message
<1>2. ASSUME NEW k \in 1..Len(m.entries) PROVE m.entries[k].val \in Value \cup {Nil}
  <2>1. m.entries[k] \in Entry BY <1>1, ElementOfSeq
  <2> QED BY <2>1 DEF Entry
<1>3. vals \in Seq(Value \cup {Nil}) BY <1>1, <1>2, MakeSeq
<1> HIDE DEF vals
<1>4. bcastAppend(appendEntry(r, vals)) \in Node BY <1>3, AppendEntryType, BcastAppendType
<1> QED BY <1>4 DEF handleProp, vals

----------------------------------------------------------------------------
(* Step and the ticks *)

LEMMA StepLeaderType ==
    ASSUME NEW r \in Node, NEW m \in Message
    PROVE  stepLeader(r, m) \in Node
BY HandlePropType, HandleAppRespType, HandleHeartbeatRespType, HandleTransferLeaderType
   DEF stepLeader

LEMMA StepCandidateType ==
    ASSUME NEW r \in Node, NEW m \in Message
    PROVE  stepCandidate(r, m) \in Node
<1>1. m.term \in Nat /\ m.from \in Server BY DEF Message
<1>2. becomeFollower(r, m.term, m.from) \in Node BY <1>1, BecomeFollowerType
<1>3. handleAppendEntries(becomeFollower(r, m.term, m.from), m) \in Node
  BY <1>2, HandleAppendEntriesType
<1>4. handleHeartbeat(becomeFollower(r, m.term, m.from), m) \in Node
  BY <1>2, HandleHeartbeatType
<1> QED BY <1>3, <1>4, HandleVoteRespType DEF stepCandidate

LEMMA ForwardType ==
    ASSUME NEW r \in Node, NEW m \in Message
    PROVE  forward(r, m) \in Node
<1>1. CASE r.lead = Nil BY <1>1 DEF forward
<1>2. CASE r.lead # Nil
  <2>1. r.lead \in Server BY <1>2 DEF Node
  <2>2. [m EXCEPT !.to = r.lead] \in Message BY <2>1 DEF Message
  <2>3. send(r, [m EXCEPT !.to = r.lead]) \in Node BY <2>2, SendType
  <2> QED BY <2>3, <1>2 DEF forward
<1> QED BY <1>1, <1>2

LEMMA StepFollowerType ==
    ASSUME NEW r \in Node, NEW m \in Message
    PROVE  stepFollower(r, m) \in Node
<1> DEFINE heard == [r EXCEPT !.expired = FALSE, !.lead = m.from]
<1>1. heard \in Node BY DEF Node, Message
<1> HIDE DEF heard
<1>2. handleAppendEntries(heard, m) \in Node BY <1>1, HandleAppendEntriesType
<1>3. handleHeartbeat(heard, m) \in Node BY <1>1, HandleHeartbeatType
<1>4. hup(r, TRUE) \in Node BY HupType
<1> QED BY <1>2, <1>3, <1>4, ForwardType DEF stepFollower, heard

LEMMA StepRoleType ==
    ASSUME NEW r \in Node, NEW m \in Message
    PROVE  stepRole(r, m) \in Node
BY HandleVoteType, StepLeaderType, StepFollowerType, StepCandidateType DEF stepRole

\* Step keeps a server's record whole, whatever message it is given.
LEMMA StepType ==
    ASSUME NEW r \in Node, NEW m \in Message
    PROVE  Step(r, m) \in Node
<1>1. r.Term \in Nat /\ r.id \in Server /\ m.term \in Nat /\ m.from \in Server
  BY DEF Node, Message
<1>2. stepLowerTerm(r, m) \in Node
  <2> DEFINE resp == Msg("MsgPreVoteResp", r.id, m.from)
  <2>1. Msg("MsgAppResp", r.id, m.from) \in Message BY <1>1, MsgIsMessage DEF MsgType
  <2>2. resp \in Message BY <1>1, MsgIsMessage DEF MsgType
  <2> HIDE DEF resp
  <2>3. [resp EXCEPT !.term = r.Term, !.reject = TRUE] \in Message BY <1>1, <2>2 DEF Message
  <2>4. send(r, [resp EXCEPT !.term = r.Term, !.reject = TRUE]) \in Node BY <2>3, SendType
  <2>5. send(r, Msg("MsgAppResp", r.id, m.from)) \in Node BY <2>1, SendType
  <2> QED BY <2>4, <2>5 DEF stepLowerTerm, resp
<1>3. adoptTerm(r, m) \in Node BY <1>1, BecomeFollowerType DEF adoptTerm
<1> QED BY <1>2, <1>3, StepRoleType DEF Step

LEMMA TickElectionType ==
    ASSUME NEW r \in Node, NEW past \in BOOLEAN
    PROVE  tickElection(r, past) \in Node
<1>1. [r EXCEPT !.expired = FALSE] \in Node BY DEF Node
<1>2. [r EXCEPT !.expired = TRUE] \in Node BY DEF Node
<1> QED BY <1>1, <1>2, HupType DEF tickElection

LEMMA CheckQuorumType == ASSUME NEW r \in Node PROVE checkQuorum(r) \in Node
<1> DEFINE s == IF QuorumActive(r) THEN r ELSE becomeFollower(r, r.Term, Nil)
           quiet(d) == [s.prs[d] EXCEPT !.RecentActive = FALSE]
           prs == [d \in Server |-> IF d = r.id THEN s.prs[d] ELSE quiet(d)]
<1>1. s \in Node
  <2>1. r.Term \in Nat BY DEF Node
  <2> QED BY <2>1, BecomeFollowerType
<1> HIDE DEF s
<1>2. \A d \in Server : s.prs[d] \in Progress BY <1>1 DEF Node
<1>3. \A d \in Server : quiet(d) \in Progress BY <1>2 DEF Progress
<1> HIDE DEF quiet
<1>4. prs \in [Server -> Progress] BY <1>2, <1>3
<1> HIDE DEF prs
<1>5. [s EXCEPT !.prs = prs] \in Node BY <1>1, <1>4 DEF Node
<1> QED BY <1>5 DEF checkQuorum, prs, quiet, s

LEMMA TickHeartbeatType ==
    ASSUME NEW r \in Node, NEW timedOut \in BOOLEAN, NEW beat \in BOOLEAN
    PROVE  tickHeartbeat(r, timedOut, beat) \in Node
<1> DEFINE s == IF timedOut /\ CheckQuorum THEN checkQuorum(r) ELSE r
           t == IF timedOut /\ s.state = "StateLeader" THEN [s EXCEPT !.leadTransferee = Nil] ELSE s
<1>1. s \in Node BY CheckQuorumType
<1> HIDE DEF s
<1>2. t \in Node BY <1>1 DEF Node
<1> HIDE DEF t
<1>3. bcastHeartbeat(t) \in Node BY <1>2, BcastHeartbeatType
<1> QED BY <1>2, <1>3 DEF tickHeartbeat, t, s

----------------------------------------------------------------------------
(* Starting, and the Ready cycle *)

\* A server starts from a hard state and a log, whatever they are.
LEMMA NewRaftType ==
    ASSUME NEW i \in Server, NEW voters \in SUBSET Server, NEW log \in Seq(Entry),
           NEW hs \in [Term : Nat, Vote : Server \cup {Nil}, Commit : Nat]
    PROVE  newRaft(i, voters, hs, log) \in Node
<1> DEFINE prs == [d \in Server |-> newProgress]
           box == [d \in Server |-> <<>>]
           beyond == hs.Commit > Len(log)
<1>1. prs \in [Server -> Progress] BY DEF newProgress, Progress, ProgressState
<1>2. box \in [Server -> Seq(Message)] BY EmptySeq
<1>3. beyond \in BOOLEAN OBVIOUS
<1>4. <<>> \in Seq(Message) BY EmptySeq
<1> HIDE DEF prs, box, beyond
<1>5. restored(i, voters, hs, log) \in Node
  BY <1>1, <1>2, <1>3, <1>4 DEF restored, prs, box, beyond, Node, StateType
<1> QED BY <1>5, ResetType DEF newRaft

\* A Ready hands over messages.
LEMMA ReadyMessagesType == ASSUME NEW r \in Node PROVE readyMessages(r) \in SUBSET Message
<1>1. SUFFICES ASSUME NEW m \in readyMessages(r) PROVE m \in Message OBVIOUS
<1>2. PICK d \in Server : m \in Range(r.msgs[d]) \cup Range(r.after[d])
  BY <1>1 DEF readyMessages
<1>3. r.msgs[d] \in Seq(Message) /\ r.after[d] \in Seq(Message) BY DEF Node
<1>4. PICK box \in Seq(Message) : m \in Range(box) BY <1>2, <1>3
<1>5. PICK k \in DOMAIN box : m = box[k] BY <1>4 DEF Range
<1> QED BY <1>4, <1>5, LenProperties, ElementOfSeq

LEMMA AcceptReadyType == ASSUME NEW r \in Node PROVE acceptReady(r) \in Node
<1> DEFINE box == [d \in Server |-> <<>>]
           own == r.after[r.id]
<1>1. box \in [Server -> Seq(Message)] BY EmptySeq
<1>2. own \in Seq(Message) BY DEF Node
<1> HIDE DEF box, own
<1>3. [r EXCEPT !.msgs = box, !.after = box, !.steps = own] \in Node BY <1>1, <1>2 DEF Node
<1> QED BY <1>3 DEF acceptReady, box, own

LEMMA AdvanceOneType ==
    ASSUME NEW r \in Node, r.steps # <<>>
    PROVE  advanceOne(r) \in Node
<1> DEFINE rest == Tail(r.steps)
<1>1. r.steps \in Seq(Message) BY DEF Node
<1>2. rest \in Seq(Message) /\ Head(r.steps) \in Message BY <1>1, HeadTailProperties
<1> HIDE DEF rest
<1>3. [r EXCEPT !.steps = rest] \in Node BY <1>2 DEF Node
<1> QED BY <1>2, <1>3, StepType DEF advanceOne, rest

----------------------------------------------------------------------------
(* The types of the group *)

\* What a server shows as its hard state is one.
LEMMA HardStateType == ASSUME NEW r \in Node PROVE hardState(r) \in HardState
BY DEF hardState, HardState, Node

\* A Ready written to a disk leaves a disk.
LEMMA WrittenType ==
    ASSUME NEW d \in Disk, NEW r \in Node
    PROVE  Written(d, r) \in Disk
<1>1. hardState(r) \in HardState BY HardStateType
<1>2. r.committed \in Nat /\ r.log \in Seq(Entry) BY DEF Node
<1> QED BY <1>1, <1>2 DEF Written, Disk

\* A Ready and one step of Advance leave a server's record whole.
LEMMA TurnType == ASSUME NEW r \in Node PROVE Turn(r) \in Node
<1> DEFINE a == acceptReady(r)
<1>1. a \in Node BY AcceptReadyType
<1> HIDE DEF a
<1>2. a.steps # <<>> => advanceOne(a) \in Node BY <1>1, AdvanceOneType
<1> QED BY <1>1, <1>2 DEF Turn, a

\* An input that takes server i to the record r keeps the types, with or
\* without its Ready.
LEMMA MovesType ==
    ASSUME TypeOK, NEW i \in Server, NEW r \in Node, Moves(i, r)
    PROVE  /\ node' \in [Server -> Node]
           /\ disk' \in [Server -> Disk]
           /\ net' \in SUBSET Message
<1>1. CASE MaxPending > 0 \/ r.panic BY <1>1 DEF Moves, TypeOK
<1>2. CASE ~(MaxPending > 0 \/ r.panic)
  <2>1. Turn(r) \in Node BY TurnType
  <2>2. Written(disk[i], r) \in Disk BY WrittenType DEF TypeOK
  <2>3. readyMessages(r) \in SUBSET Message BY ReadyMessagesType
  <2> QED BY <1>2, <2>1, <2>2, <2>3 DEF Moves, TypeOK
<1> QED BY <1>1, <1>2

\* Counting an event keeps the counters.
LEMMA CountType ==
    ASSUME TypeOK, NEW e \in Event, NEW max, Count(e, max)
    PROVE  used' \in [Event -> Nat]
<1>1. used[e] + 1 \in Nat BY DEF TypeOK
<1> QED BY <1>1 DEF Count, TypeOK

\* A restart makes a server out of what a disk holds.
LEMMA RestartType ==
    ASSUME TypeOK, NEW i \in Server, NEW d \in Disk, RestartFrom(i, d)
    PROVE  /\ node' \in [Server -> Node]
           /\ disk' \in [Server -> Disk]
           /\ used' \in [Event -> Nat]
<1>1. PICK c \in d.synced..d.hs.Commit :
        LET hs == [d.hs EXCEPT !.Commit = c]
        IN  /\ disk' = [disk EXCEPT ![i] = [hs |-> hs, log |-> d.log, synced |-> c]]
            /\ node' = [node EXCEPT ![i] = newRaft(i, Server, hs, d.log)]
  BY DEF RestartFrom
<1> DEFINE hs == [d.hs EXCEPT !.Commit = c]
           e == [hs |-> hs, log |-> d.log, synced |-> c]
<1>2. c \in Nat /\ d.log \in Seq(Entry) /\ d.hs \in HardState BY DEF Disk, HardState
<1>3. hs \in HardState BY <1>2 DEF HardState
<1> HIDE DEF hs
<1>4. e \in Disk BY <1>2, <1>3 DEF Disk
<1>5. newRaft(i, Server, hs, d.log) \in Node BY <1>2, <1>3, NewRaftType DEF HardState
<1>6. used' \in [Event -> Nat] BY CountType DEF RestartFrom, Event
<1> QED BY <1>1, <1>4, <1>5, <1>6 DEF TypeOK, hs

\* TypeOK holds initially.
LEMMA InitType == Init => TypeOK
<1> SUFFICES ASSUME Init PROVE TypeOK OBVIOUS
<1>1. InitialHardState \in HardState BY DEF InitialHardState, HardState
<1>2. <<>> \in Seq(Entry) BY EmptySeq
<1>3. \A i \in Server : newRaft(i, Server, InitialHardState, <<>>) \in Node
  BY <1>1, <1>2, NewRaftType DEF HardState
<1>4. [hs |-> InitialHardState, log |-> <<>>, synced |-> 0] \in Disk BY <1>1, <1>2 DEF Disk
<1> QED BY <1>3, <1>4 DEF Init, TypeOK

\* Every action keeps TypeOK.
LEMMA NextType == TypeOK /\ [Next]_vars => TypeOK'
<1> SUFFICES ASSUME TypeOK, [Next]_vars PROVE TypeOK' OBVIOUS
<1>1. CASE UNCHANGED vars BY <1>1 DEF TypeOK, vars
<1>2. ASSUME NEW i \in Server,
             \/ Tick(i) \/ LocalCall(i) \/ ReceiveAny(i)
             \/ Ready(i) \/ Advance(i) \/ Restart(i) \/ CrashInReady(i)
      PROVE  TypeOK'
  <2>0. node[i] \in Node /\ disk[i] \in Disk BY DEF TypeOK
  <2>1. CASE TickElection(i)
    <3>1. tickElection(node[i], TRUE) \in Node BY <2>0, TickElectionType
    <3> QED BY <2>1, <3>1, MovesType, CountType DEF TickElection, TypeOK, Event
  <2>2. CASE TickLease(i)
    <3>1. tickElection(node[i], FALSE) \in Node BY <2>0, TickElectionType
    <3> QED BY <2>2, <3>1, MovesType, CountType DEF TickLease, TypeOK, Event
  <2>3. CASE TickBeat(i)
    <3>1. tickHeartbeat(node[i], FALSE, TRUE) \in Node BY <2>0, TickHeartbeatType
    <3> QED BY <2>3, <3>1, MovesType, CountType DEF TickBeat, TypeOK, Event
  <2>4. CASE TickQuorum(i)
    <3>1. tickHeartbeat(node[i], TRUE, FALSE) \in Node BY <2>0, TickHeartbeatType
    <3> QED BY <2>4, <3>1, MovesType, CountType DEF TickQuorum, TypeOK, Event
  <2>5. CASE Propose(i)
    <3>1. PICK v \in Value :
            Moves(i, Step(node[i], [Msg("MsgProp", i, i) EXCEPT
                                      !.entries = <<[term |-> 0, val |-> v]>>]))
      BY <2>5 DEF Propose
    <3> DEFINE ents == <<[term |-> 0, val |-> v]>>
               msg == Msg("MsgProp", i, i)
    <3>2. ents \in Seq(Entry) BY DEF Entry
    <3>3. msg \in Message BY MsgIsMessage DEF MsgType
    <3> HIDE DEF ents, msg
    <3>4. [msg EXCEPT !.entries = ents] \in Message BY <3>2, <3>3 DEF Message
    <3>5. Step(node[i], [msg EXCEPT !.entries = ents]) \in Node BY <2>0, <3>4, StepType
    <3>6. Moves(i, Step(node[i], [msg EXCEPT !.entries = ents])) BY <3>1 DEF ents, msg
    <3>7. used' \in [Event -> Nat] BY <2>5, CountType DEF Propose, Event
    <3> QED BY <3>5, <3>6, <3>7, MovesType DEF TypeOK
  <2>6. CASE TransferLeader(i)
    <3>1. PICK to \in Server : Moves(i, Step(node[i], Msg("MsgTransferLeader", to, i)))
      BY <2>6 DEF TransferLeader
    <3>2. Msg("MsgTransferLeader", to, i) \in Message BY MsgIsMessage DEF MsgType
    <3>3. Step(node[i], Msg("MsgTransferLeader", to, i)) \in Node BY <2>0, <3>2, StepType
    <3>4. used' \in [Event -> Nat] BY <2>6, CountType DEF TransferLeader, Event
    <3> QED BY <3>1, <3>3, <3>4, MovesType DEF TypeOK
  <2>7. CASE ReportUnreachable(i)
    <3>1. PICK id \in Server \ {i} : Moves(i, handleUnreachable(node[i], id))
      BY <2>7 DEF ReportUnreachable
    <3>2. handleUnreachable(node[i], id) \in Node BY <2>0, HandleUnreachableType
    <3>3. used' \in [Event -> Nat] BY <2>7, CountType DEF ReportUnreachable, Event
    <3> QED BY <3>1, <3>2, <3>3, MovesType DEF TypeOK
  <2>8. ASSUME NEW types, Receive(i, types) PROVE TypeOK'
    <3>1. PICK m \in net : Moves(i, Step(node[i], m)) BY <2>8 DEF Receive
    <3>2. m \in Message BY <3>1 DEF TypeOK
    <3>3. Step(node[i], m) \in Node BY <2>0, <3>2, StepType
    <3>4. used' = used BY <2>8 DEF Receive
    <3> QED BY <3>1, <3>3, <3>4, MovesType DEF TypeOK
  <2>9. CASE ReceiveAny(i)
    BY <2>8, <2>9 DEF ReceiveAny, ReceiveVote, ReceiveVoteResp, ReceiveApp, ReceiveAppResp,
       ReceiveHeartbeat, ReceiveHeartbeatResp, ReceiveTransferLeader, ReceiveProp,
       ReceiveTimeoutNow
  <2>10. CASE Ready(i)
    <3>1. acceptReady(node[i]) \in Node BY <2>0, AcceptReadyType
    <3>2. Written(disk[i], node[i]) \in Disk BY <2>0, WrittenType
    <3>3. readyMessages(node[i]) \in SUBSET Message BY <2>0, ReadyMessagesType
    <3> QED BY <2>10, <3>1, <3>2, <3>3 DEF Ready, TypeOK
  <2>11. CASE Advance(i)
    <3>1. advanceOne(node[i]) \in Node BY <2>0, <2>11, AdvanceOneType DEF Advance
    <3> QED BY <2>11, <3>1 DEF Advance, TypeOK
  <2>12. CASE Restart(i)
    BY <2>0, <2>12, RestartType DEF Restart, TypeOK
  <2>13. CASE CrashInReady(i)
    <3> DEFINE hs == hardState(node[i])
               log == node[i].log
    <3>1. hs \in HardState /\ log \in Seq(Entry) BY <2>0, HardStateType DEF Node
    <3> HIDE DEF hs, log
    <3>2. [disk[i] EXCEPT !.log = log] \in Disk BY <2>0, <3>1 DEF Disk
    <3>3. [disk[i] EXCEPT !.hs = hs] \in Disk BY <2>0, <3>1 DEF Disk
    <3>4. \/ RestartFrom(i, [disk[i] EXCEPT !.log = log])
          \/ RestartFrom(i, [disk[i] EXCEPT !.hs = hs])
      BY <2>13 DEF CrashInReady, hs, log
    <3>5. net' \in SUBSET Message BY <2>13 DEF CrashInReady, TypeOK
    <3> QED BY <3>2, <3>3, <3>4, <3>5, RestartType DEF TypeOK
  <2> QED BY <1>2, <2>1, <2>2, <2>3, <2>4, <2>5, <2>6, <2>7, <2>9, <2>10, <2>11, <2>12, <2>13
          DEF Tick, LocalCall
<1> QED BY <1>1, <1>2 DEF Next

\* In every reachable state the servers' records, their disks, the messages and
\* the counters are what RaftCluster declares: no handler reads an entry that
\* is not there, lets Next drop to 0, or answers a server that is none.
THEOREM TypeCorrect == Spec => []TypeOK
<1>1. Init => TypeOK BY InitType
<1>2. TypeOK /\ [Next]_vars => TypeOK' BY NextType
<1> QED BY <1>1, <1>2, PTL DEF Spec

----------------------------------------------------------------------------
(* What an operator may do to the vote *)

\* A message that asks for no vote, gives none, and carries a leader's term if
\* it comes from one.
Plain(m) == m.type # "MsgVote" /\ ~Granted(m) /\ Stamped(m)

\* From r to s nothing happened to the vote.
Quiet(r, s) ==
    /\ s.id = r.id /\ s.voters = r.voters /\ s.steps = r.steps
    /\ s.Term = r.Term /\ s.Vote = r.Vote /\ s.state = r.state /\ s.granted = r.granted
    /\ \A m \in Boxes(s) : m \in Boxes(r) \/ Plain(m)

\* From r to s at most one vote was given, and is recorded.
BallotStep(r, s) ==
    /\ s.id = r.id /\ s.voters = r.voters /\ s.steps = r.steps
    /\ s.Term >= r.Term
    /\ s.Term = r.Term /\ r.Vote # Nil => s.Vote = r.Vote
    /\ \A m \in Boxes(s) :
         \/ m \in Boxes(r)
         \/ Stamped(m) /\ (Granted(m) => m.from = s.id /\ m.term = s.Term /\ m.to = s.Vote)

LEMMA QuietRefl == ASSUME NEW r PROVE Quiet(r, r)
BY DEF Quiet

LEMMA QuietTrans ==
    ASSUME NEW r, NEW s, NEW t, Quiet(r, s), Quiet(s, t)
    PROVE  Quiet(r, t)
BY DEF Quiet

LEMMA QuietIsBallot ==
    ASSUME NEW r \in Node, NEW s, Quiet(r, s)
    PROVE  BallotStep(r, s)
<1>1. r.Term \in Nat BY DEF Node
<1> QED BY <1>1 DEF Quiet, BallotStep, Plain

\* A term is adopted before the vote is given, never after.
LEMMA AdoptThenBallot ==
    ASSUME NEW r \in Node, NEW s \in Node, NEW t \in Node,
           BallotStep(r, s), Boxes(s) \subseteq Boxes(r), BallotStep(s, t)
    PROVE  BallotStep(r, t)
<1>1. r.Term \in Nat /\ s.Term \in Nat /\ t.Term \in Nat BY DEF Node
<1> QED BY <1>1 DEF BallotStep

LEMMA BallotThenQuiet ==
    ASSUME NEW r, NEW s, NEW t, BallotStep(r, s), Quiet(s, t)
    PROVE  BallotStep(r, t)
BY DEF BallotStep, Quiet, Plain

LEMMA QuietKeepsEvidence ==
    ASSUME NEW r, NEW s, NEW N, Evidence(r, N), Quiet(r, s)
    PROVE  Evidence(s, N)
BY DEF Evidence, Quiet

LEMMA NoRoleNoEvidence ==
    ASSUME NEW s, NEW N, s.state \in {"StateFollower", "StatePreCandidate"}
    PROVE  Evidence(s, N)
BY DEF Evidence

LEMMA MoreEvidence ==
    ASSUME NEW r, NEW N, NEW M, Evidence(r, N), N \subseteq M
    PROVE  Evidence(r, M)
<1>1. \A j, i, t : Backed(N, j, i, t) => Backed(M, j, i, t) BY DEF Backed
<1> QED BY <1>1 DEF Evidence

\* With the same outboxes and vote, it is quiet.
LEMMA SameBoxes ==
    ASSUME NEW r, NEW s, s.msgs = r.msgs, s.after = r.after
    PROVE  Boxes(s) = Boxes(r)
BY DEF Boxes

----------------------------------------------------------------------------
(* Sending *)

\* The message as it leaves send().
Outgoing(r, m) ==
    IF m.type \in VoteTypes \cup {"MsgProp"} THEN m ELSE [m EXCEPT !.term = r.Term]

\* An outbox with one more message.
LEMMA RangeAppend ==
    ASSUME NEW box \in Seq(Message), NEW q \in Message, NEW m \in Range(Append(box, q))
    PROVE  m \in Range(box) \/ m = q
<1>1. Append(box, q) \in Seq(Message) /\ Len(Append(box, q)) = Len(box) + 1
      /\ (\A k \in 1..Len(box) : Append(box, q)[k] = box[k])
      /\ Append(box, q)[Len(box) + 1] = q
  BY AppendProperties
<1>2. Range(Append(box, q)) = {Append(box, q)[k] : k \in 1..Len(Append(box, q))}
  BY <1>1, RangeEquality
<1>3. Range(box) = {box[k] : k \in 1..Len(box)} BY RangeEquality
<1>4. PICK k \in 1..Len(Append(box, q)) : m = Append(box, q)[k] BY <1>2
<1>5. Len(box) \in Nat BY LenProperties
<1>6. CASE k = Len(box) + 1 BY <1>1, <1>4, <1>6
<1>7. CASE k # Len(box) + 1
  <2>1. k \in 1..Len(box) BY <1>1, <1>5, <1>7
  <2> QED BY <1>1, <1>3, <1>4, <2>1
<1> QED BY <1>6, <1>7

\* send adds at most the outgoing message, and else only panics.
LEMMA SendBoxes ==
    ASSUME NEW r \in Node, NEW m \in Message
    PROVE  LET s == send(r, m)
           IN  /\ s.id = r.id /\ s.voters = r.voters /\ s.steps = r.steps
               /\ s.Term = r.Term /\ s.Vote = r.Vote /\ s.state = r.state
               /\ s.granted = r.granted
               /\ \A n \in Boxes(s) : n \in Boxes(r) \/ n = Outgoing(r, m)
<1> DEFINE q == Outgoing(r, m)
           to == m.to
           s == send(r, m)
<1>1. q \in Message /\ to \in Server
  <2>1. [m EXCEPT !.term = r.Term] \in Message BY DEF Node, Message
  <2> QED BY <2>1 DEF Outgoing, Message
<1>2. r.msgs \in [Server -> Seq(Message)] /\ r.after \in [Server -> Seq(Message)] BY DEF Node
<1>3. s \in {[r EXCEPT !.after[to] = Append(@, q)], [r EXCEPT !.msgs[to] = Append(@, q)], Panic(r)}
  BY DEF send, Outgoing
<1> HIDE DEF q, to, s
<1>4. \/ s.after = [r.after EXCEPT ![to] = Append(@, q)] /\ s.msgs = r.msgs
      \/ s.after = r.after /\ s.msgs = [r.msgs EXCEPT ![to] = Append(@, q)]
      \/ s.after = r.after /\ s.msgs = r.msgs
  BY <1>3 DEF Node, Panic
<1>5. ASSUME NEW n \in Boxes(s) PROVE n \in Boxes(r) \/ n = q
  <2>1. PICK d \in Server : n \in Range(s.msgs[d]) \/ n \in Range(s.after[d])
    BY <1>5 DEF Boxes
  <2>2. \A box \in Seq(Message) : n \in Range(Append(box, q)) => n \in Range(box) \/ n = q
    BY <1>1, RangeAppend
  <2>3. n \in Range(r.msgs[d]) \/ n \in Range(r.after[d]) \/ n = q
    BY <1>1, <1>2, <1>4, <2>1, <2>2
  <2> QED BY <2>3 DEF Boxes
<1>6. /\ s.id = r.id /\ s.voters = r.voters /\ s.steps = r.steps
      /\ s.Term = r.Term /\ s.Vote = r.Vote /\ s.state = r.state /\ s.granted = r.granted
  BY <1>3 DEF Node, Panic
<1> QED BY <1>5, <1>6 DEF s, q

LEMMA SendQuiet ==
    ASSUME NEW r \in Node, NEW m \in Message, Plain(Outgoing(r, m))
    PROVE  Quiet(r, send(r, m))
BY SendBoxes DEF Quiet

\* send() is quiet for all but requests and grants of votes; a MsgApp or a
\* heartbeat needs a sender whose term is not 0.
LEMMA SendPlain ==
    ASSUME NEW r \in Node, NEW m \in Message, m.type # "MsgVote", ~Granted(m),
           m.type \in {"MsgApp", "MsgHeartbeat"} => r.Term > 0
    PROVE  Quiet(r, send(r, m))
<1>1. Plain(Outgoing(r, m)) BY DEF Plain, Outgoing, Granted, Stamped, VoteTypes, Message
<1> QED BY <1>1, SendQuiet

----------------------------------------------------------------------------
(* Operators that are quiet *)

LEMMA PanicQuiet == ASSUME NEW r \in Node PROVE Quiet(r, Panic(r))
<1>1. Panic(r).msgs = r.msgs /\ Panic(r).after = r.after BY DEF Panic, Node
<1>2. Boxes(Panic(r)) = Boxes(r) BY <1>1, SameBoxes
<1> QED BY <1>2 DEF Panic, Quiet, Node

LEMMA ProgressQuiet ==
    ASSUME NEW r \in Node, NEW d \in Server, NEW pr
    PROVE  Quiet(r, [r EXCEPT !.prs[d] = pr])
<1> DEFINE s == [r EXCEPT !.prs[d] = pr]
<1>1. s.msgs = r.msgs /\ s.after = r.after BY DEF Node
<1>2. Boxes(s) = Boxes(r) BY <1>1, SameBoxes
<1> QED BY <1>2 DEF Quiet, Node

LEMMA CommitToQuiet ==
    ASSUME NEW r \in Node, NEW tocommit \in Nat
    PROVE  Quiet(r, commitTo(r, tocommit))
<1> DEFINE s == [r EXCEPT !.committed = tocommit]
<1>1. s.msgs = r.msgs /\ s.after = r.after BY DEF Node
<1>2. Boxes(s) = Boxes(r) BY <1>1, SameBoxes
<1>3. Quiet(r, s) BY <1>2 DEF Quiet, Node
<1> QED BY <1>3, PanicQuiet, QuietRefl DEF commitTo

LEMMA MaybeCommitQuiet == ASSUME NEW r \in Node PROVE Quiet(r, maybeCommit(r))
BY CommittedType, CommitToQuiet, QuietRefl DEF maybeCommit

\* maybeAppend changes the log and the commit index only.
LEMMA MaybeAppendQuiet ==
    ASSUME NEW r \in Node, NEW index \in Nat, NEW committed \in Nat,
           NEW ents \in Seq(Entry), index <= Len(r.log)
    PROVE  Quiet(r, maybeAppend(r, index, committed, ents))
<1> DEFINE s == maybeAppend(r, index, committed, ents)
           ci == findConflict(r.log, index, ents)
           log == SubSeq(r.log, 1, ci - 1) \o SubSeq(ents, ci - index, Len(ents))
           cut == [r EXCEPT !.log = log]
           appended == IF ci = 0 THEN r ELSE IF ci <= r.committed THEN Panic(r) ELSE cut
           upto == Least(committed, index + Len(ents))
<1> HIDE DEF log
<1>1. cut.msgs = r.msgs /\ cut.after = r.after BY DEF Node
<1>2. Boxes(cut) = Boxes(r) BY <1>1, SameBoxes
<1>3. Quiet(r, cut) BY <1>2 DEF Quiet, Node
<1>4. Quiet(r, appended) BY <1>3, PanicQuiet, QuietRefl
<1>5. s = commitTo(appended, upto) BY DEF maybeAppend, log
<1>6. Quiet(appended, s)
  <2> HIDE DEF appended, upto
  <2>1. appended.msgs = s.msgs /\ appended.after = s.after /\ s.id = appended.id
        /\ s.voters = appended.voters /\ s.steps = appended.steps /\ s.Term = appended.Term
        /\ s.Vote = appended.Vote /\ s.state = appended.state /\ s.granted = appended.granted
    BY <1>5 DEF commitTo, Panic
  <2>2. Boxes(s) = Boxes(appended) BY <2>1, SameBoxes
  <2> QED BY <2>1, <2>2 DEF Quiet
<1> QED BY <1>4, <1>6, QuietTrans

LEMMA SendAppQuiet ==
    ASSUME NEW r \in Node, NEW m \in Message, m.type = "MsgApp", r.Term > 0
    PROVE  Quiet(r, sendApp(r, m))
<1> DEFINE to == m.to
           pr == r.prs[to]
           n == Len(m.entries)
           sent == UpdateOnEntriesSend(pr, n, pr.Next)
           s == [r EXCEPT !.prs[to] = sent]
<1>1. to \in Server /\ n \in Nat BY LenProperties DEF Message
<1>2. sent \in Progress BY <1>1, UpdateOnEntriesSendType DEF Node
<1> HIDE DEF sent, to
<1>3. s \in Node /\ Quiet(r, s) BY <1>1, <1>2, ProgressOf, ProgressQuiet
<1>4. sendApp(r, m) = send(s, m) BY DEF sendApp, sent, to
<1>5. s.Term > 0 BY <1>3 DEF Quiet
<1> HIDE DEF s
<1>6. Quiet(s, send(s, m)) BY <1>3, <1>5, SendPlain DEF Granted
<1> QED BY <1>3, <1>4, <1>6, QuietTrans

LEMMA MaybeSendAppendQuiet ==
    ASSUME NEW r \in Node, NEW to \in Server, NEW sendIfEmpty \in BOOLEAN, r.Term > 0
    PROVE  Quiet(r, maybeSendAppend(r, to, sendIfEmpty))
<1> DEFINE m == AppMsg(r, to, r.prs[to].Next)
<1>1. r.prs[to].Next \in Nat \ {0} BY DEF Node, Progress
<1>2. m \in Message BY <1>1, AppMsgType
<1>3. m.type = "MsgApp" BY DEF AppMsg, Msg
<1> HIDE DEF m
<1>4. Quiet(r, sendApp(r, m)) BY <1>2, <1>3, SendAppQuiet
<1> QED BY <1>4, PanicQuiet, QuietRefl DEF maybeSendAppend, m

LEMMA SendAppendQuiet ==
    ASSUME NEW r \in Node, NEW to \in Server, r.Term > 0
    PROVE  Quiet(r, sendAppend(r, to))
BY MaybeSendAppendQuiet DEF sendAppend

\* A broadcast is quiet if serving each peer is.
LEMMA JoinedQuiet ==
    ASSUME NEW r \in Node, NEW each \in [Server -> Node], \A d \in Server : Quiet(r, each[d])
    PROVE  Quiet(r, joined(r, each))
<1> DEFINE s == joined(r, each)
<1>1. s.after = r.after /\ \A d \in Server : s.msgs[d] = each[d].msgs[d]
  BY DEF joined, Node
<1>2. /\ s.id = r.id /\ s.voters = r.voters /\ s.steps = r.steps
      /\ s.Term = r.Term /\ s.Vote = r.Vote /\ s.state = r.state /\ s.granted = r.granted
  BY DEF joined, Node
<1> HIDE DEF s
<1>3. ASSUME NEW m \in Boxes(s) PROVE m \in Boxes(r) \/ Plain(m)
  <2>1. PICK d \in Server : m \in Range(s.msgs[d]) \/ m \in Range(s.after[d])
    BY <1>3 DEF Boxes
  <2>2. CASE m \in Range(s.msgs[d])
    <3>1. m \in Boxes(each[d]) BY <1>1, <2>2 DEF Boxes
    <3> QED BY <3>1 DEF Quiet
  <2>3. CASE m \in Range(s.after[d]) BY <1>1, <2>3 DEF Boxes
  <2> QED BY <2>1, <2>2, <2>3
<1> QED BY <1>2, <1>3 DEF Quiet, s

LEMMA BcastAppendQuiet ==
    ASSUME NEW r \in Node, r.Term > 0 PROVE Quiet(r, bcastAppend(r))
<1> DEFINE each == [d \in Server |-> IF d \in r.voters \ {r.id} THEN sendAppend(r, d) ELSE r]
<1>1. each \in [Server -> Node] BY SendAppendType
<1>2. \A d \in Server : Quiet(r, each[d]) BY SendAppendQuiet, QuietRefl
<1> HIDE DEF each
<1>3. Quiet(r, joined(r, each)) BY <1>1, <1>2, JoinedQuiet
<1> QED BY <1>3 DEF bcastAppend, each

LEMMA BcastHeartbeatQuiet ==
    ASSUME NEW r \in Node, r.Term > 0 PROVE Quiet(r, bcastHeartbeat(r))
<1> DEFINE s == bcastHeartbeat(r)
<1>1. /\ s.id = r.id /\ s.voters = r.voters /\ s.steps = r.steps /\ s.after = r.after
      /\ s.Term = r.Term /\ s.Vote = r.Vote /\ s.state = r.state /\ s.granted = r.granted
      /\ \A d \in Server : s.msgs[d] = IF d \in r.voters \ {r.id}
                                       THEN Append(r.msgs[d], heartbeatMsg(r, d)) ELSE r.msgs[d]
  BY DEF bcastHeartbeat, Node
<1> HIDE DEF s
<1>2. ASSUME NEW d \in Server PROVE heartbeatMsg(r, d) \in Message /\ Plain(heartbeatMsg(r, d))
  <2>1. heartbeatMsg(r, d) \in Message BY HeartbeatMsgType
  <2>2. heartbeatMsg(r, d).type = "MsgHeartbeat" /\ heartbeatMsg(r, d).term = r.Term
    BY DEF heartbeatMsg, Msg
  <2> QED BY <2>1, <2>2 DEF Plain, Granted, Stamped
<1>3. ASSUME NEW m \in Boxes(s) PROVE m \in Boxes(r) \/ Plain(m)
  <2>1. PICK d \in Server : m \in Range(s.msgs[d]) \/ m \in Range(s.after[d])
    BY <1>3 DEF Boxes
  <2>2. r.msgs[d] \in Seq(Message) BY DEF Node
  <2>3. m \in Range(r.msgs[d]) \/ m \in Range(r.after[d]) \/ m = heartbeatMsg(r, d)
    BY <1>1, <1>2, <2>1, <2>2, RangeAppend
  <2> QED BY <1>2, <2>3 DEF Boxes
<1> QED BY <1>1, <1>3 DEF Quiet, s

LEMMA SendTimeoutNowQuiet ==
    ASSUME NEW r \in Node, NEW to \in Server
    PROVE  Quiet(r, sendTimeoutNow(r, to))
<1>1. Msg("MsgTimeoutNow", r.id, to) \in Message BY MsgIsMessage DEF Node, MsgType
<1>2. Msg("MsgTimeoutNow", r.id, to).type = "MsgTimeoutNow" BY DEF Msg
<1> QED BY <1>1, <1>2, SendPlain DEF sendTimeoutNow, Granted

LEMMA SendRemainingQuiet ==
    ASSUME NEW r \in Node, NEW to \in Server, r.Term > 0
    PROVE  Quiet(r, sendRemaining(r, to))
<1> DEFINE pr    == r.prs[to]
           batch == AppBatch(r, to)
           next  == Len(r.log) + 1
           s     == [r EXCEPT !.prs[to].Next = next, !.msgs[to] = @ \o batch]
<1>1. Quiet(r, maybeSendAppend(r, to, FALSE)) BY MaybeSendAppendQuiet
<1>2. ASSUME ~(pr.Next > Len(r.log)) PROVE Quiet(r, s)
  <2>1. /\ batch \in Seq(Message)
        /\ \A k \in 1..Len(batch) : batch[k].type = "MsgApp" /\ batch[k].term = r.Term
    BY <1>2, AppBatchType
  <2> HIDE DEF batch, next
  <2>2. /\ s.id = r.id /\ s.voters = r.voters /\ s.steps = r.steps /\ s.after = r.after
        /\ s.Term = r.Term /\ s.Vote = r.Vote /\ s.state = r.state /\ s.granted = r.granted
    BY DEF Node
  <2>3. s.msgs = [r.msgs EXCEPT ![to] = @ \o batch] BY DEF Node
  <2> HIDE DEF s
  <2>4. r.msgs \in [Server -> Seq(Message)] BY DEF Node
  <2>5. \A m \in Range(batch) : Plain(m)
    <3>1. Range(batch) = {batch[k] : k \in 1..Len(batch)} BY <2>1, RangeEquality
    <3> QED BY <2>1, <3>1 DEF Plain, Granted, Stamped
  <2>6. ASSUME NEW m \in Boxes(s) PROVE m \in Boxes(r) \/ Plain(m)
    <3>1. PICK d \in Server : m \in Range(s.msgs[d]) \/ m \in Range(s.after[d])
      BY <2>6 DEF Boxes
    <3>2. CASE m \in Range(s.after[d]) BY <2>2, <3>2 DEF Boxes
    <3>3. CASE m \in Range(s.msgs[d]) /\ d # to BY <2>3, <2>4, <3>3 DEF Boxes
    <3>4. CASE m \in Range(s.msgs[d]) /\ d = to
      <4>1. s.msgs[d] = r.msgs[to] \o batch BY <2>3, <2>4, <3>4
      <4>2. Range(r.msgs[to] \o batch) = Range(r.msgs[to]) \cup Range(batch)
        BY <2>1, <2>4, RangeConcatenation
      <4> QED BY <2>5, <3>4, <4>1, <4>2 DEF Boxes
    <3> QED BY <3>1, <3>2, <3>3, <3>4
  <2> QED BY <2>2, <2>6 DEF Quiet
<1> HIDE DEF batch, next
<1>3. CASE pr.State = "StateProbe" \/ pr.Next > Len(r.log)
  BY <1>3, <1>1 DEF sendRemaining
<1>4. CASE ~(pr.State = "StateProbe" \/ pr.Next > Len(r.log)) /\ IsPaused(pr)
  BY <1>4, QuietRefl DEF sendRemaining
<1>5. CASE ~(pr.State = "StateProbe" \/ pr.Next > Len(r.log)) /\ ~IsPaused(pr)
  BY <1>5, <1>2 DEF sendRemaining, batch, next
<1> QED BY <1>3, <1>4, <1>5

\* appendEntry changes the log and acknowledges it.
LEMMA AppendEntryQuiet ==
    ASSUME NEW r \in Node, NEW vals \in Seq(Value \cup {Nil})
    PROVE  Quiet(r, appendEntry(r, vals))
<1> DEFINE ents == [k \in 1..Len(vals) |-> [term |-> r.Term, val |-> vals[k]]]
           log == r.log \o ents
           index == Len(r.log) + Len(vals)
           own == Msg("MsgAppResp", r.id, r.id)
           s == [r EXCEPT !.log = log]
           m == [own EXCEPT !.index = index]
<1>1. r.log \in Seq(Entry) /\ Len(r.log) \in Nat /\ Len(vals) \in Nat /\ r.Term \in Nat
  BY LenProperties DEF Node
<1>2. \A k \in 1..Len(vals) : [term |-> r.Term, val |-> vals[k]] \in Entry
  BY <1>1, ElementOfSeq DEF Entry
<1>3. ents \in Seq(Entry) BY <1>1, <1>2, MakeSeq
<1> HIDE DEF ents
<1>4. log \in Seq(Entry) BY <1>1, <1>3, ConcatProperties
<1>5. index \in Nat BY <1>1
<1>6. own \in Message /\ own.type = "MsgAppResp" BY MsgIsMessage DEF Node, MsgType, Msg
<1> HIDE DEF log, index, own
<1>7. s \in Node BY <1>4 DEF Node
<1>8. Quiet(r, s)
  <2>1. s.msgs = r.msgs /\ s.after = r.after BY DEF Node
  <2>2. Boxes(s) = Boxes(r) BY <2>1, SameBoxes
  <2> QED BY <2>2 DEF Quiet, Node
<1>9. m \in Message /\ m.type = "MsgAppResp" BY <1>5, <1>6 DEF Message
<1> HIDE DEF s, m
<1>10. Quiet(s, send(s, m)) BY <1>7, <1>9, SendPlain DEF Granted
<1>11. appendEntry(r, vals) = send(s, m) BY DEF appendEntry, s, m, ents, log, index, own
<1> QED BY <1>8, <1>10, <1>11, QuietTrans

LEMMA HandleAppendEntriesQuiet ==
    ASSUME NEW r \in Node, NEW m \in Message
    PROVE  Quiet(r, handleAppendEntries(r, m))
<1> DEFINE resp == Msg("MsgAppResp", r.id, m.from)
           hint == findConflictByTerm(r.log, Least(m.index, Len(r.log)), m.logTerm)
           hintTerm == TermAt(r.log, hint)
           index == m.index + Len(m.entries)
           stale == [resp EXCEPT !.index = r.committed]
           done == [resp EXCEPT !.index = index]
           refusal == [resp EXCEPT !.index = m.index, !.reject = TRUE, !.hint = hint,
                                   !.logTerm = hintTerm]
           appended == maybeAppend(r, m.index, m.commit, m.entries)
<1>1. /\ r.log \in Seq(Entry) /\ r.committed \in Nat /\ r.id \in Server
      /\ m.index \in Nat /\ m.logTerm \in Nat /\ m.commit \in Nat
      /\ m.entries \in Seq(Entry) /\ m.from \in Server
  BY DEF Node, Message
<1>2. Len(r.log) \in Nat /\ Len(m.entries) \in Nat BY <1>1, LenProperties
<1>3. resp \in Message /\ resp.type = "MsgAppResp" BY <1>1, MsgIsMessage DEF MsgType, Msg
<1>4. hint \in Nat
  <2>1. Least(m.index, Len(r.log)) \in Nat BY <1>1, <1>2, LeastType
  <2> QED BY <1>1, <2>1, FindConflictByTermType
<1>5. hintTerm \in Nat
  <2> HIDE DEF hint
  <2> QED BY <1>1, <1>4, TermAtType
<1>6. index \in Nat BY <1>1, <1>2
<1> HIDE DEF resp, hint, hintTerm, index
<1>7. /\ stale \in Message /\ stale.type = "MsgAppResp"
      /\ done \in Message /\ done.type = "MsgAppResp"
      /\ refusal \in Message /\ refusal.type = "MsgAppResp"
  BY <1>1, <1>3, <1>4, <1>5, <1>6 DEF Message
<1> HIDE DEF stale, done, refusal
<1>8. CASE m.index < r.committed
  <2>1. Quiet(r, send(r, stale)) BY <1>7, SendPlain DEF Granted
  <2> QED BY <1>8, <2>1 DEF handleAppendEntries, resp, stale
<1>9. CASE ~(m.index < r.committed) /\ matchTerm(r.log, m.index, m.logTerm)
  <2>1. m.index <= Len(r.log) BY <1>9 DEF matchTerm
  <2>2. appended \in Node /\ Quiet(r, appended)
    BY <1>1, <2>1, MaybeAppendType, MaybeAppendQuiet
  <2> HIDE DEF appended
  <2>3. Quiet(appended, send(appended, done)) BY <1>7, <2>2, SendPlain DEF Granted
  <2>4. Quiet(r, send(appended, done)) BY <2>2, <2>3, QuietTrans
  <2> QED BY <1>9, <2>4 DEF handleAppendEntries, resp, index, done, appended
<1>10. CASE ~(m.index < r.committed) /\ ~matchTerm(r.log, m.index, m.logTerm)
  <2>1. Quiet(r, send(r, refusal)) BY <1>7, SendPlain DEF Granted
  <2> QED BY <1>10, <2>1 DEF handleAppendEntries, resp, hint, hintTerm, refusal
<1> QED BY <1>8, <1>9, <1>10

LEMMA HandleHeartbeatQuiet ==
    ASSUME NEW r \in Node, NEW m \in Message
    PROVE  Quiet(r, handleHeartbeat(r, m))
<1> DEFINE s == commitTo(r, m.commit)
           resp == Msg("MsgHeartbeatResp", r.id, m.from)
<1>1. m.commit \in Nat /\ m.from \in Server /\ r.id \in Server BY DEF Node, Message
<1>2. s \in Node /\ Quiet(r, s) BY <1>1, CommitToType, CommitToQuiet
<1>3. resp \in Message /\ resp.type = "MsgHeartbeatResp" BY <1>1, MsgIsMessage DEF MsgType, Msg
<1> HIDE DEF s, resp
<1>4. Quiet(s, send(s, resp)) BY <1>2, <1>3, SendPlain DEF Granted
<1>5. Quiet(r, send(s, resp)) BY <1>2, <1>4, QuietTrans
<1> QED BY <1>5 DEF handleHeartbeat, s, resp

LEMMA HandleAppRejectQuiet ==
    ASSUME NEW r \in Node, NEW m \in Message, r.Term > 0
    PROVE  Quiet(r, handleAppReject(r, m))
<1> DEFINE heard == [r EXCEPT !.prs[m.from].RecentActive = TRUE]
           pr == heard.prs[m.from]
           hint == rejectionHint(r, m)
           back == backOff(pr, m, hint)
           backed == [heard EXCEPT !.prs[m.from] = back]
<1>1. m.from \in Server /\ m.index \in Nat /\ m.hint \in Nat /\ m.logTerm \in Nat
  BY DEF Message
<1>2. heard \in Node /\ Quiet(r, heard) BY <1>1, HeardType, ProgressQuiet
<1> HIDE DEF heard
<1>3. pr \in Progress BY <1>1, <1>2 DEF Node
<1>4. hint \in Nat BY <1>1, FindConflictByTermType DEF rejectionHint, Node
<1> HIDE DEF pr, hint
<1>5. back \in Progress BY <1>1, <1>3, <1>4, MaybeDecrToType, BecomeProbeType DEF backOff
<1> HIDE DEF back
<1>6. backed \in Node /\ Quiet(heard, backed) BY <1>1, <1>2, <1>5, ProgressOf, ProgressQuiet
<1> HIDE DEF backed
<1>7. Quiet(r, backed) /\ backed.Term > 0 BY <1>2, <1>6, QuietTrans DEF Quiet
<1>8. Quiet(backed, sendAppend(backed, m.from)) BY <1>1, <1>6, <1>7, SendAppendQuiet
<1>9. Quiet(r, sendAppend(backed, m.from)) BY <1>7, <1>8, QuietTrans
<1>10. handleAppReject(r, m) \in {heard, sendAppend(backed, m.from)}
  BY DEF handleAppReject, heard, backed, back, pr, hint
<1> QED BY <1>2, <1>9, <1>10

LEMMA HandleAppAcceptQuiet ==
    ASSUME NEW r \in Node, NEW m \in Message, r.Term > 0
    PROVE  Quiet(r, handleAppAccept(r, m))
<1> DEFINE from == m.from
           heard == [r EXCEPT !.prs[from].RecentActive = TRUE]
           pr == heard.prs[from]
           upd == MaybeUpdate(pr, m.index)
           ack == acknowledged(pr, m.index)
           stale == [heard EXCEPT !.prs[from] = upd]
           acked == [heard EXCEPT !.prs[from] = ack]
           moved == maybeCommit(acked)
           told == announce(moved, r.committed, from, IsPaused(r.prs[from]))
           full == refill(told, from)
           sent == finishTransfer(full, from)
<1>1. from \in Server /\ m.index \in Nat BY DEF Message
<1>2. heard \in Node /\ Quiet(r, heard) BY <1>1, HeardType, ProgressQuiet
<1> HIDE DEF heard
<1>3. pr \in Progress BY <1>1, <1>2 DEF Node
<1> HIDE DEF pr
<1>4. upd \in Progress BY <1>1, <1>3, MaybeUpdateType
<1>5. ack \in Progress BY <1>1, <1>3, MaybeUpdateType, BecomeReplicateType DEF acknowledged
<1> HIDE DEF upd, ack
<1>6. Quiet(heard, stale) BY <1>1, <1>2, <1>4, ProgressQuiet
<1>7. acked \in Node /\ Quiet(heard, acked) BY <1>1, <1>2, <1>5, ProgressOf, ProgressQuiet
<1> HIDE DEF stale, acked
<1>8. Quiet(r, stale) /\ Quiet(r, acked) BY <1>2, <1>6, <1>7, QuietTrans
<1>9. moved \in Node /\ Quiet(r, moved)
  BY <1>7, <1>8, MaybeCommitType, MaybeCommitQuiet, QuietTrans
<1> HIDE DEF moved
<1>10. moved.Term > 0 BY <1>9 DEF Quiet
<1>11. told \in Node /\ Quiet(moved, told)
  BY <1>1, <1>9, <1>10, BcastAppendType, SendAppendType, BcastAppendQuiet, SendAppendQuiet,
     QuietRefl DEF announce
<1> HIDE DEF told
<1>12. Quiet(r, told) /\ told.Term > 0 BY <1>9, <1>11, QuietTrans DEF Quiet
<1>13. full \in Node /\ Quiet(told, full)
  BY <1>1, <1>11, <1>12, SendRemainingType, SendRemainingQuiet, QuietRefl DEF refill
<1> HIDE DEF full
<1>14. Quiet(full, sent) BY <1>1, <1>13, SendTimeoutNowQuiet, QuietRefl DEF finishTransfer
<1> HIDE DEF sent
<1>15. Quiet(r, sent) BY <1>12, <1>13, <1>14, QuietTrans
<1>16. handleAppAccept(r, m) \in {stale, sent}
  BY DEF handleAppAccept, sent, full, told, moved, acked, stale, ack, upd, pr, heard
<1> QED BY <1>8, <1>15, <1>16

LEMMA HandleHeartbeatRespQuiet ==
    ASSUME NEW r \in Node, NEW m \in Message, r.Term > 0
    PROVE  Quiet(r, handleHeartbeatResp(r, m))
<1> DEFINE pr == [r.prs[m.from] EXCEPT !.RecentActive = TRUE, !.MsgAppFlowPaused = FALSE]
           s == [r EXCEPT !.prs[m.from] = pr]
<1>1. m.from \in Server BY DEF Message
<1>2. pr \in Progress
  <2>1. r.prs[m.from] \in Progress BY <1>1 DEF Node
  <2> QED BY <2>1 DEF Progress
<1> HIDE DEF pr
<1>3. s \in Node /\ Quiet(r, s) BY <1>1, <1>2, ProgressOf, ProgressQuiet
<1> HIDE DEF s
<1>4. s.Term > 0 BY <1>3 DEF Quiet
<1>5. Quiet(s, sendAppend(s, m.from)) BY <1>1, <1>3, <1>4, SendAppendQuiet
<1>6. Quiet(r, sendAppend(s, m.from)) BY <1>3, <1>5, QuietTrans
<1>7. s = [r EXCEPT !.prs[m.from].RecentActive = TRUE, !.prs[m.from].MsgAppFlowPaused = FALSE]
  BY <1>1 DEF s, pr, Node
<1>8. handleHeartbeatResp(r, m) \in {s, sendAppend(s, m.from)} BY <1>7 DEF handleHeartbeatResp
<1> QED BY <1>3, <1>6, <1>8

LEMMA HandleUnreachableQuiet ==
    ASSUME NEW r \in Node, NEW from \in Server
    PROVE  Quiet(r, handleUnreachable(r, from))
BY ProgressQuiet, QuietRefl DEF handleUnreachable

LEMMA HandleTransferLeaderQuiet ==
    ASSUME NEW r \in Node, NEW m \in Message, r.Term > 0
    PROVE  Quiet(r, handleTransferLeader(r, m))
<1> DEFINE s == [r EXCEPT !.leadTransferee = m.from, !.expired = FALSE]
           t == [r EXCEPT !.leadTransferee = Nil]
<1>1. m.from \in Server BY DEF Message
<1>2. s \in Node BY <1>1 DEF Node
<1>3. s.msgs = r.msgs /\ s.after = r.after /\ t.msgs = r.msgs /\ t.after = r.after BY DEF Node
<1>4. Boxes(s) = Boxes(r) /\ Boxes(t) = Boxes(r) BY <1>3, SameBoxes
<1>5. Quiet(r, s) /\ Quiet(r, t) /\ s.Term > 0 BY <1>4 DEF Quiet, Node
<1> HIDE DEF s, t
<1>6. Quiet(s, sendTimeoutNow(s, m.from)) BY <1>1, <1>2, SendTimeoutNowQuiet
<1>7. Quiet(s, sendAppend(s, m.from)) BY <1>1, <1>2, <1>5, SendAppendQuiet
<1>8. Quiet(r, sendTimeoutNow(s, m.from)) /\ Quiet(r, sendAppend(s, m.from))
  BY <1>5, <1>6, <1>7, QuietTrans
<1>9. handleTransferLeader(r, m) \in {r, t, sendTimeoutNow(s, m.from), sendAppend(s, m.from)}
  BY DEF handleTransferLeader, s, t
<1> QED BY <1>5, <1>8, <1>9, QuietRefl

LEMMA HandlePropQuiet ==
    ASSUME NEW r \in Node, NEW m \in Message, r.Term > 0
    PROVE  Quiet(r, handleProp(r, m))
<1> DEFINE vals == [k \in 1..Len(m.entries) |-> m.entries[k].val]
           s == appendEntry(r, vals)
<1>1. m.entries \in Seq(Entry) /\ Len(m.entries) \in Nat BY LenProperties DEF Message
<1>2. ASSUME NEW k \in 1..Len(m.entries) PROVE m.entries[k].val \in Value \cup {Nil}
  <2>1. m.entries[k] \in Entry BY <1>1, ElementOfSeq
  <2> QED BY <2>1 DEF Entry
<1>3. vals \in Seq(Value \cup {Nil}) BY <1>1, <1>2, MakeSeq
<1> HIDE DEF vals
<1>4. s \in Node /\ Quiet(r, s) BY <1>3, AppendEntryType, AppendEntryQuiet
<1> HIDE DEF s
<1>5. s.Term > 0 BY <1>4 DEF Quiet
<1>6. Quiet(r, bcastAppend(s)) BY <1>4, <1>5, BcastAppendQuiet, QuietTrans
<1> QED BY <1>6, QuietRefl DEF handleProp, s, vals

\* Nothing a leader does in reaction to a message of its own term is a vote.
LEMMA StepLeaderQuiet ==
    ASSUME NEW r \in Node, NEW m \in Message, r.Term > 0
    PROVE  Quiet(r, stepLeader(r, m))
BY HandlePropQuiet, HandleAppRejectQuiet, HandleAppAcceptQuiet, HandleHeartbeatRespQuiet,
   HandleTransferLeaderQuiet, QuietRefl DEF stepLeader, handleAppResp

----------------------------------------------------------------------------
(* Operators that change role, term or vote *)

\* reset moves to a term; within its term it keeps the vote.
LEMMA ResetBallot ==
    ASSUME NEW r \in Node, NEW term \in Nat, term >= r.Term
    PROVE  LET s == reset(r, term)
           IN  /\ BallotStep(r, s) /\ Boxes(s) = Boxes(r)
               /\ s.Term = term /\ s.state = r.state /\ s.granted = {}
               /\ s.Vote = IF term = r.Term THEN r.Vote ELSE Nil
<1> DEFINE s == reset(r, term)
<1>1. /\ s.msgs = r.msgs /\ s.after = r.after /\ s.id = r.id /\ s.voters = r.voters
      /\ s.steps = r.steps /\ s.Term = term /\ s.state = r.state /\ s.granted = {}
      /\ s.Vote = IF r.Term # term THEN Nil ELSE r.Vote
  BY DEF reset, Node
<1> HIDE DEF s
<1>2. Boxes(s) = Boxes(r) BY <1>1, SameBoxes
<1>3. r.Term \in Nat BY DEF Node
<1> QED BY <1>1, <1>2, <1>3 DEF BallotStep, s

LEMMA BecomeFollowerBallot ==
    ASSUME NEW r \in Node, NEW term \in Nat, term >= r.Term, NEW lead
    PROVE  LET s == becomeFollower(r, term, lead)
           IN  /\ BallotStep(r, s) /\ Boxes(s) = Boxes(r)
               /\ s.Term = term /\ s.state = "StateFollower"
<1> DEFINE t == reset(r, term)
           s == becomeFollower(r, term, lead)
<1>1. t \in Node /\ BallotStep(r, t) /\ Boxes(t) = Boxes(r) /\ t.Term = term
  BY ResetType, ResetBallot
<1> HIDE DEF t
<1>2. /\ s.msgs = t.msgs /\ s.after = t.after /\ s.id = t.id /\ s.voters = t.voters
      /\ s.steps = t.steps /\ s.Term = t.Term /\ s.Vote = t.Vote /\ s.state = "StateFollower"
  BY <1>1 DEF becomeFollower, t, Node
<1> HIDE DEF s
<1>3. Boxes(s) = Boxes(t) BY <1>2, SameBoxes
<1> QED BY <1>1, <1>2, <1>3 DEF BallotStep, s

\* A candidate is at a new term, and votes for itself.
LEMMA BecomeCandidateBallot ==
    ASSUME NEW r \in Node, r.state # "StateLeader"
    PROVE  LET s == becomeCandidate(r)
           IN  /\ BallotStep(r, s) /\ Boxes(s) = Boxes(r)
               /\ s.Term > 0 /\ s.Vote = s.id /\ s.state = "StateCandidate" /\ s.granted = {}
<1> DEFINE next == r.Term + 1
           t == reset(r, next)
           s == becomeCandidate(r)
<1>1. r.Term \in Nat BY DEF Node
<1>2. next \in Nat /\ next > r.Term /\ next > 0 /\ next >= r.Term BY <1>1
<1> HIDE DEF next
<1>3. /\ t \in Node /\ BallotStep(r, t) /\ Boxes(t) = Boxes(r) /\ t.Term = next
      /\ t.granted = {}
  BY <1>2, ResetType, ResetBallot
<1>4. s = [t EXCEPT !.Vote = r.id, !.state = "StateCandidate"] BY DEF becomeCandidate, next
<1> HIDE DEF t, s
<1>5. /\ s.msgs = t.msgs /\ s.after = t.after /\ s.id = t.id /\ s.voters = t.voters
      /\ s.steps = t.steps /\ s.Term = t.Term /\ s.Vote = r.id /\ s.granted = {}
      /\ s.state = "StateCandidate"
  BY <1>3, <1>4 DEF Node
<1>6. Boxes(s) = Boxes(t) BY <1>5, SameBoxes
<1> QED BY <1>1, <1>2, <1>3, <1>5, <1>6 DEF BallotStep, s

LEMMA BecomePreCandidateBallot ==
    ASSUME NEW r \in Node, r.state # "StateLeader"
    PROVE  LET s == becomePreCandidate(r)
           IN  /\ BallotStep(r, s) /\ Boxes(s) = Boxes(r)
               /\ s.state = "StatePreCandidate"
<1> DEFINE s == becomePreCandidate(r)
<1>1. /\ s.msgs = r.msgs /\ s.after = r.after /\ s.id = r.id /\ s.voters = r.voters
      /\ s.steps = r.steps /\ s.Term = r.Term /\ s.Vote = r.Vote
      /\ s.state = "StatePreCandidate"
  BY DEF becomePreCandidate, Node
<1> HIDE DEF s
<1>2. Boxes(s) = Boxes(r) BY <1>1, SameBoxes
<1>3. r.Term \in Nat BY DEF Node
<1> QED BY <1>1, <1>2, <1>3 DEF BallotStep, s

\* The only grant among the requests is the candidate's own vote.
LEMMA RequestVotesBallot ==
    ASSUME NEW r \in Node, NEW term \in Nat, NEW transfer \in BOOLEAN,
           NEW voteType \in {"MsgVote", "MsgPreVote"},
           voteType = "MsgVote" => term = r.Term /\ term > 0 /\ r.Vote = r.id
    PROVE  LET s == requestVotes(r, voteType, voteRespMsgType(voteType), term, transfer)
           IN  BallotStep(r, s) /\ s.state = r.state /\ s.granted = r.granted
               /\ s.Term = r.Term /\ s.Vote = r.Vote
<1> DEFINE respType == voteRespMsgType(voteType)
           s == requestVotes(r, voteType, respType, term, transfer)
           own == [Msg(respType, r.id, r.id) EXCEPT !.term = term]
           ask(d) == VoteMsg(r, voteType, d, term, transfer)
<1>1. /\ s.id = r.id /\ s.voters = r.voters /\ s.steps = r.steps
      /\ s.Term = r.Term /\ s.Vote = r.Vote /\ s.state = r.state /\ s.granted = r.granted
      /\ s.after = [r.after EXCEPT ![r.id] = Append(@, own)]
      /\ \A d \in Server : s.msgs[d] = IF d \in r.voters \ {r.id}
                                       THEN Append(r.msgs[d], ask(d)) ELSE r.msgs[d]
  BY DEF requestVotes, Node
<1>2. respType \in MsgType /\ voteType \in MsgType BY DEF voteRespMsgType, MsgType
<1>3. /\ r.id \in Server /\ r.msgs \in [Server -> Seq(Message)] /\ r.Term \in Nat
      /\ r.after \in [Server -> Seq(Message)]
  BY DEF Node
<1>4. own \in Message /\ own.term = term /\ own.from = r.id /\ own.to = r.id
      /\ own.type = respType
  <2>1. Msg(respType, r.id, r.id) \in Message BY <1>2, <1>3, MsgIsMessage
  <2> QED BY <2>1 DEF Message, Msg
<1>5. Stamped(own) /\ (Granted(own) => own.from = s.id /\ own.term = s.Term /\ own.to = s.Vote)
  BY <1>1, <1>4 DEF Stamped, Granted, voteRespMsgType
<1>6. ASSUME NEW d \in Server
      PROVE  ask(d) \in Message /\ Stamped(ask(d)) /\ ~Granted(ask(d))
  <2>1. ask(d) \in Message BY <1>2, VoteMsgType
  <2>2. ask(d).type = voteType /\ ask(d).term = term BY DEF VoteMsg, Msg
  <2> QED BY <2>1, <2>2 DEF Stamped, Granted
<1> HIDE DEF s, own, ask, respType
<1>7. ASSUME NEW m \in Boxes(s)
      PROVE  \/ m \in Boxes(r)
             \/ Stamped(m) /\ (Granted(m) => m.from = s.id /\ m.term = s.Term /\ m.to = s.Vote)
  <2>1. PICK d \in Server : m \in Range(s.msgs[d]) \/ m \in Range(s.after[d])
    BY <1>7 DEF Boxes
  <2>2. CASE m \in Range(s.msgs[d])
    <3>1. m \in Range(r.msgs[d]) \/ m = ask(d) BY <1>1, <1>3, <1>6, <2>2, RangeAppend
    <3> QED BY <1>6, <3>1 DEF Boxes
  <2>3. CASE m \in Range(s.after[d])
    <3>1. m \in Range(r.after[d]) \/ m = own BY <1>1, <1>3, <1>4, <2>3, RangeAppend
    <3> QED BY <1>5, <3>1 DEF Boxes
  <2> QED BY <2>1, <2>2, <2>3
<1> QED BY <1>1, <1>3, <1>7 DEF BallotStep, s, respType

\* A campaign: a new term, a vote for oneself, and nobody else's yet.
LEMMA CampaignElectionBallot ==
    ASSUME NEW r \in Node, r.state # "StateLeader", NEW transfer \in BOOLEAN, NEW N
    PROVE  /\ BallotStep(r, campaignElection(r, transfer))
           /\ Evidence(campaignElection(r, transfer), N)
<1> DEFINE s == becomeCandidate(r)
           t == requestVotes(s, "MsgVote", "MsgVoteResp", s.Term, transfer)
<1>1. /\ s \in Node /\ BallotStep(r, s) /\ Boxes(s) = Boxes(r)
      /\ s.Term > 0 /\ s.Vote = s.id /\ s.state = "StateCandidate" /\ s.granted = {}
  BY BecomeCandidateType, BecomeCandidateBallot
<1> HIDE DEF s
<1>2. s.Term \in Nat BY <1>1 DEF Node
<1>3. /\ BallotStep(s, t) /\ t.state = "StateCandidate" /\ t.granted = {}
      /\ t.Term = s.Term /\ t.Vote = s.Vote
  BY <1>1, <1>2, RequestVotesBallot DEF voteRespMsgType
<1>4. t \in Node BY <1>1, <1>2, RequestVotesType DEF MsgType
<1> HIDE DEF t
<1>5. BallotStep(r, t) BY <1>1, <1>3, <1>4, AdoptThenBallot
<1>6. Evidence(t, N) BY <1>1, <1>3 DEF Evidence, BallotStep
<1>7. campaignElection(r, transfer) = t BY DEF campaignElection, s, t
<1> QED BY <1>5, <1>6, <1>7

LEMMA CampaignPreElectionBallot ==
    ASSUME NEW r \in Node, r.state # "StateLeader", NEW N
    PROVE  BallotStep(r, campaignPreElection(r)) /\ Evidence(campaignPreElection(r), N)
<1> DEFINE s == becomePreCandidate(r)
           next == s.Term + 1
           t == requestVotes(s, "MsgPreVote", "MsgPreVoteResp", next, FALSE)
<1>1. s \in Node /\ BallotStep(r, s) /\ Boxes(s) = Boxes(r) /\ s.state = "StatePreCandidate"
  BY BecomePreCandidateType, BecomePreCandidateBallot
<1> HIDE DEF s
<1>2. s.Term \in Nat BY <1>1 DEF Node
<1>3. next \in Nat BY <1>2
<1> HIDE DEF next
<1>4. BallotStep(s, t) /\ t.state = "StatePreCandidate"
  BY <1>1, <1>3, RequestVotesBallot DEF voteRespMsgType
<1>5. t \in Node BY <1>1, <1>3, RequestVotesType DEF MsgType
<1> HIDE DEF t
<1>6. BallotStep(r, t) BY <1>1, <1>4, <1>5, AdoptThenBallot
<1>7. campaignPreElection(r) = t BY DEF campaignPreElection, s, next, t
<1> QED BY <1>4, <1>6, <1>7, NoRoleNoEvidence

LEMMA HupBallot ==
    ASSUME NEW r \in Node, NEW transfer \in BOOLEAN, NEW N, Evidence(r, N)
    PROVE  BallotStep(r, hup(r, transfer)) /\ Evidence(hup(r, transfer), N)
<1>1. BallotStep(r, r) BY QuietRefl, QuietIsBallot
<1> QED BY <1>1, CampaignElectionBallot, CampaignPreElectionBallot DEF hup

\* The tally of a poll gains at most the answer that came.
LEMMA RecordVoteBallot ==
    ASSUME NEW r \in Node, NEW m \in Message
    PROVE  LET s == RecordVote(r, m)
           IN  /\ BallotStep(r, s) /\ Boxes(s) = Boxes(r)
               /\ s.id = r.id /\ s.voters = r.voters /\ s.Term = r.Term /\ s.Vote = r.Vote
               /\ s.state = r.state
               /\ \A j \in s.granted : j \in r.granted \/ (j = m.from /\ ~m.reject)
<1> DEFINE s == RecordVote(r, m)
<1>1. /\ s.msgs = r.msgs /\ s.after = r.after /\ s.id = r.id /\ s.voters = r.voters
      /\ s.steps = r.steps /\ s.Term = r.Term /\ s.Vote = r.Vote /\ s.state = r.state
      /\ s.granted = IF m.from \notin r.granted \cup r.rejected /\ ~m.reject
                     THEN r.granted \cup {m.from} ELSE r.granted
  BY DEF RecordVote, Node
<1> HIDE DEF s
<1>2. Boxes(s) = Boxes(r) BY <1>1, SameBoxes
<1>3. r.Term \in Nat BY DEF Node
<1> QED BY <1>1, <1>2, <1>3 DEF BallotStep, s

\* A candidate with a quorum of grants owes its leadership to them.
LEMMA BecomeLeaderBallot ==
    ASSUME NEW r \in Node, NEW N, r.state = "StateCandidate", Evidence(r, N),
           IsQuorum(r.granted, Server)
    PROVE  LET s == becomeLeader(r)
           IN  BallotStep(r, s) /\ Evidence(s, N) /\ s.Term > 0
<1> DEFINE t == reset(r, r.Term)
           pr == [BecomeReplicate(t.prs[r.id]) EXCEPT !.RecentActive = TRUE]
           led == [t EXCEPT !.lead = r.id, !.state = "StateLeader", !.prs[r.id] = pr]
           s == becomeLeader(r)
<1>1. r.Term \in Nat /\ r.id \in Server /\ r.granted \subseteq Server /\ r.Term >= r.Term
  BY DEF Node
<1>2. t \in Node /\ BallotStep(r, t) /\ Boxes(t) = Boxes(r) /\ t.Term = r.Term /\ t.Vote = r.Vote
  BY <1>1, ResetType, ResetBallot
<1>3. pr \in Progress
  <2> DEFINE q == BecomeReplicate(t.prs[r.id])
  <2>1. q \in Progress BY <1>1, <1>2, BecomeReplicateType DEF Node
  <2> HIDE DEF q
  <2>2. [q EXCEPT !.RecentActive = TRUE] \in Progress BY <2>1 DEF Progress
  <2> QED BY <2>2 DEF q
<1> HIDE DEF t, pr
<1>4. led \in Node
  <2> DEFINE p == [t.prs EXCEPT ![r.id] = pr]
  <2>1. p \in [Server -> Progress] BY <1>1, <1>2, <1>3 DEF Node
  <2>2. led = [t EXCEPT !.lead = r.id, !.state = "StateLeader", !.prs = p] BY DEF p
  <2> HIDE DEF p
  <2> QED BY <1>1, <1>2, <2>1, <2>2 DEF Node, StateType
<1>5. /\ led.msgs = t.msgs /\ led.after = t.after /\ led.id = t.id /\ led.voters = t.voters
      /\ led.steps = t.steps /\ led.Term = t.Term /\ led.Vote = t.Vote
      /\ led.state = "StateLeader"
  BY <1>2 DEF Node
<1>6. s = appendEntry(led, <<Nil>>) BY DEF becomeLeader, t, pr
<1> HIDE DEF led, s
<1>7. Boxes(led) = Boxes(t) BY <1>5, SameBoxes
<1>8. BallotStep(r, led) BY <1>2, <1>5, <1>7 DEF BallotStep
<1>9. Evidence(led, N)
  <2>1. led.Term = r.Term /\ led.Vote = r.Vote /\ led.id = r.id
    BY <1>2, <1>5 DEF BallotStep
  <2> QED BY <1>1, <1>5, <2>1 DEF Evidence
<1>10. <<Nil>> \in Seq(Value \cup {Nil}) OBVIOUS
<1>11. Quiet(led, s) BY <1>4, <1>6, <1>10, AppendEntryQuiet
<1>12. s.Term > 0 BY <1>2, <1>5, <1>11 DEF Quiet, Evidence
<1> QED BY <1>8, <1>9, <1>11, <1>12, BallotThenQuiet, QuietKeepsEvidence DEF s

\* The answer to a poll: nothing, the next campaign, a step down or a leader.
LEMMA HandleVoteRespBallot ==
    ASSUME NEW r \in Node, NEW m \in Message, NEW N,
           r.state \in {"StateCandidate", "StatePreCandidate"}, r.voters = Server,
           Evidence(r, N),
           r.state = "StateCandidate" /\ ~m.reject =>
             m.from = r.id \/ Backed(N, m.from, r.id, r.Term)
    PROVE  BallotStep(r, handleVoteResp(r, m)) /\ Evidence(handleVoteResp(r, m), N)
<1> DEFINE s == RecordVote(r, m)
           result == TallyVotes(s)
<1>1. /\ s \in Node /\ BallotStep(r, s) /\ Boxes(s) = Boxes(r)
      /\ s.id = r.id /\ s.voters = r.voters /\ s.Term = r.Term /\ s.Vote = r.Vote
      /\ s.state = r.state
      /\ \A j \in s.granted : j \in r.granted \/ (j = m.from /\ ~m.reject)
  BY RecordVoteType, RecordVoteBallot
<1> HIDE DEF s
<1>2. s.Term \in Nat /\ s.id \in Server /\ s.Term >= s.Term BY <1>1 DEF Node
<1>3. Evidence(s, N) BY <1>1 DEF Evidence
<1>4. ASSUME NEW t \in Node, BallotStep(s, t), Evidence(t, N)
      PROVE  BallotStep(r, t) /\ Evidence(t, N)
  BY <1>1, <1>4, AdoptThenBallot
<1>5. handleVoteResp(r, m) = afterPoll(s, result) BY DEF handleVoteResp, s
<1>6. CASE result = "VotePending" BY <1>1, <1>3, <1>5, <1>6 DEF afterPoll
<1>7. CASE result = "VoteLost"
  <2> DEFINE t == becomeFollower(s, s.Term, Nil)
  <2>1. t \in Node /\ BallotStep(s, t) /\ t.state = "StateFollower"
    BY <1>1, <1>2, BecomeFollowerType, BecomeFollowerBallot
  <2>2. handleVoteResp(r, m) = t BY <1>5, <1>7 DEF afterPoll
  <2> HIDE DEF t
  <2>3. Evidence(t, N) BY <2>1, NoRoleNoEvidence
  <2> QED BY <1>4, <2>1, <2>2, <2>3
<1>8. CASE result = "VoteWon"
  <2>1. IsQuorum(s.granted, Server) BY <1>1, <1>2, <1>8 DEF TallyVotes, VoteResult
  <2>2. CASE s.state = "StatePreCandidate"
    <3> DEFINE t == campaignElection(s, FALSE)
    <3>1. t \in Node /\ BallotStep(s, t) /\ Evidence(t, N)
      BY <1>1, <2>2, CampaignElectionType, CampaignElectionBallot
    <3>2. handleVoteResp(r, m) = t BY <1>5, <1>8, <2>2 DEF afterPoll
    <3> HIDE DEF t
    <3> QED BY <1>4, <3>1, <3>2
  <2>3. CASE s.state = "StateCandidate"
    <3> DEFINE led == becomeLeader(s)
               t == bcastAppend(led)
    <3>1. led \in Node /\ BallotStep(s, led) /\ Evidence(led, N) /\ led.Term > 0
      BY <1>1, <1>3, <2>1, <2>3, BecomeLeaderType, BecomeLeaderBallot
    <3>2. handleVoteResp(r, m) = t BY <1>5, <1>8, <2>3 DEF afterPoll
    <3> HIDE DEF led
    <3>3. Quiet(led, t) /\ t \in Node BY <3>1, BcastAppendQuiet, BcastAppendType
    <3> HIDE DEF t
    <3>4. BallotStep(s, t) BY <3>1, <3>3, BallotThenQuiet
    <3>5. Evidence(t, N) BY <3>1, <3>3, QuietKeepsEvidence
    <3> QED BY <1>4, <3>2, <3>3, <3>4, <3>5
  <2> QED BY <1>1, <2>2, <2>3
<1>9. result \in {"VotePending", "VoteLost", "VoteWon"} BY DEF TallyVotes, VoteResult
<1> QED BY <1>6, <1>7, <1>8, <1>9

\* A vote is given in the voter's term, and only if the term's vote is free or
\* was given to the same candidate.
LEMMA HandleVoteBallot ==
    ASSUME NEW r \in Node, NEW m \in Message, NEW N, Evidence(r, N),
           m.type \in {"MsgVote", "MsgPreVote"},
           m.type = "MsgVote" => m.term = r.Term /\ m.term > 0
    PROVE  BallotStep(r, handleVote(r, m)) /\ Evidence(handleVote(r, m), N)
<1> DEFINE resp == Msg(voteRespMsgType(m.type), r.id, m.from)
           granting == [r EXCEPT !.Vote = m.from, !.expired = FALSE]
           refusal == [resp EXCEPT !.term = r.Term, !.reject = TRUE]
           grant == [resp EXCEPT !.term = m.term]
           s == send(granting, grant)
<1>1. r.Term \in Nat /\ m.term \in Nat /\ m.from \in Server /\ r.id \in Server
  BY DEF Node, Message
<1>2. /\ resp \in Message /\ resp.type = voteRespMsgType(m.type)
      /\ resp.from = r.id /\ resp.to = m.from
  BY <1>1, MsgIsMessage DEF voteRespMsgType, MsgType, Msg
<1> HIDE DEF resp
<1>3. /\ refusal \in Message /\ refusal.type \in {"MsgVoteResp", "MsgPreVoteResp"}
      /\ refusal.reject
  BY <1>1, <1>2 DEF Message, voteRespMsgType
<1>4. /\ grant \in Message /\ grant.type = voteRespMsgType(m.type) /\ grant.term = m.term
      /\ grant.from = r.id /\ grant.to = m.from
  BY <1>1, <1>2 DEF Message
<1>5. granting \in Node BY <1>1 DEF Node
<1>6. /\ granting.msgs = r.msgs /\ granting.after = r.after /\ granting.id = r.id
      /\ granting.voters = r.voters /\ granting.steps = r.steps /\ granting.Term = r.Term
      /\ granting.Vote = m.from /\ granting.state = r.state /\ granting.granted = r.granted
  BY DEF Node
<1>7. /\ ~(canVote(r, m) /\ isUpToDate(r.log, m.index, m.logTerm))
         => handleVote(r, m) = send(r, refusal)
      /\ canVote(r, m) /\ m.type = "MsgPreVote"
         => handleVote(r, m) \in {send(r, refusal), send(r, grant)}
      /\ canVote(r, m) /\ m.type # "MsgPreVote" => handleVote(r, m) \in {send(r, refusal), s}
  BY DEF handleVote, resp
<1> HIDE DEF refusal, grant, granting
<1>8. Quiet(r, send(r, refusal)) BY <1>3, SendPlain DEF Granted
<1>9. m.type = "MsgPreVote" => Quiet(r, send(r, grant))
  BY <1>4, SendPlain DEF Granted, voteRespMsgType
<1>10. ASSUME canVote(r, m), m.type # "MsgPreVote"
       PROVE  BallotStep(r, s) /\ Evidence(s, N)
  <2>1. m.type = "MsgVote" /\ m.term = r.Term /\ r.Term > 0 /\ (r.Vote = m.from \/ r.Vote = Nil)
    BY <1>10 DEF canVote
  <2>2. /\ s.id = granting.id /\ s.voters = granting.voters /\ s.steps = granting.steps
        /\ s.Term = granting.Term /\ s.Vote = granting.Vote /\ s.state = granting.state
        /\ s.granted = granting.granted
        /\ \A n \in Boxes(s) : n \in Boxes(granting) \/ n = Outgoing(granting, grant)
    BY <1>4, <1>5, SendBoxes
  <2>3. Boxes(granting) = Boxes(r) BY <1>6, SameBoxes
  <2>4. Outgoing(granting, grant) = grant BY <1>4 DEF Outgoing, VoteTypes, voteRespMsgType
  <2>5. Stamped(grant) /\ grant.from = s.id /\ grant.term = s.Term /\ grant.to = s.Vote
    BY <1>1, <1>4, <1>6, <2>1, <2>2 DEF Stamped
  <2> HIDE DEF s
  <2>6. BallotStep(r, s) BY <1>1, <1>6, <2>1, <2>2, <2>3, <2>4, <2>5 DEF BallotStep
  <2>7. r.state \in {"StateCandidate", "StateLeader"} => s.Vote = s.id
    <3>1. ASSUME r.state \in {"StateCandidate", "StateLeader"} PROVE m.from = r.id
      <4>1. r.Vote = r.id /\ r.Vote # Nil BY <1>1, <3>1, ServerAssumption DEF Evidence
      <4> QED BY <2>1, <4>1
    <3> QED BY <1>6, <2>2, <3>1
  <2>8. Evidence(s, N) BY <1>6, <2>2, <2>7 DEF Evidence
  <2> QED BY <2>6, <2>8
<1>11. \A q \in {send(r, refusal), send(r, grant)} :
         Quiet(r, q) => BallotStep(r, q) /\ Evidence(q, N)
  BY QuietIsBallot, QuietKeepsEvidence
<1> QED BY <1>7, <1>8, <1>9, <1>10, <1>11

----------------------------------------------------------------------------
(* Step and the ticks *)

\* Once Step has compared the terms, what is of a campaign or from a leader is
\* of the server's own term.
OfThisTerm(r, m) ==
    m.type \in {"MsgVote", "MsgApp", "MsgHeartbeat"} \/ Granted(m) => m.term = r.Term /\ m.term > 0

\* A grant is in the network, or it is the server's own.
Given(r, m, N) == Granted(m) => m.from = r.id \/ (m \in N /\ m.to = r.id)

LEMMA ForwardQuiet ==
    ASSUME NEW r \in Node, NEW m \in Message, m.type \in {"MsgProp", "MsgTransferLeader"}
    PROVE  Quiet(r, forward(r, m))
<1> DEFINE n == [m EXCEPT !.to = r.lead]
<1>1. ASSUME r.lead # Nil PROVE Quiet(r, send(r, n))
  <2>1. n \in Message /\ n.type = m.type BY <1>1 DEF Node, Message
  <2> HIDE DEF n
  <2> QED BY <2>1, SendPlain DEF Granted
<1> HIDE DEF n
<1>2. forward(r, m) = IF r.lead = Nil THEN r ELSE send(r, n) BY DEF forward, n
<1> QED BY <1>1, <1>2, QuietRefl

LEMMA StepFollowerBallot ==
    ASSUME NEW r \in Node, NEW m \in Message, NEW N, Evidence(r, N)
    PROVE  BallotStep(r, stepFollower(r, m)) /\ Evidence(stepFollower(r, m), N)
<1> DEFINE heard == [r EXCEPT !.expired = FALSE, !.lead = m.from]
<1>1. heard \in Node BY DEF Node, Message
<1>2. Quiet(r, heard)
  <2>1. heard.msgs = r.msgs /\ heard.after = r.after BY DEF Node
  <2>2. Boxes(heard) = Boxes(r) BY <2>1, SameBoxes
  <2> QED BY <2>2 DEF Quiet, Node
<1> HIDE DEF heard
<1>3. Quiet(r, handleAppendEntries(heard, m)) /\ Quiet(r, handleHeartbeat(heard, m))
  BY <1>1, <1>2, HandleAppendEntriesQuiet, HandleHeartbeatQuiet, QuietTrans
<1>4. m.type \in {"MsgProp", "MsgTransferLeader"} => Quiet(r, forward(r, m)) BY ForwardQuiet
<1>5. BallotStep(r, hup(r, TRUE)) /\ Evidence(hup(r, TRUE), N) BY HupBallot
<1>6. \/ Quiet(r, stepFollower(r, m))
      \/ stepFollower(r, m) = hup(r, TRUE)
  BY <1>3, <1>4, QuietRefl DEF stepFollower, heard
<1> QED BY <1>5, <1>6, QuietIsBallot, QuietKeepsEvidence

LEMMA StepCandidateBallot ==
    ASSUME NEW r \in Node, NEW m \in Message, NEW N, Evidence(r, N), r.voters = Server,
           r.state \in {"StateCandidate", "StatePreCandidate"}, OfThisTerm(r, m), Given(r, m, N)
    PROVE  BallotStep(r, stepCandidate(r, m)) /\ Evidence(stepCandidate(r, m), N)
<1>1. m.term \in Nat /\ m.from \in Server /\ r.Term \in Nat BY DEF Message, Node
<1>2. CASE m.type \in {"MsgApp", "MsgHeartbeat"}
  <2> DEFINE s == becomeFollower(r, m.term, m.from)
             t == stepCandidate(r, m)
  <2>1. m.term >= r.Term BY <1>1, <1>2 DEF OfThisTerm
  <2>2. s \in Node /\ BallotStep(r, s) /\ s.state = "StateFollower"
    BY <1>1, <2>1, BecomeFollowerType, BecomeFollowerBallot
  <2>3. t \in {handleAppendEntries(s, m), handleHeartbeat(s, m)} BY <1>2 DEF stepCandidate
  <2> HIDE DEF s, t
  <2>4. Quiet(s, t) BY <2>2, <2>3, HandleAppendEntriesQuiet, HandleHeartbeatQuiet
  <2>5. t.state = "StateFollower" BY <2>2, <2>4 DEF Quiet
  <2> QED BY <2>2, <2>4, <2>5, BallotThenQuiet, NoRoleNoEvidence DEF t
<1>3. CASE m.type \in {"MsgVoteResp", "MsgPreVoteResp"} /\ stepCandidate(r, m) = handleVoteResp(r, m)
           /\ (r.state = "StateCandidate" => m.type = "MsgVoteResp")
  <2>1. r.state = "StateCandidate" /\ ~m.reject =>
          m.from = r.id \/ Backed(N, m.from, r.id, r.Term)
    BY <1>3 DEF Given, Granted, OfThisTerm, Backed
  <2> QED BY <1>3, <2>1, HandleVoteRespBallot
<1>4. CASE stepCandidate(r, m) = r BY <1>4, QuietRefl, QuietIsBallot
<1> QED BY <1>2, <1>3, <1>4 DEF stepCandidate

LEMMA StepRoleBallot ==
    ASSUME NEW r \in Node, NEW m \in Message, NEW N, Evidence(r, N), r.voters = Server,
           OfThisTerm(r, m), Given(r, m, N)
    PROVE  BallotStep(r, stepRole(r, m)) /\ Evidence(stepRole(r, m), N)
<1>1. CASE m.type \in {"MsgVote", "MsgPreVote"}
  BY <1>1, HandleVoteBallot DEF stepRole, OfThisTerm
<1>2. CASE m.type \notin {"MsgVote", "MsgPreVote"} /\ r.state = "StateLeader"
  <2>1. Quiet(r, stepLeader(r, m)) BY <1>2, StepLeaderQuiet DEF Evidence
  <2> QED BY <1>2, <2>1, QuietIsBallot, QuietKeepsEvidence DEF stepRole
<1>3. CASE m.type \notin {"MsgVote", "MsgPreVote"} /\ r.state = "StateFollower"
  BY <1>3, StepFollowerBallot DEF stepRole
<1>4. CASE /\ m.type \notin {"MsgVote", "MsgPreVote"}
           /\ r.state \in {"StateCandidate", "StatePreCandidate"}
  BY <1>4, StepCandidateBallot DEF stepRole
<1>5. r.state \in StateType BY DEF Node
<1> QED BY <1>1, <1>2, <1>3, <1>4, <1>5 DEF StateType

LEMMA StepLowerTermQuiet ==
    ASSUME NEW r \in Node, NEW m \in Message
    PROVE  Quiet(r, stepLowerTerm(r, m))
<1> DEFINE ack == Msg("MsgAppResp", r.id, m.from)
           resp == Msg("MsgPreVoteResp", r.id, m.from)
           refusal == [resp EXCEPT !.term = r.Term, !.reject = TRUE]
<1>1. r.Term \in Nat /\ r.id \in Server /\ m.from \in Server BY DEF Node, Message
<1>2. ack \in Message /\ ack.type = "MsgAppResp" BY <1>1, MsgIsMessage DEF MsgType, Msg
<1>3. resp \in Message /\ resp.type = "MsgPreVoteResp" BY <1>1, MsgIsMessage DEF MsgType, Msg
<1> HIDE DEF ack, resp
<1>4. refusal \in Message /\ refusal.type = "MsgPreVoteResp" BY <1>1, <1>3 DEF Message
<1> HIDE DEF refusal
<1>5. Quiet(r, send(r, ack)) /\ Quiet(r, send(r, refusal))
  BY <1>2, <1>4, SendPlain DEF Granted
<1>6. stepLowerTerm(r, m) \in {r, send(r, ack), send(r, refusal)}
  BY DEF stepLowerTerm, ack, resp, refusal
<1> QED BY <1>5, <1>6, QuietRefl

\* What one message may do to a server: at most one vote is given and recorded,
\* and a leader that comes of it has its quorum of grants.
LEMMA StepBallot ==
    ASSUME NEW r \in Node, NEW m \in Message, NEW N, Evidence(r, N), r.voters = Server,
           Stamped(m), Given(r, m, N)
    PROVE  BallotStep(r, Step(r, m)) /\ Evidence(Step(r, m), N)
<1>0. r.Term \in Nat /\ m.term \in Nat /\ m.from \in Server BY DEF Node, Message
<1>1. CASE m.term # 0 /\ m.term < r.Term
  BY <1>1, StepLowerTermQuiet, QuietIsBallot, QuietKeepsEvidence DEF Step
<1>2. CASE m.term > r.Term /\ ignoresVote(r, m)
  <2>1. Step(r, m) = r BY <1>0, <1>2 DEF Step
  <2> QED BY <2>1, QuietRefl, QuietIsBallot
<1>3. CASE m.term > r.Term /\ ~ignoresVote(r, m)
  <2> DEFINE s == adoptTerm(r, m)
  <2>1. Step(r, m) = stepRole(s, m) BY <1>0, <1>3 DEF Step
  <2>2. CASE m.type = "MsgPreVote" \/ (m.type = "MsgPreVoteResp" /\ ~m.reject)
    <3>1. s = r /\ OfThisTerm(r, m) BY <2>2 DEF adoptTerm, OfThisTerm, Granted
    <3> QED BY <2>1, <3>1, StepRoleBallot
  <2>3. CASE ~(m.type = "MsgPreVote" \/ (m.type = "MsgPreVoteResp" /\ ~m.reject))
    <3> DEFINE lead == IF m.type \in {"MsgApp", "MsgHeartbeat"} THEN m.from ELSE Nil
    <3>1. s = becomeFollower(r, m.term, lead) BY <2>3 DEF adoptTerm
    <3>2. lead \in Server \cup {Nil} /\ m.term >= r.Term BY <1>0, <1>3
    <3> HIDE DEF s, lead
    <3>3. /\ s \in Node /\ BallotStep(r, s) /\ Boxes(s) = Boxes(r)
          /\ s.Term = m.term /\ s.state = "StateFollower"
      BY <1>0, <3>1, <3>2, BecomeFollowerType, BecomeFollowerBallot
    <3>4. Evidence(s, N) BY <3>3, NoRoleNoEvidence
    <3>5. s.voters = Server /\ Given(s, m, N) /\ OfThisTerm(s, m)
      BY <3>3 DEF BallotStep, Given, OfThisTerm, Stamped
    <3>6. BallotStep(s, stepRole(s, m)) /\ Evidence(stepRole(s, m), N)
      BY <3>3, <3>4, <3>5, StepRoleBallot
    <3>7. stepRole(s, m) \in Node BY <3>3, StepRoleType
    <3>8. BallotStep(r, stepRole(s, m)) BY <3>3, <3>6, <3>7, AdoptThenBallot
    <3>9. Step(r, m) = stepRole(s, m) BY <2>1 DEF s
    <3> QED BY <3>6, <3>8, <3>9
  <2> QED BY <2>2, <2>3
<1>4. CASE ~(m.term > r.Term) /\ ~(m.term # 0 /\ m.term < r.Term)
  <2>1. Step(r, m) = stepRole(r, m) BY <1>0, <1>4 DEF Step
  <2>2. OfThisTerm(r, m) BY <1>0, <1>4 DEF OfThisTerm, Stamped
  <2> QED BY <2>1, <2>2, StepRoleBallot
<1> QED BY <1>1, <1>2, <1>3, <1>4

LEMMA TickElectionBallot ==
    ASSUME NEW r \in Node, NEW past \in BOOLEAN, NEW N, Evidence(r, N)
    PROVE  BallotStep(r, tickElection(r, past)) /\ Evidence(tickElection(r, past), N)
<1>1. ASSUME NEW e \in BOOLEAN
      PROVE  [r EXCEPT !.expired = e] \in Node /\ Quiet(r, [r EXCEPT !.expired = e])
             /\ Boxes([r EXCEPT !.expired = e]) = Boxes(r)
  <2> DEFINE s == [r EXCEPT !.expired = e]
  <2>1. s \in Node BY DEF Node
  <2>2. s.msgs = r.msgs /\ s.after = r.after BY DEF Node
  <2>3. Boxes(s) = Boxes(r) BY <2>2, SameBoxes
  <2>4. Quiet(r, s) BY <2>3 DEF Quiet, Node
  <2> QED BY <2>1, <2>3, <2>4
<1> DEFINE s == [r EXCEPT !.expired = FALSE]
           t == hup(s, FALSE)
<1>2. s \in Node /\ Quiet(r, s) /\ Boxes(s) = Boxes(r) BY <1>1
<1>3. BallotStep(r, s) /\ Evidence(s, N) BY <1>2, QuietIsBallot, QuietKeepsEvidence
<1> HIDE DEF s
<1>4. t \in Node /\ BallotStep(s, t) /\ Evidence(t, N) BY <1>2, <1>3, HupType, HupBallot
<1>5. BallotStep(r, t) BY <1>2, <1>3, <1>4, AdoptThenBallot
<1>6. tickElection(r, past) \in {t, [r EXCEPT !.expired = TRUE]} BY DEF tickElection, s
<1>7. BallotStep(r, [r EXCEPT !.expired = TRUE]) /\ Evidence([r EXCEPT !.expired = TRUE], N)
  BY <1>1, QuietIsBallot, QuietKeepsEvidence
<1> QED BY <1>4, <1>5, <1>6, <1>7

LEMMA TickHeartbeatBallot ==
    ASSUME NEW r \in Node, NEW timedOut \in BOOLEAN, NEW beat \in BOOLEAN, NEW N, Evidence(r, N)
    PROVE  /\ BallotStep(r, tickHeartbeat(r, timedOut, beat))
           /\ Evidence(tickHeartbeat(r, timedOut, beat), N)
<1> DEFINE c == IF QuorumActive(r) THEN r ELSE becomeFollower(r, r.Term, Nil)
           d == [c EXCEPT !.prs = [p \in Server |-> IF p = r.id THEN @[p]
                                            ELSE [@[p] EXCEPT !.RecentActive = FALSE]]]
           s == IF timedOut /\ CheckQuorum THEN checkQuorum(r) ELSE r
           t == IF timedOut /\ s.state = "StateLeader" THEN [s EXCEPT !.leadTransferee = Nil] ELSE s
           u == IF beat /\ t.state = "StateLeader" THEN bcastHeartbeat(t) ELSE t
<1>0. r.Term \in Nat /\ r.Term >= r.Term BY DEF Node
<1>1. c \in Node /\ BallotStep(r, c) /\ Evidence(c, N)
  <2>1. becomeFollower(r, r.Term, Nil) \in Node /\ BallotStep(r, becomeFollower(r, r.Term, Nil))
        /\ becomeFollower(r, r.Term, Nil).state = "StateFollower"
    BY <1>0, BecomeFollowerType, BecomeFollowerBallot
  <2> QED BY <2>1, NoRoleNoEvidence, QuietRefl, QuietIsBallot
<1> HIDE DEF c
<1>2. Quiet(c, d)
  <2>1. d.msgs = c.msgs /\ d.after = c.after BY <1>1 DEF Node
  <2>2. Boxes(d) = Boxes(c) BY <2>1, SameBoxes
  <2> QED BY <1>1, <2>2 DEF Quiet, Node
<1>3. checkQuorum(r) = d BY DEF checkQuorum, c
<1> HIDE DEF d
<1>4. BallotStep(r, d) /\ Evidence(d, N) BY <1>1, <1>2, BallotThenQuiet, QuietKeepsEvidence
<1>5. s \in Node /\ BallotStep(r, s) /\ Evidence(s, N)
  BY <1>3, <1>4, CheckQuorumType, QuietRefl, QuietIsBallot
<1> HIDE DEF s
<1>6. t \in Node /\ Quiet(s, t)
  <2> DEFINE q == [s EXCEPT !.leadTransferee = Nil]
  <2>1. q \in Node BY <1>5 DEF Node
  <2>2. q.msgs = s.msgs /\ q.after = s.after BY <1>5 DEF Node
  <2>3. Boxes(q) = Boxes(s) BY <2>2, SameBoxes
  <2>4. Quiet(s, q) BY <1>5, <2>3 DEF Quiet, Node
  <2> QED BY <1>5, <2>1, <2>4, QuietRefl
<1> HIDE DEF t
<1>7. BallotStep(r, t) /\ Evidence(t, N) BY <1>5, <1>6, BallotThenQuiet, QuietKeepsEvidence
<1>8. Quiet(t, u) BY <1>6, <1>7, BcastHeartbeatQuiet, QuietRefl DEF Evidence
<1>9. tickHeartbeat(r, timedOut, beat) = u BY DEF tickHeartbeat, t, s
<1> HIDE DEF u
<1> QED BY <1>7, <1>8, <1>9, BallotThenQuiet, QuietKeepsEvidence

----------------------------------------------------------------------------
(* What a server's step, its disk, and a restart do to the whole group *)

LEMMA BoxesType == ASSUME NEW r \in Node PROVE Boxes(r) \subseteq Message
<1> SUFFICES ASSUME NEW d \in Server
             PROVE  Range(r.msgs[d]) \subseteq Message /\ Range(r.after[d]) \subseteq Message
  BY DEF Boxes
<1>1. r.msgs[d] \in Seq(Message) /\ r.after[d] \in Seq(Message) BY DEF Node
<1>2. \A s \in Seq(Message) : Range(s) \subseteq Message
  <2> TAKE s \in Seq(Message)
  <2>1. Range(s) = {s[k] : k \in 1..Len(s)} BY RangeEquality
  <2> QED BY <2>1, ElementOfSeq
<1> QED BY <1>1, <1>2

\* A server stands by a vote it gave, whatever ballot it goes through.
LEMMA StoodByBallot ==
    ASSUME NEW r \in Node, NEW s \in Node, NEW m \in Message, BallotStep(r, s), StoodBy(m, r)
    PROVE  StoodBy(m, s)
<1>1. r.Term \in Nat /\ s.Term \in Nat /\ m.term \in Nat /\ m.to # Nil
  BY ServerAssumption DEF Node, Message
<1> QED BY <1>1 DEF BallotStep, StoodBy

\* A vote that is on disk is one the server stands by.
LEMMA StoodByDisk ==
    ASSUME NEW r \in Node, NEW hs \in HardState, NEW m \in Message, Durable(r, hs), StoodBy(m, hs)
    PROVE  StoodBy(m, r)
<1>1. r.Term \in Nat /\ hs.Term \in Nat /\ m.term \in Nat /\ m.to # Nil
  BY ServerAssumption DEF Node, Message, HardState
<1> QED BY <1>1 DEF Durable, StoodBy

\* A server may go through a ballot.
LEMMA BallotKeeps ==
    ASSUME NEW nd \in [Server -> Node], NEW dk \in [Server -> Disk], NEW nt \in SUBSET Message,
           ElectionInvariant(nd, dk, nt), NEW i \in Server, NEW s \in Node,
           BallotStep(nd[i], s), Evidence(s, nt)
    PROVE  ElectionInvariant([nd EXCEPT ![i] = s], dk, nt)
<1> DEFINE r == nd[i]
           hs == dk[i].hs
           nw == [nd EXCEPT ![i] = s]
           New(m) == Granted(m) => m.from = i /\ m.term = s.Term /\ m.to = s.Vote
<1>1. r \in Node /\ hs \in HardState BY DEF Disk
<1>2. nw \in [Server -> Node] /\ nw[i] = s /\ \A k \in Server \ {i} : nw[k] = nd[k] OBVIOUS
<1>3. /\ s.id = i /\ s.voters = Server /\ r.id = i
      /\ \A m \in Boxes(s) : m \in Boxes(r) \/ (Stamped(m) /\ New(m))
      /\ s.steps = r.steps /\ Boxes(s) \subseteq Message
  BY BoxesType DEF ElectionInvariant, BallotStep
<1>4. Durable(s, hs)
  <2>1. r.Term \in Nat /\ s.Term \in Nat /\ hs.Term \in Nat BY <1>1 DEF Node, HardState
  <2>2. Durable(r, hs) BY DEF ElectionInvariant
  <2> QED BY <2>1, <2>2 DEF Durable, BallotStep
<1>5. \A m \in Boxes(s) : Stamped(m) /\ (Granted(m) => m.from = i /\ StoodBy(m, s))
  <2> TAKE m \in Boxes(s)
  <2>1. CASE m \in Boxes(r)
    <3>1. Stamped(m) /\ (Granted(m) => m.from = i /\ StoodBy(m, r))
      BY <2>1 DEF ElectionInvariant
    <3>2. m \in Message BY <1>3
    <3> QED BY <1>1, <3>1, <3>2, StoodByBallot
  <2>2. CASE Stamped(m) /\ New(m)
    <3>1. s.Term \in Nat BY DEF Node
    <3> QED BY <2>2, <3>1 DEF StoodBy
  <2> QED BY <1>3, <2>1, <2>2
<1>6. \A m \in nt : Granted(m) /\ m.from = i => StoodBy(m, s)
  BY <1>1, <1>4, StoodByDisk DEF ElectionInvariant
<1>7. ASSUME NEW k \in Server, NEW m \in Boxes(nw[k]) \cup nt, NEW n \in Boxes(nw[k]) \cup nt,
             Granted(m), Granted(n), m.from = k, n.from = k, m.term = n.term
      PROVE  m.to = n.to
  <2>1. CASE k # i BY <1>2, <1>7, <2>1 DEF ElectionInvariant
  <2>2. CASE k = i /\ m.term = s.Term
    BY <1>2, <1>5, <1>6, <1>7, <2>2 DEF StoodBy
  <2>3. CASE k = i /\ m.term # s.Term
    <3>1. m \in Boxes(r) \cup nt /\ n \in Boxes(r) \cup nt BY <1>2, <1>3, <1>7, <2>3
    <3> QED BY <1>7, <2>3, <3>1 DEF ElectionInvariant
  <2> QED BY <2>1, <2>2, <2>3
<1> HIDE DEF nw
<1>8. \A k \in Server : nw[k].id = k /\ nw[k].voters = Server
  BY <1>2, <1>3 DEF ElectionInvariant
<1>9. \A k \in Server : Durable(nw[k], dk[k].hs) BY <1>2, <1>4 DEF ElectionInvariant
<1>10. \A k \in Server : \A m \in Boxes(nw[k]) :
         Stamped(m) /\ (Granted(m) => m.from = k /\ StoodBy(m, nw[k]))
  BY <1>2, <1>5 DEF ElectionInvariant
<1>11. \A k \in Server : \A m \in Range(nw[k].steps) : Stamped(m) /\ (Granted(m) => m.from = k)
  BY <1>2, <1>3 DEF ElectionInvariant
<1>12. \A k \in Server : Evidence(nw[k], nt) BY <1>2 DEF ElectionInvariant
<1>13. ElectionInvariant(nw, dk, nt)
  BY <1>7, <1>8, <1>9, <1>10, <1>11, <1>12 DEF ElectionInvariant
<1> QED BY <1>13 DEF nw

\* A server may write its hard state, and then send what waits in its outboxes.
LEMMA WriteKeeps ==
    ASSUME NEW nd \in [Server -> Node], NEW dk \in [Server -> Disk], NEW nt \in SUBSET Message,
           ElectionInvariant(nd, dk, nt), NEW i \in Server, NEW d \in Disk,
           d.hs = hardState(nd[i]), NEW M \in SUBSET Boxes(nd[i])
    PROVE  ElectionInvariant(nd, [dk EXCEPT ![i] = d], nt \cup M)
<1> DEFINE r == nd[i]
           dw == [dk EXCEPT ![i] = d]
           nn == nt \cup M
<1>1. r \in Node /\ dk[i].hs \in HardState /\ d.hs.Term = r.Term /\ d.hs.Vote = r.Vote
  BY DEF Disk, hardState
<1>2. dw[i] = d /\ \A k \in Server \ {i} : dw[k] = dk[k] OBVIOUS
<1>3. \A k \in Server : Durable(nd[k], dw[k].hs)
  <2>1. r.Term \in Nat BY <1>1 DEF Node
  <2> QED BY <1>1, <1>2, <2>1 DEF ElectionInvariant, Durable
<1>4. ASSUME NEW m \in nn PROVE Stamped(m) /\ (Granted(m) => StoodBy(m, dw[m.from].hs))
  <2>0. m \in Message /\ m.from \in Server BY <1>1, BoxesType DEF Message
  <2>1. CASE m \in M
    <3>1. Stamped(m) /\ (Granted(m) => m.from = i /\ StoodBy(m, r))
      BY <2>1 DEF ElectionInvariant
    <3> QED BY <1>1, <1>2, <3>1 DEF StoodBy
  <2>2. CASE m \in nt
    <3>1. Stamped(m) /\ (Granted(m) => StoodBy(m, dk[m.from].hs))
      BY <2>2 DEF ElectionInvariant
    <3>2. Granted(m) /\ m.from = i => StoodBy(m, r)
      BY <1>1, <2>0, <3>1, StoodByDisk DEF ElectionInvariant
    <3> QED BY <1>1, <1>2, <2>0, <3>1, <3>2 DEF StoodBy
  <2> QED BY <2>1, <2>2
<1>5. ASSUME NEW k \in Server, NEW m \in Boxes(nd[k]) \cup nn, NEW n \in Boxes(nd[k]) \cup nn,
             Granted(m), Granted(n), m.from = k, n.from = k, m.term = n.term
      PROVE  m.to = n.to
  <2>1. \A q \in M : Granted(q) => q.from = i BY DEF ElectionInvariant
  <2>2. m \in Boxes(nd[k]) \cup nt /\ n \in Boxes(nd[k]) \cup nt BY <1>5, <2>1
  <2> QED BY <1>5, <2>2 DEF ElectionInvariant
<1>6. \A k \in Server : Evidence(nd[k], nn)
  <2>1. \A k \in Server : Evidence(nd[k], nt) BY DEF ElectionInvariant
  <2>2. nt \subseteq nn OBVIOUS
  <2> HIDE DEF nn
  <2> QED BY <2>1, <2>2, MoreEvidence
<1> HIDE DEF nn, dw
<1>7. ElectionInvariant(nd, dw, nn) BY <1>3, <1>4, <1>5, <1>6 DEF ElectionInvariant
<1> QED BY <1>7 DEF nn, dw

\* A server whose outboxes shrink, and that otherwise keeps its vote and role.
LEMMA EmptyKeeps ==
    ASSUME NEW nd \in [Server -> Node], NEW dk \in [Server -> Disk], NEW nt \in SUBSET Message,
           ElectionInvariant(nd, dk, nt), NEW i \in Server, NEW s \in Node,
           s.id = nd[i].id, s.voters = nd[i].voters, s.Term = nd[i].Term, s.Vote = nd[i].Vote,
           s.state = nd[i].state, s.granted = nd[i].granted, Boxes(s) \subseteq Boxes(nd[i]),
           Range(s.steps) \subseteq Range(nd[i].steps) \cup Boxes(nd[i])
    PROVE  ElectionInvariant([nd EXCEPT ![i] = s], dk, nt)
<1> DEFINE nw == [nd EXCEPT ![i] = s]
<1>1. nw[i] = s /\ \A k \in Server \ {i} : nw[k] = nd[k] OBVIOUS
<1> HIDE DEF nw
<1>2. \A k \in Server : nw[k].id = k /\ nw[k].voters = Server BY <1>1 DEF ElectionInvariant
<1>3. \A k \in Server : Durable(nw[k], dk[k].hs) BY <1>1 DEF ElectionInvariant, Durable
<1>4. \A k \in Server : Boxes(nw[k]) \subseteq Boxes(nd[k]) BY <1>1
<1>5. \A k \in Server : \A m \in Boxes(nw[k]) :
         Stamped(m) /\ (Granted(m) => m.from = k /\ StoodBy(m, nw[k]))
  BY <1>1, <1>4 DEF ElectionInvariant, StoodBy
<1>6. \A k \in Server : \A m \in Range(nw[k].steps) : Stamped(m) /\ (Granted(m) => m.from = k)
  BY <1>1 DEF ElectionInvariant
<1>7. \A k \in Server : \A m, n \in Boxes(nw[k]) \cup nt :
         Granted(m) /\ Granted(n) /\ m.from = k /\ n.from = k /\ m.term = n.term => m.to = n.to
  <2> TAKE k \in Server
  <2>1. Boxes(nw[k]) \subseteq Boxes(nd[k]) BY <1>4
  <2>2. \A m, n \in Boxes(nd[k]) \cup nt :
          Granted(m) /\ Granted(n) /\ m.from = k /\ n.from = k /\ m.term = n.term => m.to = n.to
    BY DEF ElectionInvariant
  <2> QED BY <2>1, <2>2
<1>8. \A k \in Server : Evidence(nw[k], nt) BY SMTT(60), <1>1 DEF ElectionInvariant, Evidence
<1>9. \A m \in nt : Stamped(m) /\ (Granted(m) => StoodBy(m, dk[m.from].hs))
  BY DEF ElectionInvariant
<1>10. ElectionInvariant(nw, dk, nt)
  BY <1>2, <1>3, <1>5, <1>6, <1>7, <1>8, <1>9 DEF ElectionInvariant
<1> QED BY <1>10 DEF nw

\* A Ready empties the outboxes; the server's own messages wait for Advance.
LEMMA AcceptReadyKeeps ==
    ASSUME NEW nd \in [Server -> Node], NEW dk \in [Server -> Disk], NEW nt \in SUBSET Message,
           ElectionInvariant(nd, dk, nt), NEW i \in Server
    PROVE  ElectionInvariant([nd EXCEPT ![i] = acceptReady(nd[i])], dk, nt)
<1> DEFINE r == nd[i]
           s == acceptReady(r)
<1>1. r \in Node /\ s \in Node /\ r.id \in Server BY AcceptReadyType DEF Node
<1>2. /\ s.id = r.id /\ s.voters = r.voters /\ s.Term = r.Term /\ s.Vote = r.Vote
      /\ s.state = r.state /\ s.granted = r.granted /\ s.steps = r.after[r.id]
      /\ \A d \in Server : s.msgs[d] = <<>> /\ s.after[d] = <<>>
  BY <1>1 DEF acceptReady, Node
<1> HIDE DEF s
<1>3. Range(<<>>) = {} BY DEF Range
<1>4. Boxes(s) = {} BY <1>2, <1>3 DEF Boxes
<1>5. Range(s.steps) \subseteq Boxes(r) BY <1>1, <1>2 DEF Boxes
<1> HIDE DEF r
<1>6. Boxes(s) \subseteq Boxes(r) /\ Range(s.steps) \subseteq Range(r.steps) \cup Boxes(r)
  BY <1>4, <1>5
<1> QED BY <1>1, <1>2, <1>6, EmptyKeeps DEF r, s

\* One message of Advance.
LEMMA AdvanceKeeps ==
    ASSUME NEW nd \in [Server -> Node], NEW dk \in [Server -> Disk], NEW nt \in SUBSET Message,
           ElectionInvariant(nd, dk, nt), NEW i \in Server, nd[i].steps # <<>>
    PROVE  ElectionInvariant([nd EXCEPT ![i] = advanceOne(nd[i])], dk, nt)
<1> DEFINE r == nd[i]
           rest == Tail(r.steps)
           m == Head(r.steps)
           p == [r EXCEPT !.steps = rest]
           s == Step(p, m)
           np == [nd EXCEPT ![i] = p]
<1>1. r \in Node /\ r.steps \in Seq(Message) BY DEF Node
<1>2. m \in Message /\ rest \in Seq(Message) BY <1>1, HeadTailProperties
<1>3. Range(rest) \subseteq Range(r.steps) /\ m \in Range(r.steps)
  <2>1. /\ r.steps # <<>> /\ Len(r.steps) \in Nat /\ m = r.steps[1]
        /\ Len(rest) = Len(r.steps) - 1 /\ \A k \in 1..Len(rest) : rest[k] = r.steps[k + 1]
    BY <1>1, HeadTailProperties, LenProperties
  <2>2. Range(rest) = {rest[k] : k \in 1..Len(rest)} BY <1>2, RangeEquality
  <2>3. Range(r.steps) = {r.steps[k] : k \in 1..Len(r.steps)} BY <1>1, RangeEquality
  <2>4. Len(r.steps) # 0 BY <1>1, <2>1, EmptySeq
  <2>5. 1 \in 1..Len(r.steps) BY <2>1, <2>4
  <2>6. \A k \in 1..Len(rest) : k + 1 \in 1..Len(r.steps) BY <2>1
  <2> HIDE DEF r, rest, m
  <2> QED BY <2>1, <2>2, <2>3, <2>5, <2>6
<1> HIDE DEF rest, m
<1>4. /\ p \in Node /\ p.id = r.id /\ p.voters = r.voters /\ p.Term = r.Term /\ p.Vote = r.Vote
      /\ p.state = r.state /\ p.granted = r.granted /\ p.steps = rest
      /\ p.msgs = r.msgs /\ p.after = r.after
  BY <1>1, <1>2 DEF Node
<1> HIDE DEF p
<1>5. Boxes(p) = Boxes(r) BY <1>4, SameBoxes
<1>6. ElectionInvariant(np, dk, nt) BY <1>3, <1>4, <1>5, EmptyKeeps
<1>7. np \in [Server -> Node] /\ np[i] = p BY <1>4
<1>8. Stamped(m) /\ (Granted(m) => m.from = p.id) /\ p.voters = Server
  BY <1>3, <1>4 DEF ElectionInvariant
<1>9. Evidence(p, nt) BY <1>6, <1>7 DEF ElectionInvariant
<1>10. s \in Node /\ BallotStep(p, s) /\ Evidence(s, nt)
  BY <1>2, <1>4, <1>8, <1>9, StepType, StepBallot DEF Given
<1> HIDE DEF s
<1>11. ElectionInvariant([np EXCEPT ![i] = s], dk, nt)
  <2> HIDE DEF np
  <2> QED BY <1>6, <1>7, <1>10, BallotKeeps
<1>12. [np EXCEPT ![i] = s] = [nd EXCEPT ![i] = s] OBVIOUS
<1>13. s = advanceOne(r) BY DEF advanceOne, s, p, m, rest
<1> QED BY <1>11, <1>12, <1>13

\* A server starts again from a disk that has its term and vote.
LEMMA RestartKeeps ==
    ASSUME NEW nd \in [Server -> Node], NEW dk \in [Server -> Disk], NEW nt \in SUBSET Message,
           ElectionInvariant(nd, dk, nt), NEW i \in Server, NEW e \in Disk,
           e.hs.Term = dk[i].hs.Term, e.hs.Vote = dk[i].hs.Vote
    PROVE  ElectionInvariant([nd EXCEPT ![i] = newRaft(i, Server, e.hs, e.log)],
                             [dk EXCEPT ![i] = e], nt)
<1> DEFINE s == newRaft(i, Server, e.hs, e.log)
           nw == [nd EXCEPT ![i] = s]
           dw == [dk EXCEPT ![i] = e]
<1>1. e.hs \in HardState /\ e.log \in Seq(Entry) BY DEF Disk
<1>2. /\ s.id = i /\ s.voters = Server /\ s.Term = e.hs.Term /\ s.Vote = e.hs.Vote
      /\ s.state = "StateFollower" /\ s.steps = <<>>
      /\ \A d \in Server : s.msgs[d] = <<>> /\ s.after[d] = <<>>
  BY DEF newRaft, restored, reset
<1> HIDE DEF s
<1>3. Range(<<>>) = {} BY DEF Range
<1>4. Boxes(s) = {} /\ Range(s.steps) = {} BY <1>2, <1>3 DEF Boxes
<1>5. /\ nw[i] = s /\ \A k \in Server \ {i} : nw[k] = nd[k]
      /\ dw[i] = e /\ \A k \in Server \ {i} : dw[k] = dk[k]
  OBVIOUS
<1> HIDE DEF nw, dw
<1>6. \A k \in Server : dw[k].hs.Term = dk[k].hs.Term /\ dw[k].hs.Vote = dk[k].hs.Vote BY <1>5
<1>7. \A k \in Server : nw[k].id = k /\ nw[k].voters = Server
  BY <1>2, <1>5 DEF ElectionInvariant
<1>8. \A k \in Server : Durable(nw[k], dw[k].hs)
  <2>1. e.hs.Term \in Nat BY <1>1 DEF HardState
  <2> QED BY <1>2, <1>5, <2>1 DEF ElectionInvariant, Durable
<1>9. \A k \in Server : \A m \in Boxes(nw[k]) :
        Stamped(m) /\ (Granted(m) => m.from = k /\ StoodBy(m, nw[k]))
  BY <1>4, <1>5 DEF ElectionInvariant
<1>10. \A k \in Server : \A m \in Range(nw[k].steps) : Stamped(m) /\ (Granted(m) => m.from = k)
  BY SMTT(60), <1>4, <1>5 DEF ElectionInvariant
<1>11. \A m \in nt : Stamped(m) /\ (Granted(m) => StoodBy(m, dw[m.from].hs))
  <2>1. \A m \in nt : m.from \in Server BY DEF Message
  <2> QED BY <1>6, <2>1 DEF ElectionInvariant, StoodBy
<1>12. \A k \in Server : \A m, n \in Boxes(nw[k]) \cup nt :
         Granted(m) /\ Granted(n) /\ m.from = k /\ n.from = k /\ m.term = n.term => m.to = n.to
  <2> TAKE k \in Server
  <2>1. Boxes(nw[k]) \subseteq Boxes(nd[k]) BY <1>4, <1>5
  <2>2. \A m, n \in Boxes(nd[k]) \cup nt :
          Granted(m) /\ Granted(n) /\ m.from = k /\ n.from = k /\ m.term = n.term => m.to = n.to
    BY DEF ElectionInvariant
  <2> QED BY <2>1, <2>2
<1>13. \A k \in Server : Evidence(nw[k], nt)
  <2>1. Evidence(s, nt) BY <1>2, NoRoleNoEvidence
  <2> QED BY <1>5, <2>1 DEF ElectionInvariant
<1>14. ElectionInvariant(nw, dw, nt)
  BY <1>7, <1>8, <1>9, <1>10, <1>11, <1>12, <1>13 DEF ElectionInvariant
<1> QED BY <1>14 DEF nw, dw, s

----------------------------------------------------------------------------
(* ElectionInv is an invariant of RaftCluster *)

\* An input that is a ballot at most, with or without its Ready.
LEMMA MovesKeeps ==
    ASSUME TypeOK, ElectionInv, NEW i \in Server, NEW r \in Node,
           BallotStep(node[i], r), Evidence(r, net), Moves(i, r)
    PROVE  ElectionInv'
<1> DEFINE nb == [node EXCEPT ![i] = r]
           na == [nb EXCEPT ![i] = acceptReady(nb[i])]
           dw == [disk EXCEPT ![i] = Written(disk[i], r)]
           nn == net \cup readyMessages(r)
<1>1. node \in [Server -> Node] /\ disk \in [Server -> Disk] /\ net \in SUBSET Message
  BY DEF TypeOK
<1>2. nb \in [Server -> Node] /\ nb[i] = r BY <1>1
<1>3. ElectionInvariant(nb, disk, net) BY <1>1, BallotKeeps DEF ElectionInv
<1>4. CASE MaxPending > 0 \/ r.panic BY <1>3, <1>4 DEF Moves, ElectionInv
<1>5. CASE ~(MaxPending > 0 \/ r.panic)
  <2>1. /\ node' = [node EXCEPT ![i] = Turn(r)]
        /\ disk' = dw /\ net' = nn
    BY <1>5 DEF Moves
  <2>2. Written(disk[i], r) \in Disk /\ Written(disk[i], r).hs = hardState(r)
    BY <1>1, WrittenType DEF Written
  <2>3. readyMessages(r) \in SUBSET Boxes(r) /\ readyMessages(r) \in SUBSET Message
    BY ReadyMessagesType DEF readyMessages, Boxes
  <2> HIDE DEF nb
  <2>4. ElectionInvariant(nb, dw, nn) BY <1>1, <1>2, <1>3, <2>2, <2>3, WriteKeeps
  <2>5. dw \in [Server -> Disk] /\ nn \in SUBSET Message BY <1>1, <2>2, <2>3
  <2> HIDE DEF dw, nn
  <2>6. ElectionInvariant(na, dw, nn) BY <1>2, <2>4, <2>5, AcceptReadyKeeps
  <2>7. na \in [Server -> Node] /\ na[i] = acceptReady(r) BY <1>2, AcceptReadyType
  <2>8. CASE acceptReady(r).steps = <<>>
    <3>1. Turn(r) = acceptReady(r) BY <2>8 DEF Turn
    <3>2. node' = na BY <1>2, <2>1, <3>1 DEF nb
    <3> QED BY <2>1, <2>6, <3>2 DEF ElectionInv
  <2>9. CASE acceptReady(r).steps # <<>>
    <3>1. Turn(r) = advanceOne(acceptReady(r)) BY <2>9 DEF Turn
    <3>2. node' = [na EXCEPT ![i] = advanceOne(na[i])] BY <1>1, <2>1, <2>7, <3>1 DEF nb
    <3> HIDE DEF na
    <3>3. ElectionInvariant([na EXCEPT ![i] = advanceOne(na[i])], dw, nn)
      BY <2>5, <2>6, <2>7, <2>9, AdvanceKeeps
    <3> QED BY <2>1, <3>2, <3>3 DEF ElectionInv
  <2> QED BY <2>8, <2>9
<1> QED BY <1>4, <1>5

\* A crash and restart from a disk d with the term and vote of server i's disk.
LEMMA RestartFromKeeps ==
    ASSUME NEW nd \in [Server -> Node], NEW dk \in [Server -> Disk], NEW nt \in SUBSET Message,
           ElectionInvariant(nd, dk, nt), NEW i \in Server, NEW d \in Disk,
           d.hs.Term = dk[i].hs.Term, d.hs.Vote = dk[i].hs.Vote,
           NEW c \in d.synced..d.hs.Commit
    PROVE  LET hs == [d.hs EXCEPT !.Commit = c]
           IN  ElectionInvariant([nd EXCEPT ![i] = newRaft(i, Server, hs, d.log)],
                                 [dk EXCEPT ![i] = [hs |-> hs, log |-> d.log, synced |-> c]], nt)
<1> DEFINE hs == [d.hs EXCEPT !.Commit = c]
           e == [hs |-> hs, log |-> d.log, synced |-> c]
<1>1. c \in Nat /\ d.log \in Seq(Entry) /\ d.hs \in HardState BY DEF Disk, HardState
<1>2. hs \in HardState /\ hs.Term = d.hs.Term /\ hs.Vote = d.hs.Vote BY <1>1 DEF HardState
<1> HIDE DEF hs
<1>3. e \in Disk /\ e.hs = hs /\ e.log = d.log BY <1>1, <1>2 DEF Disk
<1> HIDE DEF e
<1>4. ElectionInvariant([nd EXCEPT ![i] = newRaft(i, Server, e.hs, e.log)],
                        [dk EXCEPT ![i] = e], nt)
  BY <1>2, <1>3, RestartKeeps
<1> QED BY <1>3, <1>4 DEF e, hs

\* A restart, the disk and the network having been brought to d and nt before.
LEMMA RestartedKeeps ==
    ASSUME TypeOK, NEW i \in Server, NEW d \in Disk, NEW nt \in SUBSET Message,
           RestartFrom(i, d), ElectionInvariant(node, [disk EXCEPT ![i] = d], nt), net' = nt
    PROVE  ElectionInv'
<1> DEFINE dk == [disk EXCEPT ![i] = d]
<1>1. PICK c \in d.synced..d.hs.Commit :
        LET hs == [d.hs EXCEPT !.Commit = c]
        IN  /\ disk' = [disk EXCEPT ![i] = [hs |-> hs, log |-> d.log, synced |-> c]]
            /\ node' = [node EXCEPT ![i] = newRaft(i, Server, hs, d.log)]
  BY DEF RestartFrom
<1> DEFINE hs == [d.hs EXCEPT !.Commit = c]
           e == [hs |-> hs, log |-> d.log, synced |-> c]
<1>2. node \in [Server -> Node] /\ disk \in [Server -> Disk] BY DEF TypeOK
<1>3. dk \in [Server -> Disk] /\ dk[i] = d /\ [dk EXCEPT ![i] = e] = [disk EXCEPT ![i] = e]
  BY <1>2
<1>4. ElectionInvariant([node EXCEPT ![i] = newRaft(i, Server, hs, d.log)],
                        [dk EXCEPT ![i] = e], nt)
  <2> HIDE DEF dk
  <2>1. ElectionInvariant(node, dk, nt) BY DEF dk
  <2> QED BY <1>2, <1>3, <2>1, RestartFromKeeps
<1> QED BY <1>1, <1>3, <1>4 DEF ElectionInv

LEMMA ElectionInit == Init => ElectionInv
<1> SUFFICES ASSUME Init PROVE ElectionInv OBVIOUS
<1>1. ASSUME NEW i \in Server
      PROVE  /\ node[i].id = i /\ node[i].voters = Server /\ node[i].steps = <<>>
             /\ node[i].Term = 0 /\ node[i].Vote = Nil /\ node[i].state = "StateFollower"
             /\ \A d \in Server : node[i].msgs[d] = <<>> /\ node[i].after[d] = <<>>
             /\ disk[i].hs.Term = 0 /\ disk[i].hs.Vote = Nil
  BY DEF Init, newRaft, restored, reset, InitialHardState
<1>2. Range(<<>>) = {} BY DEF Range
<1>3. \A i \in Server : Boxes(node[i]) = {} /\ Range(node[i].steps) = {}
  BY <1>1, <1>2 DEF Boxes
<1>4. net = {} BY DEF Init
<1>5. \A i \in Server : Evidence(node[i], net) BY <1>1, NoRoleNoEvidence
<1>6. \A i \in Server : Durable(node[i], disk[i].hs) BY <1>1 DEF Durable
<1> QED BY <1>1, <1>3, <1>4, <1>5, <1>6 DEF ElectionInv, ElectionInvariant

LEMMA ElectionNext == TypeOK /\ ElectionInv /\ [Next]_vars => ElectionInv'
<1> SUFFICES ASSUME TypeOK, ElectionInv, [Next]_vars PROVE ElectionInv' OBVIOUS
<1>0. node \in [Server -> Node] /\ disk \in [Server -> Disk] /\ net \in SUBSET Message
  BY DEF TypeOK
<1>1. CASE UNCHANGED vars BY <1>1 DEF vars, ElectionInv
<1>2. ASSUME NEW i \in Server,
             \/ Tick(i) \/ LocalCall(i) \/ ReceiveAny(i)
             \/ Ready(i) \/ Advance(i) \/ Restart(i) \/ CrashInReady(i)
      PROVE  ElectionInv'
  <2> DEFINE r == node[i]
  <2>0. r \in Node /\ disk[i] \in Disk /\ r.id = i /\ r.voters = Server /\ Evidence(r, net)
    BY <1>0 DEF ElectionInv, ElectionInvariant
  <2> HIDE DEF r
  <2>1. ASSUME NEW s \in Node, BallotStep(r, s), Evidence(s, net), Moves(i, s)
        PROVE  ElectionInv'
    BY <2>1, MovesKeeps DEF r
  <2>2. ASSUME NEW m \in Message, Stamped(m), Given(r, m, net), Moves(i, Step(r, m))
        PROVE  ElectionInv'
    <3>1. Step(r, m) \in Node /\ BallotStep(r, Step(r, m)) /\ Evidence(Step(r, m), net)
      BY <2>0, <2>2, StepType, StepBallot
    <3> QED BY <2>1, <2>2, <3>1
  <2>3. ASSUME NEW past \in BOOLEAN, Moves(i, tickElection(r, past)) PROVE ElectionInv'
    BY <2>0, <2>1, <2>3, TickElectionType, TickElectionBallot
  <2>4. ASSUME NEW timedOut \in BOOLEAN, NEW beat \in BOOLEAN,
               Moves(i, tickHeartbeat(r, timedOut, beat))
        PROVE  ElectionInv'
    BY <2>0, <2>1, <2>4, TickHeartbeatType, TickHeartbeatBallot
  <2>5. CASE Tick(i)
    BY <2>3, <2>4, <2>5 DEF Tick, TickElection, TickLease, TickBeat, TickQuorum, r
  <2>6. CASE Propose(i)
    <3>1. PICK v \in Value :
            Moves(i, Step(r, [Msg("MsgProp", i, i) EXCEPT !.entries = <<[term |-> 0, val |-> v]>>]))
      BY <2>6 DEF Propose, r
    <3> DEFINE ents == <<[term |-> 0, val |-> v]>>
               msg == Msg("MsgProp", i, i)
               m == [msg EXCEPT !.entries = ents]
    <3>2. ents \in Seq(Entry) BY DEF Entry
    <3>3. msg \in Message /\ msg.type = "MsgProp" BY MsgIsMessage DEF MsgType, Msg
    <3>4. Moves(i, Step(r, m)) BY <3>1
    <3> HIDE DEF ents, msg
    <3>5. m \in Message /\ m.type = "MsgProp" BY <3>2, <3>3 DEF Message
    <3> HIDE DEF m
    <3> QED BY <2>2, <3>4, <3>5 DEF Stamped, Given, Granted
  <2>7. CASE TransferLeader(i)
    <3>1. PICK to \in Server : Moves(i, Step(r, Msg("MsgTransferLeader", to, i)))
      BY <2>7 DEF TransferLeader, r
    <3> DEFINE m == Msg("MsgTransferLeader", to, i)
    <3>2. m \in Message /\ m.type = "MsgTransferLeader" BY MsgIsMessage DEF MsgType, Msg
    <3> HIDE DEF m
    <3>3. Moves(i, Step(r, m)) BY <3>1 DEF m
    <3> QED BY <2>2, <3>2, <3>3 DEF Stamped, Given, Granted
  <2>8. CASE ReportUnreachable(i)
    <3>1. PICK id \in Server \ {i} : Moves(i, handleUnreachable(r, id))
      BY <2>8 DEF ReportUnreachable, r
    <3> DEFINE s == handleUnreachable(r, id)
    <3>2. s \in Node /\ Quiet(r, s) BY <2>0, HandleUnreachableType, HandleUnreachableQuiet
    <3>3. Moves(i, s) BY <3>1
    <3> HIDE DEF s
    <3> QED BY <2>0, <2>1, <3>2, <3>3, QuietIsBallot, QuietKeepsEvidence
  <2>9. ASSUME NEW types, Receive(i, types) PROVE ElectionInv'
    <3>1. PICK m \in net : m.to = i /\ Moves(i, Step(r, m)) BY <2>9 DEF Receive, r
    <3>2. m \in Message /\ Stamped(m) BY <1>0 DEF ElectionInv, ElectionInvariant
    <3>3. Given(r, m, net) BY <2>0, <3>1 DEF Given
    <3> QED BY <2>2, <3>1, <3>2, <3>3
  <2>10. CASE ReceiveAny(i)
    BY <2>9, <2>10 DEF ReceiveAny, ReceiveVote, ReceiveVoteResp, ReceiveApp, ReceiveAppResp,
       ReceiveHeartbeat, ReceiveHeartbeatResp, ReceiveTransferLeader, ReceiveProp,
       ReceiveTimeoutNow
  <2>11. CASE Ready(i)
    <3> DEFINE d == Written(disk[i], node[i])
               dw == [disk EXCEPT ![i] = d]
               nn == net \cup readyMessages(node[i])
    <3>1. d \in Disk /\ d.hs = hardState(node[i])
      BY <2>0, WrittenType DEF Written, r
    <3>2. /\ readyMessages(node[i]) \in SUBSET Boxes(node[i])
          /\ readyMessages(node[i]) \in SUBSET Message
      BY <2>0, ReadyMessagesType DEF readyMessages, Boxes, r
    <3>3. node' = [node EXCEPT ![i] = acceptReady(node[i])] /\ disk' = dw /\ net' = nn
      BY <2>11 DEF Ready
    <3> HIDE DEF d
    <3>4. ElectionInvariant(node, dw, nn) BY <1>0, <3>1, <3>2, WriteKeeps DEF ElectionInv
    <3>5. dw \in [Server -> Disk] /\ nn \in SUBSET Message BY <1>0, <3>1, <3>2
    <3> HIDE DEF dw, nn
    <3>6. ElectionInvariant([node EXCEPT ![i] = acceptReady(node[i])], dw, nn)
      BY <1>0, <3>4, <3>5, AcceptReadyKeeps
    <3> QED BY <3>3, <3>6 DEF ElectionInv
  <2>12. CASE Advance(i)
    <3>1. ElectionInvariant([node EXCEPT ![i] = advanceOne(node[i])], disk, net)
      BY <1>0, <2>12, AdvanceKeeps DEF Advance, ElectionInv
    <3> QED BY <2>12, <3>1 DEF Advance, ElectionInv
  <2>13. CASE Restart(i)
    <3>1. [disk EXCEPT ![i] = disk[i]] = disk BY <1>0
    <3> QED BY <1>0, <2>0, <2>13, <3>1, RestartedKeeps DEF Restart, ElectionInv
  <2>14. CASE CrashInReady(i)
    <3> DEFINE half == [disk[i] EXCEPT !.log = node[i].log]
               hard == [disk[i] EXCEPT !.hs = hardState(node[i])]
    <3>1. half \in Disk /\ half.hs = disk[i].hs BY <2>0 DEF Disk, Node, r
    <3>2. hardState(node[i]) \in HardState BY <2>0, HardStateType DEF r
    <3>3. hard \in Disk /\ hard.hs = hardState(node[i])
      <4> DEFINE hs == hardState(node[i])
      <4> HIDE DEF hs
      <4>1. [disk[i] EXCEPT !.hs = hs] \in Disk /\ [disk[i] EXCEPT !.hs = hs].hs = hs
        BY <2>0, <3>2 DEF Disk, hs
      <4> QED BY <4>1 DEF hs
    <3>4. /\ RestartFrom(i, half) \/ RestartFrom(i, hard)
          /\ net' = net
      BY <2>14 DEF CrashInReady
    <3> HIDE DEF half, hard
    <3>5. ElectionInvariant(node, [disk EXCEPT ![i] = half], net)
      <4>1. \A k \in Server : [disk EXCEPT ![i] = half][k].hs = disk[k].hs BY <1>0, <3>1
      <4>2. \A m \in net : m.from \in Server BY <1>0 DEF Message
      <4> DEFINE dk == [disk EXCEPT ![i] = half]
      <4> HIDE DEF dk
      <4>3. \A k \in Server : dk[k].hs = disk[k].hs BY <4>1 DEF dk
      <4>4. ElectionInvariant(node, dk, net)
        BY <4>2, <4>3 DEF ElectionInv, ElectionInvariant
      <4> QED BY <4>4 DEF dk
    <3>6. ElectionInvariant(node, [disk EXCEPT ![i] = hard], net)
      <4>1. ElectionInvariant(node, [disk EXCEPT ![i] = hard], net \cup {})
        BY <1>0, <3>3, WriteKeeps DEF ElectionInv
      <4>2. net \cup {} = net OBVIOUS
      <4> QED BY <4>1, <4>2
    <3> QED BY <1>0, <3>1, <3>3, <3>4, <3>5, <3>6, RestartedKeeps
  <2> QED BY <1>2, <2>5, <2>6, <2>7, <2>8, <2>10, <2>11, <2>12, <2>13, <2>14 DEF LocalCall
<1> QED BY <1>1, <1>2 DEF Next

\* Every vote that waits, travels or counts is one its sender stands by, in
\* every reachable state: through any interleaving of the handlers, lost and
\* repeated messages, and crashes at any point of a Ready (the vote in Step,
\* send() and the Ready cycle).
THEOREM ElectionInvariance == Spec => []ElectionInv
<1>1. Init => ElectionInv BY ElectionInit
<1>2. TypeOK /\ ElectionInv /\ [Next]_vars => ElectionInv' BY ElectionNext
<1>3. Spec => []TypeOK BY TypeCorrect
<1> QED BY <1>1, <1>2, <1>3, PTL DEF Spec

----------------------------------------------------------------------------
(* What follows *)

\* Any two quorums have a server in common.
LEMMA QuorumsMeet ==
    ASSUME NEW P \in SUBSET Server, NEW Q \in SUBSET Server,
           IsQuorum(P, Server), IsQuorum(Q, Server)
    PROVE  \E k \in Server : k \in P /\ k \in Q
<1> DEFINE n == Cardinality(Server)
           p == Cardinality(P)
           q == Cardinality(Q)
<1>1. IsFiniteSet(P) /\ IsFiniteSet(Q) BY ServerAssumption, FS_Subset
<1>2. n \in Nat /\ p \in Nat /\ q \in Nat BY <1>1, ServerAssumption, FS_CardinalityType
<1>3. P \cap Server = P /\ Q \cap Server = Q OBVIOUS
<1>4. p >= n \div 2 + 1 /\ q >= n \div 2 + 1 BY <1>3 DEF IsQuorum
<1> HIDE DEF n, p, q
<1>5. p + q > n BY <1>2, <1>4
<1>6. P \cap Q # {} BY <1>5, ServerAssumption, FS_MajoritiesIntersect DEF n, p, q
<1> QED BY <1>6

\* A leader voted for itself: a vote of its for another server in its term would
\* be on its disk.
LEMMA LeaderVotesForItself ==
    ASSUME TypeOK, ElectionInv, NEW i \in Leaders, NEW m \in net,
           Granted(m), m.from = i, m.term = node[i].Term
    PROVE  m.to = i
<1>1. i \in Server /\ node[i] \in Node /\ disk[i].hs \in HardState /\ m \in Message
  BY DEF Leaders, TypeOK, Disk
<1>2. StoodBy(m, disk[i].hs) /\ Durable(node[i], disk[i].hs)
  BY <1>1 DEF ElectionInv, ElectionInvariant
<1>3. StoodBy(m, node[i]) BY <1>1, <1>2, StoodByDisk
<1>4. node[i].Vote = i BY <1>1 DEF Leaders, ElectionInv, ElectionInvariant, Evidence
<1> QED BY <1>3, <1>4 DEF StoodBy

LEMMA OneLeader == TypeOK /\ ElectionInv => ElectionSafety
<1> SUFFICES ASSUME TypeOK, ElectionInv, NEW i \in Leaders, NEW j \in Leaders,
                    node[i].Term = node[j].Term
             PROVE  i = j
  BY DEF ElectionSafety
<1> DEFINE t == node[i].Term
<1>1. i \in Server /\ j \in Server BY DEF Leaders
<1>2. \A l \in Leaders :
        \E Q \in SUBSET Server : /\ IsQuorum(Q, Server)
                                 /\ \A k \in Q \ {l} : Backed(net, k, l, node[l].Term)
  BY DEF Leaders, ElectionInv, ElectionInvariant, Evidence
<1>3. PICK P \in SUBSET Server : /\ IsQuorum(P, Server)
                                 /\ \A k \in P \ {i} : Backed(net, k, i, t)
  BY <1>2
<1>4. PICK Q \in SUBSET Server : /\ IsQuorum(Q, Server)
                                 /\ \A k \in Q \ {j} : Backed(net, k, j, t)
  BY <1>2
<1>5. PICK k \in Server : k \in P /\ k \in Q BY <1>3, <1>4, QuorumsMeet
<1>6. CASE k = i /\ k # j
  <2>1. PICK m \in net : Granted(m) /\ m.from = k /\ m.to = j /\ m.term = t
    BY <1>4, <1>5, <1>6 DEF Backed
  <2> QED BY <1>6, <2>1, LeaderVotesForItself
<1>7. CASE k = j /\ k # i
  <2>1. PICK m \in net : Granted(m) /\ m.from = k /\ m.to = i /\ m.term = t
    BY <1>3, <1>5, <1>7 DEF Backed
  <2> QED BY <1>7, <2>1, LeaderVotesForItself
<1>8. CASE k # i /\ k # j
  <2>1. PICK m \in net : Granted(m) /\ m.from = k /\ m.to = i /\ m.term = t
    BY <1>3, <1>5, <1>8 DEF Backed
  <2>2. PICK n \in net : Granted(n) /\ n.from = k /\ n.to = j /\ n.term = t
    BY <1>4, <1>5, <1>8 DEF Backed
  <2> QED BY <1>5, <2>1, <2>2 DEF ElectionInv, ElectionInvariant
<1> QED BY <1>6, <1>7, <1>8

\* Two servers never lead the same term, for any group, any configuration and
\* any number of campaigns and crashes (the vote in Step, becomeLeader).
THEOREM AtMostOneLeader == Spec => []ElectionSafety
<1>1. TypeOK /\ ElectionInv => ElectionSafety BY OneLeader
<1> QED BY <1>1, TypeCorrect, ElectionInvariance, PTL

\* A granted vote that left its sender is on its disk, through every crash
\* (send() and the Ready cycle).
THEOREM VotesSurvive == Spec => []VotesOnDisk
<1>1. TypeOK /\ ElectionInv => VotesOnDisk
  <2> SUFFICES ASSUME TypeOK, ElectionInv, NEW m \in net, m.type = "MsgVoteResp", ~m.reject
               PROVE  \/ disk[m.from].hs.Term > m.term
                      \/ disk[m.from].hs.Term = m.term /\ disk[m.from].hs.Vote = m.to
    BY DEF VotesOnDisk
  <2>1. m.term \in Nat /\ m.from \in Server BY DEF TypeOK, Message
  <2>2. disk[m.from].hs.Term \in Nat BY <2>1 DEF TypeOK, Disk, HardState
  <2>3. StoodBy(m, disk[m.from].hs) BY DEF ElectionInv, ElectionInvariant, Granted
  <2> QED BY <2>1, <2>2, <2>3 DEF StoodBy
<1> QED BY <1>1, TypeCorrect, ElectionInvariance, PTL
=============================================================================
