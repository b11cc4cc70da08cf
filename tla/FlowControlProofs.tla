------------------------- MODULE FlowControlProofs -------------------------
(***************************************************************************)
(* What flow control promises (FlowControl) holds for every window, every  *)
(* limit, every number of entries, faults and messages, and whatever logs  *)
(* leader and follower start with, if these match.                         *)
(*                                                                         *)
(* FlowInv is not inductive as it stands.  What makes it so is that every  *)
(* message under way is still right when it arrives, however late          *)
(* (ForFollower, ForLeader): an append or a snapshot is a part of the      *)
(* leader's log, and what an answer or a heartbeat acknowledges is in the  *)
(* follower's.  The ring buffer brings a part of its own (Ring): where the *)
(* slots in use are, and that it has counted enough bytes.                 *)
(***************************************************************************)
EXTENDS FlowControl, SequenceTheorems, FiniteSetTheorems, WellFoundedInduction, TLAPS

\* The two logs are the same up to n.
Agree(a, b, n) ==
    /\ n <= Len(a) /\ n <= Len(b)
    /\ \A i \in 1..n : a[i] = b[i]

\* The follower's log F matches the leader's log L, now and when L grows.
Fits(F, L) ==
    \A i \in 1..Len(F) :
      /\ i <= Len(L) /\ F[i].term = L[i].term => Agree(F, L, i)
      /\ F[i].term = LeaderTerm => i <= Len(L)

\* An append or a snapshot is a part of the log L.
Carries(m, L) ==
    \/ /\ m.type = "MsgApp"
       /\ m.index + Len(m.entries) <= Len(L) /\ m.logTerm = TermAt(L, m.index)
       /\ \A k \in 1..Len(m.entries) : m.entries[k] = L[m.index + k]
    \/ /\ m.type = "MsgSnap"
       /\ m.index \in 1..Len(L) /\ m.logTerm = L[m.index].term
       /\ m.entries = SubSeq(L, 1, m.index)

ForFollower(m, F, L) ==
    Carries(m, L) \/ (m.type = "MsgHeartbeat" /\ Agree(F, L, m.commit))

ForLeader(m, F, L) ==
    \/ m.type = "MsgAppResp" /\ (m.reject \/ Agree(F, L, m.index))
    \/ m.type = "MsgHeartbeatResp"

\* The ring buffer: the slots in use are there, and no byte is uncounted.
Ring(in) ==
    /\ in \in InflightsType
    /\ in.start < MaxInflight /\ in.count <= MaxInflight /\ Len(in.buffer) <= MaxInflight
    /\ in.start + in.count <= Len(in.buffer) \/ Len(in.buffer) = MaxInflight
    /\ in.count = 0 => in.start = 0
    /\ BytesOf(in, in.count) <= in.bytes

\* The window holds increasing indexes between Match and Next.
InWindow(pr) ==
    /\ \A k \in 1..pr.Inflights.count :
         At(pr.Inflights, k).index \in (pr.Match + 1)..(pr.Next - 1)
    /\ \A j, k \in 1..pr.Inflights.count :
         j < k => At(pr.Inflights, j).index < At(pr.Inflights, k).index

\* The account of a follower for a log of n entries.
Accounts(pr, n) ==
    /\ pr \in Progress /\ Ring(pr.Inflights) /\ InWindow(pr)
    /\ pr.Match <= n /\ pr.Next <= n + 1 /\ pr.PendingSnapshot <= n
    /\ pr.State = "StateReplicate" => pr.Match < pr.Next
    /\ pr.State # "StateReplicate" => pr.Inflights.count = 0

Leader == [log : Seq(Entry), first : Nat \ {0}, committed : Nat, applied : Nat,
           uncommittedSize : Nat, other : Nat, pr : Progress, compactions : Nat,
           out : Seq(Message), panic : BOOLEAN]

Follower == [log : Seq(Entry), committed : Nat, panic : BOOLEAN]

\* The leader, in the middle of a step too.
Sound(s, F) ==
    /\ s \in Leader /\ ~s.panic
    /\ s.first <= s.applied + 1 /\ s.applied <= s.committed /\ s.committed <= Len(s.log)
    /\ s.other <= Len(s.log)
    /\ Accounts(s.pr, Len(s.log)) /\ Agree(F, s.log, s.pr.Match)
    /\ \A k \in 1..Len(s.out) : ForFollower(s.out[k], F, s.log)

\* The follower of a leader with the log L.
Follows(r, L) ==
    /\ r \in Follower /\ ~r.panic
    /\ Fits(r.log, L) /\ Agree(r.log, L, r.committed)

TailSize(s) == payloadsSize(SubSeq(s.log, s.applied + 1, Len(s.log)))

FlowInvariant ==
    /\ Sound(l, f.log) /\ l.out = <<>> /\ Follows(f, l.log)
    /\ l.uncommittedSize <= TailSize(l)
    /\ toF \in Seq(Message) /\ toL \in Seq(Message) /\ reports \in Nat /\ faults \in Nat
    /\ \A k \in 1..Len(toF) : ForFollower(toF[k], f.log, l.log)
    /\ \A k \in 1..Len(toL) : ForLeader(toL[k], f.log, l.log)

----------------------------------------------------------------------------
(* Induction on the natural numbers, and sums *)

\* Every set of naturals that is not empty has a least element.
LEMMA LeastMember ==
    ASSUME NEW S \in SUBSET Nat, S # {}
    PROVE  \E x \in S : \A y \in S : ~(y < x)
<1> DEFINE R == {ss \in Nat \X Nat : ss[1] < ss[2]}
<1>1. IsWellFoundedOn(R, Nat) BY NatLessThanWellFounded DEF OpToRel
<1> HIDE DEF R
<1>2. PICK x \in S : \A y \in S : ~(<<y, x>> \in R) BY <1>1, WFMin
<1> QED BY <1>2 DEF R

\* Nothing is left out of a set that has 0 and what follows each of its members.
LEMMA AllNaturals ==
    ASSUME NEW S \in SUBSET Nat, 0 \in S, \A k \in S : k + 1 \in S
    PROVE  \A k \in Nat : k \in S
<1> SUFFICES ASSUME Nat \ S # {} PROVE FALSE OBVIOUS
<1>1. PICK x \in Nat \ S : \A y \in Nat \ S : ~(y < x) BY LeastMember
<1>2. x # 0 /\ x - 1 \in Nat /\ x - 1 < x BY <1>1
<1>3. x - 1 \in S BY <1>1, <1>2
<1>4. (x - 1) + 1 \in S BY <1>3
<1> QED BY <1>1, <1>4

\* The partial sums of some sizes.
Partial(s, g) ==
    /\ g \in [0..Len(s) -> Nat] /\ g[0] = 0
    /\ \A k \in 1..Len(s) : g[k] = g[k - 1] + s[k]

LEMMA PartialSums ==
    ASSUME NEW s \in Seq(Nat)
    PROVE  \E g : Partial(s, g)
<1> DEFINE P(n, g) == /\ g \in [0..n -> Nat] /\ g[0] = 0
                      /\ \A k \in 1..n : g[k] = g[k - 1] + s[k]
           S == {n \in Nat : n <= Len(s) => \E g : P(n, g)}
<1>1. 0 \in S
  <2>1. P(0, [k \in 0..0 |-> 0]) OBVIOUS
  <2> HIDE DEF P
  <2> QED BY <2>1
<1>2. ASSUME NEW n \in S PROVE n + 1 \in S
  <2>0. SUFFICES ASSUME n + 1 <= Len(s) PROVE \E g : P(n + 1, g)
    <3> HIDE DEF P
    <3> QED BY DEF S
  <2>1. PICK g : P(n, g)
    <3> HIDE DEF P
    <3>1. n \in Nat /\ n <= Len(s) BY <2>0, LenProperties DEF S
    <3> QED BY <3>1 DEF S
  <2> DEFINE h == [k \in 0..(n + 1) |-> IF k = n + 1 THEN g[n] + s[n + 1] ELSE g[k]]
  <2>2. n \in Nat /\ s[n + 1] \in Nat BY <2>0 DEF S
  <2>3. h \in [0..(n + 1) -> Nat] BY <2>1, <2>2
  <2>4. h[0] = 0 BY <2>1, <2>2
  <2>5. ASSUME NEW k \in 1..(n + 1) PROVE h[k] = h[k - 1] + s[k]
    <3>1. CASE k = n + 1 BY <2>1, <2>2, <3>1
    <3>2. CASE k # n + 1 BY <2>1, <2>2, <3>2
    <3> QED BY <3>1, <3>2
  <2> HIDE DEF h
  <2> QED BY <2>3, <2>4, <2>5
<1> HIDE DEF P
<1>3. Len(s) \in S
  <2> HIDE DEF S
  <2>1. S \in SUBSET Nat BY DEF S
  <2> QED BY <1>1, <1>2, <2>1, AllNaturals, LenProperties
<1>4. PICK g : P(Len(s), g) BY <1>3
<1> QED BY <1>4 DEF P, Partial

LEMMA PartialUnique ==
    ASSUME NEW s \in Seq(Nat), NEW g, NEW h, Partial(s, g), Partial(s, h)
    PROVE  \A k \in 0..Len(s) : g[k] = h[k]
<1> DEFINE S == {n \in Nat : n <= Len(s) => g[n] = h[n]}
<1>1. 0 \in S BY DEF Partial
<1>2. \A n \in S : n + 1 \in S BY DEF Partial
<1>3. S \in SUBSET Nat OBVIOUS
<1> HIDE DEF S
<1>4. \A k \in Nat : k \in S BY <1>1, <1>2, <1>3, AllNaturals
<1> QED BY <1>4 DEF S

\* SumOf is the last partial sum.
LEMMA SumIsPartial ==
    ASSUME NEW s \in Seq(Nat), NEW g, Partial(s, g)
    PROVE  SumOf(s) = g[Len(s)]
<1> DEFINE F(h) == h = [k \in 0..Len(s) |-> IF k = 0 THEN 0 ELSE h[k - 1] + s[k]]
           sum == CHOOSE h : F(h)
<1>1. SumOf(s) = sum[Len(s)] BY DEF SumOf
<1>2. F(g) BY DEF Partial
<1>3. F(sum)
  <2> HIDE DEF F
  <2> QED BY <1>2
<1>4. \A k \in 0..Len(s) : sum[k] = IF k = 0 THEN 0 ELSE sum[k - 1] + s[k]
  <2> HIDE DEF sum
  <2> QED BY <1>3
<1> HIDE DEF sum, F
<1> DEFINE S == {n \in Nat : n <= Len(s) => g[n] = sum[n]}
<1>5. 0 \in S BY <1>4 DEF Partial
<1>6. \A n \in S : n + 1 \in S BY <1>4 DEF Partial
<1>7. S \in SUBSET Nat OBVIOUS
<1> HIDE DEF S
<1>8. \A k \in Nat : k \in S BY <1>5, <1>6, <1>7, AllNaturals
<1> QED BY <1>1, <1>8 DEF S

LEMMA SumType ==
    ASSUME NEW s \in Seq(Nat)
    PROVE  SumOf(s) \in Nat
<1>1. PICK g : Partial(s, g) BY PartialSums
<1>2. SumOf(s) = g[Len(s)] BY <1>1, SumIsPartial
<1> QED BY <1>1, <1>2 DEF Partial

\* The sum of two sequences after each other.
LEMMA SumConcat ==
    ASSUME NEW s \in Seq(Nat), NEW t \in Seq(Nat), NEW u \in Seq(Nat),
           Len(u) = Len(s) + Len(t),
           \A k \in 1..Len(s) : u[k] = s[k],
           \A k \in 1..Len(t) : u[Len(s) + k] = t[k]
    PROVE  SumOf(u) = SumOf(s) + SumOf(t)
<1>1. PICK a : Partial(s, a) BY PartialSums
<1>2. PICK b : Partial(t, b) BY PartialSums
<1> DEFINE n == Len(s)
           g == [k \in 0..Len(u) |-> IF k <= n THEN a[k] ELSE a[n] + b[k - n]]
<1>3. n \in Nat /\ Len(t) \in Nat /\ Len(u) \in Nat /\ Len(u) = n + Len(t) OBVIOUS
<1>4. a \in [0..n -> Nat] /\ a[0] = 0 /\ \A k \in 1..n : a[k] = a[k - 1] + s[k]
  BY <1>1 DEF Partial
<1>5. b \in [0..Len(t) -> Nat] /\ b[0] = 0 /\ \A k \in 1..Len(t) : b[k] = b[k - 1] + t[k]
  BY <1>2 DEF Partial
<1>6. \A k \in 1..n : u[k] = s[k] OBVIOUS
<1>7. \A k \in 1..Len(t) : u[n + k] = t[k] OBVIOUS
<1> HIDE DEF n
<1>8. g \in [0..Len(u) -> Nat]
  <2> SUFFICES ASSUME NEW k \in 0..Len(u) PROVE g[k] \in Nat OBVIOUS
  <2>1. CASE k <= n BY <1>3, <1>4, <2>1
  <2>2. CASE ~(k <= n)
    <3>1. k - n \in 0..Len(t) /\ n \in 0..n BY <1>3, <2>2
    <3>2. b[k - n] \in Nat /\ a[n] \in Nat BY <1>4, <1>5, <3>1
    <3> QED BY <2>2, <3>2
  <2> QED BY <2>1, <2>2
<1>9. g[0] = 0 BY <1>3, <1>4
<1>10. ASSUME NEW k \in 1..Len(u) PROVE g[k] = g[k - 1] + u[k]
  <2>1. k \in Nat /\ k - 1 \in 0..Len(u) /\ k \in 0..Len(u) BY <1>3
  <2>2. CASE k <= n
    <3>1. k \in 1..n /\ k - 1 <= n BY <1>3, <2>1, <2>2
    <3> QED BY <1>4, <1>6, <2>1, <2>2, <3>1
  <2>3. CASE ~(k <= n)
    <3> DEFINE j == k - n
    <3>1. j \in 1..Len(t) /\ k = n + j /\ (k - 1) - n = j - 1 BY <1>3, <2>1, <2>3
    <3>2. u[k] = t[j] /\ b[j] = b[j - 1] + t[j] BY <1>5, <1>7, <3>1
    <3>3. g[k] = a[n] + b[j] BY <2>1, <2>3
    <3>4. g[k - 1] = a[n] + b[j - 1]
      <4>1. CASE k - 1 <= n
        <5>1. k - 1 = n /\ j - 1 = 0 BY <1>3, <2>1, <2>3, <4>1, <3>1
        <5>2. a[n] \in Nat BY <1>3, <1>4
        <5> QED BY <1>5, <2>1, <4>1, <5>1, <5>2
      <4>2. CASE ~(k - 1 <= n) BY <2>1, <3>1, <4>2
      <4> QED BY <4>1, <4>2
    <3>5. a[n] \in Nat /\ b[j] \in Nat /\ b[j - 1] \in Nat /\ t[j] \in Nat
      <4>1. n \in 0..n /\ j \in 0..Len(t) /\ j - 1 \in 0..Len(t) BY <1>3, <3>1
      <4>2. t[j] \in Nat BY <3>1, ElementOfSeq
      <4> QED BY <1>4, <1>5, <4>1, <4>2
    <3> HIDE DEF g, j
    <3> QED BY SMTT(60), <3>2, <3>3, <3>4, <3>5
  <2> QED BY <2>2, <2>3
<1>11. Partial(u, g)
  <2> HIDE DEF g
  <2> QED BY <1>8, <1>9, <1>10 DEF Partial
<1>12. SumOf(u) = g[Len(u)] /\ SumOf(s) = a[n] /\ SumOf(t) = b[Len(t)]
  <2> HIDE DEF g
  <2> QED BY <1>1, <1>2, <1>11, SumIsPartial DEF n
<1>13. g[Len(u)] = a[n] + b[Len(t)]
  <2>1. CASE Len(t) = 0
    <3>1. Len(u) = n /\ b[Len(t)] = 0 /\ a[n] \in Nat BY <1>3, <1>4, <1>5, <2>1
    <3> QED BY SMTT(60), <1>3, <3>1
  <2>2. CASE Len(t) # 0 BY SMTT(60), <1>3, <2>2
  <2> QED BY <2>1, <2>2
<1> HIDE DEF g
<1> QED BY <1>12, <1>13

----------------------------------------------------------------------------
(* The ring buffer of the window *)

LEMMA RotateIs ==
    ASSUME NEW a \in Nat
    PROVE  /\ a >= MaxInflight => Rotate(a) = a - MaxInflight
           /\ a < MaxInflight => Rotate(a) = a
BY InflightAssumption DEF Rotate

\* The slot of the k-th message in flight, counted from 0.
Pos(in, k) == Rotate(in.start + k - 1)

LEMMA PosIs ==
    ASSUME NEW in, in.start \in Nat, NEW k \in Nat \ {0}
    PROVE  /\ in.start + k - 1 >= MaxInflight => Pos(in, k) = in.start + k - 1 - MaxInflight
           /\ in.start + k - 1 < MaxInflight => Pos(in, k) = in.start + k - 1
<1> DEFINE a == in.start + k - 1
<1>1. a \in Nat OBVIOUS
<1>2. Pos(in, k) = Rotate(a) BY DEF Pos
<1>3. /\ a >= MaxInflight => Rotate(a) = a - MaxInflight
      /\ a < MaxInflight => Rotate(a) = a
  <2> HIDE DEF a
  <2> QED BY <1>1, RotateIs
<1> QED BY <1>2, <1>3, InflightAssumption

LEMMA SlotInUse ==
    ASSUME NEW in, Ring(in), NEW k \in 1..in.count
    PROVE  /\ Pos(in, k) \in Nat /\ Pos(in, k) < Len(in.buffer)
           /\ Pos(in, k) + 1 \in 1..Len(in.buffer)
           /\ At(in, k) = in.buffer[Pos(in, k) + 1]
           /\ At(in, k) \in Slot
<1>1. /\ in.start \in Nat /\ in.count \in Nat /\ Len(in.buffer) \in Nat /\ in.buffer \in Seq(Slot)
      /\ in.start < MaxInflight /\ in.count <= MaxInflight
      /\ in.start + in.count <= Len(in.buffer) \/ Len(in.buffer) = MaxInflight
      /\ Len(in.buffer) <= MaxInflight
  BY LenProperties DEF Ring, InflightsType
<1>2. MaxInflight \in Nat /\ k \in Nat \ {0} /\ k <= in.count BY <1>1, InflightAssumption
<1>3. /\ in.start + k - 1 >= MaxInflight => Pos(in, k) = in.start + k - 1 - MaxInflight
      /\ in.start + k - 1 < MaxInflight => Pos(in, k) = in.start + k - 1
  BY <1>1, <1>2, PosIs
<1>4. Pos(in, k) \in Nat /\ Pos(in, k) < Len(in.buffer) BY <1>1, <1>2, <1>3
<1>5. Pos(in, k) + 1 \in 1..Len(in.buffer) BY <1>1, <1>4
<1>6. At(in, k) = in.buffer[Pos(in, k) + 1] BY DEF At, Pos
<1>7. At(in, k) \in Slot BY <1>1, <1>5, <1>6, ElementOfSeq
<1> QED BY <1>4, <1>5, <1>6, <1>7

\* The bytes of the first k.
Bytes(in, k) == [j \in 1..k |-> At(in, j).bytes]

LEMMA BytesAreNats ==
    ASSUME NEW in, Ring(in), NEW k \in 0..in.count
    PROVE  Bytes(in, k) \in Seq(Nat) /\ Len(Bytes(in, k)) = k /\ BytesOf(in, k) = SumOf(Bytes(in, k))
<1>1. k \in Nat /\ \A j \in 1..k : j \in 1..in.count BY DEF Ring, InflightsType
<1>2. \A j \in 1..k : At(in, j).bytes \in Nat BY <1>1, SlotInUse DEF Slot
<1>3. Bytes(in, k) \in Seq(Nat) /\ Len(Bytes(in, k)) = k BY <1>1, <1>2 DEF Bytes
<1> QED BY <1>3 DEF BytesOf, Bytes

LEMMA EmptySum == SumOf(<<>>) = 0
<1> DEFINE g == [k \in 0..0 |-> 0]
<1>1. Partial(<<>>, g) BY DEF Partial
<1>2. g[0] = 0 OBVIOUS
<1> HIDE DEF g
<1>3. <<>> \in Seq(Nat) /\ Len(<<>>) = 0 OBVIOUS
<1>4. SumOf(<<>>) = g[Len(<<>>)] BY <1>1, <1>3, SumIsPartial
<1> QED BY <1>2, <1>3, <1>4

LEMMA SumOfOne ==
    ASSUME NEW n \in Nat
    PROVE  SumOf(<<n>>) = n
<1> DEFINE g == [k \in 0..1 |-> IF k = 0 THEN 0 ELSE n]
           s == <<n>>
<1>1. s \in Seq(Nat) /\ Len(s) = 1 /\ s[1] = n OBVIOUS
<1>2. g \in [0..1 -> Nat] /\ g[0] = 0 /\ g[1] = n OBVIOUS
<1> HIDE DEF g, s
<1>3. \A k \in 1..1 : g[k] = g[k - 1] + s[k] BY <1>1, <1>2
<1>4. Partial(s, g) BY <1>1, <1>2, <1>3 DEF Partial
<1>5. SumOf(s) = g[Len(s)] BY <1>1, <1>4, SumIsPartial
<1> QED BY <1>1, <1>2, <1>5 DEF s

LEMMA FreshRing == Ring(NewInflights)
<1> DEFINE in == NewInflights
<1>1. in = [start |-> 0, count |-> 0, bytes |-> 0, buffer |-> <<>>] BY DEF NewInflights
<1>2. in \in InflightsType BY <1>1 DEF InflightsType
<1>3. BytesOf(in, 0) = 0
  <2>1. [j \in 1..0 |-> At(in, j).bytes] = <<>> OBVIOUS
  <2> QED BY <2>1, EmptySum DEF BytesOf
<1> QED BY <1>1, <1>2, <1>3, InflightAssumption DEF Ring

LEMMA ResetRing ==
    ASSUME NEW in, Ring(in)
    PROVE  Ring(resetInflights(in)) /\ resetInflights(in).count = 0
<1> DEFINE out == resetInflights(in)
<1>1. in \in InflightsType BY DEF Ring
<1>2. /\ out.start = 0 /\ out.count = 0 /\ out.bytes = in.bytes /\ out.buffer = in.buffer
      /\ out \in InflightsType
  BY <1>1 DEF resetInflights, InflightsType
<1>3. BytesOf(out, 0) = 0
  <2>1. [j \in 1..0 |-> At(out, j).bytes] = <<>> OBVIOUS
  <2> QED BY <2>1, EmptySum DEF BytesOf
<1> HIDE DEF out
<1>4. out.bytes \in Nat BY <1>2 DEF InflightsType
<1>5. Ring(out)
  <2>1. MaxInflight \in Nat \ {0} /\ Len(in.buffer) \in Nat /\ Len(in.buffer) <= MaxInflight
    BY <1>1, LenProperties, InflightAssumption DEF Ring, InflightsType
  <2> QED BY <1>2, <1>3, <1>4, <2>1 DEF Ring
<1> QED BY <1>2, <1>5 DEF out

\* grow keeps the slots there are.
LEMMA GrowKeeps ==
    ASSUME NEW in, Ring(in), Len(in.buffer) < MaxInflight
    PROVE  /\ grow(in) = [in EXCEPT !.buffer = grow(in).buffer]
           /\ grow(in).buffer \in Seq(Slot)
           /\ Len(grow(in).buffer) > Len(in.buffer) /\ Len(grow(in).buffer) <= MaxInflight
           /\ \A k \in 1..Len(in.buffer) : grow(in).buffer[k] = in.buffer[k]
<1> DEFINE n == Len(in.buffer)
           double == 2 * n
           size == IF double = 0 THEN 1 ELSE IF double > MaxInflight THEN MaxInflight ELSE double
           buffer == [k \in 1..size |-> IF k <= n THEN in.buffer[k] ELSE [index |-> 0, bytes |-> 0]]
<1>1. in \in InflightsType /\ in.buffer \in Seq(Slot) /\ n \in Nat
  BY LenProperties DEF Ring, InflightsType
<1>2. MaxInflight \in Nat \ {0} BY InflightAssumption
<1>3. size \in Nat /\ n < size /\ size <= MaxInflight BY <1>1, <1>2
<1>4. grow(in) = [in EXCEPT !.buffer = buffer] BY DEF grow
<1>5. grow(in).buffer = buffer BY <1>1, <1>4 DEF InflightsType
<1> HIDE DEF size
<1>6. buffer \in Seq(Slot)
  <2>1. ASSUME NEW k \in 1..size PROVE buffer[k] \in Slot
    <3>1. CASE k <= n
      <4>1. in.buffer[k] \in Slot BY <1>1, <1>3, <3>1, ElementOfSeq
      <4> QED BY <3>1, <4>1
    <3>2. CASE ~(k <= n) BY <3>2 DEF Slot
    <3> QED BY <3>1, <3>2
  <2> HIDE DEF n
  <2> QED BY <1>3, <2>1
<1>7. Len(buffer) = size BY <1>3
<1>8. \A k \in 1..n : buffer[k] = in.buffer[k] BY <1>1, <1>3
<1> HIDE DEF buffer
<1> QED BY <1>3, <1>4, <1>5, <1>6, <1>7, <1>8

\* Add puts one message behind those in flight.
LEMMA AddRing ==
    ASSUME NEW in, Ring(in), in.count < MaxInflight, NEW index \in Nat, NEW bytes \in Nat
    PROVE  /\ Ring(Add(in, index, bytes)) /\ Add(in, index, bytes).count = in.count + 1
           /\ \A k \in 1..in.count : At(Add(in, index, bytes), k) = At(in, k)
           /\ At(Add(in, index, bytes), in.count + 1) = [index |-> index, bytes |-> bytes]
<1> DEFINE next == Pos(in, in.count + 1)
           room == IF next >= Len(in.buffer) THEN grow(in) ELSE in
           slot == [index |-> index, bytes |-> bytes]
           out == Add(in, index, bytes)
           c == in.count
<1>1. /\ in \in InflightsType /\ in.start \in Nat /\ c \in Nat /\ in.bytes \in Nat
      /\ in.buffer \in Seq(Slot) /\ Len(in.buffer) \in Nat
      /\ in.start < MaxInflight /\ c <= MaxInflight /\ Len(in.buffer) <= MaxInflight
      /\ in.start + c <= Len(in.buffer) \/ Len(in.buffer) = MaxInflight
      /\ c = 0 => in.start = 0
  BY LenProperties DEF Ring, InflightsType
<1>2. MaxInflight \in Nat \ {0} BY InflightAssumption
<1>3. /\ in.start + c >= MaxInflight => next = in.start + c - MaxInflight
      /\ in.start + c < MaxInflight => next = in.start + c
  <2>1. c + 1 \in Nat \ {0} /\ in.start + (c + 1) - 1 = in.start + c BY <1>1
  <2> QED BY <1>1, <2>1, PosIs
<1>4. next \in Nat /\ next < MaxInflight BY <1>1, <1>2, <1>3
<1>5. /\ room = [in EXCEPT !.buffer = room.buffer]
      /\ room.buffer \in Seq(Slot) /\ Len(room.buffer) <= MaxInflight
      /\ next < Len(room.buffer) /\ Len(room.buffer) >= Len(in.buffer)
      /\ \A k \in 1..Len(in.buffer) : room.buffer[k] = in.buffer[k]
  <2>1. CASE next >= Len(in.buffer)
    <3>1. Len(in.buffer) < MaxInflight /\ next <= Len(in.buffer) BY <1>1, <1>2, <1>3, <1>4, <2>1
    <3>2. room = grow(in) BY <2>1
    <3> HIDE DEF room, next
    <3> QED BY <1>1, <1>4, <3>1, <3>2, GrowKeeps, LenProperties
  <2>2. CASE ~(next >= Len(in.buffer))
    <3>1. room = in BY <2>2
    <3>2. next < Len(in.buffer) BY <1>1, <1>4, <2>2
    <3>3. in = [in EXCEPT !.buffer = in.buffer] BY <1>1 DEF InflightsType
    <3> HIDE DEF room, next
    <3> QED BY <1>1, <3>1, <3>2, <3>3
  <2> QED BY <2>1, <2>2
<1>6. out = [room EXCEPT !.buffer[next + 1] = slot, !.count = @ + 1, !.bytes = @ + bytes]
  <2>1. in.start + in.count = in.start + (in.count + 1) - 1 BY <1>1
  <2>2. next = Rotate(in.start + in.count) BY <2>1 DEF Pos
  <2> HIDE DEF next
  <2> QED BY <2>2 DEF Add
<1> HIDE DEF room
<1> DEFINE buffer == [room.buffer EXCEPT ![next + 1] = slot]
<1>7. /\ out.start = in.start /\ out.count = c + 1 /\ out.bytes = in.bytes + bytes
      /\ out.buffer = buffer /\ DOMAIN out = {"start", "count", "bytes", "buffer"}
      /\ out = [start |-> in.start, count |-> c + 1, bytes |-> in.bytes + bytes, buffer |-> buffer]
  <2> HIDE DEF next, slot
  <2>1. /\ room.start = in.start /\ room.count = c /\ room.bytes = in.bytes
        /\ DOMAIN room = {"start", "count", "bytes", "buffer"}
    BY <1>1, <1>5 DEF InflightsType
  <2>2. room = [start |-> in.start, count |-> c, bytes |-> in.bytes, buffer |-> room.buffer]
    BY <1>1, <1>5 DEF InflightsType
  <2> QED BY <1>6, <2>1, <2>2
<1>8. next + 1 \in 1..Len(room.buffer) BY <1>4, <1>5, LenProperties
<1>9. /\ buffer \in Seq(Slot) /\ Len(buffer) = Len(room.buffer)
      /\ buffer[next + 1] = slot
      /\ \A k \in 1..Len(room.buffer) : k # next + 1 => buffer[k] = room.buffer[k]
  <2>1. slot \in Slot BY DEF Slot
  <2> HIDE DEF slot, next
  <2> QED BY <1>5, <1>8, <2>1, ExceptSeq, LenProperties
<1> HIDE DEF buffer, slot
<1>10. out \in InflightsType BY <1>1, <1>7, <1>9 DEF InflightsType
<1>11. \A k : At(out, k) = buffer[Pos(in, k) + 1]
  <2> HIDE DEF out
  <2> QED BY <1>7 DEF At, Pos
<1>12. At(out, c + 1) = slot BY <1>9, <1>11
<1>13. \A k \in 1..c : At(out, k) = At(in, k)
  <2> SUFFICES ASSUME NEW k \in 1..c PROVE At(out, k) = At(in, k) OBVIOUS
  <2> DEFINE p == Pos(in, k)
             s == in.start
  <2>1. p \in Nat /\ p < Len(in.buffer) /\ p + 1 \in 1..Len(in.buffer)
        /\ At(in, k) = in.buffer[p + 1]
    BY SlotInUse
  <2>2. k \in Nat \ {0} /\ k <= c /\ c < MaxInflight /\ s \in Nat /\ s < MaxInflight /\ c \in Nat
    BY <1>1
  <2>3. /\ s + k - 1 >= MaxInflight => p = s + k - 1 - MaxInflight
        /\ s + k - 1 < MaxInflight => p = s + k - 1
    BY <2>2, PosIs
  <2>4. /\ s + c >= MaxInflight => next = s + c - MaxInflight
        /\ s + c < MaxInflight => next = s + c
    BY <1>3
  <2>5. p # next
    <3> HIDE DEF p, s, c, next
    <3> QED BY <1>2, <2>2, <2>3, <2>4
  <2>6. p + 1 \in 1..Len(room.buffer) /\ p + 1 # next + 1
    <3>1. Len(room.buffer) \in Nat BY <1>5, LenProperties
    <3> HIDE DEF p, next
    <3> QED BY <1>1, <1>4, <1>5, <2>1, <2>5, <3>1
  <2> HIDE DEF p, next
  <2>7. buffer[p + 1] = in.buffer[p + 1] BY <1>5, <1>9, <2>1, <2>6
  <2>8. At(out, k) = buffer[p + 1] BY <1>11 DEF p
  <2> QED BY <2>1, <2>7, <2>8
<1>14. out.start < MaxInflight /\ out.count <= MaxInflight /\ Len(out.buffer) <= MaxInflight
  <2> HIDE DEF out
  <2> QED BY <1>1, <1>2, <1>5, <1>7, <1>9
<1>15. out.start + out.count <= Len(out.buffer) \/ Len(out.buffer) = MaxInflight
  <2> DEFINE s == in.start
             n == Len(room.buffer)
  <2>1. n \in Nat /\ s \in Nat /\ c \in Nat /\ n <= MaxInflight /\ next < n /\ s < MaxInflight
    BY <1>1, <1>5, LenProperties
  <2>2. s + c <= n \/ n = MaxInflight BY <1>1, <1>2, <1>5, <2>1
  <2>3. /\ s + c >= MaxInflight => next = s + c - MaxInflight
        /\ s + c < MaxInflight => next = s + c
    BY <1>3
  <2>4. out.start + out.count = s + c + 1 /\ Len(out.buffer) = n BY <1>1, <1>7, <1>9
  <2> HIDE DEF out, next, s, n, c
  <2> QED BY <1>2, <1>4, <2>1, <2>2, <2>3, <2>4
<1>16. BytesOf(out, out.count) <= out.bytes
  <2> HIDE DEF out
  <2>1. Bytes(in, c) \in Seq(Nat) /\ Len(Bytes(in, c)) = c /\ BytesOf(in, c) = SumOf(Bytes(in, c))
    BY <1>1, BytesAreNats
  <2>2. \A k \in 1..(c + 1) : At(out, k).bytes \in Nat
    <3>1. slot.bytes \in Nat BY DEF slot
    <3>2. \A k \in 1..c : At(in, k).bytes \in Nat BY SlotInUse DEF Slot
    <3>3. \A k \in 1..(c + 1) : k \in 1..c \/ k = c + 1 BY <1>1
    <3> QED BY <1>12, <1>13, <3>1, <3>2, <3>3
  <2> DEFINE u == Bytes(out, c + 1)
  <2>3. u \in Seq(Nat) /\ Len(u) = c + 1 BY <1>1, <2>2 DEF Bytes
  <2>4. \A k \in 1..c : u[k] = Bytes(in, c)[k] BY <1>1, <1>13 DEF Bytes
  <2>5. u[c + 1] = bytes BY <1>1, <1>12 DEF Bytes, slot
  <2>6. SumOf(u) = SumOf(Bytes(in, c)) + SumOf(<<bytes>>)
    <3>1. <<bytes>> \in Seq(Nat) /\ Len(<<bytes>>) = 1 /\ <<bytes>>[1] = bytes OBVIOUS
    <3> HIDE DEF u
    <3> DEFINE s == Bytes(in, c)
               t == <<bytes>>
    <3>2. \A k \in 1..1 : u[c + k] = t[k] BY <2>5, <3>1
    <3>3. s \in Seq(Nat) /\ Len(s) = c /\ t \in Seq(Nat) /\ Len(t) = 1 BY <2>1, <3>1
    <3> HIDE DEF s, t
    <3>4. /\ Len(u) = Len(s) + Len(t)
          /\ \A k \in 1..Len(s) : u[k] = s[k]
          /\ \A k \in 1..Len(t) : u[Len(s) + k] = t[k]
      BY <2>3, <2>4, <3>2, <3>3 DEF s
    <3>5. SumOf(u) = SumOf(s) + SumOf(t) BY <2>3, <3>3, <3>4, SumConcat
    <3> QED BY <3>5 DEF s, t
  <2>7. SumOf(<<bytes>>) = bytes BY SumOfOne
  <2>8. BytesOf(out, c + 1) = SumOf(u) BY DEF BytesOf, Bytes
  <2>9. BytesOf(in, c) <= in.bytes BY DEF Ring
  <2>10. SumOf(Bytes(in, c)) \in Nat BY <2>1, SumType
  <2> HIDE DEF u
  <2> QED BY <1>1, <1>7, <2>1, <2>6, <2>7, <2>8, <2>9, <2>10
<1>17. out.count # 0 BY <1>1, <1>7
<1>18. Ring(out)
  <2> HIDE DEF out
  <2> QED BY <1>10, <1>14, <1>15, <1>16, <1>17 DEF Ring
<1> HIDE DEF out
<1> QED BY <1>7, <1>12, <1>13, <1>18 DEF out, slot

\* FreeLE takes out those up to an index, which are the first k.
LEMMA FreeRing ==
    ASSUME NEW in, Ring(in), NEW to \in Nat,
           \A j, k \in 1..in.count : j < k => At(in, j).index < At(in, k).index
    PROVE  /\ Ring(FreeLE(in, to))
           /\ \E k \in 0..in.count :
                /\ FreeLE(in, to).count = in.count - k
                /\ \A j \in 1..(in.count - k) :
                     At(FreeLE(in, to), j) = At(in, k + j) /\ At(in, k + j).index > to
<1> DEFINE c == in.count
           k == CHOOSE j \in 0..in.count : Acknowledged(in, to, j)
           out == FreeLE(in, to)
<1>1. /\ in \in InflightsType /\ in.start \in Nat /\ c \in Nat /\ in.bytes \in Nat
      /\ in.buffer \in Seq(Slot) /\ Len(in.buffer) \in Nat
      /\ in.start < MaxInflight /\ c <= MaxInflight /\ Len(in.buffer) <= MaxInflight
      /\ in.start + c <= Len(in.buffer) \/ Len(in.buffer) = MaxInflight
      /\ c = 0 => in.start = 0
  BY LenProperties DEF Ring, InflightsType
<1>2. MaxInflight \in Nat \ {0} BY InflightAssumption
<1>3. \A j \in 1..c : At(in, j).index \in Nat /\ At(in, j).bytes \in Nat
  BY SlotInUse DEF Slot
<1>4. \E j \in 0..c : Acknowledged(in, to, j)
  <2> DEFINE S == {j \in Nat : j \in 1..c /\ At(in, j).index > to}
  <2>1. CASE S = {}
    <3>1. \A j \in 1..c : At(in, j).index <= to BY SMTT(60), <1>1, <1>3, <2>1
    <3>2. Acknowledged(in, to, c) BY <1>1, <3>1 DEF Acknowledged
    <3> QED BY <1>1, <3>2
  <2>2. CASE S # {}
    <3>1. PICK x \in S : \A y \in S : ~(y < x)
      <4> HIDE DEF S
      <4>1. S \in SUBSET Nat BY DEF S
      <4> QED BY <2>2, <4>1, LeastMember
    <3> DEFINE n == x - 1
    <3>2. x \in Nat /\ x \in 1..c /\ At(in, x).index > to /\ n \in 0..c /\ n + 1 = x /\ n < c
      BY <1>1
    <3>3. ASSUME NEW j \in 1..n PROVE At(in, j).index <= to
      <4>1. j \in Nat /\ j \in 1..c /\ j < x BY <1>1, <3>2
      <4>2. ~(At(in, j).index > to) BY <3>1, <4>1
      <4> QED BY <1>3, <4>1, <4>2
    <3> HIDE DEF n, S
    <3>4. Acknowledged(in, to, n) BY <3>2, <3>3 DEF Acknowledged
    <3> QED BY <3>2, <3>4
  <2> QED BY <2>1, <2>2
<1>5. k \in 0..c /\ Acknowledged(in, to, k) BY <1>4
<1>6. out = [in EXCEPT !.start = IF k = in.count THEN 0 ELSE Rotate(@ + k),
                       !.count = @ - k, !.bytes = @ - BytesOf(in, k)]
  BY DEF FreeLE
<1> HIDE DEF k
<1>7. k \in Nat /\ k <= c BY <1>1, <1>5
<1> DEFINE s == in.start
           start == IF k = c THEN 0 ELSE Pos(in, k + 1)
<1>8. /\ s + k >= MaxInflight => Pos(in, k + 1) = s + k - MaxInflight
      /\ s + k < MaxInflight => Pos(in, k + 1) = s + k
  <2>1. /\ s + (k + 1) - 1 >= MaxInflight => Pos(in, k + 1) = s + (k + 1) - 1 - MaxInflight
        /\ s + (k + 1) - 1 < MaxInflight => Pos(in, k + 1) = s + (k + 1) - 1
    BY <1>1, <1>7, PosIs
  <2> QED BY <1>1, <1>2, <1>7, <2>1
<1>9. start \in Nat /\ start < MaxInflight BY <1>1, <1>2, <1>7, <1>8
<1>10. /\ out.start = start /\ out.count = c - k /\ out.bytes = in.bytes - BytesOf(in, k)
       /\ out.buffer = in.buffer
       /\ out = [start |-> start, count |-> c - k, bytes |-> in.bytes - BytesOf(in, k),
                 buffer |-> in.buffer]
  <2>1. s + k = s + (k + 1) - 1 BY <1>1, <1>7
  <2>2. Rotate(s + k) = Pos(in, k + 1) BY <2>1 DEF Pos
  <2>3. start = IF k = in.count THEN 0 ELSE Rotate(s + k) BY <2>2
  <2> HIDE DEF start
  <2> QED BY <1>1, <1>6, <2>3 DEF InflightsType
<1> HIDE DEF out, start
<1>11. ASSUME NEW j \in 1..(c - k) PROVE At(out, j) = At(in, k + j) /\ At(in, k + j).index > to
  <2>1. j \in Nat \ {0} /\ k < c /\ k + j \in 1..c /\ k + j \in Nat \ {0} /\ k # c /\ j <= c - k
    BY <1>1, <1>7
  <2>2. start = Pos(in, k + 1) BY <2>1 DEF start
  <2>3. /\ start + j - 1 >= MaxInflight => Pos(out, j) = start + j - 1 - MaxInflight
        /\ start + j - 1 < MaxInflight => Pos(out, j) = start + j - 1
    BY <1>9, <1>10, <2>1, PosIs
  <2>4. /\ s + (k + j) - 1 >= MaxInflight => Pos(in, k + j) = s + (k + j) - 1 - MaxInflight
        /\ s + (k + j) - 1 < MaxInflight => Pos(in, k + j) = s + (k + j) - 1
    BY <1>1, <2>1, PosIs
  <2>5. Pos(out, j) = Pos(in, k + j)
    <3> DEFINE st == Pos(in, k + 1)
    <3>1. /\ s + k >= MaxInflight => st = s + k - MaxInflight
          /\ s + k < MaxInflight => st = s + k
          /\ st \in Nat
      BY <1>8, <1>9, <2>2
    <3>2. s \in Nat /\ s < MaxInflight /\ c \in Nat /\ c <= MaxInflight BY <1>1
    <3> HIDE DEF st, s, c
    <3>3. /\ st + j - 1 >= MaxInflight => Pos(out, j) = st + j - 1 - MaxInflight
          /\ st + j - 1 < MaxInflight => Pos(out, j) = st + j - 1
      BY <2>2, <2>3 DEF st
    <3> QED BY <1>2, <1>7, <2>1, <2>4, <3>1, <3>2, <3>3
  <2>6. At(out, j) = At(in, k + j)
    <3>1. At(out, j) = out.buffer[Pos(out, j) + 1] /\ At(in, k + j) = in.buffer[Pos(in, k + j) + 1]
      BY DEF At, Pos
    <3> QED BY <1>10, <2>5, <3>1
  <2>7. At(in, k + j).index > to
    <3>1. k + 1 \in 1..c /\ At(in, k + 1).index > to BY <1>1, <1>5, <1>7, <2>1 DEF Acknowledged
    <3>2. CASE j = 1 BY <3>1, <3>2
    <3>3. CASE j # 1
      <4>1. k + 1 < k + j BY <1>7, <2>1, <3>3
      <4>2. At(in, k + 1).index < At(in, k + j).index BY <2>1, <3>1, <4>1
      <4>3. At(in, k + j).index \in Nat /\ At(in, k + 1).index \in Nat BY <1>3, <2>1, <3>1
      <4> QED BY <3>1, <4>2, <4>3
    <3> QED BY <3>2, <3>3
  <2> QED BY <2>6, <2>7
<1>12. BytesOf(out, c - k) + BytesOf(in, k) <= in.bytes /\ BytesOf(out, c - k) \in Nat
       /\ BytesOf(in, k) \in Nat
  <2> DEFINE a == Bytes(in, k)
             b == Bytes(out, c - k)
             u == Bytes(in, c)
  <2>1. a \in Seq(Nat) /\ Len(a) = k /\ BytesOf(in, k) = SumOf(a) BY <1>1, <1>7, BytesAreNats
  <2>2. u \in Seq(Nat) /\ Len(u) = c /\ BytesOf(in, c) = SumOf(u) BY <1>1, BytesAreNats
  <2>3. c - k \in Nat /\ \A j \in 1..(c - k) : k + j \in 1..c BY <1>1, <1>7
  <2>4. b \in Seq(Nat) /\ Len(b) = c - k /\ BytesOf(out, c - k) = SumOf(b)
    <3>1. \A j \in 1..(c - k) : At(out, j).bytes \in Nat BY <1>3, <1>11, <2>3
    <3>2. b \in Seq(Nat) /\ Len(b) = c - k BY <2>3, <3>1 DEF Bytes
    <3> QED BY <3>2 DEF BytesOf, Bytes
  <2>5. \A j \in 1..k : u[j] = a[j] BY <1>1, <1>7 DEF Bytes
  <2>6. \A j \in 1..(c - k) : u[k + j] = b[j] BY <1>11, <2>3 DEF Bytes
  <2> HIDE DEF a, b, u
  <2>7. Len(u) = Len(a) + Len(b) BY <1>1, <1>7, <2>1, <2>2, <2>4
  <2>8. SumOf(u) = SumOf(a) + SumOf(b)
    <3>1. /\ \A j \in 1..Len(a) : u[j] = a[j]
          /\ \A j \in 1..Len(b) : u[Len(a) + j] = b[j]
      BY <2>1, <2>4, <2>5, <2>6
    <3> QED BY <2>1, <2>2, <2>4, <2>7, <3>1, SumConcat
  <2>9. SumOf(a) \in Nat /\ SumOf(b) \in Nat BY <2>1, <2>4, SumType
  <2>10. SumOf(u) <= in.bytes BY <2>2 DEF Ring
  <2> QED BY <2>1, <2>4, <2>8, <2>9, <2>10
<1>13. out \in InflightsType
  <2>1. in.bytes - BytesOf(in, k) \in Nat BY <1>1, <1>12
  <2> QED BY <1>1, <1>7, <1>9, <1>10, <2>1 DEF InflightsType
<1>14. out.start + out.count <= Len(out.buffer) \/ Len(out.buffer) = MaxInflight
  <2> DEFINE n == Len(in.buffer)
  <2>1. n \in Nat /\ s \in Nat /\ c \in Nat /\ (s + c <= n \/ n = MaxInflight) BY <1>1
  <2>2. CASE k = c
    <3>1. out.start + out.count = 0 BY <1>10, <1>7, <2>2 DEF start
    <3> QED BY <1>1, <1>10, <3>1
  <2>3. CASE k # c
    <3>1. start = Pos(in, k + 1) BY <2>3 DEF start
    <3>2. n # MaxInflight => start = s + k
      <4>1. n # MaxInflight => s + k < MaxInflight BY <1>1, <1>2, <1>7, <2>3
      <4> QED BY <1>8, <3>1, <4>1
    <3>3. n # MaxInflight => start + (c - k) <= n BY <1>1, <1>7, <3>2
    <3> QED BY <1>10, <3>3
  <2> QED BY <2>2, <2>3
<1>15. out.count = 0 => out.start = 0 BY <1>1, <1>7, <1>10 DEF start
<1>16. out.start < MaxInflight /\ out.count <= MaxInflight /\ Len(out.buffer) <= MaxInflight
  BY <1>1, <1>2, <1>7, <1>9, <1>10
<1>17. BytesOf(out, out.count) <= out.bytes BY <1>1, <1>10, <1>12
<1>18. Ring(out) BY <1>13, <1>14, <1>15, <1>16, <1>17 DEF Ring
<1> QED BY <1>5, <1>10, <1>11, <1>18 DEF out

----------------------------------------------------------------------------
(* The window slides *)

\* From the window of a to that of b the oldest messages left, and new ones came.
Slid(a, b) ==
    \E k \in 0..a.count :
      /\ b.count >= a.count - k
      /\ \A j \in 1..(a.count - k) : At(b, j) = At(a, k + j)

LEMMA SlidSame ==
    ASSUME NEW a, NEW b, a.count \in Nat, b.count >= a.count,
           \A j \in 1..a.count : At(b, j) = At(a, j)
    PROVE  Slid(a, b)
<1>1. 0 \in 0..a.count /\ a.count - 0 = a.count OBVIOUS
<1>2. \A j \in 1..(a.count - 0) : At(b, j) = At(a, 0 + j) OBVIOUS
<1> QED BY <1>1, <1>2 DEF Slid

LEMMA SlidEmpty ==
    ASSUME NEW a, NEW b, a.count \in Nat, b.count \in Nat, a.count = 0 \/ b.count = 0
    PROVE  Slid(a, b)
<1>1. a.count \in 0..a.count /\ a.count - a.count = 0 OBVIOUS
<1>2. \A j \in 1..(a.count - a.count) : At(b, j) = At(a, a.count + j) OBVIOUS
<1>3. b.count >= a.count - a.count OBVIOUS
<1> QED BY <1>1, <1>2, <1>3 DEF Slid

LEMMA SlidTrans ==
    ASSUME NEW a, NEW b, NEW c, a.count \in Nat, b.count \in Nat, c.count \in Nat,
           Slid(a, b), Slid(b, c)
    PROVE  Slid(a, c)
<1>1. PICK k \in 0..a.count : /\ b.count >= a.count - k
                              /\ \A j \in 1..(a.count - k) : At(b, j) = At(a, k + j)
  BY DEF Slid
<1>2. PICK i \in 0..b.count : /\ c.count >= b.count - i
                              /\ \A j \in 1..(b.count - i) : At(c, j) = At(b, i + j)
  BY DEF Slid
<1> DEFINE m == a.count
           n == b.count
<1>3. m \in Nat /\ n \in Nat /\ k \in Nat /\ i \in Nat /\ k <= m /\ i <= n /\ n >= m - k BY <1>1, <1>2
<1>4. CASE i <= m - k
  <2> DEFINE d == k + i
  <2>1. d \in 0..m /\ c.count >= m - d BY <1>1, <1>2, <1>3, <1>4
  <2>2. ASSUME NEW j \in 1..(m - d) PROVE At(c, j) = At(a, d + j)
    <3>1. j \in 1..(n - i) /\ i + j \in 1..(m - k) /\ k + (i + j) = d + j BY <1>3, <1>4
    <3>2. At(c, j) = At(b, i + j) BY <1>2, <3>1
    <3>3. At(b, i + j) = At(a, k + (i + j)) BY <1>1, <3>1
    <3> QED BY <3>1, <3>2, <3>3
  <2> HIDE DEF d
  <2> QED BY <2>1, <2>2 DEF Slid
<1>5. CASE ~(i <= m - k)
  <2>1. m \in 0..m /\ m - m = 0 /\ c.count >= m - m BY <1>3
  <2>2. \A j \in 1..(m - m) : At(c, j) = At(a, m + j) BY <1>3
  <2> QED BY <2>1, <2>2 DEF Slid
<1> QED BY <1>4, <1>5

----------------------------------------------------------------------------
(* Progress: the account stays right *)

\* From pr to q the account stays right for n entries, and so does Match.
Moved(pr, q, n) ==
    Accounts(q, n) /\ Slid(pr.Inflights, q.Inflights) /\ q.Match = pr.Match

LEMMA CountIsNat ==
    ASSUME NEW pr, NEW n, Accounts(pr, n)
    PROVE  pr.Inflights.count \in Nat /\ pr \in Progress /\ Ring(pr.Inflights)
BY DEF Accounts, Ring, InflightsType

LEMMA MovedRefl ==
    ASSUME NEW pr, NEW n, Accounts(pr, n)
    PROVE  Moved(pr, pr, n)
<1>1. pr.Inflights.count \in Nat BY CountIsNat
<1>2. Slid(pr.Inflights, pr.Inflights) BY <1>1, SlidSame
<1> QED BY <1>2 DEF Moved

LEMMA MovedTrans ==
    ASSUME NEW p, NEW q, NEW r, NEW n, Accounts(p, n), Moved(p, q, n), Moved(q, r, n)
    PROVE  Moved(p, r, n)
<1>1. /\ p.Inflights.count \in Nat /\ q.Inflights.count \in Nat /\ r.Inflights.count \in Nat
  BY CountIsNat DEF Moved
<1>2. Slid(p.Inflights, r.Inflights) BY <1>1, SlidTrans DEF Moved
<1> QED BY <1>2 DEF Moved

\* An account whose window is empty.
LEMMA EmptyAccount ==
    ASSUME NEW q \in Progress, NEW n \in Nat, Ring(q.Inflights), q.Inflights.count = 0,
           q.Match <= n, q.Next <= n + 1, q.PendingSnapshot <= n,
           q.State = "StateReplicate" => q.Match < q.Next
    PROVE  Accounts(q, n)
<1>1. InWindow(q) BY DEF InWindow
<1> QED BY <1>1 DEF Accounts

\* One that is given a new state.
LEMMA EmptiedMoves ==
    ASSUME NEW pr, NEW n \in Nat, Accounts(pr, n), NEW q \in Progress,
           q.Inflights = resetInflights(pr.Inflights), q.Match = pr.Match,
           q.Next <= n + 1, q.PendingSnapshot <= n,
           q.State = "StateReplicate" => q.Match < q.Next
    PROVE  Moved(pr, q, n)
<1>1. Ring(pr.Inflights) /\ pr.Inflights.count \in Nat BY CountIsNat
<1>2. Ring(q.Inflights) /\ q.Inflights.count = 0 BY <1>1, ResetRing
<1>3. Slid(pr.Inflights, q.Inflights) BY <1>1, <1>2, SlidEmpty
<1>4. q.Match <= n BY DEF Accounts
<1>5. Accounts(q, n) BY <1>2, <1>4, EmptyAccount
<1> QED BY <1>3, <1>5 DEF Moved

\* One whose window is not touched.
LEMMA SameWindowMoves ==
    ASSUME NEW pr, NEW n \in Nat, Accounts(pr, n), NEW q \in Progress,
           q.Inflights = pr.Inflights, q.Match = pr.Match, q.State = pr.State,
           q.Next <= n + 1, q.PendingSnapshot = pr.PendingSnapshot,
           q.State = "StateReplicate" => q.Next = pr.Next
    PROVE  Moved(pr, q, n)
<1>1. pr.Inflights.count \in Nat BY CountIsNat
<1>2. Slid(pr.Inflights, q.Inflights) BY <1>1, SlidSame
<1>3. CASE q.State = "StateReplicate"
  <2>1. InWindow(q) BY <1>3 DEF Accounts, InWindow
  <2> QED BY <1>2, <1>3, <2>1 DEF Accounts, Moved
<1>4. CASE q.State # "StateReplicate"
  <2>1. q.Inflights.count = 0 BY <1>4 DEF Accounts
  <2>2. InWindow(q) BY <2>1 DEF InWindow
  <2> QED BY <1>2, <1>4, <2>1, <2>2 DEF Accounts, Moved
<1> QED BY <1>3, <1>4

LEMMA ResetStateIs ==
    ASSUME NEW pr \in Progress, NEW state \in {"StateProbe", "StateReplicate", "StateSnapshot"},
           Ring(pr.Inflights)
    PROVE  /\ ResetState(pr, state) \in Progress
           /\ ResetState(pr, state).Inflights = resetInflights(pr.Inflights)
           /\ ResetState(pr, state).Match = pr.Match /\ ResetState(pr, state).Next = pr.Next
           /\ ResetState(pr, state).State = state /\ ResetState(pr, state).PendingSnapshot = 0
<1>1. resetInflights(pr.Inflights) \in InflightsType BY ResetRing DEF Ring
<1> QED BY <1>1 DEF ResetState, Progress

LEMMA BecomeProbeMoves ==
    ASSUME NEW pr, NEW n \in Nat, Accounts(pr, n)
    PROVE  /\ Moved(pr, BecomeProbe(pr), n) /\ BecomeProbe(pr).State = "StateProbe"
           /\ BecomeProbe(pr).Inflights.count = 0
<1> DEFINE r == ResetState(pr, "StateProbe")
           has == IF pr.State = "StateSnapshot" THEN Greatest(pr.Match, pr.PendingSnapshot)
                  ELSE pr.Match
           q == [r EXCEPT !.Next = has + 1]
<1>1. pr \in Progress /\ Ring(pr.Inflights) /\ pr.Match <= n /\ pr.PendingSnapshot <= n
  BY DEF Accounts
<1>2. /\ r \in Progress /\ r.Inflights = resetInflights(pr.Inflights) /\ r.Match = pr.Match
      /\ r.State = "StateProbe" /\ r.PendingSnapshot = 0
  BY <1>1, ResetStateIs
<1>3. has \in Nat /\ has <= n BY <1>1 DEF Progress, Greatest
<1> HIDE DEF r, has
<1>4. /\ q \in Progress /\ q.Inflights = r.Inflights /\ q.Match = r.Match /\ q.Next = has + 1
      /\ q.State = r.State /\ q.PendingSnapshot = 0
  BY <1>2, <1>3 DEF Progress
<1> HIDE DEF q
<1>5. q.Next <= n + 1 BY <1>3, <1>4
<1>6. Moved(pr, q, n) BY <1>2, <1>4, <1>5, EmptiedMoves
<1>7. q.Inflights.count = 0 BY <1>1, <1>2, <1>4, ResetRing
<1>8. BecomeProbe(pr) = q BY DEF BecomeProbe, q, r, has
<1> QED BY <1>2, <1>4, <1>6, <1>7, <1>8

LEMMA BecomeReplicateMoves ==
    ASSUME NEW pr, NEW n \in Nat, Accounts(pr, n)
    PROVE  Moved(pr, BecomeReplicate(pr), n)
<1> DEFINE r == ResetState(pr, "StateReplicate")
           q == [r EXCEPT !.Next = pr.Match + 1]
<1>1. pr \in Progress /\ Ring(pr.Inflights) /\ pr.Match <= n /\ pr.Match \in Nat
  BY DEF Accounts, Progress
<1>2. /\ r \in Progress /\ r.Inflights = resetInflights(pr.Inflights) /\ r.Match = pr.Match
      /\ r.State = "StateReplicate" /\ r.PendingSnapshot = 0
  BY <1>1, ResetStateIs
<1> HIDE DEF r
<1>3. /\ q \in Progress /\ q.Inflights = r.Inflights /\ q.Match = r.Match
      /\ q.Next = pr.Match + 1 /\ q.State = r.State /\ q.PendingSnapshot = 0
  BY <1>1, <1>2 DEF Progress
<1> HIDE DEF q
<1>4. q.Next <= n + 1 /\ q.Match < q.Next BY <1>1, <1>2, <1>3
<1>5. Moved(pr, q, n) BY <1>2, <1>3, <1>4, EmptiedMoves
<1>6. BecomeReplicate(pr) = q BY DEF BecomeReplicate, q, r
<1> QED BY <1>5, <1>6

LEMMA BecomeSnapshotMoves ==
    ASSUME NEW pr, NEW n \in Nat, Accounts(pr, n), NEW index \in 0..n
    PROVE  Moved(pr, BecomeSnapshot(pr, index), n)
<1> DEFINE r == ResetState(pr, "StateSnapshot")
           q == [r EXCEPT !.PendingSnapshot = index]
<1>1. pr \in Progress /\ Ring(pr.Inflights) /\ pr.Next <= n + 1 BY DEF Accounts
<1>2. /\ r \in Progress /\ r.Inflights = resetInflights(pr.Inflights) /\ r.Match = pr.Match
      /\ r.State = "StateSnapshot" /\ r.Next = pr.Next
  BY <1>1, ResetStateIs
<1> HIDE DEF r
<1>3. /\ q \in Progress /\ q.Inflights = r.Inflights /\ q.Match = r.Match
      /\ q.Next = r.Next /\ q.State = r.State /\ q.PendingSnapshot = index
  BY <1>2 DEF Progress
<1> HIDE DEF q
<1>4. Moved(pr, q, n) BY <1>1, <1>2, <1>3, EmptiedMoves
<1>5. BecomeSnapshot(pr, index) = q BY DEF BecomeSnapshot, q, r
<1> QED BY <1>4, <1>5

\* payloadsSize counts something for any entries.
LEMMA PayloadType ==
    ASSUME NEW ents \in Seq(Entry)
    PROVE  payloadsSize(ents) \in Nat
<1> DEFINE s == [k \in 1..Len(ents) |-> ents[k].size]
<1>1. \A k \in 1..Len(ents) : ents[k].size \in Nat
  <2> SUFFICES ASSUME NEW k \in 1..Len(ents) PROVE ents[k].size \in Nat OBVIOUS
  <2>1. ents[k] \in Entry BY ElementOfSeq
  <2> QED BY <2>1 DEF Entry
<1>2. s \in Seq(Nat) BY <1>1, LenProperties
<1> HIDE DEF s
<1>3. SumOf(s) \in Nat BY <1>2, SumType
<1> QED BY <1>3 DEF payloadsSize, s

\* A window that is not full takes one more message, which ends at last.
LEMMA AddMoves ==
    ASSUME NEW pr, NEW n \in Nat, Accounts(pr, n), pr.State = "StateReplicate",
           pr.Inflights.count < MaxInflight,
           NEW last \in Nat, last >= pr.Next, last <= n, NEW bytes \in Nat, NEW q \in Progress,
           q.Inflights = Add(pr.Inflights, last, bytes), q.Match = pr.Match, q.Next = last + 1,
           q.State = pr.State, q.PendingSnapshot = pr.PendingSnapshot
    PROVE  Moved(pr, q, n)
<1> DEFINE in == pr.Inflights
           out == q.Inflights
           c == in.count
<1>1. /\ pr \in Progress /\ Ring(in) /\ c \in Nat /\ pr.Match \in Nat /\ pr.Next \in Nat
      /\ pr.Match < pr.Next
  BY CountIsNat DEF Accounts, Progress
<1>2. /\ Ring(out) /\ out.count = c + 1 /\ \A k \in 1..c : At(out, k) = At(in, k)
      /\ At(out, c + 1) = [index |-> last, bytes |-> bytes]
  BY <1>1, AddRing
<1>3. At(out, c + 1).index = last BY <1>2
<1>4. \A k \in 1..c : At(in, k).index \in (pr.Match + 1)..(pr.Next - 1)
  BY DEF Accounts, InWindow
<1>5. \A j, k \in 1..c : j < k => At(in, j).index < At(in, k).index
  BY DEF Accounts, InWindow
<1>6. Slid(in, out) BY <1>1, <1>2, SlidSame
<1> HIDE DEF in, out, c
<1>7. \A k \in 1..(c + 1) : k \in 1..c \/ k = c + 1 BY <1>1
<1>8. \A k \in 1..(c + 1) : At(out, k).index \in (pr.Match + 1)..last
  BY <1>1, <1>2, <1>3, <1>4, <1>7
<1>9. ASSUME NEW j \in 1..(c + 1), NEW k \in 1..(c + 1), j < k
      PROVE  At(out, j).index < At(out, k).index
  <2>1. j \in 1..c BY <1>1, <1>9
  <2>2. CASE k = c + 1 BY <1>1, <1>2, <1>3, <1>4, <2>1, <2>2
  <2>3. CASE k # c + 1
    <3>1. k \in 1..c BY <1>1, <2>3
    <3> QED BY <1>2, <1>5, <1>9, <2>1, <3>1
  <2> QED BY <2>2, <2>3
<1>10. InWindow(q) BY <1>2, <1>8, <1>9 DEF InWindow, out
<1>11. q.Match <= n /\ q.PendingSnapshot <= n /\ q.Next <= n + 1 /\ q.Match < q.Next
  BY <1>1 DEF Accounts
<1> QED BY <1>2, <1>6, <1>10, <1>11 DEF Accounts, Moved, in, out

LEMMA UpdateOnEntriesSendMoves ==
    ASSUME NEW pr, NEW n \in Nat, Accounts(pr, n), NEW ents \in Seq(Entry),
           pr.Next - 1 + Len(ents) <= n,
           pr.State = "StateReplicate" /\ ents # <<>> => ~Full(pr.Inflights)
    PROVE  Moved(pr, UpdateOnEntriesSend(pr, ents, pr.Next), n)
<1> DEFINE s == UpdateOnEntriesSend(pr, ents, pr.Next)
           in == pr.Inflights
           last == pr.Next + Len(ents) - 1
<1>1. /\ pr \in Progress /\ Ring(in) /\ in.count \in Nat /\ in.count <= MaxInflight
      /\ pr.Next \in Nat \ {0} /\ pr.Next <= n + 1 /\ Len(ents) \in Nat /\ in \in InflightsType
  BY CountIsNat, LenProperties DEF Accounts, Progress, Ring
<1>2. CASE pr.State # "StateReplicate"
  <2> DEFINE paused == pr.MsgAppFlowPaused \/ ents # <<>>
             q == [pr EXCEPT !.MsgAppFlowPaused = paused]
  <2>1. s = q BY <1>2 DEF UpdateOnEntriesSend
  <2>2. paused \in BOOLEAN OBVIOUS
  <2> HIDE DEF paused
  <2>3. /\ q \in Progress /\ q.Inflights = pr.Inflights /\ q.Match = pr.Match
        /\ q.State = pr.State /\ q.Next = pr.Next /\ q.PendingSnapshot = pr.PendingSnapshot
    BY <1>1, <2>2 DEF Progress
  <2> HIDE DEF q
  <2>4. Moved(pr, q, n) BY <1>1, <2>3, SameWindowMoves
  <2> QED BY <2>1, <2>4
<1>3. CASE pr.State = "StateReplicate" /\ ents = <<>>
  <2> DEFINE full == Full(in)
             q == [pr EXCEPT !.Next = @, !.Inflights = in, !.MsgAppFlowPaused = full]
  <2>1. s = q BY <1>3 DEF UpdateOnEntriesSend, SentInReplicate
  <2>2. full \in BOOLEAN BY DEF Full
  <2> HIDE DEF full
  <2>3. /\ q \in Progress /\ q.Inflights = pr.Inflights /\ q.Match = pr.Match
        /\ q.State = pr.State /\ q.Next = pr.Next /\ q.PendingSnapshot = pr.PendingSnapshot
    BY <1>1, <2>2 DEF Progress
  <2> HIDE DEF q
  <2>4. Moved(pr, q, n) BY <1>1, <2>3, SameWindowMoves
  <2> QED BY <2>1, <2>4
<1>4. CASE pr.State = "StateReplicate" /\ ents # <<>>
  <2> DEFINE bytes == payloadsSize(ents)
             window == Add(in, last, bytes)
             full == Full(window)
             next == last + 1
             q == [pr EXCEPT !.Next = next, !.Inflights = window, !.MsgAppFlowPaused = full]
  <2>1. s = q BY <1>4 DEF UpdateOnEntriesSend, SentInReplicate
  <2>2. full \in BOOLEAN BY DEF Full
  <2>3. bytes \in Nat BY PayloadType
  <2>4. in.count < MaxInflight
    <3>1. in.count # MaxInflight BY <1>4 DEF Full
    <3> QED BY <1>1, <3>1, InflightAssumption
  <2>5. Len(ents) > 0 BY <1>1, <1>4, EmptySeq
  <2>6. last \in Nat /\ last >= pr.Next /\ last <= n BY <1>1, <2>5
  <2> HIDE DEF last, bytes
  <2>7. window \in InflightsType BY <1>1, <2>3, <2>4, <2>6, AddRing DEF Ring
  <2> HIDE DEF full, window
  <2>8. next \in Nat \ {0} BY <2>6
  <2> HIDE DEF next
  <2>9. pr \in Progress BY <1>1
  <2>10. /\ q \in Progress /\ q.Inflights = window /\ q.Match = pr.Match /\ q.Next = next
         /\ q.State = pr.State /\ q.PendingSnapshot = pr.PendingSnapshot
    BY <2>2, <2>7, <2>8, <2>9 DEF Progress
  <2> HIDE DEF q
  <2>11. Moved(pr, q, n) BY <1>1, <1>4, <2>3, <2>4, <2>6, <2>10, AddMoves DEF window, next
  <2> QED BY <2>1, <2>11
<1> QED BY <1>2, <1>3, <1>4

----------------------------------------------------------------------------
(* Progress: what an answer does to the account *)

LEMMA MaybeUpdateIs ==
    ASSUME NEW pr \in Progress, NEW i \in Nat
    PROVE  /\ MaybeUpdate(pr, i) \in Progress
           /\ MaybeUpdate(pr, i).Inflights = pr.Inflights
           /\ MaybeUpdate(pr, i).State = pr.State
           /\ MaybeUpdate(pr, i).PendingSnapshot = pr.PendingSnapshot
           /\ MaybeUpdate(pr, i).Match = Greatest(pr.Match, i)
           /\ MaybeUpdate(pr, i).Next = Greatest(pr.Next, i + 1)
<1> DEFINE match == Greatest(pr.Match, i)
           next == Greatest(pr.Next, i + 1)
           paused == pr.MsgAppFlowPaused /\ pr.Match >= i
           q == [pr EXCEPT !.Match = match, !.Next = next, !.MsgAppFlowPaused = paused]
<1>1. pr.Match \in Nat /\ pr.Next \in Nat \ {0} BY DEF Progress
<1>2. match \in Nat /\ next \in Nat \ {0} /\ paused \in BOOLEAN BY <1>1 DEF Greatest
<1>3. MaybeUpdate(pr, i) = q BY <1>1 DEF MaybeUpdate
<1> HIDE DEF match, next, paused
<1>4. /\ q \in Progress /\ q.Inflights = pr.Inflights /\ q.State = pr.State
      /\ q.PendingSnapshot = pr.PendingSnapshot /\ q.Match = match /\ q.Next = next
  BY <1>2 DEF Progress
<1> HIDE DEF q
<1> QED BY <1>3, <1>4 DEF match, next

\* What was acknowledged before changes nothing of it.
LEMMA KnownMoves ==
    ASSUME NEW pr, NEW n \in Nat, Accounts(pr, n), NEW i \in Nat, i <= pr.Match
    PROVE  Moved(pr, MaybeUpdate(pr, i), n)
<1> DEFINE q == MaybeUpdate(pr, i)
<1>1. /\ pr \in Progress /\ pr.Match \in Nat /\ pr.Next \in Nat \ {0}
      /\ pr.Match <= n /\ pr.Next <= n + 1
      /\ pr.State = "StateReplicate" => pr.Match < pr.Next
  BY DEF Accounts, Progress
<1>2. /\ q \in Progress /\ q.Inflights = pr.Inflights /\ q.State = pr.State
      /\ q.PendingSnapshot = pr.PendingSnapshot /\ q.Match = Greatest(pr.Match, i)
      /\ q.Next = Greatest(pr.Next, i + 1)
  BY <1>1, MaybeUpdateIs
<1> HIDE DEF q
<1>3. q.Match = pr.Match BY <1>1, <1>2 DEF Greatest
<1>4. q.Next <= n + 1 BY <1>1, <1>2 DEF Greatest
<1>5. q.State = "StateReplicate" => q.Next = pr.Next BY <1>1, <1>2 DEF Greatest
<1>6. Moved(pr, q, n) BY <1>2, <1>3, <1>4, <1>5, SameWindowMoves
<1> QED BY <1>6 DEF q

\* Index i, acknowledged for the first time, becomes the Match.
LEMMA AcknowledgedMoves ==
    ASSUME NEW pr, NEW n \in Nat, Accounts(pr, n), NEW i \in Nat, i > pr.Match, i <= n
    PROVE  /\ Accounts(acknowledged(pr, i), n) /\ acknowledged(pr, i).Match = i
           /\ Slid(pr.Inflights, acknowledged(pr, i).Inflights)
<1> DEFINE u == MaybeUpdate(pr, i)
           a == acknowledged(pr, i)
<1>1. /\ pr \in Progress /\ pr.Match \in Nat /\ pr.Next \in Nat \ {0} /\ Ring(pr.Inflights)
      /\ pr.Next <= n + 1 /\ pr.PendingSnapshot <= n
      /\ pr.State \in {"StateProbe", "StateReplicate", "StateSnapshot"}
      /\ pr.State # "StateReplicate" => pr.Inflights.count = 0
  BY DEF Accounts, Progress
<1>2. /\ u \in Progress /\ u.Inflights = pr.Inflights /\ u.State = pr.State
      /\ u.PendingSnapshot = pr.PendingSnapshot /\ u.Match = Greatest(pr.Match, i)
      /\ u.Next = Greatest(pr.Next, i + 1)
  BY <1>1, MaybeUpdateIs
<1>3. a = CASE u.State = "StateProbe" -> BecomeReplicate(u)
            [] u.State = "StateSnapshot" ->
                  IF u.Match >= u.PendingSnapshot THEN BecomeReplicate(BecomeProbe(u)) ELSE u
            [] OTHER -> [u EXCEPT !.Inflights = FreeLE(@, i)]
  BY DEF acknowledged
<1> HIDE DEF u, a
<1>4. u.Match = i /\ u.Next <= n + 1 /\ u.Match < u.Next /\ u.Next >= pr.Next
  BY <1>1, <1>2 DEF Greatest
<1>5. ASSUME Moved(u, a, n), u.State # "StateReplicate" PROVE /\ Accounts(a, n) /\ a.Match = i
                                                              /\ Slid(pr.Inflights, a.Inflights)
  BY <1>2, <1>4, <1>5 DEF Moved
<1>6. ASSUME u.State # "StateReplicate" PROVE Accounts(u, n)
  BY <1>1, <1>2, <1>4, <1>6, EmptyAccount
<1>7. CASE u.State = "StateProbe"
  <2>1. a = BecomeReplicate(u) BY <1>3, <1>7
  <2>2. Moved(u, a, n) BY <1>6, <1>7, <2>1, BecomeReplicateMoves
  <2> QED BY <1>5, <1>7, <2>2 DEF a
<1>8. CASE u.State = "StateSnapshot" /\ u.Match >= u.PendingSnapshot
  <2>1. a = BecomeReplicate(BecomeProbe(u)) BY <1>3, <1>8
  <2>2. Moved(u, BecomeProbe(u), n) BY <1>6, <1>8, BecomeProbeMoves
  <2>3. Moved(BecomeProbe(u), a, n) BY <2>1, <2>2, BecomeReplicateMoves DEF Moved
  <2>4. Moved(u, a, n) BY <1>6, <1>8, <2>2, <2>3, MovedTrans
  <2> QED BY <1>5, <1>8, <2>4 DEF a
<1>9. CASE u.State = "StateSnapshot" /\ ~(u.Match >= u.PendingSnapshot)
  <2>1. a = u BY <1>3, <1>9
  <2>2. Moved(u, a, n) BY <1>6, <1>9, <2>1, MovedRefl
  <2> QED BY <1>5, <1>9, <2>2 DEF a
<1>10. CASE u.State = "StateReplicate"
  <2> DEFINE in == pr.Inflights
             out == FreeLE(in, i)
             q == [u EXCEPT !.Inflights = out]
  <2>1. a = q BY <1>2, <1>3, <1>10
  <2>2. /\ in.count \in Nat
        /\ \A j \in 1..in.count : At(in, j).index \in (pr.Match + 1)..(pr.Next - 1)
        /\ \A j, k \in 1..in.count : j < k => At(in, j).index < At(in, k).index
    BY CountIsNat DEF Accounts, InWindow
  <2>3. Ring(out) BY <1>1, <2>2, FreeRing
  <2>4. PICK k \in 0..in.count :
          /\ out.count = in.count - k
          /\ \A j \in 1..(in.count - k) :
               At(out, j) = At(in, k + j) /\ At(in, k + j).index > i
    BY <1>1, <2>2, FreeRing
  <2> HIDE DEF in, out
  <2>5. /\ q \in Progress /\ q.Inflights = out /\ q.Match = u.Match /\ q.Next = u.Next
        /\ q.State = u.State /\ q.PendingSnapshot = u.PendingSnapshot
    BY <1>2, <2>3 DEF Progress, Ring
  <2> HIDE DEF q
  <2>6. Slid(in, out) BY <2>2, <2>4 DEF Slid
  <2>7. ASSUME NEW j \in 1..out.count PROVE At(out, j).index \in (q.Match + 1)..(q.Next - 1)
    <3>1. j \in 1..(in.count - k) /\ k + j \in 1..in.count BY <2>2, <2>4
    <3>2. At(out, j) = At(in, k + j) /\ At(in, k + j).index > i BY <2>4, <3>1
    <3>3. At(in, k + j).index \in (pr.Match + 1)..(pr.Next - 1) BY <2>2, <3>1
    <3>4. q.Next \in Nat /\ q.Match = i BY <1>2, <1>4, <2>5 DEF Progress
    <3> QED BY <1>1, <1>4, <2>5, <3>2, <3>3, <3>4
  <2>8. ASSUME NEW j \in 1..out.count, NEW h \in 1..out.count, j < h
        PROVE  At(out, j).index < At(out, h).index
    <3>1. /\ j \in 1..(in.count - k) /\ h \in 1..(in.count - k)
          /\ k + j \in 1..in.count /\ k + h \in 1..in.count /\ k + j < k + h
      BY <2>2, <2>4, <2>8
    <3>2. At(in, k + j).index < At(in, k + h).index BY <2>2, <3>1
    <3> QED BY <2>4, <3>1, <3>2
  <2>9. InWindow(q) BY <2>5, <2>7, <2>8 DEF InWindow
  <2>10. Accounts(q, n) BY <1>1, <1>2, <1>4, <1>10, <2>3, <2>5, <2>9 DEF Accounts
  <2> QED BY <1>4, <2>1, <2>5, <2>6, <2>10 DEF a, in
<1> QED BY <1>1, <1>2, <1>7, <1>8, <1>9, <1>10 DEF a

\* A rejection leads back to probing.
LEMMA BackOffMoves ==
    ASSUME NEW pr, NEW n \in Nat, Accounts(pr, n), NEW m, m.index \in Nat, NEW hint \in Nat,
           DecrToApplies(pr, m.index)
    PROVE  Moved(pr, backOff(pr, m, hint), n)
<1>1. /\ pr \in Progress /\ pr.Match \in Nat /\ pr.Next \in Nat \ {0} /\ Ring(pr.Inflights)
      /\ pr.Match <= n /\ pr.Next <= n + 1
  BY DEF Accounts, Progress
<1>2. CASE pr.State = "StateReplicate"
  <2> DEFINE next == pr.Match + 1
             d == [pr EXCEPT !.Next = next]
             r == ResetState(d, "StateProbe")
             q == [r EXCEPT !.Next = next]
  <2>1. next \in Nat \ {0} /\ next <= n + 1 BY <1>1
  <2>2. d = MaybeDecrTo(pr, m.index, hint) BY <1>2 DEF MaybeDecrTo
  <2>3. next = (IF d.State = "StateSnapshot" THEN Greatest(d.Match, d.PendingSnapshot)
                ELSE d.Match) + 1
    BY <1>1, <1>2 DEF Progress
  <2>4. q = BecomeProbe(d) BY <2>3 DEF BecomeProbe
  <2>5. backOff(pr, m, hint) = q BY <1>2, <2>2, <2>4 DEF backOff
  <2> HIDE DEF next
  <2>6. /\ d \in Progress /\ d.Inflights = pr.Inflights /\ d.Match = pr.Match
    BY <1>1, <2>1 DEF Progress
  <2> HIDE DEF d
  <2>7. /\ r \in Progress /\ r.Inflights = resetInflights(pr.Inflights) /\ r.Match = pr.Match
        /\ r.State = "StateProbe" /\ r.PendingSnapshot = 0
    BY <1>1, <2>6, ResetStateIs
  <2> HIDE DEF r
  <2>8. /\ q \in Progress /\ q.Inflights = r.Inflights /\ q.Match = r.Match /\ q.Next = next
        /\ q.State = r.State /\ q.PendingSnapshot = 0
    BY <2>1, <2>7 DEF Progress
  <2> HIDE DEF q
  <2>9. Moved(pr, q, n) BY <2>1, <2>7, <2>8, EmptiedMoves
  <2> QED BY <2>5, <2>9
<1>3. CASE pr.State # "StateReplicate"
  <2> DEFINE next == Greatest(Least(m.index, hint + 1), 1)
             q == [pr EXCEPT !.Next = next, !.MsgAppFlowPaused = FALSE]
  <2>1. m.index = pr.Next - 1 BY <1>3 DEF DecrToApplies
  <2>2. next \in Nat \ {0} /\ next <= n + 1 BY <1>1, <2>1 DEF Greatest, Least
  <2>3. backOff(pr, m, hint) = q BY <1>3 DEF backOff, MaybeDecrTo
  <2> HIDE DEF next
  <2>4. /\ q \in Progress /\ q.Inflights = pr.Inflights /\ q.Match = pr.Match /\ q.Next = next
        /\ q.State = pr.State /\ q.PendingSnapshot = pr.PendingSnapshot
    BY <1>1, <2>2 DEF Progress
  <2> HIDE DEF q
  <2>5. Moved(pr, q, n) BY <1>3, <2>2, <2>4, SameWindowMoves
  <2> QED BY <2>3, <2>5
<1> QED BY <1>2, <1>3

----------------------------------------------------------------------------
(* The leader sends *)

\* From r to s the leader has done nothing wrong, and neither its log nor what
\* it counts of it changed.
Feeds(r, s, F) ==
    /\ Sound(s, F) /\ Slid(r.pr.Inflights, s.pr.Inflights)
    /\ s.log = r.log /\ s.applied = r.applied /\ s.uncommittedSize = r.uncommittedSize

LEMMA SoundIs ==
    ASSUME NEW s, NEW F, Sound(s, F)
    PROVE  /\ s \in Leader /\ Len(s.log) \in Nat /\ s.log \in Seq(Entry)
           /\ Accounts(s.pr, Len(s.log)) /\ s.pr \in Progress /\ s.pr.Inflights.count \in Nat
           /\ s.pr.Match \in Nat /\ s.pr.Next \in Nat \ {0} /\ s.pr.Next <= Len(s.log) + 1
           /\ s.pr.Match <= Len(s.log)
           /\ s.first \in Nat \ {0} /\ s.committed \in Nat /\ s.applied \in Nat
           /\ s.other \in Nat /\ s.out \in Seq(Message) /\ s.uncommittedSize \in Nat
<1>1. s \in Leader BY DEF Sound
<1>2. s.log \in Seq(Entry) /\ s.pr \in Progress BY <1>1 DEF Leader
<1>3. Len(s.log) \in Nat BY <1>2, LenProperties
<1>4. Accounts(s.pr, Len(s.log)) BY DEF Sound
<1>5. s.pr.Inflights.count \in Nat BY <1>4, CountIsNat
<1>6. /\ s.pr.Match \in Nat /\ s.pr.Next \in Nat \ {0} /\ s.pr.Next <= Len(s.log) + 1
      /\ s.pr.Match <= Len(s.log)
  BY <1>2, <1>4 DEF Accounts, Progress
<1>7. /\ s.first \in Nat \ {0} /\ s.committed \in Nat /\ s.applied \in Nat
      /\ s.other \in Nat /\ s.out \in Seq(Message) /\ s.uncommittedSize \in Nat
  BY <1>1 DEF Leader
<1> QED BY <1>1, <1>2, <1>3, <1>4, <1>5, <1>6, <1>7

LEMMA FeedsRefl ==
    ASSUME NEW s, NEW F, Sound(s, F)
    PROVE  Feeds(s, s, F)
<1>1. Slid(s.pr.Inflights, s.pr.Inflights) BY SoundIs, SlidSame
<1> QED BY <1>1 DEF Feeds

LEMMA FeedsTrans ==
    ASSUME NEW r, NEW s, NEW t, NEW F, Sound(r, F), Feeds(r, s, F), Feeds(s, t, F)
    PROVE  Feeds(r, t, F)
<1>1. r.pr.Inflights.count \in Nat /\ s.pr.Inflights.count \in Nat /\ t.pr.Inflights.count \in Nat
  BY SoundIs DEF Feeds
<1>2. Slid(r.pr.Inflights, t.pr.Inflights) BY <1>1, SlidTrans DEF Feeds
<1> QED BY <1>2 DEF Feeds

\* A new account of the follower.
LEMMA AccountFeeds ==
    ASSUME NEW s, NEW F, Sound(s, F), NEW q, Accounts(q, Len(s.log)),
           Slid(s.pr.Inflights, q.Inflights), Agree(F, s.log, q.Match)
    PROVE  Feeds(s, [s EXCEPT !.pr = q], F)
<1> DEFINE t == [s EXCEPT !.pr = q]
<1>1. s \in Leader BY DEF Sound
<1>2. q \in Progress BY DEF Accounts
<1>3. /\ t \in Leader /\ t.pr = q /\ t.log = s.log /\ t.first = s.first
      /\ t.committed = s.committed /\ t.applied = s.applied
      /\ t.uncommittedSize = s.uncommittedSize /\ t.other = s.other
      /\ t.out = s.out /\ t.panic = s.panic
  BY <1>1, <1>2 DEF Leader
<1> HIDE DEF t
<1>4. Sound(t, F) BY <1>3 DEF Sound
<1>5. Feeds(s, t, F) BY <1>3, <1>4 DEF Feeds
<1> QED BY <1>5 DEF t

LEMMA MovedFeeds ==
    ASSUME NEW s, NEW F, Sound(s, F), NEW q, Moved(s.pr, q, Len(s.log))
    PROVE  Feeds(s, [s EXCEPT !.pr = q], F)
<1>1. Agree(F, s.log, q.Match) BY DEF Sound, Moved
<1> QED BY <1>1, AccountFeeds DEF Moved

LEMMA SendToFeeds ==
    ASSUME NEW s, NEW F, Sound(s, F), NEW m \in Message, ForFollower(m, F, s.log)
    PROVE  Feeds(s, sendTo(s, m), F)
<1> DEFINE out == Append(s.out, m)
           t == [s EXCEPT !.out = out]
<1>1. s \in Leader /\ s.out \in Seq(Message) BY SoundIs
<1>2. /\ out \in Seq(Message) /\ Len(out) = Len(s.out) + 1 /\ out[Len(s.out) + 1] = m
      /\ \A k \in 1..Len(s.out) : out[k] = s.out[k]
  BY <1>1
<1>3. Len(s.out) \in Nat BY <1>1, LenProperties
<1>4. \A k \in 1..Len(out) : ForFollower(out[k], F, s.log)
  <2> SUFFICES ASSUME NEW k \in 1..Len(out) PROVE ForFollower(out[k], F, s.log) OBVIOUS
  <2> HIDE DEF out
  <2>1. CASE k = Len(s.out) + 1 BY <1>2, <2>1
  <2>2. CASE k # Len(s.out) + 1
    <3>1. k \in 1..Len(s.out) BY <1>2, <1>3, <2>2
    <3> QED BY <1>2, <3>1 DEF Sound
  <2> QED BY <2>1, <2>2
<1> HIDE DEF out
<1>5. /\ t \in Leader /\ t.pr = s.pr /\ t.log = s.log /\ t.first = s.first
      /\ t.committed = s.committed /\ t.applied = s.applied
      /\ t.uncommittedSize = s.uncommittedSize /\ t.other = s.other
      /\ t.out = out /\ t.panic = s.panic
  BY <1>1, <1>2 DEF Leader
<1> HIDE DEF t
<1>6. Sound(t, F) BY <1>4, <1>5 DEF Sound
<1>7. Slid(s.pr.Inflights, t.pr.Inflights) BY <1>5, SoundIs, SlidSame
<1>8. Feeds(s, t, F) BY <1>5, <1>6, <1>7 DEF Feeds
<1>9. sendTo(s, m) = t BY DEF sendTo, t, out
<1> QED BY <1>8, <1>9

\* What a step does to the account and then sends.
LEMMA SendingFeeds ==
    ASSUME NEW s, NEW F, Sound(s, F), NEW q, Moved(s.pr, q, Len(s.log)),
           NEW m \in Message, Carries(m, s.log)
    PROVE  Feeds(s, sendTo([s EXCEPT !.pr = q], m), F)
<1> DEFINE t == [s EXCEPT !.pr = q]
<1>1. Feeds(s, t, F) BY MovedFeeds
<1> HIDE DEF t
<1>2. Sound(t, F) /\ t.log = s.log BY <1>1 DEF Feeds
<1>3. Feeds(t, sendTo(t, m), F) BY <1>2, SendToFeeds DEF ForFollower
<1>4. Feeds(s, sendTo(t, m), F) BY <1>1, <1>3, FeedsTrans
<1> QED BY <1>4 DEF t

\* A prefix of a log.
LEMMA PrefixOf ==
    ASSUME NEW log \in Seq(Entry), NEW n \in 0..Len(log)
    PROVE  /\ SubSeq(log, 1, n) \in Seq(Entry) /\ Len(SubSeq(log, 1, n)) = n
           /\ \A k \in 1..n : SubSeq(log, 1, n)[k] = log[k]
<1>1. Len(log) \in Nat /\ n \in Int /\ 1 \in Int BY LenProperties
<1>2. \A k \in 1..n : log[k] \in Entry
  <2> SUFFICES ASSUME NEW k \in 1..n PROVE log[k] \in Entry OBVIOUS
  <2>1. k \in 1..Len(log) BY <1>1
  <2> QED BY <2>1, ElementOfSeq
<1>3. /\ SubSeq(log, 1, n) \in Seq(Entry)
      /\ Len(SubSeq(log, 1, n)) = IF 1 <= n THEN n - 1 + 1 ELSE 0
      /\ \A k \in 1..(n - 1 + 1) : SubSeq(log, 1, n)[k] = log[1 + k - 1]
  BY <1>1, <1>2, SubSeqProperties
<1>4. n - 1 + 1 = n /\ (1 <= n \/ n = 0) BY <1>1
<1>5. \A k \in 1..n : 1 + k - 1 = k OBVIOUS
<1> QED BY <1>3, <1>4, <1>5

\* A part of a log, from i on.
LEMMA PartOf ==
    ASSUME NEW log \in Seq(Entry), NEW i \in Nat \ {0}, NEW n \in 0..Len(log), i <= n + 1
    PROVE  /\ SubSeq(log, i, n) \in Seq(Entry) /\ Len(SubSeq(log, i, n)) = n - i + 1
           /\ \A k \in 1..(n - i + 1) : SubSeq(log, i, n)[k] = log[i - 1 + k]
<1>1. Len(log) \in Nat /\ n \in Int /\ i \in Int BY LenProperties
<1>2. \A k \in i..n : log[k] \in Entry
  <2> SUFFICES ASSUME NEW k \in i..n PROVE log[k] \in Entry OBVIOUS
  <2>1. k \in 1..Len(log) BY <1>1
  <2> QED BY <2>1, ElementOfSeq
<1>3. /\ SubSeq(log, i, n) \in Seq(Entry)
      /\ Len(SubSeq(log, i, n)) = IF i <= n THEN n - i + 1 ELSE 0
      /\ \A k \in 1..(n - i + 1) : SubSeq(log, i, n)[k] = log[i + k - 1]
  BY <1>1, <1>2, SubSeqProperties
<1>4. i <= n \/ n - i + 1 = 0 BY <1>1
<1>5. \A k \in 1..(n - i + 1) : i + k - 1 = i - 1 + k BY <1>1
<1> QED BY <1>3, <1>4, <1>5

LEMMA MsgIs ==
    ASSUME NEW type \in {"MsgApp", "MsgSnap", "MsgHeartbeat", "MsgAppResp", "MsgHeartbeatResp"}
    PROVE  /\ Msg(type) \in Message /\ Msg(type).type = type /\ Msg(type).index = 0
           /\ Msg(type).entries = <<>> /\ Msg(type).commit = 0 /\ ~Msg(type).reject
<1>1. <<>> \in Seq(Entry) BY EmptySeq
<1> QED BY <1>1 DEF Msg, Message

\* sendSnapshot is only reached when something was compacted away.
LEMMA SnapshotFeeds ==
    ASSUME NEW s, NEW F, Sound(s, F), s.first > 1
    PROVE  Feeds(s, sendSnapshot(s), F)
<1> DEFINE i == s.first - 1
           term == s.log[i].term
           ents == SubSeq(s.log, 1, i)
           msg == Msg("MsgSnap")
           m == [msg EXCEPT !.index = i, !.logTerm = term, !.entries = ents]
           q == BecomeSnapshot(s.pr, i)
<1>1. /\ s \in Leader /\ Len(s.log) \in Nat /\ s.log \in Seq(Entry) /\ s.first \in Nat
      /\ s.applied \in Nat /\ s.committed \in Nat /\ Accounts(s.pr, Len(s.log))
  BY SoundIs
<1>2. s.first <= s.applied + 1 /\ s.applied <= s.committed /\ s.committed <= Len(s.log)
  BY DEF Sound
<1>3. i \in 1..Len(s.log) /\ i # 0 /\ i \in Nat /\ i \in 0..Len(s.log) BY <1>1, <1>2
<1>4. s.log[i] \in Entry BY <1>1, <1>3, ElementOfSeq
<1>5. term \in Nat BY <1>4, FlowAssumption DEF Entry
<1>6. ents \in Seq(Entry) BY <1>1, <1>3, PrefixOf
<1>7. sendSnapshot(s) = IF ~s.pr.RecentActive THEN s ELSE sendTo([s EXCEPT !.pr = q], m)
  BY <1>3 DEF sendSnapshot
<1>8. Moved(s.pr, q, Len(s.log)) BY <1>1, <1>3, BecomeSnapshotMoves
<1> HIDE DEF term, i, ents, q
<1>9. msg \in Message /\ msg.type = "MsgSnap" BY MsgIs
<1> HIDE DEF msg
<1>10. /\ m \in Message /\ m.type = "MsgSnap" /\ m.index = i /\ m.logTerm = term
       /\ m.entries = ents
  BY <1>3, <1>5, <1>6, <1>9 DEF Message
<1>11. Carries(m, s.log) BY <1>3, <1>10 DEF Carries, term, ents
<1> HIDE DEF m
<1>12. Feeds(s, sendTo([s EXCEPT !.pr = q], m), F) BY <1>8, <1>10, <1>11, SendingFeeds
<1>13. Feeds(s, s, F) BY FeedsRefl
<1> QED BY <1>7, <1>12, <1>13 DEF msg

\* The entries of a MsgApp.
LEMMA NextEntriesAre ==
    ASSUME NEW s, NEW F, Sound(s, F)
    PROVE  /\ nextEntries(s) \in Seq(Entry)
           /\ s.pr.Next - 1 + Len(nextEntries(s)) <= Len(s.log)
           /\ \A k \in 1..Len(nextEntries(s)) : nextEntries(s)[k] = s.log[s.pr.Next - 1 + k]
           /\ s.pr.State = "StateReplicate" /\ nextEntries(s) # <<>> => ~Full(s.pr.Inflights)
<1>1. /\ Len(s.log) \in Nat /\ s.log \in Seq(Entry) /\ s.pr.Next \in Nat \ {0}
      /\ s.pr.Next <= Len(s.log) + 1
  BY SoundIs
<1>2. CASE nextEntries(s) = <<>> BY <1>1, <1>2
<1>3. CASE nextEntries(s) # <<>>
  <2> DEFINE i == s.pr.Next
             n == Least(Len(s.log), i + MaxEntries - 1)
  <2>1. nextEntries(s) = SubSeq(s.log, i, n) BY <1>3 DEF nextEntries, Entries
  <2>2. s.pr.State = "StateReplicate" => ~Full(s.pr.Inflights) BY <1>3 DEF nextEntries
  <2>3. MaxEntries \in Nat \ {0} BY FlowAssumption
  <2>4. n \in 0..Len(s.log) /\ i <= n + 1 /\ i \in Nat \ {0} BY <1>1, <2>3 DEF Least
  <2> HIDE DEF n, i
  <2>5. /\ SubSeq(s.log, i, n) \in Seq(Entry) /\ Len(SubSeq(s.log, i, n)) = n - i + 1
        /\ \A k \in 1..(n - i + 1) : SubSeq(s.log, i, n)[k] = s.log[i - 1 + k]
    BY <1>1, <2>4, PartOf
  <2>6. i - 1 + Len(nextEntries(s)) <= Len(s.log) BY <1>1, <2>1, <2>4, <2>5
  <2> QED BY <2>1, <2>2, <2>5, <2>6 DEF i
<1> QED BY <1>2, <1>3

LEMMA TermIsNat ==
    ASSUME NEW log \in Seq(Entry), NEW i
    PROVE  TermAt(log, i) \in Nat
<1>1. CASE i \in 1..Len(log)
  <2>1. log[i] \in Entry BY <1>1, ElementOfSeq
  <2> QED BY SMTT(60), <1>1, <2>1, FlowAssumption DEF TermAt, Entry
<1>2. CASE i \notin 1..Len(log) BY <1>2 DEF TermAt
<1> QED BY <1>1, <1>2

LEMMA AppFeeds ==
    ASSUME NEW s, NEW F, Sound(s, F), s.pr.State # "StateSnapshot"
    PROVE  Feeds(s, sendApp(s, nextEntries(s)), F)
<1> DEFINE ents == nextEntries(s)
           i == s.pr.Next - 1
           term == TermAt(s.log, i)
           com == s.committed
           msg == Msg("MsgApp")
           m == [msg EXCEPT !.index = i, !.logTerm = term, !.entries = ents, !.commit = com]
           q == UpdateOnEntriesSend(s.pr, ents, s.pr.Next)
<1>1. /\ s \in Leader /\ Len(s.log) \in Nat /\ s.log \in Seq(Entry) /\ s.committed \in Nat
      /\ s.pr.Next \in Nat \ {0} /\ Accounts(s.pr, Len(s.log))
  BY SoundIs
<1>2. /\ ents \in Seq(Entry) /\ s.pr.Next - 1 + Len(ents) <= Len(s.log)
      /\ \A k \in 1..Len(ents) : ents[k] = s.log[s.pr.Next - 1 + k]
      /\ s.pr.State = "StateReplicate" /\ ents # <<>> => ~Full(s.pr.Inflights)
  BY NextEntriesAre
<1>3. term \in Nat BY <1>1, TermIsNat
<1>4. i \in Nat BY <1>1
<1>5. sendApp(s, ents) = sendTo([s EXCEPT !.pr = q], m)
  <2>1. ~refusesToSend(s.pr, ents) BY <1>2 DEF refusesToSend
  <2> QED BY <2>1 DEF sendApp
<1> HIDE DEF ents
<1>6. Moved(s.pr, q, Len(s.log)) BY <1>1, <1>2, UpdateOnEntriesSendMoves
<1>7. msg \in Message /\ msg.type = "MsgApp" BY MsgIs
<1>8. com \in Nat BY <1>1
<1> HIDE DEF q, term, msg, i, com
<1>9. /\ m \in Message /\ m.type = "MsgApp" /\ m.index = i /\ m.logTerm = term
      /\ m.entries = ents
  BY <1>2, <1>3, <1>4, <1>7, <1>8 DEF Message
<1>10. Carries(m, s.log) BY <1>2, <1>9 DEF Carries, term, i
<1> HIDE DEF m
<1>11. Feeds(s, sendTo([s EXCEPT !.pr = q], m), F) BY <1>6, <1>9, <1>10, SendingFeeds
<1> QED BY <1>5, <1>11 DEF ents

LEMMA MaybeSendFeeds ==
    ASSUME NEW s, NEW F, Sound(s, F), NEW sendIfEmpty \in BOOLEAN
    PROVE  Feeds(s, maybeSendAppend(s, sendIfEmpty), F)
<1>1. /\ s.first \in Nat /\ s.pr.Next \in Nat \ {0} /\ s.pr.Next <= Len(s.log) + 1
      /\ Len(s.log) \in Nat
  BY SoundIs
<1>2. termFails(s, s.pr.Next - 1) => s.first > 1 BY <1>1 DEF termFails
<1>3. /\ Feeds(s, s, F)
      /\ ~IsPaused(s.pr) => Feeds(s, sendApp(s, nextEntries(s)), F)
  BY FeedsRefl, AppFeeds DEF IsPaused
<1>4. termFails(s, s.pr.Next - 1) => Feeds(s, sendSnapshot(s), F) BY <1>2, SnapshotFeeds
<1> QED BY <1>3, <1>4 DEF maybeSendAppend

\* However often it is repeated.
LEMMA SendRemainingFeeds ==
    ASSUME NEW s, NEW F, Sound(s, F)
    PROVE  Feeds(s, sendRemaining(s), F)
<1> DEFINE n == Len(s.log)
           step(t) == maybeSendAppend(t, FALSE)
           G(h) == h = [k \in 0..n |-> IF k = 0 THEN s ELSE step(h[k - 1])]
           after == CHOOSE h : G(h)
           R(k, h) == h[0] = s /\ \A j \in 1..k : h[j] = step(h[j - 1])
<1>1. n \in Nat BY SoundIs
<1>2. sendRemaining(s) = after[n] BY DEF sendRemaining
<1>3. \A t : Feeds(s, t, F) => Feeds(s, step(t), F)
  <2> SUFFICES ASSUME NEW t, Feeds(s, t, F) PROVE Feeds(s, step(t), F) OBVIOUS
  <2>1. Feeds(t, step(t), F) BY MaybeSendFeeds DEF Feeds
  <2> HIDE DEF step
  <2> QED BY <2>1, FeedsTrans
<1> HIDE DEF step, n
<1>4. \E h : R(n, h)
  <2> DEFINE S == {k \in Nat : \E h : R(k, h)}
  <2>1. 0 \in S
    <3>1. R(0, [k \in 0..0 |-> s]) OBVIOUS
    <3> HIDE DEF R
    <3> QED BY <3>1
  <2>2. ASSUME NEW k \in S PROVE k + 1 \in S
    <3>1. k \in Nat /\ \E h : R(k, h)
      <4> HIDE DEF R
      <4> QED BY <2>2
    <3>2. PICK h : R(k, h) BY <3>1
    <3> DEFINE g == [j \in 0..(k + 1) |-> IF j = k + 1 THEN step(h[k]) ELSE h[j]]
    <3>3. g[0] = s BY <3>1, <3>2
    <3>4. ASSUME NEW j \in 1..(k + 1) PROVE g[j] = step(g[j - 1])
      <4>1. CASE j = k + 1
        <5>1. g[j] = step(h[k]) BY <3>1, <4>1
        <5>2. j - 1 = k /\ g[k] = h[k] BY <3>1, <4>1
        <5> QED BY <5>1, <5>2
      <4>2. CASE j # k + 1
        <5>1. j \in 1..k /\ j - 1 \in 0..k BY <3>1, <4>2
        <5>2. g[j] = h[j] /\ g[j - 1] = h[j - 1] BY <3>1, <5>1
        <5>3. h[j] = step(h[j - 1]) BY <3>2, <5>1
        <5> QED BY <5>2, <5>3
      <4> QED BY <4>1, <4>2
    <3> HIDE DEF g
    <3>5. R(k + 1, g) BY <3>3, <3>4
    <3> HIDE DEF R
    <3> QED BY <3>1, <3>5
  <2>3. S \in SUBSET Nat OBVIOUS
  <2> HIDE DEF S
  <2>4. n \in S BY <1>1, <2>1, <2>2, <2>3, AllNaturals
  <2> QED BY <2>4 DEF S
<1>5. PICK h : R(n, h) BY <1>4
<1> DEFINE g == [k \in 0..n |-> h[k]]
<1>6. G(g)
  <2> SUFFICES ASSUME NEW k \in 0..n
               PROVE  g[k] = IF k = 0 THEN s ELSE step(g[k - 1])
    OBVIOUS
  <2>1. CASE k = 0 BY <1>1, <1>5, <2>1
  <2>2. CASE k # 0
    <3>1. k \in 1..n /\ k - 1 \in 0..n BY <1>1, <2>2
    <3> QED BY <1>5, <2>2, <3>1
  <2> QED BY <2>1, <2>2
<1>7. G(after)
  <2> HIDE DEF G, g
  <2> QED BY <1>6
<1>8. \A k \in 0..n : after[k] = IF k = 0 THEN s ELSE step(after[k - 1])
  <2> HIDE DEF after
  <2> QED BY <1>7
<1> HIDE DEF after, G, R
<1> DEFINE S == {k \in Nat : k <= n => Feeds(s, after[k], F)}
<1>9. 0 \in S
  <2>1. Feeds(s, s, F) BY FeedsRefl
  <2>2. after[0] = s BY <1>1, <1>8
  <2> QED BY <2>1, <2>2
<1>10. ASSUME NEW k \in S PROVE k + 1 \in S
  <2>1. SUFFICES ASSUME k + 1 <= n PROVE Feeds(s, after[k + 1], F) OBVIOUS
  <2>2. k \in Nat /\ k <= n /\ k + 1 \in 0..n /\ k + 1 # 0 /\ (k + 1) - 1 = k BY <1>1, <1>10, <2>1
  <2>3. Feeds(s, after[k], F) BY <1>10, <2>2
  <2>4. after[k + 1] = step(after[k]) BY <1>8, <2>2
  <2> QED BY <1>3, <2>3, <2>4
<1>11. S \in SUBSET Nat OBVIOUS
<1> HIDE DEF S
<1>12. n \in S BY <1>1, <1>9, <1>10, <1>11, AllNaturals
<1> QED BY <1>1, <1>2, <1>12 DEF S

----------------------------------------------------------------------------
(* The leader handles an answer or a report *)

LEMMA CommitFeeds ==
    ASSUME NEW s, NEW F, Sound(s, F)
    PROVE  Feeds(s, maybeCommit(s), F)
<1> DEFINE mci == Greatest(s.other, s.pr.Match)
           t == [s EXCEPT !.committed = mci]
<1>1. /\ s \in Leader /\ s.other \in Nat /\ s.pr.Match \in Nat /\ s.pr.Match <= Len(s.log)
      /\ s.committed \in Nat /\ Len(s.log) \in Nat /\ s.applied \in Nat
  BY SoundIs
<1>2. s.other <= Len(s.log) BY DEF Sound
<1>3. mci \in Nat /\ mci <= Len(s.log) BY <1>1, <1>2 DEF Greatest
<1>4. maybeCommit(s) = s \/ (maybeCommit(s) = t /\ mci > s.committed)
  BY <1>1, <1>3 DEF maybeCommit, commitTo
<1> HIDE DEF mci
<1>5. /\ t \in Leader /\ t.pr = s.pr /\ t.log = s.log /\ t.first = s.first
      /\ t.committed = mci /\ t.applied = s.applied
      /\ t.uncommittedSize = s.uncommittedSize /\ t.other = s.other
      /\ t.out = s.out /\ t.panic = s.panic
  BY <1>1, <1>3 DEF Leader
<1> HIDE DEF t
<1>6. ASSUME mci > s.committed PROVE Feeds(s, t, F)
  <2>1. t.applied <= t.committed /\ t.committed <= Len(t.log)
    BY <1>1, <1>3, <1>5, <1>6 DEF Sound
  <2>2. Sound(t, F) BY <1>5, <2>1 DEF Sound
  <2>3. Slid(s.pr.Inflights, t.pr.Inflights) BY <1>5, SoundIs, SlidSame
  <2> QED BY <1>5, <2>2, <2>3 DEF Feeds
<1> QED BY <1>4, <1>6, FeedsRefl

\* What follows something else.
LEMMA ThenFeeds ==
    ASSUME NEW r, NEW s, NEW F, Sound(r, F), Feeds(r, s, F)
    PROVE  /\ Feeds(r, maybeCommit(s), F) /\ Feeds(r, sendAppend(s), F)
           /\ Feeds(r, sendRemaining(s), F)
<1>1. Sound(s, F) BY DEF Feeds
<1>2. Feeds(s, maybeCommit(s), F) BY <1>1, CommitFeeds
<1>3. Feeds(s, sendAppend(s), F) BY <1>1, MaybeSendFeeds DEF sendAppend
<1>4. Feeds(s, sendRemaining(s), F) BY <1>1, SendRemainingFeeds
<1> QED BY <1>2, <1>3, <1>4, FeedsTrans

LEMMA MaxIsNat ==
    ASSUME NEW S \in SUBSET Nat
    PROVE  MaxOr0(S) \in Nat
<1>1. CASE \E x \in S : \A y \in S : y <= x
  <2>1. (CHOOSE x \in S : \A y \in S : y <= x) \in S BY <1>1
  <2> QED BY <1>1, <2>1 DEF MaxOr0
<1>2. CASE ~\E x \in S : \A y \in S : y <= x BY <1>2 DEF MaxOr0
<1> QED BY <1>1, <1>2

LEMMA HintIsNat ==
    ASSUME NEW s, NEW m \in Message
    PROVE  rejectionHint(s, m) \in Nat
<1>1. m.hint \in Nat BY DEF Message
<1>2. conflictByTerm(s, m.hint, m.logTerm) \in Nat
  <2> DEFINE S == {k \in 1..m.hint : k < s.first - 1 \/ TermAt(s.log, k) <= m.logTerm}
  <2>1. S \in SUBSET Nat OBVIOUS
  <2> HIDE DEF S
  <2>2. MaxOr0(S) \in Nat BY <2>1, MaxIsNat
  <2> QED BY <1>1, <2>2 DEF conflictByTerm, S
<1> QED BY <1>1, <1>2 DEF rejectionHint

LEMMA RejectFeeds ==
    ASSUME NEW s, NEW F, Sound(s, F), NEW m \in Message
    PROVE  Feeds(s, handleAppReject(s, m), F)
<1>1. CASE ~DecrToApplies(s.pr, m.index) BY <1>1, FeedsRefl DEF handleAppReject
<1>2. CASE DecrToApplies(s.pr, m.index)
  <2> DEFINE q == backOff(s.pr, m, rejectionHint(s, m))
  <2>1. m.index \in Nat BY DEF Message
  <2>2. Accounts(s.pr, Len(s.log)) /\ Len(s.log) \in Nat BY SoundIs
  <2>3. Moved(s.pr, q, Len(s.log)) BY <1>2, <2>1, <2>2, HintIsNat, BackOffMoves
  <2>4. handleAppReject(s, m) = sendAppend([s EXCEPT !.pr = q]) BY <1>2 DEF handleAppReject
  <2> HIDE DEF q
  <2>5. Feeds(s, [s EXCEPT !.pr = q], F) BY <2>3, MovedFeeds
  <2>6. Feeds(s, sendAppend([s EXCEPT !.pr = q]), F) BY <2>5, ThenFeeds
  <2> QED BY <2>4, <2>6
<1> QED BY <1>1, <1>2

LEMMA AcceptFeeds ==
    ASSUME NEW s, NEW F, Sound(s, F), NEW m \in Message, Agree(F, s.log, m.index)
    PROVE  Feeds(s, handleAppAccept(s, m), F)
<1>1. /\ m.index \in Nat /\ s.pr.Match \in Nat /\ Accounts(s.pr, Len(s.log))
      /\ Len(s.log) \in Nat /\ m.index <= Len(s.log)
  BY SoundIs DEF Message, Agree
<1>2. CASE s.pr.Match >= m.index
  <2> DEFINE q == MaybeUpdate(s.pr, m.index)
  <2>1. Moved(s.pr, q, Len(s.log)) BY <1>1, <1>2, KnownMoves
  <2>2. handleAppAccept(s, m) = [s EXCEPT !.pr = q] BY <1>2 DEF handleAppAccept
  <2> HIDE DEF q
  <2> QED BY <2>1, <2>2, MovedFeeds
<1>3. CASE ~(s.pr.Match >= m.index)
  <2> DEFINE q == acknowledged(s.pr, m.index)
             t == [s EXCEPT !.pr = q]
             acked == maybeCommit(t)
             announced == IF acked.committed > s.committed \/ IsPaused(s.pr)
                          THEN sendAppend(acked) ELSE acked
  <2>1. m.index > s.pr.Match BY <1>1, <1>3
  <2>2. /\ Accounts(q, Len(s.log)) /\ q.Match = m.index /\ Slid(s.pr.Inflights, q.Inflights)
    BY <1>1, <2>1, AcknowledgedMoves
  <2>3. handleAppAccept(s, m) = sendRemaining(announced) BY <1>3 DEF handleAppAccept
  <2> HIDE DEF q
  <2>4. Agree(F, s.log, q.Match) BY <2>2
  <2>5. Feeds(s, t, F) BY <2>2, <2>4, AccountFeeds
  <2> HIDE DEF t
  <2>6. Feeds(s, acked, F) BY <2>5, ThenFeeds
  <2> HIDE DEF acked
  <2>7. Feeds(s, sendAppend(acked), F) BY <2>6, ThenFeeds
  <2>8. Feeds(s, announced, F) BY <2>6, <2>7
  <2> HIDE DEF announced
  <2>9. Feeds(s, sendRemaining(announced), F) BY <2>8, ThenFeeds
  <2> QED BY <2>3, <2>9
<1> QED BY <1>2, <1>3

\* One of the two flags of the account changes.
LEMMA FlagFeeds ==
    ASSUME NEW s, NEW F, Sound(s, F), NEW b \in BOOLEAN
    PROVE  /\ Feeds(s, [s EXCEPT !.pr.RecentActive = b], F)
           /\ Feeds(s, [s EXCEPT !.pr.MsgAppFlowPaused = b], F)
<1> DEFINE pr == s.pr
           q == [pr EXCEPT !.RecentActive = b]
           u == [pr EXCEPT !.MsgAppFlowPaused = b]
<1>1. /\ s \in Leader /\ pr \in Progress /\ Accounts(pr, Len(s.log)) /\ Len(s.log) \in Nat
      /\ pr.Next <= Len(s.log) + 1
  BY SoundIs
<1>2. /\ [s EXCEPT !.pr.RecentActive = b] = [s EXCEPT !.pr = q]
      /\ [s EXCEPT !.pr.MsgAppFlowPaused = b] = [s EXCEPT !.pr = u]
  BY <1>1 DEF Leader
<1>3. pr = s.pr OBVIOUS
<1> HIDE DEF pr
<1>4. /\ q \in Progress /\ q.Inflights = pr.Inflights /\ q.Match = pr.Match
      /\ q.State = pr.State /\ q.Next = pr.Next /\ q.PendingSnapshot = pr.PendingSnapshot
  BY <1>1 DEF Progress
<1>5. /\ u \in Progress /\ u.Inflights = pr.Inflights /\ u.Match = pr.Match
      /\ u.State = pr.State /\ u.Next = pr.Next /\ u.PendingSnapshot = pr.PendingSnapshot
  BY <1>1 DEF Progress
<1> HIDE DEF q, u
<1>6. Moved(pr, q, Len(s.log)) BY <1>1, <1>4, SameWindowMoves
<1>7. Moved(pr, u, Len(s.log)) BY <1>1, <1>5, SameWindowMoves
<1>8. Feeds(s, [s EXCEPT !.pr = q], F) /\ Feeds(s, [s EXCEPT !.pr = u], F)
  BY <1>3, <1>6, <1>7, MovedFeeds
<1> QED BY <1>2, <1>8

LEMMA StepLeaderFeeds ==
    ASSUME NEW s, NEW F, Sound(s, F), NEW m \in Message, ForLeader(m, F, s.log)
    PROVE  Feeds(s, stepLeader(s, m), F)
<1> DEFINE heard == [s EXCEPT !.pr.RecentActive = TRUE]
           resumed == [heard EXCEPT !.pr.MsgAppFlowPaused = FALSE]
<1>1. Feeds(s, heard, F) BY FlagFeeds
<1>2. stepLeader(s, m) = IF m.type = "MsgHeartbeatResp" THEN handleHeartbeatResp(heard)
                         ELSE handleAppResp(heard, m)
  BY DEF stepLeader
<1> HIDE DEF heard
<1>3. Sound(heard, F) /\ heard.log = s.log BY <1>1 DEF Feeds
<1>4. CASE m.type = "MsgHeartbeatResp"
  <2>1. Feeds(heard, resumed, F) BY <1>3, FlagFeeds
  <2>2. handleHeartbeatResp(heard) = IF resumed.pr.Match < Len(resumed.log)
                                     THEN sendAppend(resumed) ELSE resumed
    BY DEF handleHeartbeatResp
  <2> HIDE DEF resumed
  <2>3. Feeds(heard, sendAppend(resumed), F) BY <1>3, <2>1, ThenFeeds
  <2>4. Feeds(heard, handleHeartbeatResp(heard), F) BY <2>1, <2>2, <2>3
  <2>5. Feeds(s, handleHeartbeatResp(heard), F) BY <1>1, <2>4, FeedsTrans
  <2> QED BY <1>2, <1>4, <2>5
<1>5. CASE m.type # "MsgHeartbeatResp"
  <2>1. m.reject \/ Agree(F, heard.log, m.index) BY <1>3, <1>5 DEF ForLeader
  <2>2. Feeds(heard, handleAppReject(heard, m), F) BY <1>3, RejectFeeds
  <2>3. ~m.reject => Feeds(heard, handleAppAccept(heard, m), F) BY <1>3, <2>1, AcceptFeeds
  <2>4. Feeds(heard, handleAppResp(heard, m), F) BY <2>2, <2>3 DEF handleAppResp
  <2>5. Feeds(s, handleAppResp(heard, m), F) BY <1>1, <2>4, FeedsTrans
  <2> QED BY <1>2, <1>5, <2>5
<1> QED BY <1>4, <1>5

LEMMA AnnounceFeeds ==
    ASSUME NEW r, NEW s, NEW F, Sound(r, F), Feeds(r, s, F), NEW before
    PROVE  Feeds(r, announce(s, before), F)
<1>1. Feeds(r, sendAppend(s), F) BY ThenFeeds
<1> QED BY <1>1 DEF announce

LEMMA UnreachableFeeds ==
    ASSUME NEW s, NEW F, Sound(s, F)
    PROVE  Feeds(s, handleUnreachable(s), F)
<1> DEFINE q == BecomeProbe(s.pr)
<1>1. Moved(s.pr, q, Len(s.log)) BY SoundIs, BecomeProbeMoves
<1> HIDE DEF q
<1>2. Feeds(s, [s EXCEPT !.pr = q], F) BY <1>1, MovedFeeds
<1> QED BY <1>2, FeedsRefl DEF handleUnreachable, q

LEMMA SnapStatusFeeds ==
    ASSUME NEW s, NEW F, Sound(s, F), NEW reject \in BOOLEAN
    PROVE  Feeds(s, handleSnapStatus(s, reject), F)
<1>1. CASE s.pr.State # "StateSnapshot" BY <1>1, FeedsRefl DEF handleSnapStatus
<1>2. CASE s.pr.State = "StateSnapshot"
  <2> DEFINE pr == s.pr
             n == Len(s.log)
             zero == [pr EXCEPT !.PendingSnapshot = 0]
             told == IF reject THEN zero ELSE pr
             p == BecomeProbe(told)
             q == [p EXCEPT !.MsgAppFlowPaused = TRUE]
  <2>1. handleSnapStatus(s, reject) = [s EXCEPT !.pr = q] BY <1>2 DEF handleSnapStatus
  <2>2. /\ pr \in Progress /\ Accounts(pr, n) /\ n \in Nat /\ pr.State = "StateSnapshot"
        /\ pr.Inflights.count \in Nat /\ pr = s.pr
    BY <1>2, SoundIs
  <2> HIDE DEF pr, n
  <2>3. /\ zero \in Progress /\ zero.Inflights = pr.Inflights /\ zero.Match = pr.Match
        /\ zero.Next = pr.Next /\ zero.State = pr.State /\ zero.PendingSnapshot = 0
    BY <2>2 DEF Progress
  <2> HIDE DEF zero
  <2>4. Moved(pr, zero, n)
    <3>1. Slid(pr.Inflights, zero.Inflights) BY <2>2, <2>3, SlidSame
    <3>2. Accounts(zero, n) BY <2>2, <2>3, EmptyAccount DEF Accounts
    <3> QED BY <2>3, <3>1, <3>2 DEF Moved
  <2>5. Moved(pr, told, n) BY <2>2, <2>4, MovedRefl
  <2> HIDE DEF told
  <2>6. Moved(told, p, n) BY <2>2, <2>5, BecomeProbeMoves DEF Moved
  <2> HIDE DEF p
  <2>7. p \in Progress /\ Accounts(p, n) BY <2>6 DEF Moved, Accounts
  <2>8. /\ q \in Progress /\ q.Inflights = p.Inflights /\ q.Match = p.Match
        /\ q.State = p.State /\ q.Next = p.Next /\ q.PendingSnapshot = p.PendingSnapshot
    BY <2>7 DEF Progress
  <2>9. q.Next <= n + 1 BY <2>7, <2>8 DEF Accounts
  <2> HIDE DEF q
  <2>10. Moved(p, q, n) BY <2>2, <2>7, <2>8, <2>9, SameWindowMoves
  <2>11. Moved(pr, p, n) BY <2>2, <2>5, <2>6, MovedTrans
  <2>12. Moved(pr, q, n) BY <2>2, <2>10, <2>11, MovedTrans
  <2> QED BY <2>1, <2>2, <2>12, MovedFeeds DEF n
<1> QED BY <1>1, <1>2

----------------------------------------------------------------------------
(* Logs that agree *)

LEMMA AgreeLess ==
    ASSUME NEW a, NEW b, Len(a) \in Nat, Len(b) \in Nat, NEW n \in Nat, Agree(a, b, n),
           NEW k \in Nat, k <= n
    PROVE  Agree(a, b, k)
<1>1. \A i \in 1..k : i \in 1..n OBVIOUS
<1> QED BY <1>1 DEF Agree

\* Logs that fit agree up to every index at which their terms agree.
LEMMA MatchAgrees ==
    ASSUME NEW F \in Seq(Entry), NEW L \in Seq(Entry), Fits(F, L), NEW i \in Nat, i <= Len(L),
           matchTerm(F, i, TermAt(L, i))
    PROVE  Agree(F, L, i)
<1>1. Len(F) \in Nat /\ Len(L) \in Nat /\ i <= Len(F) BY LenProperties DEF matchTerm
<1>2. CASE i = 0 BY <1>1, <1>2 DEF Agree
<1>3. CASE i # 0
  <2>1. i \in 1..Len(F) /\ i \in 1..Len(L) BY <1>1, <1>3
  <2>2. F[i].term = L[i].term BY <2>1 DEF matchTerm, TermAt
  <2> QED BY <2>1, <2>2 DEF Fits
<1> QED BY <1>2, <1>3

\* A log of which all agrees.
LEMMA AllFits ==
    ASSUME NEW F \in Seq(Entry), NEW L \in Seq(Entry), Agree(F, L, Len(F))
    PROVE  Fits(F, L)
<1>1. Len(F) \in Nat /\ Len(L) \in Nat /\ Len(F) <= Len(L) BY LenProperties DEF Agree
<1>2. ASSUME NEW i \in 1..Len(F) PROVE i <= Len(L) /\ Agree(F, L, i)
  <2>1. i \in Nat /\ i <= Len(F) BY <1>1
  <2>2. Agree(F, L, i) BY <1>1, <2>1, AgreeLess
  <2> QED BY <1>1, <2>1, <2>2
<1> QED BY <1>2 DEF Fits

\* findConflict: 0 when there is none, the first otherwise.
LEMMA ConflictIs ==
    ASSUME NEW log, NEW index \in Nat, NEW ents \in Seq(Entry)
    PROVE  \/ /\ findConflict(log, index, ents) = 0
              /\ \A i \in (index + 1)..(index + Len(ents)) : matchTerm(log, i, ents[i - index].term)
           \/ /\ findConflict(log, index, ents) \in (index + 1)..(index + Len(ents))
              /\ ~matchTerm(log, findConflict(log, index, ents),
                            ents[findConflict(log, index, ents) - index].term)
              /\ \A i \in (index + 1)..(findConflict(log, index, ents) - 1) :
                   matchTerm(log, i, ents[i - index].term)
<1> DEFINE all == (index + 1)..(index + Len(ents))
           S == {i \in all : ~matchTerm(log, i, ents[i - index].term)}
           ci == findConflict(log, index, ents)
<1>1. ci = MinOr0(S) BY DEF findConflict
<1>2. Len(ents) \in Nat BY LenProperties
<1>3. \A i \in all : i \in Nat \ {0} BY <1>2
<1>4. CASE S = {}
  <2>1. MinOr0(S) = 0
    <3> HIDE DEF S
    <3> QED BY <1>4 DEF MinOr0
  <2> QED BY <1>1, <1>4, <2>1
<1>5. CASE S # {}
  <2>1. S \in SUBSET Nat BY <1>3
  <2>2. PICK x \in S : \A y \in S : ~(y < x)
    <3> HIDE DEF S
    <3> QED BY <1>5, <2>1, LeastMember
  <2> DEFINE P(z) == \A y \in S : z <= y
  <2>3. P(x)
    <3> HIDE DEF S
    <3> QED BY <2>1, <2>2
  <2>4. MinOr0(S) = CHOOSE z \in S : P(z)
    <3> HIDE DEF S
    <3> QED BY <2>3 DEF MinOr0
  <2>5. ci \in S /\ P(ci)
    <3> HIDE DEF S, P
    <3> QED BY <1>1, <2>3, <2>4
  <2>6. ASSUME NEW i \in (index + 1)..(ci - 1) PROVE matchTerm(log, i, ents[i - index].term)
    <3>1. ci \in Nat /\ ci \in all /\ i \in all /\ ~(ci <= i) BY <1>2, <1>3, <2>5
    <3> QED BY <2>5, <3>1
  <2> HIDE DEF ci
  <2> QED BY <2>5, <2>6 DEF ci
<1> QED BY <1>4, <1>5

----------------------------------------------------------------------------
(* The follower *)

\* From r to x the follower keeps all that agrees with the leader's log L.
Keeps(r, x, L) ==
    /\ Follows(x, L) /\ x.committed >= r.committed
    /\ \A n \in Nat : Agree(r.log, L, n) => Agree(x.log, L, n)

\* It answers for nothing more than it has.
Answers(r, step, L) ==
    /\ Keeps(r, step[1], L) /\ step[2] \in Message /\ ForLeader(step[2], step[1].log, L)

LEMMA FollowsIs ==
    ASSUME NEW r, NEW L, Follows(r, L)
    PROVE  /\ r \in Follower /\ r.log \in Seq(Entry) /\ Len(r.log) \in Nat /\ r.committed \in Nat
           /\ ~r.panic /\ r.committed <= Len(r.log)
BY LenProperties DEF Follows, Follower, Agree

LEMMA KeepsRefl ==
    ASSUME NEW r, NEW L, Follows(r, L)
    PROVE  Keeps(r, r, L)
BY FollowsIs DEF Keeps

\* An acknowledgement of what agrees.
LEMMA RespAnswers ==
    ASSUME NEW r, NEW x, NEW L, Keeps(r, x, L), NEW i \in Nat, Agree(x.log, L, i)
    PROVE  Answers(r, resp(x, i), L)
<1> DEFINE msg == Msg("MsgAppResp")
           m == [msg EXCEPT !.index = i]
<1>1. msg \in Message /\ msg.type = "MsgAppResp" BY MsgIs
<1>2. resp(x, i) = <<x, m>> BY DEF resp
<1> HIDE DEF msg
<1>3. m \in Message /\ m.type = "MsgAppResp" /\ m.index = i BY <1>1 DEF Message
<1> HIDE DEF m
<1>4. ForLeader(m, x.log, L) BY <1>3 DEF ForLeader
<1>5. resp(x, i)[1] = x /\ resp(x, i)[2] = m BY <1>2
<1> HIDE DEF resp
<1> QED BY <1>3, <1>4, <1>5 DEF Answers

\* The commit index moves to what agrees.
LEMMA CommitToKeeps ==
    ASSUME NEW r, NEW L, Follows(r, L), NEW i \in Nat, Agree(r.log, L, i)
    PROVE  Keeps(r, commitTo(r, i), L) /\ commitTo(r, i).log = r.log
<1> DEFINE x == [r EXCEPT !.committed = i]
<1>1. /\ r \in Follower /\ r.log \in Seq(Entry) /\ Len(r.log) \in Nat /\ r.committed \in Nat
  BY FollowsIs
<1>2. i <= Len(r.log) BY DEF Agree
<1>3. commitTo(r, i) = IF r.committed >= i THEN r ELSE x BY <1>1, <1>2 DEF commitTo
<1>4. x \in Follower /\ x.log = r.log /\ x.committed = i /\ x.panic = r.panic
  BY <1>1 DEF Follower
<1> HIDE DEF x
<1>5. Follows(x, L) BY <1>4 DEF Follows
<1>6. ~(r.committed >= i) => Keeps(r, x, L) BY <1>1, <1>4, <1>5 DEF Keeps
<1> QED BY <1>3, <1>4, <1>6, KeepsRefl

LEMMA KeepsTrans ==
    ASSUME NEW r, NEW x, NEW y, NEW L, Follows(r, L), Keeps(r, x, L), Keeps(x, y, L)
    PROVE  Keeps(r, y, L)
<1>1. r.committed \in Nat /\ x.committed \in Nat /\ y.committed \in Nat BY FollowsIs DEF Keeps
<1> QED BY <1>1 DEF Keeps

\* A log that is replaced by one that agrees with all of the leader's that the
\* old one agreed with.
LEMMA ReplaceKeeps ==
    ASSUME NEW r, NEW L \in Seq(Entry), Follows(r, L), NEW log \in Seq(Entry),
           Agree(log, L, Len(log)), \A n \in Nat : Agree(r.log, L, n) => n <= Len(log)
    PROVE  Keeps(r, [r EXCEPT !.log = log], L)
<1> DEFINE x == [r EXCEPT !.log = log]
<1>1. r \in Follower /\ r.committed \in Nat /\ Len(log) \in Nat /\ Len(L) \in Nat
  BY FollowsIs, LenProperties
<1>2. x \in Follower /\ x.log = log /\ x.committed = r.committed /\ x.panic = r.panic
  BY <1>1 DEF Follower
<1> HIDE DEF x
<1>3. \A n \in Nat : Agree(r.log, L, n) => Agree(x.log, L, n) BY <1>1, <1>2, AgreeLess
<1>4. Fits(x.log, L) BY <1>2, AllFits
<1>5. Agree(x.log, L, x.committed) BY <1>1, <1>2, <1>3 DEF Follows
<1>6. Follows(x, L) BY <1>2, <1>4, <1>5 DEF Follows
<1>7. Keeps(r, x, L) BY <1>1, <1>2, <1>3, <1>6 DEF Keeps
<1> QED BY <1>7 DEF x

\* maybeAppend, for entries of the leader's log that follow what agrees.
LEMMA MaybeAppendKeeps ==
    ASSUME NEW r, NEW L \in Seq(Entry), Follows(r, L),
           NEW index \in Nat, NEW commit \in Nat, NEW ents \in Seq(Entry),
           r.committed <= index, Agree(r.log, L, index), index + Len(ents) <= Len(L),
           \A k \in 1..Len(ents) : ents[k] = L[index + k]
    PROVE  /\ Keeps(r, maybeAppend(r, index, commit, ents), L)
           /\ Agree(maybeAppend(r, index, commit, ents).log, L, index + Len(ents))
<1> DEFINE ci == findConflict(r.log, index, ents)
           last == index + Len(ents)
           from == SubSeq(ents, ci - index, Len(ents))
           log == SubSeq(r.log, 1, ci - 1) \o from
           x == [r EXCEPT !.log = log]
           appended == IF ci = 0 THEN r
                       ELSE IF ci <= r.committed THEN Panic(r)
                       ELSE x
           to == Least(commit, last)
<1>1. /\ r \in Follower /\ r.log \in Seq(Entry) /\ Len(r.log) \in Nat /\ r.committed \in Nat
      /\ Len(ents) \in Nat /\ Len(L) \in Nat /\ index <= Len(r.log)
  BY FollowsIs, LenProperties DEF Agree
<1>2. maybeAppend(r, index, commit, ents) = commitTo(appended, to) BY <1>1 DEF maybeAppend
<1>3. last \in Nat /\ to \in Nat /\ to <= last /\ last >= index /\ last <= Len(L)
  BY <1>1 DEF Least
<1>4. \A i \in (index + 1)..last :
        /\ i \in 1..Len(L) /\ TermAt(L, i) = L[i].term
        /\ i - index \in 1..Len(ents) /\ ents[i - index] = L[i]
  <2> SUFFICES ASSUME NEW i \in (index + 1)..last
               PROVE  /\ i \in 1..Len(L) /\ TermAt(L, i) = L[i].term
                      /\ i - index \in 1..Len(ents) /\ ents[i - index] = L[i]
    OBVIOUS
  <2>1. i \in 1..Len(L) /\ i - index \in 1..Len(ents) /\ index + (i - index) = i BY <1>1, <1>3
  <2>2. ents[i - index] = L[index + (i - index)] BY <2>1
  <2> QED BY <2>1, <2>2 DEF TermAt
<1>5. ASSUME NEW i \in (index + 1)..last, matchTerm(r.log, i, ents[i - index].term)
      PROVE  Agree(r.log, L, i)
  <2>1. matchTerm(r.log, i, TermAt(L, i)) BY <1>4, <1>5
  <2>2. i \in Nat /\ i <= Len(L) BY <1>1, <1>4
  <2>3. Fits(r.log, L) BY DEF Follows
  <2> QED BY <1>1, <2>1, <2>2, <2>3, MatchAgrees
<1>6. CASE ci = 0 /\ \A i \in (index + 1)..last : matchTerm(r.log, i, ents[i - index].term)
  <2>1. appended = r BY <1>6
  <2>2. Agree(r.log, L, last)
    <3>1. CASE last = index BY <3>1
    <3>2. CASE last # index
      <4>1. last \in (index + 1)..last BY <1>1, <1>3, <3>2
      <4> QED BY <1>5, <1>6, <4>1
    <3> QED BY <3>1, <3>2
  <2> HIDE DEF appended, last, to, ci
  <2>3. Agree(r.log, L, to) BY <1>1, <1>3, <2>2, AgreeLess
  <2>4. Keeps(r, commitTo(r, to), L) /\ commitTo(r, to).log = r.log BY <1>3, <2>3, CommitToKeeps
  <2> QED BY <1>2, <2>1, <2>2, <2>4 DEF last
<1>7. CASE /\ ci \in (index + 1)..last /\ ~matchTerm(r.log, ci, ents[ci - index].term)
           /\ \A i \in (index + 1)..(ci - 1) : matchTerm(r.log, i, ents[i - index].term)
  <2>1. ci \in Nat /\ ci > index /\ ci <= last /\ ci > r.committed /\ ci # 0 BY <1>1, <1>3, <1>7
  <2>2. appended = x BY <1>1, <2>1
  <2>3. Agree(r.log, L, ci - 1)
    <3>1. CASE ci - 1 = index BY <3>1
    <3>2. CASE ci - 1 # index
      <4>1. ci - 1 \in (index + 1)..(ci - 1) /\ ci - 1 \in (index + 1)..last BY <1>1, <1>3, <2>1, <3>2
      <4>2. matchTerm(r.log, ci - 1, ents[(ci - 1) - index].term) BY <1>7, <4>1
      <4> QED BY <1>5, <4>1, <4>2
    <3> QED BY <3>1, <3>2
  <2>4. ~Agree(r.log, L, ci)
    <3>1. ci \in 1..ci /\ ci \in (index + 1)..last BY <1>7, <2>1
    <3>2. ents[ci - index] = L[ci] BY <1>4, <3>1
    <3> SUFFICES ASSUME Agree(r.log, L, ci) PROVE FALSE OBVIOUS
    <3>3. ci <= Len(r.log) /\ r.log[ci] = L[ci] BY <3>1 DEF Agree
    <3>4. ci \in 1..Len(r.log) BY <1>1, <2>1, <3>3
    <3>5. matchTerm(r.log, ci, ents[ci - index].term) BY <3>2, <3>3, <3>4 DEF matchTerm, TermAt
    <3> QED BY <1>7, <3>5
  <2> HIDE DEF ci, appended, to
  <2> DEFINE pre == SubSeq(r.log, 1, ci - 1)
             c == ci - index
  <2>5. ci - 1 \in 0..Len(r.log) BY <1>1, <2>1, <2>3 DEF Agree
  <2>6. /\ pre \in Seq(Entry) /\ Len(pre) = ci - 1
        /\ \A k \in 1..(ci - 1) : pre[k] = r.log[k]
    BY <1>1, <2>5, PrefixOf
  <2>7. c \in Nat \ {0} /\ c <= Len(ents) + 1 /\ Len(ents) \in 0..Len(ents)
    BY <1>1, <2>1
  <2> HIDE DEF pre
  <2>8. /\ from \in Seq(Entry) /\ Len(from) = Len(ents) - c + 1
        /\ \A k \in 1..(Len(ents) - c + 1) : from[k] = ents[c - 1 + k]
    <3> HIDE DEF c
    <3>1. from = SubSeq(ents, c, Len(ents)) BY DEF c
    <3> HIDE DEF from
    <3> QED BY <2>7, <3>1, PartOf
  <2>9. log = pre \o from BY DEF pre
  <2> HIDE DEF from, log
  <2>10. /\ log \in Seq(Entry) /\ Len(log) = Len(pre) + Len(from)
         /\ \A i \in 1..(Len(pre) + Len(from)) :
              log[i] = IF i <= Len(pre) THEN pre[i] ELSE from[i - Len(pre)]
    BY ZenonT(60), <2>6, <2>8, <2>9, ConcatProperties
  <2>11. Len(log) = last BY <1>1, <2>1, <2>6, <2>8, <2>10
  <2>12. ASSUME NEW i \in 1..last PROVE log[i] = L[i]
    <3>1. i \in Nat /\ i \in 1..(Len(pre) + Len(from)) BY <1>3, <2>10, <2>11
    <3>2. CASE i <= ci - 1
      <4>1. i \in 1..(ci - 1) BY <2>1, <3>1, <3>2
      <4>2. log[i] = pre[i] BY <2>6, <2>10, <3>1, <3>2
      <4>3. pre[i] = r.log[i] BY <2>6, <4>1
      <4>4. r.log[i] = L[i] BY <2>3, <4>1 DEF Agree
      <4> QED BY <4>2, <4>3, <4>4
    <3>3. CASE ~(i <= ci - 1)
      <4> DEFINE k == i - (ci - 1)
      <4>1. k \in 1..(Len(ents) - c + 1) /\ c - 1 + k = i - index
        BY <1>1, <1>3, <2>1, <3>1, <3>3
      <4>2. log[i] = from[k] BY <2>6, <2>10, <3>1, <3>3
      <4>3. from[k] = ents[c - 1 + k] BY <2>8, <4>1
      <4>4. i \in (index + 1)..last BY <1>1, <1>3, <2>1, <3>1, <3>3
      <4>5. ents[i - index] = L[i] BY <1>4, <4>4
      <4> HIDE DEF k
      <4> QED BY <4>1, <4>2, <4>3, <4>5
    <3> QED BY <3>2, <3>3
  <2>13. Agree(log, L, last) BY <1>3, <2>11, <2>12 DEF Agree
  <2>14. \A n \in Nat : Agree(r.log, L, n) => n <= Len(log)
    <3> SUFFICES ASSUME NEW n \in Nat, Agree(r.log, L, n), ~(n <= Len(log)) PROVE FALSE OBVIOUS
    <3>1. ci <= n BY <1>3, <2>1, <2>11
    <3>2. Agree(r.log, L, ci) BY <1>1, <2>1, <3>1, AgreeLess
    <3> QED BY <2>4, <3>2
  <2>15. Keeps(r, x, L) BY <2>10, <2>11, <2>13, <2>14, ReplaceKeeps
  <2>16. x.log = log BY <1>1 DEF Follower
  <2> HIDE DEF x, last
  <2>17. Follows(x, L) BY <2>15 DEF Keeps
  <2>18. Len(x.log) \in Nat BY <2>17, FollowsIs
  <2>19. Agree(x.log, L, to) BY <1>1, <1>3, <2>13, <2>16, <2>18, AgreeLess
  <2>20. Keeps(x, commitTo(x, to), L) /\ commitTo(x, to).log = x.log
    BY <1>3, <2>17, <2>19, CommitToKeeps
  <2>21. Keeps(r, commitTo(x, to), L) BY <2>15, <2>20, KeepsTrans
  <2> QED BY <1>2, <2>2, <2>13, <2>16, <2>20, <2>21 DEF last
<1> QED BY <1>6, <1>7, ConflictIs

LEMMA ConflictByTermIsNat ==
    ASSUME NEW log, NEW i \in Nat, NEW t
    PROVE  findConflictByTerm(log, i, t) \in Nat
<1> DEFINE S == {k \in 1..i : TermAt(log, k) <= t}
<1>1. S \in SUBSET Nat OBVIOUS
<1>2. findConflictByTerm(log, i, t) = IF i > Len(log) THEN i ELSE MaxOr0(S)
  BY DEF findConflictByTerm
<1> HIDE DEF S
<1>3. MaxOr0(S) \in Nat BY <1>1, MaxIsNat
<1> QED BY <1>2, <1>3

LEMMA AppendAnswers ==
    ASSUME NEW r, NEW L \in Seq(Entry), Follows(r, L), NEW m \in Message,
           m.type = "MsgApp", Carries(m, L)
    PROVE  Answers(r, handleAppendEntries(r, m), L)
<1>1. /\ r.log \in Seq(Entry) /\ Len(r.log) \in Nat /\ r.committed \in Nat /\ Keeps(r, r, L)
  BY FollowsIs, KeepsRefl
<1>2. /\ m.index \in Nat /\ m.commit \in Nat /\ m.entries \in Seq(Entry) /\ m.logTerm \in Nat
  BY DEF Message
<1>3. /\ m.index + Len(m.entries) <= Len(L) /\ m.logTerm = TermAt(L, m.index)
      /\ \A k \in 1..Len(m.entries) : m.entries[k] = L[m.index + k]
  BY DEF Carries
<1>4. Len(m.entries) \in Nat /\ Len(L) \in Nat BY <1>2, LenProperties
<1> DEFINE hint == findConflictByTerm(r.log, Least(m.index, Len(r.log)), m.logTerm)
           term == TermAt(r.log, hint)
           i == m.index
           msg == Msg("MsgAppResp")
           no == [msg EXCEPT !.index = i, !.reject = TRUE, !.hint = hint, !.logTerm = term]
           n == m.index + Len(m.entries)
           x == maybeAppend(r, m.index, m.commit, m.entries)
<1>5. handleAppendEntries(r, m) =
        IF m.index < r.committed THEN resp(r, r.committed)
        ELSE IF matchTerm(r.log, m.index, m.logTerm) THEN resp(x, n)
        ELSE <<r, no>>
  BY DEF handleAppendEntries
<1>6. CASE m.index < r.committed
  <2>1. Agree(r.log, L, r.committed) BY DEF Follows
  <2> HIDE DEF no, x, n
  <2>2. handleAppendEntries(r, m) = resp(r, r.committed) BY <1>5, <1>6
  <2> QED BY <1>1, <2>1, <2>2, RespAnswers
<1>7. CASE ~(m.index < r.committed) /\ matchTerm(r.log, m.index, m.logTerm)
  <2>1. m.index <= Len(L) /\ r.committed <= m.index /\ n \in Nat BY <1>1, <1>2, <1>3, <1>4, <1>7
  <2>2. Fits(r.log, L) BY DEF Follows
  <2>3. Agree(r.log, L, m.index) BY <1>1, <1>2, <1>3, <1>7, <2>1, <2>2, MatchAgrees
  <2>4. Keeps(r, x, L) /\ Agree(x.log, L, n) BY <1>2, <1>3, <2>1, <2>3, MaybeAppendKeeps
  <2> HIDE DEF no, x, n
  <2>5. handleAppendEntries(r, m) = resp(x, n) BY <1>5, <1>7
  <2> QED BY <2>1, <2>4, <2>5, RespAnswers
<1>8. CASE ~(m.index < r.committed) /\ ~matchTerm(r.log, m.index, m.logTerm)
  <2>1. Least(m.index, Len(r.log)) \in Nat BY <1>1, <1>2 DEF Least
  <2>2. hint \in Nat BY <2>1, ConflictByTermIsNat
  <2>3. term \in Nat BY <1>1, TermIsNat
  <2>4. msg \in Message /\ msg.type = "MsgAppResp" BY MsgIs
  <2>5. i \in Nat BY <1>2
  <2> HIDE DEF hint, term, msg, i, x, n
  <2>6. no \in Message /\ no.type = "MsgAppResp" /\ no.reject BY <2>2, <2>3, <2>4, <2>5 DEF Message
  <2> HIDE DEF no
  <2>7. ForLeader(no, r.log, L) BY <2>6 DEF ForLeader
  <2> DEFINE step == <<r, no>>
  <2>8. handleAppendEntries(r, m) = step BY <1>5, <1>8
  <2>9. step[1] = r /\ step[2] = no OBVIOUS
  <2> HIDE DEF step
  <2> QED BY <1>1, <2>6, <2>7, <2>8, <2>9 DEF Answers
<1> QED BY <1>6, <1>7, <1>8

LEMMA HeartbeatAnswers ==
    ASSUME NEW r, NEW L \in Seq(Entry), Follows(r, L), NEW m \in Message,
           Agree(r.log, L, m.commit)
    PROVE  Answers(r, handleHeartbeat(r, m), L)
<1> DEFINE x == commitTo(r, m.commit)
           msg == Msg("MsgHeartbeatResp")
           step == <<x, msg>>
<1>1. m.commit \in Nat BY DEF Message
<1>2. Keeps(r, x, L) BY <1>1, CommitToKeeps
<1>3. msg \in Message /\ msg.type = "MsgHeartbeatResp" BY MsgIs
<1>4. handleHeartbeat(r, m) = step BY DEF handleHeartbeat
<1> HIDE DEF x, msg
<1>5. step[1] = x /\ step[2] = msg OBVIOUS
<1>6. ForLeader(msg, x.log, L) BY <1>3 DEF ForLeader
<1> HIDE DEF step
<1> QED BY <1>2, <1>3, <1>4, <1>5, <1>6 DEF Answers

LEMMA SnapshotAnswers ==
    ASSUME NEW r, NEW L \in Seq(Entry), Follows(r, L), NEW m \in Message,
           m.type = "MsgSnap", Carries(m, L)
    PROVE  Answers(r, handleSnapshot(r, m), L)
<1> DEFINE i == m.index
           e == m.entries
           x == [r EXCEPT !.log = e]
           y == [r EXCEPT !.log = e, !.committed = i]
<1>1. /\ r \in Follower /\ r.log \in Seq(Entry) /\ Len(r.log) \in Nat /\ r.committed \in Nat
      /\ Keeps(r, r, L)
  BY FollowsIs, KeepsRefl
<1>2. Len(L) \in Nat BY LenProperties
<1>3. /\ i \in 1..Len(L) /\ m.logTerm = L[i].term /\ e = SubSeq(L, 1, i) /\ i \in Nat
  BY <1>2 DEF Carries
<1>4. m.logTerm = TermAt(L, i) BY <1>3 DEF TermAt
<1>5. handleSnapshot(r, m) =
        IF i <= r.committed THEN resp(r, r.committed)
        ELSE IF matchTerm(r.log, i, m.logTerm) THEN resp(commitTo(r, i), i)
        ELSE resp(y, i)
  BY DEF handleSnapshot
<1>6. CASE i <= r.committed
  <2>1. Agree(r.log, L, r.committed) BY DEF Follows
  <2> HIDE DEF y
  <2>2. handleSnapshot(r, m) = resp(r, r.committed) BY <1>5, <1>6
  <2> QED BY <1>1, <2>1, <2>2, RespAnswers
<1>7. CASE ~(i <= r.committed) /\ matchTerm(r.log, i, m.logTerm)
  <2>1. Fits(r.log, L) /\ i <= Len(L) BY <1>2, <1>3 DEF Follows
  <2> HIDE DEF i, y
  <2>2. Agree(r.log, L, i) BY <1>1, <1>3, <1>4, <1>7, <2>1, MatchAgrees
  <2>3. Keeps(r, commitTo(r, i), L) /\ commitTo(r, i).log = r.log BY <1>3, <2>2, CommitToKeeps
  <2>4. handleSnapshot(r, m) = resp(commitTo(r, i), i) BY <1>5, <1>7
  <2> QED BY <1>3, <2>2, <2>3, <2>4, RespAnswers
<1>8. CASE ~(i <= r.committed) /\ ~matchTerm(r.log, i, m.logTerm)
  <2>1. i \in 0..Len(L) BY <1>2, <1>3
  <2> HIDE DEF i, e, y
  <2>2. e \in Seq(Entry) /\ Len(e) = i /\ \A k \in 1..i : e[k] = L[k]
    BY <1>3, <2>1, PrefixOf
  <2>3. Agree(e, L, i) BY <1>2, <1>3, <2>2 DEF Agree
  <2>4. \A n \in Nat : Agree(r.log, L, n) => n <= Len(e)
    <3> SUFFICES ASSUME NEW n \in Nat, Agree(r.log, L, n), ~(n <= Len(e)) PROVE FALSE OBVIOUS
    <3>1. i <= n BY <1>3, <2>2
    <3>2. Agree(r.log, L, i) BY <1>1, <1>2, <1>3, <3>1, AgreeLess
    <3>3. i \in 1..i /\ i <= Len(r.log) /\ i \in 1..Len(r.log) BY <1>1, <1>3, <3>2 DEF Agree
    <3>4. r.log[i] = L[i] BY <3>2, <3>3 DEF Agree
    <3>5. matchTerm(r.log, i, m.logTerm) BY <1>3, <3>3, <3>4 DEF matchTerm, TermAt
    <3> QED BY <1>8, <3>5
  <2>5. Keeps(r, x, L) BY <2>2, <2>3, <2>4, ReplaceKeeps
  <2>6. x \in Follower /\ x.log = e /\ x.committed = r.committed BY <1>1, <2>2 DEF Follower
  <2>7. y = [x EXCEPT !.committed = i] BY DEF x, y
  <2> HIDE DEF x
  <2>8. Follows(x, L) BY <2>5 DEF Keeps
  <2>9. commitTo(x, i) = y BY <1>1, <1>3, <1>8, <2>2, <2>6, <2>7 DEF commitTo
  <2>10. Keeps(x, commitTo(x, i), L) /\ commitTo(x, i).log = x.log
    BY <1>3, <2>3, <2>6, <2>8, CommitToKeeps
  <2>11. Keeps(r, y, L) /\ y.log = e BY <2>5, <2>6, <2>9, <2>10, KeepsTrans
  <2>12. handleSnapshot(r, m) = resp(y, i) BY <1>5, <1>8
  <2> QED BY <1>3, <2>3, <2>11, <2>12, RespAnswers
<1> QED BY <1>6, <1>7, <1>8

LEMMA StepFollowerAnswers ==
    ASSUME NEW r, NEW L \in Seq(Entry), Follows(r, L), NEW m \in Message,
           ForFollower(m, r.log, L)
    PROVE  Answers(r, stepFollower(r, m), L)
<1>1. CASE m.type = "MsgApp" /\ Carries(m, L)
  <2>1. stepFollower(r, m) = handleAppendEntries(r, m) BY <1>1 DEF stepFollower
  <2> QED BY <1>1, <2>1, AppendAnswers
<1>2. CASE m.type = "MsgSnap" /\ Carries(m, L)
  <2>1. stepFollower(r, m) = handleSnapshot(r, m) BY <1>2 DEF stepFollower
  <2> QED BY <1>2, <2>1, SnapshotAnswers
<1>3. CASE m.type = "MsgHeartbeat" /\ Agree(r.log, L, m.commit)
  <2>1. stepFollower(r, m) = handleHeartbeat(r, m) BY <1>3 DEF stepFollower
  <2> QED BY <1>3, <2>1, HeartbeatAnswers
<1> QED BY <1>1, <1>2, <1>3 DEF ForFollower, Carries

----------------------------------------------------------------------------
(* The leader's log grows, and is applied *)

LEMMA GrownLog ==
    ASSUME NEW L \in Seq(Entry), NEW e \in Entry
    PROVE  /\ Append(L, e) \in Seq(Entry) /\ Len(Append(L, e)) = Len(L) + 1
           /\ Append(L, e)[Len(L) + 1] = e
           /\ \A i \in 1..Len(L) : Append(L, e)[i] = L[i]
OBVIOUS

LEMMA GrownAgree ==
    ASSUME NEW L \in Seq(Entry), NEW e \in Entry, NEW F, NEW n \in Nat, Agree(F, L, n)
    PROVE  Agree(F, Append(L, e), n)
<1> DEFINE M == Append(L, e)
<1>1. Len(L) \in Nat /\ n <= Len(L) BY LenProperties DEF Agree
<1>2. Len(M) = Len(L) + 1 /\ \A i \in 1..Len(L) : M[i] = L[i] BY GrownLog
<1> HIDE DEF M
<1>3. \A i \in 1..n : i \in 1..Len(L) BY <1>1
<1>4. Agree(F, M, n) BY <1>1, <1>2, <1>3 DEF Agree
<1> QED BY <1>4 DEF M

LEMMA GrownFits ==
    ASSUME NEW L \in Seq(Entry), NEW e \in Entry, e.term = LeaderTerm, NEW F \in Seq(Entry),
           Fits(F, L)
    PROVE  Fits(F, Append(L, e))
<1> DEFINE M == Append(L, e)
<1>1. Len(L) \in Nat /\ Len(F) \in Nat BY LenProperties
<1>2. /\ Len(M) = Len(L) + 1 /\ M[Len(L) + 1] = e /\ \A i \in 1..Len(L) : M[i] = L[i]
  BY GrownLog
<1>3. \A n \in Nat : Agree(F, L, n) => Agree(F, M, n) BY GrownAgree
<1> HIDE DEF M
<1>4. ASSUME NEW i \in 1..Len(F)
      PROVE  /\ i <= Len(M) /\ F[i].term = M[i].term => Agree(F, M, i)
             /\ F[i].term = LeaderTerm => i <= Len(M)
  <2>1. /\ i <= Len(L) /\ F[i].term = L[i].term => Agree(F, L, i)
        /\ F[i].term = LeaderTerm => i <= Len(L)
    BY DEF Fits
  <2>2. CASE i <= Len(L)
    <3>1. i \in 1..Len(L) /\ i \in Nat /\ i <= Len(M) BY <1>1, <1>2, <2>2
    <3> QED BY <1>2, <1>3, <2>1, <2>2, <3>1
  <2>3. CASE ~(i <= Len(L))
    <3>1. i <= Len(M) => i = Len(L) + 1 BY <1>1, <1>2, <2>3
    <3> QED BY <1>2, <2>1, <2>3, <3>1
  <2> QED BY <2>2, <2>3
<1>5. Fits(F, M) BY <1>4 DEF Fits
<1> QED BY <1>5 DEF M

LEMMA GrownCarries ==
    ASSUME NEW L \in Seq(Entry), NEW e \in Entry, NEW m \in Message, Carries(m, L)
    PROVE  Carries(m, Append(L, e))
<1> DEFINE M == Append(L, e)
<1>1. Len(L) \in Nat /\ m.entries \in Seq(Entry) /\ Len(m.entries) \in Nat /\ m.index \in Nat
  BY LenProperties DEF Message
<1>2. M \in Seq(Entry) /\ Len(M) = Len(L) + 1 /\ \A i \in 1..Len(L) : M[i] = L[i] BY GrownLog
<1> HIDE DEF M
<1>3. CASE m.type = "MsgApp"
  <2>1. /\ m.index + Len(m.entries) <= Len(L) /\ m.logTerm = TermAt(L, m.index)
        /\ \A k \in 1..Len(m.entries) : m.entries[k] = L[m.index + k]
    BY <1>3 DEF Carries
  <2>2. TermAt(M, m.index) = TermAt(L, m.index)
    <3>1. m.index \in 1..Len(L) <=> m.index \in 1..Len(M) BY <1>1, <1>2, <2>1
    <3>2. m.index \in 1..Len(L) => M[m.index] = L[m.index] BY <1>2
    <3> QED BY <3>1, <3>2 DEF TermAt
  <2>3. ASSUME NEW k \in 1..Len(m.entries) PROVE m.entries[k] = M[m.index + k]
    <3>1. m.index + k \in 1..Len(L) BY <1>1, <2>1
    <3> QED BY <1>2, <2>1, <3>1
  <2>4. m.index + Len(m.entries) <= Len(M) BY <1>1, <1>2, <2>1
  <2> QED BY <1>3, <2>1, <2>2, <2>3, <2>4 DEF Carries, M
<1>4. CASE m.type # "MsgApp"
  <2>1. /\ m.type = "MsgSnap" /\ m.index \in 1..Len(L) /\ m.logTerm = L[m.index].term
        /\ m.entries = SubSeq(L, 1, m.index)
    BY <1>4 DEF Carries
  <2> DEFINE i == m.index
             a == SubSeq(L, 1, i)
             b == SubSeq(M, 1, i)
  <2>2. i \in 0..Len(L) /\ i \in 0..Len(M) /\ i \in 1..Len(M) BY <1>1, <1>2, <2>1
  <2>3. a \in Seq(Entry) /\ Len(a) = i /\ \A k \in 1..i : a[k] = L[k]
    BY <2>2, PrefixOf
  <2>4. b \in Seq(Entry) /\ Len(b) = i /\ \A k \in 1..i : b[k] = M[k]
    BY <1>2, <2>2, PrefixOf
  <2> HIDE DEF a, b
  <2>5. \A k \in 1..i : k \in 1..Len(L) BY <1>1, <2>2
  <2>6. \A k \in 1..Len(a) : a[k] = b[k] BY <1>2, <2>3, <2>4, <2>5
  <2>7. a = b BY <2>3, <2>4, <2>6, SeqEqual
  <2>8. L[i] = M[i] BY <1>2, <2>1
  <2> QED BY <2>1, <2>2, <2>7, <2>8 DEF Carries, M, a, b
<1> QED BY <1>3, <1>4

\* The size of some entries after each other.
LEMMA PayloadConcat ==
    ASSUME NEW a \in Seq(Entry), NEW b \in Seq(Entry), NEW c \in Seq(Entry),
           Len(c) = Len(a) + Len(b),
           \A k \in 1..Len(a) : c[k] = a[k], \A k \in 1..Len(b) : c[Len(a) + k] = b[k]
    PROVE  payloadsSize(c) = payloadsSize(a) + payloadsSize(b)
<1> DEFINE Sizes(s) == [k \in 1..Len(s) |-> s[k].size]
           x == Sizes(a)
           y == Sizes(b)
           z == Sizes(c)
<1>1. ASSUME NEW s \in Seq(Entry) PROVE Sizes(s) \in Seq(Nat) /\ Len(Sizes(s)) = Len(s)
  <2>1. Len(s) \in Nat BY LenProperties
  <2>2. ASSUME NEW k \in 1..Len(s) PROVE s[k].size \in Nat
    <3>1. s[k] \in Entry BY ElementOfSeq
    <3> QED BY <3>1 DEF Entry
  <2> QED BY <2>1, <2>2
<1>2. /\ x \in Seq(Nat) /\ y \in Seq(Nat) /\ z \in Seq(Nat)
      /\ Len(x) = Len(a) /\ Len(y) = Len(b) /\ Len(z) = Len(c)
  <2> HIDE DEF Sizes
  <2> QED BY <1>1
<1>3. Len(a) \in Nat /\ Len(b) \in Nat BY LenProperties
<1>4. \A k \in 1..Len(a) : z[k] = x[k]
  <2> SUFFICES ASSUME NEW k \in 1..Len(a) PROVE z[k] = x[k] OBVIOUS
  <2>1. k \in 1..Len(c) BY <1>3
  <2> QED BY <2>1
<1>5. \A k \in 1..Len(b) : z[Len(a) + k] = y[k]
  <2> SUFFICES ASSUME NEW k \in 1..Len(b) PROVE z[Len(a) + k] = y[k] OBVIOUS
  <2>1. Len(a) + k \in 1..Len(c) BY <1>3
  <2>2. z[Len(a) + k] = c[Len(a) + k].size BY <2>1
  <2> QED BY <2>2
<1>6. payloadsSize(c) = SumOf(z) /\ payloadsSize(a) = SumOf(x) /\ payloadsSize(b) = SumOf(y)
  BY DEF payloadsSize
<1> HIDE DEF x, y, z
<1>7. \A k \in 1..Len(x) : z[k] = x[k] BY <1>2, <1>4
<1>8. \A k \in 1..Len(y) : z[Len(x) + k] = y[k] BY <1>2, <1>5
<1>9. Len(z) = Len(x) + Len(y) BY <1>2
<1>10. SumOf(z) = SumOf(x) + SumOf(y) BY <1>2, <1>7, <1>8, <1>9, SumConcat
<1> QED BY <1>6, <1>10

\* The tail of a log behind index i.
LEMMA TailIs ==
    ASSUME NEW log \in Seq(Entry), NEW i \in 0..Len(log)
    PROVE  /\ SubSeq(log, i + 1, Len(log)) \in Seq(Entry)
           /\ Len(SubSeq(log, i + 1, Len(log))) = Len(log) - i
           /\ \A k \in 1..(Len(log) - i) : SubSeq(log, i + 1, Len(log))[k] = log[i + k]
<1> DEFINE j == i + 1
           n == Len(log)
<1>1. n \in Nat /\ n \in 0..n /\ j \in Nat \ {0} /\ j <= n + 1 /\ n - j + 1 = n - i /\ j - 1 = i
  BY LenProperties
<1> HIDE DEF j
<1>2. /\ SubSeq(log, j, n) \in Seq(Entry) /\ Len(SubSeq(log, j, n)) = n - j + 1
      /\ \A k \in 1..(n - j + 1) : SubSeq(log, j, n)[k] = log[j - 1 + k]
  BY <1>1, PartOf
<1> QED BY <1>1, <1>2 DEF j

\* One more entry.
LEMMA TailGrows ==
    ASSUME NEW log \in Seq(Entry), NEW i \in 0..Len(log), NEW e \in Entry
    PROVE  payloadsSize(SubSeq(Append(log, e), i + 1, Len(Append(log, e))))
           = payloadsSize(SubSeq(log, i + 1, Len(log))) + e.size
<1> DEFINE M == Append(log, e)
           n == Len(log)
           a == SubSeq(log, i + 1, n)
           b == <<e>>
           c == SubSeq(M, i + 1, Len(M))
<1>1. n \in Nat /\ i \in Nat /\ i <= n BY LenProperties
<1>2. /\ M \in Seq(Entry) /\ Len(M) = n + 1 /\ M[n + 1] = e /\ \A k \in 1..n : M[k] = log[k]
  BY GrownLog
<1> HIDE DEF M
<1>3. i \in 0..Len(M) BY <1>1, <1>2
<1>4. a \in Seq(Entry) /\ Len(a) = n - i /\ \A k \in 1..(n - i) : a[k] = log[i + k]
  BY TailIs
<1>5. c \in Seq(Entry) /\ Len(c) = Len(M) - i /\ \A k \in 1..(Len(M) - i) : c[k] = M[i + k]
  BY <1>2, <1>3, TailIs
<1>6. b \in Seq(Entry) /\ Len(b) = 1 /\ b[1] = e OBVIOUS
<1> HIDE DEF a, b, c
<1>7. Len(c) = Len(a) + Len(b) BY <1>1, <1>2, <1>4, <1>5, <1>6
<1>8. ASSUME NEW k \in 1..Len(a) PROVE c[k] = a[k]
  <2>1. k \in 1..(n - i) /\ k \in 1..(Len(M) - i) /\ i + k \in 1..n BY <1>1, <1>2, <1>4
  <2> QED BY <1>2, <1>4, <1>5, <2>1
<1>9. ASSUME NEW k \in 1..Len(b) PROVE c[Len(a) + k] = b[k]
  <2>1. k = 1 /\ Len(a) + k \in 1..(Len(M) - i) /\ i + (Len(a) + k) = n + 1
    BY <1>1, <1>2, <1>4, <1>6
  <2> QED BY <1>2, <1>5, <1>6, <2>1
<1>10. payloadsSize(c) = payloadsSize(a) + payloadsSize(b)
  BY <1>4, <1>5, <1>6, <1>7, <1>8, <1>9, PayloadConcat
<1>11. payloadsSize(b) = e.size
  <2>1. e.size \in Nat BY DEF Entry
  <2>2. [k \in 1..Len(b) |-> b[k].size] = <<e.size>>
    <3>1. \A k \in 1..1 : b[k].size = e.size BY <1>6
    <3> QED BY <1>6, <3>1
  <2> QED BY <2>1, <2>2, SumOfOne DEF payloadsSize
<1> QED BY <1>10, <1>11 DEF a, c, M

\* The applied entries leave the tail.
LEMMA TailShrinks ==
    ASSUME NEW log \in Seq(Entry), NEW i \in 0..Len(log), NEW j \in i..Len(log)
    PROVE  payloadsSize(SubSeq(log, i + 1, Len(log)))
           = payloadsSize(SubSeq(log, i + 1, j)) + payloadsSize(SubSeq(log, j + 1, Len(log)))
<1> DEFINE n == Len(log)
           h == i + 1
           a == SubSeq(log, h, j)
           b == SubSeq(log, j + 1, n)
           c == SubSeq(log, i + 1, n)
<1>1. /\ n \in Nat /\ i \in Nat /\ j \in Nat /\ i <= j /\ j <= n /\ j \in 0..n
      /\ h \in Nat \ {0} /\ h <= j + 1 /\ j - h + 1 = j - i /\ h - 1 = i
  BY LenProperties
<1>2. c \in Seq(Entry) /\ Len(c) = n - i /\ \A k \in 1..(n - i) : c[k] = log[i + k] BY TailIs
<1>3. b \in Seq(Entry) /\ Len(b) = n - j /\ \A k \in 1..(n - j) : b[k] = log[j + k] BY <1>1, TailIs
<1> HIDE DEF h
<1>4. a \in Seq(Entry) /\ Len(a) = j - h + 1 /\ \A k \in 1..(j - h + 1) : a[k] = log[h - 1 + k]
  BY <1>1, PartOf
<1> HIDE DEF a, b, c
<1>5. Len(c) = Len(a) + Len(b) BY <1>1, <1>2, <1>3, <1>4
<1>6. ASSUME NEW k \in 1..Len(a) PROVE c[k] = a[k]
  <2>1. k \in 1..(j - h + 1) /\ k \in 1..(n - i) BY <1>1, <1>4
  <2>2. a[k] = log[h - 1 + k] /\ c[k] = log[i + k] BY <1>2, <1>4, <2>1
  <2> QED BY <1>1, <2>2
<1>7. ASSUME NEW k \in 1..Len(b) PROVE c[Len(a) + k] = b[k]
  <2>1. k \in 1..(n - j) /\ Len(a) + k \in 1..(n - i) /\ i + (Len(a) + k) = j + k
    BY <1>1, <1>3, <1>4
  <2>2. b[k] = log[j + k] /\ c[Len(a) + k] = log[i + (Len(a) + k)] BY <1>2, <1>3, <2>1
  <2> QED BY <2>1, <2>2
<1>8. payloadsSize(c) = payloadsSize(a) + payloadsSize(b)
  BY ZenonT(60), <1>2, <1>3, <1>4, <1>5, <1>6, <1>7, PayloadConcat
<1> QED BY <1>8 DEF a, b, c, h

----------------------------------------------------------------------------
(* Messages under way *)

\* Everything in q was in p.
From(q, p) == \A j \in 1..Len(q) : \E i \in 1..Len(p) : q[j] = p[i]

LEMMA RemovedFrom ==
    ASSUME NEW q \in Seq(Message), NEW k \in 1..Len(q)
    PROVE  RemoveAt(q, k) \in Seq(Message) /\ From(RemoveAt(q, k), q)
<1> DEFINE n == Len(q)
           a == SubSeq(q, 1, k - 1)
           b == SubSeq(q, k + 1, n)
           c == a \o b
<1>1. n \in Nat /\ k \in Nat /\ k >= 1 /\ k <= n BY LenProperties
<1>2. \A i \in 1..n : q[i] \in Message BY ElementOfSeq
<1>3. /\ a \in Seq(Message) /\ Len(a) = k - 1 /\ \A i \in 1..(k - 1) : a[i] = q[i]
  <2>1. k - 1 \in Int /\ 1 \in Int /\ \A i \in 1..(k - 1) : q[i] \in Message BY <1>1, <1>2
  <2>2. /\ SubSeq(q, 1, k - 1) \in Seq(Message)
        /\ Len(SubSeq(q, 1, k - 1)) = IF 1 <= k - 1 THEN (k - 1) - 1 + 1 ELSE 0
        /\ \A i \in 1..((k - 1) - 1 + 1) : SubSeq(q, 1, k - 1)[i] = q[1 + i - 1]
    BY <2>1, SubSeqProperties
  <2>3. (k - 1) - 1 + 1 = k - 1 /\ (1 <= k - 1 \/ k - 1 = 0) BY <1>1
  <2>4. \A i \in 1..(k - 1) : 1 + i - 1 = i BY SMTT(60), <1>1
  <2> QED BY <2>2, <2>3, <2>4
<1>4. /\ b \in Seq(Message) /\ Len(b) = n - k /\ \A i \in 1..(n - k) : b[i] = q[k + i]
  <2>1. k + 1 \in Int /\ n \in Int /\ \A i \in (k + 1)..n : q[i] \in Message BY <1>1, <1>2
  <2>2. /\ SubSeq(q, k + 1, n) \in Seq(Message)
        /\ Len(SubSeq(q, k + 1, n)) = IF k + 1 <= n THEN n - (k + 1) + 1 ELSE 0
        /\ \A i \in 1..(n - (k + 1) + 1) : SubSeq(q, k + 1, n)[i] = q[(k + 1) + i - 1]
    BY <2>1, SubSeqProperties
  <2>3. n - (k + 1) + 1 = n - k /\ (k + 1 <= n \/ n - k = 0) BY <1>1
  <2>4. \A i \in 1..(n - k) : (k + 1) + i - 1 = k + i BY <1>1
  <2> QED BY <2>2, <2>3, <2>4
<1>5. RemoveAt(q, k) = c BY DEF RemoveAt
<1> HIDE DEF a, b
<1>6. /\ c \in Seq(Message) /\ Len(c) = Len(a) + Len(b)
      /\ \A i \in 1..(Len(a) + Len(b)) : c[i] = IF i <= Len(a) THEN a[i] ELSE b[i - Len(a)]
  BY <1>3, <1>4, ConcatProperties
<1> HIDE DEF c
<1>7. ASSUME NEW j \in 1..Len(c) PROVE \E i \in 1..n : c[j] = q[i]
  <2>1. CASE j <= k - 1
    <3>1. j \in 1..(k - 1) /\ j \in 1..n BY <1>1, <2>1
    <3>2. c[j] = q[j] BY <1>3, <1>6, <2>1, <3>1
    <3> QED BY <3>1, <3>2
  <2>2. CASE ~(j <= k - 1)
    <3>1. j - (k - 1) \in 1..(n - k) /\ k + (j - (k - 1)) \in 1..n BY <1>1, <1>3, <1>4, <1>6, <2>2
    <3>2. c[j] = b[j - (k - 1)] BY <1>3, <1>6, <2>2
    <3>3. b[j - (k - 1)] = q[k + (j - (k - 1))] BY <1>4, <3>1
    <3> QED BY <3>1, <3>2, <3>3
  <2> QED BY <2>1, <2>2
<1>8. From(c, q) BY <1>7 DEF From
<1> QED BY <1>5, <1>6, <1>8

LEMMA AppendedIs ==
    ASSUME NEW q \in Seq(Message), NEW m \in Message
    PROVE  /\ Append(q, m) \in Seq(Message)
           /\ \A j \in 1..Len(Append(q, m)) :
                Append(q, m)[j] = m \/ \E i \in 1..Len(q) : Append(q, m)[j] = q[i]
<1>1. Len(q) \in Nat BY LenProperties
<1>2. /\ Append(q, m) \in Seq(Message) /\ Len(Append(q, m)) = Len(q) + 1
      /\ Append(q, m)[Len(q) + 1] = m /\ \A i \in 1..Len(q) : Append(q, m)[i] = q[i]
  OBVIOUS
<1>3. \A j \in 1..(Len(q) + 1) : j = Len(q) + 1 \/ j \in 1..Len(q) BY <1>1
<1> QED BY <1>2, <1>3

LEMMA SentIs ==
    ASSUME NEW q \in Seq(Message), NEW p \in Seq(Message)
    PROVE  /\ q \o p \in Seq(Message)
           /\ \A j \in 1..Len(q \o p) :
                \/ \E i \in 1..Len(q) : (q \o p)[j] = q[i]
                \/ \E i \in 1..Len(p) : (q \o p)[j] = p[i]
<1> DEFINE c == q \o p
<1>1. Len(q) \in Nat /\ Len(p) \in Nat BY LenProperties
<1>2. /\ c \in Seq(Message) /\ Len(c) = Len(q) + Len(p)
      /\ \A i \in 1..(Len(q) + Len(p)) : c[i] = IF i <= Len(q) THEN q[i] ELSE p[i - Len(q)]
  BY ConcatProperties
<1> HIDE DEF c
<1>3. ASSUME NEW j \in 1..Len(c)
      PROVE  (\E i \in 1..Len(q) : c[j] = q[i]) \/ (\E i \in 1..Len(p) : c[j] = p[i])
  <2>1. CASE j <= Len(q)
    <3>1. j \in 1..Len(q) BY <1>1, <2>1
    <3> QED BY <1>2, <2>1, <3>1
  <2>2. CASE ~(j <= Len(q))
    <3>1. j - Len(q) \in 1..Len(p) BY <1>1, <1>2, <2>2
    <3>2. c[j] = p[j - Len(q)] BY <1>2, <2>2
    <3> QED BY <3>1, <3>2
  <2> QED BY <2>1, <2>2
<1> QED BY <1>2, <1>3 DEF c

LEMMA SnapshotsIsNat ==
    ASSUME NEW ms \in Seq(Message)
    PROVE  Snapshots(ms) \in Nat
<1> DEFINE S == {k \in 1..Len(ms) : ms[k].type = "MsgSnap"}
<1>1. Len(ms) \in Nat BY LenProperties
<1>2. IsFiniteSet(1..Len(ms)) BY <1>1, FS_Interval
<1>3. S \subseteq 1..Len(ms) OBVIOUS
<1> HIDE DEF S
<1>4. IsFiniteSet(S) BY <1>2, <1>3, FS_Subset
<1>5. Cardinality(S) \in Nat BY <1>4, FS_CardinalityType
<1> QED BY <1>5 DEF Snapshots, S

----------------------------------------------------------------------------
(* The steps *)

\* What every step keeps: the invariant, the window and the follower's log.
Kept ==
    /\ FlowInvariant' /\ Slid(l.pr.Inflights, l'.pr.Inflights)
    /\ f' = f \/ Keeps(f, f', l.log)

\* The leader moves on with a follower that stays.
LEMMA LeaderKept ==
    ASSUME FlowInvariant, Sound(l', f.log), l'.out = <<>>, Follows(f, l'.log),
           Slid(l.pr.Inflights, l'.pr.Inflights), l'.uncommittedSize <= TailSize(l'),
           f' = f, reports' \in Nat, faults' \in Nat, toF' \in Seq(Message), toL' \in Seq(Message),
           \A k \in 1..Len(toF') : ForFollower(toF'[k], f.log, l'.log),
           \A k \in 1..Len(toL') : ForLeader(toL'[k], f.log, l'.log)
    PROVE  Kept
<1>1. /\ f'.log = f.log /\ Sound(l', f'.log) /\ Follows(f', l'.log)
      /\ \A k \in 1..Len(toF') : ForFollower(toF'[k], f'.log, l'.log)
      /\ \A k \in 1..Len(toL') : ForLeader(toL'[k], f'.log, l'.log)
  OBVIOUS
<1>2. FlowInvariant'
  <2>1. FlowInvariant' <=>
          /\ Sound(l', f'.log) /\ l'.out = <<>> /\ Follows(f', l'.log)
          /\ l'.uncommittedSize <= TailSize(l')
          /\ toF' \in Seq(Message) /\ toL' \in Seq(Message) /\ reports' \in Nat /\ faults' \in Nat
          /\ \A k \in 1..Len(toF') : ForFollower(toF'[k], f'.log, l'.log)
          /\ \A k \in 1..Len(toL') : ForLeader(toL'[k], f'.log, l'.log)
    BY DEF FlowInvariant
  <2> QED BY <1>1, <2>1
<1> QED BY <1>2 DEF Kept

\* Its messages leave.
LEMMA LeaderMovesKept ==
    ASSUME FlowInvariant, NEW s, Sound(s, f.log), Follows(f, s.log), LeaderMoves(s),
           Slid(l.pr.Inflights, s.pr.Inflights), s.uncommittedSize <= TailSize(s),
           f' = f, faults' = faults, toL' \in Seq(Message),
           \A k \in 1..Len(toF) : ForFollower(toF[k], f.log, s.log),
           \A k \in 1..Len(toL') : ForLeader(toL'[k], f.log, s.log)
    PROVE  Kept
<1> DEFINE none == <<>>
           t == [s EXCEPT !.out = none]
           q == toF \o s.out
<1>1. l' = t /\ toF' = q /\ reports' = reports + Snapshots(s.out) BY DEF LeaderMoves
<1>2. s \in Leader /\ s.out \in Seq(Message) BY SoundIs
<1>3. none \in Seq(Message) /\ Len(none) = 0 /\ none = <<>> OBVIOUS
<1> HIDE DEF none
<1>4. /\ t \in Leader /\ t.pr = s.pr /\ t.log = s.log /\ t.first = s.first
      /\ t.committed = s.committed /\ t.applied = s.applied
      /\ t.uncommittedSize = s.uncommittedSize /\ t.other = s.other
      /\ t.out = none /\ t.panic = s.panic
  BY <1>2, <1>3 DEF Leader
<1> HIDE DEF t
<1>5. Sound(t, f.log) BY <1>3, <1>4 DEF Sound
<1>6. TailSize(t) = TailSize(s) BY <1>4 DEF TailSize
<1>7. toF \in Seq(Message) /\ reports \in Nat /\ faults \in Nat BY DEF FlowInvariant
<1>8. q \in Seq(Message) BY <1>2, <1>7, SentIs
<1>9. \A k \in 1..Len(q) : ForFollower(q[k], f.log, s.log)
  <2>1. \A k \in 1..Len(s.out) : ForFollower(s.out[k], f.log, s.log) BY DEF Sound
  <2>2. \A j \in 1..Len(q) : \/ \E i \in 1..Len(toF) : q[j] = toF[i]
                             \/ \E i \in 1..Len(s.out) : q[j] = s.out[i]
    BY <1>2, <1>7, SentIs
  <2> HIDE DEF q
  <2> QED BY <2>1, <2>2
<1> HIDE DEF q
<1>10. reports' \in Nat /\ faults' \in Nat BY <1>1, <1>2, <1>7, SnapshotsIsNat
<1>11. /\ Sound(l', f.log) /\ l'.out = <<>> /\ l'.log = s.log /\ l'.pr = s.pr
       /\ l'.uncommittedSize <= TailSize(l')
  BY <1>1, <1>3, <1>4, <1>5, <1>6
<1>12. toF' \in Seq(Message) /\ \A k \in 1..Len(toF') : ForFollower(toF'[k], f.log, l'.log)
  BY <1>1, <1>8, <1>9, <1>11
<1> QED BY <1>10, <1>11, <1>12, LeaderKept

\* The same, when the log and what is counted of it stay.
LEMMA FeedsKept ==
    ASSUME FlowInvariant, NEW s, Feeds(l, s, f.log), LeaderMoves(s),
           f' = f, faults' = faults, toL' \in Seq(Message),
           \A k \in 1..Len(toL') : ForLeader(toL'[k], f.log, l.log)
    PROVE  Kept
<1>1. /\ Sound(s, f.log) /\ Slid(l.pr.Inflights, s.pr.Inflights)
      /\ s.log = l.log /\ s.applied = l.applied /\ s.uncommittedSize = l.uncommittedSize
  BY DEF Feeds
<1>2. TailSize(s) = TailSize(l) BY <1>1 DEF TailSize
<1>3. /\ Follows(f, s.log) /\ s.uncommittedSize <= TailSize(s)
      /\ \A k \in 1..Len(toF) : ForFollower(toF[k], f.log, s.log)
      /\ \A k \in 1..Len(toL') : ForLeader(toL'[k], f.log, s.log)
  BY <1>1, <1>2 DEF FlowInvariant
<1> QED BY <1>1, <1>3, LeaderMovesKept

\* The same, when no message leaves.
LEMMA QuietKept ==
    ASSUME FlowInvariant, Feeds(l, l', f.log), l'.out = <<>>,
           f' = f, toF' = toF, toL' = toL, reports' \in Nat, faults' = faults
    PROVE  Kept
<1>1. /\ Sound(l', f.log) /\ Slid(l.pr.Inflights, l'.pr.Inflights)
      /\ l'.log = l.log /\ l'.applied = l.applied /\ l'.uncommittedSize = l.uncommittedSize
  BY DEF Feeds
<1>2. TailSize(l') = TailSize(l) BY <1>1 DEF TailSize
<1>3. /\ Follows(f, l'.log) /\ l'.uncommittedSize <= TailSize(l')
      /\ toF' \in Seq(Message) /\ toL' \in Seq(Message) /\ faults' \in Nat
      /\ \A k \in 1..Len(toF') : ForFollower(toF'[k], f.log, l'.log)
      /\ \A k \in 1..Len(toL') : ForLeader(toL'[k], f.log, l'.log)
  BY <1>1, <1>2 DEF FlowInvariant
<1> QED BY <1>1, <1>3, LeaderKept

LEMMA BeatKept ==
    ASSUME FlowInvariant, Beat
    PROVE  Kept
<1> DEFINE commit == heartbeatCommit(l)
           msg == Msg("MsgHeartbeat")
           m == [msg EXCEPT !.commit = commit]
<1>1. Sound(l, f.log) /\ Follows(f, l.log) BY DEF FlowInvariant
<1>2. /\ l.pr.Match \in Nat /\ l.committed \in Nat /\ Len(l.log) \in Nat BY <1>1, SoundIs
<1>3. commit \in Nat /\ commit <= l.pr.Match BY <1>2 DEF heartbeatCommit, Least
<1>4. LeaderMoves(sendTo(l, m)) /\ f' = f /\ toL' = toL /\ faults' = faults
  BY DEF Beat
<1>5. msg \in Message /\ msg.type = "MsgHeartbeat" BY MsgIs
<1> HIDE DEF commit, msg
<1>6. m \in Message /\ m.type = "MsgHeartbeat" /\ m.commit = commit BY <1>3, <1>5 DEF Message
<1> HIDE DEF m
<1>7. Agree(f.log, l.log, commit)
  <2>1. Agree(f.log, l.log, l.pr.Match) BY <1>1 DEF Sound
  <2>2. Len(f.log) \in Nat BY <1>1, FollowsIs
  <2> QED BY <1>2, <1>3, <2>1, <2>2, AgreeLess
<1>8. Feeds(l, sendTo(l, m), f.log) BY <1>1, <1>6, <1>7, SendToFeeds DEF ForFollower
<1>9. toL' \in Seq(Message) /\ \A k \in 1..Len(toL') : ForLeader(toL'[k], f.log, l.log)
  BY <1>4 DEF FlowInvariant
<1> QED BY <1>4, <1>8, <1>9, FeedsKept

\* The leader with one more entry.
LEMMA AppendEntrySound ==
    ASSUME NEW s, NEW F \in Seq(Entry), Sound(s, F), s.out = <<>>, NEW size \in Nat
    PROVE  /\ Sound(appendEntry(s, size), F)
           /\ appendEntry(s, size).log = Append(s.log, [term |-> LeaderTerm, size |-> size])
           /\ appendEntry(s, size).pr = s.pr /\ appendEntry(s, size).applied = s.applied
           /\ appendEntry(s, size).uncommittedSize = s.uncommittedSize + size
<1> DEFINE e == [term |-> LeaderTerm, size |-> size]
           M == Append(s.log, e)
           u == s.uncommittedSize + size
           t == [s EXCEPT !.log = M, !.uncommittedSize = u]
<1>1. /\ s \in Leader /\ Len(s.log) \in Nat /\ s.log \in Seq(Entry) /\ s.uncommittedSize \in Nat
      /\ s.committed \in Nat /\ s.other \in Nat /\ s.pr.Match \in Nat
      /\ Accounts(s.pr, Len(s.log))
  BY SoundIs
<1>2. e \in Entry BY FlowAssumption DEF Entry
<1>3. u \in Nat BY <1>1
<1>4. t = appendEntry(s, size) BY DEF appendEntry
<1> HIDE DEF e, u
<1>5. M \in Seq(Entry) /\ Len(M) = Len(s.log) + 1 BY <1>1, <1>2, GrownLog
<1>6. Agree(F, M, s.pr.Match) BY <1>1, <1>2, GrownAgree DEF Sound
<1> HIDE DEF M
<1>7. /\ t \in Leader /\ t.pr = s.pr /\ t.log = M /\ t.first = s.first
      /\ t.committed = s.committed /\ t.applied = s.applied
      /\ t.uncommittedSize = u /\ t.other = s.other
      /\ t.out = s.out /\ t.panic = s.panic
  BY <1>1, <1>3, <1>5 DEF Leader
<1> HIDE DEF t
<1>8. Accounts(t.pr, Len(t.log))
  <2>1. /\ s.pr.Next \in Nat /\ s.pr.PendingSnapshot \in Nat /\ s.pr.Match \in Nat
    BY <1>1 DEF Accounts, Progress
  <2> QED BY SMTT(60), <1>1, <1>5, <1>7, <2>1 DEF Accounts
<1>9. t.committed <= Len(t.log) /\ t.other <= Len(t.log) BY <1>1, <1>5, <1>7 DEF Sound
<1>10. \A k \in 1..Len(t.out) : ForFollower(t.out[k], F, t.log)
  <2>1. Len(t.out) = 0 BY <1>7
  <2> QED BY <2>1
<1>11. Sound(t, F) BY <1>6, <1>7, <1>8, <1>9, <1>10 DEF Sound
<1> QED BY <1>4, <1>7, <1>11 DEF M, e, u

LEMMA ProposeKept ==
    ASSUME FlowInvariant, Propose
    PROVE  Kept
<1> DEFINE e == [term |-> LeaderTerm, size |-> 1]
           M == Append(l.log, e)
           a == appendEntry(l, 1)
           s == sendAppend(a)
<1>1. /\ Sound(l, f.log) /\ Follows(f, l.log) /\ l.out = <<>> /\ l.uncommittedSize <= TailSize(l)
      /\ toF \in Seq(Message) /\ toL \in Seq(Message)
  BY DEF FlowInvariant
<1>2. /\ Len(l.log) \in Nat /\ l.log \in Seq(Entry) /\ l.applied \in Nat /\ l.committed \in Nat
      /\ l.applied <= l.committed /\ l.committed <= Len(l.log)
      /\ l.pr.Inflights.count \in Nat /\ l.uncommittedSize \in Nat
  BY <1>1, SoundIs DEF Sound
<1>3. f.log \in Seq(Entry) /\ f.committed \in Nat BY <1>1, FollowsIs
<1>4. LeaderMoves(s) /\ f' = f /\ toL' = toL /\ faults' = faults
  BY DEF Propose
<1>5. /\ Sound(a, f.log) /\ a.log = M /\ a.pr = l.pr /\ a.applied = l.applied
      /\ a.uncommittedSize = l.uncommittedSize + 1
  <2>1. 1 \in Nat OBVIOUS
  <2> QED BY <1>1, <1>3, <2>1, AppendEntrySound
<1>6. Feeds(a, s, f.log) BY <1>5, MaybeSendFeeds DEF sendAppend
<1>7. e \in Entry /\ e.term = LeaderTerm /\ e.size = 1 BY FlowAssumption DEF Entry
<1> HIDE DEF e, a, s
<1>8. /\ Sound(s, f.log) /\ Slid(l.pr.Inflights, s.pr.Inflights)
      /\ s.log = M /\ s.applied = l.applied /\ s.uncommittedSize = l.uncommittedSize + 1
  BY <1>5, <1>6 DEF Feeds
<1>9. TailSize(s) = TailSize(l) + 1
  <2>1. l.applied \in 0..Len(l.log) BY <1>2
  <2>2. payloadsSize(SubSeq(M, l.applied + 1, Len(M)))
        = payloadsSize(SubSeq(l.log, l.applied + 1, Len(l.log))) + e.size
    BY <1>2, <1>7, <2>1, TailGrows
  <2> QED BY <1>7, <1>8, <2>2 DEF TailSize
<1>10. s.uncommittedSize <= TailSize(s)
  <2>1. TailSize(l) \in Nat
    <3>1. l.applied \in 0..Len(l.log) BY <1>2
    <3>2. SubSeq(l.log, l.applied + 1, Len(l.log)) \in Seq(Entry) BY <1>2, <3>1, TailIs
    <3> QED BY <3>2, PayloadType DEF TailSize
  <2> QED BY <1>1, <1>2, <1>8, <1>9, <2>1
<1>11. \A n \in Nat : Agree(f.log, l.log, n) => Agree(f.log, M, n) BY <1>2, <1>7, GrownAgree
<1>12. \A m \in Message : Carries(m, l.log) => Carries(m, M) BY <1>2, <1>7, GrownCarries
<1>13. Fits(f.log, M) BY <1>1, <1>2, <1>3, <1>7, GrownFits DEF Follows
<1> HIDE DEF M
<1>14. Follows(f, s.log) BY <1>1, <1>3, <1>8, <1>11, <1>13 DEF Follows
<1>15. ASSUME NEW k \in 1..Len(toF) PROVE ForFollower(toF[k], f.log, s.log)
  <2>1. toF[k] \in Message BY <1>1, ElementOfSeq
  <2>2. toF[k].commit \in Nat BY <2>1 DEF Message
  <2>3. ForFollower(toF[k], f.log, l.log) BY DEF FlowInvariant
  <2> QED BY <1>8, <1>11, <1>12, <2>1, <2>2, <2>3 DEF ForFollower
<1>16. ASSUME NEW k \in 1..Len(toL) PROVE ForLeader(toL[k], f.log, s.log)
  <2>1. toL[k] \in Message BY <1>1, ElementOfSeq
  <2>2. toL[k].index \in Nat BY <2>1 DEF Message
  <2>3. ForLeader(toL[k], f.log, l.log) BY DEF FlowInvariant
  <2> QED BY <1>8, <1>11, <2>2, <2>3 DEF ForLeader
<1>17. toL' \in Seq(Message) /\ \A k \in 1..Len(toL') : ForLeader(toL'[k], f.log, s.log)
  BY <1>1, <1>4, <1>16
<1> QED BY <1>4, <1>8, <1>10, <1>14, <1>15, <1>17, LeaderMovesKept

LEMMA OtherAckKept ==
    ASSUME FlowInvariant, OtherAck
    PROVE  Kept
<1>1. Sound(l, f.log) BY DEF FlowInvariant
<1>2. PICK n \in (l.other + 1)..Len(l.log) :
        LeaderMoves(announce(maybeCommit([l EXCEPT !.other = n]), l))
  BY DEF OtherAck
<1> DEFINE t == [l EXCEPT !.other = n]
           s == announce(maybeCommit(t), l)
<1>3. /\ l \in Leader /\ l.other \in Nat /\ Len(l.log) \in Nat /\ l.pr.Inflights.count \in Nat
  BY <1>1, SoundIs
<1>4. n \in Nat /\ n <= Len(l.log) BY <1>3
<1>5. /\ t \in Leader /\ t.pr = l.pr /\ t.log = l.log /\ t.first = l.first
      /\ t.committed = l.committed /\ t.applied = l.applied
      /\ t.uncommittedSize = l.uncommittedSize /\ t.other = n
      /\ t.out = l.out /\ t.panic = l.panic
  BY <1>3, <1>4 DEF Leader
<1> HIDE DEF t
<1>6. Sound(t, f.log) BY <1>1, <1>4, <1>5 DEF Sound
<1>7. Feeds(l, t, f.log)
  <2>1. Slid(l.pr.Inflights, t.pr.Inflights) BY <1>3, <1>5, SlidSame
  <2> QED BY <1>5, <1>6, <2>1 DEF Feeds
<1>8. Feeds(l, maybeCommit(t), f.log) BY <1>1, <1>7, ThenFeeds
<1>9. Feeds(l, s, f.log) BY <1>1, <1>8, AnnounceFeeds
<1>10. LeaderMoves(s) /\ f' = f /\ toL' = toL /\ faults' = faults BY <1>2 DEF OtherAck, t
<1> HIDE DEF s
<1>11. toL' \in Seq(Message) /\ \A k \in 1..Len(toL') : ForLeader(toL'[k], f.log, l.log)
  BY <1>10 DEF FlowInvariant
<1> QED BY <1>9, <1>10, <1>11, FeedsKept

LEMMA ApplyKept ==
    ASSUME FlowInvariant, Apply
    PROVE  Kept
<1> DEFINE size == payloadsSize(SubSeq(l.log, l.applied + 1, l.committed))
           u == IF size > l.uncommittedSize THEN 0 ELSE l.uncommittedSize - size
           com == l.committed
           t == [l EXCEPT !.uncommittedSize = u, !.applied = com]
           r == reduceUncommittedSize(l, size)
<1>1. /\ Sound(l, f.log) /\ Follows(f, l.log) /\ l.out = <<>> /\ l.uncommittedSize <= TailSize(l)
      /\ toF \in Seq(Message) /\ toL \in Seq(Message) /\ reports \in Nat /\ faults \in Nat
      /\ \A k \in 1..Len(toF) : ForFollower(toF[k], f.log, l.log)
      /\ \A k \in 1..Len(toL) : ForLeader(toL[k], f.log, l.log)
  BY DEF FlowInvariant
<1>2. /\ l \in Leader /\ Len(l.log) \in Nat /\ l.log \in Seq(Entry) /\ l.applied \in Nat
      /\ l.committed \in Nat /\ l.applied <= l.committed /\ l.committed <= Len(l.log)
      /\ l.pr.Inflights.count \in Nat /\ l.uncommittedSize \in Nat /\ l.first \in Nat
      /\ l.first <= l.applied + 1
  BY <1>1, SoundIs DEF Sound
<1>3. /\ l' = t /\ f' = f /\ toF' = toF /\ toL' = toL /\ reports' = reports /\ faults' = faults
  <2>1. l' = [r EXCEPT !.applied = l.committed] BY DEF Apply
  <2>2. r = [l EXCEPT !.uncommittedSize = u] BY <1>2 DEF reduceUncommittedSize, Leader
  <2> HIDE DEF r, u
  <2> QED BY <2>1, <2>2 DEF Apply
<1>4. size \in Nat
  <2> DEFINE h == l.applied + 1
  <2>1. l.committed \in 0..Len(l.log) /\ h \in Nat \ {0} /\ h <= l.committed + 1 BY <1>2
  <2> HIDE DEF h
  <2>2. SubSeq(l.log, h, l.committed) \in Seq(Entry) BY <1>2, <2>1, PartOf
  <2>3. payloadsSize(SubSeq(l.log, h, l.committed)) \in Nat BY <2>2, PayloadType
  <2> QED BY <2>3 DEF h
<1>5. payloadsSize(SubSeq(l.log, l.applied + 1, Len(l.log)))
      = size + payloadsSize(SubSeq(l.log, l.committed + 1, Len(l.log)))
  <2>1. l.applied \in 0..Len(l.log) /\ l.committed \in (l.applied)..Len(l.log) BY <1>2
  <2> QED BY <1>2, <2>1, TailShrinks
<1>6. payloadsSize(SubSeq(l.log, l.committed + 1, Len(l.log))) \in Nat
  <2>1. l.committed \in 0..Len(l.log) BY <1>2
  <2>2. SubSeq(l.log, l.committed + 1, Len(l.log)) \in Seq(Entry) BY <1>2, <2>1, TailIs
  <2> QED BY <2>2, PayloadType
<1> HIDE DEF size
<1>7. u \in Nat /\ com \in Nat /\ com = l.committed BY <1>2, <1>4
<1>8. u <= payloadsSize(SubSeq(l.log, l.committed + 1, Len(l.log)))
  <2>1. l.uncommittedSize <= size + payloadsSize(SubSeq(l.log, l.committed + 1, Len(l.log)))
    BY <1>1, <1>5 DEF TailSize
  <2> QED BY <1>2, <1>4, <1>6, <2>1
<1> HIDE DEF u, com
<1>9. /\ t \in Leader /\ t.pr = l.pr /\ t.log = l.log /\ t.first = l.first
      /\ t.committed = l.committed /\ t.applied = com
      /\ t.uncommittedSize = u /\ t.other = l.other
      /\ t.out = l.out /\ t.panic = l.panic
  BY <1>2, <1>7 DEF Leader
<1> HIDE DEF t
<1>10. Sound(t, f.log)
  <2>1. /\ t.first <= t.applied + 1 /\ t.applied <= t.committed /\ t.committed <= Len(t.log)
    BY <1>2, <1>7, <1>9
  <2> QED BY <1>1, <1>9, <2>1 DEF Sound
<1>11. t.uncommittedSize <= TailSize(t) BY <1>7, <1>8, <1>9 DEF TailSize
<1>12. Slid(l.pr.Inflights, t.pr.Inflights) BY <1>2, <1>9, SlidSame
<1>13. /\ Sound(l', f.log) /\ l'.out = <<>> /\ l'.log = l.log
       /\ l'.uncommittedSize <= TailSize(l') /\ Slid(l.pr.Inflights, l'.pr.Inflights)
  BY <1>1, <1>3, <1>9, <1>10, <1>11, <1>12
<1>14. /\ Follows(f, l'.log) /\ reports' \in Nat /\ faults' \in Nat
       /\ toF' \in Seq(Message) /\ toL' \in Seq(Message)
       /\ \A k \in 1..Len(toF') : ForFollower(toF'[k], f.log, l'.log)
       /\ \A k \in 1..Len(toL') : ForLeader(toL'[k], f.log, l'.log)
  BY <1>1, <1>3, <1>13
<1> QED BY <1>3, <1>13, <1>14, LeaderKept

LEMMA CompactKept ==
    ASSUME FlowInvariant, Compact
    PROVE  Kept
<1>1. Sound(l, f.log) /\ l.out = <<>> BY DEF FlowInvariant
<1>2. PICK i \in (l.first)..(l.applied) : l' = [l EXCEPT !.first = i + 1, !.compactions = @ + 1]
  BY DEF Compact
<1> DEFINE first == i + 1
           n == l.compactions + 1
           t == [l EXCEPT !.first = first, !.compactions = n]
<1>3. l \in Leader /\ l.first \in Nat \ {0} /\ l.applied \in Nat /\ l.pr.Inflights.count \in Nat
  BY <1>1, SoundIs
<1>4. l.compactions \in Nat BY <1>3 DEF Leader
<1>5. first \in Nat \ {0} /\ first <= l.applied + 1 /\ n \in Nat BY <1>3, <1>4
<1>6. l' = t BY <1>2
<1>7. /\ f' = f /\ toF' = toF /\ toL' = toL /\ reports' = reports /\ faults' = faults
      /\ reports \in Nat
  BY DEF Compact, FlowInvariant
<1> HIDE DEF first, n
<1>8. /\ t \in Leader /\ t.pr = l.pr /\ t.log = l.log /\ t.first = first
      /\ t.committed = l.committed /\ t.applied = l.applied
      /\ t.uncommittedSize = l.uncommittedSize /\ t.other = l.other
      /\ t.out = l.out /\ t.panic = l.panic
  BY <1>3, <1>5 DEF Leader
<1> HIDE DEF t
<1>9. Sound(t, f.log) BY <1>1, <1>5, <1>8 DEF Sound
<1>10. Slid(l.pr.Inflights, t.pr.Inflights) BY <1>3, <1>8, SlidSame
<1>11. Feeds(l, t, f.log) BY <1>8, <1>9, <1>10 DEF Feeds
<1>12. Feeds(l, l', f.log) /\ l'.out = <<>> BY <1>1, <1>6, <1>8, <1>11
<1> QED BY <1>7, <1>12, QuietKept

LEMMA CheckQuorumKept ==
    ASSUME FlowInvariant, CheckQuorum
    PROVE  Kept
<1> DEFINE t == [l EXCEPT !.pr.RecentActive = FALSE]
<1>1. Sound(l, f.log) /\ l.out = <<>> BY DEF FlowInvariant
<1>2. l \in Leader BY <1>1, SoundIs
<1>3. Feeds(l, t, f.log) BY <1>1, FlagFeeds
<1>4. t.out = l.out BY <1>2 DEF Leader
<1>5. /\ l' = t /\ f' = f /\ toF' = toF /\ toL' = toL /\ reports' = reports /\ faults' = faults
      /\ reports \in Nat
  BY DEF CheckQuorum, FlowInvariant
<1> HIDE DEF t
<1>6. Feeds(l, l', f.log) /\ l'.out = <<>> BY <1>1, <1>3, <1>4, <1>5
<1> QED BY <1>5, <1>6, QuietKept

LEMMA ReportUnreachableKept ==
    ASSUME FlowInvariant, ReportUnreachable
    PROVE  Kept
<1> DEFINE s == handleUnreachable(l)
<1>1. Sound(l, f.log) BY DEF FlowInvariant
<1>2. Feeds(l, s, f.log) BY <1>1, UnreachableFeeds
<1>3. LeaderMoves(s) /\ f' = f /\ toL' = toL /\ faults' = faults BY DEF ReportUnreachable
<1> HIDE DEF s
<1>4. toL' \in Seq(Message) /\ \A k \in 1..Len(toL') : ForLeader(toL'[k], f.log, l.log)
  BY <1>3 DEF FlowInvariant
<1> QED BY <1>2, <1>3, <1>4, FeedsKept

LEMMA ReportSnapshotKept ==
    ASSUME FlowInvariant, ReportSnapshot
    PROVE  Kept
<1>1. Sound(l, f.log) /\ l.out = <<>> /\ reports \in Nat BY DEF FlowInvariant
<1>2. PICK reject \in BOOLEAN : l' = handleSnapStatus(l, reject) BY DEF ReportSnapshot
<1> DEFINE t == handleSnapStatus(l, reject)
<1>3. Feeds(l, t, f.log) BY <1>1, SnapStatusFeeds
<1>4. l \in Leader BY <1>1, SoundIs
<1>5. t.out = l.out BY <1>4 DEF handleSnapStatus, Leader
<1>6. /\ f' = f /\ toF' = toF /\ toL' = toL /\ reports' = reports - 1 /\ faults' = faults
      /\ reports > 0
  BY DEF ReportSnapshot
<1> HIDE DEF t
<1>7. Feeds(l, l', f.log) /\ l'.out = <<>> BY <1>1, <1>2, <1>3, <1>5 DEF t
<1>8. reports' \in Nat BY <1>1, <1>6
<1> QED BY <1>6, <1>7, <1>8, QuietKept

LEMMA DeliverToLeaderKept ==
    ASSUME FlowInvariant, NEW k \in 1..Len(toL), DeliverToLeader(k)
    PROVE  Kept
<1> DEFINE m == toL[k]
           s == stepLeader(l, m)
           q == RemoveAt(toL, k)
<1>1. /\ Sound(l, f.log) /\ toL \in Seq(Message)
      /\ \A j \in 1..Len(toL) : ForLeader(toL[j], f.log, l.log)
  BY DEF FlowInvariant
<1>2. m \in Message /\ ForLeader(m, f.log, l.log) BY <1>1, ElementOfSeq
<1>3. LeaderMoves(s) /\ toL' = q /\ f' = f /\ faults' = faults BY DEF DeliverToLeader
<1>4. q \in Seq(Message) /\ From(q, toL) BY <1>1, RemovedFrom
<1> HIDE DEF m, q
<1>5. Feeds(l, s, f.log) BY <1>1, <1>2, StepLeaderFeeds
<1> HIDE DEF s
<1>6. \A j \in 1..Len(q) : ForLeader(q[j], f.log, l.log) BY <1>1, <1>4 DEF From
<1>7. toL' \in Seq(Message) /\ \A j \in 1..Len(toL') : ForLeader(toL'[j], f.log, l.log)
  BY <1>3, <1>4, <1>6
<1> QED BY <1>3, <1>5, <1>7, FeedsKept

\* The follower moves to x, and keeps all that the leader relies on.
LEMMA FollowerSound ==
    ASSUME Sound(l, f.log), l.out = <<>>, NEW x, Keeps(f, x, l.log)
    PROVE  /\ Sound(l, x.log)
           /\ \A m \in Message : ForFollower(m, f.log, l.log) => ForFollower(m, x.log, l.log)
           /\ \A m \in Message : ForLeader(m, f.log, l.log) => ForLeader(m, x.log, l.log)
<1>1. l.pr.Match \in Nat BY SoundIs
<1>2. \A n \in Nat : Agree(f.log, l.log, n) => Agree(x.log, l.log, n) BY DEF Keeps
<1>3. Agree(x.log, l.log, l.pr.Match) BY <1>1, <1>2 DEF Sound
<1>4. \A k \in 1..Len(l.out) : ForFollower(l.out[k], x.log, l.log)
  <2>1. Len(l.out) = 0 OBVIOUS
  <2> QED BY <2>1
<1>5. Sound(l, x.log) BY <1>3, <1>4 DEF Sound
<1>6. ASSUME NEW m \in Message
      PROVE  /\ ForFollower(m, f.log, l.log) => ForFollower(m, x.log, l.log)
             /\ ForLeader(m, f.log, l.log) => ForLeader(m, x.log, l.log)
  <2>1. m.commit \in Nat /\ m.index \in Nat BY DEF Message
  <2> QED BY <1>2, <2>1 DEF ForFollower, ForLeader
<1> QED BY <1>5, <1>6

LEMMA DeliverToFollowerKept ==
    ASSUME FlowInvariant, NEW k \in 1..Len(toF), DeliverToFollower(k)
    PROVE  Kept
<1> DEFINE m == toF[k]
           step == stepFollower(f, m)
           x == step[1]
           a == step[2]
           p == Append(toL, a)
           q == RemoveAt(toF, k)
<1>1. /\ Sound(l, f.log) /\ l.out = <<>> /\ Follows(f, l.log) /\ l.uncommittedSize <= TailSize(l)
      /\ toF \in Seq(Message) /\ toL \in Seq(Message) /\ reports \in Nat /\ faults \in Nat
      /\ \A j \in 1..Len(toF) : ForFollower(toF[j], f.log, l.log)
      /\ \A j \in 1..Len(toL) : ForLeader(toL[j], f.log, l.log)
  BY DEF FlowInvariant
<1>2. l.log \in Seq(Entry) /\ l.pr.Inflights.count \in Nat BY <1>1, SoundIs
<1>3. m \in Message /\ ForFollower(m, f.log, l.log) BY <1>1, ElementOfSeq
<1>4. /\ f' = x /\ toL' = p /\ toF' = q /\ l' = l /\ reports' = reports /\ faults' = faults
  BY DEF DeliverToFollower
<1> HIDE DEF m
<1>5. Answers(f, step, l.log) BY <1>1, <1>2, <1>3, StepFollowerAnswers
<1> HIDE DEF step
<1>6. Keeps(f, x, l.log) /\ a \in Message /\ ForLeader(a, x.log, l.log) BY <1>5 DEF Answers
<1> HIDE DEF x, a
<1>7. /\ Sound(l, x.log)
      /\ \A n \in Message : ForFollower(n, f.log, l.log) => ForFollower(n, x.log, l.log)
      /\ \A n \in Message : ForLeader(n, f.log, l.log) => ForLeader(n, x.log, l.log)
  BY <1>1, <1>6, FollowerSound
<1>8. q \in Seq(Message) /\ From(q, toF) BY <1>1, RemovedFrom
<1>9. /\ p \in Seq(Message)
      /\ \A j \in 1..Len(p) : p[j] = a \/ \E i \in 1..Len(toL) : p[j] = toL[i]
  BY <1>1, <1>6, AppendedIs
<1> HIDE DEF p, q
<1>10. \A i \in 1..Len(toF) : toF[i] \in Message BY <1>1, ElementOfSeq
<1>11. \A i \in 1..Len(toL) : toL[i] \in Message BY <1>1, ElementOfSeq
<1>12. \A j \in 1..Len(q) : ForFollower(q[j], x.log, l.log) BY <1>1, <1>7, <1>8, <1>10 DEF From
<1>13. \A j \in 1..Len(p) : ForLeader(p[j], x.log, l.log) BY <1>1, <1>6, <1>7, <1>9, <1>11
<1>14. FlowInvariant'
  <2>1. FlowInvariant' <=>
          /\ Sound(l', f'.log) /\ l'.out = <<>> /\ Follows(f', l'.log)
          /\ l'.uncommittedSize <= TailSize(l')
          /\ toF' \in Seq(Message) /\ toL' \in Seq(Message) /\ reports' \in Nat /\ faults' \in Nat
          /\ \A j \in 1..Len(toF') : ForFollower(toF'[j], f'.log, l'.log)
          /\ \A j \in 1..Len(toL') : ForLeader(toL'[j], f'.log, l'.log)
    BY DEF FlowInvariant
  <2>2. Follows(x, l.log) BY <1>6 DEF Keeps
  <2> QED BY <1>1, <1>4, <1>7, <1>8, <1>9, <1>12, <1>13, <2>1, <2>2
<1>15. Slid(l.pr.Inflights, l'.pr.Inflights) BY <1>2, <1>4, SlidSame
<1> QED BY <1>4, <1>6, <1>14, <1>15 DEF Kept

\* Only the messages under way change.
LEMMA NetworkKept ==
    ASSUME FlowInvariant, l' = l, f' = f, reports' = reports, faults' \in Nat,
           toF' \in Seq(Message), toL' \in Seq(Message), From(toF', toF), From(toL', toL)
    PROVE  Kept
<1>1. /\ Sound(l, f.log) /\ l.out = <<>> /\ Follows(f, l.log) /\ l.uncommittedSize <= TailSize(l)
      /\ reports \in Nat
      /\ \A j \in 1..Len(toF) : ForFollower(toF[j], f.log, l.log)
      /\ \A j \in 1..Len(toL) : ForLeader(toL[j], f.log, l.log)
  BY DEF FlowInvariant
<1>2. \A j \in 1..Len(toF') : ForFollower(toF'[j], f.log, l.log) BY <1>1 DEF From
<1>3. \A j \in 1..Len(toL') : ForLeader(toL'[j], f.log, l.log) BY <1>1 DEF From
<1>4. l.pr.Inflights.count \in Nat BY <1>1, SoundIs
<1>5. Slid(l.pr.Inflights, l'.pr.Inflights) BY <1>4, SlidSame
<1>6. /\ Sound(l', f.log) /\ l'.out = <<>> /\ Follows(f, l'.log) /\ l'.log = l.log
      /\ l'.uncommittedSize <= TailSize(l')
  BY <1>1
<1>7. /\ \A j \in 1..Len(toF') : ForFollower(toF'[j], f.log, l'.log)
      /\ \A j \in 1..Len(toL') : ForLeader(toL'[j], f.log, l'.log)
  BY <1>2, <1>3
<1> QED BY <1>1, <1>5, <1>6, <1>7, LeaderKept

LEMMA FromSelf ==
    ASSUME NEW q
    PROVE  From(q, q)
BY DEF From

LEMMA LoseKept ==
    ASSUME FlowInvariant, Lose
    PROVE  Kept
<1>1. toF \in Seq(Message) /\ toL \in Seq(Message) /\ faults \in Nat BY DEF FlowInvariant
<1>2. l' = l /\ f' = f /\ reports' = reports /\ faults' \in Nat BY <1>1 DEF Lose
<1>3. From(<<>>, toF) /\ From(<<>>, toL) /\ <<>> \in Seq(Message) BY DEF From
<1>4. CASE \E q \in {RemoveAt(toF, k) : k \in 1..Len(toF)} \cup {<<>>} : toF' = q /\ toL' = toL
  <2>1. toF' \in Seq(Message) /\ From(toF', toF) BY <1>1, <1>3, <1>4, RemovedFrom
  <2> QED BY <1>1, <1>2, <1>4, <2>1, FromSelf, NetworkKept
<1>5. CASE \E q \in {RemoveAt(toL, k) : k \in 1..Len(toL)} \cup {<<>>} : toL' = q /\ toF' = toF
  <2>1. toL' \in Seq(Message) /\ From(toL', toL) BY <1>1, <1>3, <1>5, RemovedFrom
  <2> QED BY <1>1, <1>2, <1>5, <2>1, FromSelf, NetworkKept
<1> QED BY <1>4, <1>5 DEF Lose

LEMMA DuplicateKept ==
    ASSUME FlowInvariant, Duplicate
    PROVE  Kept
<1>1. toF \in Seq(Message) /\ toL \in Seq(Message) /\ faults \in Nat BY DEF FlowInvariant
<1>2. l' = l /\ f' = f /\ reports' = reports /\ faults' \in Nat BY <1>1 DEF Duplicate
<1>3. ASSUME NEW q \in Seq(Message), NEW k \in 1..Len(q)
      PROVE  Append(q, q[k]) \in Seq(Message) /\ From(Append(q, q[k]), q)
  <2>1. q[k] \in Message BY ElementOfSeq
  <2>2. /\ Append(q, q[k]) \in Seq(Message)
        /\ \A j \in 1..Len(Append(q, q[k])) :
             Append(q, q[k])[j] = q[k] \/ \E i \in 1..Len(q) : Append(q, q[k])[j] = q[i]
    BY <2>1, AppendedIs
  <2> QED BY <2>2 DEF From
<1>4. CASE \E k \in 1..Len(toF) : toF' = Append(toF, toF[k]) /\ toL' = toL
  <2>1. toF' \in Seq(Message) /\ From(toF', toF) BY <1>1, <1>3, <1>4
  <2> QED BY <1>1, <1>2, <1>4, <2>1, FromSelf, NetworkKept
<1>5. CASE \E k \in 1..Len(toL) : toL' = Append(toL, toL[k]) /\ toF' = toF
  <2>1. toL' \in Seq(Message) /\ From(toL', toL) BY <1>1, <1>3, <1>5
  <2> QED BY <1>1, <1>2, <1>5, <2>1, FromSelf, NetworkKept
<1> QED BY <1>4, <1>5 DEF Duplicate

----------------------------------------------------------------------------
(* The theorems *)

LEMMA InitFits ==
    ASSUME NEW F \in FollowerLogs, NEW e \in Entry, e.term = LeaderTerm
    PROVE  /\ F \in Seq(Entry) /\ LeaderLog \in Seq(Entry) /\ Fits(F, Append(LeaderLog, e))
<1> DEFINE Old == [term : 0..(LeaderTerm - 1), size : Nat]
           L == LeaderLog
<1>1. LeaderTerm \in Nat \ {0} /\ L \in Seq(Old) /\ F \in Seq(Old) /\ LogsMatch(F, L)
  BY FlowAssumption
<1>2. Old \subseteq Entry
  <2>1. 0..(LeaderTerm - 1) \subseteq 0..LeaderTerm BY <1>1
  <2> QED BY <2>1 DEF Entry
<1>3. \A x \in Old : x.term < LeaderTerm BY <1>1
<1> HIDE DEF Old, L
<1>4. F \in Seq(Entry) /\ L \in Seq(Entry) BY <1>1, <1>2, SeqMonotonic
<1>5. Len(F) \in Nat /\ Len(L) \in Nat BY <1>4, LenProperties
<1>6. \A i \in 1..Len(F) : F[i].term # LeaderTerm
  <2> SUFFICES ASSUME NEW i \in 1..Len(F) PROVE F[i].term # LeaderTerm OBVIOUS
  <2>1. F[i] \in Old BY <1>1, ElementOfSeq
  <2>2. F[i].term \in Nat /\ F[i].term < LeaderTerm BY <1>1, <1>3, <2>1 DEF Old
  <2> QED BY <1>1, <2>2
<1>7. ASSUME NEW i \in 1..Len(F), i <= Len(L), F[i].term = L[i].term PROVE Agree(F, L, i)
  <2>1. i \in 0..Len(F) /\ i \in 0..Len(L) /\ i \in 1..Least(Len(F), Len(L))
    BY <1>5, <1>7 DEF Least
  <2>2. SubSeq(F, 1, i) = SubSeq(L, 1, i) BY <1>1, <1>7, <2>1 DEF LogsMatch
  <2>3. \A k \in 1..i : SubSeq(F, 1, i)[k] = F[k] BY <1>4, <2>1, PrefixOf
  <2>4. \A k \in 1..i : SubSeq(L, 1, i)[k] = L[k] BY <1>4, <2>1, PrefixOf
  <2>5. \A k \in 1..i : F[k] = L[k] BY <2>2, <2>3, <2>4
  <2>6. i <= Len(F) BY <1>5
  <2> QED BY <1>7, <2>5, <2>6 DEF Agree
<1>8. Fits(F, L) BY <1>6, <1>7 DEF Fits
<1>9. Fits(F, Append(L, e)) BY <1>4, <1>8, GrownFits
<1> QED BY <1>4, <1>9 DEF L

LEMMA InitFlow ==
    ASSUME Init
    PROVE  FlowInvariant
<1> DEFINE e == [term |-> LeaderTerm, size |-> 0]
           L == Append(LeaderLog, e)
           n == Len(LeaderLog)
           next == n + 1
           in == NewInflights
           q == [Match |-> 0, Next |-> next, State |-> "StateProbe",
                 PendingSnapshot |-> 0, RecentActive |-> FALSE, MsgAppFlowPaused |-> FALSE,
                 Inflights |-> in]
<1>1. l = [log |-> L, first |-> 1, committed |-> 0, applied |-> 0, uncommittedSize |-> 0,
           other |-> 0, pr |-> q, compactions |-> 0, out |-> <<>>, panic |-> FALSE]
  BY DEF Init
<1>2. /\ f \in [log : FollowerLogs, committed : {0}, panic : {FALSE}]
      /\ toF = <<>> /\ toL = <<>> /\ reports = 0 /\ faults = 0
  BY DEF Init
<1>3. e \in Entry /\ e.term = LeaderTerm BY FlowAssumption DEF Entry
<1> HIDE DEF e
<1>4. f.log \in FollowerLogs /\ f.committed = 0 /\ f.panic = FALSE BY <1>2
<1>5. f.log \in Seq(Entry) /\ LeaderLog \in Seq(Entry) /\ Fits(f.log, L)
  BY <1>3, <1>4, InitFits
<1>6. /\ L \in Seq(Entry) /\ Len(L) = next /\ n \in Nat /\ next \in Nat \ {0}
  BY <1>3, <1>5, GrownLog, LenProperties
<1>7. Ring(in) /\ in.count = 0 /\ in \in InflightsType BY FreshRing DEF NewInflights, Ring
<1> HIDE DEF L, in, next
<1>8. /\ q \in Progress /\ q.Inflights = in /\ q.Match = 0 /\ q.Next = next
      /\ q.State = "StateProbe" /\ q.PendingSnapshot = 0
  BY <1>6, <1>7 DEF Progress
<1>9. Accounts(q, next) BY <1>6, <1>7, <1>8, EmptyAccount
<1> HIDE DEF q
<1>10. <<>> \in Seq(Message) /\ Len(<<>>) = 0 OBVIOUS
<1>11. /\ l \in Leader /\ l.log = L /\ l.first = 1 /\ l.committed = 0 /\ l.applied = 0
       /\ l.uncommittedSize = 0 /\ l.other = 0 /\ l.pr = q /\ l.out = <<>> /\ l.panic = FALSE
  BY <1>1, <1>6, <1>8, <1>10 DEF Leader
<1>12. Agree(f.log, L, 0)
  <2>1. Len(f.log) \in Nat BY <1>5, LenProperties
  <2> QED BY <1>6, <2>1 DEF Agree
<1>13. Sound(l, f.log) BY <1>6, <1>8, <1>9, <1>10, <1>11, <1>12 DEF Sound
<1>14. Follows(f, l.log)
  <2>1. \A F \in FollowerLogs : F \in Seq(Entry) BY <1>3, InitFits
  <2>2. 0 \in Nat /\ FALSE \in BOOLEAN OBVIOUS
  <2>3. f \in Follower BY <1>2, <2>1, <2>2 DEF Follower
  <2> QED BY <1>4, <1>5, <1>11, <1>12, <2>3 DEF Follows
<1>15. l.uncommittedSize <= TailSize(l)
  <2>1. 0 \in 0..Len(L) BY <1>6
  <2>2. SubSeq(L, 0 + 1, Len(L)) \in Seq(Entry) BY <1>6, <2>1, TailIs
  <2>3. payloadsSize(SubSeq(L, 0 + 1, Len(L))) \in Nat BY <2>2, PayloadType
  <2>4. TailSize(l) \in Nat BY <1>11, <2>3 DEF TailSize
  <2> QED BY <1>11, <2>4
<1>16. /\ toF \in Seq(Message) /\ toL \in Seq(Message) /\ reports \in Nat /\ faults \in Nat
       /\ Len(toF) = 0 /\ Len(toL) = 0
  BY <1>2, <1>10
<1> QED BY <1>11, <1>13, <1>14, <1>15, <1>16 DEF FlowInvariant

LEMMA StepKept ==
    ASSUME FlowInvariant, [Next]_vars
    PROVE  Kept
<1>1. CASE Beat BY <1>1, BeatKept
<1>2. CASE Propose BY <1>2, ProposeKept
<1>3. CASE OtherAck BY <1>3, OtherAckKept
<1>4. CASE Apply BY <1>4, ApplyKept
<1>5. CASE Compact BY <1>5, CompactKept
<1>6. CASE CheckQuorum BY <1>6, CheckQuorumKept
<1>7. CASE ReportUnreachable BY <1>7, ReportUnreachableKept
<1>8. CASE ReportSnapshot BY <1>8, ReportSnapshotKept
<1>9. CASE \E k \in 1..Len(toF) : DeliverToFollower(k) BY <1>9, DeliverToFollowerKept
<1>10. CASE \E k \in 1..Len(toL) : DeliverToLeader(k) BY <1>10, DeliverToLeaderKept
<1>11. CASE Lose BY <1>11, LoseKept
<1>12. CASE Duplicate BY <1>12, DuplicateKept
<1>13. CASE UNCHANGED vars
  <2>1. /\ l' = l /\ f' = f /\ toF' = toF /\ toL' = toL /\ reports' = reports /\ faults' = faults
    BY <1>13 DEF vars
  <2>2. toF \in Seq(Message) /\ toL \in Seq(Message) /\ faults \in Nat BY DEF FlowInvariant
  <2> QED BY <2>1, <2>2, FromSelf, NetworkKept
<1> QED
  BY <1>1, <1>2, <1>3, <1>4, <1>5, <1>6, <1>7, <1>8, <1>9, <1>10, <1>11, <1>12, <1>13 DEF Next

\* The invariant that all else follows from: of the leader's account, of the ring
\* buffer, of what the logs have in common and of every message under way.
THEOREM FlowInvariance == Spec => []FlowInvariant
<1>1. Init => FlowInvariant BY InitFlow
<1>2. FlowInvariant /\ [Next]_vars => FlowInvariant' BY StepKept DEF Kept
<1> QED BY <1>1, <1>2, PTL DEF Spec

LEMMA WindowIs ==
    ASSUME NEW in, Ring(in)
    PROVE  /\ Window(in) \in Seq(Slot) /\ Len(Window(in)) = in.count /\ in.count \in Nat
           /\ \A k \in 1..in.count : Window(in)[k] = At(in, k)
<1>1. in.count \in Nat BY DEF Ring, InflightsType
<1>2. \A k \in 1..in.count : At(in, k) \in Slot BY SlotInUse
<1> QED BY <1>1, <1>2 DEF Window

LEMMA InvariantIsFlowInv ==
    ASSUME FlowInvariant
    PROVE  FlowInv
<1>1. /\ Sound(l, f.log) /\ Follows(f, l.log)
      /\ toF \in Seq(Message) /\ toL \in Seq(Message) /\ reports \in Nat /\ faults \in Nat
  BY DEF FlowInvariant
<1>2. l \in Leader /\ l.pr.Match \in Nat /\ Accounts(l.pr, Len(l.log)) /\ l.log \in Seq(Entry)
  BY <1>1, SoundIs
<1>3. f \in Follower /\ f.log \in Seq(Entry) BY <1>1, FollowsIs
<1>4. TypeOK BY <1>1, <1>2, <1>3 DEF TypeOK, Leader, Follower
<1>5. NoPanic BY <1>1 DEF NoPanic, Sound, Follows
<1>6. WindowInProgress
  <2> DEFINE in == l.pr.Inflights
             w == Window(in)
  <2>1. Ring(in) BY <1>2 DEF Accounts
  <2>2. /\ w \in Seq(Slot) /\ Len(w) = in.count /\ in.count \in Nat
        /\ \A k \in 1..in.count : w[k] = At(in, k)
    BY <2>1, WindowIs
  <2>3. \A k \in 1..in.count : At(in, k).index \in (l.pr.Match + 1)..(l.pr.Next - 1)
    BY <1>2 DEF Accounts, InWindow
  <2>4. l.pr.State # "StateReplicate" => in.count = 0 BY <1>2 DEF Accounts
  <2> HIDE DEF w
  <2>5. in.count = 0 => w = <<>> BY <2>2, EmptySeq
  <2> QED BY <2>2, <2>3, <2>4, <2>5 DEF WindowInProgress, w
<1>7. MatchInLog
  <2>1. Agree(f.log, l.log, l.pr.Match) BY <1>1 DEF Sound
  <2> DEFINE i == l.pr.Match
             a == SubSeq(f.log, 1, i)
             b == SubSeq(l.log, 1, i)
  <2>2. i <= Len(f.log) /\ i <= Len(l.log) BY <2>1 DEF Agree
  <2>3. i \in 0..Len(f.log) /\ i \in 0..Len(l.log) BY <1>2, <1>3, <2>2, LenProperties
  <2>4. a \in Seq(Entry) /\ Len(a) = i /\ \A k \in 1..i : a[k] = f.log[k] BY <1>3, <2>3, PrefixOf
  <2>5. b \in Seq(Entry) /\ Len(b) = i /\ \A k \in 1..i : b[k] = l.log[k] BY <1>2, <2>3, PrefixOf
  <2> HIDE DEF a, b
  <2>6. \A k \in 1..Len(a) : a[k] = b[k] BY <2>1, <2>4, <2>5 DEF Agree
  <2>7. a = b BY <2>4, <2>5, <2>6, SeqEqual
  <2> QED BY <2>2, <2>7 DEF MatchInLog, a, b
<1> QED BY <1>4, <1>5, <1>6, <1>7 DEF FlowInv

\* The leader's account of the follower is sound: what is in the window lies between
\* Match and Next, the follower has everything up to Match (progress.go, inflights.go),
\* and nobody panics, in particular not because of a full window (Inflights.Add).
THEOREM FlowIsSound == Spec => []FlowInv
<1>1. FlowInvariant => FlowInv BY InvariantIsFlowInv
<1> QED BY <1>1, FlowInvariance, PTL

\* uncommittedSize never exceeds the payload of what was not applied yet: entries of
\* earlier terms that reduceUncommittedSize subtracts, too, are made up for at 0.
THEOREM OnlyUnappliedIsCounted == Spec => []OnlyUnappliedCounts
<1>1. FlowInvariant => OnlyUnappliedCounts
  BY DEF FlowInvariant, OnlyUnappliedCounts, TailSize
<1> QED BY <1>1, FlowInvariance, PTL

\* No append and no snapshot, however late, takes back what the follower committed.
THEOREM CommittedIsKept == Spec => FollowerKeepsCommitted
<1> DEFINE Stays == /\ f'.committed >= f.committed
                    /\ SubSeq(f'.log, 1, f.committed) = SubSeq(f.log, 1, f.committed)
<1>1. FlowInvariant /\ [Next]_vars => [Stays]_vars
  <2> SUFFICES ASSUME FlowInvariant, [Next]_vars PROVE Stays OBVIOUS
  <2>1. Kept BY StepKept
  <2>2. Follows(f, l.log) BY DEF FlowInvariant
  <2>3. f.log \in Seq(Entry) /\ f.committed \in Nat /\ f.committed <= Len(f.log)
    BY <2>2, FollowsIs
  <2>4. CASE f' = f BY <2>3, <2>4
  <2>5. CASE Keeps(f, f', l.log)
    <3> DEFINE i == f.committed
               a == SubSeq(f.log, 1, i)
               b == SubSeq(f'.log, 1, i)
    <3>1. Agree(f.log, l.log, i) BY <2>2 DEF Follows
    <3>2. Agree(f'.log, l.log, i) BY <2>3, <2>5, <3>1 DEF Keeps
    <3>3. f'.log \in Seq(Entry) BY <2>5, FollowsIs DEF Keeps
    <3>4. i \in 0..Len(f.log) BY <2>3, LenProperties
    <3>5. i \in 0..Len(f'.log) BY <2>3, <3>2, <3>3, LenProperties DEF Agree
    <3>6. a \in Seq(Entry) /\ Len(a) = i /\ \A k \in 1..i : a[k] = f.log[k]
      BY <2>3, <3>4, PrefixOf
    <3>7. b \in Seq(Entry) /\ Len(b) = i /\ \A k \in 1..i : b[k] = f'.log[k]
      BY <3>3, <3>5, PrefixOf
    <3> HIDE DEF a, b
    <3>8. \A k \in 1..Len(a) : a[k] = b[k] BY <3>1, <3>2, <3>6, <3>7 DEF Agree
    <3>9. a = b BY <3>6, <3>7, <3>8, SeqEqual
    <3>10. f'.committed >= f.committed BY <2>5 DEF Keeps
    <3> QED BY <3>9, <3>10 DEF a, b
  <2> QED BY <2>1, <2>4, <2>5 DEF Kept
<1> QED BY <1>1, FlowInvariance, PTL DEF Spec, FollowerKeepsCommitted

\* A window that slid is a step of the sliding window.
LEMMA SlidIsSlide ==
    ASSUME FlowInvariant, FlowInvariant', Slid(l.pr.Inflights, l'.pr.Inflights)
    PROVE  SlidingWindow!Next
<1> DEFINE a == l.pr.Inflights
           b == l'.pr.Inflights
           v == Window(a)
           w == Window(b)
<1>1. Sound(l, f.log) BY DEF FlowInvariant
<1>2. Sound(l', f'.log) BY DEF FlowInvariant
<1>3. Ring(a) BY <1>1 DEF Sound, Accounts
<1>4. Ring(b) /\ InWindow(l'.pr) /\ l'.pr \in Progress BY <1>2 DEF Sound, Accounts
<1>5. /\ v \in Seq(Slot) /\ Len(v) = a.count /\ a.count \in Nat
      /\ \A k \in 1..a.count : v[k] = At(a, k)
  BY <1>3, WindowIs
<1>6. /\ w \in Seq(Slot) /\ Len(w) = b.count /\ b.count \in Nat
      /\ \A k \in 1..b.count : w[k] = At(b, k)
  BY <1>4, WindowIs
<1>7. \A j, k \in 1..b.count : j < k => At(b, j).index < At(b, k).index
  BY <1>4 DEF InWindow
<1>8. b.count <= MaxInflight BY <1>4 DEF Ring
<1>9. PICK k \in 0..a.count : /\ b.count >= a.count - k
                              /\ \A j \in 1..(a.count - k) : At(b, j) = At(a, k + j)
  BY DEF Slid
<1> HIDE DEF a, b, v, w
<1>10. SubSeq(w, 1, Len(v) - k) = SubSeq(v, k + 1, Len(v))
  <2> DEFINE m == a.count
             d == m - k
             x == SubSeq(w, 1, d)
             y == SubSeq(v, k + 1, m)
  <2>1. m \in Nat /\ k \in Nat /\ d \in Nat /\ k <= m /\ d <= b.count BY <1>5, <1>6, <1>9
  <2>2. \A j \in 1..d : w[j] \in Slot
    <3>1. \A j \in 1..d : j \in 1..Len(w) BY <1>6, <2>1
    <3> QED BY <1>6, <3>1, ElementOfSeq
  <2>3. \A j \in (k + 1)..m : v[j] \in Slot
    <3>1. \A j \in (k + 1)..m : j \in 1..Len(v) BY <1>5, <2>1
    <3> QED BY <1>5, <3>1, ElementOfSeq
  <2> HIDE DEF d, m
  <2>4. /\ x \in Seq(Slot) /\ Len(x) = IF 1 <= d THEN d - 1 + 1 ELSE 0
        /\ \A j \in 1..(d - 1 + 1) : x[j] = w[1 + j - 1]
    <3>1. d \in Int /\ 1 \in Int BY <2>1
    <3> QED BY <2>2, <3>1, SubSeqProperties
  <2>5. /\ y \in Seq(Slot) /\ Len(y) = IF k + 1 <= m THEN m - (k + 1) + 1 ELSE 0
        /\ \A j \in 1..(m - (k + 1) + 1) : y[j] = v[(k + 1) + j - 1]
    <3>1. k + 1 \in Int /\ m \in Int BY <2>1
    <3> QED BY <2>3, <3>1, SubSeqProperties
  <2>6. d = m - k BY DEF d
  <2>7. Len(x) = d /\ \A j \in 1..d : x[j] = w[j]
    <3>1. d - 1 + 1 = d /\ (1 <= d \/ d = 0) /\ \A j \in 1..d : 1 + j - 1 = j BY <2>1
    <3> QED BY <2>4, <3>1
  <2>8. Len(y) = d /\ \A j \in 1..d : y[j] = v[k + j]
    <3>1. /\ m - (k + 1) + 1 = d /\ (k + 1 <= m \/ d = 0)
          /\ \A j \in 1..d : (k + 1) + j - 1 = k + j
      BY <2>1, <2>6
    <3> QED BY <2>5, <3>1
  <2> HIDE DEF x, y
  <2>9. ASSUME NEW j \in 1..Len(x) PROVE x[j] = y[j]
    <3>1. j \in 1..d /\ j \in 1..b.count /\ k + j \in 1..a.count
      BY <1>6, <2>1, <2>6, <2>7 DEF m
    <3>2. At(b, j) = At(a, k + j) BY <1>9, <3>1 DEF d, m
    <3> QED BY <1>5, <1>6, <2>7, <2>8, <3>1, <3>2
  <2>10. x = y BY <2>4, <2>5, <2>7, <2>8, <2>9, SeqEqual
  <2> QED BY <1>5, <2>10 DEF x, y, d, m
<1>11. Len(w) >= Len(v) - k /\ Len(w) <= MaxInflight /\ k \in 0..Len(v) BY <1>5, <1>6, <1>8, <1>9
<1>12. \A i, j \in 1..Len(w) : i < j => w[i].index < w[j].index BY <1>6, <1>7
<1> QED BY <1>10, <1>11, <1>12
        DEF SlidingWindow!Next, SlidingWindow!Slide, SlidingWindow!Increasing, a, b, v, w

\* The inflights of inflights.go implement the sliding window.
THEOREM InflightsSlide == Spec => WindowSlides
<1>1. Init => SlidingWindow!Init
  <2> SUFFICES ASSUME Init PROVE SlidingWindow!Init OBVIOUS
  <2>1. l.pr.Inflights = NewInflights BY DEF Init
  <2>2. Window(NewInflights) = <<>> BY DEF Window, NewInflights
  <2> QED BY <2>1, <2>2 DEF SlidingWindow!Init
<1>2. FlowInvariant /\ [Next]_vars => [SlidingWindow!Next]_(Window(l.pr.Inflights))
  <2> SUFFICES ASSUME FlowInvariant, [Next]_vars PROVE SlidingWindow!Next OBVIOUS
  <2>1. Kept BY StepKept
  <2> QED BY <2>1, SlidIsSlide DEF Kept
<1> QED BY <1>1, <1>2, FlowInvariance, PTL DEF Spec, WindowSlides, SlidingWindow!Spec
=============================================================================
