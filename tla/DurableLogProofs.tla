-------------------------- MODULE DurableLogProofs --------------------------
(***************************************************************************)
(* A follower's log (RaftLog) implements DurableLog, commits only what the *)
(* group has chosen, keeps what it acknowledged and never panics: for      *)
(* every history of the group's leaders, any number of pending writes,     *)
(* crashes and compactions.                                                *)
(*                                                                         *)
(* The proof goes by the points at which Readys were accepted: what the    *)
(* log was then, with its hard state.  The storage will go through these   *)
(* points, one after the other, as the append thread does its work, and    *)
(* what a response tells is told of the point of its append.  Which points *)
(* there were cannot be read off the state, so the invariant says that     *)
(* there are such points.                                                  *)
(***************************************************************************)
EXTENDS RaftLog, SequenceTheorems, WellFoundedInduction, TLAPS

----------------------------------------------------------------------------
(* Logs and points *)

\* Two logs are the same up to c.
Agree(a, b, c) ==
    /\ c <= Len(a) /\ c <= Len(b)
    /\ \A i \in 1..c : a[i] = b[i]

\* What the leader's log of a term comes to; in term 0 there is none.
LeaderLog(h, t) == IF t = 0 THEN <<>> ELSE h[t].log

\* Every entry was made by the leader of its term, after what precedes it there.
True(h, log) ==
    /\ log \in Log
    /\ \A i \in 1..Len(log) :
         /\ log[i] \in 1..MaxTerm /\ i <= Len(h[log[i]].log)
         /\ Agree(log, h[log[i]].log, i)

\* A leader of a term up to t has committed the log up to c.
Sanctioned(h, log, t, c) ==
    c = 0 \/ \E k \in 1..t : c <= h[k].commit /\ Agree(log, h[k].log, c)

\* A log with the hard state that belongs to it: in memory, on disk, or of the past.
Point == [log : Log, Term : Term, Commit : Index]

Good(h, x) ==
    /\ x \in Point /\ True(h, x.log) /\ x.Commit <= Len(x.log)
    /\ Sanctioned(h, x.log, x.Term, x.Commit)

\* How the log a changes to b under the leader with the log L.
Evolves(a, b, L) ==
    \/ a = b
    \/ Agree(b, L, Len(b)) /\ \A i \in 0..Len(a) : Agree(a, L, i) => i <= Len(b)

Later(h, x, y) ==
    /\ x.Term <= y.Term /\ x.Commit <= y.Commit
    /\ x.Term = y.Term => Evolves(x.log, y.log, LeaderLog(h, x.Term))

----------------------------------------------------------------------------
(* Sequences *)

LEMMA AgreeLess ==
    ASSUME NEW a, NEW b, NEW c \in Nat, NEW d \in Nat, Len(a) \in Nat, Len(b) \in Nat,
           Agree(a, b, d), c <= d
    PROVE  Agree(a, b, c)
<1>1. \A i \in 1..c : i \in 1..d OBVIOUS
<1> QED BY <1>1 DEF Agree

LEMMA AgreeSym ==
    ASSUME NEW a, NEW b, NEW c, Agree(a, b, c)
    PROVE  Agree(b, a, c)
BY DEF Agree

LEMMA AgreeTrans ==
    ASSUME NEW a, NEW b, NEW e, NEW c, Agree(a, b, c), Agree(b, e, c)
    PROVE  Agree(a, e, c)
BY DEF Agree

LEMMA AgreeSame ==
    ASSUME NEW a \in Log, NEW c \in Nat, c <= Len(a)
    PROVE  Agree(a, a, c)
BY DEF Agree

LEMMA AgreeNone ==
    ASSUME NEW a \in Log, NEW b \in Log
    PROVE  Agree(a, b, 0)
<1>1. Len(a) \in Nat /\ Len(b) \in Nat BY LenProperties DEF Log
<1> QED BY <1>1 DEF Agree

\* Logs of one length that agree are one log.
LEMMA AgreeEqual ==
    ASSUME NEW a \in Log, NEW b \in Log, Len(a) = Len(b), Agree(a, b, Len(a))
    PROVE  a = b
<1>1. \A i \in 1..Len(a) : a[i] = b[i] BY DEF Agree
<1> QED BY <1>1, SeqEqual DEF Log

LEMMA LogElement ==
    ASSUME NEW a \in Log, NEW i \in 1..Len(a)
    PROVE  a[i] \in Term
BY ElementOfSeq DEF Log

\* The part of a log from i to j.
LEMMA PartOf ==
    ASSUME NEW a \in Log, NEW i \in Nat \ {0}, NEW j \in 0..Len(a), i <= j + 1
    PROVE  /\ SubSeq(a, i, j) \in Log /\ Len(SubSeq(a, i, j)) = j - i + 1
           /\ \A k \in 1..(j - i + 1) : SubSeq(a, i, j)[k] = a[i - 1 + k]
<1>1. Len(a) \in Nat /\ i \in Int /\ j \in Int BY LenProperties DEF Log
<1>2. \A k \in i..j : a[k] \in Term
  <2> SUFFICES ASSUME NEW k \in i..j PROVE a[k] \in Term OBVIOUS
  <2>1. k \in 1..Len(a) BY <1>1
  <2> QED BY <2>1, LogElement
<1>3. /\ SubSeq(a, i, j) \in Seq(Term)
      /\ Len(SubSeq(a, i, j)) = IF i <= j THEN j - i + 1 ELSE 0
      /\ \A k \in 1..(j - i + 1) : SubSeq(a, i, j)[k] = a[i + k - 1]
  BY <1>1, <1>2, SubSeqProperties
<1>4. \A k \in 1..(j - i + 1) : i + k - 1 = i - 1 + k BY <1>1
<1>5. (IF i <= j THEN j - i + 1 ELSE 0) = j - i + 1 BY <1>1
<1> QED BY <1>3, <1>4, <1>5 DEF Log

LEMMA PrefixOf ==
    ASSUME NEW a \in Log, NEW c \in 0..Len(a)
    PROVE  /\ SubSeq(a, 1, c) \in Log /\ Len(SubSeq(a, 1, c)) = c
           /\ \A k \in 1..c : SubSeq(a, 1, c)[k] = a[k]
           /\ Agree(SubSeq(a, 1, c), a, c)
<1>1. c \in Nat /\ 1 <= c + 1 /\ c <= Len(a) /\ Len(a) \in Nat BY LenProperties DEF Log
<1>2. /\ SubSeq(a, 1, c) \in Log /\ Len(SubSeq(a, 1, c)) = c - 1 + 1
      /\ \A k \in 1..(c - 1 + 1) : SubSeq(a, 1, c)[k] = a[1 - 1 + k]
  BY <1>1, PartOf
<1>3. c - 1 + 1 = c /\ \A k \in 1..c : 1 - 1 + k = k BY <1>1
<1>4. /\ Len(SubSeq(a, 1, c)) = c
      /\ \A k \in 1..c : SubSeq(a, 1, c)[k] = a[k]
  BY <1>2, <1>3
<1> QED BY <1>1, <1>2, <1>4 DEF Agree

\* A prefix of a with b after it.
LEMMA JoinOf ==
    ASSUME NEW a \in Log, NEW c \in 0..Len(a), NEW b \in Log
    PROVE  LET j == SubSeq(a, 1, c) \o b
           IN  /\ j \in Log /\ Len(j) = c + Len(b) /\ Agree(j, a, c)
               /\ \A k \in 1..Len(b) : j[c + k] = b[k]
<1> DEFINE p == SubSeq(a, 1, c)
           j == p \o b
<1>1. p \in Log /\ Len(p) = c /\ \A k \in 1..c : p[k] = a[k] BY PrefixOf
<1> HIDE DEF p
<1>2. /\ j \in Log /\ Len(j) = Len(p) + Len(b)
      /\ \A i \in 1..(Len(p) + Len(b)) : j[i] = IF i <= Len(p) THEN p[i] ELSE b[i - Len(p)]
  BY <1>1, ConcatProperties DEF Log
<1>3. Len(b) \in Nat /\ c \in Nat /\ c <= Len(a) BY LenProperties DEF Log
<1> HIDE DEF j
<1>4. \A k \in 1..c : j[k] = a[k] BY <1>1, <1>2, <1>3
<1>5. \A k \in 1..Len(b) : j[c + k] = b[k]
  <2> SUFFICES ASSUME NEW k \in 1..Len(b) PROVE j[c + k] = b[k] OBVIOUS
  <2>1. c + k \in 1..(Len(p) + Len(b)) /\ ~(c + k <= Len(p)) /\ c + k - Len(p) = k BY <1>1, <1>3
  <2> QED BY <1>2, <2>1
<1>6. Agree(j, a, c) BY <1>1, <1>2, <1>3, <1>4 DEF Agree
<1> QED BY <1>1, <1>2, <1>5, <1>6 DEF j, p

\* A log with another after it.
LEMMA ConcatOf ==
    ASSUME NEW a \in Log, NEW b \in Log
    PROVE  /\ a \o b \in Log /\ Len(a \o b) = Len(a) + Len(b) /\ Agree(a \o b, a, Len(a))
           /\ \A k \in 1..Len(b) : (a \o b)[Len(a) + k] = b[k]
<1>1. /\ a \o b \in Log /\ Len(a \o b) = Len(a) + Len(b)
      /\ \A i \in 1..(Len(a) + Len(b)) : (a \o b)[i] = IF i <= Len(a) THEN a[i] ELSE b[i - Len(a)]
  BY ConcatProperties DEF Log
<1>2. Len(b) \in Nat /\ Len(a) \in Nat BY LenProperties DEF Log
<1>3. \A k \in 1..Len(b) : (a \o b)[Len(a) + k] = b[k]
  <2> SUFFICES ASSUME NEW k \in 1..Len(b) PROVE (a \o b)[Len(a) + k] = b[k] OBVIOUS
  <2>1. Len(a) + k \in 1..(Len(a) + Len(b)) /\ ~(Len(a) + k <= Len(a)) /\ Len(a) + k - Len(a) = k
    BY <1>2
  <2> QED BY <1>1, <2>1
<1> QED BY <1>1, <1>2, <1>3 DEF Agree

\* IsPrefix of the community modules is agreement.
LEMMA PrefixAgrees ==
    ASSUME NEW a \in Log, NEW b \in Log
    PROVE  IsPrefix(a, b) <=> Agree(a, b, Len(a))
<1>1. Len(a) \in Nat /\ Len(b) \in Nat BY LenProperties DEF Log
<1>2. CASE Len(a) <= Len(b)
  <2> DEFINE x == SubSeq(a, 1, Len(a))
             y == SubSeq(b, 1, Len(a))
  <2>1. Len(a) \in 0..Len(a) /\ Len(a) \in 0..Len(b) BY <1>1, <1>2
  <2>2. x \in Log /\ Len(x) = Len(a) /\ \A k \in 1..Len(a) : x[k] = a[k] BY <2>1, PrefixOf
  <2>3. y \in Log /\ Len(y) = Len(a) /\ \A k \in 1..Len(a) : y[k] = b[k] BY <2>1, PrefixOf
  <2>4. IsPrefix(a, b) <=> x = y BY <1>2 DEF IsPrefix
  <2> HIDE DEF x, y
  <2>5. ASSUME Agree(a, b, Len(a)) PROVE x = y
    <3>1. \A k \in 1..Len(x) : x[k] = y[k] BY <2>2, <2>3, <2>5 DEF Agree
    <3> QED BY <2>2, <2>3, <3>1, SeqEqual DEF Log
  <2>6. ASSUME x = y PROVE Agree(a, b, Len(a)) BY <1>1, <1>2, <2>2, <2>3, <2>6 DEF Agree
  <2> QED BY <2>4, <2>5, <2>6
<1>3. CASE ~(Len(a) <= Len(b)) BY <1>3 DEF IsPrefix, Agree
<1> QED BY <1>2, <1>3

LEMMA CutAgrees ==
    ASSUME NEW a \in Log, NEW b \in Log, NEW c \in 0..Len(a)
    PROVE  IsPrefix(SubSeq(a, 1, c), b) <=> Agree(a, b, c)
<1> DEFINE p == SubSeq(a, 1, c)
<1>1. p \in Log /\ Len(p) = c /\ Agree(p, a, c) BY PrefixOf
<1> HIDE DEF p
<1>2. IsPrefix(p, b) <=> Agree(p, b, c) BY <1>1, PrefixAgrees
<1>3. Agree(a, p, c) BY <1>1, AgreeSym
<1>4. Agree(p, b, c) <=> Agree(a, b, c) BY <1>1, <1>3, AgreeTrans
<1> QED BY <1>2, <1>4 DEF p

----------------------------------------------------------------------------
(* The leaders' logs *)

LEMMA Bounds == MaxTerm \in Nat \ {0} /\ MaxLog \in Nat \ {0}
BY LogAssumption

LEMMA LeadersHave ==
    ASSUME NEW h, IsHistory(h), NEW t \in 1..MaxTerm
    PROVE  /\ h[t].log \in Log /\ Len(h[t].log) \in Nat /\ Len(h[t].log) <= MaxLog
           /\ h[t].commit \in Nat /\ h[t].commit <= Len(h[t].log)
           /\ \A i \in 1..Len(h[t].log) : h[t].log[i] \in 1..t
<1>1. h[t].log \in Seq(1..t) /\ Len(h[t].log) <= MaxLog
      /\ h[t].commit \in {0} \cup {i \in 1..Len(h[t].log) : h[t].log[i] = t}
  BY DEF IsHistory
<1>2. 1..t \subseteq Term BY Bounds DEF Term
<1>3. h[t].log \in Log BY <1>1, <1>2, SeqMonotonic DEF Log
<1>4. Len(h[t].log) \in Nat BY <1>3, LenProperties DEF Log
<1>5. \A i \in 1..Len(h[t].log) : h[t].log[i] \in 1..t BY <1>1, ElementOfSeq
<1> QED BY <1>1, <1>3, <1>4, <1>5

LEMMA LeadersTrue ==
    ASSUME NEW h, IsHistory(h), NEW t \in 1..MaxTerm
    PROVE  True(h, h[t].log)
<1> DEFINE L == h[t].log
<1>1. L \in Log /\ Len(L) \in Nat /\ \A i \in 1..Len(L) : L[i] \in 1..t BY LeadersHave
<1>2. ASSUME NEW i \in 1..Len(L)
      PROVE  L[i] \in 1..MaxTerm /\ i <= Len(h[L[i]].log) /\ Agree(L, h[L[i]].log, i)
  <2> DEFINE M == h[L[i]].log
  <2>1. L[i] \in 1..MaxTerm BY <1>1, <1>2, Bounds
  <2>2. M \in Log /\ Len(M) \in Nat BY <2>1, LeadersHave
  <2>3. i <= Len(M) /\ SubSeq(L, 1, i) = SubSeq(M, 1, i) BY <1>2 DEF IsHistory
  <2>4. i \in 0..Len(L) /\ i \in 0..Len(M) BY <1>1, <1>2, <2>2, <2>3
  <2> HIDE DEF M
  <2>5. Agree(SubSeq(L, 1, i), L, i) BY <1>1, <2>4, PrefixOf
  <2>6. Agree(SubSeq(M, 1, i), M, i) BY <2>2, <2>4, PrefixOf
  <2>7. Agree(L, M, i) BY <2>3, <2>5, <2>6, AgreeSym, AgreeTrans
  <2> QED BY <2>1, <2>3, <2>7 DEF M
<1> QED BY <1>1, <1>2 DEF True

\* What one leader committed, the later ones have.
LEMMA LeadersComplete ==
    ASSUME NEW h, IsHistory(h), NEW k \in 1..MaxTerm, NEW t \in 1..MaxTerm, k <= t,
           h[t].log # <<>>
    PROVE  Agree(h[k].log, h[t].log, h[k].commit)
<1> DEFINE a == h[k].log
           b == h[t].log
           c == h[k].commit
<1>1. a \in Log /\ b \in Log /\ c \in Nat /\ c <= Len(a) /\ Len(a) \in Nat BY LeadersHave
<1>2. CASE k = t BY <1>1, <1>2, AgreeSame
<1>3. CASE k # t
  <2>1. k \in 1..(t - 1) BY <1>3
  <2>2. IsPrefix(SubSeq(a, 1, c), b) BY <2>1 DEF IsHistory
  <2>3. c \in 0..Len(a) BY <1>1
  <2> HIDE DEF a, b, c
  <2>4. Agree(a, b, c) BY <1>1, <2>2, <2>3, CutAgrees
  <2> QED BY <2>4 DEF a, b, c
<1> QED BY <1>2, <1>3

LEMMA LeaderLogs ==
    ASSUME NEW h, IsHistory(h), NEW t \in Term
    PROVE  LeaderLog(h, t) \in Log /\ Len(LeaderLog(h, t)) \in Nat
<1>1. CASE t = 0 BY <1>1 DEF LeaderLog, Log
<1>2. CASE t # 0
  <2>1. t \in 1..MaxTerm BY <1>2, Bounds DEF Term
  <2> QED BY <1>2, <2>1, LeadersHave DEF LeaderLog
<1> QED BY <1>1, <1>2

LEMMA LeaderLogTrue ==
    ASSUME NEW h, IsHistory(h), NEW t \in Term
    PROVE  True(h, LeaderLog(h, t))
<1>1. CASE t = 0 BY <1>1 DEF LeaderLog, Log, True
<1>2. CASE t # 0
  <2>1. t \in 1..MaxTerm BY <1>2, Bounds DEF Term
  <2> QED BY <1>2, <2>1, LeadersTrue DEF LeaderLog
<1> QED BY <1>1, <1>2

----------------------------------------------------------------------------
(* True logs *)

LEMMA TrueLog ==
    ASSUME NEW h, NEW a, True(h, a)
    PROVE  a \in Log /\ Len(a) \in Nat
BY LenProperties DEF True, Log

\* Log matching: true logs with one entry in common are the same up to there.
LEMMA TrueMatch ==
    ASSUME NEW h, NEW a, NEW b, True(h, a), True(h, b),
           NEW i \in Nat \ {0}, i <= Len(a), i <= Len(b), a[i] = b[i]
    PROVE  Agree(a, b, i)
<1>1. i \in 1..Len(a) /\ i \in 1..Len(b) BY TrueLog
<1>2. Agree(a, h[a[i]].log, i) /\ Agree(b, h[a[i]].log, i) BY <1>1 DEF True
<1> QED BY <1>2, AgreeSym, AgreeTrans

\* A log is true whose every part agrees with a true log.
LEMMA TrueBy ==
    ASSUME NEW h, NEW a \in Log,
           \A i \in 1..Len(a) : \E b : True(h, b) /\ Agree(a, b, i)
    PROVE  True(h, a)
<1>1. Len(a) \in Nat BY LenProperties DEF Log
<1>2. ASSUME NEW i \in 1..Len(a)
      PROVE  a[i] \in 1..MaxTerm /\ i <= Len(h[a[i]].log) /\ Agree(a, h[a[i]].log, i)
  <2>1. PICK b : True(h, b) /\ Agree(a, b, i) OBVIOUS
  <2>2. Len(b) \in Nat BY <2>1, TrueLog
  <2>3. i \in Nat \ {0} /\ i <= Len(b) /\ i \in 1..i /\ i \in 1..Len(b) BY <1>1, <2>1, <2>2 DEF Agree
  <2>4. a[i] = b[i] BY <2>1, <2>3 DEF Agree
  <2>5. b[i] \in 1..MaxTerm /\ i <= Len(h[b[i]].log) /\ Agree(b, h[b[i]].log, i)
    BY <2>1, <2>3 DEF True
  <2>6. Agree(a, h[a[i]].log, i) BY <2>1, <2>4, <2>5, AgreeTrans
  <2> QED BY <2>4, <2>5, <2>6
<1> QED BY <1>2 DEF True

\* The log a up to c and then as b is true if both are.
LEMMA TrueJoin ==
    ASSUME NEW h, NEW a, NEW b, NEW j \in Log, True(h, a), True(h, b),
           NEW c \in Nat, c <= Len(j), Agree(j, a, c),
           \A i \in (c + 1)..Len(j) : Agree(j, b, i)
    PROVE  True(h, j)
<1>1. Len(j) \in Nat /\ Len(a) \in Nat BY TrueLog, LenProperties DEF Log
<1>2. \A i \in 1..Len(j) : \E e : True(h, e) /\ Agree(j, e, i)
  <2> SUFFICES ASSUME NEW i \in 1..Len(j) PROVE \E e : True(h, e) /\ Agree(j, e, i) OBVIOUS
  <2>1. CASE i <= c
    <3>1. i \in Nat BY <1>1
    <3>2. Agree(j, a, i) BY <1>1, <2>1, <3>1, AgreeLess
    <3> QED BY <3>2
  <2>2. CASE ~(i <= c)
    <3>1. i \in (c + 1)..Len(j) BY <1>1, <2>2
    <3> QED BY <3>1
  <2> QED BY <2>1, <2>2
<1> QED BY <1>2, TrueBy

LEMMA TruePart ==
    ASSUME NEW h, NEW a \in Log, NEW b, True(h, b), Agree(a, b, Len(a))
    PROVE  True(h, a)
<1>1. Len(a) \in Nat /\ Len(a) <= Len(a) BY LenProperties DEF Log
<1>2. \A i \in (Len(a) + 1)..Len(a) : Agree(a, b, i) BY <1>1
<1> QED BY <1>1, <1>2, TrueJoin

\* A true log is no longer than MaxLog.
LEMMA TrueShort ==
    ASSUME NEW h, IsHistory(h), NEW a, True(h, a)
    PROVE  Len(a) <= MaxLog
<1>1. Len(a) \in Nat BY TrueLog
<1>2. CASE Len(a) = 0 BY <1>2, Bounds
<1>3. CASE Len(a) # 0
  <2>1. Len(a) \in 1..Len(a) BY <1>1, <1>3
  <2>2. a[Len(a)] \in 1..MaxTerm /\ Len(a) <= Len(h[a[Len(a)]].log) BY <2>1 DEF True
  <2>3. Len(h[a[Len(a)]].log) \in Nat /\ Len(h[a[Len(a)]].log) <= MaxLog BY <2>2, LeadersHave
  <2> QED BY <1>1, <2>2, <2>3, Bounds
<1> QED BY <1>2, <1>3

----------------------------------------------------------------------------
(* Points *)

\* What was sanctioned once stays so.
LEMMA SanctionedLonger ==
    ASSUME NEW h, NEW a, NEW b, NEW t \in Nat, NEW w \in Nat, t <= w, NEW c \in Nat, NEW d \in Nat,
           d <= c, Sanctioned(h, a, t, c), Agree(a, b, d), Len(a) \in Nat,
           IsHistory(h), w <= MaxTerm
    PROVE  Sanctioned(h, b, w, d)
<1>1. CASE c = 0 BY <1>1 DEF Sanctioned
<1>2. CASE c # 0
  <2>1. PICK k \in 1..t : c <= h[k].commit /\ Agree(a, h[k].log, c) BY <1>2 DEF Sanctioned
  <2>2. k \in 1..w /\ k \in 1..MaxTerm BY Bounds
  <2>3. h[k].commit \in Nat /\ Len(h[k].log) \in Nat BY <2>2, LeadersHave
  <2>4. Agree(a, h[k].log, d) BY <2>1, <2>3, AgreeLess
  <2>5. Agree(b, h[k].log, d) BY <2>4, AgreeSym, AgreeTrans
  <2>6. d <= h[k].commit BY <2>1, <2>3
  <2> QED BY <2>2, <2>5, <2>6 DEF Sanctioned
<1> QED BY <1>1, <1>2

\* Logs agree as far as both are sanctioned.
LEMMA SanctionedAgree ==
    ASSUME NEW h, IsHistory(h), NEW a \in Log, NEW b \in Log, NEW t \in Term, NEW w \in Term,
           NEW c \in Nat, NEW d \in Nat, c <= d,
           Sanctioned(h, a, t, c), Sanctioned(h, b, w, d)
    PROVE  Agree(a, b, c)
<1>0. Len(a) \in Nat /\ Len(b) \in Nat BY LenProperties DEF Log
<1>1. CASE c = 0 BY <1>1, AgreeNone
<1>2. CASE c # 0
  <2>1. PICK k \in 1..t : c <= h[k].commit /\ Agree(a, h[k].log, c) BY <1>2 DEF Sanctioned
  <2>2. PICK l \in 1..w : d <= h[l].commit /\ Agree(b, h[l].log, d) BY <1>2 DEF Sanctioned
  <2>3. k \in 1..MaxTerm /\ l \in 1..MaxTerm BY Bounds DEF Term
  <2>4. /\ h[k].log \in Log /\ Len(h[k].log) \in Nat /\ h[k].commit \in Nat
        /\ h[k].commit <= Len(h[k].log)
        /\ h[l].log \in Log /\ Len(h[l].log) \in Nat /\ h[l].commit \in Nat
        /\ h[l].commit <= Len(h[l].log)
    BY <2>3, LeadersHave
  <2>5. h[k].log # <<>> /\ h[l].log # <<>>
    <3>1. Len(h[k].log) # 0 /\ Len(h[l].log) # 0 BY <1>2, <2>1, <2>2, <2>4
    <3> QED BY <3>1, <2>4, EmptySeq
  <2>6. Agree(h[k].log, h[l].log, c)
    <3>1. CASE k <= l
      <4>1. Agree(h[k].log, h[l].log, h[k].commit) BY <2>3, <2>5, <3>1, LeadersComplete
      <4> QED BY <2>1, <2>4, <4>1, AgreeLess
    <3>2. CASE ~(k <= l)
      <4>1. l <= k BY <2>3, <3>2
      <4>2. Agree(h[l].log, h[k].log, h[l].commit) BY <2>3, <2>5, <4>1, LeadersComplete
      <4>3. c <= h[l].commit BY <2>2, <2>4
      <4>4. Agree(h[l].log, h[k].log, c) BY <2>4, <4>2, <4>3, AgreeLess
      <4> QED BY <4>4, AgreeSym
    <3> QED BY <3>1, <3>2
  <2>7. Agree(b, h[l].log, c) BY <1>0, <2>2, <2>4, AgreeLess
  <2> QED BY <2>1, <2>6, <2>7, AgreeSym, AgreeTrans
<1> QED BY <1>1, <1>2

\* The leader of a term that has a leader has all that was sanctioned before.
LEMMA LeaderHasSanctioned ==
    ASSUME NEW h, IsHistory(h), NEW a \in Log, NEW t \in 1..MaxTerm, NEW w \in Nat, w <= t,
           NEW c \in Nat, Sanctioned(h, a, w, c), h[t].log # <<>>
    PROVE  Agree(a, h[t].log, c)
<1>0. h[t].log \in Log /\ Len(h[t].log) \in Nat /\ Len(a) \in Nat BY LeadersHave, LenProperties DEF Log
<1>1. CASE c = 0 BY <1>0, <1>1, AgreeNone
<1>2. CASE c # 0
  <2>1. PICK k \in 1..w : c <= h[k].commit /\ Agree(a, h[k].log, c) BY <1>2 DEF Sanctioned
  <2>2. k \in 1..MaxTerm /\ k <= t BY Bounds
  <2>3. Agree(h[k].log, h[t].log, h[k].commit) BY <2>2, LeadersComplete
  <2>4. Len(h[k].log) \in Nat /\ h[k].commit \in Nat BY <2>2, LeadersHave
  <2>5. Agree(h[k].log, h[t].log, c) BY <1>0, <2>1, <2>3, <2>4, AgreeLess
  <2> QED BY <2>1, <2>5, AgreeTrans
<1> QED BY <1>1, <1>2

LEMMA EvolvesKeeps ==
    ASSUME NEW a \in Log, NEW b \in Log, NEW L \in Log, Evolves(a, b, L),
           NEW i \in Nat, Agree(a, L, i)
    PROVE  Agree(b, L, i)
<1>1. Len(a) \in Nat /\ Len(b) \in Nat /\ Len(L) \in Nat BY LenProperties DEF Log
<1>2. CASE a = b BY <1>2
<1>3. CASE Agree(b, L, Len(b)) /\ \A j \in 0..Len(a) : Agree(a, L, j) => j <= Len(b)
  <2>1. i \in 0..Len(a) BY <1>1 DEF Agree
  <2>2. i <= Len(b) BY <1>3, <2>1
  <2> QED BY <1>1, <1>3, <2>2, AgreeLess
<1> QED BY <1>2, <1>3 DEF Evolves

LEMMA EvolvesTrans ==
    ASSUME NEW a \in Log, NEW b \in Log, NEW d \in Log, NEW L \in Log,
           Evolves(a, b, L), Evolves(b, d, L)
    PROVE  Evolves(a, d, L)
<1>1. CASE a = b BY <1>1
<1>2. CASE b = d BY <1>2
<1>3. CASE a # b /\ b # d
  <2>1. Agree(d, L, Len(d)) /\ \A j \in 0..Len(b) : Agree(b, L, j) => j <= Len(d) BY <1>3 DEF Evolves
  <2>2. ASSUME NEW i \in 0..Len(a), Agree(a, L, i) PROVE i <= Len(d)
    <3>1. i \in Nat /\ Len(b) \in Nat BY LenProperties DEF Log
    <3>2. Agree(b, L, i) BY <2>2, <3>1, EvolvesKeeps
    <3>3. i \in 0..Len(b) BY <3>1, <3>2 DEF Agree
    <3> QED BY <2>1, <3>2, <3>3
  <2> QED BY <2>1, <2>2 DEF Evolves
<1> QED BY <1>1, <1>2, <1>3

LEMMA PointIs ==
    ASSUME NEW h, NEW x, Good(h, x)
    PROVE  /\ x.log \in Log /\ Len(x.log) \in Nat /\ x.Term \in Term /\ x.Term \in Nat
           /\ x.Commit \in Nat /\ x.Commit <= Len(x.log) /\ True(h, x.log)
           /\ x.Commit \in 0..Len(x.log) /\ x \in Point
<1>1. x \in Point /\ True(h, x.log) /\ x.Commit <= Len(x.log) BY DEF Good
<1>2. x.log \in Log /\ x.Term \in Term /\ x.Commit \in Index BY <1>1 DEF Point
<1>3. x.Term \in Nat /\ x.Commit \in Nat BY <1>2 DEF Term, Index
<1>4. Len(x.log) \in Nat BY <1>2, LenProperties DEF Log
<1> QED BY <1>1, <1>2, <1>3, <1>4

LEMMA LaterRefl ==
    ASSUME NEW h, NEW x, Good(h, x)
    PROVE  Later(h, x, x)
BY PointIs DEF Later, Evolves

LEMMA LaterTrans ==
    ASSUME NEW h, IsHistory(h), NEW x, NEW y, NEW z, Good(h, x), Good(h, y), Good(h, z),
           Later(h, x, y), Later(h, y, z)
    PROVE  Later(h, x, z)
<1>1. /\ x.Term \in Nat /\ y.Term \in Nat /\ z.Term \in Nat
      /\ x.Commit \in Nat /\ y.Commit \in Nat /\ z.Commit \in Nat
      /\ x.log \in Log /\ y.log \in Log /\ z.log \in Log /\ x.Term \in Term
  BY PointIs
<1>2. x.Term <= z.Term /\ x.Commit <= z.Commit BY <1>1 DEF Later
<1>3. ASSUME x.Term = z.Term PROVE Evolves(x.log, z.log, LeaderLog(h, x.Term))
  <2>1. x.Term = y.Term BY <1>1, <1>3 DEF Later
  <2>2. Evolves(x.log, y.log, LeaderLog(h, x.Term)) /\ Evolves(y.log, z.log, LeaderLog(h, x.Term))
    BY <1>3, <2>1 DEF Later
  <2>3. LeaderLog(h, x.Term) \in Log BY <1>1, LeaderLogs
  <2> QED BY <1>1, <2>2, <2>3, EvolvesTrans
<1> QED BY <1>2, <1>3 DEF Later

\* A later point has what was committed.
LEMMA LaterCommitted ==
    ASSUME NEW h, IsHistory(h), NEW x, NEW y, Good(h, x), Good(h, y), Later(h, x, y)
    PROVE  Agree(x.log, y.log, x.Commit)
<1>1. x.Commit <= y.Commit BY DEF Later
<1>2. Sanctioned(h, x.log, x.Term, x.Commit) /\ Sanctioned(h, y.log, y.Term, y.Commit) BY DEF Good
<1> QED BY <1>1, <1>2, PointIs, SanctionedAgree

\* A later point of the same term has what agreed with the leader.
LEMMA LaterKeeps ==
    ASSUME NEW h, IsHistory(h), NEW x, NEW y, Good(h, x), Good(h, y), Later(h, x, y),
           x.Term = y.Term, NEW i \in Nat, Agree(x.log, LeaderLog(h, x.Term), i)
    PROVE  Agree(y.log, LeaderLog(h, x.Term), i)
<1>1. Evolves(x.log, y.log, LeaderLog(h, x.Term)) BY DEF Later
<1> QED BY <1>1, PointIs, LeaderLogs, EvolvesKeeps

----------------------------------------------------------------------------
(* The invariant *)

Node == [u : Unstable, committed : Index, applying : Index, applied : Index,
         applyingSize : Nat, applyingPaused : BOOLEAN, Term : Term,
         after : Seq(Ack), prev : HardState, panic : BOOLEAN]

Storage == [log : Log, offset : Index, hs : HardState]

AppendMsg == [first : Nat \ {0}, entries : Log, hs : HardState, snapshot : Log,
              acks : Seq(Ack), term : Term, index : Index, logTerm : Term, responds : BOOLEAN]

ApplyMsg == [first : Nat \ {0}, entries : Log]

ApplyResult == [index : Nat, size : Nat]

\* The log as the node r reads it over the storage s (View).
Whole(r, s) == IF IsSnapshot(r.u.snapshot) THEN r.u.snapshot \o r.u.entries
               ELSE SubSeq(s.log, 1, r.u.offset - 1) \o r.u.entries

Now(r, s) == [log |-> Whole(r, s), Term |-> r.Term, Commit |-> r.committed]
Stored(s) == [log |-> s.log, Term |-> s.hs.Term, Commit |-> s.hs.Commit]

\* Acknowledgements of the term of a point are true of it.
Supports(h, x, ps) ==
    /\ ps \in Seq(Ack)
    /\ \A k \in 1..Len(ps) :
         /\ ps[k].term <= x.Term
         /\ ps[k].term = x.Term => Agree(x.log, LeaderLog(h, x.Term), ps[k].index)

\* The append m was asked for at the point x.
Asks(h, m, x) ==
    /\ m \in AppendMsg
    /\ m.hs.Term = x.Term /\ m.hs.Commit = x.Commit /\ m.term = x.Term
    /\ m.index = 0 \/ (m.index = Len(x.log) /\ m.logTerm = x.log[m.index])
    /\ Len(m.snapshot) <= x.Commit /\ Agree(m.snapshot, x.log, Len(m.snapshot))
    /\ Supports(h, x, m.acks)
    /\ IsSnapshot(m.snapshot) => m.responds

\* A snapshot and entries, written over the log of x, make the log of y, and
\* leave what x had committed.
Writes(x, snapshot, first, entries, y) ==
    LET base == IF IsSnapshot(snapshot) THEN snapshot ELSE x.log
    IN  /\ IsSnapshot(snapshot) => x.Commit < Len(snapshot)
        /\ IF entries = <<>> THEN y.log = base
           ELSE /\ x.Commit < first /\ first - 1 <= Len(base)
                /\ y.log = SubSeq(base, 1, first - 1) \o entries

\* The point x was before the append m, which was asked for at y.
Before(h, x, m, y) == Later(h, x, y) /\ (IsSnapshot(m.snapshot) => x.Commit < Len(m.snapshot))

UnstableOK(u) ==
    /\ u \in Unstable
    /\ u.offset <= u.offsetInProgress /\ u.offsetInProgress <= u.offset + Len(u.entries)
    /\ IsSnapshot(u.snapshot) => u.offset = Len(u.snapshot) + 1
    /\ ~IsSnapshot(u.snapshot) => ~u.snapshotInProgress
    /\ IsSnapshot(u.snapshot) /\ ~u.snapshotInProgress => u.offsetInProgress = u.offset

NodeOK(h, r, s) ==
    /\ r \in Node /\ ~r.panic /\ UnstableOK(r.u)
    /\ IsSnapshot(r.u.snapshot) => Len(r.u.snapshot) <= r.committed
    /\ ~IsSnapshot(r.u.snapshot) => r.u.offset - 1 <= Len(s.log)
    /\ r.applied <= r.applying /\ r.applying <= r.committed
    /\ Good(h, Now(r, s)) /\ Supports(h, Now(r, s), r.after)

StorageOK(h, r, s) ==
    /\ s \in Storage /\ s.offset <= s.hs.Commit /\ Good(h, Stored(s))
    /\ s.offset <= r.applying \/ (IsSnapshot(r.u.snapshot) /\ s.offset <= Len(r.u.snapshot))

\* D are the points of the appends R that are done, X the storage and the points
\* of the appends A that are not.
Past(h, s, R, A, D, X) ==
    /\ D \in Seq(Point) /\ X \in Seq(Point) /\ R \in Seq(AppendMsg) /\ A \in Seq(AppendMsg)
    /\ Len(D) = Len(R) /\ Len(X) = Len(A) + 1 /\ X[1] = Stored(s)
    /\ \A i \in 1..Len(D) : Good(h, D[i]) /\ Asks(h, R[i], D[i]) /\ Later(h, D[i], X[1])
    /\ \A i \in 1..Len(X) : Good(h, X[i])
    /\ \A i \in 1..Len(A) :
         /\ Asks(h, A[i], X[i + 1])
         /\ Writes(X[i], A[i].snapshot, A[i].first, A[i].entries, X[i + 1])
    /\ \A i, j \in 1..Len(D) : i < j => Before(h, D[i], R[j], D[j])
    /\ \A i, j \in 1..Len(X) : i < j => Before(h, X[i], A[j - 1], X[j])

Ahead(h, r, s, X) == \A i \in 1..Len(X) : Later(h, X[i], Now(r, s))

\* What is not in progress, written over the last point, makes the log.
Owed(r, s, X) ==
    Writes(X[Len(X)], nextSnapshot(r), r.u.offsetInProgress, nextEntries(r.u), Now(r, s))

\* The stable part of the log is on disk, and stays there: after the snapshot,
\* if there is one under way.
Settled(r, s, X) ==
    \A i \in 1..Len(X) :
      /\ Agree(X[i].log, Whole(r, s), r.applying)
      /\ ~IsSnapshot(r.u.snapshot) \/ Len(r.u.snapshot) <= X[i].Commit =>
           /\ Agree(X[i].log, Whole(r, s), r.u.offset - 1)
           /\ r.u.entries = <<>> => X[i].log = Whole(r, s)

\* A snapshot in progress is with the append thread, or its response is on the way.
Carried(r, R, A) ==
    r.u.snapshotInProgress =>
      \/ \E i \in 1..Len(R) : R[i].snapshot = r.u.snapshot
      \/ \E i \in 1..Len(A) : A[i].snapshot = r.u.snapshot

\* Snapshots come in order.
Expected(r, Q) ==
    \A i \in 1..Len(Q) : IsSnapshot(Q[i].snapshot) =>
      IsSnapshot(r.u.snapshot) /\ Len(Q[i].snapshot) <= Len(r.u.snapshot)

\* Before the snapshot, in its term, the log lacked what it brings.
Lacked(r, X) ==
    IsSnapshot(r.u.snapshot) =>
      \A i \in 1..Len(X) : X[i].Commit < Len(r.u.snapshot) /\ X[i].Term = r.Term =>
        ~Agree(X[i].log, r.u.snapshot, Len(r.u.snapshot))

Present(h, r, s, R, A, D, X) ==
    /\ Ahead(h, r, s, X) /\ Owed(r, s, X) /\ Settled(r, s, X)
    /\ Carried(r, R, A) /\ Expected(r, R) /\ Expected(r, A)
    /\ Lacked(r, D) /\ Lacked(r, X)

\* The state machine m has a part of the log w, and of every point; what the
\* apply thread is handed continues it.
Applies(r, w, ps, rs, m, X) ==
    /\ ps \in Seq(ApplyMsg) /\ rs \in Seq(ApplyResult)
    /\ m \in Log /\ Len(m) <= r.committed /\ r.applied <= Len(m) /\ Agree(m, w, Len(m))
    /\ \A i \in 1..Len(X) : Agree(m, X[i].log, Len(m))
    /\ \A k \in 1..Len(ps) :
         /\ ps[k].entries # <<>>
         /\ ps[k].first + Len(ps[k].entries) - 1 <= r.applying
         /\ \A j \in 1..Len(ps[k].entries) : ps[k].entries[j] = w[ps[k].first + j - 1]
         /\ \/ ps[k].first <= Len(m) + 1
            \/ k > 1 /\ ps[k].first <= ps[k - 1].first + Len(ps[k - 1].entries)
    /\ \/ r.applying <= Len(m)
       \/ ps # <<>> /\ r.applying < ps[Len(ps)].first + Len(ps[Len(ps)].entries)
    /\ \A k \in 1..Len(rs) : rs[k].index <= Len(m) /\ rs[k].index <= r.applying

\* What is on disk is what was acknowledged, and compacted entries were applied.
Kept(h, s, R, m, acked) ==
    /\ acked \in [1..MaxTerm -> Index]
    /\ \A t \in 1..MaxTerm : acked[t] > 0 =>
         t <= s.hs.Term /\ (t = s.hs.Term => Agree(s.log, LeaderLog(h, t), acked[t]))
    /\ s.offset <= Len(m)
    /\ \A k \in 1..Len(R) : Len(R[k].snapshot) <= Len(m)

\* The node r is right over the rest of the state.
Fits(h, r, s, R, A, ps, rs, m, D, X) ==
    /\ NodeOK(h, r, s) /\ StorageOK(h, r, s) /\ Past(h, s, R, A, D, X)
    /\ Present(h, r, s, R, A, D, X) /\ Applies(r, Whole(r, s), ps, rs, m, X)

LogInvariant ==
    /\ leaders \in Histories /\ resps = [append |-> resps.append, apply |-> resps.apply]
    /\ Kept(leaders, st, resps.append, sm, acks)
    /\ \E D, X : Fits(leaders, n, st, resps.append, appends, applies, resps.apply, sm, D, X)

LEMMA NodeIs ==
    ASSUME NEW r \in Node
    PROVE  /\ r.u \in Unstable /\ r.committed \in Nat /\ r.applying \in Nat /\ r.applied \in Nat
           /\ r.applyingSize \in Nat /\ r.applyingPaused \in BOOLEAN /\ r.Term \in Term
           /\ r.Term \in Nat /\ r.after \in Seq(Ack) /\ r.prev \in HardState /\ r.panic \in BOOLEAN
           /\ r.u.entries \in Log /\ Len(r.u.entries) \in Nat
           /\ r.u.snapshot \in Log /\ Len(r.u.snapshot) \in Nat
           /\ r.u.offset \in Nat \ {0} /\ r.u.offsetInProgress \in Nat \ {0}
           /\ r.u.snapshotInProgress \in BOOLEAN
<1>1. /\ r.u \in Unstable /\ r.committed \in Index /\ r.applying \in Index /\ r.applied \in Index
      /\ r.applyingSize \in Nat /\ r.applyingPaused \in BOOLEAN /\ r.Term \in Term
      /\ r.after \in Seq(Ack) /\ r.prev \in HardState /\ r.panic \in BOOLEAN
  BY DEF Node
<1>2. /\ r.u.entries \in Log /\ r.u.snapshot \in Log
      /\ r.u.offset \in Nat \ {0} /\ r.u.offsetInProgress \in Nat \ {0}
      /\ r.u.snapshotInProgress \in BOOLEAN
  BY <1>1 DEF Unstable
<1>3. Len(r.u.entries) \in Nat /\ Len(r.u.snapshot) \in Nat BY <1>2, LenProperties DEF Log
<1> QED BY <1>1, <1>2, <1>3 DEF Index, Term

LEMMA StorageIs ==
    ASSUME NEW s \in Storage
    PROVE  /\ s.log \in Log /\ Len(s.log) \in Nat /\ s.offset \in Nat /\ s.offset \in Index
           /\ s.hs \in HardState /\ s.hs.Term \in Term /\ s.hs.Term \in Nat
           /\ s.hs.Commit \in Nat /\ s.hs.Commit \in Index
<1>1. s.log \in Log /\ s.offset \in Index /\ s.hs \in HardState BY DEF Storage
<1>2. s.hs.Term \in Term /\ s.hs.Commit \in Index BY <1>1 DEF HardState
<1> QED BY <1>1, <1>2, LenProperties DEF Log, Index, Term

LEMMA SnapshotEmpty ==
    ASSUME NEW a \in Log
    PROVE  /\ IsSnapshot(a) <=> Len(a) # 0
           /\ (a = <<>>) <=> Len(a) = 0
<1>1. (a # <<>>) => Len(a) \in Nat \ {0} BY EmptySeq DEF Log
<1>2. a = <<>> => Len(a) = 0 OBVIOUS
<1> QED BY <1>1, <1>2 DEF IsSnapshot, None

----------------------------------------------------------------------------
(* The log as the node reads it *)

LEMMA WholeIs ==
    ASSUME NEW r \in Node, NEW s \in Storage, UnstableOK(r.u),
           ~IsSnapshot(r.u.snapshot) => r.u.offset - 1 <= Len(s.log)
    PROVE  LET w == Whole(r, s)
           IN  /\ w \in Log /\ Len(w) \in Nat /\ Len(w) = r.u.offset - 1 + Len(r.u.entries)
               /\ \A i \in 1..Len(r.u.entries) : w[r.u.offset - 1 + i] = r.u.entries[i]
               /\ IsSnapshot(r.u.snapshot) => Agree(w, r.u.snapshot, r.u.offset - 1)
               /\ ~IsSnapshot(r.u.snapshot) => Agree(w, s.log, r.u.offset - 1)
<1>1. /\ r.u.entries \in Log /\ Len(r.u.entries) \in Nat /\ r.u.snapshot \in Log
      /\ Len(r.u.snapshot) \in Nat /\ r.u.offset \in Nat \ {0} /\ s.log \in Log
      /\ Len(s.log) \in Nat
  BY NodeIs, StorageIs
<1>2. CASE IsSnapshot(r.u.snapshot)
  <2>1. Len(r.u.snapshot) = r.u.offset - 1 BY <1>1, <1>2 DEF UnstableOK
  <2> DEFINE w == Whole(r, s)
             c == r.u.offset - 1
  <2>2. w = r.u.snapshot \o r.u.entries BY <1>2 DEF Whole
  <2>3. /\ w \in Log /\ Len(w) = c + Len(r.u.entries) /\ Agree(w, r.u.snapshot, c)
        /\ \A i \in 1..Len(r.u.entries) : w[c + i] = r.u.entries[i]
    <3> DEFINE a == r.u.snapshot
               b == r.u.entries
    <3>1. a \in Log /\ b \in Log /\ w = a \o b /\ c = Len(a) BY <1>1, <2>1, <2>2
    <3> HIDE DEF a, b, c, w
    <3>2. /\ a \o b \in Log /\ Len(a \o b) = Len(a) + Len(b) /\ Agree(a \o b, a, Len(a))
          /\ \A k \in 1..Len(b) : (a \o b)[Len(a) + k] = b[k]
      BY <3>1, ConcatOf
    <3>3. /\ w \in Log /\ Len(w) = c + Len(b) /\ Agree(w, a, c)
          /\ \A i \in 1..Len(b) : w[c + i] = b[i]
      BY <3>1, <3>2
    <3> QED BY <3>3 DEF a, b
  <2>4. Len(w) \in Nat BY <1>1, <2>3
  <2> HIDE DEF w
  <2> QED BY <1>2, <2>3, <2>4 DEF w
<1>3. CASE ~IsSnapshot(r.u.snapshot)
  <2>1. r.u.offset - 1 \in 0..Len(s.log) BY <1>1, <1>3
  <2> DEFINE w == Whole(r, s)
             c == r.u.offset - 1
  <2>2. w = SubSeq(s.log, 1, c) \o r.u.entries BY <1>3 DEF Whole
  <2>3. /\ w \in Log /\ Len(w) = c + Len(r.u.entries) /\ Agree(w, s.log, c)
        /\ \A i \in 1..Len(r.u.entries) : w[c + i] = r.u.entries[i]
    <3> HIDE DEF w, c
    <3> QED BY <1>1, <2>1, <2>2, JoinOf DEF c
  <2>4. Len(w) \in Nat BY <1>1, <2>3
  <2> HIDE DEF w
  <2> QED BY <1>3, <2>3, <2>4 DEF w
<1> QED BY <1>2, <1>3

\* What the functions of log.go need to read the log right.
Readable(h, r, s) ==
    /\ NodeOK(h, r, s) /\ s \in Storage /\ s.offset <= r.committed
    /\ r.u.entries = <<>> /\ ~IsSnapshot(r.u.snapshot) => s.log = Whole(r, s)

LEMMA ReadableIs ==
    ASSUME NEW h, NEW r, NEW s, NodeOK(h, r, s), s \in Storage
    PROVE  /\ r \in Node /\ UnstableOK(r.u)
           /\ Whole(r, s) \in Log /\ Len(Whole(r, s)) \in Nat /\ True(h, Whole(r, s))
           /\ Len(Whole(r, s)) = r.u.offset - 1 + Len(r.u.entries)
           /\ r.committed \in Nat /\ r.committed <= Len(Whole(r, s))
           /\ Sanctioned(h, Whole(r, s), r.Term, r.committed)
<1>1. r \in Node /\ UnstableOK(r.u) /\ Good(h, Now(r, s)) BY DEF NodeOK
<1>2. ~IsSnapshot(r.u.snapshot) => r.u.offset - 1 <= Len(s.log) BY DEF NodeOK
<1>3. /\ Whole(r, s) \in Log /\ Len(Whole(r, s)) \in Nat
      /\ Len(Whole(r, s)) = r.u.offset - 1 + Len(r.u.entries)
  BY <1>1, <1>2, WholeIs
<1>4. /\ True(h, Whole(r, s)) /\ r.committed <= Len(Whole(r, s))
      /\ Sanctioned(h, Whole(r, s), r.Term, r.committed)
  BY <1>1 DEF Good, Now
<1> QED BY <1>1, <1>3, <1>4, NodeIs

LEMMA FitsReadable ==
    ASSUME NEW h, NEW r, NEW s, NEW R, NEW A, NEW ps, NEW rs, NEW m, NEW D, NEW X,
           Fits(h, r, s, R, A, ps, rs, m, D, X)
    PROVE  Readable(h, r, s)
<1>1. NodeOK(h, r, s) /\ s \in Storage /\ s.offset <= s.hs.Commit BY DEF Fits, StorageOK
<1>2. X[1] = Stored(s) /\ 1 \in 1..Len(X)
  <2>1. X[1] = Stored(s) /\ Len(X) = Len(A) + 1 /\ A \in Seq(AppendMsg) BY DEF Fits, Past
  <2>2. Len(A) \in Nat BY <2>1, LenProperties
  <2> QED BY <2>1, <2>2
<1>3. Ahead(h, r, s, X) /\ Settled(r, s, X) BY DEF Fits, Present
<1>4. Later(h, Stored(s), Now(r, s)) BY <1>2, <1>3 DEF Ahead
<1>5. s.hs.Commit <= r.committed BY <1>4 DEF Later, Stored, Now
<1>6. s.offset <= r.committed BY <1>1, <1>5, StorageIs, ReadableIs
<1>7. ASSUME r.u.entries = <<>>, ~IsSnapshot(r.u.snapshot) PROVE s.log = Whole(r, s)
  <2>1. X[1].log = Whole(r, s) BY <1>2, <1>3, <1>7 DEF Settled
  <2> QED BY <1>2, <2>1 DEF Stored
<1> QED BY <1>1, <1>6, <1>7 DEF Readable

LEMMA LastIs ==
    ASSUME NEW h, NEW r, NEW s, Readable(h, r, s)
    PROVE  lastIndex(r, s) = Len(Whole(r, s))
<1>1. NodeOK(h, r, s) /\ s \in Storage BY DEF Readable
<1>2. r \in Node /\ UnstableOK(r.u) /\ Len(Whole(r, s)) = r.u.offset - 1 + Len(r.u.entries)
  BY <1>1, ReadableIs
<1>3. r.u.entries \in Log /\ Len(r.u.entries) \in Nat /\ r.u.offset \in Nat /\ Len(r.u.snapshot) \in Nat
  BY <1>2, NodeIs
<1>4. CASE r.u.entries # <<>>
  BY <1>2, <1>3, <1>4 DEF lastIndex, maybeLastIndex
<1>5. CASE r.u.entries = <<>> /\ IsSnapshot(r.u.snapshot)
  <2>1. Len(r.u.entries) = 0 /\ r.u.offset = Len(r.u.snapshot) + 1
    BY <1>2, <1>5 DEF UnstableOK
  <2> QED BY <1>2, <1>3, <1>5, <2>1 DEF lastIndex, maybeLastIndex
<1>6. CASE r.u.entries = <<>> /\ ~IsSnapshot(r.u.snapshot)
  <2>1. s.log = Whole(r, s) BY <1>6 DEF Readable
  <2> QED BY <1>6, <2>1 DEF lastIndex
<1> QED BY <1>4, <1>5, <1>6

LEMMA FirstIs ==
    ASSUME NEW h, NEW r, NEW s, Readable(h, r, s)
    PROVE  firstIndex(r, s) \in Nat \ {0} /\ firstIndex(r, s) <= r.committed + 1
<1>1. NodeOK(h, r, s) /\ s \in Storage /\ s.offset <= r.committed BY DEF Readable
<1>2. r \in Node /\ (IsSnapshot(r.u.snapshot) => Len(r.u.snapshot) <= r.committed) BY <1>1 DEF NodeOK
<1>3. s.offset \in Nat /\ Len(r.u.snapshot) \in Nat /\ r.committed \in Nat BY <1>1, <1>2, NodeIs, StorageIs
<1> QED BY SMTT(60), <1>1, <1>2, <1>3 DEF firstIndex

LEMMA TermIs ==
    ASSUME NEW h, NEW r, NEW s, Readable(h, r, s),
           NEW i \in Nat, i + 1 >= firstIndex(r, s), i <= Len(Whole(r, s))
    PROVE  termAt(r, s, i) = IF i = 0 THEN 0 ELSE Whole(r, s)[i]
<1> DEFINE w == Whole(r, s)
           c == r.u.offset - 1
<1>1. NodeOK(h, r, s) /\ s \in Storage BY DEF Readable
<1>2. /\ r \in Node /\ UnstableOK(r.u) /\ Len(w) \in Nat
      /\ ~IsSnapshot(r.u.snapshot) => c <= Len(s.log)
  BY <1>1, ReadableIs DEF NodeOK
<1>3. /\ r.u.entries \in Log /\ Len(r.u.entries) \in Nat /\ r.u.offset \in Nat \ {0}
      /\ Len(r.u.snapshot) \in Nat /\ r.u.snapshot \in Log /\ Len(s.log) \in Nat
  BY <1>1, <1>2, NodeIs, StorageIs
<1>4. /\ Len(w) = c + Len(r.u.entries)
      /\ \A k \in 1..Len(r.u.entries) : w[c + k] = r.u.entries[k]
      /\ IsSnapshot(r.u.snapshot) => Agree(w, r.u.snapshot, c)
      /\ ~IsSnapshot(r.u.snapshot) => Agree(w, s.log, c)
  BY <1>1, <1>2, WholeIs
<1>5. lastIndex(r, s) = Len(w) BY LastIs
<1> HIDE DEF w
<1>6. CASE i >= r.u.offset
  <2>1. i < r.u.offset + Len(r.u.entries) /\ i + 1 - r.u.offset \in 1..Len(r.u.entries)
        /\ c + (i + 1 - r.u.offset) = i /\ i # 0
    <3>1. i <= c + Len(r.u.entries)
      <4>1. Len(w) = c + Len(r.u.entries) BY <1>4
      <4> QED BY <4>1 DEF w
    <3> DEFINE o == r.u.offset
               l == Len(r.u.entries)
    <3>2. o \in Nat \ {0} /\ l \in Nat /\ c = o - 1 /\ i >= o BY <1>3, <1>6
    <3> HIDE DEF o, l, c
    <3>3. i < o + l /\ i + 1 - o \in 1..l /\ c + (i + 1 - o) = i /\ i # 0 BY <3>1, <3>2 DEF l
    <3> QED BY <3>3 DEF o, l
  <2>2. w[i] = r.u.entries[i + 1 - r.u.offset] BY <1>4, <2>1
  <2>3. termAt(r, s, i) = r.u.entries[i + 1 - r.u.offset] BY <1>6, <2>1 DEF termAt
  <2> QED BY <2>1, <2>2, <2>3 DEF w
<1>7. CASE i < r.u.offset /\ IsSnapshot(r.u.snapshot)
  <2>1. i = Len(r.u.snapshot) /\ i = c /\ i # 0
    <3>1. firstIndex(r, s) = Len(r.u.snapshot) + 1 BY <1>7 DEF firstIndex
    <3>2. r.u.offset = Len(r.u.snapshot) + 1 BY <1>2, <1>7 DEF UnstableOK
    <3>3. Len(r.u.snapshot) # 0 BY <1>3, <1>7, SnapshotEmpty
    <3> QED BY <1>3, <1>7, <3>1, <3>2, <3>3
  <2>2. ~(i >= r.u.offset) BY <1>3, <1>7
  <2>3. termAt(r, s, i) = Last(r.u.snapshot) BY <1>7, <2>1, <2>2 DEF termAt
  <2>4. Last(r.u.snapshot) = r.u.snapshot[i] BY <2>1 DEF Last
  <2>5. w[i] = r.u.snapshot[i]
    <3>1. i \in 1..c BY <1>3, <2>1
    <3> QED BY <1>4, <1>7, <3>1 DEF Agree
  <2> QED BY <2>1, <2>3, <2>4, <2>5 DEF w
<1>8. CASE i < r.u.offset /\ ~IsSnapshot(r.u.snapshot)
  <2>1. ~(i >= r.u.offset) /\ ~(i + 1 < firstIndex(r, s)) /\ ~(i > lastIndex(r, s)) /\ i <= Len(s.log)
    <3>1. firstIndex(r, s) \in Nat BY FirstIs
    <3> QED BY SMTT(60), <1>2, <1>3, <1>5, <1>8, <3>1 DEF w
  <2>2. CASE i = 0
    <3>1. i \notin 1..Len(s.log) BY <2>2
    <3> QED BY <1>8, <2>1, <2>2, <3>1 DEF termAt
  <2>3. CASE i # 0
    <3>1. i \in 1..Len(s.log) /\ i \in 1..c BY <1>3, <1>8, <2>1, <2>3
    <3>2. termAt(r, s, i) = s.log[i] BY <1>8, <2>1, <3>1 DEF termAt
    <3>3. w[i] = s.log[i] BY <1>4, <1>8, <3>1 DEF Agree
    <3> QED BY <2>3, <3>2, <3>3 DEF w
  <2> QED BY <2>2, <2>3
<1> QED BY <1>3, <1>6, <1>7, <1>8

\* matchTerm, from the commit index on.
LEMMA MatchIs ==
    ASSUME NEW h, NEW r, NEW s, Readable(h, r, s),
           NEW i \in Nat, r.committed <= i, NEW t
    PROVE  matchTerm(r, s, i, t) <=>
             i <= Len(Whole(r, s)) /\ t = IF i = 0 THEN 0 ELSE Whole(r, s)[i]
<1>1. firstIndex(r, s) \in Nat /\ firstIndex(r, s) <= r.committed + 1 BY FirstIs
<1>2. NodeOK(h, r, s) /\ s \in Storage BY DEF Readable
<1>3. r.committed \in Nat /\ Len(Whole(r, s)) \in Nat BY <1>2, ReadableIs
<1>4. i + 1 >= firstIndex(r, s) BY <1>1, <1>3
<1>5. lastIndex(r, s) = Len(Whole(r, s)) BY LastIs
<1>6. CASE i <= Len(Whole(r, s))
  <2>1. termAt(r, s, i) = IF i = 0 THEN 0 ELSE Whole(r, s)[i] BY <1>4, <1>6, TermIs
  <2> QED BY <1>4, <1>5, <1>6, <2>1 DEF matchTerm
<1>7. CASE ~(i <= Len(Whole(r, s))) BY <1>5, <1>7 DEF matchTerm
<1> QED BY <1>6, <1>7

LEMMA JoinIs ==
    ASSUME NEW w \in Log, NEW a \in Log, NEW b \in Log, NEW c \in 0..Len(a),
           Len(w) = c + Len(b), Agree(w, a, c), \A k \in 1..Len(b) : w[c + k] = b[k]
    PROVE  w = SubSeq(a, 1, c) \o b
<1> DEFINE j == SubSeq(a, 1, c) \o b
<1>1. /\ j \in Log /\ Len(j) = c + Len(b) /\ Agree(j, a, c)
      /\ \A k \in 1..Len(b) : j[c + k] = b[k]
  BY JoinOf
<1>2. c \in Nat /\ Len(b) \in Nat /\ Len(a) \in Nat BY LenProperties DEF Log
<1> HIDE DEF j
<1>3. ASSUME NEW i \in 1..Len(w) PROVE w[i] = j[i]
  <2>1. CASE i <= c
    <3>1. i \in 1..c BY <1>2, <2>1
    <3> QED BY <1>1, <3>1 DEF Agree
  <2>2. CASE ~(i <= c)
    <3>1. i - c \in 1..Len(b) /\ c + (i - c) = i BY <1>2, <2>2
    <3>2. w[c + (i - c)] = b[i - c] /\ j[c + (i - c)] = b[i - c] BY <1>1, <3>1
    <3> QED BY <3>1, <3>2
  <2> QED BY <2>1, <2>2
<1>4. w = j BY <1>1, <1>3, SeqEqual DEF Log
<1> QED BY <1>4 DEF j

----------------------------------------------------------------------------
(* What the invariant says of the node's log and the points *)

LEMMA FitsIs ==
    ASSUME NEW h, IsHistory(h), NEW r, NEW s, NEW R, NEW A, NEW ps, NEW rs, NEW m, NEW D, NEW X,
           Fits(h, r, s, R, A, ps, rs, m, D, X)
    PROVE  /\ r \in Node /\ s \in Storage /\ ~r.panic /\ UnstableOK(r.u)
           /\ Whole(r, s) \in Log /\ Len(Whole(r, s)) \in Nat
           /\ Len(Whole(r, s)) = r.u.offset - 1 + Len(r.u.entries)
           /\ r.applied <= r.applying /\ r.applying <= r.committed /\ r.committed <= Len(Whole(r, s))
           /\ Good(h, Now(r, s)) /\ Good(h, Stored(s)) /\ Later(h, Stored(s), Now(r, s))
           /\ Len(D) \in Nat /\ Len(X) \in Nat \ {0} /\ X[1] = Stored(s)
           /\ \A i \in 1..Len(X) :
                /\ Good(h, X[i]) /\ Later(h, X[i], Now(r, s))
                /\ X[i].Commit \in Nat /\ X[i].Commit <= r.committed
           /\ \A i \in 1..Len(D) :
                /\ Good(h, D[i]) /\ Later(h, D[i], Now(r, s))
                /\ D[i].Commit \in Nat /\ D[i].Commit <= r.committed
<1>1. NodeOK(h, r, s) /\ StorageOK(h, r, s) /\ Past(h, s, R, A, D, X) /\ Ahead(h, r, s, X)
  BY DEF Fits, Present
<1>2. /\ r \in Node /\ s \in Storage /\ ~r.panic /\ UnstableOK(r.u)
      /\ r.applied <= r.applying /\ r.applying <= r.committed
      /\ Good(h, Now(r, s)) /\ Good(h, Stored(s))
  BY <1>1 DEF NodeOK, StorageOK
<1>3. /\ Whole(r, s) \in Log /\ Len(Whole(r, s)) \in Nat
      /\ Len(Whole(r, s)) = r.u.offset - 1 + Len(r.u.entries)
      /\ r.committed <= Len(Whole(r, s)) /\ r.committed \in Nat
  BY <1>1, <1>2, ReadableIs
<1>4. /\ A \in Seq(AppendMsg) /\ R \in Seq(AppendMsg)
      /\ Len(D) = Len(R) /\ Len(X) = Len(A) + 1 /\ X[1] = Stored(s)
      /\ \A i \in 1..Len(D) : Good(h, D[i]) /\ Later(h, D[i], X[1])
      /\ \A i \in 1..Len(X) : Good(h, X[i])
  BY <1>1 DEF Past
<1>5. Len(A) \in Nat /\ Len(R) \in Nat BY <1>4, LenProperties
<1>6. Len(D) \in Nat /\ Len(X) \in Nat \ {0} /\ 1 \in 1..Len(X) BY <1>4, <1>5
<1>7. \A i \in 1..Len(X) : Later(h, X[i], Now(r, s)) BY <1>1 DEF Ahead
<1>8. \A i \in 1..Len(D) : Later(h, D[i], Now(r, s)) BY <1>2, <1>4, <1>6, <1>7, LaterTrans
<1>9. Now(r, s).Commit = r.committed BY DEF Now
<1>10. ASSUME NEW x, Good(h, x), Later(h, x, Now(r, s)) PROVE x.Commit \in Nat /\ x.Commit <= r.committed
  BY <1>9, <1>10, PointIs DEF Later
<1> QED BY <1>2, <1>3, <1>4, <1>6, <1>7, <1>8, <1>10

\* What the last point and the writes that are owed to it leave.
LEMMA OwedIs ==
    ASSUME NEW h, IsHistory(h), NEW r, NEW s, NEW R, NEW A, NEW ps, NEW rs, NEW m, NEW D, NEW X,
           Fits(h, r, s, R, A, ps, rs, m, D, X)
    PROVE  LET x    == X[Len(X)]
               base == IF IsSnapshot(nextSnapshot(r)) THEN nextSnapshot(r) ELSE x.log
               o    == r.u.offsetInProgress
           IN  /\ base \in Log /\ Len(base) \in Nat /\ o \in Nat \ {0}
               /\ o - 1 <= Len(base) /\ Agree(base, Whole(r, s), o - 1)
               /\ o - 1 <= Len(Whole(r, s))
               /\ IsSnapshot(nextSnapshot(r)) => x.Commit < Len(base) /\ o = Len(base) + 1
               /\ nextEntries(r.u) = <<>> => o = Len(Whole(r, s)) + 1 /\ base = Whole(r, s)
               /\ nextEntries(r.u) # <<>> => x.Commit < o /\ o <= Len(Whole(r, s))
<1> DEFINE x == X[Len(X)]
           base == IF IsSnapshot(nextSnapshot(r)) THEN nextSnapshot(r) ELSE x.log
           o == r.u.offsetInProgress
           w == Whole(r, s)
           e == nextEntries(r.u)
           u == r.u
<1>1. /\ r \in Node /\ UnstableOK(r.u) /\ w \in Log /\ Len(w) \in Nat
      /\ Len(w) = u.offset - 1 + Len(u.entries) /\ Good(h, x) /\ x.Commit \in Nat
  <2>0. Len(X) \in Nat \ {0} BY FitsIs
  <2>1. Len(X) \in 1..Len(X) BY <2>0
  <2> QED BY <2>1, FitsIs
<1>2. /\ u.entries \in Log /\ Len(u.entries) \in Nat /\ u.offset \in Nat \ {0} /\ o \in Nat \ {0}
      /\ u.snapshot \in Log
  BY <1>1, NodeIs
<1>3. u.offset <= o /\ o <= u.offset + Len(u.entries) BY <1>1 DEF UnstableOK
<1>4. base \in Log /\ Len(base) \in Nat
  <2>1. base \in Log BY <1>1, <1>2, PointIs DEF nextSnapshot, None, IsSnapshot
  <2> QED BY <2>1, LenProperties DEF Log
<1>5. /\ IsSnapshot(nextSnapshot(r)) => x.Commit < Len(base)
      /\ e = <<>> => w = base
      /\ e # <<>> => x.Commit < o /\ o - 1 <= Len(base) /\ w = SubSeq(base, 1, o - 1) \o e
  BY DEF Fits, Present, Owed, Writes, Now
<1>6. e \in Log /\ Len(e) = u.offset + Len(u.entries) - o
  <2> DEFINE c == u.offset
             k == o - c + 1
             l == Len(u.entries)
  <2>1. k \in Nat \ {0} /\ l \in 0..l /\ k <= l + 1 /\ l - k + 1 = c + l - o
    <3>1. c \in Nat \ {0} /\ o \in Nat \ {0} /\ l \in Nat /\ c <= o /\ o <= c + l BY <1>2, <1>3
    <3> HIDE DEF c, o, l
    <3> QED BY <3>1
  <2>2. e = SubSeq(u.entries, k, l) BY DEF nextEntries
  <2> HIDE DEF e, k
  <2>3. e \in Log /\ Len(e) = l - k + 1 BY <1>2, <2>1, <2>2, PartOf
  <2> QED BY <2>1, <2>3
<1>7. ASSUME IsSnapshot(nextSnapshot(r)) PROVE o = Len(base) + 1
  <2>1. ~u.snapshotInProgress /\ base = u.snapshot /\ IsSnapshot(u.snapshot)
    BY <1>7 DEF nextSnapshot, IsSnapshot, None
  <2> QED BY <1>1, <2>1 DEF UnstableOK
<1>8. e = <<>> <=> Len(e) = 0 BY <1>6, SnapshotEmpty
<1> HIDE DEF base, x, w, e
<1>9. CASE e = <<>>
  <2>1. o = Len(w) + 1 /\ w = base
    <3> DEFINE k == u.offset
               l == Len(u.entries)
    <3>1. /\ Len(w) = k - 1 + l /\ k \in Nat \ {0} /\ l \in Nat /\ o \in Nat \ {0}
          /\ 0 = k + l - o /\ w = base
      BY <1>1, <1>2, <1>5, <1>6, <1>8, <1>9
    <3> HIDE DEF k, l, o
    <3> QED BY <3>1
  <2>2. Agree(base, w, o - 1) BY <1>1, <2>1, AgreeSame
  <2> QED BY <1>1, <1>2, <1>4, <1>5, <1>7, <1>9, <2>1, <2>2 DEF base, x, w, e
<1>10. CASE e # <<>>
  <2>1. o - 1 \in 0..Len(base) BY <1>2, <1>4, <1>5, <1>10
  <2>2. Agree(w, base, o - 1) BY <1>4, <1>5, <1>6, <1>10, <2>1, JoinOf
  <2>3. Agree(base, w, o - 1) BY <2>2, AgreeSym
  <2>4. o <= Len(w)
    <3>1. Len(e) \in Nat \ {0} BY <1>6, <1>8, <1>10, LenProperties DEF Log
    <3> QED BY SMTT(60), <1>1, <1>2, <1>6, <3>1
  <2> QED BY <1>1, <1>2, <1>4, <1>5, <1>7, <1>10, <2>1, <2>3, <2>4 DEF base, x, w, e
<1> QED BY <1>9, <1>10

----------------------------------------------------------------------------
(* Moves that leave the log as it is *)

LEMMA SameLog ==
    ASSUME NEW h, IsHistory(h), NEW r, NEW s, NEW R, NEW A, NEW ps, NEW rs, NEW m, NEW D, NEW X,
           Fits(h, r, s, R, A, ps, rs, m, D, X),
           NEW q \in Node, ~q.panic, q.u = r.u, q.applying = r.applying, q.applied = r.applied,
           r.Term <= q.Term, r.committed <= q.committed,
           Good(h, Now(q, s)), Supports(h, Now(q, s), q.after)
    PROVE  /\ Fits(h, q, s, R, A, ps, rs, m, D, X)
           /\ Whole(q, s) = Whole(r, s) /\ Later(h, Now(r, s), Now(q, s))
<1>1. /\ r \in Node /\ s \in Storage /\ UnstableOK(r.u) /\ Good(h, Now(r, s))
      /\ \A i \in 1..Len(X) : Good(h, X[i]) /\ Later(h, X[i], Now(r, s))
      /\ \A i \in 1..Len(D) : Good(h, D[i]) /\ Later(h, D[i], Now(r, s))
  BY FitsIs
<1>2. /\ r.committed \in Nat /\ q.committed \in Nat /\ r.Term \in Nat /\ q.Term \in Nat
      /\ r.applying \in Nat /\ q.applied \in Nat /\ Len(r.u.snapshot) \in Nat
  BY <1>1, NodeIs
<1>3. Whole(q, s) = Whole(r, s) /\ nextSnapshot(q) = nextSnapshot(r) BY DEF Whole, nextSnapshot
<1>4. /\ Now(r, s).log = Whole(r, s) /\ Now(q, s).log = Whole(r, s)
      /\ Now(r, s).Term = r.Term /\ Now(q, s).Term = q.Term
      /\ Now(r, s).Commit = r.committed /\ Now(q, s).Commit = q.committed
  BY <1>3 DEF Now
<1>5. Later(h, Now(r, s), Now(q, s)) BY <1>4 DEF Later, Evolves
<1>6. NodeOK(h, q, s)
  <2>1. NodeOK(h, r, s) BY DEF Fits
  <2>2. /\ UnstableOK(q.u)
        /\ IsSnapshot(q.u.snapshot) => Len(q.u.snapshot) <= r.committed
        /\ ~IsSnapshot(q.u.snapshot) => q.u.offset - 1 <= Len(s.log)
        /\ q.applied <= q.applying /\ q.applying <= r.committed
    BY <2>1 DEF NodeOK
  <2>3. /\ IsSnapshot(q.u.snapshot) => Len(q.u.snapshot) <= q.committed
        /\ q.applying <= q.committed
    BY <1>2, <2>2
  <2> QED BY <2>2, <2>3 DEF NodeOK
<1>7. StorageOK(h, q, s) BY DEF Fits, StorageOK
<1>8. Past(h, s, R, A, D, X) BY DEF Fits
<1>9. Ahead(h, q, s, X) BY <1>1, <1>5, LaterTrans DEF Ahead
<1>10. Owed(q, s, X)
  <2>1. Owed(r, s, X) BY DEF Fits, Present
  <2> QED BY <1>3, <1>4, <2>1 DEF Owed, Writes
<1>11. Settled(q, s, X)
  <2>1. Settled(r, s, X) BY DEF Fits, Present
  <2> QED BY <1>3, <2>1 DEF Settled
<1>12. Carried(q, R, A) /\ Expected(q, R) /\ Expected(q, A)
  BY DEF Fits, Present, Carried, Expected
<1>13. ASSUME NEW Y, Lacked(r, Y), \A i \in 1..Len(Y) : Good(h, Y[i]) /\ Later(h, Y[i], Now(r, s))
       PROVE  Lacked(q, Y)
  <2> SUFFICES ASSUME IsSnapshot(r.u.snapshot), NEW i \in 1..Len(Y),
                      Y[i].Commit < Len(r.u.snapshot), Y[i].Term = q.Term
               PROVE  ~Agree(Y[i].log, r.u.snapshot, Len(r.u.snapshot))
    BY DEF Lacked
  <2>1. Y[i].Term <= r.Term BY <1>4, <1>13 DEF Later
  <2>2. Y[i].Term = r.Term BY <1>2, <2>1
  <2> QED BY <1>13, <2>2 DEF Lacked
<1>14. Lacked(q, D) /\ Lacked(q, X)
  <2>1. Lacked(r, D) /\ Lacked(r, X) BY DEF Fits, Present
  <2> QED BY <1>1, <1>13, <2>1
<1>15. Applies(q, Whole(q, s), ps, rs, m, X)
  <2>1. Applies(r, Whole(r, s), ps, rs, m, X) BY DEF Fits
  <2>2. Len(m) <= q.committed
    <3>1. m \in Log /\ Len(m) <= r.committed BY <2>1 DEF Applies
    <3>2. Len(m) \in Nat BY <3>1, LenProperties DEF Log
    <3> QED BY <1>2, <3>1, <3>2
  <2> QED BY <1>3, <2>1, <2>2 DEF Applies
<1> QED BY <1>3, <1>5, <1>6, <1>7, <1>8, <1>9, <1>10, <1>11, <1>12, <1>14, <1>15 DEF Fits, Present

\* The leader of the node's term has what the node has committed.
LEMMA LeaderHas ==
    ASSUME NEW h, IsHistory(h), NEW r \in Node, NEW s, Good(h, Now(r, s)),
           NEW t \in 1..MaxTerm, r.Term <= t, h[t].log # <<>>
    PROVE  Agree(Whole(r, s), h[t].log, r.committed)
<1>1. Now(r, s).log = Whole(r, s) /\ Now(r, s).Term = r.Term /\ Now(r, s).Commit = r.committed
  BY DEF Now
<1>2. Sanctioned(h, Whole(r, s), r.Term, r.committed) BY <1>1 DEF Good
<1>3. Whole(r, s) \in Log /\ r.committed \in Nat /\ r.Term \in Nat BY <1>1, PointIs
<1> QED BY <1>2, <1>3, LeaderHasSanctioned

\* A change of the commit index keeps the acknowledgements that wait.
LEMMA AckIs ==
    ASSUME NEW a \in Ack
    PROVE  a.term \in Nat /\ a.index \in Nat /\ a.term \in 1..MaxTerm /\ a.index \in Index
<1>1. a.term \in 1..MaxTerm /\ a.index \in Index BY DEF Ack
<1> QED BY <1>1 DEF Index

LEMMA SupportsOf ==
    ASSUME NEW h, NEW x, NEW y, NEW ps, Supports(h, x, ps), x.Term \in Nat, y.Term \in Nat,
           x.Term <= y.Term,
           x.Term = y.Term => \A i \in Nat :
               Agree(x.log, LeaderLog(h, x.Term), i) => Agree(y.log, LeaderLog(h, x.Term), i)
    PROVE  Supports(h, y, ps)
<1>1. ps \in Seq(Ack) BY DEF Supports
<1>2. ASSUME NEW k \in 1..Len(ps)
      PROVE  /\ ps[k].term <= y.Term
             /\ ps[k].term = y.Term => Agree(y.log, LeaderLog(h, y.Term), ps[k].index)
  <2>1. ps[k] \in Ack BY <1>1, <1>2, ElementOfSeq
  <2>2. ps[k].term \in Nat /\ ps[k].index \in Nat BY <2>1, AckIs
  <2>3. ps[k].term <= x.Term BY <1>2 DEF Supports
  <2>4. ps[k].term = x.Term => Agree(x.log, LeaderLog(h, x.Term), ps[k].index) BY <1>2 DEF Supports
  <2>5. ASSUME ps[k].term = y.Term PROVE Agree(y.log, LeaderLog(h, y.Term), ps[k].index)
    <3>1. x.Term = y.Term BY <2>2, <2>3, <2>5
    <3> QED BY <2>2, <2>4, <2>5, <3>1
  <2>6. ps[k].term <= y.Term
    <3> DEFINE c == ps[k].term
    <3>1. c \in Nat /\ c <= x.Term BY <2>2, <2>3
    <3> HIDE DEF c
    <3>2. c <= y.Term BY <3>1
    <3> QED BY <3>2 DEF c
  <2> QED BY <2>5, <2>6
<1> QED BY <1>1, <1>2 DEF Supports

\* ack: what is acknowledged is the leader's.
LEMMA AckKeeps ==
    ASSUME NEW h, IsHistory(h), NEW r, NEW s, NEW R, NEW A, NEW ps, NEW rs, NEW m, NEW D, NEW X,
           Fits(h, r, s, R, A, ps, rs, m, D, X),
           r.Term \in 1..MaxTerm, NEW i \in Nat, Agree(Whole(r, s), h[r.Term].log, i)
    PROVE  /\ Fits(h, ack(r, i), s, R, A, ps, rs, m, D, X)
           /\ Later(h, Now(r, s), Now(ack(r, i), s))
<1> DEFINE q == ack(r, i)
           a == [term |-> r.Term, index |-> i]
<1>1. r \in Node /\ ~r.panic /\ Good(h, Now(r, s)) /\ r.committed \in Nat /\ r.Term \in Nat
  BY FitsIs, NodeIs
<1>2. i \in Index
  <2>1. Len(h[r.Term].log) \in Nat /\ Len(h[r.Term].log) <= MaxLog BY LeadersHave
  <2>2. i <= Len(h[r.Term].log) BY DEF Agree
  <2> QED BY <2>1, <2>2, Bounds DEF Index
<1>3. a \in Ack /\ a.term = r.Term /\ a.index = i BY <1>2 DEF Ack
<1>4. q = [r EXCEPT !.after = Append(r.after, a)] BY DEF ack
<1>5. r.after \in Seq(Ack) BY <1>1, NodeIs
<1> HIDE DEF a, q
<1>6. Append(r.after, a) \in Seq(Ack) BY <1>3, <1>5, AppendProperties
<1>7. /\ q \in Node /\ ~q.panic /\ q.u = r.u /\ q.applying = r.applying /\ q.applied = r.applied
      /\ q.Term = r.Term /\ q.committed = r.committed /\ q.after = Append(r.after, a)
  BY <1>1, <1>4, <1>6 DEF Node
<1>8. Now(q, s) = Now(r, s) BY <1>7 DEF Now, Whole
<1>9. Supports(h, Now(q, s), q.after)
  <2>1. Supports(h, Now(r, s), r.after) BY DEF Fits, NodeOK
  <2>2. Now(r, s).Term = r.Term /\ Now(r, s).log = Whole(r, s) BY DEF Now
  <2>3. LeaderLog(h, r.Term) = h[r.Term].log BY <1>1 DEF LeaderLog
  <2>4. /\ Len(q.after) = Len(r.after) + 1 /\ q.after[Len(r.after) + 1] = a
        /\ \A k \in 1..Len(r.after) : q.after[k] = r.after[k]
    BY <1>3, <1>5, <1>7, AppendProperties
  <2>5. Len(r.after) \in Nat BY <1>5, LenProperties
  <2>6. ASSUME NEW k \in 1..Len(q.after)
        PROVE  /\ q.after[k].term <= r.Term
               /\ q.after[k].term = r.Term => Agree(Whole(r, s), LeaderLog(h, r.Term), q.after[k].index)
    <3>1. CASE k = Len(r.after) + 1
      <4>1. q.after[k].term = r.Term /\ q.after[k].index = i BY <1>3, <2>4, <3>1
      <4> QED BY <1>1, <2>3, <4>1
    <3>2. CASE k # Len(r.after) + 1
      <4>1. k \in 1..Len(r.after) BY <2>4, <2>5, <3>2
      <4> QED BY <2>1, <2>2, <2>4, <4>1 DEF Supports
    <3> QED BY <3>1, <3>2
  <2> QED BY <1>6, <1>7, <1>8, <2>2, <2>6 DEF Supports
<1>10. r.Term <= q.Term /\ r.committed <= q.committed BY <1>1, <1>7
<1>11. Good(h, Now(q, s)) BY <1>1, <1>8
<1>12. Fits(h, q, s, R, A, ps, rs, m, D, X) /\ Later(h, Now(r, s), Now(q, s))
  BY <1>7, <1>9, <1>10, <1>11, SameLog
<1> QED BY <1>12 DEF q

\* The leader of term t has committed its log up to c.
Commits(h, t, c) == c \in Nat /\ c <= h[t].commit

\* commitTo: no further than the leader did, where the log is the leader's.
SameTerm(r, q) == q.Term = r.Term

LEMMA CommitKeeps ==
    ASSUME NEW h, IsHistory(h), NEW r, NEW s, NEW R, NEW A, NEW ps, NEW rs, NEW m, NEW D, NEW X,
           Fits(h, r, s, R, A, ps, rs, m, D, X),
           r.Term \in 1..MaxTerm, NEW c, Commits(h, r.Term, c),
           Agree(Whole(r, s), h[r.Term].log, c)
    PROVE  LET q == commitTo(r, s, c)
           IN  /\ Fits(h, q, s, R, A, ps, rs, m, D, X)
               /\ Whole(q, s) = Whole(r, s) /\ SameTerm(r, q)
               /\ Later(h, Now(r, s), Now(q, s))
<1> DEFINE q == commitTo(r, s, c)
<1>0. c \in Nat /\ c <= h[r.Term].commit BY DEF Commits
<1>1. /\ r \in Node /\ ~r.panic /\ Good(h, Now(r, s)) /\ r.committed \in Nat /\ r.Term \in Nat
      /\ Len(Whole(r, s)) \in Nat /\ r.Term \in Term
  BY FitsIs, NodeIs
<1>2. CASE r.committed >= c
  <2>1. q = r BY <1>2 DEF commitTo
  <2> QED BY <1>1, <2>1, LaterRefl DEF SameTerm
<1>3. CASE ~(r.committed >= c)
  <2>1. c <= Len(Whole(r, s)) BY <1>0 DEF Agree
  <2>2. lastIndex(r, s) = Len(Whole(r, s)) BY FitsReadable, LastIs
  <2>3. q = [r EXCEPT !.committed = c] BY <1>0, <1>1, <1>3, <2>1, <2>2 DEF commitTo
  <2>4. Len(h[r.Term].log) \in Nat /\ Len(h[r.Term].log) <= MaxLog BY LeadersHave
  <2>5. c <= Len(h[r.Term].log) BY <1>0 DEF Agree
  <2>6. c \in Index BY <1>0, <2>4, <2>5, Bounds DEF Index
  <2> HIDE DEF q
  <2>7. /\ q \in Node /\ ~q.panic /\ q.u = r.u /\ q.applying = r.applying /\ q.applied = r.applied
        /\ q.Term = r.Term /\ q.committed = c /\ q.after = r.after
    BY <1>1, <2>3, <2>6 DEF Node
  <2>8. Whole(q, s) = Whole(r, s) BY <2>7 DEF Whole
  <2>9. Now(q, s) = [log |-> Whole(r, s), Term |-> r.Term, Commit |-> c] BY <2>7, <2>8 DEF Now
  <2>10. Good(h, Now(q, s))
    <3>1. Whole(r, s) \in Log /\ True(h, Whole(r, s)) BY <1>1 DEF Good, Now, Point
    <3>2. Sanctioned(h, Whole(r, s), r.Term, c)
      <4>1. r.Term \in 1..r.Term BY <1>1
      <4> QED BY <1>0, <4>1 DEF Sanctioned
    <3>3. Now(q, s) \in Point BY <1>1, <2>6, <2>9, <3>1 DEF Point
    <3> QED BY <2>1, <2>9, <3>1, <3>2, <3>3 DEF Good
  <2>11. Supports(h, Now(q, s), q.after)
    <3>1. Supports(h, Now(r, s), r.after) BY DEF Fits, NodeOK
    <3>2. Now(q, s).log = Now(r, s).log /\ Now(q, s).Term = Now(r, s).Term BY <2>9 DEF Now
    <3> QED BY <2>7, <3>1, <3>2 DEF Supports
  <2>12. r.Term <= q.Term /\ r.committed <= q.committed BY <1>0, <1>1, <1>3, <2>7
  <2>13. Fits(h, q, s, R, A, ps, rs, m, D, X) /\ Later(h, Now(r, s), Now(q, s))
    BY <2>7, <2>10, <2>11, <2>12, SameLog
  <2> QED BY <2>7, <2>8, <2>13 DEF q, SameTerm
<1> QED BY <1>2, <1>3

\* adoptTerm: the log stays, and what waits to be acknowledged in an older term.
LEMMA AdoptKeeps ==
    ASSUME NEW h, IsHistory(h), NEW r, NEW s, NEW R, NEW A, NEW ps, NEW rs, NEW m, NEW D, NEW X,
           Fits(h, r, s, R, A, ps, rs, m, D, X), NEW t \in Term, r.Term <= t
    PROVE  LET q == adoptTerm(r, t)
           IN  /\ Fits(h, q, s, R, A, ps, rs, m, D, X) /\ q \in Node
               /\ Whole(q, s) = Whole(r, s) /\ q.Term = t
               /\ Later(h, Now(r, s), Now(q, s))
<1> DEFINE q == adoptTerm(r, t)
<1>1. /\ r \in Node /\ ~r.panic /\ Good(h, Now(r, s)) /\ r.committed \in Nat /\ r.Term \in Nat
      /\ r.committed \in Index /\ t \in Nat /\ t <= MaxTerm
  <2>1. r \in Node /\ ~r.panic /\ Good(h, Now(r, s)) BY FitsIs
  <2> QED BY <2>1, NodeIs, Bounds DEF Term, Node
<1>2. q = [r EXCEPT !.Term = t] BY DEF adoptTerm
<1> HIDE DEF q
<1>3. /\ q \in Node /\ ~q.panic /\ q.u = r.u /\ q.applying = r.applying /\ q.applied = r.applied
      /\ q.Term = t /\ q.committed = r.committed /\ q.after = r.after
  BY <1>1, <1>2 DEF Node
<1>4. Whole(q, s) = Whole(r, s) BY <1>3 DEF Whole
<1>5. /\ Now(q, s) = [log |-> Whole(r, s), Term |-> t, Commit |-> r.committed]
      /\ Now(r, s) = [log |-> Whole(r, s), Term |-> r.Term, Commit |-> r.committed]
  BY <1>3, <1>4 DEF Now
<1>6. Good(h, Now(q, s))
  <2>1. /\ Whole(r, s) \in Log /\ True(h, Whole(r, s)) /\ r.committed <= Len(Whole(r, s))
        /\ Sanctioned(h, Whole(r, s), r.Term, r.committed) /\ Len(Whole(r, s)) \in Nat
    BY SMTT(60), <1>1, <1>5, PointIs DEF Good
  <2>2. r.committed <= r.committed /\ Agree(Whole(r, s), Whole(r, s), r.committed)
    BY <1>1, <2>1, AgreeSame
  <2>3. Sanctioned(h, Whole(r, s), t, r.committed) BY <1>1, <2>1, <2>2, SanctionedLonger
  <2>4. Now(q, s) \in Point BY <1>1, <1>5, <2>1 DEF Point
  <2> QED BY <1>5, <2>1, <2>3, <2>4 DEF Good
<1>7. Supports(h, Now(q, s), q.after)
  <2>1. Supports(h, Now(r, s), q.after) BY <1>3 DEF Fits, NodeOK
  <2>2. /\ Now(q, s).log = Now(r, s).log /\ Now(q, s).Term = t /\ Now(r, s).Term = r.Term BY <1>5
  <2> QED BY <1>1, <2>1, <2>2, SupportsOf
<1>8. r.committed <= q.committed BY <1>1, <1>3
<1>9. Fits(h, q, s, R, A, ps, rs, m, D, X) /\ Later(h, Now(r, s), Now(q, s))
  BY <1>3, <1>6, <1>7, <1>8, SameLog
<1> QED BY <1>3, <1>4, <1>9 DEF q

----------------------------------------------------------------------------
(* Appending to the unstable log *)

LEMMA TruncateIs ==
    ASSUME NEW u, UnstableOK(u), NEW from \in Nat \ {0}, NEW ents \in Log, Len(ents) # 0,
           from <= u.offset + Len(u.entries), IsSnapshot(u.snapshot) => u.offset <= from
    PROVE  LET v == truncateAndAppend(u, from, ents)
           IN  /\ UnstableOK(v)
               /\ v.snapshot = u.snapshot /\ v.snapshotInProgress = u.snapshotInProgress
               /\ v.offset = Least(u.offset, from)
               /\ v.offsetInProgress = Least(u.offsetInProgress, from)
               /\ Len(v.entries) = from - v.offset + Len(ents)
               /\ \A i \in 1..(from - v.offset) : v.entries[i] = u.entries[i]
               /\ \A k \in 1..Len(ents) : v.entries[from - v.offset + k] = ents[k]
<1> DEFINE v == truncateAndAppend(u, from, ents)
           o == u.offset
           p == u.offsetInProgress
           e == u.entries
<1>1. /\ u \in Unstable /\ e \in Log /\ u.snapshot \in Log /\ u.snapshotInProgress \in BOOLEAN
      /\ o \in Nat \ {0} /\ p \in Nat \ {0} /\ o <= p /\ p <= o + Len(e)
      /\ u.snapshot \in Log
  BY DEF UnstableOK, Unstable
<1>2. Len(e) \in Nat /\ Len(ents) \in Nat \ {0} BY <1>1, LenProperties DEF Log
<1>3. ASSUME NEW f \in Log, NEW a \in Nat \ {0}, NEW b \in Nat \ {0},
             v = [u EXCEPT !.entries = f, !.offset = a, !.offsetInProgress = b],
             a = Least(o, from), b = Least(p, from), Len(f) = from - a + Len(ents)
      PROVE  /\ UnstableOK(v) /\ v.entries = f /\ v.offset = a /\ v.offsetInProgress = b
             /\ v.snapshot = u.snapshot /\ v.snapshotInProgress = u.snapshotInProgress
  <2> HIDE DEF v
  <2>1. /\ v.entries = f /\ v.offset = a /\ v.offsetInProgress = b
        /\ v.snapshot = u.snapshot /\ v.snapshotInProgress = u.snapshotInProgress
        /\ v \in Unstable
    BY <1>1, <1>3 DEF Unstable
  <2> HIDE DEF o, p, e
  <2>2. a <= b /\ b <= a + Len(f) BY <1>1, <1>2, <1>3 DEF Least
  <2>3. ASSUME IsSnapshot(u.snapshot)
        PROVE  a = Len(u.snapshot) + 1 /\ (~u.snapshotInProgress => b = a)
    <3>1. o = Len(u.snapshot) + 1 /\ (~u.snapshotInProgress => p = o) /\ o <= from
      BY <2>3 DEF UnstableOK, o, p
    <3>2. a = o /\ (p = o => b = a) BY <1>1, <1>3, <3>1 DEF Least
    <3> QED BY <3>1, <3>2
  <2>4. ~IsSnapshot(u.snapshot) => ~u.snapshotInProgress BY DEF UnstableOK
  <2> QED BY <2>1, <2>2, <2>3, <2>4 DEF UnstableOK
<1>4. CASE from = o + Len(e)
  <2>1. v = [u EXCEPT !.entries = e \o ents] BY <1>4 DEF truncateAndAppend
  <2>2. v = [u EXCEPT !.entries = e \o ents, !.offset = o, !.offsetInProgress = p]
    BY <1>1, <2>1 DEF Unstable
  <2> HIDE DEF v, o, p, e
  <2>3. /\ e \o ents \in Log /\ Len(e \o ents) = Len(e) + Len(ents) /\ Agree(e \o ents, e, Len(e))
        /\ \A k \in 1..Len(ents) : (e \o ents)[Len(e) + k] = ents[k]
    BY <1>1, ConcatOf
  <2>4. o = Least(o, from) /\ p = Least(p, from) /\ from - o = Len(e)
    BY <1>1, <1>2, <1>4 DEF Least
  <2>5. Len(e \o ents) = from - o + Len(ents) BY <2>3, <2>4
  <2>6. /\ UnstableOK(v) /\ v.entries = e \o ents /\ v.offset = o /\ v.offsetInProgress = p
        /\ v.snapshot = u.snapshot /\ v.snapshotInProgress = u.snapshotInProgress
    BY <1>1, <1>3, <2>2, <2>3, <2>4, <2>5
  <2>7. \A i \in 1..(from - o) : v.entries[i] = e[i] BY <2>3, <2>4, <2>6 DEF Agree
  <2>8. \A k \in 1..Len(ents) : v.entries[from - o + k] = ents[k] BY <2>3, <2>4, <2>6
  <2> QED BY <2>4, <2>5, <2>6, <2>7, <2>8 DEF v, o, p, e
<1>5. CASE from # o + Len(e) /\ from <= o
  <2>1. v = [u EXCEPT !.entries = ents, !.offset = from, !.offsetInProgress = from]
    BY <1>5 DEF truncateAndAppend
  <2> HIDE DEF v, o, p, e
  <2>2. from = Least(o, from) /\ from = Least(p, from) /\ Len(ents) = from - from + Len(ents)
    BY <1>1, <1>2, <1>5 DEF Least
  <2>3. /\ UnstableOK(v) /\ v.entries = ents /\ v.offset = from /\ v.offsetInProgress = from
        /\ v.snapshot = u.snapshot /\ v.snapshotInProgress = u.snapshotInProgress
    BY <1>3, <2>1, <2>2
  <2>4. from - from = 0 /\ \A k \in 1..Len(ents) : from - from + k = k BY <1>2
  <2> QED BY <2>2, <2>3, <2>4 DEF v, o, p, e
<1>6. CASE from # o + Len(e) /\ ~(from <= o)
  <2> DEFINE f == SubSeq(e, 1, from - o) \o ents
  <2>1. v = [u EXCEPT !.entries = f, !.offsetInProgress = Least(p, from)]
    BY <1>6 DEF truncateAndAppend
  <2>2. v = [u EXCEPT !.entries = f, !.offset = o, !.offsetInProgress = Least(p, from)]
    BY <1>1, <2>1 DEF Unstable
  <2> HIDE DEF v, o, p, e
  <2>3. from - o \in 0..Len(e) /\ o = Least(o, from) /\ Least(p, from) \in Nat \ {0}
    BY <1>1, <1>2, <1>6 DEF Least, o, e
  <2>4. /\ f \in Log /\ Len(f) = from - o + Len(ents) /\ Agree(f, e, from - o)
        /\ \A k \in 1..Len(ents) : f[from - o + k] = ents[k]
    BY <1>1, <2>3, JoinOf
  <2> HIDE DEF f
  <2>5. /\ UnstableOK(v) /\ v.entries = f /\ v.offset = o /\ v.offsetInProgress = Least(p, from)
        /\ v.snapshot = u.snapshot /\ v.snapshotInProgress = u.snapshotInProgress
    BY <1>1, <1>3, <2>2, <2>3, <2>4
  <2>6. \A i \in 1..(from - o) : v.entries[i] = e[i] BY <2>4, <2>5 DEF Agree
  <2> QED BY <2>3, <2>4, <2>5, <2>6 DEF v, o, p, e
<1> QED BY <1>4, <1>5, <1>6

\* Where an entry is among those from an index on, and among those from an earlier one on.
LEMMA Position ==
    \A from \in Nat \ {0}, last \in Nat, i \in Nat :
      from <= last /\ i <= last /\ ~(i <= from - 1) =>
        i - from + 1 \in 1..(last - from + 1) /\ from - 1 + (i - from + 1) = i
OBVIOUS

LEMMA PositionFrom ==
    \A from \in Nat \ {0}, last \in Nat, o \in Nat, i, k, l \in Nat :
      /\ from <= last /\ o <= from /\ l = from - o + (last - from + 1)
      /\ k \in 1..(last - from + 1) /\ from - 1 + k = i
      => from - o + k \in 1..l /\ o - 1 + (from - o + k) = i
BY SMTT(60)

\* Entries of the leader's log, from the first that the log lacks on.
LEMMA AppendIs ==
    ASSUME NEW h, IsHistory(h), NEW r, NEW s, NodeOK(h, r, s), s \in Storage,
           r.Term \in 1..MaxTerm, NEW from \in Nat \ {0}, NEW last \in Nat, from <= last,
           last <= Len(h[r.Term].log), r.committed < from, from <= Len(Whole(r, s)) + 1,
           Agree(Whole(r, s), h[r.Term].log, from - 1),
           from = Len(Whole(r, s)) + 1 \/ Whole(r, s)[from] # h[r.Term].log[from],
           NEW q, q = append(r, from, SubSeq(h[r.Term].log, from, last))
    PROVE  /\ NodeOK(h, q, s)
           /\ Whole(q, s) \in Log /\ Len(Whole(q, s)) = last
           /\ Agree(Whole(q, s), h[r.Term].log, last) /\ Agree(Whole(q, s), Whole(r, s), from - 1)
           /\ Later(h, Now(r, s), Now(q, s))
           /\ q.u.snapshot = r.u.snapshot /\ q.u.snapshotInProgress = r.u.snapshotInProgress
           /\ q.u.offset = Least(r.u.offset, from)
           /\ q.u.offsetInProgress = Least(r.u.offsetInProgress, from)
           /\ q.u.entries # <<>>
           /\ q.committed = r.committed /\ q.applying = r.applying /\ q.applied = r.applied
           /\ q.Term = r.Term
<1> DEFINE L == h[r.Term].log
           ents == SubSeq(L, from, last)
           w == Whole(r, s)
           v == Whole(q, s)
           o == q.u.offset
           p == r.u.offset
           l == Len(r.u.entries)
<1>1. /\ r \in Node /\ ~r.panic /\ UnstableOK(r.u) /\ Good(h, Now(r, s))
      /\ Supports(h, Now(r, s), r.after)
      /\ r.applied <= r.applying /\ r.applying <= r.committed
      /\ IsSnapshot(r.u.snapshot) => Len(r.u.snapshot) <= r.committed
      /\ ~IsSnapshot(r.u.snapshot) => r.u.offset - 1 <= Len(s.log)
  BY DEF NodeOK
<1>2. /\ w \in Log /\ Len(w) \in Nat /\ Len(w) = r.u.offset - 1 + Len(r.u.entries)
      /\ r.u.offset \in Nat \ {0} /\ r.u.offsetInProgress \in Nat \ {0} /\ Len(r.u.entries) \in Nat
      /\ r.committed \in Nat /\ r.Term \in Nat /\ Len(r.u.snapshot) \in Nat
      /\ Sanctioned(h, w, r.Term, r.committed) /\ True(h, w)
  BY <1>1, ReadableIs, NodeIs
<1>3. L \in Log /\ Len(L) \in Nat /\ True(h, L) /\ Len(s.log) \in Nat
  BY LeadersHave, LeadersTrue, StorageIs
<1>4. /\ ents \in Log /\ Len(ents) = last - from + 1
      /\ \A k \in 1..(last - from + 1) : ents[k] = L[from - 1 + k]
  <2>1. last <= Len(L) OBVIOUS
  <2>2. ents = SubSeq(L, from, last) OBVIOUS
  <2> HIDE DEF L, ents
  <2>3. last \in 0..Len(L) /\ from <= last + 1 BY <1>3, <2>1
  <2> QED BY <1>3, <2>2, <2>3, PartOf
<1>5. q = [r EXCEPT !.u = truncateAndAppend(r.u, from, ents)]
  <2>1. ~(from - 1 < r.committed) BY <1>2
  <2> QED BY <2>1 DEF append
<1> HIDE DEF L, ents, w, v
<1>6. Len(ents) # 0 BY <1>4
<1>7. IsSnapshot(r.u.snapshot) => r.u.offset <= from
  <2>1. IsSnapshot(r.u.snapshot) => r.u.offset = Len(r.u.snapshot) + 1 BY <1>1 DEF UnstableOK
  <2> QED BY SMTT(60), <1>1, <1>2, <2>1
<1>8. from <= r.u.offset + Len(r.u.entries)
  <2>1. from <= Len(w) + 1 BY DEF w
  <2>2. Len(w) = p - 1 + l /\ p \in Nat /\ l \in Nat BY <1>2
  <2> HIDE DEF p, l
  <2>3. from <= p + l BY <2>1, <2>2
  <2> QED BY <2>3 DEF p, l
<1>9. /\ UnstableOK(q.u) /\ q.u \in Unstable
      /\ q.u.snapshot = r.u.snapshot /\ q.u.snapshotInProgress = r.u.snapshotInProgress
      /\ q.u.offset = Least(r.u.offset, from)
      /\ q.u.offsetInProgress = Least(r.u.offsetInProgress, from)
      /\ Len(q.u.entries) = from - q.u.offset + Len(ents)
      /\ \A i \in 1..(from - q.u.offset) : q.u.entries[i] = r.u.entries[i]
      /\ \A k \in 1..Len(ents) : q.u.entries[from - q.u.offset + k] = ents[k]
  <2> DEFINE t == truncateAndAppend(r.u, from, ents)
  <2>1. /\ UnstableOK(t)
        /\ t.snapshot = r.u.snapshot /\ t.snapshotInProgress = r.u.snapshotInProgress
        /\ t.offset = Least(r.u.offset, from)
        /\ t.offsetInProgress = Least(r.u.offsetInProgress, from)
        /\ Len(t.entries) = from - t.offset + Len(ents)
        /\ \A i \in 1..(from - t.offset) : t.entries[i] = r.u.entries[i]
        /\ \A k \in 1..Len(ents) : t.entries[from - t.offset + k] = ents[k]
    <3> DEFINE u == r.u
    <3>1. /\ UnstableOK(u) /\ ents \in Log /\ from <= u.offset + Len(u.entries)
          /\ IsSnapshot(u.snapshot) => u.offset <= from
      BY <1>1, <1>4, <1>7, <1>8
    <3> HIDE DEF u, t
    <3>2. t = truncateAndAppend(u, from, ents) BY DEF t, u
    <3>3. /\ UnstableOK(t)
          /\ t.snapshot = u.snapshot /\ t.snapshotInProgress = u.snapshotInProgress
          /\ t.offset = Least(u.offset, from)
          /\ t.offsetInProgress = Least(u.offsetInProgress, from)
          /\ Len(t.entries) = from - t.offset + Len(ents)
          /\ \A i \in 1..(from - t.offset) : t.entries[i] = u.entries[i]
          /\ \A k \in 1..Len(ents) : t.entries[from - t.offset + k] = ents[k]
      BY SMTT(60), <1>6, <3>1, <3>2, TruncateIs
    <3> QED BY <3>3 DEF u
  <2>2. q.u = t BY <1>1, <1>5 DEF Node
  <2> HIDE DEF t
  <2>3. t \in Unstable BY <2>1 DEF UnstableOK
  <2> QED BY <2>1, <2>2, <2>3
<1>10. /\ q \in Node /\ ~q.panic
       /\ q.committed = r.committed /\ q.applying = r.applying /\ q.applied = r.applied
       /\ q.Term = r.Term /\ q.after = r.after
  BY <1>1, <1>5, <1>9 DEF Node
<1>11. q.u.offset \in Nat \ {0} /\ q.u.offset <= from /\ q.u.offset <= r.u.offset
  <2>1. o = Least(p, from) /\ p \in Nat \ {0} BY <1>2, <1>9
  <2> HIDE DEF o, p
  <2>2. o \in Nat \ {0} /\ o <= from /\ o <= p BY SMTT(60), <2>1 DEF Least
  <2> QED BY SMTT(60), <2>2 DEF o, p
<1>12. ~IsSnapshot(q.u.snapshot) => q.u.offset - 1 <= Len(s.log)
  <2> SUFFICES ASSUME ~IsSnapshot(r.u.snapshot) PROVE o - 1 <= Len(s.log) BY <1>9
  <2>1. p - 1 <= Len(s.log) /\ o <= p /\ o \in Nat /\ p \in Nat BY SMTT(60), <1>1, <1>2, <1>11
  <2> HIDE DEF o, p
  <2> QED BY <1>3, <2>1
<1>13. /\ v \in Log /\ Len(v) \in Nat /\ Len(v) = q.u.offset - 1 + Len(q.u.entries)
       /\ \A i \in 1..Len(q.u.entries) : v[q.u.offset - 1 + i] = q.u.entries[i]
       /\ IsSnapshot(r.u.snapshot) => Agree(v, r.u.snapshot, q.u.offset - 1)
       /\ ~IsSnapshot(r.u.snapshot) => Agree(v, s.log, q.u.offset - 1)
  BY <1>9, <1>10, <1>12, WholeIs DEF v
<1>14. /\ \A i \in 1..Len(r.u.entries) : w[r.u.offset - 1 + i] = r.u.entries[i]
       /\ IsSnapshot(r.u.snapshot) => Agree(w, r.u.snapshot, r.u.offset - 1)
       /\ ~IsSnapshot(r.u.snapshot) => Agree(w, s.log, r.u.offset - 1)
  BY <1>1, WholeIs DEF w
<1>15. Len(v) = last
  <2> DEFINE k == Len(q.u.entries)
  <2>1. Len(v) = o - 1 + k /\ k = from - o + (last - from + 1) /\ o \in Nat BY <1>4, <1>9, <1>11, <1>13
  <2> HIDE DEF o, k
  <2> QED BY SMTT(60), <2>1
<1>16. Agree(v, w, from - 1)
  <2>1. from - 1 <= Len(w) /\ from - 1 <= Len(v)
    <3>1. from <= Len(w) + 1 BY DEF w
    <3> QED BY <1>2, <1>15, <3>1
  <2>2. ASSUME NEW i \in 1..(from - 1) PROVE v[i] = w[i]
    <3>1. CASE i < o
      <4>1. i \in 1..(o - 1) /\ i \in 1..(p - 1)
        <5>1. o \in Nat /\ p \in Nat /\ o <= p BY <1>2, <1>11
        <5> HIDE DEF o, p
        <5> QED BY <3>1, <5>1
      <4> QED BY <1>13, <1>14, <4>1 DEF Agree
    <3>2. CASE ~(i < o)
      <4> DEFINE k == i - o + 1
      <4>1. k \in 1..(from - o) /\ o - 1 + k = i
        <5>1. o \in Nat BY <1>11
        <5> HIDE DEF o
        <5> QED BY <3>2, <5>1
      <4>2. o = p
        <5>1. o = p \/ o = from BY <1>9 DEF Least
        <5> QED BY SMTT(60), <1>11, <3>2, <5>1
      <4>3. k \in 1..Len(r.u.entries)
        <5>1. p \in Nat /\ from <= p + Len(r.u.entries) BY <1>2, <1>8
        <5> HIDE DEF p, o, k
        <5> QED BY <1>2, <4>1, <4>2, <5>1
      <4>4. k \in 1..Len(q.u.entries)
        <5>1. Len(q.u.entries) = from - o + Len(ents) /\ Len(ents) \in Nat
          BY <1>4, <1>9, LenProperties DEF Log
        <5> HIDE DEF o, k
        <5> QED BY SMTT(60), <1>11, <4>1, <5>1 DEF o
      <4> HIDE DEF k
      <4>5. v[o - 1 + k] = q.u.entries[k] BY <1>13, <4>4
      <4>6. w[p - 1 + k] = r.u.entries[k] BY <1>14, <4>3
      <4>7. q.u.entries[k] = r.u.entries[k] BY <1>9, <4>1
      <4> QED BY <4>1, <4>2, <4>5, <4>6, <4>7
    <3> QED BY <3>1, <3>2
  <2> QED BY <2>1, <2>2 DEF Agree
<1>17. Agree(v, L, last)
  <2>1. Agree(w, L, from - 1) BY DEF w, L
  <2>2. Agree(v, L, from - 1) BY <1>16, <2>1, AgreeTrans
  <2>3. last <= Len(L) /\ last <= Len(v) BY <1>15 DEF L
  <2>4. ASSUME NEW i \in 1..last PROVE v[i] = L[i]
    <3>1. CASE i <= from - 1
      <4>1. i \in 1..(from - 1) BY <3>1
      <4> QED BY <2>2, <4>1 DEF Agree
    <3>2. CASE ~(i <= from - 1)
      <4> DEFINE k == i - from + 1
      <4>1. k \in 1..(last - from + 1) /\ from - 1 + k = i
        <5>1. i \in Nat /\ i <= last BY <2>4
        <5> QED BY <3>2, <5>1, Position
      <4>2. ents[k] = L[i] BY <1>4, <4>1
      <4>3. q.u.entries[from - o + k] = ents[k] BY <1>4, <1>9, <4>1
      <4>4. from - o + k \in 1..Len(q.u.entries) /\ o - 1 + (from - o + k) = i
        <5>1. Len(q.u.entries) = from - o + (last - from + 1) BY <1>4, <1>9
        <5>2. o \in Nat /\ o <= from BY SMTT(60), <1>11
        <5>3. Len(q.u.entries) \in Nat BY SMTT(60), <1>9, LenProperties DEF Unstable, Log
        <5> HIDE DEF o, k
        <5>4. k \in Nat /\ i \in Nat /\ k \in 1..(last - from + 1) /\ from - 1 + k = i BY <2>4, <4>1
        <5> QED BY <5>1, <5>2, <5>3, <5>4, PositionFrom
      <4> HIDE DEF k
      <4>5. v[o - 1 + (from - o + k)] = q.u.entries[from - o + k] BY <1>13, <4>4
      <4> QED BY <4>2, <4>3, <4>4, <4>5
    <3> QED BY <3>1, <3>2
  <2> QED BY <2>3, <2>4 DEF Agree
<1>18. /\ Now(q, s) = [log |-> v, Term |-> r.Term, Commit |-> r.committed]
       /\ Now(r, s) = [log |-> w, Term |-> r.Term, Commit |-> r.committed]
  BY <1>10 DEF Now, v, w
<1>19. Evolves(w, v, LeaderLog(h, r.Term))
  <2>1. LeaderLog(h, r.Term) = L BY <1>2 DEF LeaderLog, L
  <2>2. ASSUME NEW i \in 0..Len(w), Agree(w, L, i) PROVE i <= last
    <3>1. from = Len(w) + 1 \/ w[from] # L[from] BY DEF w, L
    <3>2. ~(from \in 1..i) BY <1>2, <2>2, <3>1 DEF Agree
    <3> QED BY <1>2, <3>2
  <2> QED BY <1>15, <1>17, <2>1, <2>2 DEF Evolves
<1>20. Later(h, Now(r, s), Now(q, s)) BY SMTT(60), <1>2, <1>18, <1>19 DEF Later
<1>21. Good(h, Now(q, s))
  <2>1. Agree(v, L, Len(v)) BY <1>15, <1>17
  <2>2. True(h, v) BY <1>3, <1>13, <2>1, TruePart
  <2>3. Agree(w, v, r.committed)
    <3>1. r.committed <= from - 1 /\ from - 1 \in Nat BY SMTT(60), <1>2
    <3>2. Agree(w, v, from - 1) BY <1>16, AgreeSym
    <3> QED BY <1>2, <1>13, <3>1, <3>2, AgreeLess
  <2>4. Sanctioned(h, v, r.Term, r.committed)
    <3>1. r.Term <= r.Term /\ r.committed <= r.committed /\ r.Term <= MaxTerm BY SMTT(60), <1>2, Bounds
    <3> QED BY <1>2, <2>3, <3>1, SanctionedLonger
  <2>5. r.committed <= Len(v) BY <1>2, <1>15
  <2>6. Now(q, s) \in Point BY <1>1, <1>13, <1>18 DEF Good, Point
  <2> QED BY <1>18, <2>2, <2>4, <2>5, <2>6 DEF Good
<1>22. Supports(h, Now(q, s), q.after)
  <2>1. /\ Now(q, s).Term = r.Term /\ Now(r, s).Term = r.Term
        /\ Now(q, s).log = v /\ Now(r, s).log = w
    BY <1>18
  <2>2. r.Term \in Term BY <1>1, NodeIs
  <2>3. LeaderLog(h, r.Term) \in Log BY <2>2, LeaderLogs
  <2>4. \A i \in Nat : Agree(w, LeaderLog(h, r.Term), i) => Agree(v, LeaderLog(h, r.Term), i)
    BY <1>2, <1>13, <1>19, <2>3, EvolvesKeeps
  <2> QED BY SMTT(60), <1>1, <1>2, <1>10, <2>1, <2>4, SupportsOf
<1>23. NodeOK(h, q, s)
  BY <1>1, <1>9, <1>10, <1>12, <1>21, <1>22 DEF NodeOK
<1>24. q.u.entries # <<>>
  <2>1. Len(q.u.entries) # 0 BY <1>4, <1>9, <1>11
  <2> QED BY <2>1
<1> QED BY <1>9, <1>10, <1>13, <1>15, <1>16, <1>17, <1>20, <1>23, <1>24 DEF L, w, v

LEMMA AppendKeeps ==
    ASSUME NEW h, IsHistory(h), NEW r, NEW s, NEW R, NEW A, NEW ps, NEW rs, NEW m, NEW D, NEW X,
           Fits(h, r, s, R, A, ps, rs, m, D, X),
           r.Term \in 1..MaxTerm, NEW from \in Nat \ {0}, NEW last \in Nat, from <= last,
           last <= Len(h[r.Term].log), r.committed < from, from <= Len(Whole(r, s)) + 1,
           Agree(Whole(r, s), h[r.Term].log, from - 1),
           from = Len(Whole(r, s)) + 1 \/ Whole(r, s)[from] # h[r.Term].log[from]
    PROVE  LET q == append(r, from, SubSeq(h[r.Term].log, from, last))
           IN  /\ Fits(h, q, s, R, A, ps, rs, m, D, X)
               /\ Len(Whole(q, s)) = last /\ q.Term = r.Term
               /\ Agree(Whole(q, s), h[r.Term].log, last)
               /\ Later(h, Now(r, s), Now(q, s))
<1> DEFINE q == append(r, from, SubSeq(h[r.Term].log, from, last))
           w == Whole(r, s)
           v == Whole(q, s)
           o == r.u.offset
           p == r.u.offsetInProgress
<1>1. /\ r \in Node /\ s \in Storage /\ w \in Log /\ Len(w) \in Nat /\ NodeOK(h, r, s)
      /\ Good(h, Now(r, s)) /\ UnstableOK(r.u)
      /\ \A i \in 1..Len(X) : /\ Good(h, X[i]) /\ Later(h, X[i], Now(r, s))
                              /\ X[i].Commit \in Nat /\ X[i].Commit <= r.committed
  <2>1. NodeOK(h, r, s) BY DEF Fits
  <2> QED BY <2>1, FitsIs
<1>2. /\ r.committed \in Nat /\ r.applying \in Nat /\ r.applying <= r.committed
      /\ o \in Nat \ {0} /\ p \in Nat \ {0} /\ o <= p
  BY <1>1, NodeIs, FitsIs DEF UnstableOK
<1>3. /\ NodeOK(h, q, s)
      /\ v \in Log /\ Len(v) = last
      /\ Agree(v, h[r.Term].log, last) /\ Agree(v, w, from - 1)
      /\ Later(h, Now(r, s), Now(q, s))
      /\ q.u.snapshot = r.u.snapshot /\ q.u.snapshotInProgress = r.u.snapshotInProgress
      /\ q.u.offset = Least(o, from) /\ q.u.offsetInProgress = Least(p, from)
      /\ q.u.entries # <<>>
      /\ q.committed = r.committed /\ q.applying = r.applying /\ q.applied = r.applied
      /\ q.Term = r.Term
  BY <1>1, AppendIs
<1>4. Agree(w, v, from - 1) /\ Len(v) \in Nat BY <1>3, AgreeSym
<1> HIDE DEF q, w, v
<1>5. nextSnapshot(q) = nextSnapshot(r) BY <1>3 DEF nextSnapshot
<1>6. StorageOK(h, q, s) BY <1>3 DEF Fits, StorageOK
<1>7. Past(h, s, R, A, D, X) BY DEF Fits
<1>8. Good(h, Now(q, s)) BY <1>3 DEF NodeOK
<1>9. Ahead(h, q, s, X) BY <1>1, <1>3, <1>8, LaterTrans DEF Ahead
<1>10. Owed(q, s, X)
  <2> DEFINE x == X[Len(X)]
             base == IF IsSnapshot(nextSnapshot(r)) THEN nextSnapshot(r) ELSE x.log
             k == q.u.offsetInProgress
             e == nextEntries(q.u)
  <2>1. /\ base \in Log /\ Len(base) \in Nat
        /\ p - 1 <= Len(base) /\ Agree(base, w, p - 1)
        /\ IsSnapshot(nextSnapshot(r)) => x.Commit < Len(base) /\ p = Len(base) + 1
        /\ nextEntries(r.u) = <<>> => p = Len(w) + 1 /\ base = w
        /\ nextEntries(r.u) # <<>> => x.Commit < p /\ p <= Len(w)
    BY OwedIs DEF w
  <2>2. x.Commit \in Nat /\ x.Commit <= r.committed
    <3>1. Len(X) \in Nat \ {0} BY FitsIs
    <3>2. Len(X) \in 1..Len(X) BY <3>1
    <3> QED BY <1>1, <3>2
  <2> HIDE DEF base, x
  <2>3. k \in Nat \ {0} /\ k <= from /\ k <= p /\ (k = from \/ k = p) BY <1>2, <1>3 DEF Least
  <2>4. x.Commit < k
    <3>1. from <= Len(w) + 1 BY DEF w
    <3>2. CASE nextEntries(r.u) = <<>>
      <4>1. k = from BY <1>1, <2>1, <2>3, <3>1, <3>2, <1>2, <1>3 DEF Least
      <4> QED BY <1>2, <2>2, <4>1
    <3>3. CASE nextEntries(r.u) # <<>>
      <4>1. x.Commit < p BY <2>1, <3>3
      <4>2. CASE k = p BY <4>1, <4>2
      <4>3. CASE k = from BY <1>2, <2>2, <4>3
      <4> QED BY <2>3, <4>2, <4>3
    <3> QED BY <3>2, <3>3
  <2>5. k - 1 \in 0..Len(base) /\ k - 1 <= last
    <3> HIDE DEF p, k
    <3> QED BY <1>2, <2>1, <2>3
  <2>6. Agree(v, base, k - 1)
    <3>1. k - 1 \in Nat /\ k - 1 <= p - 1 /\ k - 1 <= from - 1 /\ p - 1 \in Nat /\ from - 1 \in Nat
      <4> HIDE DEF p, k
      <4> QED BY <1>2, <2>3
    <3>2. Agree(base, w, k - 1) BY <1>1, <2>1, <3>1, AgreeLess
    <3>3. Agree(w, v, k - 1) BY <1>1, <1>4, <3>1, AgreeLess
    <3> QED BY <3>2, <3>3, AgreeTrans, AgreeSym
  <2>7. /\ e \in Log /\ Len(v) = k - 1 + Len(e)
        /\ \A i \in 1..Len(e) : v[k - 1 + i] = e[i]
    <3> DEFINE a == q.u.offset
               f == q.u.entries
    <3>1. /\ f \in Log /\ Len(f) \in Nat /\ a \in Nat \ {0} /\ a <= k /\ k <= a + Len(f)
          /\ Len(v) = a - 1 + Len(f) /\ \A i \in 1..Len(f) : v[a - 1 + i] = f[i]
      <4>1. /\ q \in Node /\ UnstableOK(q.u)
            /\ ~IsSnapshot(q.u.snapshot) => q.u.offset - 1 <= Len(s.log)
        BY <1>3 DEF NodeOK
      <4> QED BY <1>1, <4>1, WholeIs, NodeIs DEF v, UnstableOK
    <3>2. e = SubSeq(f, k - a + 1, Len(f)) BY DEF nextEntries
    <3> HIDE DEF a, f, k, e
    <3> DEFINE b == k - a + 1
               l == Len(f)
    <3>3. b \in Nat \ {0} /\ l \in 0..l /\ b <= l + 1 /\ l - b + 1 = l - (k - a)
      <4>1. k \in Nat /\ a \in Nat /\ l \in Nat /\ a <= k /\ k <= a + l BY <2>3, <3>1
      <4> HIDE DEF l
      <4> QED BY <4>1
    <3>4. /\ e \in Log /\ Len(e) = l - (k - a)
          /\ \A i \in 1..(l - (k - a)) : e[i] = f[(k - a + 1) - 1 + i]
      <4>1. e = SubSeq(f, b, l) BY <3>2
      <4> HIDE DEF b
      <4>2. /\ SubSeq(f, b, l) \in Log /\ Len(SubSeq(f, b, l)) = l - b + 1
            /\ \A i \in 1..(l - b + 1) : SubSeq(f, b, l)[i] = f[b - 1 + i]
        BY <3>1, <3>3, PartOf
      <4> QED BY <3>3, <4>1, <4>2 DEF b
    <3>5. ASSUME NEW i \in 1..Len(e) PROVE v[k - 1 + i] = e[i]
      <4>1. /\ (k - a + 1) - 1 + i \in 1..Len(f)
            /\ a - 1 + ((k - a + 1) - 1 + i) = k - 1 + i
        BY <2>3, <3>1, <3>4
      <4> QED BY <3>1, <3>4, <4>1
    <3>6. Len(v) = k - 1 + Len(e) BY <2>3, <3>1, <3>4
    <3> QED BY <3>4, <3>5, <3>6
  <2>8. v = SubSeq(base, 1, k - 1) \o e
    <3> HIDE DEF k, e
    <3> QED BY <1>3, <2>1, <2>5, <2>6, <2>7, JoinIs
  <2>9. e # <<>>
    <3>1. Len(e) # 0
      <4>1. k <= last /\ Len(v) = last BY <1>3, <2>3
      <4> HIDE DEF k, e
      <4> QED BY <2>3, <2>7, <4>1
    <3> QED BY <3>1
  <2>10. Now(q, s).log = v BY DEF Now, v
  <2>11. IsSnapshot(nextSnapshot(r)) => x.Commit < Len(nextSnapshot(r)) BY <2>1 DEF base
  <2>12. k - 1 <= Len(base) BY <2>5
  <2>13. Writes(x, nextSnapshot(q), k, e, Now(q, s))
    <3> HIDE DEF k, e
    <3> QED BY <1>5, <2>4, <2>8, <2>9, <2>10, <2>11, <2>12 DEF Writes, base
  <2> QED BY <2>13 DEF Owed, x
<1>11. Settled(q, s, X)
  <2>1. Settled(r, s, X) BY DEF Fits, Present
  <2> SUFFICES ASSUME NEW i \in 1..Len(X)
               PROVE  /\ Agree(X[i].log, v, r.applying)
                      /\ ~IsSnapshot(r.u.snapshot) \/ Len(r.u.snapshot) <= X[i].Commit =>
                           Agree(X[i].log, v, q.u.offset - 1)
    BY <1>3 DEF Settled, v
  <2>2. Agree(X[i].log, w, r.applying) BY <2>1 DEF Settled, w
  <2>3. r.applying <= from - 1 /\ from - 1 \in Nat BY <1>2
  <2>4. Agree(w, v, r.applying) BY <1>1, <1>2, <1>4, <2>3, AgreeLess
  <2>5. Agree(X[i].log, v, r.applying) BY <2>2, <2>4, AgreeTrans
  <2>6. ASSUME ~IsSnapshot(r.u.snapshot) \/ Len(r.u.snapshot) <= X[i].Commit
        PROVE  Agree(X[i].log, v, q.u.offset - 1)
    <3> DEFINE a == q.u.offset
    <3>1. Agree(X[i].log, w, o - 1) BY <2>1, <2>6 DEF Settled, w
    <3>2. a - 1 \in Nat /\ a - 1 <= o - 1 /\ a - 1 <= from - 1 /\ o - 1 \in Nat
      <4>1. a = Least(o, from) BY <1>3
      <4> HIDE DEF a, o
      <4> QED BY <1>2, <4>1 DEF Least
    <3>3. Len(X[i].log) \in Nat BY <1>1, PointIs
    <3>4. Agree(X[i].log, w, a - 1) BY <1>1, <3>1, <3>2, <3>3, AgreeLess
    <3>5. Agree(w, v, a - 1) BY <1>1, <1>4, <2>3, <3>2, AgreeLess
    <3> QED BY <3>4, <3>5, AgreeTrans
  <2> QED BY <2>5, <2>6
<1>12. Carried(q, R, A) /\ Expected(q, R) /\ Expected(q, A)
  BY <1>3 DEF Fits, Present, Carried, Expected
<1>13. Lacked(q, D) /\ Lacked(q, X)
  BY <1>3 DEF Fits, Present, Lacked
<1>14. Applies(q, v, ps, rs, m, X)
  <2>1. Applies(r, w, ps, rs, m, X) BY DEF Fits, w
  <2>2. m \in Log /\ Len(m) <= r.committed /\ Agree(m, w, Len(m)) /\ Len(m) \in Nat
    BY <2>1, LenProperties DEF Applies, Log
  <2>3. Agree(m, v, Len(m))
    <3>1. Len(m) <= from - 1 /\ from - 1 \in Nat BY <1>2, <2>2
    <3>2. Agree(w, v, Len(m)) BY <1>1, <1>4, <2>2, <3>1, AgreeLess
    <3> QED BY <2>2, <3>2, AgreeTrans
  <2>4. ASSUME NEW k \in 1..Len(ps), NEW j \in 1..Len(ps[k].entries)
        PROVE  ps[k].entries[j] = v[ps[k].first + j - 1]
    <3> DEFINE i == ps[k].first + j - 1
               l == Len(ps[k].entries)
    <3>1. ps[k].first + l - 1 <= r.applying /\ ps[k].entries[j] = w[i]
      BY <2>1, <2>4 DEF Applies
    <3>2. ps[k].first \in Nat \ {0} /\ l \in Nat
      <4>1. ps[k] \in ApplyMsg BY <2>1, ElementOfSeq DEF Applies
      <4>2. ps[k].first \in Nat \ {0} /\ ps[k].entries \in Log BY <4>1 DEF ApplyMsg
      <4> QED BY <4>2, LenProperties DEF Log
    <3>3. i \in 1..(from - 1)
      <4> DEFINE a == ps[k].first
      <4>1. a \in Nat \ {0} /\ a + l - 1 <= r.applying /\ j \in 1..l BY <3>1, <3>2
      <4> HIDE DEF a, l
      <4>2. a + j - 1 \in 1..(from - 1) BY <1>2, <3>2, <4>1
      <4> QED BY <4>2 DEF a
    <3> HIDE DEF i
    <3>4. w[i] = v[i] BY <1>4, <3>3 DEF Agree
    <3> QED BY <3>1, <3>4 DEF i
  <2> QED BY <1>3, <2>1, <2>3, <2>4 DEF Applies
<1>15. Fits(h, q, s, R, A, ps, rs, m, D, X)
  BY <1>3, <1>6, <1>7, <1>9, <1>10, <1>11, <1>12, <1>13, <1>14 DEF Fits, Present, v
<1> QED BY <1>3, <1>15 DEF q, v

----------------------------------------------------------------------------
(* Restoring a snapshot that the log lacks *)

restored(r, snapshot) == [r EXCEPT !.committed = Len(snapshot), !.u = restoreUnstable(snapshot)]

LEMMA RestoreKeeps ==
    ASSUME NEW h, IsHistory(h), NEW r, NEW s, NEW R, NEW A, NEW ps, NEW rs, NEW m, NEW D, NEW X,
           Fits(h, r, s, R, A, ps, rs, m, D, X),
           r.Term \in 1..MaxTerm, NEW i \in Nat, Commits(h, r.Term, i), h[r.Term].log # <<>>,
           ~Agree(Whole(r, s), h[r.Term].log, i)
    PROVE  LET snapshot == SubSeq(h[r.Term].log, 1, i)
               q == restored(r, snapshot)
           IN  /\ Fits(h, q, s, R, A, ps, rs, m, D, X)
               /\ Whole(q, s) = snapshot /\ SameTerm(r, q)
               /\ Later(h, Now(r, s), Now(q, s))
<1> DEFINE L == h[r.Term].log
           p == SubSeq(L, 1, i)
           q == restored(r, p)
           w == Whole(r, s)
<1>1. /\ r \in Node /\ ~r.panic /\ s \in Storage /\ w \in Log /\ Len(w) \in Nat
      /\ Good(h, Now(r, s)) /\ r.applied <= r.applying /\ r.applying <= r.committed
      /\ r.committed <= Len(w)
      /\ \A k \in 1..Len(X) : /\ Good(h, X[k]) /\ Later(h, X[k], Now(r, s))
                              /\ X[k].Commit \in Nat /\ X[k].Commit <= r.committed
      /\ \A k \in 1..Len(D) : /\ Good(h, D[k]) /\ Later(h, D[k], Now(r, s))
                              /\ D[k].Commit \in Nat /\ D[k].Commit <= r.committed
  BY FitsIs
<1>2. /\ r.committed \in Nat /\ r.applying \in Nat /\ r.Term \in Nat /\ r.Term \in Term
      /\ r.applied \in Nat /\ Len(r.u.snapshot) \in Nat
  BY <1>1, NodeIs
<1>8. Agree(w, L, r.committed)
  <2>1. r.Term <= r.Term BY <1>2
  <2> QED BY <1>1, <2>1, LeaderHas
<1>7. i \in Nat /\ i <= h[r.Term].commit /\ r.committed < i /\ ~Agree(w, L, i)
  <2>1. i \in Nat /\ i <= h[r.Term].commit BY DEF Commits
  <2>2. Len(L) \in Nat BY LeadersHave
  <2> HIDE DEF w, L
  <2>3. ~Agree(w, L, i) BY DEF w, L
  <2>4. ~(i <= r.committed) BY <1>1, <1>2, <1>8, <2>1, <2>2, <2>3, AgreeLess DEF w
  <2> QED BY <1>2, <2>1, <2>3, <2>4
<1>3. /\ L \in Log /\ Len(L) \in Nat /\ Len(L) <= MaxLog /\ i <= Len(L) /\ True(h, L)
      /\ i \in 1..Len(L) /\ i \in Index /\ i # 0 /\ L # <<>>
  <2>1. /\ L \in Log /\ Len(L) \in Nat /\ Len(L) <= MaxLog /\ True(h, L)
        /\ h[r.Term].commit \in Nat /\ h[r.Term].commit <= Len(L)
    BY LeadersHave, LeadersTrue
  <2> HIDE DEF L
  <2>2. i <= Len(L) /\ i # 0 BY <1>2, <1>7, <2>1 DEF L
  <2>3. i \in 1..Len(L) /\ i \in Index BY <1>7, <2>1, <2>2, Bounds DEF Index
  <2>4. L # <<>> BY <2>1, <2>2
  <2> QED BY <2>1, <2>2, <2>3, <2>4
<1>4. p \in Log /\ Len(p) = i /\ Agree(p, L, i) /\ p[i] = L[i]
  <2>1. i \in 0..Len(L) /\ i \in 1..i BY <1>3
  <2> HIDE DEF L
  <2> QED BY <1>3, <2>1, PrefixOf
<1>5. LeaderLog(h, r.Term) = L BY <1>2 DEF LeaderLog
<1>6. restoreUnstable(p) = [entries |-> <<>>, offset |-> i + 1, offsetInProgress |-> i + 1,
                            snapshot |-> p, snapshotInProgress |-> FALSE]
  BY <1>4 DEF restoreUnstable
<1> HIDE DEF p, L
<1>10. /\ q \in Node /\ ~q.panic /\ q.u = restoreUnstable(p) /\ q.committed = i
       /\ q.applying = r.applying /\ q.applied = r.applied /\ q.Term = r.Term /\ q.after = r.after
  <2>1. restoreUnstable(p) \in Unstable
    <3>1. i + 1 \in Nat \ {0} /\ <<>> \in Log BY DEF Log
    <3> QED BY <1>4, <1>6, <3>1 DEF Unstable
  <2>2. q = [r EXCEPT !.committed = i, !.u = restoreUnstable(p)] BY <1>4 DEF restored
  <2> HIDE DEF q
  <2> QED BY <1>1, <1>3, <2>1, <2>2 DEF Node
<1> HIDE DEF q
<1>11. /\ q.u.entries = <<>> /\ q.u.offset = i + 1 /\ q.u.offsetInProgress = i + 1
       /\ q.u.snapshot = p /\ ~q.u.snapshotInProgress
  BY <1>6, <1>10
<1>12. IsSnapshot(p) /\ p # <<>> BY <1>3, <1>4, SnapshotEmpty
<1>13. Whole(q, s) = p
  <2>1. Whole(q, s) = p \o <<>> BY <1>11, <1>12 DEF Whole
  <2> QED BY <1>4, <2>1, ConcatEmptySeq DEF Log
<1>14. /\ Now(q, s) = [log |-> p, Term |-> r.Term, Commit |-> i]
       /\ Now(r, s) = [log |-> w, Term |-> r.Term, Commit |-> r.committed]
  BY <1>10, <1>13 DEF Now
<1> HIDE DEF w
<1>15. \A k \in 0..Len(w) : Agree(w, L, k) => k < i
  <2> SUFFICES ASSUME NEW k \in 0..Len(w), Agree(w, L, k), ~(k < i) PROVE FALSE OBVIOUS
  <2>1. k \in Nat /\ i \in Nat /\ i <= k /\ Len(w) \in Nat BY <1>1, <1>7 DEF w
  <2> QED BY <1>3, <1>7, <2>1, AgreeLess
<1>16. Evolves(w, p, L)
  <2>1. \A k \in 0..Len(w) : Agree(w, L, k) => k <= Len(p)
    <3> SUFFICES ASSUME NEW k \in 0..Len(w), Agree(w, L, k) PROVE k <= i BY <1>4
    <3>1. k < i /\ k \in Nat BY <1>15
    <3> QED BY <3>1
  <2> QED BY <1>4, <2>1 DEF Evolves
<1>17. Later(h, Now(r, s), Now(q, s)) BY <1>2, <1>7, <1>5, <1>14, <1>16 DEF Later
<1>18. Good(h, Now(q, s))
  <2>1. True(h, p) BY <1>3, <1>4, TruePart
  <2>2. Sanctioned(h, p, r.Term, i)
    <3>1. r.Term \in 1..r.Term BY <1>2
    <3> QED BY <1>4, <1>7, <3>1 DEF Sanctioned, L
  <2>3. Now(q, s) \in Point BY <1>2, <1>3, <1>4, <1>14 DEF Point
  <2> QED BY <1>4, <1>14, <2>1, <2>2, <2>3 DEF Good
<1>19. Supports(h, Now(q, s), q.after)
  <2>1. Supports(h, Now(r, s), q.after) BY <1>10 DEF Fits, NodeOK
  <2>2. \A k \in Nat : Agree(w, L, k) => Agree(p, L, k)
    BY <1>1, <1>3, <1>4, <1>16, EvolvesKeeps
  <2>3. /\ Now(q, s).log = p /\ Now(r, s).log = w
        /\ Now(q, s).Term = r.Term /\ Now(r, s).Term = r.Term
    BY <1>14
  <2> QED BY <1>2, <1>5, <2>1, <2>2, <2>3, SupportsOf
<1>20. UnstableOK(q.u)
  <2>1. q.u \in Unstable /\ Len(<<>>) = 0 BY <1>10 DEF Node
  <2> QED BY <1>4, <1>11, <1>12, <2>1 DEF UnstableOK
<1>21. NodeOK(h, q, s)
  <2>1. q.applied <= q.applying /\ q.applying <= q.committed BY <1>1, <1>2, <1>7, <1>10
  <2>2. Len(q.u.snapshot) <= q.committed BY <1>4, <1>10, <1>11
  <2> QED BY <1>10, <1>11, <1>12, <1>18, <1>19, <1>20, <2>1, <2>2 DEF NodeOK
<1>22. StorageOK(h, q, s)
  <2>1. StorageOK(h, r, s) BY DEF Fits
  <2>2. s.offset <= r.applying \/ (IsSnapshot(r.u.snapshot) /\ s.offset <= Len(r.u.snapshot))
    BY <2>1 DEF StorageOK
  <2>3. IsSnapshot(r.u.snapshot) => Len(r.u.snapshot) <= r.committed BY DEF Fits, NodeOK
  <2>4. s.offset \in Nat BY <1>1, StorageIs
  <2>5. s.offset <= i
    <3>1. s.offset <= r.committed
      <4>1. CASE s.offset <= r.applying BY <1>1, <1>2, <2>4, <4>1
      <4>2. CASE IsSnapshot(r.u.snapshot) /\ s.offset <= Len(r.u.snapshot)
        BY <1>2, <2>3, <2>4, <4>2
      <4> QED BY <2>2, <4>1, <4>2
    <3> QED BY <1>2, <1>7, <2>4, <3>1
  <2> QED BY <1>4, <1>11, <1>12, <2>1, <2>5 DEF StorageOK
<1>23. Past(h, s, R, A, D, X) BY DEF Fits
<1>24. Ahead(h, q, s, X) BY <1>1, <1>17, <1>18, LaterTrans DEF Ahead
<1>25. nextSnapshot(q) = p BY <1>11 DEF nextSnapshot
<1>26. Owed(q, s, X)
  <2>1. nextEntries(q.u) = <<>>
    <3>1. nextEntries(q.u) = SubSeq(<<>>, (i + 1) - (i + 1) + 1, 0) BY <1>11 DEF nextEntries
    <3>2. (i + 1) - (i + 1) + 1 = 1 OBVIOUS
    <3>3. nextEntries(q.u) = SubSeq(<<>>, 1, 0) BY <3>1, <3>2
    <3>4. <<>> \in Log /\ 0 \in 0..Len(<<>>) BY DEF Log
    <3>5. SubSeq(<<>>, 1, 0) \in Log /\ Len(SubSeq(<<>>, 1, 0)) = 0 BY <3>4, PrefixOf
    <3> QED BY <3>3, <3>5, SnapshotEmpty
  <2>2. Len(X) \in Nat \ {0} BY FitsIs
  <2>3. Len(X) \in 1..Len(X) BY <2>2
  <2>4. X[Len(X)].Commit < Len(p) BY SMTT(60), <1>1, <1>2, <1>7, <1>4, <2>3
  <2> QED BY <1>12, <1>14, <1>25, <2>1, <2>4 DEF Owed, Writes
<1>27. Agree(w, p, r.committed)
  <2>1. Agree(p, L, r.committed)
    <3>1. r.committed <= i /\ Len(p) \in Nat BY <1>2, <1>7, <1>4
    <3> QED BY <1>2, <1>3, <1>4, <3>1, AgreeLess
  <2> QED BY <1>8, <2>1, AgreeSym, AgreeTrans DEF L, w
<1>28. Settled(q, s, X)
  <2>1. Settled(r, s, X) BY DEF Fits, Present
  <2> SUFFICES ASSUME NEW k \in 1..Len(X)
               PROVE  Agree(X[k].log, p, r.applying) /\ ~(i <= X[k].Commit)
    BY <1>4, <1>10, <1>11, <1>12, <1>13 DEF Settled
  <2>2. Agree(X[k].log, w, r.applying) BY <2>1 DEF Settled, w
  <2>3. Agree(w, p, r.applying)
    <3>1. Len(p) \in Nat BY <1>4
    <3> QED BY <1>1, <1>2, <1>27, <3>1, AgreeLess DEF w
  <2>4. X[k].Commit <= r.committed /\ X[k].Commit \in Nat BY <1>1
  <2> QED BY <1>2, <1>7, <2>2, <2>3, <2>4, AgreeTrans
<1>29. Carried(q, R, A) BY <1>11 DEF Carried
<1>30. Expected(q, R) /\ Expected(q, A)
  <2>1. /\ R \in Seq(AppendMsg) /\ A \in Seq(AppendMsg)
        /\ Len(D) = Len(R) /\ Len(X) = Len(A) + 1
        /\ \A k \in 1..Len(D) : Asks(h, R[k], D[k])
        /\ \A k \in 1..Len(A) : Asks(h, A[k], X[k + 1])
    BY <1>23 DEF Past
  <2>2. Len(A) \in Nat BY <2>1, LenProperties
  <2>3. ASSUME NEW a \in AppendMsg, NEW x, Asks(h, a, x), x.Commit \in Nat, x.Commit <= r.committed
        PROVE  Len(a.snapshot) <= i
    <3>1. Len(a.snapshot) <= x.Commit BY <2>3 DEF Asks
    <3>2. Len(a.snapshot) \in Nat
      <4>1. a.snapshot \in Log BY DEF AppendMsg
      <4> QED BY <4>1, LenProperties DEF Log
    <3> QED BY <1>2, <1>7, <2>3, <3>1, <3>2
  <2>4. \A k \in 1..Len(R) : Len(R[k].snapshot) <= i
    <3> SUFFICES ASSUME NEW k \in 1..Len(R) PROVE Len(R[k].snapshot) <= i OBVIOUS
    <3>1. R[k] \in AppendMsg /\ k \in 1..Len(D) BY <2>1, ElementOfSeq
    <3> QED BY <1>1, <2>1, <2>3, <3>1
  <2>5. \A k \in 1..Len(A) : Len(A[k].snapshot) <= i
    <3> SUFFICES ASSUME NEW k \in 1..Len(A) PROVE Len(A[k].snapshot) <= i OBVIOUS
    <3>1. A[k] \in AppendMsg /\ k + 1 \in 1..Len(X) BY <2>1, <2>2, ElementOfSeq
    <3> QED BY <1>1, <2>1, <2>3, <3>1
  <2> QED BY <1>4, <1>11, <1>12, <2>4, <2>5 DEF Expected
<1>31. ASSUME NEW Y, \A k \in 1..Len(Y) : Good(h, Y[k]) /\ Later(h, Y[k], Now(r, s))
       PROVE  Lacked(q, Y)
  <2> SUFFICES ASSUME NEW k \in 1..Len(Y), Y[k].Term = r.Term, Agree(Y[k].log, p, i)
               PROVE  FALSE
    BY <1>4, <1>10, <1>11 DEF Lacked
  <2>1. Agree(Y[k].log, LeaderLog(h, r.Term), i) BY <1>4, <1>5, AgreeTrans
  <2>2. Now(r, s).Term = r.Term /\ Now(r, s).log = w BY <1>14
  <2>3. Agree(w, L, i) BY <1>1, <1>5, <1>31, <2>1, <2>2, LaterKeeps
  <2>4. i \in 0..Len(w) BY <1>1, <2>3 DEF Agree, w
  <2>5. i < i BY <1>15, <2>3, <2>4
  <2> QED BY <2>5
<1>32. Lacked(q, D) /\ Lacked(q, X) BY <1>1, <1>31
<1>33. Applies(q, p, ps, rs, m, X)
  <2>1. Applies(r, w, ps, rs, m, X) BY DEF Fits, w
  <2>2. m \in Log /\ Len(m) <= r.committed /\ Agree(m, w, Len(m)) /\ Len(m) \in Nat
    BY <2>1, LenProperties DEF Applies, Log
  <2>3. Agree(m, p, Len(m)) /\ Len(m) <= i
    <3>1. Len(p) \in Nat /\ Len(w) \in Nat BY <1>1, <1>4 DEF w
    <3>2. Agree(w, p, Len(m)) BY <1>2, <1>27, <2>2, <3>1, AgreeLess
    <3> QED BY <1>2, <1>7, <2>2, <3>2, AgreeTrans
  <2>4. ASSUME NEW k \in 1..Len(ps), NEW j \in 1..Len(ps[k].entries)
        PROVE  ps[k].entries[j] = p[ps[k].first + j - 1]
    <3> DEFINE a == ps[k].first
               l == Len(ps[k].entries)
    <3>1. a + l - 1 <= r.applying /\ ps[k].entries[j] = w[a + j - 1]
      BY <2>1, <2>4 DEF Applies
    <3>2. a \in Nat \ {0} /\ l \in Nat
      <4>1. ps[k] \in ApplyMsg BY <2>1, ElementOfSeq DEF Applies
      <4>2. ps[k].first \in Nat \ {0} /\ ps[k].entries \in Log BY <4>1 DEF ApplyMsg
      <4> QED BY <4>2, LenProperties DEF Log
    <3>3. j \in 1..l BY <2>4
    <3> HIDE DEF a, l
    <3>4. a + j - 1 \in 1..r.committed
      <4>1. r.applying <= r.committed BY <1>1
      <4> QED BY <1>2, <3>1, <3>2, <3>3, <4>1
    <3>5. w[a + j - 1] = p[a + j - 1] BY <1>27, <3>4 DEF Agree
    <3> QED BY <3>1, <3>5 DEF a
  <2> QED BY <1>10, <2>1, <2>3, <2>4 DEF Applies
<1>34. Fits(h, q, s, R, A, ps, rs, m, D, X)
  BY <1>13, <1>21, <1>22, <1>23, <1>24, <1>26, <1>28, <1>29, <1>30, <1>32, <1>33 DEF Fits, Present
<1> QED BY <1>10, <1>13, <1>17, <1>34 DEF q, p, L, SameTerm

----------------------------------------------------------------------------
(* The messages of a leader *)

LEMMA SmallestOf ==
    ASSUME NEW S, S \subseteq Nat, S # {}
    PROVE  LET k == CHOOSE c \in S : \A d \in S : c <= d
           IN  k \in S /\ \A d \in S : k <= d
<1> DEFINE V == {ss \in Nat \X Nat : ss[1] < ss[2]}
<1>1. IsWellFoundedOn(V, Nat) BY NatLessThanWellFounded DEF OpToRel
<1> HIDE DEF V
<1>2. PICK x \in S : \A y \in S : ~(<<y, x>> \in V) BY <1>1, WFMin
<1>3. \A y \in S : x <= y
  <2> SUFFICES ASSUME NEW y \in S, ~(x <= y) PROVE FALSE OBVIOUS
  <2>1. x \in Nat /\ y \in Nat OBVIOUS
  <2>2. y < x BY <2>1
  <2>3. <<y, x>> \in V BY <2>1, <2>2 DEF V
  <2> QED BY <1>2, <2>3
<1> QED BY <1>2, <1>3

\* Where the log matches the leader's at index, it is the leader's up to there.
LEMMA MatchAgrees ==
    ASSUME NEW h, IsHistory(h), NEW r, NEW s, Readable(h, r, s), NEW t \in 1..MaxTerm,
           NEW i \in 0..Len(h[t].log), r.committed <= i
    PROVE  matchTerm(r, s, i, IF i = 0 THEN 0 ELSE h[t].log[i]) <=>
             Agree(Whole(r, s), h[t].log, i)
<1> DEFINE w == Whole(r, s)
           L == h[t].log
<1>1. w \in Log /\ Len(w) \in Nat /\ True(h, w) BY ReadableIs DEF Readable
<1>2. L \in Log /\ Len(L) \in Nat /\ True(h, L) BY LeadersHave, LeadersTrue
<1>3. i \in Nat /\ i <= Len(L) BY <1>2
<1>4. matchTerm(r, s, i, IF i = 0 THEN 0 ELSE L[i]) <=>
        i <= Len(w) /\ (IF i = 0 THEN 0 ELSE L[i]) = (IF i = 0 THEN 0 ELSE w[i])
  BY <1>3, MatchIs
<1> HIDE DEF w, L
<1>5. CASE i = 0 BY <1>1, <1>2, <1>4, <1>5, AgreeNone DEF w, L
<1>6. CASE i # 0
  <2>1. matchTerm(r, s, i, L[i]) <=> i <= Len(w) /\ L[i] = w[i] BY <1>4, <1>6
  <2>2. ASSUME i <= Len(w), L[i] = w[i] PROVE Agree(w, L, i)
    <3>1. i \in Nat \ {0} BY <1>3, <1>6
    <3> QED BY <1>1, <1>2, <1>3, <2>2, <3>1, TrueMatch
  <2>3. ASSUME Agree(w, L, i) PROVE i <= Len(w) /\ L[i] = w[i]
    <3>1. i \in 1..i BY <1>3, <1>6
    <3> QED BY <2>3, <3>1 DEF Agree
  <2> QED BY <1>6, <2>1, <2>2, <2>3 DEF w, L
<1> QED BY <1>5, <1>6

\* Index i is no earlier than the commit index.
Covers(r, i) == r.committed <= i

LEMMA MaybeAppendKeeps ==
    ASSUME NEW h, IsHistory(h), NEW r, NEW s, NEW R, NEW A, NEW ps, NEW rs, NEW m, NEW D, NEW X,
           Fits(h, r, s, R, A, ps, rs, m, D, X),
           r.Term \in 1..MaxTerm, NEW i \in Nat, NEW l \in Nat, i + l <= Len(h[r.Term].log),
           NEW c, Commits(h, r.Term, c), Covers(r, i),
           Agree(Whole(r, s), h[r.Term].log, i)
    PROVE  LET q == maybeAppend(r, s, i, c, SubSeq(h[r.Term].log, i + 1, i + l))
           IN  /\ Fits(h, q, s, R, A, ps, rs, m, D, X) /\ SameTerm(r, q)
               /\ Agree(Whole(q, s), h[r.Term].log, i + l)
               /\ Later(h, Now(r, s), Now(q, s))
<1> DEFINE L == h[r.Term].log
           ents == SubSeq(L, i + 1, i + l)
           w == Whole(r, s)
           C == Conflicts(r, s, i, ents)
           g == Least(c, i + l)
<1>1. /\ r \in Node /\ w \in Log /\ Len(w) \in Nat /\ Readable(h, r, s) /\ Good(h, Now(r, s))
      /\ True(h, w) /\ NodeOK(h, r, s) /\ r.committed \in Nat
  <2>1. Readable(h, r, s) BY FitsReadable
  <2>2. NodeOK(h, r, s) BY <2>1 DEF Readable
  <2> QED BY <2>1, <2>2, FitsIs, NodeIs, ReadableIs DEF Readable
<1>2. /\ L \in Log /\ Len(L) \in Nat /\ True(h, L)
      /\ h[r.Term].commit \in Nat
  BY LeadersHave, LeadersTrue
<1>3. /\ ents \in Log /\ Len(ents) = l
      /\ \A k \in 1..l : ents[k] = L[i + k]
  <2>1. i + l <= Len(L) OBVIOUS
  <2> HIDE DEF L
  <2>2. i + 1 \in Nat \ {0} /\ i + l \in 0..Len(L) /\ i + 1 <= i + l + 1 BY <1>2, <2>1
  <2>3. /\ ents \in Log /\ Len(ents) = i + l - (i + 1) + 1
        /\ \A k \in 1..(i + l - (i + 1) + 1) : ents[k] = L[i + 1 - 1 + k]
    BY <1>2, <2>2, PartOf
  <2>4. i + l - (i + 1) + 1 = l /\ i + 1 - 1 = i OBVIOUS
  <2> HIDE DEF ents
  <2> QED BY <2>3, <2>4
<1>4. Agree(w, L, i) /\ i + l <= Len(L) /\ i <= Len(w) BY DEF Agree
<1>5. ASSUME NEW k \in 1..l PROVE k \in C <=> ~Agree(w, L, i + k)
  <2>1. k \in C <=> ~matchTerm(r, s, i + k, ents[k]) BY <1>3, <1>5 DEF Conflicts
  <2>2. ents[k] = L[i + k] BY <1>3
  <2> HIDE DEF C, ents
  <2>3. i + k \in 0..Len(L) /\ r.committed <= i + k /\ i + k # 0
    <3>1. r.committed <= i BY DEF Covers
    <3> HIDE DEF L
    <3> QED BY <1>1, <1>2, <1>4, <1>5, <3>1
  <2>4. matchTerm(r, s, i + k, IF i + k = 0 THEN 0 ELSE L[i + k]) <=> Agree(w, L, i + k)
    BY <1>1, <2>3, MatchAgrees
  <2> QED BY <2>1, <2>2, <2>3, <2>4
<1>6. C \subseteq 1..l BY <1>3 DEF Conflicts
<1>7. g \in Nat /\ g <= c /\ g <= i + l
  <2>1. c \in Nat BY DEF Commits
  <2> QED BY <2>1 DEF Least
<1>8. g <= h[r.Term].commit
  <2>1. c <= h[r.Term].commit /\ c \in Nat BY DEF Commits
  <2> HIDE DEF g
  <2> QED BY <1>2, <1>7, <2>1
<1>9. CASE C = {}
  <2>1. Agree(w, L, i + l)
    <3>1. CASE l = 0 BY <1>4, <3>1
    <3>2. CASE l # 0
      <4>1. l \in 1..l BY <3>2
      <4> QED BY <1>5, <1>9, <4>1
    <3> QED BY <3>1, <3>2
  <2>2. maybeAppend(r, s, i, c, ents) = commitTo(r, s, g) BY <1>3, <1>9 DEF maybeAppend
  <2>3. Agree(w, L, g)
    <3>1. i + l \in Nat OBVIOUS
    <3> HIDE DEF g, w, L
    <3> QED BY <1>1, <1>2, <1>7, <2>1, <3>1, AgreeLess
  <2> DEFINE q == commitTo(r, s, g)
  <2> HIDE DEF g
  <2>4. /\ Fits(h, q, s, R, A, ps, rs, m, D, X)
        /\ Whole(q, s) = w /\ SameTerm(r, q) /\ Later(h, Now(r, s), Now(q, s))
    <3>1. Commits(h, r.Term, g) BY <1>7, <1>8 DEF Commits
    <3>2. Agree(w, h[r.Term].log, g) BY <2>3
    <3> QED BY <3>1, <3>2, CommitKeeps
  <2> QED BY <2>1, <2>2, <2>4 DEF SameTerm
<1>10. CASE C # {}
  <2> DEFINE k == CHOOSE a \in C : \A b \in C : a <= b
  <2>1. k \in C /\ \A b \in C : k <= b
    <3>1. C \subseteq Nat BY <1>6
    <3> HIDE DEF C
    <3> QED BY <1>10, <3>1, SmallestOf
  <2> DEFINE f == i + k
             z == append(r, f, SubSeq(L, f, i + l))
  <2>2. k \in 1..l BY <1>6, <2>1
  <2>3. maybeAppend(r, s, i, c, ents) = commitTo(append(r, i + k, SubSeq(ents, k, l)), s, g)
    BY <1>3, <1>10 DEF maybeAppend
  <2> HIDE DEF k, C, g
  <2>4. SubSeq(ents, k, l) = SubSeq(L, f, i + l)
    <3> HIDE DEF ents, L
    <3>1. k \in Nat \ {0} /\ l \in 0..Len(ents) /\ k <= l + 1 BY <1>3, <2>2
    <3>2. /\ SubSeq(ents, k, l) \in Log /\ Len(SubSeq(ents, k, l)) = l - k + 1
          /\ \A j \in 1..(l - k + 1) : SubSeq(ents, k, l)[j] = ents[k - 1 + j]
      BY <1>3, <3>1, PartOf
    <3>3. f \in Nat \ {0} /\ i + l \in 0..Len(L) /\ f <= i + l + 1 /\ i + l - f + 1 = l - k + 1
      BY SMTT(60), <1>2, <1>4, <2>2
    <3>4. /\ SubSeq(L, f, i + l) \in Log /\ Len(SubSeq(L, f, i + l)) = i + l - f + 1
          /\ \A j \in 1..(i + l - f + 1) : SubSeq(L, f, i + l)[j] = L[f - 1 + j]
      <4> HIDE DEF f
      <4> QED BY <1>2, <3>3, PartOf
    <3>5. ASSUME NEW j \in 1..(l - k + 1) PROVE SubSeq(ents, k, l)[j] = SubSeq(L, f, i + l)[j]
      <4>1. k - 1 + j \in 1..l /\ i + (k - 1 + j) = f - 1 + j BY <2>2
      <4>2. ents[k - 1 + j] = L[f - 1 + j] BY <1>3, <4>1
      <4> QED BY <3>2, <3>3, <3>4, <4>2
    <3> HIDE DEF f
    <3> QED BY <3>2, <3>3, <3>4, <3>5, SeqEqual DEF Log
  <2>5. /\ f \in Nat \ {0} /\ f <= i + l /\ r.committed < f /\ f - 1 \in Nat /\ i + l \in Nat
    <3>1. r.committed <= i BY DEF Covers
    <3> QED BY <1>1, <2>2, <3>1
  <2>6. Agree(w, L, f - 1)
    <3>1. CASE k = 1
      <4>1. f - 1 = i BY <3>1
      <4> QED BY <1>4, <4>1
    <3>2. CASE k # 1
      <4>1. k - 1 \in 1..l /\ ~(k <= k - 1) /\ i + (k - 1) = f - 1 BY <2>2, <3>2
      <4>2. k - 1 \notin C BY <2>1, <4>1
      <4> QED BY <1>5, <4>1, <4>2
    <3> QED BY <3>1, <3>2
  <2>7. f <= Len(w) + 1
    <3>1. f - 1 <= Len(w) BY <2>6 DEF Agree
    <3> HIDE DEF w, f
    <3> QED BY <1>1, <2>5, <3>1
  <2>8. f = Len(w) + 1 \/ w[f] # L[f]
    <3> SUFFICES ASSUME f # Len(w) + 1, w[f] = L[f] PROVE FALSE OBVIOUS
    <3>1. ~Agree(w, L, i + k) BY <1>5, <2>1, <2>2
    <3>2. f <= Len(w) /\ f <= Len(L)
      <4> HIDE DEF w, L, f
      <4> QED BY <1>1, <1>2, <1>4, <2>5, <2>7
    <3>3. Agree(w, L, f)
      <4> HIDE DEF w, L, f
      <4> QED BY <1>1, <1>2, <2>5, <3>2, TrueMatch
    <3> QED BY <3>1, <3>3
  <2>9. /\ Fits(h, z, s, R, A, ps, rs, m, D, X)
        /\ Len(Whole(z, s)) = i + l /\ z.Term = r.Term
        /\ Agree(Whole(z, s), L, i + l)
        /\ Later(h, Now(r, s), Now(z, s))
    <3> HIDE DEF f
    <3> QED BY <1>4, <2>5, <2>6, <2>7, <2>8, AppendKeeps
  <2> HIDE DEF z
  <2>10. Agree(Whole(z, s), h[z.Term].log, g)
    <3> HIDE DEF L
    <3>1. Agree(Whole(z, s), L, g) BY <1>2, <1>7, <2>5, <2>9, AgreeLess
    <3> QED BY <2>9, <3>1 DEF L
  <2> DEFINE q == commitTo(z, s, g)
  <2>11. g <= h[z.Term].commit /\ z.Term \in 1..MaxTerm BY <1>8, <2>9
  <2>12. /\ Fits(h, q, s, R, A, ps, rs, m, D, X)
         /\ Whole(q, s) = Whole(z, s) /\ SameTerm(z, q) /\ Later(h, Now(z, s), Now(q, s))
    <3>1. Commits(h, z.Term, g) BY <1>7, <2>11 DEF Commits
    <3>2. Fits(h, z, s, R, A, ps, rs, m, D, X) BY <2>9
    <3> QED BY <2>10, <2>11, <3>1, <3>2, CommitKeeps
  <2>13. Good(h, Now(z, s)) /\ Good(h, Now(q, s)) BY <2>9, <2>12, FitsIs
  <2>14. Later(h, Now(r, s), Now(q, s)) BY <1>1, <2>9, <2>12, <2>13, LaterTrans
  <2>15. q = maybeAppend(r, s, i, c, ents) BY <2>3, <2>4 DEF z
  <2> HIDE DEF q
  <2> QED BY <2>9, <2>12, <2>14, <2>15 DEF SameTerm
<1> QED BY <1>9, <1>10

\* MsgApp of the leader of term t, which is not outdated.
LEMMA HandleAppendKeeps ==
    ASSUME NEW h, IsHistory(h), NEW r, NEW s, NEW R, NEW A, NEW ps, NEW rs, NEW m, NEW D, NEW X,
           Fits(h, r, s, R, A, ps, rs, m, D, X),
           NEW t \in 1..MaxTerm, r.Term <= t, h[t].log # <<>>,
           NEW i \in 0..Len(h[t].log), NEW l \in Nat, i + l <= Len(h[t].log),
           NEW c \in 0..h[t].commit
    PROVE  LET msg == [index |-> i, commit |-> c, logTerm |-> IF i = 0 THEN 0 ELSE h[t].log[i],
                       entries |-> SubSeq(h[t].log, i + 1, i + l)]
               q == handleAppendEntries(adoptTerm(r, t), s, msg)
           IN  Fits(h, q, s, R, A, ps, rs, m, D, X) /\ Later(h, Now(r, s), Now(q, s))
<1> DEFINE L == h[t].log
           msg == [index |-> i, commit |-> c, logTerm |-> IF i = 0 THEN 0 ELSE L[i],
                   entries |-> SubSeq(L, i + 1, i + l)]
           z == adoptTerm(r, t)
           q == handleAppendEntries(z, s, msg)
<1>1. t \in Term /\ t \in Nat BY Bounds DEF Term
<1>2. /\ Fits(h, z, s, R, A, ps, rs, m, D, X) /\ z \in Node
      /\ Whole(z, s) = Whole(r, s) /\ z.Term = t
      /\ Later(h, Now(r, s), Now(z, s))
  BY <1>1, AdoptKeeps
<1>3. /\ L \in Log /\ Len(L) \in Nat /\ i \in Nat /\ i + l \in Nat /\ i + l <= Len(L)
      /\ L # <<>>
  BY LeadersHave
<1>4. /\ Good(h, Now(z, s)) /\ Good(h, Now(r, s)) /\ z.committed \in Nat
      /\ z.committed <= Len(Whole(z, s))
  BY <1>2, FitsIs, NodeIs
<1>5. /\ msg.index = i /\ msg.commit = c /\ msg.logTerm = (IF i = 0 THEN 0 ELSE L[i])
      /\ msg.entries = SubSeq(L, i + 1, i + l)
  OBVIOUS
<1>6. Commits(h, t, c)
  <2>1. h[t].commit \in Nat BY LeadersHave
  <2>2. c \in Nat /\ c <= h[t].commit BY <2>1
  <2> QED BY <2>2 DEF Commits
<1> HIDE DEF msg, z
<1>7. ASSUME NEW y, Fits(h, y, s, R, A, ps, rs, m, D, X), y.Term = t, Later(h, Now(r, s), Now(y, s)),
             NEW k \in Nat, Agree(Whole(y, s), L, k)
      PROVE  /\ Fits(h, ack(y, k), s, R, A, ps, rs, m, D, X)
             /\ Later(h, Now(r, s), Now(ack(y, k), s))
  <2>1. /\ Fits(h, ack(y, k), s, R, A, ps, rs, m, D, X)
        /\ Later(h, Now(y, s), Now(ack(y, k), s))
    BY <1>7, AckKeeps
  <2>2. Good(h, Now(y, s)) /\ Good(h, Now(ack(y, k), s)) BY <1>7, <2>1, FitsIs
  <2>3. Later(h, Now(r, s), Now(ack(y, k), s)) BY <1>4, <1>7, <2>1, <2>2, LaterTrans
  <2> QED BY <2>1, <2>3
<1>8. CASE i < z.committed
  <2>1. q = ack(z, z.committed) BY <1>5, <1>8 DEF handleAppendEntries
  <2>2. z.Term <= t BY <1>1, <1>2
  <2>3. Agree(Whole(z, s), L, z.committed) BY <1>2, <1>3, <1>4, <2>2, LeaderHas
  <2> HIDE DEF L, q
  <2> QED BY <1>2, <1>4, <1>7, <2>1, <2>3 DEF q, z, msg, L
<1>9. CASE ~(i < z.committed) /\ matchTerm(z, s, i, IF i = 0 THEN 0 ELSE L[i])
  <2> DEFINE y == maybeAppend(z, s, i, c, SubSeq(L, i + 1, i + l))
  <2>1. q = ack(y, i + Len(SubSeq(L, i + 1, i + l))) BY <1>5, <1>9 DEF handleAppendEntries
  <2>2. Len(SubSeq(L, i + 1, i + l)) = l
    <3> HIDE DEF L
    <3>1. i + 1 \in Nat \ {0} /\ i + l \in 0..Len(L) /\ i + 1 <= i + l + 1 BY <1>3
    <3>2. Len(SubSeq(L, i + 1, i + l)) = i + l - (i + 1) + 1 BY <1>3, <3>1, PartOf
    <3> QED BY <1>3, <3>2
  <2>3. Readable(h, z, s) BY <1>2, FitsReadable
  <2>4. z.committed <= i BY <1>3, <1>4, <1>9
  <2>5. Agree(Whole(z, s), L, i) BY <1>9, <2>3, <2>4, MatchAgrees
  <2>6. /\ z.Term \in 1..MaxTerm /\ i + l <= Len(h[z.Term].log)
        /\ Commits(h, z.Term, c) /\ Covers(z, i) /\ Agree(Whole(z, s), h[z.Term].log, i)
        /\ y = maybeAppend(z, s, i, c, SubSeq(h[z.Term].log, i + 1, i + l))
    BY <1>2, <1>3, <1>6, <2>4, <2>5 DEF Covers
  <2> HIDE DEF y
  <2>7. /\ Fits(h, y, s, R, A, ps, rs, m, D, X) /\ SameTerm(z, y)
        /\ Agree(Whole(y, s), h[z.Term].log, i + l)
        /\ Later(h, Now(z, s), Now(y, s))
    BY <1>2, <1>3, <2>6, MaybeAppendKeeps
  <2>8. Agree(Whole(y, s), L, i + l) /\ y.Term = t BY <1>2, <2>7 DEF SameTerm
  <2>9. Good(h, Now(y, s)) BY <2>7, FitsIs
  <2>10. Later(h, Now(r, s), Now(y, s)) BY <1>2, <1>4, <2>7, <2>9, LaterTrans
  <2>11. q = ack(y, i + l) BY <2>1, <2>2
  <2> HIDE DEF q, L
  <2> QED BY <1>3, <1>7, <2>7, <2>8, <2>10, <2>11 DEF q, z, msg, L
<1>10. CASE ~(i < z.committed) /\ ~matchTerm(z, s, i, IF i = 0 THEN 0 ELSE L[i])
  <2>1. q = z BY <1>5, <1>10 DEF handleAppendEntries
  <2> HIDE DEF q
  <2> QED BY <1>2, <2>1 DEF q, z, msg
<1> QED BY <1>8, <1>9, <1>10

\* MsgSnap of the leader of term t.
LEMMA HandleSnapshotKeeps ==
    ASSUME NEW h, IsHistory(h), NEW r, NEW s, NEW R, NEW A, NEW ps, NEW rs, NEW m, NEW D, NEW X,
           Fits(h, r, s, R, A, ps, rs, m, D, X),
           NEW t \in 1..MaxTerm, r.Term <= t, h[t].log # <<>>, NEW i \in 1..h[t].commit
    PROVE  LET q == handleSnapshot(adoptTerm(r, t), s, SubSeq(h[t].log, 1, i))
           IN  Fits(h, q, s, R, A, ps, rs, m, D, X) /\ Later(h, Now(r, s), Now(q, s))
<1> DEFINE L == h[t].log
           p == SubSeq(L, 1, i)
           z == adoptTerm(r, t)
           q == handleSnapshot(z, s, p)
<1>1. t \in Term /\ t \in Nat BY Bounds DEF Term
<1>2. /\ Fits(h, z, s, R, A, ps, rs, m, D, X) /\ z \in Node
      /\ Whole(z, s) = Whole(r, s) /\ z.Term = t
      /\ Later(h, Now(r, s), Now(z, s))
  BY <1>1, AdoptKeeps
<1>3. /\ L \in Log /\ Len(L) \in Nat /\ i \in Nat /\ i # 0 /\ i <= Len(L) /\ i <= h[t].commit
      /\ i \in 0..Len(L) /\ L # <<>>
  <2>1. L \in Log /\ Len(L) \in Nat /\ h[t].commit \in Nat /\ h[t].commit <= Len(L) BY LeadersHave
  <2>2. i \in Nat /\ i # 0 /\ i <= h[t].commit BY <2>1
  <2>3. L # <<>> OBVIOUS
  <2> HIDE DEF L
  <2> QED BY <2>1, <2>2, <2>3
<1>4. /\ Good(h, Now(z, s)) /\ Good(h, Now(r, s)) /\ z.committed \in Nat
      /\ z.committed <= Len(Whole(z, s)) /\ Whole(z, s) \in Log /\ Len(Whole(z, s)) \in Nat
      /\ True(h, Whole(z, s))
  <2>1. Good(h, Now(z, s)) BY <1>2, FitsIs
  <2>2. True(h, Whole(z, s)) BY <2>1 DEF Good, Now
  <2> QED BY <1>2, <2>1, <2>2, FitsIs, NodeIs
<1>5. p \in Log /\ Len(p) = i /\ p[i] = L[i] /\ Agree(p, L, i)
  <2>1. i \in 1..i BY <1>3
  <2> HIDE DEF L
  <2> QED BY <1>3, <2>1, PrefixOf
<1>6. Last(p) = L[i] BY <1>5 DEF Last
<1>7. p = SubSeq(h[z.Term].log, 1, i) /\ z.Term \in 1..MaxTerm BY <1>2
<1> HIDE DEF p, z
<1>8. ASSUME NEW y, Fits(h, y, s, R, A, ps, rs, m, D, X), SameTerm(z, y),
             Later(h, Now(z, s), Now(y, s)), NEW k \in Nat, Agree(Whole(y, s), L, k)
      PROVE  /\ Fits(h, ack(y, k), s, R, A, ps, rs, m, D, X)
             /\ Later(h, Now(r, s), Now(ack(y, k), s))
  <2>0. y.Term = t BY <1>2, <1>8 DEF SameTerm
  <2>1. /\ Fits(h, ack(y, k), s, R, A, ps, rs, m, D, X)
        /\ Later(h, Now(y, s), Now(ack(y, k), s))
    BY <1>8, <2>0, AckKeeps
  <2>2. Good(h, Now(y, s)) /\ Good(h, Now(ack(y, k), s)) BY <1>8, <2>1, FitsIs
  <2>3. Later(h, Now(r, s), Now(y, s)) BY <1>2, <1>4, <1>8, <2>2, LaterTrans
  <2>4. Later(h, Now(r, s), Now(ack(y, k), s)) BY <1>4, <2>1, <2>2, <2>3, LaterTrans
  <2> QED BY <2>1, <2>4
<1>9. CASE i <= z.committed
  <2>1. q = ack(z, z.committed) BY <1>5, <1>9 DEF handleSnapshot
  <2>2. z.Term <= t BY <1>1, <1>2
  <2>3. Agree(Whole(z, s), L, z.committed) BY <1>2, <1>3, <1>4, <2>2, LeaderHas
  <2>4. Later(h, Now(z, s), Now(z, s)) /\ SameTerm(z, z) BY <1>4, LaterRefl DEF SameTerm
  <2> HIDE DEF L, q
  <2> QED BY <1>2, <1>4, <1>8, <2>1, <2>3, <2>4 DEF q, p, z, L
<1>10. CASE ~(i <= z.committed) /\ matchTerm(z, s, i, L[i])
  <2> DEFINE y == commitTo(z, s, i)
  <2>1. q = ack(y, i) BY <1>5, <1>6, <1>10 DEF handleSnapshot
  <2>2. Readable(h, z, s) BY <1>2, FitsReadable
  <2>3. z.committed <= i /\ L[i] = (IF i = 0 THEN 0 ELSE L[i]) BY <1>3, <1>4, <1>10
  <2>4. Agree(Whole(z, s), L, i) BY <1>3, <1>10, <2>2, <2>3, MatchAgrees
  <2>5. Commits(h, z.Term, i) /\ Agree(Whole(z, s), h[z.Term].log, i)
    BY <1>2, <1>3, <2>4 DEF Commits
  <2>6. /\ Fits(h, y, s, R, A, ps, rs, m, D, X)
        /\ Whole(y, s) = Whole(z, s) /\ SameTerm(z, y) /\ Later(h, Now(z, s), Now(y, s))
    BY <1>2, <1>7, <2>5, CommitKeeps
  <2> HIDE DEF y
  <2>7. Agree(Whole(y, s), L, i) BY <2>4, <2>6
  <2> HIDE DEF L, q
  <2> QED BY <1>3, <1>8, <2>1, <2>6, <2>7 DEF q, p, z, L
<1>11. CASE ~(i <= z.committed) /\ ~matchTerm(z, s, i, L[i])
  <2> DEFINE y == restored(z, p)
  <2>1. q = ack(y, i) BY <1>5, <1>6, <1>11 DEF handleSnapshot, restored
  <2>2. Readable(h, z, s) BY <1>2, FitsReadable
  <2>3. z.committed <= i /\ z.committed < i /\ L[i] = (IF i = 0 THEN 0 ELSE L[i])
    BY <1>3, <1>4, <1>11
  <2>4. ~Agree(Whole(z, s), L, i) BY <1>3, <1>11, <2>2, <2>3, MatchAgrees
  <2>5. /\ Commits(h, z.Term, i) /\ h[z.Term].log # <<>>
        /\ ~Agree(Whole(z, s), h[z.Term].log, i)
    BY <1>2, <1>3, <2>4 DEF Commits
  <2>6. y = restored(z, SubSeq(h[z.Term].log, 1, i)) BY <1>7
  <2> HIDE DEF y
  <2>7. /\ Fits(h, y, s, R, A, ps, rs, m, D, X)
        /\ Whole(y, s) = p /\ SameTerm(z, y) /\ Later(h, Now(z, s), Now(y, s))
    BY <1>2, <1>3, <1>7, <2>5, <2>6, RestoreKeeps
  <2>8. Agree(Whole(y, s), L, i) BY <1>5, <2>7
  <2> HIDE DEF L, q
  <2> QED BY <1>3, <1>8, <2>1, <2>7, <2>8 DEF q, p, z, L
<1> QED BY <1>9, <1>10, <1>11

\* MsgHeartbeat of the leader of term t commits no more than was acknowledged to it.
LEMMA HandleHeartbeatKeeps ==
    ASSUME NEW h, IsHistory(h), NEW r, NEW s, NEW R, NEW A, NEW ps, NEW rs, NEW m, NEW D, NEW X,
           NEW acked, Fits(h, r, s, R, A, ps, rs, m, D, X), Kept(h, s, R, m, acked),
           NEW t \in 1..MaxTerm, r.Term <= t, NEW c \in 1..h[t].commit, c <= acked[t]
    PROVE  LET q == commitTo(adoptTerm(r, t), s, c)
           IN  Fits(h, q, s, R, A, ps, rs, m, D, X) /\ Later(h, Now(r, s), Now(q, s))
<1> DEFINE L == h[t].log
           z == adoptTerm(r, t)
           q == commitTo(z, s, c)
<1>1. t \in Term /\ t \in Nat /\ t # 0 BY Bounds DEF Term
<1>2. /\ Fits(h, z, s, R, A, ps, rs, m, D, X) /\ z \in Node
      /\ Whole(z, s) = Whole(r, s) /\ z.Term = t
      /\ Later(h, Now(r, s), Now(z, s))
  BY <1>1, AdoptKeeps
<1>3. /\ r \in Node /\ s \in Storage /\ Good(h, Now(r, s)) /\ Good(h, Stored(s)) /\ Good(h, Now(z, s))
      /\ Later(h, Stored(s), Now(r, s))
  BY <1>2, FitsIs
<1>4. h[t].commit \in Nat /\ L \in Log /\ Len(L) \in Nat BY LeadersHave
<1>5. acked[t] \in Nat /\ acked[t] > 0 /\ c \in Nat
  <2>1. acked[t] \in Index BY DEF Kept
  <2>2. acked[t] \in Nat /\ c \in Nat /\ c # 0 BY <1>4, <2>1 DEF Index
  <2> QED BY <2>2
<1>6. t <= s.hs.Term /\ (t = s.hs.Term => Agree(s.log, LeaderLog(h, t), acked[t]))
  BY <1>5 DEF Kept
<1>7. s.hs.Term <= r.Term BY <1>3 DEF Later, Stored, Now
<1>8. s.hs.Term = t /\ r.Term = t
  <2>1. s.hs.Term \in Nat /\ r.Term \in Nat BY <1>3, NodeIs, StorageIs
  <2> QED BY <1>1, <1>6, <1>7, <2>1
<1>9. Agree(s.log, LeaderLog(h, t), c)
  <2>1. Agree(s.log, LeaderLog(h, t), acked[t]) BY <1>6, <1>8
  <2>2. Len(s.log) \in Nat /\ Len(LeaderLog(h, t)) \in Nat BY <1>1, <1>3, StorageIs, LeaderLogs
  <2> QED BY <1>5, <2>1, <2>2, AgreeLess
<1>10. Agree(Whole(r, s), LeaderLog(h, t), c)
  <2>1. /\ Stored(s).Term = t /\ Now(r, s).Term = t
        /\ Stored(s).log = s.log /\ Now(r, s).log = Whole(r, s)
    BY <1>8 DEF Stored, Now
  <2>2. Agree(Stored(s).log, LeaderLog(h, Stored(s).Term), c) BY <1>9, <2>1
  <2>3. Stored(s).Term = Now(r, s).Term BY <2>1
  <2>4. Agree(Now(r, s).log, LeaderLog(h, Stored(s).Term), c)
    BY <1>3, <1>5, <2>2, <2>3, LaterKeeps
  <2> QED BY <2>1, <2>4
<1>11. LeaderLog(h, t) = L BY <1>1 DEF LeaderLog
<1>12. Commits(h, z.Term, c) /\ Agree(Whole(z, s), h[z.Term].log, c) /\ z.Term \in 1..MaxTerm
  <2>1. c <= h[t].commit BY <1>4
  <2> QED BY <1>2, <1>5, <1>10, <1>11, <2>1 DEF Commits
<1> HIDE DEF z
<1>13. Fits(h, q, s, R, A, ps, rs, m, D, X) /\ Later(h, Now(z, s), Now(q, s))
  BY <1>2, <1>12, CommitKeeps
<1> HIDE DEF q
<1>14. Good(h, Now(q, s)) BY <1>13, FitsIs
<1>15. Later(h, Now(r, s), Now(q, s)) BY <1>2, <1>3, <1>13, <1>14, LaterTrans
<1> QED BY <1>13, <1>15 DEF q, z

----------------------------------------------------------------------------
(* Ready: a new point *)

\* acceptReady, but for the entries that go to the apply thread.
accepted(r) == [r EXCEPT !.prev = hardState(r), !.after = <<>>, !.u = acceptInProgress(r.u)]

LEMMA AcceptedIs ==
    ASSUME NEW r \in Node, UnstableOK(r.u)
    PROVE  LET q == accepted(r)
           IN  /\ q \in Node /\ q.panic = r.panic /\ UnstableOK(q.u)
               /\ q.committed = r.committed /\ q.applying = r.applying /\ q.applied = r.applied
               /\ q.applyingSize = r.applyingSize /\ q.applyingPaused = r.applyingPaused
               /\ q.Term = r.Term /\ q.after = <<>>
               /\ q.u.entries = r.u.entries /\ q.u.offset = r.u.offset
               /\ q.u.snapshot = r.u.snapshot
               /\ q.u.snapshotInProgress = IsSnapshot(r.u.snapshot)
               /\ nextEntries(q.u) = <<>> /\ nextSnapshot(q) = None
               /\ nextEntries(r.u) = <<>> /\ nextSnapshot(r) = None => q.u = r.u
<1> DEFINE u == r.u
           v == acceptInProgress(u)
           q == accepted(r)
           l == Len(u.entries)
           o == u.offset
           k == u.offsetInProgress
<1>1. /\ u \in Unstable /\ u.entries \in Log /\ l \in Nat /\ o \in Nat \ {0} /\ k \in Nat \ {0}
      /\ u.snapshot \in Log /\ u.snapshotInProgress \in BOOLEAN
      /\ r.committed \in Index /\ r.Term \in Term
  BY NodeIs DEF Node
<1>2. /\ o <= k /\ k <= o + l
      /\ IsSnapshot(u.snapshot) => o = Len(u.snapshot) + 1
      /\ ~IsSnapshot(u.snapshot) => ~u.snapshotInProgress
      /\ IsSnapshot(u.snapshot) /\ ~u.snapshotInProgress => k = o
  BY DEF UnstableOK
<1>3. (u.entries = <<>>) <=> l = 0 BY <1>1, SnapshotEmpty
<1> DEFINE e == IF u.entries # <<>> THEN o + l ELSE k
<1>4. e = o + l /\ e \in Nat \ {0}
  <2> HIDE DEF o, l, k
  <2> QED BY <1>1, <1>2, <1>3
<1>5. /\ v \in Unstable
      /\ v.entries = u.entries /\ v.offset = o /\ v.snapshot = u.snapshot
      /\ v.offsetInProgress = e /\ v.snapshotInProgress = IsSnapshot(u.snapshot)
  <2>1. v = [u EXCEPT !.offsetInProgress = e, !.snapshotInProgress = IsSnapshot(u.snapshot)]
    BY DEF acceptInProgress
  <2>2. IsSnapshot(u.snapshot) \in BOOLEAN BY DEF IsSnapshot
  <2> HIDE DEF v, e
  <2> QED BY <1>1, <1>4, <2>1, <2>2 DEF Unstable
<1> HIDE DEF v
<1>6. hardState(r) \in HardState BY <1>1 DEF hardState, HardState
<1>7. <<>> \in Seq(Ack) OBVIOUS
<1>8. /\ q \in Node /\ q.panic = r.panic /\ q.u = v
      /\ q.committed = r.committed /\ q.applying = r.applying /\ q.applied = r.applied
      /\ q.applyingSize = r.applyingSize /\ q.applyingPaused = r.applyingPaused
      /\ q.Term = r.Term /\ q.after = <<>>
  <2>1. q = [r EXCEPT !.prev = hardState(r), !.after = <<>>, !.u = v] BY DEF accepted, v
  <2> HIDE DEF q, u
  <2> QED BY <1>5, <1>6, <1>7, <2>1 DEF Node
<1> HIDE DEF q
<1>9. UnstableOK(v)
  <2>1. v.offset <= v.offsetInProgress /\ v.offsetInProgress <= v.offset + Len(v.entries)
    <3> HIDE DEF o, l, e
    <3> QED BY <1>1, <1>4, <1>5 DEF l
  <2> HIDE DEF u, o, l, e
  <2>2. IsSnapshot(v.snapshot) => v.offset = Len(v.snapshot) + 1 BY <1>2, <1>5
  <2> QED BY <1>5, <2>1, <2>2 DEF UnstableOK
<1>10. nextEntries(v) = <<>>
  <2>1. nextEntries(v) = SubSeq(u.entries, e - o + 1, l) BY <1>5 DEF nextEntries
  <2>2. e - o + 1 = l + 1
    <3> HIDE DEF e, o, l
    <3> QED BY <1>1, <1>4
  <2>3. l + 1 \in Nat \ {0} /\ l \in 0..Len(u.entries) /\ l + 1 <= l + 1 /\ l - (l + 1) + 1 = 0
    BY <1>1
  <2> HIDE DEF e, o
  <2> DEFINE z == SubSeq(u.entries, l + 1, l)
  <2>4. z \in Log /\ Len(z) = l - (l + 1) + 1 BY <1>1, <2>3, PartOf
  <2>5. z = <<>>
    <3> HIDE DEF z, l
    <3> QED BY <2>3, <2>4, SnapshotEmpty
  <2> QED BY <2>1, <2>2, <2>5
<1>11. nextSnapshot(q) = None
  <2>1. nextSnapshot(q) = IF v.snapshotInProgress THEN None ELSE v.snapshot BY <1>8 DEF nextSnapshot
  <2> QED BY <1>5, <2>1 DEF IsSnapshot
<1>12. ASSUME nextEntries(u) = <<>>, nextSnapshot(r) = None PROVE v = u
  <2>1. k = e
    <3> DEFINE y == k - o + 1
    <3>1. y \in Nat \ {0} /\ l \in 0..Len(u.entries) /\ y <= l + 1 /\ l - y + 1 = o + l - k
      <4>1. l \in 0..l BY <1>1
      <4> HIDE DEF o, k
      <4>2. l \in 0..Len(u.entries) BY <4>1
      <4> HIDE DEF l
      <4> QED BY <1>1, <1>2, <4>2
    <3>2. nextEntries(u) = SubSeq(u.entries, y, l) BY DEF nextEntries
    <3> HIDE DEF y
    <3>3. Len(nextEntries(u)) = l - y + 1 BY <1>1, <3>1, <3>2, PartOf
    <3>4. Len(nextEntries(u)) = 0 BY <1>12
    <3>5. o + l - k = 0 BY <3>1, <3>3, <3>4
    <3> HIDE DEF o, l, k, e
    <3> QED BY <1>1, <1>4, <3>5
  <2>2. u.snapshotInProgress = IsSnapshot(u.snapshot)
    <3>1. u.snapshotInProgress \/ u.snapshot = None BY <1>12 DEF nextSnapshot
    <3> QED BY <1>1, <1>2, <3>1 DEF IsSnapshot
  <2> HIDE DEF e
  <2> QED BY <1>1, <1>5, <2>1, <2>2 DEF Unstable
<1> QED BY <1>5, <1>8, <1>9, <1>10, <1>11, <1>12 DEF q

\* What is asked of the append thread, and what its response will tell.
LEMMA AsksNow ==
    ASSUME NEW h, IsHistory(h), NEW r, NEW s, Readable(h, r, s)
    PROVE  Asks(h, newStorageAppendMsg(r, s), Now(r, s))
<1> DEFINE u == r.u
           w == Whole(r, s)
           at == IF u.entries # <<>> THEN lastIndex(r, s) ELSE 0
           a == newStorageAppendMsg(r, s)
<1>1. /\ NodeOK(h, r, s) /\ s \in Storage /\ r \in Node /\ UnstableOK(u)
      /\ w \in Log /\ Len(w) \in Nat /\ True(h, w) /\ Len(w) = u.offset - 1 + Len(u.entries)
      /\ r.committed \in Nat /\ r.committed <= Len(w)
  <2>1. NodeOK(h, r, s) /\ s \in Storage BY DEF Readable
  <2> QED BY <2>1, ReadableIs
<1>2. /\ u.entries \in Log /\ Len(u.entries) \in Nat /\ u.snapshot \in Log /\ Len(u.snapshot) \in Nat
      /\ u.offset \in Nat \ {0} /\ u.offsetInProgress \in Nat \ {0} /\ r.after \in Seq(Ack)
      /\ r.Term \in Term /\ r.committed \in Index
  BY <1>1, NodeIs DEF Node
<1>3. /\ IsSnapshot(u.snapshot) => Len(u.snapshot) <= r.committed
      /\ ~IsSnapshot(u.snapshot) => u.offset - 1 <= Len(s.log)
      /\ Good(h, Now(r, s)) /\ Supports(h, Now(r, s), r.after)
  BY <1>1 DEF NodeOK
<1>4. lastIndex(r, s) = Len(w) BY LastIs
<1>5. Len(w) \in Index
  <2>1. Len(w) <= MaxLog BY <1>1, TrueShort
  <2> QED BY <1>1, <2>1, Bounds DEF Index
<1>6. at = 0 \/ (at = Len(w) /\ at # 0 /\ termAt(r, s, at) = w[at] /\ w[at] \in Term)
  <2> SUFFICES ASSUME u.entries # <<>>
               PROVE  Len(w) # 0 /\ termAt(r, s, Len(w)) = w[Len(w)] /\ w[Len(w)] \in Term
    BY <1>4
  <2>1. Len(u.entries) # 0 BY <1>2, SnapshotEmpty
  <2>2. Len(w) # 0
    <3> DEFINE o == u.offset
               l == Len(u.entries)
    <3>1. o \in Nat \ {0} /\ l \in Nat /\ l # 0 /\ Len(w) = o - 1 + l BY <1>1, <1>2, <2>1
    <3> HIDE DEF o, l, w
    <3> QED BY <3>1
  <2>3. Len(w) + 1 >= firstIndex(r, s)
    <3>1. firstIndex(r, s) \in Nat \ {0} /\ firstIndex(r, s) <= r.committed + 1 BY FirstIs
    <3> HIDE DEF w
    <3> QED BY <1>1, <3>1
  <2>4. Len(w) <= Len(w) BY <1>1
  <2>5. termAt(r, s, Len(w)) = w[Len(w)] BY <1>1, <2>2, <2>3, <2>4, TermIs
  <2>6. Len(w) \in 1..Len(w)
    <3> HIDE DEF w
    <3> QED BY <1>1, <2>2
  <2>7. w[Len(w)] \in Term BY <1>1, <2>6, LogElement
  <2> QED BY <2>2, <2>5, <2>7
<1> DEFINE lt == IF at = 0 THEN 0 ELSE termAt(r, s, at)
<1>7. at \in Index /\ lt \in Term
  <2>1. 0 \in Index /\ 0 \in Term BY Bounds DEF Index, Term
  <2> QED BY <1>5, <1>6, <2>1
<1>8. nextEntries(u) \in Log
  <2> DEFINE o == u.offset
             k == u.offsetInProgress
             l == Len(u.entries)
             y == k - o + 1
  <2>1. o <= k /\ k <= o + l BY <1>1 DEF UnstableOK
  <2>2. y \in Nat \ {0} /\ l \in 0..Len(u.entries) /\ y <= l + 1
    <3>1. l \in 0..l BY <1>2
    <3> HIDE DEF o, k
    <3>2. l \in 0..Len(u.entries) BY <3>1
    <3> HIDE DEF l
    <3> QED BY <1>2, <2>1, <3>2 DEF o, k, l
  <2>3. nextEntries(u) = SubSeq(u.entries, y, l) BY DEF nextEntries
  <2> HIDE DEF y, l
  <2> QED BY <1>2, <2>2, <2>3, PartOf
<1>9. nextSnapshot(r) \in Log /\ (nextSnapshot(r) = None \/ nextSnapshot(r) = u.snapshot)
  BY <1>2 DEF nextSnapshot, None, Log
<1>10. hardState(r) \in HardState BY <1>2 DEF hardState, HardState
<1>11. needStorageAppendRespMsg(r) \in BOOLEAN BY DEF needStorageAppendRespMsg, IsSnapshot
<1>12. a = [first |-> u.offsetInProgress, entries |-> nextEntries(u), hs |-> hardState(r),
            snapshot |-> nextSnapshot(r), acks |-> r.after, term |-> r.Term,
            index |-> at, logTerm |-> lt, responds |-> needStorageAppendRespMsg(r)]
  BY DEF newStorageAppendMsg
<1> HIDE DEF at, lt, a
<1>13. a \in AppendMsg BY <1>2, <1>7, <1>8, <1>9, <1>10, <1>11, <1>12 DEF AppendMsg
<1>14. Now(r, s).log = w /\ Now(r, s).Term = r.Term /\ Now(r, s).Commit = r.committed BY DEF Now
<1>15. a.hs.Term = r.Term /\ a.hs.Commit = r.committed /\ a.term = r.Term
  BY <1>12 DEF hardState
<1>16. a.index = 0 \/ (a.index = Len(w) /\ a.logTerm = w[a.index])
  <2>1. a.index = at /\ a.logTerm = lt BY <1>12
  <2> QED BY <1>6, <2>1 DEF lt
<1>17. Len(a.snapshot) <= r.committed /\ Agree(a.snapshot, w, Len(a.snapshot))
  <2>1. a.snapshot = nextSnapshot(r) BY <1>12
  <2>2. CASE ~IsSnapshot(a.snapshot)
    <3>1. a.snapshot = <<>> /\ Len(a.snapshot) = 0 BY <2>2 DEF IsSnapshot, None
    <3> QED BY <1>1, <1>9, <2>1, <3>1, AgreeNone
  <2>3. CASE IsSnapshot(a.snapshot)
    <3>1. a.snapshot = u.snapshot BY <1>9, <2>1, <2>3 DEF IsSnapshot
    <3>2. u.offset - 1 = Len(u.snapshot) BY <1>1, <1>2, <2>3, <3>1 DEF UnstableOK
    <3>3. Agree(w, u.snapshot, u.offset - 1) BY <1>1, <1>3, <2>3, <3>1, WholeIs
    <3>4. Agree(u.snapshot, w, Len(u.snapshot)) BY <3>2, <3>3, AgreeSym
    <3> QED BY <1>3, <2>3, <3>1, <3>4
  <2> QED BY <2>2, <2>3
<1>18. Supports(h, Now(r, s), a.acks) BY <1>3, <1>12
<1>19. IsSnapshot(a.snapshot) => a.responds
  <2>1. a.snapshot = nextSnapshot(r) /\ a.responds = needStorageAppendRespMsg(r) BY <1>12
  <2> QED BY <2>1 DEF needStorageAppendRespMsg
<1> QED BY <1>13, <1>14, <1>15, <1>16, <1>17, <1>18, <1>19 DEF Asks, a

LEMMA AcceptKeeps ==
    ASSUME NEW h, IsHistory(h), NEW r, NEW s, NEW R, NEW A, NEW ps, NEW rs, NEW m, NEW D, NEW X,
           Fits(h, r, s, R, A, ps, rs, m, D, X)
    PROVE  LET q == accepted(r)
               B == IF needStorageAppendMsg(r) THEN Append(A, newStorageAppendMsg(r, s)) ELSE A
           IN  Whole(q, s) = Whole(r, s) /\ \E Y : Fits(h, q, s, R, B, ps, rs, m, D, Y)
<1> DEFINE q == accepted(r)
           a == newStorageAppendMsg(r, s)
           w == Whole(r, s)
           x == Now(r, s)
<1>1. /\ r \in Node /\ s \in Storage /\ ~r.panic /\ UnstableOK(r.u)
      /\ w \in Log /\ Len(w) \in Nat
      /\ r.committed <= Len(w) /\ Good(h, x)
      /\ Len(X) \in Nat \ {0}
      /\ \A i \in 1..Len(X) : /\ Good(h, X[i]) /\ Later(h, X[i], x)
                              /\ X[i].Commit \in Nat /\ X[i].Commit <= r.committed
  BY FitsIs
<1>2. /\ q \in Node /\ q.panic = r.panic /\ UnstableOK(q.u)
      /\ q.committed = r.committed /\ q.applying = r.applying /\ q.applied = r.applied
      /\ q.Term = r.Term /\ q.after = <<>>
      /\ q.u.entries = r.u.entries /\ q.u.offset = r.u.offset
      /\ q.u.snapshot = r.u.snapshot
      /\ q.u.snapshotInProgress = IsSnapshot(r.u.snapshot)
      /\ nextEntries(q.u) = <<>> /\ nextSnapshot(q) = None
      /\ nextEntries(r.u) = <<>> /\ nextSnapshot(r) = None => q.u = r.u
  BY <1>1, AcceptedIs
<1> HIDE DEF q
<1>3. Whole(q, s) = w BY <1>2 DEF Whole
<1>4. Now(q, s) = x BY <1>2, <1>3 DEF Now
<1>5. x.log = w /\ x.Term = r.Term /\ x.Commit = r.committed /\ x \in Point
  BY <1>1, PointIs DEF Now
<1>6. Supports(h, Now(q, s), q.after)
  <2>1. <<>> \in Seq(Ack) /\ 1..Len(<<>>) = {} OBVIOUS
  <2> QED BY <1>2, <2>1 DEF Supports
<1>7. CASE ~needStorageAppendMsg(r)
  <2>1. nextEntries(r.u) = <<>> /\ nextSnapshot(r) = None
    BY <1>7 DEF needStorageAppendMsg, IsSnapshot
  <2>2. r.Term <= q.Term /\ r.committed <= q.committed BY <1>1, <1>2, NodeIs
  <2>3. Good(h, Now(q, s)) BY <1>1, <1>4
  <2>4. Fits(h, q, s, R, A, ps, rs, m, D, X) BY <1>1, <1>2, <1>6, <2>1, <2>2, <2>3, SameLog
  <2> QED BY <1>3, <1>7, <2>4 DEF q
<1>8. CASE needStorageAppendMsg(r)
  <2> DEFINE B == Append(A, a)
             Y == Append(X, x)
  <2>1. /\ D \in Seq(Point) /\ X \in Seq(Point) /\ R \in Seq(AppendMsg) /\ A \in Seq(AppendMsg)
        /\ Len(D) = Len(R) /\ Len(X) = Len(A) + 1 /\ X[1] = Stored(s)
        /\ \A i \in 1..Len(D) : Good(h, D[i]) /\ Asks(h, R[i], D[i]) /\ Later(h, D[i], X[1])
        /\ \A i \in 1..Len(A) :
             /\ Asks(h, A[i], X[i + 1])
             /\ Writes(X[i], A[i].snapshot, A[i].first, A[i].entries, X[i + 1])
        /\ \A i, j \in 1..Len(D) : i < j => Before(h, D[i], R[j], D[j])
        /\ \A i, j \in 1..Len(X) : i < j => Before(h, X[i], A[j - 1], X[j])
    BY DEF Fits, Past
  <2>2. Readable(h, r, s) BY FitsReadable
  <2>3. Asks(h, a, x) BY <2>2, AsksNow
  <2> HIDE DEF a, x
  <2>4. a \in AppendMsg /\ Len(A) \in Nat BY <2>1, <2>3, LenProperties DEF Asks
  <2>5. /\ B \in Seq(AppendMsg) /\ Len(B) = Len(A) + 1 /\ B[Len(A) + 1] = a
        /\ \A i \in 1..Len(A) : B[i] = A[i]
    BY <2>1, <2>4, AppendProperties
  <2>6. /\ Y \in Seq(Point) /\ Len(Y) = Len(X) + 1 /\ Y[Len(X) + 1] = x
        /\ \A i \in 1..Len(X) : Y[i] = X[i]
    BY <1>5, <2>1, AppendProperties
  <2> HIDE DEF B, Y
  <2>7. \A i \in 1..Len(Y) : i \in 1..Len(X) \/ (i = Len(X) + 1 /\ Y[i] = x) BY <1>1, <2>6
  <2>8. 1 \in 1..Len(X) /\ Len(X) \in 1..Len(X) /\ Y[1] = X[1] BY <1>1, <2>6
  <2>9. Writes(X[Len(X)], a.snapshot, a.first, a.entries, x)
    <3>1. Owed(r, s, X) BY DEF Fits, Present
    <3>2. /\ a.snapshot = nextSnapshot(r) /\ a.first = r.u.offsetInProgress
          /\ a.entries = nextEntries(r.u)
      BY DEF a, newStorageAppendMsg
    <3> QED BY <3>1, <3>2 DEF Owed, x
  <2>10. Later(h, x, x) BY <1>1, LaterRefl
  <2>11. \A i \in 1..Len(Y) : Good(h, Y[i]) /\ Later(h, Y[i], x) BY <1>1, <2>6, <2>7, <2>10
  <2>12. ASSUME NEW i \in 1..Len(X) PROVE Before(h, X[i], a, x)
    <3>1. X[i].Commit <= X[Len(X)].Commit
      <4>1. CASE i = Len(X) BY <1>1, <2>8, <4>1
      <4>2. CASE i # Len(X)
        <5>1. i < Len(X) BY <1>1, <4>2
        <5>2. Before(h, X[i], A[Len(X) - 1], X[Len(X)]) BY <2>1, <2>8, <5>1
        <5> QED BY <5>2 DEF Before, Later
      <4> QED BY <4>1, <4>2
    <3>2. IsSnapshot(a.snapshot) => X[i].Commit < Len(a.snapshot)
      <4> SUFFICES ASSUME IsSnapshot(a.snapshot) PROVE X[i].Commit < Len(a.snapshot) OBVIOUS
      <4>1. X[Len(X)].Commit < Len(a.snapshot) BY <2>9 DEF Writes
      <4>2. a.snapshot \in Log BY <2>4 DEF AppendMsg
      <4>3. Len(a.snapshot) \in Nat BY <4>2, LenProperties DEF Log
      <4>4. X[i].Commit \in Nat /\ X[Len(X)].Commit \in Nat BY <1>1, <2>8
      <4> DEFINE b == X[i].Commit
                 c == X[Len(X)].Commit
                 d == Len(a.snapshot)
      <4>5. b <= c /\ c < d /\ b \in Nat /\ c \in Nat /\ d \in Nat BY <3>1, <4>1, <4>3, <4>4
      <4> HIDE DEF b, c, d
      <4>6. b < d BY <4>5
      <4> QED BY <4>6 DEF b, d
    <3> QED BY <1>1, <3>2 DEF Before
  <2>13. Past(h, s, R, B, D, Y)
    <3>1. Len(Y) = Len(B) + 1 /\ Y[1] = Stored(s) BY <2>1, <2>5, <2>6, <2>8
    <3>2. ASSUME NEW i \in 1..Len(B)
          PROVE  /\ Asks(h, B[i], Y[i + 1])
                 /\ Writes(Y[i], B[i].snapshot, B[i].first, B[i].entries, Y[i + 1])
      <4>1. CASE i = Len(A) + 1
        <5>1. i = Len(X) /\ B[i] = a /\ Y[i + 1] = x /\ Y[i] = X[Len(X)]
          BY <2>1, <2>5, <2>6, <2>8, <4>1
        <5> QED BY <2>3, <2>9, <5>1
      <4>2. CASE i # Len(A) + 1
        <5>1. i \in 1..Len(A) /\ i \in 1..Len(X) /\ i + 1 \in 1..Len(X) BY <2>1, <2>4, <2>5, <4>2
        <5>2. B[i] = A[i] /\ Y[i + 1] = X[i + 1] /\ Y[i] = X[i] BY <2>5, <2>6, <5>1
        <5> QED BY <2>1, <5>1, <5>2
      <4> QED BY <4>1, <4>2
    <3>3. ASSUME NEW i \in 1..Len(Y), NEW j \in 1..Len(Y), i < j
          PROVE  Before(h, Y[i], B[j - 1], Y[j])
      <4>1. i \in 1..Len(X) /\ Y[i] = X[i] BY <1>1, <2>6, <3>3
      <4>2. CASE j = Len(X) + 1
        <5>1. B[j - 1] = a /\ Y[j] = x
          <6>1. j - 1 = Len(A) + 1 BY <2>1, <2>4, <4>2
          <6> QED BY <2>5, <2>6, <4>2, <6>1
        <5> QED BY <2>12, <4>1, <5>1
      <4>3. CASE j # Len(X) + 1
        <5>1. j \in 1..Len(X) /\ j - 1 \in 1..Len(A) BY <1>1, <2>1, <2>4, <2>6, <3>3, <4>3
        <5>2. B[j - 1] = A[j - 1] /\ Y[j] = X[j] BY <2>5, <2>6, <5>1
        <5> QED BY <2>1, <3>3, <4>1, <5>1, <5>2
      <4> QED BY <4>2, <4>3
    <3> QED BY <2>1, <2>5, <2>6, <2>8, <2>11, <3>1, <3>2, <3>3 DEF Past
  <2>14. Ahead(h, q, s, Y) BY <1>4, <2>11 DEF Ahead
  <2>15. Owed(q, s, Y)
    <3>1. Y[Len(Y)] = x BY <2>6
    <3>2. Writes(x, None, q.u.offsetInProgress, <<>>, x) BY DEF Writes, IsSnapshot
    <3> QED BY <1>2, <1>4, <3>1, <3>2 DEF Owed
  <2>16. Settled(q, s, Y)
    <3>1. Settled(r, s, X) BY DEF Fits, Present
    <3>2. r.applying \in Nat /\ r.applying <= Len(w) /\ r.u.offset - 1 \in Nat /\ r.u.offset - 1 <= Len(w)
      <4>1. /\ r.applying <= r.committed /\ Len(w) = r.u.offset - 1 + Len(r.u.entries)
        BY FitsIs
      <4>2. /\ r.applying \in Nat /\ r.committed \in Nat /\ r.u.offset \in Nat \ {0}
            /\ Len(r.u.entries) \in Nat
        BY <1>1, NodeIs
      <4>3. r.applying <= Len(w) BY <1>1, <4>1, <4>2
      <4> DEFINE o == r.u.offset
                 l == Len(r.u.entries)
      <4>4. o \in Nat \ {0} /\ l \in Nat /\ Len(w) = o - 1 + l BY <4>1, <4>2
      <4> HIDE DEF o, l, w
      <4>5. o - 1 \in Nat /\ o - 1 <= Len(w) BY <4>4
      <4> QED BY <4>2, <4>3, <4>5 DEF o
    <3>3. Agree(w, w, r.applying) /\ Agree(w, w, r.u.offset - 1) BY <1>1, <3>2, AgreeSame
    <3>4. ASSUME NEW i \in 1..Len(Y)
          PROVE  /\ Agree(Y[i].log, w, r.applying)
                 /\ ~IsSnapshot(r.u.snapshot) \/ Len(r.u.snapshot) <= Y[i].Commit =>
                      /\ Agree(Y[i].log, w, r.u.offset - 1)
                      /\ r.u.entries = <<>> => Y[i].log = w
      <4>1. CASE i \in 1..Len(X)
        <5>1. Y[i] = X[i] BY <2>6, <4>1
        <5> QED BY <3>1, <4>1, <5>1 DEF Settled
      <4>2. CASE Y[i] = x BY <1>5, <3>3, <4>2
      <4> QED BY <2>7, <4>1, <4>2
    <3> QED BY <1>2, <1>3, <3>4 DEF Settled
  <2>17. Carried(q, R, B)
    <3> SUFFICES ASSUME IsSnapshot(r.u.snapshot)
                 PROVE  \/ \E i \in 1..Len(R) : R[i].snapshot = r.u.snapshot
                        \/ \E i \in 1..Len(B) : B[i].snapshot = r.u.snapshot
      BY <1>2 DEF Carried
    <3>1. CASE r.u.snapshotInProgress
      <4>1. \/ \E i \in 1..Len(R) : R[i].snapshot = r.u.snapshot
            \/ \E i \in 1..Len(A) : A[i].snapshot = r.u.snapshot
        BY <3>1 DEF Fits, Present, Carried
      <4>2. \A i \in 1..Len(A) : i \in 1..Len(B) /\ B[i] = A[i] BY <2>4, <2>5
      <4> QED BY <4>1, <4>2
    <3>2. CASE ~r.u.snapshotInProgress
      <4>1. a.snapshot = r.u.snapshot BY <3>2 DEF a, newStorageAppendMsg, nextSnapshot
      <4>2. Len(A) + 1 \in 1..Len(B) BY <2>4, <2>5
      <4> QED BY <2>5, <4>1, <4>2
    <3> QED BY <3>1, <3>2
  <2>18. Expected(q, R) /\ Expected(q, B)
    <3>1. Expected(r, R) /\ Expected(r, A) BY DEF Fits, Present
    <3>2. ASSUME NEW i \in 1..Len(B), IsSnapshot(B[i].snapshot)
          PROVE  IsSnapshot(r.u.snapshot) /\ Len(B[i].snapshot) <= Len(r.u.snapshot)
      <4>1. CASE i \in 1..Len(A) BY <2>5, <3>1, <3>2, <4>1 DEF Expected
      <4>2. CASE i = Len(A) + 1
        <5>1. B[i].snapshot = nextSnapshot(r) BY <2>5, <4>2 DEF a, newStorageAppendMsg
        <5>2. B[i].snapshot = r.u.snapshot BY <3>2, <5>1 DEF nextSnapshot, IsSnapshot
        <5>3. Len(r.u.snapshot) \in Nat BY <1>1, NodeIs
        <5> QED BY <3>2, <5>2, <5>3
      <4> QED BY <2>4, <2>5, <4>1, <4>2
    <3> QED BY <1>2, <3>1, <3>2 DEF Expected
  <2>19. Lacked(q, D) BY <1>2 DEF Fits, Present, Lacked
  <2>20. Lacked(q, Y)
    <3>1. Lacked(r, X) BY DEF Fits, Present
    <3> SUFFICES ASSUME IsSnapshot(r.u.snapshot), NEW i \in 1..Len(Y),
                        Y[i].Commit < Len(r.u.snapshot), Y[i].Term = r.Term
                 PROVE  ~Agree(Y[i].log, r.u.snapshot, Len(r.u.snapshot))
      BY <1>2 DEF Lacked
    <3>2. CASE i \in 1..Len(X) BY <2>6, <3>1, <3>2 DEF Lacked
    <3>3. CASE Y[i] = x
      <4>1. Len(r.u.snapshot) <= r.committed BY DEF Fits, NodeOK
      <4>2. r.committed < Len(r.u.snapshot) BY <1>5, <3>3
      <4>3. r.committed \in Nat /\ Len(r.u.snapshot) \in Nat BY <1>1, NodeIs
      <4> QED BY <4>1, <4>2, <4>3
    <3> QED BY <2>7, <3>2, <3>3
  <2>21. NodeOK(h, q, s)
    <3>1. NodeOK(h, r, s) BY DEF Fits
    <3> QED BY <1>1, <1>2, <1>4, <1>6, <3>1 DEF NodeOK
  <2>22. StorageOK(h, q, s) BY <1>2 DEF Fits, StorageOK
  <2>23. Applies(q, w, ps, rs, m, Y)
    <3>1. Applies(r, w, ps, rs, m, X) BY DEF Fits, w
    <3>2. \A i \in 1..Len(Y) : Agree(m, Y[i].log, Len(m))
      <4> SUFFICES ASSUME NEW i \in 1..Len(Y) PROVE Agree(m, Y[i].log, Len(m)) OBVIOUS
      <4>1. CASE i \in 1..Len(X) BY <2>6, <3>1, <4>1 DEF Applies
      <4>2. CASE Y[i] = x BY <1>5, <3>1, <4>2 DEF Applies
      <4> QED BY <2>7, <4>1, <4>2
    <3> QED BY <1>2, <3>1, <3>2 DEF Applies
  <2>24. Fits(h, q, s, R, B, ps, rs, m, D, Y)
    BY <1>3, <2>13, <2>14, <2>15, <2>16, <2>17, <2>18, <2>19, <2>20, <2>21, <2>22, <2>23
       DEF Fits, Present
  <2>25. \E Z : Fits(h, q, s, R, B, ps, rs, m, D, Z) BY <2>24
  <2> QED BY <1>3, <1>8, <2>25 DEF q, B, a
<1> QED BY <1>7, <1>8

----------------------------------------------------------------------------
(* Ready: committed entries for the apply thread *)

LEMMA LogOf ==
    ASSUME NEW k \in Nat, NEW f, f \in [1..k -> Term]
    PROVE  f \in Log /\ Len(f) = k
<1>1. f \in Seq(Term) BY SeqDef
<1>2. Len(f) \in Nat /\ DOMAIN f = 1..Len(f) BY <1>1, LenProperties
<1>3. 1..Len(f) = 1..k BY <1>2
<1>4. Len(f) = k
  <2> DEFINE l == Len(f)
  <2>1. l \in Nat /\ 1..l = 1..k BY <1>2, <1>3
  <2> HIDE DEF l
  <2>2. ~(l < k)
    <3> SUFFICES ASSUME l < k PROVE FALSE OBVIOUS
    <3>1. k \in 1..k /\ k \notin 1..l BY <2>1
    <3> QED BY <2>1, <3>1
  <2>3. ~(k < l)
    <3> SUFFICES ASSUME k < l PROVE FALSE OBVIOUS
    <3>1. l \in 1..l /\ l \notin 1..k BY <2>1
    <3> QED BY <2>1, <3>1
  <2>4. l = k BY <2>1, <2>2, <2>3
  <2> QED BY <2>4 DEF l
<1> QED BY <1>1, <1>4 DEF Log

\* Only what is committed and stable is handed over, when no snapshot is under way.
LEMMA NextIs ==
    ASSUME NEW r \in Node, UnstableOK(r.u), r.applying <= r.committed,
           nextCommitted(r).to >= nextCommitted(r).from
    PROVE  /\ nextCommitted(r).from = r.applying + 1 /\ nextCommitted(r).to \in Nat
           /\ r.applying < nextCommitted(r).to /\ nextCommitted(r).to <= r.committed
           /\ nextCommitted(r).to <= r.u.offset - 1 /\ ~IsSnapshot(r.u.snapshot)
<1> DEFINE c == r.committed
           a == r.applying
           o == r.u.offset
           z == MaxApplying - r.applyingSize
           idle == r.applyingPaused \/ IsSnapshot(r.u.snapshot)
           hi == IF idle THEN a ELSE Least(c, o - 1)
           to == Least(hi, a + Greatest(1, z))
<1>1. nextCommitted(r).from = a + 1 /\ nextCommitted(r).to = to
  BY DEF nextCommitted, maxAppliableIndex
<1>2. c \in Nat /\ a \in Nat /\ a <= c /\ o \in Nat \ {0} /\ z \in Int
  <2>1. MaxApplying \in Nat BY LogAssumption
  <2> QED BY <2>1, NodeIs
<1>3. to >= a + 1 BY <1>1
<1> HIDE DEF c, a, o, z, idle
<1>4. ~idle /\ to \in Nat /\ a < to /\ to <= c /\ to <= o - 1 BY <1>2, <1>3 DEF Least, Greatest
<1> HIDE DEF to
<1> QED BY <1>1, <1>4 DEF idle, c, a, o

LEMMA ApplyMsgIs ==
    ASSUME NEW h, IsHistory(h), NEW r, NEW s, Readable(h, r, s), r.applying <= r.committed,
           firstIndex(r, s) <= r.applying + 1,
           nextCommitted(r).to >= nextCommitted(r).from
    PROVE  LET a == newStorageApplyMsg(r, s)
               to == nextCommitted(r).to
           IN  /\ a \in ApplyMsg /\ a.first = r.applying + 1 /\ Len(a.entries) = to - r.applying
               /\ \A j \in 1..Len(a.entries) : a.entries[j] = Whole(r, s)[a.first + j - 1]
<1> DEFINE a == newStorageApplyMsg(r, s)
           to == nextCommitted(r).to
           b == r.applying
           c == r.committed
           w == Whole(r, s)
           k == to - (b + 1) + 1
           f == [j \in 1..k |-> termAt(r, s, b + 1 + j - 1)]
<1>1. /\ NodeOK(h, r, s) /\ s \in Storage /\ r \in Node /\ UnstableOK(r.u)
      /\ w \in Log /\ Len(w) \in Nat /\ c \in Nat /\ c <= Len(w)
  <2>1. NodeOK(h, r, s) /\ s \in Storage BY DEF Readable
  <2> QED BY <2>1, ReadableIs
<1>2. nextCommitted(r).from = b + 1 /\ to \in Nat /\ b < to /\ to <= c BY <1>1, NextIs
<1>3. b \in Nat /\ b <= c BY <1>1, NodeIs
<1>4. a = [first |-> b + 1, entries |-> f] BY <1>2 DEF newStorageApplyMsg
<1>5. firstIndex(r, s) \in Nat BY FirstIs
<1>6. firstIndex(r, s) <= b + 1 OBVIOUS
<1> HIDE DEF w, c, b, to, a
<1>7. k \in Nat /\ k = to - b BY <1>2, <1>3
<1>8. ASSUME NEW j \in 1..k PROVE termAt(r, s, b + 1 + j - 1) = w[b + 1 + j - 1] /\ w[b + 1 + j - 1] \in Term
  <2> DEFINE i == b + 1 + j - 1
  <2>1. i \in Nat /\ i # 0 /\ i <= Len(w) /\ i + 1 >= firstIndex(r, s) /\ i \in 1..Len(w)
    BY <1>1, <1>2, <1>3, <1>5, <1>6, <1>7
  <2> HIDE DEF i
  <2>2. i <= Len(Whole(r, s)) BY <2>1 DEF w
  <2>3. termAt(r, s, i) = w[i] BY <2>1, <2>2, TermIs DEF w
  <2>4. w[i] \in Term BY <1>1, <2>1, LogElement
  <2> QED BY <2>3, <2>4 DEF i
<1>9. f \in [1..k -> Term] BY <1>8
<1> HIDE DEF k
<1>10. f \in Log /\ Len(f) = k BY <1>7, <1>9, LogOf
<1>11. \A j \in 1..Len(f) : f[j] = w[b + 1 + j - 1] BY <1>8, <1>10
<1> HIDE DEF f
<1>12. b + 1 \in Nat \ {0} BY <1>3
<1>13. a \in ApplyMsg /\ a.first = b + 1 /\ a.entries = f BY <1>4, <1>10, <1>12 DEF ApplyMsg
<1>14. \A j \in 1..Len(a.entries) : a.entries[j] = w[a.first + j - 1] BY <1>11, <1>13
<1> QED BY <1>7, <1>10, <1>13, <1>14 DEF a, to, b, w

\* The entries of the log w after index b up to to.
Hands(a, w, b, to) ==
    /\ a \in ApplyMsg /\ a.first = b + 1 /\ Len(a.entries) = to - b
    /\ \A j \in 1..Len(a.entries) : a.entries[j] = w[a.first + j - 1]

\* q is r but for what is with the apply thread: the entries up to to.
IsApplying(q, r, to) ==
    /\ q \in Node /\ ~q.panic /\ q.u = r.u /\ q.applying = to /\ q.applied = r.applied
    /\ q.Term = r.Term /\ q.committed = r.committed /\ q.after = r.after

LEMMA Appended ==
    ASSUME NEW S, NEW ps \in Seq(S), NEW a \in S
    PROVE  LET bs == Append(ps, a)
           IN  /\ bs \in Seq(S) /\ Len(bs) = Len(ps) + 1 /\ Len(ps) \in Nat
               /\ bs[Len(ps) + 1] = a /\ bs[Len(bs)] = a /\ bs # <<>>
               /\ \A k \in 1..Len(ps) : bs[k] = ps[k]
               /\ \A k \in 1..Len(bs) : k \in 1..Len(ps) \/ (k = Len(ps) + 1 /\ bs[k] = a)
<1> DEFINE bs == Append(ps, a)
<1>1. /\ bs \in Seq(S) /\ Len(bs) = Len(ps) + 1 /\ bs[Len(ps) + 1] = a
      /\ \A k \in 1..Len(ps) : bs[k] = ps[k]
  BY AppendProperties
<1>2. Len(ps) \in Nat BY LenProperties
<1> HIDE DEF bs
<1>3. bs # <<>>
  <2>1. Len(bs) # 0 BY <1>1, <1>2
  <2> QED BY <2>1
<1>4. \A k \in 1..Len(bs) : k \in 1..Len(ps) \/ k = Len(ps) + 1 BY <1>1, <1>2
<1> QED BY <1>1, <1>2, <1>3, <1>4 DEF bs

\* The committed entries up to an index go to the apply thread.
LEMMA ApplyingKeeps ==
    ASSUME NEW h, IsHistory(h), NEW r, NEW s, NEW R, NEW A, NEW ps, NEW rs, NEW m, NEW D, NEW X,
           Fits(h, r, s, R, A, ps, rs, m, D, X), ~IsSnapshot(r.u.snapshot),
           NEW to \in Nat, r.applying < to, to <= r.committed, to <= r.u.offset - 1,
           NEW a, Hands(a, Whole(r, s), r.applying, to), NEW q, IsApplying(q, r, to)
    PROVE  Fits(h, q, s, R, A, Append(ps, a), rs, m, D, X) /\ Whole(q, s) = Whole(r, s)
<1> DEFINE w == Whole(r, s)
           b == r.applying
           c == r.committed
           o == r.u.offset
           bs == Append(ps, a)
<1>1. /\ r \in Node /\ s \in Storage /\ w \in Log /\ Len(w) \in Nat /\ r.applied <= b
      /\ \A i \in 1..Len(X) : Good(h, X[i])
  BY FitsIs
<1>2. b \in Nat /\ c \in Nat /\ o \in Nat \ {0} /\ r.applied \in Nat BY <1>1, NodeIs
<1>0. /\ q \in Node /\ ~q.panic /\ q.u = r.u /\ q.applying = to /\ q.applied = r.applied
      /\ q.Term = r.Term /\ q.committed = r.committed /\ q.after = r.after
  BY DEF IsApplying
<1>3. Whole(q, s) = w /\ Now(q, s) = Now(r, s) BY <1>0 DEF Whole, Now
<1>4. NodeOK(h, q, s)
  <2>1. NodeOK(h, r, s) BY DEF Fits
  <2>2. q.applied <= q.applying /\ q.applying <= q.committed
    <3>1. r.applied <= to
      <4> DEFINE e == r.applied
      <4>1. e <= b /\ b < to /\ e \in Nat BY <1>1, <1>2
      <4> HIDE DEF e, b
      <4>2. e <= to BY <1>2, <4>1
      <4> QED BY <4>2 DEF e
    <3> QED BY <1>0, <3>1
  <2> QED BY <1>0, <1>3, <2>1, <2>2 DEF NodeOK
<1>5. StorageOK(h, q, s)
  <2>1. StorageOK(h, r, s) BY DEF Fits
  <2>2. s.offset <= b BY <2>1 DEF StorageOK
  <2>3. s.offset \in Nat BY <1>1, StorageIs
  <2>4. s.offset <= to BY <1>2, <2>2, <2>3
  <2> QED BY <1>0, <2>1, <2>4 DEF StorageOK
<1>6. Past(h, s, R, A, D, X) BY DEF Fits
<1>7. Ahead(h, q, s, X) BY <1>3 DEF Fits, Present, Ahead
<1>8. Owed(q, s, X)
  <2>1. Owed(r, s, X) BY DEF Fits, Present
  <2> QED BY <1>0, <1>3, <2>1 DEF Owed, nextSnapshot
<1>9. Settled(q, s, X)
  <2>1. Settled(r, s, X) BY DEF Fits, Present
  <2>2. ASSUME NEW i \in 1..Len(X) PROVE Agree(X[i].log, w, to)
    <3>1. Agree(X[i].log, w, o - 1) BY <2>1 DEF Settled
    <3>2. Len(X[i].log) \in Nat BY <1>1, PointIs
    <3>3. o - 1 \in Nat BY <1>2
    <3> QED BY <1>1, <3>1, <3>2, <3>3, AgreeLess
  <2> QED BY <1>0, <1>3, <2>1, <2>2 DEF Settled
<1>10. /\ Carried(q, R, A) /\ Expected(q, R) /\ Expected(q, A)
       /\ Lacked(q, D) /\ Lacked(q, X)
  BY <1>0 DEF Fits, Present, Carried, Expected, Lacked
<1>11. Applies(q, w, bs, rs, m, X)
  <2>1. Applies(r, w, ps, rs, m, X) BY DEF Fits
  <2>2. ps \in Seq(ApplyMsg) BY <2>1 DEF Applies
  <2>3. /\ bs \in Seq(ApplyMsg) /\ Len(bs) = Len(ps) + 1 /\ bs[Len(ps) + 1] = a
        /\ bs[Len(bs)] = a /\ bs # <<>>
        /\ \A k \in 1..Len(ps) : bs[k] = ps[k]
        /\ \A k \in 1..Len(bs) : k \in 1..Len(ps) \/ (k = Len(ps) + 1 /\ bs[k] = a)
    <3>1. a \in ApplyMsg BY DEF Hands
    <3> QED BY <2>2, <3>1, Appended
  <2>4. Len(ps) \in Nat BY <2>2, LenProperties
  <2> HIDE DEF bs, w, b, c, o
  <2>5. /\ m \in Log /\ Len(m) <= r.committed /\ r.applied <= Len(m) /\ Agree(m, w, Len(m))
        /\ \A i \in 1..Len(X) : Agree(m, X[i].log, Len(m))
        /\ rs \in Seq(ApplyResult)
    BY <2>1 DEF Applies
  <2>6. Len(m) \in Nat /\ Len(a.entries) \in Nat /\ Len(a.entries) # 0
    <3>1. Len(m) \in Nat BY <2>5, LenProperties DEF Log
    <3>2. Len(a.entries) = to - b /\ b < to BY DEF b, Hands
    <3> QED BY <1>2, <3>1, <3>2
  <2>7. a.first = b + 1 /\ a.first + Len(a.entries) - 1 = to
    <3>1. a.first = b + 1 /\ Len(a.entries) = to - b BY DEF b, Hands
    <3> QED BY <1>2, <3>1
  <2>8. \/ b <= Len(m)
        \/ ps # <<>> /\ b < ps[Len(ps)].first + Len(ps[Len(ps)].entries)
    BY <2>1 DEF Applies, b
  <2>9. ASSUME NEW k \in 1..Len(bs)
        PROVE  /\ bs[k].entries # <<>>
               /\ bs[k].first + Len(bs[k].entries) - 1 <= to
               /\ \A j \in 1..Len(bs[k].entries) : bs[k].entries[j] = w[bs[k].first + j - 1]
               /\ \/ bs[k].first <= Len(m) + 1
                  \/ k > 1 /\ bs[k].first <= bs[k - 1].first + Len(bs[k - 1].entries)
    <3>1. CASE k = Len(ps) + 1
      <4>1. bs[k] = a BY <2>3, <3>1
      <4>2. a.entries # <<>> BY <2>6
      <4>3. \A j \in 1..Len(a.entries) : a.entries[j] = w[a.first + j - 1] BY DEF w, Hands
      <4>4. \/ a.first <= Len(m) + 1
            \/ k > 1 /\ a.first <= bs[k - 1].first + Len(bs[k - 1].entries)
        <5>1. CASE b <= Len(m) BY <1>2, <2>6, <2>7, <5>1
        <5>2. CASE ps # <<>> /\ b < ps[Len(ps)].first + Len(ps[Len(ps)].entries)
          <6>1. Len(ps) # 0 BY <2>2, <5>2, EmptySeq
          <6>2. Len(ps) \in 1..Len(ps) /\ k > 1 /\ k - 1 = Len(ps) BY <2>4, <3>1, <6>1
          <6>3. bs[k - 1] = ps[Len(ps)] BY <2>3, <6>2
          <6>4. ps[Len(ps)] \in ApplyMsg BY <2>2, <6>2, ElementOfSeq
          <6> DEFINE d == ps[Len(ps)].first
                     l == Len(ps[Len(ps)].entries)
          <6>5. d \in Nat /\ l \in Nat BY <6>4, LenProperties DEF ApplyMsg, Log
          <6>6. b < d + l BY <5>2
          <6> HIDE DEF d, l
          <6>7. b + 1 <= d + l BY <1>2, <6>5, <6>6
          <6> QED BY <2>7, <6>2, <6>3, <6>7 DEF d, l
        <5> QED BY <2>8, <5>1, <5>2
      <4>5. a.first + Len(a.entries) - 1 <= to BY <2>7
      <4> QED BY <4>1, <4>2, <4>3, <4>4, <4>5
    <3>2. CASE k # Len(ps) + 1
      <4>1. k \in 1..Len(ps) BY <2>3, <3>2
      <4>2. bs[k] = ps[k] /\ (k > 1 => bs[k - 1] = ps[k - 1])
        <5>1. k > 1 => k - 1 \in 1..Len(ps) BY <2>4, <4>1
        <5> QED BY <2>3, <4>1, <5>1
      <4>3. /\ ps[k].entries # <<>>
            /\ ps[k].first + Len(ps[k].entries) - 1 <= b
            /\ \A j \in 1..Len(ps[k].entries) : ps[k].entries[j] = w[ps[k].first + j - 1]
            /\ \/ ps[k].first <= Len(m) + 1
               \/ k > 1 /\ ps[k].first <= ps[k - 1].first + Len(ps[k - 1].entries)
        BY <2>1, <4>1 DEF Applies, b
      <4>4. ps[k].first + Len(ps[k].entries) - 1 <= to
        <5>1. ps[k] \in ApplyMsg BY <2>2, <4>1, ElementOfSeq
        <5> DEFINE d == ps[k].first
                   l == Len(ps[k].entries)
        <5>2. d \in Nat /\ l \in Nat BY <5>1, LenProperties DEF ApplyMsg, Log
        <5>3. d + l - 1 <= b /\ b < to BY <4>3 DEF b
        <5> HIDE DEF d, l
        <5>4. d + l - 1 <= to BY <1>2, <5>2, <5>3
        <5> QED BY <5>4 DEF d, l
      <4> QED BY <4>2, <4>3, <4>4
    <3> QED BY <3>1, <3>2
  <2>10. bs # <<>> /\ to < bs[Len(bs)].first + Len(bs[Len(bs)].entries)
    <3>1. bs[Len(bs)] = a /\ bs # <<>> BY <2>3
    <3>2. to < a.first + Len(a.entries)
      <4> DEFINE l == Len(a.entries)
      <4>1. l \in Nat /\ a.first = b + 1 /\ l = to - b BY <2>6, <2>7 DEF b, Hands
      <4> HIDE DEF l
      <4>2. to < a.first + l BY <1>2, <4>1
      <4> QED BY <4>2 DEF l
    <3> QED BY <3>1, <3>2
  <2>11. ASSUME NEW k \in 1..Len(rs) PROVE rs[k].index <= Len(m) /\ rs[k].index <= to
    <3>1. rs[k].index <= Len(m) /\ rs[k].index <= b BY <2>1 DEF Applies, b
    <3>2. rs[k].index \in Nat
      <4>1. rs[k] \in ApplyResult BY <2>5, ElementOfSeq
      <4> QED BY <4>1 DEF ApplyResult
    <3> DEFINE d == rs[k].index
    <3>3. d \in Nat /\ d <= b /\ b < to BY <3>1, <3>2 DEF b
    <3> HIDE DEF d
    <3>4. d <= to BY <1>2, <3>3
    <3> QED BY <3>1, <3>4 DEF d
  <2> QED BY <1>0, <2>3, <2>5, <2>9, <2>10, <2>11 DEF Applies
<1>12. Fits(h, q, s, R, A, bs, rs, m, D, X)
  BY <1>3, <1>4, <1>5, <1>6, <1>7, <1>8, <1>9, <1>10, <1>11 DEF Fits, Present
<1> QED BY <1>3, <1>12 DEF bs

\* acceptReady: both threads get their work.
LEMMA ReadyKeeps ==
    ASSUME NEW h, IsHistory(h), NEW r, NEW s, NEW R, NEW A, NEW ps, NEW rs, NEW m, NEW D, NEW X,
           Fits(h, r, s, R, A, ps, rs, m, D, X)
    PROVE  LET q  == acceptReady(r)
               B  == IF needStorageAppendMsg(r) THEN Append(A, newStorageAppendMsg(r, s)) ELSE A
               bs == IF nextCommitted(r).to >= nextCommitted(r).from
                     THEN Append(ps, newStorageApplyMsg(r, s)) ELSE ps
           IN  /\ Whole(q, s) = Whole(r, s) /\ q.committed = r.committed
               /\ \E Y : Fits(h, q, s, R, B, bs, rs, m, D, Y)
<1> DEFINE q == acceptReady(r)
           z == accepted(r)
           B == IF needStorageAppendMsg(r) THEN Append(A, newStorageAppendMsg(r, s)) ELSE A
           a == newStorageApplyMsg(r, s)
           to == nextCommitted(r).to
           from == nextCommitted(r).from
           bs == IF to >= from THEN Append(ps, a) ELSE ps
<1>1. r \in Node /\ UnstableOK(r.u) /\ r.applying <= r.committed /\ s \in Storage BY FitsIs
<1>2. /\ z \in Node /\ z.panic = r.panic /\ UnstableOK(z.u)
      /\ z.committed = r.committed /\ z.applying = r.applying /\ z.applied = r.applied
      /\ z.Term = r.Term /\ z.after = <<>>
      /\ z.u.entries = r.u.entries /\ z.u.offset = r.u.offset /\ z.u.snapshot = r.u.snapshot
  BY <1>1, AcceptedIs
<1>3. Whole(z, s) = Whole(r, s) /\ \E Y : Fits(h, z, s, R, B, ps, rs, m, D, Y) BY AcceptKeeps
<1>4. PICK Y : Fits(h, z, s, R, B, ps, rs, m, D, Y) BY <1>3
<1>5. q = IF to < from THEN z ELSE acceptApplying(z, to, to - from + 1)
  BY DEF acceptReady, accepted
<1>0. /\ r.committed \in Nat /\ r.applying \in Nat /\ r.committed \in Index /\ z.applyingSize \in Nat
      /\ ~z.panic
  <2>1. ~r.panic BY FitsIs
  <2> QED BY <1>1, <1>2, <2>1, NodeIs DEF Node
<1> HIDE DEF z, a, B, q
<1>6. CASE ~(to >= from)
  <2>1. from = r.applying + 1 /\ to \in Int
    <3> DEFINE c == r.committed
               b == r.applying
               o == r.u.offset
               e == MaxApplying - r.applyingSize
               hi == IF r.applyingPaused \/ IsSnapshot(r.u.snapshot) THEN b ELSE Least(c, o - 1)
    <3>1. from = b + 1 /\ to = Least(hi, b + Greatest(1, e))
      BY DEF nextCommitted, maxAppliableIndex
    <3>2. c \in Nat /\ b \in Nat /\ o \in Nat \ {0} /\ e \in Int
      <4>1. MaxApplying \in Nat BY LogAssumption
      <4> QED BY <1>1, <4>1, NodeIs
    <3> HIDE DEF c, b, o, e, to, from
    <3> QED BY <3>1, <3>2 DEF Least, Greatest, b
  <2>2. q = z /\ bs = ps
    <3> HIDE DEF to, from
    <3>1. to < from BY <1>0, <1>6, <2>1
    <3> QED BY <1>5, <1>6, <3>1
  <2>3. \E W : Fits(h, q, s, R, B, bs, rs, m, D, W) BY <1>4, <2>2
  <2> HIDE DEF bs
  <2> QED BY <1>2, <1>3, <2>2, <2>3 DEF q, B, bs, a
<1>7. CASE to >= from
  <2>1. /\ from = r.applying + 1 /\ to \in Nat
        /\ r.applying < to /\ to <= r.committed
        /\ to <= r.u.offset - 1 /\ ~IsSnapshot(r.u.snapshot)
    BY <1>1, <1>7, NextIs
  <2>2. firstIndex(r, s) <= r.applying + 1
    <3>1. s.offset <= r.applying BY <2>1 DEF Fits, StorageOK
    <3>2. firstIndex(r, s) = s.offset + 1 BY <2>1 DEF firstIndex
    <3>3. s.offset \in Nat BY <1>1, StorageIs
    <3> DEFINE b == r.applying
               d == s.offset
    <3>4. b \in Nat /\ d \in Nat /\ d <= b BY <1>0, <3>1, <3>3
    <3> HIDE DEF b, d
    <3>5. d + 1 <= b + 1 BY <3>4
    <3> QED BY <3>2, <3>5 DEF b, d
  <2>3. Readable(h, r, s) BY FitsReadable
  <2>4. Hands(a, Whole(r, s), r.applying, to) BY <1>1, <1>7, <2>2, <2>3, ApplyMsgIs DEF a, Hands
  <2>5. Hands(a, Whole(z, s), z.applying, to) BY <1>2, <1>3, <2>4
  <2> HIDE DEF to, from
  <2>6. to - from + 1 \in Nat BY <1>0, <2>1
  <2>7. q = acceptApplying(z, to, to - from + 1)
    <3>1. ~(to < from) BY <1>0, <2>1
    <3> QED BY <1>5, <3>1
  <2> DEFINE size == z.applyingSize + (to - from + 1)
             paused == size >= MaxApplying \/ to < maxAppliableIndex(z)
  <2>8. size \in Nat /\ paused \in BOOLEAN /\ to \in Index
    <3>1. size \in Nat BY <1>0, <2>6
    <3>2. paused \in BOOLEAN OBVIOUS
    <3>3. to \in Index BY <1>0, <2>1, Bounds DEF Index
    <3> QED BY <3>1, <3>2, <3>3
  <2>9. ~(z.committed < to) BY <1>0, <1>2, <2>1
  <2>10. q = [z EXCEPT !.applying = to, !.applyingSize = size, !.applyingPaused = paused]
    BY <2>7, <2>9 DEF acceptApplying
  <2> HIDE DEF size, paused
  <2>11. IsApplying(q, z, to) BY <1>0, <1>2, <2>8, <2>10 DEF IsApplying, Node
  <2>12. ~IsSnapshot(z.u.snapshot) /\ z.applying < to /\ to <= z.committed /\ to <= z.u.offset - 1
    BY <1>2, <2>1
  <2>13. Fits(h, q, s, R, B, Append(ps, a), rs, m, D, Y) /\ Whole(q, s) = Whole(z, s)
    BY <1>4, <2>1, <2>5, <2>11, <2>12, ApplyingKeeps
  <2>14. bs = Append(ps, a) BY <1>7
  <2>15. \E W : Fits(h, q, s, R, B, bs, rs, m, D, W) BY <2>13, <2>14
  <2>16. q.committed = r.committed BY <1>2, <2>11 DEF IsApplying
  <2> HIDE DEF bs
  <2> QED BY <1>3, <2>13, <2>15, <2>16 DEF q, B, bs, a, to, from
<1> QED BY <1>6, <1>7

----------------------------------------------------------------------------
(* The append thread *)

LEMMA Tailed ==
    ASSUME NEW S, NEW qs \in Seq(S), qs # <<>>
    PROVE  /\ Tail(qs) \in Seq(S) /\ Len(qs) \in Nat \ {0} /\ Len(Tail(qs)) = Len(qs) - 1
           /\ Len(Tail(qs)) \in Nat
           /\ Head(qs) = qs[1] /\ 1 \in 1..Len(qs) /\ qs[1] \in S
           /\ \A i \in 1..Len(Tail(qs)) : i + 1 \in 1..Len(qs) /\ Tail(qs)[i] = qs[i + 1]
<1>1. /\ Tail(qs) \in Seq(S) /\ Len(Tail(qs)) = Len(qs) - 1
      /\ \A i \in 1..Len(Tail(qs)) : Tail(qs)[i] = qs[i + 1]
  BY HeadTailProperties
<1>2. Len(qs) \in Nat \ {0} BY EmptySeq, LenProperties
<1>3. Head(qs) = qs[1] OBVIOUS
<1>4. 1 \in 1..Len(qs) BY <1>2
<1>5. qs[1] \in S BY <1>4, ElementOfSeq
<1>6. \A i \in 1..Len(Tail(qs)) : i + 1 \in 1..Len(qs) BY <1>1, <1>2
<1>7. Len(Tail(qs)) \in Nat BY <1>1, LenProperties
<1> QED BY <1>1, <1>2, <1>3, <1>4, <1>5, <1>6, <1>7

\* What the append thread makes of the storage.
stored(s, a) == [AppendToStorage(ApplySnapshot(s, a.snapshot), a.first, a.entries) EXCEPT !.hs = a.hs]

\* The write a was asked for at the point y, which follows what is stored.
LEMMA WriteIs ==
    ASSUME NEW h, NEW s \in Storage, s.offset <= s.hs.Commit,
           NEW a, NEW y, Asks(h, a, y), Good(h, y), Good(h, Stored(s)), Later(h, Stored(s), y),
           Writes(Stored(s), a.snapshot, a.first, a.entries, y)
    PROVE  LET t == stored(s, a)
           IN  /\ ~MissesEntries(ApplySnapshot(s, a.snapshot), a.first, a.entries)
               /\ t \in Storage /\ Stored(t) = y /\ t.offset <= t.hs.Commit
               /\ t.offset = IF IsSnapshot(a.snapshot) THEN Len(a.snapshot) ELSE s.offset
<1> DEFINE p == a.snapshot
           e == a.entries
           f == a.first
           w == ApplySnapshot(s, p)
           base == IF IsSnapshot(p) THEN p ELSE s.log
           c == s.hs.Commit
           v == y.log
           d == IF IsSnapshot(p) THEN Len(p) ELSE s.offset
           t == stored(s, a)
<1>1. /\ s.log \in Log /\ Len(s.log) \in Nat /\ s.offset \in Nat /\ s.offset \in Index
      /\ s.hs \in HardState /\ c \in Nat
  BY StorageIs
<1>2. /\ a \in AppendMsg /\ a.hs.Term = y.Term /\ a.hs.Commit = y.Commit
      /\ Len(p) <= y.Commit /\ Agree(p, v, Len(p))
  BY DEF Asks
<1>3. p \in Log /\ e \in Log /\ f \in Nat \ {0} /\ a.hs \in HardState BY <1>2 DEF AppendMsg
<1>4. Len(p) \in Nat /\ Len(e) \in Nat BY <1>3, LenProperties DEF Log
<1>5. v \in Log /\ Len(v) \in Nat /\ y.Commit \in Nat /\ y \in Point BY PointIs
<1>6. /\ IsSnapshot(p) => c < Len(p)
      /\ e = <<>> => v = base
      /\ e # <<>> => c < f /\ f - 1 <= Len(base) /\ v = SubSeq(base, 1, f - 1) \o e
  BY DEF Writes, Stored
<1>7. c <= y.Commit BY DEF Later, Stored
<1>8. w.log = base /\ w.offset = d /\ w \in Storage /\ w.hs = s.hs
  <2>1. CASE IsSnapshot(p)
    <3>1. ~(Len(p) <= s.offset)
      <4> DEFINE b == s.offset
      <4>1. b \in Nat /\ b <= c /\ c < Len(p) BY <1>1, <1>6, <2>1
      <4> HIDE DEF b, c
      <4>2. ~(Len(p) <= b) BY <1>1, <1>4, <4>1
      <4> QED BY <4>2 DEF b
    <3>2. w = [s EXCEPT !.log = p, !.offset = Len(p)] BY <3>1 DEF ApplySnapshot
    <3>3. Len(p) \in Index
      <4>1. y.Commit \in Index BY <1>5 DEF Point
      <4> DEFINE b == y.Commit
                 l == Len(p)
      <4>2. b \in 0..MaxLog /\ l \in Nat /\ l <= b BY <1>2, <1>4, <4>1 DEF Index
      <4> HIDE DEF b, l
      <4>3. l \in 0..MaxLog BY <4>2, Bounds
      <4> QED BY <4>3 DEF l, Index
    <3> HIDE DEF w
    <3> QED BY <1>3, <2>1, <3>2, <3>3 DEF Storage
  <2>2. CASE ~IsSnapshot(p)
    <3>1. Len(p) = 0 BY <2>2 DEF IsSnapshot, None
    <3>2. w = s BY <1>1, <3>1 DEF ApplySnapshot
    <3> QED BY <2>2, <3>2
  <2> QED BY <2>1, <2>2
<1>9. base \in Log /\ Len(base) \in Nat BY <1>1, <1>3, <1>4
<1>10. \/ IsSnapshot(p) /\ d <= Len(base) /\ d <= Len(v) /\ Agree(base, v, d)
       \/ d < f /\ ~IsSnapshot(p)
       \/ e = <<>>
  <2>1. CASE IsSnapshot(p)
    <3>1. d = Len(p) /\ base = p BY <2>1
    <3> HIDE DEF d, base
    <3>2. Agree(base, v, d) /\ d <= Len(base) BY <1>2, <1>4, <3>1
    <3>3. d <= Len(v) BY <3>2 DEF Agree
    <3> QED BY <2>1, <3>2, <3>3
  <2>2. CASE ~IsSnapshot(p) /\ e # <<>>
    <3> DEFINE b == s.offset
    <3>1. b \in Nat /\ b <= c /\ c < f /\ d = b BY <1>1, <1>6, <2>2
    <3> HIDE DEF b, c, f, d
    <3>2. d < f BY <1>1, <1>3, <3>1 DEF f, c
    <3> QED BY <2>2, <3>2
  <2> QED BY <2>1, <2>2
<1> DEFINE x == AppendToStorage(w, f, e)
<1> HIDE DEF w, base, c, v, d, p, e, f
<1>11. ~MissesEntries(w, f, e)
  <2>1. CASE e = <<>> BY <2>1 DEF MissesEntries
  <2>2. CASE e # <<>>
    <3>1. f - 1 <= Len(w.log) BY <1>6, <1>8, <2>2
    <3>2. ~(f > Len(w.log) + 1) BY <1>3, <1>8, <1>9, <3>1
    <3> QED BY <3>2 DEF MissesEntries
  <2> QED BY <2>1, <2>2
<1>12. x.log = v /\ x.offset = d /\ x \in Storage
  <2>1. CASE e = <<>>
    <3>1. x = w BY <2>1 DEF AppendToStorage
    <3> QED BY <1>6, <1>8, <2>1, <3>1
  <2>2. CASE e # <<>>
    <3> DEFINE g == Greatest(f, d + 1)
               l == Len(e)
    <3>0. l \in Nat /\ l # 0 BY <1>3, <1>4, <2>2, SnapshotEmpty DEF e
    <3>1. d \in Nat
      <4>1. s.offset \in Nat /\ Len(p) \in Nat BY <1>1, <1>4 DEF p
      <4> QED BY <4>1 DEF d
    <3>2. /\ f - 1 \in 0..Len(base) /\ Len(v) = f - 1 + l /\ Agree(v, base, f - 1)
          /\ \A k \in 1..l : v[f - 1 + k] = e[k]
      <4>1. f - 1 \in 0..Len(base) BY <1>3, <1>6, <1>9, <2>2
      <4>2. v = SubSeq(base, 1, f - 1) \o e BY <1>6, <2>2
      <4> HIDE DEF l
      <4>3. /\ Len(v) = f - 1 + Len(e) /\ Agree(v, base, f - 1)
            /\ \A k \in 1..Len(e) : v[f - 1 + k] = e[k]
        BY ZenonT(60), <1>3, <1>9, <4>1, <4>2, JoinOf DEF e
      <4> QED BY <4>1, <4>3 DEF l
    <3> HIDE DEF l
    <3>3. /\ g \in Nat \ {0} /\ g - 1 <= Len(base) /\ g - 1 <= Len(v) /\ Agree(v, base, g - 1) /\ f <= g
      <4>1. CASE d < f
        <5>1. g = f BY <1>3, <3>1, <4>1 DEF Greatest
        <5>2. f - 1 <= Len(v) BY <1>3, <1>5, <3>0, <3>2 DEF v
        <5> QED BY <1>3, <1>9, <3>2, <5>1, <5>2
      <4>2. CASE ~(d < f)
        <5>1. g = d + 1 BY <1>3, <3>1, <4>2 DEF Greatest
        <5>2. d <= Len(base) /\ d <= Len(v) /\ Agree(base, v, d) BY <1>10, <2>2, <4>2
        <5>3. g - 1 = d BY <3>1, <5>1
        <5>4. f <= g BY <1>3, <3>1, <4>2, <5>1
        <5> QED BY <3>1, <5>1, <5>2, <5>3, <5>4, AgreeSym
      <4> QED BY <4>1, <4>2
    <3> HIDE DEF g
    <3>4. CASE f + l - 1 < d + 1
      <4>1. x = w
        <5>1. f + Len(e) - 1 < w.offset + 1 BY <1>8, <3>4 DEF l
        <5> QED BY <5>1 DEF AppendToStorage
      <4>2. Len(v) = Len(base) /\ Agree(v, base, Len(v))
        <5>1. ~(d < f) BY <1>3, <3>0, <3>1, <3>4 DEF f
        <5>2. d <= Len(base) /\ d <= Len(v) /\ Agree(base, v, d) /\ IsSnapshot(p)
          BY <1>10, <2>2, <5>1
        <5>3. Len(v) <= d BY <1>3, <3>0, <3>1, <3>2, <3>4 DEF f
        <5>4. Len(v) = d BY <1>5, <3>1, <5>2, <5>3 DEF v
        <5>5. Len(base) = d BY <5>2 DEF base, d
        <5> QED BY <5>2, <5>4, <5>5, AgreeSym
      <4>3. v = base BY <1>5, <1>9, <4>2, AgreeEqual DEF v
      <4> QED BY <1>8, <4>1, <4>3
    <3>5. CASE ~(f + l - 1 < d + 1)
      <4> DEFINE b == g - f + 1
                 k == SubSeq(e, b, l)
      <4>1. x = [w EXCEPT !.log = SubSeq(w.log, 1, g - 1) \o k]
        <5>1. ~(f + Len(e) - 1 < w.offset + 1) BY <1>8, <3>5 DEF l
        <5> QED BY <1>8, <2>2, <5>1 DEF AppendToStorage, g, l
      <4>2. b \in Nat \ {0} /\ l \in 0..Len(e) /\ b <= l + 1 /\ l - b + 1 = Len(v) - (g - 1)
        <5>1. l \in 0..Len(e) BY <3>0 DEF l
        <5>2. b \in Nat \ {0} BY <1>3, <3>3 DEF f
        <5>3. g - 1 <= f - 1 + l BY <3>2, <3>3
        <5>4. b <= l + 1 BY <1>3, <3>0, <3>3, <5>3 DEF f
        <5>5. l - b + 1 = Len(v) - (g - 1) BY SMTT(60), <1>3, <3>0, <3>2, <3>3 DEF f
        <5> QED BY <5>1, <5>2, <5>4, <5>5
      <4> HIDE DEF b
      <4>3. /\ k \in Log /\ Len(k) = l - b + 1
            /\ \A i \in 1..(l - b + 1) : k[i] = e[b - 1 + i]
        BY <1>3, <4>2, PartOf DEF e
      <4> HIDE DEF k
      <4>4. Len(v) = g - 1 + Len(k) BY <1>5, <3>3, <4>2, <4>3 DEF v
      <4>5. ASSUME NEW i \in 1..Len(k) PROVE v[g - 1 + i] = k[i]
        <5>1. b - 1 + i \in 1..l /\ f - 1 + (b - 1 + i) = g - 1 + i
          <6>1. i \in 1..(l - b + 1) /\ b = g - f + 1 BY <4>3 DEF b
          <6>2. f \in Nat /\ l \in Nat /\ g \in Nat BY <1>3, <3>0, <3>3 DEF f
          <6>3. b \in Nat \ {0} BY <4>2
          <6> QED BY <6>1, <6>2, <6>3
        <5>2. v[f - 1 + (b - 1 + i)] = e[b - 1 + i] BY <3>2, <5>1
        <5> QED BY <4>3, <5>1, <5>2
      <4>6. g - 1 \in 0..Len(base) BY <1>9, <3>3
      <4>7. v = SubSeq(base, 1, g - 1) \o k
        BY <1>5, <1>9, <3>3, <4>3, <4>4, <4>5, <4>6, JoinIs DEF v
      <4>8. x = [w EXCEPT !.log = v] BY <1>8, <4>1, <4>7
      <4> HIDE DEF x
      <4> QED BY <1>5, <1>8, <4>8 DEF Storage, v
    <3> QED BY <3>4, <3>5
  <2> QED BY <2>1, <2>2
<1>13. t = [x EXCEPT !.hs = a.hs] BY DEF stored, w, p, f, e
<1> HIDE DEF t, x
<1>14. t.log = v /\ t.offset = d /\ t.hs = a.hs /\ t \in Storage BY <1>3, <1>12, <1>13 DEF Storage
<1>15. Stored(t) = y
  <2>1. Stored(t) = [log |-> v, Term |-> y.Term, Commit |-> y.Commit] BY <1>2, <1>14 DEF Stored
  <2> QED BY <1>5, <2>1 DEF Point, v
<1>16. t.offset <= t.hs.Commit
  <2>1. d <= y.Commit
    <3>1. CASE IsSnapshot(p) BY <1>2, <3>1 DEF d, p
    <3>2. CASE ~IsSnapshot(p)
      <4> DEFINE b == s.offset
                 z == y.Commit
      <4>1. b \in Nat /\ b <= c /\ c <= z /\ z \in Nat /\ d = b BY <1>1, <1>5, <1>7, <3>2 DEF d, c
      <4> HIDE DEF b, z
      <4>2. d <= z BY <1>1, <4>1
      <4> QED BY <4>2 DEF z
    <3> QED BY <3>1, <3>2
  <2> QED BY <1>2, <1>14, <2>1
<1> QED BY <1>11, <1>14, <1>15, <1>16 DEF t, w, d, p, f, e

LEMMA LargestOf ==
    ASSUME NEW k \in Nat, NEW S, S \subseteq 0..k, S # {}
    PROVE  \E i \in S : \A j \in S : j <= i
<1> DEFINE T == {k - x : x \in S}
<1>1. T \subseteq Nat /\ T # {}
  <2>1. \A x \in S : k - x \in Nat
    <3> SUFFICES ASSUME NEW x \in S PROVE k - x \in Nat OBVIOUS
    <3>1. x \in 0..k OBVIOUS
    <3> QED BY <3>1
  <2>2. PICK x \in S : TRUE OBVIOUS
  <2>3. k - x \in T OBVIOUS
  <2> QED BY <2>1, <2>3
<1> DEFINE c == CHOOSE z \in T : \A d \in T : z <= d
<1>2. c \in T /\ \A d \in T : c <= d
  <2> HIDE DEF T
  <2> QED BY <1>1, SmallestOf
<1> HIDE DEF c
<1>3. PICK i \in S : c = k - i BY <1>2
<1>4. ASSUME NEW j \in S PROVE j <= i
  <2>1. c <= k - j BY <1>2
  <2>2. i \in 0..k /\ j \in 0..k OBVIOUS
  <2> QED BY <1>3, <2>1, <2>2
<1> QED BY <1>4

LEMMA AcknowledgedIs ==
    ASSUME acks \in [1..MaxTerm -> Index], NEW a \in AppendMsg
    PROVE  LET f == acknowledged(a)
           IN  /\ f \in [1..MaxTerm -> Index]
               /\ \A t \in 1..MaxTerm :
                    \/ f[t] = acks[t]
                    \/ \E k \in 1..Len(a.acks) : a.acks[k].term = t /\ f[t] = a.acks[k].index
<1> DEFINE f == acknowledged(a)
           sent(t) == {a.acks[k].index : k \in {j \in 1..Len(a.acks) : a.acks[j].term = t}}
           S(t) == sent(t) \cup {acks[t]}
           P(t, i) == i \in S(t) /\ \A j \in S(t) : j <= i
           c(t) == CHOOSE i \in Index : P(t, i)
<1>1. f = [t \in 1..MaxTerm |-> c(t)] BY DEF acknowledged
<1>2. a.acks \in Seq(Ack) BY DEF AppendMsg
<1>3. ASSUME NEW t \in 1..MaxTerm PROVE c(t) \in Index /\ c(t) \in S(t)
  <2>1. sent(t) \subseteq Index
    <3> SUFFICES ASSUME NEW k \in 1..Len(a.acks) PROVE a.acks[k].index \in Index OBVIOUS
    <3>1. a.acks[k] \in Ack BY <1>2, ElementOfSeq
    <3> QED BY <3>1, AckIs
  <2>2. acks[t] \in Index OBVIOUS
  <2>3. S(t) \subseteq 0..MaxLog /\ S(t) # {} BY <2>1, <2>2 DEF Index
  <2>4. MaxLog \in Nat BY Bounds
  <2> HIDE DEF S
  <2>5. \E i \in S(t) : \A j \in S(t) : j <= i BY <2>3, <2>4, LargestOf
  <2>6. \E i \in Index : P(t, i) BY <2>3, <2>5 DEF Index
  <2> HIDE DEF P
  <2>7. c(t) \in Index /\ P(t, c(t)) BY <2>6
  <2> QED BY <2>7 DEF P
<1> HIDE DEF c
<1>4. f \in [1..MaxTerm -> Index] BY <1>1, <1>3
<1>5. ASSUME NEW t \in 1..MaxTerm
      PROVE  \/ f[t] = acks[t]
             \/ \E k \in 1..Len(a.acks) : a.acks[k].term = t /\ f[t] = a.acks[k].index
  <2>1. f[t] \in sent(t) \cup {acks[t]} BY <1>1, <1>3
  <2> QED BY <2>1
<1> QED BY <1>4, <1>5

\* acknowledged is true of the point that was written.
LEMMA AcksKept ==
    ASSUME NEW h, IsHistory(h), NEW s, NEW y, NEW R, NEW m, Kept(h, s, R, m, acks),
           Good(h, Stored(s)), Good(h, y), Later(h, Stored(s), y),
           NEW a \in AppendMsg, Supports(h, y, a.acks), s \in Storage
    PROVE  /\ acknowledged(a) \in [1..MaxTerm -> Index]
           /\ \A t \in 1..MaxTerm : acknowledged(a)[t] > 0 =>
                /\ t <= y.Term
                /\ t = y.Term => Agree(y.log, LeaderLog(h, t), acknowledged(a)[t])
<1> DEFINE f == acknowledged(a)
<1>1. acks \in [1..MaxTerm -> Index] BY DEF Kept
<1>2. /\ f \in [1..MaxTerm -> Index]
      /\ \A t \in 1..MaxTerm :
           \/ f[t] = acks[t]
           \/ \E k \in 1..Len(a.acks) : a.acks[k].term = t /\ f[t] = a.acks[k].index
  BY <1>1, AcknowledgedIs
<1> HIDE DEF f
<1>3. ASSUME NEW t \in 1..MaxTerm, f[t] > 0
      PROVE  t <= y.Term /\ (t = y.Term => Agree(y.log, LeaderLog(h, t), f[t]))
  <2>1. CASE f[t] = acks[t]
    <3> DEFINE i == acks[t]
    <3>1. i > 0 /\ i \in Nat BY <1>1, <1>3, <2>1 DEF Index
    <3>2. t <= s.hs.Term /\ (t = s.hs.Term => Agree(s.log, LeaderLog(h, t), i))
      BY <3>1 DEF Kept
    <3>3. Stored(s).Term = s.hs.Term /\ Stored(s).log = s.log BY DEF Stored
    <3>4. s.hs.Term \in Nat /\ y.Term \in Nat /\ s.hs.Term <= y.Term
      BY <3>3, StorageIs, PointIs DEF Later
    <3>5. t \in Nat OBVIOUS
    <3>6. t <= y.Term BY <3>2, <3>4, <3>5
    <3>7. ASSUME t = y.Term PROVE Agree(y.log, LeaderLog(h, t), i)
      <4>1. t = s.hs.Term BY <3>2, <3>4, <3>5, <3>7
      <4>2. Agree(Stored(s).log, LeaderLog(h, Stored(s).Term), i) BY <3>2, <3>3, <4>1
      <4>3. Stored(s).Term = y.Term BY <3>3, <3>7, <4>1
      <4>4. Agree(y.log, LeaderLog(h, Stored(s).Term), i) BY <3>1, <4>2, <4>3, LaterKeeps
      <4> QED BY <3>3, <4>1, <4>4
    <3> QED BY <2>1, <3>6, <3>7
  <2>2. CASE \E k \in 1..Len(a.acks) : a.acks[k].term = t /\ f[t] = a.acks[k].index
    <3>1. PICK k \in 1..Len(a.acks) : a.acks[k].term = t /\ f[t] = a.acks[k].index BY <2>2
    <3>2. /\ a.acks[k].term <= y.Term
          /\ a.acks[k].term = y.Term => Agree(y.log, LeaderLog(h, y.Term), a.acks[k].index)
      BY DEF Supports
    <3> QED BY <3>1, <3>2
  <2> QED BY <1>2, <2>1, <2>2
<1> QED BY <1>2, <1>3 DEF f

\* What the work of a, the oldest append, makes of the lists of appends and points.
DoneBy(a, R) == IF a.responds THEN Append(R, a) ELSE R
PointsBy(a, D, y) == IF a.responds THEN Append(D, y) ELSE D

LEMMA DoneIs ==
    ASSUME NEW R \in Seq(AppendMsg), NEW D \in Seq(Point), Len(D) = Len(R),
           NEW a \in AppendMsg, NEW y \in Point
    PROVE  LET B == DoneBy(a, R)
               E == PointsBy(a, D, y)
           IN  /\ B \in Seq(AppendMsg) /\ E \in Seq(Point) /\ Len(E) = Len(B)
               /\ \A i \in 1..Len(R) : i \in 1..Len(B) /\ B[i] = R[i] /\ E[i] = D[i]
               /\ \A i \in 1..Len(B) :
                    \/ i \in 1..Len(R) /\ B[i] = R[i] /\ E[i] = D[i]
                    \/ a.responds /\ i = Len(R) + 1 /\ B[i] = a /\ E[i] = y
               /\ a.responds => \E i \in 1..Len(B) : B[i] = a
<1> DEFINE B == DoneBy(a, R)
           E == PointsBy(a, D, y)
<1>1. CASE a.responds
  <2>1. B = Append(R, a) /\ E = Append(D, y) BY <1>1 DEF DoneBy, PointsBy
  <2>2. /\ B \in Seq(AppendMsg) /\ Len(B) = Len(R) + 1 /\ Len(R) \in Nat
        /\ B[Len(R) + 1] = a /\ \A k \in 1..Len(R) : B[k] = R[k]
    BY <2>1, Appended
  <2>3. /\ E \in Seq(Point) /\ Len(E) = Len(D) + 1
        /\ E[Len(D) + 1] = y /\ \A k \in 1..Len(D) : E[k] = D[k]
    BY <2>1, Appended
  <2> HIDE DEF B, E
  <2>4. \A i \in 1..Len(R) : i \in 1..Len(B) /\ B[i] = R[i] /\ E[i] = D[i] BY <2>2, <2>3
  <2>5. \A i \in 1..Len(B) : \/ i \in 1..Len(R) /\ B[i] = R[i] /\ E[i] = D[i]
                             \/ a.responds /\ i = Len(R) + 1 /\ B[i] = a /\ E[i] = y
    <3> SUFFICES ASSUME NEW i \in 1..Len(B), i \notin 1..Len(R)
                 PROVE  i = Len(R) + 1 /\ B[i] = a /\ E[i] = y
      BY <1>1, <2>4
    <3>1. i = Len(R) + 1 BY <2>2
    <3> QED BY <2>2, <2>3, <3>1
  <2>6. Len(R) + 1 \in 1..Len(B) BY <2>2
  <2>7. \E i \in 1..Len(B) : B[i] = a BY <2>2, <2>6
  <2> QED BY <2>2, <2>3, <2>4, <2>5, <2>7 DEF B, E
<1>2. CASE ~a.responds
  <2>1. B = R /\ E = D BY <1>2 DEF DoneBy, PointsBy
  <2> HIDE DEF B, E
  <2> QED BY <1>2, <2>1 DEF B, E
<1> QED BY <1>1, <1>2

\* Over a storage that has the stable part of the log, the log is the same.
LEMMA WholeKept ==
    ASSUME NEW r \in Node, NEW s \in Storage, NEW t \in Storage, UnstableOK(r.u),
           ~IsSnapshot(r.u.snapshot) => r.u.offset - 1 <= Len(s.log),
           ~IsSnapshot(r.u.snapshot) => Agree(t.log, Whole(r, s), r.u.offset - 1)
    PROVE  Whole(r, t) = Whole(r, s)
<1>1. CASE IsSnapshot(r.u.snapshot) BY <1>1 DEF Whole
<1>2. CASE ~IsSnapshot(r.u.snapshot)
  <2> DEFINE w == Whole(r, s)
             c == r.u.offset - 1
             e == r.u.entries
             l == t.log
  <2>1. /\ w \in Log /\ Len(w) = c + Len(e)
        /\ \A i \in 1..Len(e) : w[c + i] = e[i]
    BY WholeIs
  <2>2. Agree(l, w, c) BY <1>2
  <2>3. Whole(r, t) = SubSeq(l, 1, c) \o e BY <1>2 DEF Whole
  <2>4. l \in Log /\ Len(l) \in Nat /\ e \in Log /\ c \in Nat
    <3>1. r.u.offset \in Nat \ {0} BY NodeIs
    <3> QED BY <3>1, StorageIs, NodeIs
  <2> HIDE DEF w, c, e, l
  <2>5. Agree(w, l, c) /\ c <= Len(l) BY <2>2, AgreeSym DEF Agree
  <2>6. c \in 0..Len(l) BY <2>4, <2>5
  <2>7. w = SubSeq(l, 1, c) \o e BY <2>1, <2>4, <2>5, <2>6, JoinIs
  <2> QED BY <2>3, <2>7 DEF w
<1> QED BY <1>1, <1>2

\* A state machine that is further on.
LEMMA AppliesMore ==
    ASSUME NEW r \in Node, NEW w \in Log, NEW ps, NEW rs, NEW m, NEW X, Applies(r, w, ps, rs, m, X),
           NEW v \in Log, NEW Y, Len(m) <= Len(v), Len(v) <= r.committed, Agree(v, w, Len(v)),
           \A i \in 1..Len(Y) : Agree(v, Y[i].log, Len(v))
    PROVE  Applies(r, w, ps, rs, v, Y)
<1> DEFINE k == Len(m)
           l == Len(v)
           b == r.applying
           d == r.applied
<1>1. /\ ps \in Seq(ApplyMsg) /\ rs \in Seq(ApplyResult) /\ m \in Log /\ d <= k
      /\ \A i \in 1..Len(ps) :
         /\ ps[i].entries # <<>>
         /\ ps[i].first + Len(ps[i].entries) - 1 <= r.applying
         /\ \A j \in 1..Len(ps[i].entries) : ps[i].entries[j] = w[ps[i].first + j - 1]
         /\ \/ ps[i].first <= Len(m) + 1
            \/ i > 1 /\ ps[i].first <= ps[i - 1].first + Len(ps[i - 1].entries)
      /\ \/ b <= k
         \/ ps # <<>> /\ r.applying < ps[Len(ps)].first + Len(ps[Len(ps)].entries)
      /\ \A i \in 1..Len(rs) : rs[i].index <= k /\ rs[i].index <= r.applying
  BY DEF Applies
<1>2. k \in Nat /\ l \in Nat /\ k <= l BY <1>1, LenProperties DEF Log
<1>3. b \in Nat /\ d \in Nat BY NodeIs
<1> HIDE DEF k, l, b, d
<1>4. d <= l /\ (b <= k => b <= l) BY <1>1, <1>2, <1>3
<1>5. ASSUME NEW i \in 1..Len(ps), ps[i].first <= k + 1 PROVE ps[i].first <= l + 1
  <2> DEFINE f == ps[i].first
  <2>1. ps[i] \in ApplyMsg BY <1>1, ElementOfSeq
  <2>2. f \in Nat /\ f <= k + 1 BY <1>5, <2>1 DEF ApplyMsg
  <2> HIDE DEF f
  <2>3. f <= l + 1 BY <1>2, <2>2
  <2> QED BY <2>3 DEF f
<1>6. ASSUME NEW i \in 1..Len(rs) PROVE rs[i].index <= l
  <2> DEFINE f == rs[i].index
  <2>1. rs[i] \in ApplyResult BY <1>1, ElementOfSeq
  <2>2. f \in Nat /\ f <= k BY <1>1, <2>1 DEF ApplyResult
  <2> HIDE DEF f
  <2>3. f <= l BY <1>2, <2>2
  <2> QED BY <2>3 DEF f
<1>7. \A i \in 1..Len(ps) :
         \/ ps[i].first <= l + 1
         \/ i > 1 /\ ps[i].first <= ps[i - 1].first + Len(ps[i - 1].entries)
  BY <1>1, <1>5 DEF k
<1>8. /\ v \in Log /\ l <= r.committed /\ d <= l /\ Agree(v, w, l)
      /\ \A i \in 1..Len(Y) : Agree(v, Y[i].log, l)
  BY <1>4 DEF l
<1> QED BY <1>1, <1>4, <1>6, <1>7, <1>8 DEF Applies, l, b, d

\* The point of the oldest append, and what it makes of the storage.
LEMMA WrittenIs ==
    ASSUME NEW h, IsHistory(h), NEW r, NEW s, NEW R, NEW A, NEW ps, NEW rs, NEW m, NEW D, NEW X,
           Fits(h, r, s, R, A, ps, rs, m, D, X), A # <<>>
    PROVE  LET a == A[1]
               y == X[2]
               t == stored(s, a)
           IN  /\ ~MissesEntries(ApplySnapshot(s, a.snapshot), a.first, a.entries)
               /\ t \in Storage /\ Stored(t) = y /\ t.log = y.log
               /\ t.hs.Term = y.Term /\ t.hs.Commit = y.Commit /\ Whole(r, t) = Whole(r, s)
               /\ NodeOK(h, r, t) /\ StorageOK(h, r, t) /\ Now(r, t) = Now(r, s)
               /\ t.offset = IF IsSnapshot(a.snapshot) THEN Len(a.snapshot) ELSE s.offset
               /\ Asks(h, a, y) /\ Good(h, y) /\ Later(h, Stored(s), y) /\ Later(h, y, Now(r, s))
               /\ IsSnapshot(a.snapshot) => s.hs.Commit < Len(a.snapshot)
               /\ a \in AppendMsg /\ y \in Point
<1> DEFINE a == A[1]
           y == X[2]
           t == stored(s, a)
           p == a.snapshot
           w == Whole(r, s)
<1>1. Past(h, s, R, A, D, X) /\ NodeOK(h, r, s) /\ StorageOK(h, r, s) BY DEF Fits
<1>2. /\ A \in Seq(AppendMsg) /\ X[1] = Stored(s) /\ Len(X) = Len(A) + 1
  BY <1>1 DEF Past
<1>3. Len(A) \in Nat \ {0} /\ 1 \in 1..Len(A) /\ a \in AppendMsg BY <1>2, Tailed
<1>4. 1 \in 1..Len(X) /\ 2 \in 1..Len(X) /\ 1 < 2 BY <1>2, <1>3
<1>5. Good(h, y) /\ Before(h, X[1], A[2 - 1], y) BY <1>1, <1>4 DEF Past
<1>6. Asks(h, a, X[1 + 1]) /\ Writes(X[1], p, a.first, a.entries, X[1 + 1]) BY <1>1, <1>3 DEF Past
<1>7. Asks(h, a, y) /\ Writes(Stored(s), p, a.first, a.entries, y) /\ Later(h, Stored(s), y)
  BY <1>2, <1>5, <1>6 DEF Before
<1>8. s \in Storage /\ s.offset <= s.hs.Commit /\ Good(h, Stored(s)) BY <1>1 DEF StorageOK
<1>9. /\ ~MissesEntries(ApplySnapshot(s, p), a.first, a.entries)
      /\ t \in Storage /\ Stored(t) = y /\ t.offset <= t.hs.Commit
      /\ t.offset = IF IsSnapshot(p) THEN Len(p) ELSE s.offset
  BY <1>5, <1>7, <1>8, WriteIs
<1> HIDE DEF a, y, t
<1>10. t.log = y.log /\ t.hs.Term = y.Term /\ t.hs.Commit = y.Commit BY <1>9 DEF Stored
<1>11. r \in Node /\ UnstableOK(r.u) /\ (~IsSnapshot(r.u.snapshot) => r.u.offset - 1 <= Len(s.log))
  BY <1>1 DEF NodeOK
<1>12. ~IsSnapshot(r.u.snapshot) => Agree(t.log, w, r.u.offset - 1)
  <2>1. Settled(r, s, X) BY DEF Fits, Present
  <2>2. ~IsSnapshot(r.u.snapshot) => Agree(y.log, w, r.u.offset - 1)
    BY <1>4, <2>1 DEF Settled, y
  <2> QED BY <1>10, <2>2
<1>13. Whole(r, t) = w BY <1>8, <1>9, <1>11, <1>12, WholeKept
<1>14. Now(r, t) = Now(r, s) BY <1>13 DEF Now
<1>15. NodeOK(h, r, t)
  <2>1. ~IsSnapshot(r.u.snapshot) => r.u.offset - 1 <= Len(t.log) BY <1>12 DEF Agree
  <2> QED BY <1>1, <1>14, <2>1 DEF NodeOK
<1>16. StorageOK(h, r, t)
  <2>1. t.offset <= r.applying \/ (IsSnapshot(r.u.snapshot) /\ t.offset <= Len(r.u.snapshot))
    <3>1. CASE IsSnapshot(p)
      <4>1. Expected(r, A) BY DEF Fits, Present
      <4>2. IsSnapshot(r.u.snapshot) /\ Len(p) <= Len(r.u.snapshot)
        BY <1>3, <3>1, <4>1 DEF Expected, a
      <4> QED BY <1>9, <3>1, <4>2
    <3>2. CASE ~IsSnapshot(p)
      <4>1. s.offset <= r.applying \/ (IsSnapshot(r.u.snapshot) /\ s.offset <= Len(r.u.snapshot))
        BY <1>1 DEF StorageOK
      <4> QED BY <1>9, <3>2, <4>1
    <3> QED BY <3>1, <3>2
  <2> QED BY <1>5, <1>9, <2>1 DEF StorageOK
<1>17. Later(h, y, Now(r, s)) BY <1>4, FitsIs DEF y
<1>18. IsSnapshot(p) => s.hs.Commit < Len(p) BY <1>7 DEF Writes, Stored
<1>19. y \in Point BY <1>5, PointIs
<1> QED BY <1>3, <1>5, <1>7, <1>9, <1>10, <1>13, <1>14, <1>15, <1>16, <1>17, <1>18, <1>19 DEF a, y, t

\* The points move on: the first that is to come becomes the storage.
LEMMA PastMoves ==
    ASSUME NEW h, IsHistory(h), NEW r, NEW s, NEW R, NEW A, NEW ps, NEW rs, NEW m, NEW D, NEW X,
           Fits(h, r, s, R, A, ps, rs, m, D, X), A # <<>>
    PROVE  LET a == A[1]
               y == X[2]
           IN  Past(h, stored(s, a), DoneBy(a, R), Tail(A), PointsBy(a, D, y), Tail(X))
<1> DEFINE a == A[1]
           y == X[2]
           t == stored(s, a)
           B == DoneBy(a, R)
           E == PointsBy(a, D, y)
           Q == Tail(A)
           Y == Tail(X)
<1>1. /\ D \in Seq(Point) /\ X \in Seq(Point) /\ R \in Seq(AppendMsg) /\ A \in Seq(AppendMsg)
      /\ Len(D) = Len(R) /\ Len(X) = Len(A) + 1 /\ X[1] = Stored(s)
      /\ \A i \in 1..Len(D) : Good(h, D[i]) /\ Asks(h, R[i], D[i]) /\ Later(h, D[i], X[1])
      /\ \A i \in 1..Len(X) : Good(h, X[i])
      /\ \A i \in 1..Len(A) :
           /\ Asks(h, A[i], X[i + 1])
           /\ Writes(X[i], A[i].snapshot, A[i].first, A[i].entries, X[i + 1])
      /\ \A i, j \in 1..Len(D) : i < j => Before(h, D[i], R[j], D[j])
      /\ \A i, j \in 1..Len(X) : i < j => Before(h, X[i], A[j - 1], X[j])
  BY DEF Fits, Past
<1>2. /\ Stored(t) = y /\ Asks(h, a, y) /\ Good(h, y) /\ Later(h, Stored(s), y)
      /\ IsSnapshot(a.snapshot) => s.hs.Commit < Len(a.snapshot)
      /\ a \in AppendMsg /\ y \in Point
  BY WrittenIs
<1>3. /\ Q \in Seq(AppendMsg) /\ Len(A) \in Nat \ {0} /\ Len(Q) = Len(A) - 1 /\ Len(Q) \in Nat
      /\ \A i \in 1..Len(Q) : i + 1 \in 1..Len(A) /\ Q[i] = A[i + 1]
  BY <1>1, Tailed
<1>4. X # <<>> /\ 2 \in 1..Len(X)
  <2>1. Len(X) # 0 /\ 2 \in 1..Len(X) BY <1>1, <1>3
  <2> QED BY <2>1, EmptySeq
<1>5. /\ Y \in Seq(Point) /\ Len(Y) = Len(X) - 1 /\ Len(Y) \in Nat
      /\ \A i \in 1..Len(Y) : i + 1 \in 1..Len(X) /\ Y[i] = X[i + 1]
  BY <1>1, <1>4, Tailed
<1>6. /\ B \in Seq(AppendMsg) /\ E \in Seq(Point) /\ Len(E) = Len(B)
      /\ \A i \in 1..Len(B) :
           \/ i \in 1..Len(R) /\ B[i] = R[i] /\ E[i] = D[i]
           \/ a.responds /\ i = Len(R) + 1 /\ B[i] = a /\ E[i] = y
  <2>1. R \in Seq(AppendMsg) /\ D \in Seq(Point) /\ Len(D) = Len(R) /\ a \in AppendMsg /\ y \in Point
    BY <1>1, <1>2
  <2> HIDE DEF a, y
  <2> QED BY <2>1, DoneIs
<1> HIDE DEF a, y, t, B, E, Q, Y
<1>7. Len(Y) = Len(Q) + 1 /\ 1 \in 1..Len(Y) BY <1>1, <1>3, <1>5
<1>8. Y[1] = y
  <2>1. Y[1] = X[1 + 1] BY <1>5, <1>7
  <2> QED BY <2>1 DEF y
<1>9. ASSUME NEW i \in 1..Len(E) PROVE Good(h, E[i]) /\ Asks(h, B[i], E[i]) /\ Later(h, E[i], y)
  <2>1. CASE i \in 1..Len(R) /\ B[i] = R[i] /\ E[i] = D[i]
    <3>1. Good(h, D[i]) /\ Asks(h, R[i], D[i]) /\ Later(h, D[i], Stored(s)) /\ Good(h, Stored(s))
      <4>1. 1 \in 1..Len(X) BY <1>1, <1>3
      <4> QED BY <1>1, <2>1, <4>1
    <3>2. Later(h, D[i], y) BY <1>2, <3>1, LaterTrans
    <3> QED BY <2>1, <3>1, <3>2
  <2>2. CASE B[i] = a /\ E[i] = y BY <1>2, <2>2, LaterRefl
  <2> QED BY <1>6, <2>1, <2>2
<1>10. ASSUME NEW i \in 1..Len(Y) PROVE Good(h, Y[i]) BY <1>1, <1>5
<1>11. ASSUME NEW i \in 1..Len(Q)
       PROVE  /\ Asks(h, Q[i], Y[i + 1])
              /\ Writes(Y[i], Q[i].snapshot, Q[i].first, Q[i].entries, Y[i + 1])
  <2>1. i \in 1..Len(Y) /\ i + 1 \in 1..Len(Y) BY <1>3, <1>7
  <2>2. i + 1 \in 1..Len(A) /\ Q[i] = A[i + 1] BY <1>3
  <2>3. Y[i] = X[i + 1] /\ Y[i + 1] = X[(i + 1) + 1] BY <1>5, <2>1
  <2> QED BY <1>1, <2>2, <2>3
<1>12. ASSUME NEW i \in 1..Len(E), NEW j \in 1..Len(E), i < j PROVE Before(h, E[i], B[j], E[j])
  <2>0. Len(R) \in Nat /\ (i \in 1..Len(R) \/ i = Len(R) + 1) /\ (j \in 1..Len(R) \/ j = Len(R) + 1)
    BY <1>1, <1>6, LenProperties
  <2>1. i \in 1..Len(R) /\ E[i] = D[i]
    <3>1. i \in 1..Len(R) BY <1>12, <2>0
    <3>2. i # Len(R) + 1 BY <2>0, <3>1
    <3> QED BY <1>6, <3>1, <3>2
  <2>2. CASE j \in 1..Len(R)
    <3>1. j # Len(R) + 1 BY <2>0, <2>2
    <3>2. B[j] = R[j] /\ E[j] = D[j] BY <1>6, <3>1
    <3> QED BY <1>1, <1>12, <2>1, <2>2, <3>2
  <2>3. CASE j = Len(R) + 1
    <3>1. j \notin 1..Len(R) BY <2>0, <2>3
    <3>2. B[j] = a /\ E[j] = y BY <1>6, <3>1
    <3>3. Later(h, D[i], y) BY <1>9, <2>1
    <3>4. ASSUME IsSnapshot(a.snapshot) PROVE D[i].Commit < Len(a.snapshot)
      <4> DEFINE k == Len(a.snapshot)
                 c == D[i].Commit
                 d == s.hs.Commit
      <4>1. k \in Nat BY <1>2, LenProperties DEF AppendMsg, Log
      <4>2. 1 \in 1..Len(X) BY <1>1, <1>3
      <4>3. Good(h, D[i]) /\ Later(h, D[i], Stored(s)) /\ Good(h, Stored(s)) BY <1>1, <2>1, <4>2
      <4>4. c \in Nat /\ c <= d /\ d \in Nat
        <5>1. Stored(s).Commit = d BY DEF Stored
        <5> QED BY <4>3, <5>1, PointIs DEF Later
      <4>5. d < k BY <1>2, <3>4
      <4> HIDE DEF k, c, d
      <4>6. c < k BY <4>1, <4>4, <4>5
      <4> QED BY <4>6 DEF k, c
    <3> QED BY <2>1, <3>2, <3>3, <3>4 DEF Before
  <2> QED BY <2>0, <2>2, <2>3
<1>13. ASSUME NEW i \in 1..Len(Y), NEW j \in 1..Len(Y), i < j PROVE Before(h, Y[i], Q[j - 1], Y[j])
  <2>1. i + 1 \in 1..Len(X) /\ Y[i] = X[i + 1] /\ j + 1 \in 1..Len(X) /\ Y[j] = X[j + 1] BY <1>5
  <2>2. i + 1 < j + 1 BY <1>13
  <2> DEFINE k == i + 1
             l == j + 1
  <2>3. Before(h, X[k], A[l - 1], X[l])
    <3>1. k \in 1..Len(X) /\ l \in 1..Len(X) /\ k < l BY <2>1, <2>2
    <3> HIDE DEF k, l
    <3> QED BY <1>1, <3>1
  <2>4. j - 1 \in 1..Len(Q) BY <1>3, <1>7, <1>13
  <2>5. Q[j - 1] = A[j - 1 + 1] BY <1>3, <2>4
  <2>6. l - 1 = j - 1 + 1 OBVIOUS
  <2> QED BY <2>1, <2>3, <2>5, <2>6
<1>14. Past(h, t, B, Q, E, Y)
  <2>1. Y[1] = Stored(t) BY <1>2, <1>8
  <2> QED BY <1>3, <1>5, <1>6, <1>7, <1>8, <1>9, <1>10, <1>11, <1>12, <1>13, <2>1 DEF Past
<1> QED BY <1>14 DEF t, B, Q, E, Y, a, y

\* What the rest of the invariant says once the oldest append is done.
LEMMA PresentMoves ==
    ASSUME NEW h, IsHistory(h), NEW r, NEW s, NEW R, NEW A, NEW ps, NEW rs, NEW m, NEW D, NEW X,
           Fits(h, r, s, R, A, ps, rs, m, D, X), A # <<>>
    PROVE  LET a == A[1]
               y == X[2]
           IN  Present(h, r, stored(s, a), DoneBy(a, R), Tail(A), PointsBy(a, D, y), Tail(X))
<1> DEFINE a == A[1]
           y == X[2]
           t == stored(s, a)
           B == DoneBy(a, R)
           E == PointsBy(a, D, y)
           Q == Tail(A)
           Y == Tail(X)
<1>1. /\ D \in Seq(Point) /\ X \in Seq(Point) /\ R \in Seq(AppendMsg) /\ A \in Seq(AppendMsg)
      /\ Len(D) = Len(R) /\ Len(X) = Len(A) + 1
  BY DEF Fits, Past
<1>2. /\ Whole(r, t) = Whole(r, s) /\ Now(r, t) = Now(r, s) /\ Asks(h, a, y)
      /\ a \in AppendMsg /\ y \in Point
  BY WrittenIs
<1>3. /\ Len(A) \in Nat \ {0} /\ Len(Q) = Len(A) - 1 /\ Len(Q) \in Nat /\ 1 \in 1..Len(A)
      /\ \A i \in 1..Len(Q) : i + 1 \in 1..Len(A) /\ Q[i] = A[i + 1]
  BY <1>1, Tailed
<1>4. X # <<>> /\ 2 \in 1..Len(X)
  <2>1. Len(X) # 0 /\ 2 \in 1..Len(X) BY <1>1, <1>3
  <2> QED BY <2>1, EmptySeq
<1>5. /\ Len(Y) = Len(X) - 1 /\ Len(X) \in Nat /\ Len(Y) \in Nat
      /\ \A i \in 1..Len(Y) : i + 1 \in 1..Len(X) /\ Y[i] = X[i + 1]
  BY <1>1, <1>4, Tailed
<1>6. /\ Len(E) = Len(B)
      /\ \A i \in 1..Len(R) : i \in 1..Len(B) /\ B[i] = R[i] /\ E[i] = D[i]
      /\ \A i \in 1..Len(B) :
           \/ i \in 1..Len(R) /\ B[i] = R[i] /\ E[i] = D[i]
           \/ a.responds /\ i = Len(R) + 1 /\ B[i] = a /\ E[i] = y
      /\ a.responds => \E i \in 1..Len(B) : B[i] = a
  <2>1. R \in Seq(AppendMsg) /\ D \in Seq(Point) /\ Len(D) = Len(R) /\ a \in AppendMsg /\ y \in Point
    BY <1>1, <1>2
  <2> HIDE DEF a, y
  <2> QED BY <2>1, DoneIs
<1>7. /\ Ahead(h, r, s, X) /\ Owed(r, s, X) /\ Settled(r, s, X)
      /\ Carried(r, R, A) /\ Expected(r, R) /\ Expected(r, A)
      /\ Lacked(r, D) /\ Lacked(r, X)
  BY DEF Fits, Present
<1>8. UnstableOK(r.u) BY FitsIs
<1> HIDE DEF t, B, E, Q, Y
<1>9. Ahead(h, r, t, Y) BY <1>2, <1>5, <1>7 DEF Ahead
<1>10. Owed(r, t, Y)
  <2>1. Len(Y) \in 1..Len(Y) BY <1>1, <1>3, <1>5
  <2>2. Y[Len(Y)] = X[Len(Y) + 1] BY <1>5, <2>1
  <2>3. Len(Y) + 1 = Len(X) BY <1>5
  <2>4. Y[Len(Y)] = X[Len(X)] BY <2>2, <2>3
  <2> QED BY <1>2, <1>7, <2>4 DEF Owed
<1>11. Settled(r, t, Y)
  <2>1. ASSUME NEW i \in 1..Len(Y)
        PROVE  /\ Agree(Y[i].log, Whole(r, t), r.applying)
               /\ ~IsSnapshot(r.u.snapshot) \/ Len(r.u.snapshot) <= Y[i].Commit =>
                    /\ Agree(Y[i].log, Whole(r, t), r.u.offset - 1)
                    /\ r.u.entries = <<>> => Y[i].log = Whole(r, t)
    <3> DEFINE k == i + 1
    <3>1. k \in 1..Len(X) /\ Y[i] = X[k] BY <1>5
    <3> HIDE DEF k
    <3> QED BY <1>2, <1>7, <3>1 DEF Settled
  <2> QED BY <2>1 DEF Settled
<1>12. Carried(r, B, Q)
  <2> SUFFICES ASSUME r.u.snapshotInProgress
               PROVE  \/ \E i \in 1..Len(B) : B[i].snapshot = r.u.snapshot
                      \/ \E i \in 1..Len(Q) : Q[i].snapshot = r.u.snapshot
    BY DEF Carried
  <2>1. IsSnapshot(r.u.snapshot) BY <1>8 DEF UnstableOK
  <2>2. CASE \E i \in 1..Len(R) : R[i].snapshot = r.u.snapshot BY <1>6, <2>2
  <2>3. CASE \E i \in 1..Len(A) : A[i].snapshot = r.u.snapshot
    <3>1. PICK i \in 1..Len(A) : A[i].snapshot = r.u.snapshot BY <2>3
    <3>2. CASE i = 1
      <4>1. a.snapshot = r.u.snapshot BY <3>1, <3>2
      <4>2. a.responds BY <1>2, <2>1, <4>1 DEF Asks
      <4> QED BY <1>6, <4>1, <4>2
    <3>3. CASE i # 1
      <4>1. i - 1 \in 1..Len(Q) /\ (i - 1) + 1 = i BY <1>3, <3>3
      <4>2. Q[i - 1] = A[i] BY <1>3, <4>1
      <4> QED BY <3>1, <4>1, <4>2
    <3> QED BY <3>2, <3>3
  <2> QED BY <1>7, <2>2, <2>3 DEF Carried
<1>13. Expected(r, B)
  <2>1. ASSUME NEW i \in 1..Len(B), IsSnapshot(B[i].snapshot)
        PROVE  IsSnapshot(r.u.snapshot) /\ Len(B[i].snapshot) <= Len(r.u.snapshot)
    <3>1. CASE i \in 1..Len(R) /\ B[i] = R[i] BY <1>7, <2>1, <3>1 DEF Expected
    <3>2. CASE B[i] = a BY <1>3, <1>7, <2>1, <3>2 DEF Expected
    <3> QED BY <1>6, <3>1, <3>2
  <2> QED BY <2>1 DEF Expected
<1>14. Expected(r, Q)
  <2>1. ASSUME NEW i \in 1..Len(Q), IsSnapshot(Q[i].snapshot)
        PROVE  IsSnapshot(r.u.snapshot) /\ Len(Q[i].snapshot) <= Len(r.u.snapshot)
    <3> DEFINE k == i + 1
    <3>1. k \in 1..Len(A) /\ Q[i] = A[k] BY <1>3
    <3> HIDE DEF k
    <3> QED BY <1>7, <2>1, <3>1 DEF Expected
  <2> QED BY <2>1 DEF Expected
<1>15. Lacked(r, E)
  <2>1. ASSUME IsSnapshot(r.u.snapshot), NEW i \in 1..Len(E),
               E[i].Commit < Len(r.u.snapshot), E[i].Term = r.Term
        PROVE  ~Agree(E[i].log, r.u.snapshot, Len(r.u.snapshot))
    <3>1. CASE i \in 1..Len(R) /\ E[i] = D[i] BY <1>1, <1>7, <2>1, <3>1 DEF Lacked
    <3>2. CASE E[i] = y BY <1>4, <1>7, <2>1, <3>2 DEF Lacked
    <3> QED BY <1>6, <3>1, <3>2
  <2> QED BY <2>1 DEF Lacked
<1>16. Lacked(r, Y)
  <2>1. ASSUME IsSnapshot(r.u.snapshot), NEW i \in 1..Len(Y),
               Y[i].Commit < Len(r.u.snapshot), Y[i].Term = r.Term
        PROVE  ~Agree(Y[i].log, r.u.snapshot, Len(r.u.snapshot))
    <3> DEFINE k == i + 1
    <3>1. k \in 1..Len(X) /\ Y[i] = X[k] BY <1>5
    <3> HIDE DEF k
    <3> QED BY <1>7, <2>1, <3>1 DEF Lacked
  <2> QED BY <2>1 DEF Lacked
<1>17. Present(h, r, t, B, Q, E, Y)
  BY <1>9, <1>10, <1>11, <1>12, <1>13, <1>14, <1>15, <1>16 DEF Present
<1> QED BY <1>17 DEF t, B, Q, E, Y

\* A snapshot that the state machine lacks replaces what it has.
installed(m, p) == IF Len(p) > Len(m) THEN p ELSE m

LEMMA InstalledIs ==
    ASSUME NEW h, IsHistory(h), NEW r, NEW s, NEW R, NEW A, NEW ps, NEW rs, NEW m, NEW D, NEW X,
           Fits(h, r, s, R, A, ps, rs, m, D, X), A # <<>>
    PROVE  LET v == installed(m, A[1].snapshot)
           IN  /\ v \in Log /\ Len(v) \in Nat /\ m \in Log /\ Len(m) \in Nat /\ Len(m) <= Len(v)
               /\ Len(A[1].snapshot) <= Len(v)
               /\ Applies(r, Whole(r, s), ps, rs, v, Tail(X)) /\ Agree(m, v, Len(m))
<1> DEFINE a == A[1]
           y == X[2]
           p == a.snapshot
           v == installed(m, p)
           w == Whole(r, s)
           Y == Tail(X)
<1>1. /\ X \in Seq(Point) /\ A \in Seq(AppendMsg) /\ Len(X) = Len(A) + 1
      /\ \A i, j \in 1..Len(X) : i < j => Before(h, X[i], A[j - 1], X[j])
  BY DEF Fits, Past
<1>2. Asks(h, a, y) /\ Good(h, y) /\ Later(h, y, Now(r, s)) /\ a \in AppendMsg BY WrittenIs
<1>3. Len(A) \in Nat \ {0} BY <1>1, Tailed
<1>4. X # <<>> /\ 2 \in 1..Len(X)
  <2>1. Len(X) # 0 /\ 2 \in 1..Len(X) BY <1>1, <1>3
  <2> QED BY <2>1, EmptySeq
<1>5. \A i \in 1..Len(Y) : i + 1 \in 1..Len(X) /\ Y[i] = X[i + 1] BY <1>1, <1>4, Tailed
<1>6. /\ r \in Node /\ w \in Log /\ Len(w) \in Nat /\ Good(h, Now(r, s))
      /\ \A i \in 1..Len(X) : Good(h, X[i])
  BY FitsIs
<1>7. Applies(r, w, ps, rs, m, X) BY DEF Fits
<1>8. m \in Log /\ Len(m) <= r.committed /\ Agree(m, w, Len(m)) /\ \A i \in 1..Len(X) : Agree(m, X[i].log, Len(m))
  BY <1>7 DEF Applies
<1>9. p \in Log BY <1>2 DEF AppendMsg
<1>10. Len(m) \in Nat /\ Len(p) \in Nat BY <1>8, <1>9, LenProperties DEF Log
<1>11. /\ y.log \in Log /\ Len(y.log) \in Nat /\ y.Commit \in Nat /\ r.committed \in Nat
  <2>1. r.committed \in Nat BY <1>6, NodeIs
  <2> QED BY <1>2, <2>1, PointIs
<1>12. Len(p) <= y.Commit /\ Agree(p, y.log, Len(p)) BY <1>2 DEF Asks
<1> HIDE DEF p, w, Y
<1>13. CASE Len(p) > Len(m)
  <2>1. v = p BY <1>13 DEF installed
  <2>2. Len(p) <= r.committed
    <3> DEFINE c == y.Commit
    <3>1. c <= r.committed BY <1>2 DEF Later, Now
    <3>2. c \in Nat /\ Len(p) <= c BY <1>11, <1>12
    <3> HIDE DEF c
    <3> QED BY <1>10, <1>11, <3>1, <3>2
  <2>3. ASSUME NEW z, Good(h, z), Later(h, y, z) PROVE Agree(p, z.log, Len(p))
    <3>1. Agree(y.log, z.log, y.Commit) BY <1>2, <2>3, LaterCommitted
    <3>2. Len(z.log) \in Nat BY <2>3, PointIs
    <3>3. Agree(y.log, z.log, Len(p)) BY <1>10, <1>11, <1>12, <3>1, <3>2, AgreeLess
    <3> QED BY <1>12, <3>3, AgreeTrans
  <2>4. Agree(p, w, Len(p))
    <3>1. Now(r, s).log = w BY DEF Now, w
    <3> QED BY <1>2, <1>6, <2>3, <3>1
  <2>5. ASSUME NEW i \in 1..Len(Y) PROVE Agree(p, Y[i].log, Len(p))
    <3> DEFINE k == i + 1
    <3>1. k \in 1..Len(X) /\ Y[i] = X[k] /\ (k = 2 \/ 2 < k) BY <1>5
    <3> HIDE DEF k
    <3>2. Later(h, y, X[k])
      <4>1. CASE k = 2 BY <1>2, <4>1, LaterRefl
      <4>2. CASE 2 < k
        <5>1. Before(h, X[2], A[k - 1], X[k]) BY <1>1, <1>4, <3>1, <4>2
        <5> QED BY <5>1 DEF Before
      <4> QED BY <3>1, <4>1, <4>2
    <3> QED BY <1>6, <2>3, <3>1, <3>2
  <2>6. Agree(m, p, Len(m))
    <3>1. Len(m) <= Len(p) BY <1>10, <1>13
    <3>2. Agree(p, w, Len(m)) BY <1>6, <1>10, <2>4, <3>1, AgreeLess
    <3> QED BY <1>8, <3>2, AgreeSym, AgreeTrans
  <2>7. Len(m) <= Len(p) BY <1>10, <1>13
  <2>8. Applies(r, w, ps, rs, p, Y) BY <1>6, <1>7, <1>9, <2>2, <2>4, <2>5, <2>7, AppliesMore
  <2> QED BY <1>8, <1>9, <1>10, <2>1, <2>6, <2>7, <2>8 DEF p, w, Y
<1>14. CASE ~(Len(p) > Len(m))
  <2>1. v = m BY <1>14 DEF installed
  <2>2. \A i \in 1..Len(Y) : Agree(m, Y[i].log, Len(m)) BY <1>5, <1>8
  <2>3. Len(m) <= Len(m) /\ Len(p) <= Len(m) BY <1>10, <1>14
  <2>4. Applies(r, w, ps, rs, m, Y) BY <1>6, <1>7, <1>8, <2>2, <2>3, AppliesMore
  <2>5. Agree(m, m, Len(m)) BY <1>8, <1>10, <2>3, AgreeSame
  <2> QED BY <1>8, <1>10, <2>1, <2>3, <2>4, <2>5 DEF p, w, Y
<1> QED BY <1>13, <1>14

\* The append thread writes its oldest append, and the acknowledgements go out.
LEMMA AppendThreadKeeps ==
    ASSUME NEW h, IsHistory(h), NEW r, NEW s, NEW R, NEW A, NEW ps, NEW rs, NEW m, NEW D, NEW X,
           Fits(h, r, s, R, A, ps, rs, m, D, X), A # <<>>, Kept(h, s, R, m, acks)
    PROVE  LET a == A[1]
               t == stored(s, a)
               v == installed(m, a.snapshot)
           IN  /\ ~MissesEntries(ApplySnapshot(s, a.snapshot), a.first, a.entries)
               /\ Whole(r, t) = Whole(r, s) /\ Agree(m, v, Len(m))
               /\ Kept(h, t, DoneBy(a, R), v, acknowledged(a))
               /\ \E E, Y : Fits(h, r, t, DoneBy(a, R), Tail(A), ps, rs, v, E, Y)
<1> DEFINE a == A[1]
           y == X[2]
           t == stored(s, a)
           B == DoneBy(a, R)
           E == PointsBy(a, D, y)
           p == a.snapshot
           v == installed(m, p)
<1>1. /\ ~MissesEntries(ApplySnapshot(s, p), a.first, a.entries)
      /\ Stored(t) = y /\ t.log = y.log /\ t.hs.Term = y.Term
      /\ Whole(r, t) = Whole(r, s) /\ NodeOK(h, r, t) /\ StorageOK(h, r, t)
      /\ t.offset = IF IsSnapshot(p) THEN Len(p) ELSE s.offset
      /\ Asks(h, a, y) /\ Good(h, y) /\ Later(h, Stored(s), y)
      /\ a \in AppendMsg /\ y \in Point
  BY WrittenIs
<1>2. Past(h, t, B, Tail(A), E, Tail(X)) BY PastMoves
<1>3. Present(h, r, t, B, Tail(A), E, Tail(X)) BY PresentMoves
<1>4. /\ Len(v) \in Nat /\ Len(m) \in Nat /\ Len(m) <= Len(v) /\ Len(p) <= Len(v)
      /\ Applies(r, Whole(r, s), ps, rs, v, Tail(X)) /\ Agree(m, v, Len(m))
  BY InstalledIs
<1> HIDE DEF t, v, E
<1>5. Fits(h, r, t, B, Tail(A), ps, rs, v, E, Tail(X)) BY <1>1, <1>2, <1>3, <1>4 DEF Fits
<1>6. Kept(h, t, B, v, acknowledged(a))
  <2>1. s \in Storage /\ Good(h, Stored(s)) BY FitsIs
  <2>2. Supports(h, y, a.acks) BY <1>1 DEF Asks
  <2> DEFINE f == acknowledged(a)
  <2>3. /\ f \in [1..MaxTerm -> Index]
        /\ \A i \in 1..MaxTerm : f[i] > 0 =>
             /\ i <= y.Term
             /\ i = y.Term => Agree(y.log, LeaderLog(h, i), f[i])
    <3> HIDE DEF a, y
    <3> QED BY <1>1, <2>1, <2>2, AcksKept
  <2>4. t.offset <= Len(v)
    <3>1. CASE IsSnapshot(p) BY <1>1, <1>4, <3>1
    <3>2. CASE ~IsSnapshot(p)
      <4> DEFINE b == s.offset
                 k == Len(m)
                 l == Len(v)
      <4>1. b \in Nat /\ b <= k BY <2>1, StorageIs DEF Kept
      <4>2. t.offset = b /\ k \in Nat /\ l \in Nat /\ k <= l BY <1>1, <1>4, <3>2
      <4> HIDE DEF b, k, l
      <4>3. t.offset <= l BY <4>1, <4>2
      <4> QED BY <4>3 DEF l
    <3> QED BY <3>1, <3>2
  <2>5. ASSUME NEW k \in 1..Len(B) PROVE Len(B[k].snapshot) <= Len(v)
    <3>1. R \in Seq(AppendMsg) /\ D \in Seq(Point) /\ Len(D) = Len(R) BY DEF Fits, Past
    <3>2. (k \in 1..Len(R) /\ B[k] = R[k]) \/ B[k] = a
      <4> HIDE DEF a, y
      <4> QED BY <1>1, <3>1, DoneIs
    <3>3. CASE k \in 1..Len(R) /\ B[k] = R[k]
      <4> DEFINE c == Len(R[k].snapshot)
                 d == Len(m)
                 l == Len(v)
      <4>1. R[k] \in AppendMsg BY <3>1, <3>3, ElementOfSeq
      <4>2. R[k].snapshot \in Log BY <4>1 DEF AppendMsg
      <4>3. c \in Nat /\ c <= d BY <3>3, <4>2, LenProperties DEF Kept, Log
      <4>4. d \in Nat /\ l \in Nat /\ d <= l BY <1>4
      <4> HIDE DEF c, d, l
      <4>5. c <= l BY <4>3, <4>4
      <4> QED BY <3>3, <4>5 DEF c, l
    <3>4. CASE B[k] = a BY <1>4, <3>4
    <3> QED BY <3>2, <3>3, <3>4
  <2> HIDE DEF f, a, y, B
  <2> QED BY <1>1, <2>3, <2>4, <2>5 DEF Kept, f
<1> QED BY <1>1, <1>4, <1>5, <1>6 DEF t, v, E

----------------------------------------------------------------------------
(* The apply thread *)

\* What the state machine holds once the apply thread has done a.
applied(m, a) ==
    IF a.first + Len(a.entries) - 1 <= Len(m) THEN m ELSE SubSeq(m, 1, a.first - 1) \o a.entries

LEMMA AppliedIs ==
    ASSUME NEW m \in Log, NEW w \in Log, NEW a \in ApplyMsg, a.first <= Len(m) + 1,
           Agree(m, w, Len(m)), a.first + Len(a.entries) - 1 <= Len(w),
           \A j \in 1..Len(a.entries) : a.entries[j] = w[a.first + j - 1]
    PROVE  LET v == applied(m, a)
               l == a.first + Len(a.entries) - 1
           IN  /\ l \in Nat /\ v \in Log /\ Len(v) = Greatest(Len(m), l)
               /\ Agree(v, w, Len(v)) /\ Agree(m, v, Len(m))
<1> DEFINE v == applied(m, a)
           e == a.entries
           f == a.first
           l == f + Len(e) - 1
           k == Len(m)
<1>1. e \in Log /\ f \in Nat \ {0} BY DEF ApplyMsg
<1>2. Len(e) \in Nat /\ k \in Nat /\ Len(w) \in Nat BY <1>1, LenProperties DEF Log
<1>3. f <= k + 1 /\ l <= Len(w) /\ Agree(m, w, k) /\ \A j \in 1..Len(e) : e[j] = w[f + j - 1]
  OBVIOUS
<1>4. v = IF l <= k THEN m ELSE SubSeq(m, 1, f - 1) \o e BY DEF applied
<1> HIDE DEF v, e, f, k
<1>5. l \in Nat BY <1>1, <1>2
<1>6. CASE l <= k
  <2>1. v = m BY <1>4, <1>6
  <2>2. Greatest(k, l) = k BY <1>2, <1>5, <1>6 DEF Greatest
  <2>3. Agree(m, m, k) /\ k = Len(m) BY <1>2, AgreeSame DEF k
  <2> QED BY <1>3, <1>5, <2>1, <2>2, <2>3 DEF v, e, f, k
<1>7. CASE ~(l <= k)
  <2>1. v = SubSeq(m, 1, f - 1) \o e BY <1>4, <1>7
  <2>2. f - 1 \in 0..Len(m) BY <1>1, <1>2, <1>3 DEF k
  <2>3. /\ v \in Log /\ Len(v) = f - 1 + Len(e) /\ Agree(v, m, f - 1)
        /\ \A j \in 1..Len(e) : v[f - 1 + j] = e[j]
    BY <1>1, <2>1, <2>2, JoinOf
  <2>4. Len(v) = l BY <1>1, <1>2, <2>3
  <2>5. Greatest(k, l) = l BY <1>2, <1>5, <1>7 DEF Greatest
  <2>6. ASSUME NEW i \in 1..l PROVE v[i] = w[i]
    <3>1. CASE i <= f - 1
      <4>1. i \in 1..(f - 1) /\ i \in 1..k BY <1>1, <1>2, <1>3, <3>1
      <4>2. v[i] = m[i] BY <2>3, <4>1 DEF Agree
      <4>3. m[i] = w[i] BY <1>3, <4>1 DEF Agree
      <4> QED BY <4>2, <4>3
    <3>2. CASE ~(i <= f - 1)
      <4> DEFINE j == i - (f - 1)
      <4>1. j \in 1..Len(e) /\ f - 1 + j = i /\ f + j - 1 = i BY <1>1, <1>2, <3>2
      <4> HIDE DEF j
      <4>2. v[f - 1 + j] = e[j] /\ e[j] = w[f + j - 1] BY <1>3, <2>3, <4>1
      <4> QED BY <4>1, <4>2
    <3> QED BY <3>1, <3>2
  <2>7. Agree(v, w, l) BY <1>2, <1>3, <1>5, <2>4, <2>6 DEF Agree
  <2>8. Agree(m, v, k)
    <3>1. k <= l BY <1>2, <1>5, <1>7
    <3>2. Len(v) \in Nat BY <1>5, <2>4
    <3>3. Agree(v, w, k) BY <1>2, <1>5, <2>7, <3>1, <3>2, AgreeLess
    <3> QED BY <1>3, <3>3, AgreeSym, AgreeTrans
  <2> QED BY <1>5, <2>3, <2>4, <2>5, <2>7, <2>8 DEF v, e, f, k
<1> QED BY <1>6, <1>7

LEMMA KeptMore ==
    ASSUME NEW h, NEW s \in Storage, NEW R \in Seq(AppendMsg), NEW m, NEW acked, Kept(h, s, R, m, acked),
           NEW v, Len(m) \in Nat, Len(v) \in Nat, Len(m) <= Len(v)
    PROVE  Kept(h, s, R, v, acked)
<1> DEFINE k == Len(m)
           l == Len(v)
<1>1. k \in Nat /\ l \in Nat /\ k <= l OBVIOUS
<1>2. s.offset \in Nat /\ s.offset <= k BY StorageIs DEF Kept
<1> HIDE DEF k, l
<1>3. s.offset <= l
  <2> DEFINE b == s.offset
  <2>1. b \in Nat /\ b <= k BY <1>2
  <2> HIDE DEF b
  <2>2. b <= l BY <1>1, <2>1
  <2> QED BY <2>2 DEF b
<1>4. ASSUME NEW j \in 1..Len(R) PROVE Len(R[j].snapshot) <= l
  <2> DEFINE c == Len(R[j].snapshot)
  <2>1. R[j] \in AppendMsg BY ElementOfSeq
  <2>2. R[j].snapshot \in Log BY <2>1 DEF AppendMsg
  <2>3. c \in Nat /\ c <= k BY <2>2, LenProperties DEF Kept, Log, k
  <2> HIDE DEF c
  <2>4. c <= l BY <1>1, <2>3
  <2> QED BY <2>4 DEF c
<1> QED BY <1>3, <1>4 DEF Kept, l

\* The apply thread hands its oldest work to the state machine.
LEMMA ApplyThreadKeeps ==
    ASSUME NEW h, IsHistory(h), NEW r, NEW s, NEW R, NEW A, NEW ps, NEW rs, NEW m, NEW D, NEW X,
           Fits(h, r, s, R, A, ps, rs, m, D, X), ps # <<>>, NEW acked, Kept(h, s, R, m, acked)
    PROVE  LET a == ps[1]
               v == applied(m, a)
               l == a.first + Len(a.entries) - 1
               res == [index |-> l, size |-> Len(a.entries)]
           IN  /\ Fits(h, r, s, R, A, Tail(ps), Append(rs, res), v, D, X)
               /\ Agree(m, v, Len(m)) /\ Kept(h, s, R, v, acked)
<1> DEFINE last(i) == ps[i].first + Len(ps[i].entries) - 1
           a == ps[1]
           v == applied(m, a)
           l == last(1)
           w == Whole(r, s)
           b == r.applying
           c == r.committed
           d == r.applied
           k == Len(m)
           Q == Tail(ps)
           res == [index |-> l, size |-> Len(a.entries)]
           T == Append(rs, res)
<1>1. /\ r \in Node /\ s \in Storage /\ w \in Log /\ Len(w) \in Nat /\ d <= b /\ b <= c /\ c <= Len(w)
      /\ \A i \in 1..Len(X) : Good(h, X[i])
  BY FitsIs
<1>2. b \in Nat /\ c \in Nat /\ d \in Nat BY <1>1, NodeIs
<1>3. /\ ps \in Seq(ApplyMsg) /\ rs \in Seq(ApplyResult) /\ m \in Log /\ k <= c /\ d <= k
      /\ Agree(m, w, k) /\ \A i \in 1..Len(X) : Agree(m, X[i].log, k)
      /\ \A i \in 1..Len(ps) :
         /\ ps[i].entries # <<>> /\ last(i) <= b
         /\ \A j \in 1..Len(ps[i].entries) : ps[i].entries[j] = w[ps[i].first + j - 1]
         /\ \/ ps[i].first <= k + 1
            \/ i > 1 /\ ps[i].first <= ps[i - 1].first + Len(ps[i - 1].entries)
      /\ \/ b <= k
         \/ ps # <<>> /\ b < ps[Len(ps)].first + Len(ps[Len(ps)].entries)
      /\ \A i \in 1..Len(rs) : rs[i].index <= k /\ rs[i].index <= b
  BY DEF Fits, Applies
<1>4. k \in Nat BY <1>3, LenProperties DEF Log
<1>5. /\ Q \in Seq(ApplyMsg) /\ Len(ps) \in Nat \ {0} /\ Len(Q) = Len(ps) - 1 /\ Len(Q) \in Nat
      /\ 1 \in 1..Len(ps) /\ a \in ApplyMsg
      /\ \A i \in 1..Len(Q) : i + 1 \in 1..Len(ps) /\ Q[i] = ps[i + 1]
  BY <1>3, Tailed
<1>6. ASSUME NEW i \in 1..Len(ps)
      PROVE  /\ ps[i].first \in Nat \ {0} /\ Len(ps[i].entries) \in Nat /\ last(i) \in Nat
             /\ ps[i].first + Len(ps[i].entries) = last(i) + 1
  <2>1. ps[i] \in ApplyMsg BY <1>3, ElementOfSeq
  <2>2. ps[i].first \in Nat \ {0} /\ ps[i].entries \in Log BY <2>1 DEF ApplyMsg
  <2>3. Len(ps[i].entries) \in Nat BY <2>2, LenProperties DEF Log
  <2> QED BY <2>2, <2>3
<1>7. /\ v \in Log /\ Len(v) = Greatest(k, l) /\ Agree(v, w, Len(v)) /\ Agree(m, v, k) /\ l \in Nat
  <2>1. a.first <= k + 1 BY <1>3, <1>5
  <2>2. l <= Len(w) /\ l = a.first + Len(a.entries) - 1
    <3>1. l <= b /\ l \in Nat BY <1>3, <1>5, <1>6
    <3> HIDE DEF l, b, c, w
    <3>2. l <= Len(w) BY <1>1, <1>2, <3>1
    <3> QED BY <3>2 DEF l
  <2>3. \A j \in 1..Len(a.entries) : a.entries[j] = w[a.first + j - 1] BY <1>3, <1>5
  <2> HIDE DEF a, l, w
  <2>4. /\ v \in Log /\ Len(v) = Greatest(Len(m), l) /\ Agree(v, w, Len(v)) /\ Agree(m, v, Len(m))
    BY <1>1, <1>3, <1>5, <2>1, <2>2, <2>3, AppliedIs
  <2>5. l \in Nat BY <1>5, <1>6 DEF l
  <2> QED BY <2>4, <2>5
<1>8. l <= b BY <1>3, <1>5
<1> HIDE DEF v, l, w, b, c, d, k, Q, T
<1>9. Len(v) \in Nat /\ k <= Len(v) /\ l <= Len(v) /\ (Len(v) = k \/ Len(v) = l) /\ Len(v) <= c /\ d <= Len(v)
  BY <1>1, <1>2, <1>3, <1>4, <1>7, <1>8 DEF Greatest
<1>10. ASSUME NEW i \in 1..Len(X) PROVE Agree(v, X[i].log, Len(v))
  <2>1. CASE Len(v) = k
    <3>1. Agree(v, m, k) /\ Agree(m, X[i].log, k) BY <1>3, <1>7, AgreeSym
    <3> QED BY <2>1, <3>1, AgreeTrans
  <2>2. CASE Len(v) = l
    <3>1. Agree(X[i].log, w, b) BY DEF Fits, Present, Settled, w, b
    <3>2. Len(X[i].log) \in Nat BY <1>1, PointIs
    <3>3. Agree(X[i].log, w, l) BY <1>1, <1>2, <1>7, <1>8, <3>1, <3>2, AgreeLess
    <3> QED BY <1>7, <2>2, <3>3, AgreeSym, AgreeTrans
  <2> QED BY <1>9, <2>1, <2>2
<1>11. ASSUME NEW i \in 1..Len(Q)
       PROVE  /\ Q[i].entries # <<>> /\ Q[i].first + Len(Q[i].entries) - 1 <= b
              /\ \A j \in 1..Len(Q[i].entries) : Q[i].entries[j] = w[Q[i].first + j - 1]
              /\ \/ Q[i].first <= Len(v) + 1
                 \/ i > 1 /\ Q[i].first <= Q[i - 1].first + Len(Q[i - 1].entries)
  <2> DEFINE z == i + 1
  <2>1. z \in 1..Len(ps) /\ Q[i] = ps[z] BY <1>5
  <2>2. z - 1 = i /\ z > 1 OBVIOUS
  <2> HIDE DEF z
  <2>3. /\ ps[z].entries # <<>> /\ last(z) <= b
        /\ \A j \in 1..Len(ps[z].entries) : ps[z].entries[j] = w[ps[z].first + j - 1]
        /\ \/ ps[z].first <= k + 1
           \/ ps[z].first <= ps[i].first + Len(ps[i].entries)
    BY <1>3, <2>1, <2>2
  <2> DEFINE f == ps[z].first
  <2>4. f \in Nat BY <1>6, <2>1
  <2>5. CASE f <= k + 1
    <3> HIDE DEF f
    <3>1. f <= Len(v) + 1 BY <1>4, <1>9, <2>4, <2>5
    <3> QED BY <2>1, <2>3, <3>1 DEF f
  <2>6. CASE f <= ps[i].first + Len(ps[i].entries) /\ i = 1
    <3>1. ps[1].first + Len(ps[1].entries) = l + 1 BY <1>5, <1>6 DEF l
    <3>2. f <= l + 1 BY <2>6, <3>1
    <3> HIDE DEF f
    <3>3. f <= Len(v) + 1 BY <1>7, <1>9, <2>4, <3>2
    <3> QED BY <2>1, <2>3, <3>3 DEF f
  <2>7. CASE f <= ps[i].first + Len(ps[i].entries) /\ i # 1
    <3> DEFINE y == i - 1
    <3>1. y \in 1..Len(Q) /\ y + 1 = i /\ i > 1 BY <2>7
    <3> HIDE DEF y
    <3>2. Q[y] = ps[i] BY <1>5, <3>1
    <3> QED BY <2>1, <2>3, <2>7, <3>1, <3>2 DEF y
  <2> QED BY <2>3, <2>5, <2>6, <2>7
<1>12. \/ b <= Len(v)
       \/ Q # <<>> /\ b < Q[Len(Q)].first + Len(Q[Len(Q)].entries)
  <2>1. CASE b <= k BY <1>2, <1>4, <1>9, <2>1
  <2>2. CASE b < ps[Len(ps)].first + Len(ps[Len(ps)].entries) /\ Len(ps) = 1
    <3>1. ps[1].first + Len(ps[1].entries) = l + 1 BY <1>5, <1>6 DEF l
    <3>2. b < l + 1 BY <2>2, <3>1
    <3>3. b <= Len(v) BY <1>2, <1>7, <1>9, <3>2
    <3> QED BY <3>3
  <2>3. CASE b < ps[Len(ps)].first + Len(ps[Len(ps)].entries) /\ Len(ps) # 1
    <3>1. Len(Q) \in 1..Len(Q) /\ Len(Q) + 1 = Len(ps) /\ Len(Q) # 0 BY <1>5, <2>3
    <3>2. Q[Len(Q)] = ps[Len(ps)] BY <1>5, <3>1
    <3>3. Q # <<>> BY <1>5, <3>1, EmptySeq
    <3> QED BY <2>3, <3>2, <3>3
  <2> QED BY <1>3, <2>1, <2>2, <2>3
<1>13. res \in ApplyResult /\ res.index = l
  <2>1. Len(a.entries) \in Nat BY <1>5, <1>6
  <2> QED BY <1>7, <2>1 DEF ApplyResult
<1> HIDE DEF res
<1>14. /\ T \in Seq(ApplyResult)
       /\ \A i \in 1..Len(T) : (i \in 1..Len(rs) /\ T[i] = rs[i]) \/ T[i] = res
  <2>1. /\ T \in Seq(ApplyResult) /\ \A i \in 1..Len(rs) : T[i] = rs[i]
        /\ \A i \in 1..Len(T) : i \in 1..Len(rs) \/ (i = Len(rs) + 1 /\ T[i] = res)
    BY <1>3, <1>13, Appended DEF T
  <2> QED BY <2>1
<1>15. ASSUME NEW i \in 1..Len(T) PROVE T[i].index <= Len(v) /\ T[i].index <= b
  <2>1. CASE i \in 1..Len(rs) /\ T[i] = rs[i]
    <3> DEFINE f == rs[i].index
    <3>1. rs[i] \in ApplyResult BY <1>3, <2>1, ElementOfSeq
    <3>2. f \in Nat /\ f <= k /\ f <= b BY <1>3, <2>1, <3>1 DEF ApplyResult
    <3> HIDE DEF f
    <3>3. f <= Len(v) BY <1>4, <1>9, <3>2
    <3> QED BY <2>1, <3>2, <3>3 DEF f
  <2>2. CASE T[i] = res BY <1>8, <1>9, <1>13, <2>2
  <2> QED BY <1>14, <2>1, <2>2
<1>16. Applies(r, w, Q, T, v, X)
  BY <1>5, <1>7, <1>9, <1>10, <1>11, <1>12, <1>14, <1>15 DEF Applies, b, c, d
<1>17. Fits(h, r, s, R, A, Q, T, v, D, X) BY <1>16 DEF Fits, w
<1>18. R \in Seq(AppendMsg) BY DEF Fits, Past
<1>19. Kept(h, s, R, v, acked) BY <1>1, <1>4, <1>9, <1>18, KeptMore DEF k
<1> QED BY <1>7, <1>17, <1>19 DEF v, l, k, Q, T, res

----------------------------------------------------------------------------
(* The responses *)

\* q is r but for how far it has applied, and what is with the apply thread.
HasApplied(q, r, i) ==
    /\ q \in Node /\ ~q.panic /\ q.u = r.u /\ q.Term = r.Term /\ q.committed = r.committed
    /\ q.after = r.after /\ q.applied = Greatest(i, r.applied)
    /\ q.applying = Greatest(r.applying, Greatest(i, r.applied))

LEMMA AppliedToIs ==
    ASSUME NEW r \in Node, ~r.panic, NEW i \in Nat, i <= r.committed, r.applied <= r.committed,
           NEW size \in Nat
    PROVE  HasApplied(appliedTo(r, i, size), r, i)
<1> DEFINE c == r.committed
           d == r.applied
           b == r.applying
           z == r.applyingSize
           j == Greatest(i, d)
           left == Greatest(0, z - size)
           paused == left >= MaxApplying
           q == appliedTo(r, i, size)
<1>1. c \in Index /\ d \in Index /\ b \in Index /\ z \in Nat /\ i <= c /\ d <= c BY DEF Node
<1>2. c \in Nat /\ d \in Nat /\ b \in Nat /\ c <= MaxLog BY <1>1, Bounds DEF Index
<1>3. q = IF c < j THEN Panic(r)
          ELSE [r EXCEPT !.applied = j, !.applying = Greatest(b, j), !.applyingSize = left,
                         !.applyingPaused = paused]
  BY DEF appliedTo
<1> HIDE DEF c, d, b, z, q
<1>4. j \in Index /\ Greatest(b, j) \in Index /\ left \in Nat /\ ~(c < j)
  <2>1. j \in Nat /\ j <= c /\ ~(c < j) BY <1>1, <1>2 DEF Greatest
  <2>2. j \in Index /\ Greatest(b, j) \in Index BY <1>1, <1>2, <2>1, Bounds DEF Index, Greatest
  <2>3. left \in Nat BY <1>1 DEF Greatest
  <2> QED BY <2>1, <2>2, <2>3
<1>5. paused \in BOOLEAN OBVIOUS
<1> HIDE DEF j, left, paused
<1>6. q = [r EXCEPT !.applied = j, !.applying = Greatest(b, j), !.applyingSize = left,
                    !.applyingPaused = paused]
  BY <1>3, <1>4
<1>7. /\ q \in Node /\ ~q.panic /\ q.u = r.u /\ q.Term = r.Term /\ q.committed = r.committed
      /\ q.after = r.after /\ q.applied = j /\ q.applying = Greatest(b, j)
  BY <1>4, <1>5, <1>6 DEF Node
<1> QED BY <1>7 DEF HasApplied, q, j, b, d

LEMMA AppliedToKeeps ==
    ASSUME NEW h, IsHistory(h), NEW r, NEW s, NEW R, NEW A, NEW ps, NEW rs, NEW m, NEW D, NEW X,
           Fits(h, r, s, R, A, ps, rs, m, D, X), NEW i \in Nat, i <= Len(m), NEW q, HasApplied(q, r, i),
           i <= r.applying \/ \A k \in 1..Len(X) : Agree(X[k].log, Whole(r, s), i)
    PROVE  Fits(h, q, s, R, A, ps, rs, m, D, X) /\ Whole(q, s) = Whole(r, s)
<1> DEFINE c == r.committed
           d == r.applied
           b == r.applying
           j == Greatest(i, d)
           e == Greatest(b, j)
           k == Len(m)
           w == Whole(r, s)
<1>1. /\ r \in Node /\ s \in Storage /\ w \in Log /\ Len(w) \in Nat /\ d <= b /\ b <= c
      /\ Good(h, Now(r, s))
  BY FitsIs
<1>2. b \in Nat /\ c \in Nat /\ d \in Nat BY <1>1, NodeIs
<1>3. /\ q \in Node /\ ~q.panic /\ q.u = r.u /\ q.Term = r.Term /\ q.committed = c
      /\ q.after = r.after /\ q.applied = j /\ q.applying = e
  BY DEF HasApplied
<1>4. /\ ps \in Seq(ApplyMsg) /\ rs \in Seq(ApplyResult) /\ m \in Log /\ k <= c /\ d <= k
      /\ Agree(m, w, k) /\ \A l \in 1..Len(X) : Agree(m, X[l].log, k)
      /\ \A l \in 1..Len(ps) :
         /\ ps[l].entries # <<>> /\ ps[l].first + Len(ps[l].entries) - 1 <= b
         /\ \A z \in 1..Len(ps[l].entries) : ps[l].entries[z] = w[ps[l].first + z - 1]
         /\ \/ ps[l].first <= k + 1
            \/ l > 1 /\ ps[l].first <= ps[l - 1].first + Len(ps[l - 1].entries)
      /\ \/ b <= k
         \/ ps # <<>> /\ b < ps[Len(ps)].first + Len(ps[Len(ps)].entries)
      /\ \A l \in 1..Len(rs) : rs[l].index <= k /\ rs[l].index <= b
  BY DEF Fits, Applies
<1>5. k \in Nat /\ i <= k BY <1>4, LenProperties DEF Log
<1>6. Whole(q, s) = w /\ Now(q, s) = Now(r, s) /\ nextSnapshot(q) = nextSnapshot(r)
  BY <1>3 DEF Whole, Now, nextSnapshot
<1> HIDE DEF c, d, b, k, w
<1>7. /\ j \in Nat /\ e \in Nat /\ j <= k /\ j <= e /\ b <= e /\ e <= c
      /\ (e = b \/ (e = i /\ ~(i <= b) /\ e <= k))
  BY <1>1, <1>2, <1>4, <1>5 DEF Greatest
<1> HIDE DEF j, e
<1>8. NodeOK(h, q, s)
  <2>1. NodeOK(h, r, s) BY DEF Fits
  <2> QED BY <1>3, <1>6, <1>7, <2>1 DEF NodeOK, c
<1>9. StorageOK(h, q, s)
  <2>1. StorageOK(h, r, s) BY DEF Fits
  <2>2. s.offset <= b => s.offset <= e
    <3> DEFINE f == s.offset
    <3>1. f \in Nat BY <1>1, StorageIs
    <3> HIDE DEF f
    <3>2. f <= b => f <= e BY <1>2, <1>7, <3>1
    <3> QED BY <3>2 DEF f
  <2> QED BY <1>3, <2>1, <2>2 DEF StorageOK, b
<1>10. Present(h, q, s, R, A, D, X)
  <2>1. /\ Ahead(h, r, s, X) /\ Owed(r, s, X) /\ Settled(r, s, X)
        /\ Carried(r, R, A) /\ Expected(r, R) /\ Expected(r, A)
        /\ Lacked(r, D) /\ Lacked(r, X)
    BY DEF Fits, Present
  <2>2. Ahead(h, q, s, X) /\ Owed(q, s, X) BY <1>3, <1>6, <2>1 DEF Ahead, Owed
  <2>3. Carried(q, R, A) /\ Expected(q, R) /\ Expected(q, A) /\ Lacked(q, D) /\ Lacked(q, X)
    BY <1>3, <2>1 DEF Carried, Expected, Lacked
  <2>4. \A l \in 1..Len(X) : Agree(X[l].log, w, e)
    <3>1. CASE e = b BY <2>1, <3>1 DEF Settled, w, b
    <3>2. CASE e = i /\ ~(i <= b) BY <3>2 DEF w, b
    <3> QED BY <1>7, <3>1, <3>2
  <2>5. Settled(q, s, X) BY <1>3, <1>6, <2>1, <2>4 DEF Settled, w
  <2> QED BY <2>1, <2>2, <2>3, <2>5 DEF Present
<1>11. Applies(q, w, ps, rs, m, X)
  <2>1. ASSUME NEW l \in 1..Len(ps) PROVE ps[l].first + Len(ps[l].entries) - 1 <= e
    <3> DEFINE f == ps[l].first
               g == Len(ps[l].entries)
    <3>1. ps[l] \in ApplyMsg BY <1>4, ElementOfSeq
    <3>2. ps[l].entries \in Log /\ f \in Nat BY <3>1 DEF ApplyMsg
    <3>3. g \in Nat /\ f + g - 1 <= b BY <1>4, <3>2, LenProperties DEF Log
    <3> HIDE DEF f, g
    <3>4. f + g - 1 <= e BY <1>2, <1>7, <3>2, <3>3
    <3> QED BY <3>4 DEF f, g
  <2>2. ASSUME NEW l \in 1..Len(rs) PROVE rs[l].index <= e
    <3> DEFINE f == rs[l].index
    <3>1. rs[l] \in ApplyResult BY <1>4, ElementOfSeq
    <3>2. f \in Nat /\ f <= b BY <1>4, <3>1 DEF ApplyResult
    <3> HIDE DEF f
    <3>3. f <= e BY <1>2, <1>7, <3>2
    <3> QED BY <3>3 DEF f
  <2>3. \/ e <= k
        \/ ps # <<>> /\ e < ps[Len(ps)].first + Len(ps[Len(ps)].entries)
    BY <1>4, <1>7
  <2> QED BY <1>3, <1>4, <1>7, <2>1, <2>2, <2>3 DEF Applies, k, c
<1>12. Past(h, s, R, A, D, X) BY DEF Fits
<1> QED BY <1>6, <1>8, <1>9, <1>10, <1>11, <1>12 DEF Fits, w

\* MsgStorageApplyResp.
LEMMA ApplyRespKeeps ==
    ASSUME NEW h, IsHistory(h), NEW r, NEW s, NEW R, NEW A, NEW ps, NEW rs, NEW m, NEW D, NEW X,
           Fits(h, r, s, R, A, ps, rs, m, D, X), rs # <<>>
    PROVE  LET q == appliedTo(r, rs[1].index, rs[1].size)
           IN  /\ Fits(h, q, s, R, A, ps, Tail(rs), m, D, X)
               /\ Whole(q, s) = Whole(r, s) /\ q.committed = r.committed
<1> DEFINE i == rs[1].index
           z == rs[1].size
           q == appliedTo(r, i, z)
           T == Tail(rs)
<1>1. Applies(r, Whole(r, s), ps, rs, m, X) BY DEF Fits
<1>2. /\ r \in Node /\ ~r.panic /\ r.applied <= r.applying /\ r.applying <= r.committed BY FitsIs
<1>3. /\ rs \in Seq(ApplyResult) /\ \A l \in 1..Len(rs) : rs[l].index <= Len(m) /\ rs[l].index <= r.applying
  BY <1>1 DEF Applies
<1>4. /\ T \in Seq(ApplyResult) /\ 1 \in 1..Len(rs) /\ rs[1] \in ApplyResult
      /\ \A l \in 1..Len(T) : l + 1 \in 1..Len(rs) /\ T[l] = rs[l + 1]
  BY <1>3, Tailed
<1>5. i \in Nat /\ z \in Nat /\ i <= Len(m) /\ i <= r.applying BY <1>3, <1>4 DEF ApplyResult
<1> HIDE DEF i, z, q, T
<1>6. i <= r.committed /\ r.applied <= r.committed
  <2> DEFINE b == r.applying
             c == r.committed
             d == r.applied
  <2>1. b \in Nat /\ c \in Nat /\ d \in Nat /\ d <= b /\ b <= c /\ i <= b BY <1>2, <1>5, NodeIs
  <2> HIDE DEF b, c, d
  <2>2. i <= c /\ d <= c BY <1>5, <2>1
  <2> QED BY <2>2 DEF c, d
<1>7. HasApplied(q, r, i) BY <1>2, <1>5, <1>6, AppliedToIs DEF q
<1>8. Fits(h, q, s, R, A, ps, rs, m, D, X) /\ Whole(q, s) = Whole(r, s)
  BY <1>5, <1>7, AppliedToKeeps
<1>9. Applies(q, Whole(q, s), ps, T, m, X)
  <2>1. Applies(q, Whole(q, s), ps, rs, m, X) BY <1>8 DEF Fits
  <2>2. \A l \in 1..Len(T) : T[l].index <= Len(m) /\ T[l].index <= q.applying
    <3> SUFFICES ASSUME NEW l \in 1..Len(T) PROVE T[l].index <= Len(m) /\ T[l].index <= q.applying
      OBVIOUS
    <3> DEFINE f == l + 1
    <3>1. f \in 1..Len(rs) /\ T[l] = rs[f] BY <1>4
    <3> HIDE DEF f
    <3> QED BY <2>1, <3>1 DEF Applies
  <2> QED BY <1>4, <2>1, <2>2 DEF Applies
<1>10. Fits(h, q, s, R, A, ps, T, m, D, X) BY <1>8, <1>9 DEF Fits
<1>11. q.committed = r.committed BY <1>7 DEF HasApplied
<1> QED BY <1>8, <1>10, <1>11 DEF q, T, i, z

\* The points in order: of the appends that are done, of the storage, and of
\* the appends that are not done.
LEMMA PointsInOrder ==
    ASSUME NEW h, IsHistory(h), NEW r, NEW s, NEW R, NEW A, NEW ps, NEW rs, NEW m, NEW D, NEW X,
           Fits(h, r, s, R, A, ps, rs, m, D, X)
    PROVE  /\ Len(X) \in Nat \ {0} /\ 1 \in 1..Len(X) /\ Len(X) \in 1..Len(X)
           /\ \A i, j \in 1..Len(X) : i <= j => Later(h, X[i], X[j])
           /\ \A i \in 1..Len(D), j \in 1..Len(X) : Later(h, D[i], X[j])
           /\ \A k \in 1..Len(A) : k \in 1..Len(X)
                /\ (IsSnapshot(A[k].snapshot) => X[k].Commit < Len(A[k].snapshot))
<1>1. /\ A \in Seq(AppendMsg) /\ Len(X) = Len(A) + 1
      /\ \A i \in 1..Len(D) : Good(h, D[i]) /\ Later(h, D[i], X[1])
      /\ \A i \in 1..Len(X) : Good(h, X[i])
      /\ \A i \in 1..Len(A) : Writes(X[i], A[i].snapshot, A[i].first, A[i].entries, X[i + 1])
      /\ \A i, j \in 1..Len(X) : i < j => Before(h, X[i], A[j - 1], X[j])
  BY DEF Fits, Past
<1>2. Len(A) \in Nat BY <1>1, LenProperties
<1>3. Len(X) \in Nat \ {0} BY <1>1, <1>2
<1>4. 1 \in 1..Len(X) /\ Len(X) \in 1..Len(X) BY <1>3
<1>5. ASSUME NEW i \in 1..Len(X), NEW j \in 1..Len(X), i <= j PROVE Later(h, X[i], X[j])
  <2>1. CASE i = j BY <1>1, <2>1, LaterRefl
  <2>2. CASE i < j BY <1>1, <2>2 DEF Before
  <2> QED BY <1>5, <2>1, <2>2
<1>6. ASSUME NEW i \in 1..Len(D), NEW j \in 1..Len(X) PROVE Later(h, D[i], X[j])
  <2>1. Later(h, X[1], X[j]) BY <1>4, <1>5
  <2> QED BY <1>1, <1>4, <2>1, LaterTrans
<1>7. ASSUME NEW k \in 1..Len(A)
      PROVE  k \in 1..Len(X) /\ (IsSnapshot(A[k].snapshot) => X[k].Commit < Len(A[k].snapshot))
  <2>1. k \in 1..Len(X) BY <1>1, <1>2
  <2> QED BY <1>1, <2>1 DEF Writes
<1> QED BY <1>3, <1>4, <1>5, <1>6, <1>7

\* The appends R and points D, but for the first ones, which have no later snapshot.
Dropped(R, D, B, E) ==
    /\ Len(E) = Len(B) /\ Len(D) = Len(R)
    /\ \A i \in 1..Len(B) :
         /\ i + 1 \in 1..Len(R) /\ B[i] = R[i + 1] /\ E[i] = D[i + 1]
         /\ IsSnapshot(B[i].snapshot) => D[1].Commit < Len(B[i].snapshot)
    /\ \A i \in 1..Len(R) : i = 1 \/ \E k \in 1..Len(B) : B[k] = R[i]

LEMMA PastDrop ==
    ASSUME NEW h, NEW s, NEW R, NEW A, NEW D, NEW X, Past(h, s, R, A, D, X), R # <<>>
    PROVE  /\ Past(h, s, Tail(R), A, Tail(D), X)
           /\ Good(h, D[1]) /\ Asks(h, R[1], D[1]) /\ Later(h, D[1], X[1]) /\ 1 \in 1..Len(D)
           /\ Dropped(R, D, Tail(R), Tail(D))
<1> DEFINE B == Tail(R)
           E == Tail(D)
<1>1. /\ D \in Seq(Point) /\ X \in Seq(Point) /\ R \in Seq(AppendMsg) /\ A \in Seq(AppendMsg)
      /\ Len(D) = Len(R) /\ Len(X) = Len(A) + 1 /\ X[1] = Stored(s)
      /\ \A i \in 1..Len(D) : Good(h, D[i]) /\ Asks(h, R[i], D[i]) /\ Later(h, D[i], X[1])
      /\ \A i \in 1..Len(X) : Good(h, X[i])
      /\ \A i \in 1..Len(A) :
           /\ Asks(h, A[i], X[i + 1])
           /\ Writes(X[i], A[i].snapshot, A[i].first, A[i].entries, X[i + 1])
      /\ \A i, j \in 1..Len(D) : i < j => Before(h, D[i], R[j], D[j])
      /\ \A i, j \in 1..Len(X) : i < j => Before(h, X[i], A[j - 1], X[j])
  BY DEF Past
<1>2. /\ B \in Seq(AppendMsg) /\ Len(R) \in Nat \ {0} /\ Len(B) = Len(R) - 1 /\ Len(B) \in Nat
      /\ 1 \in 1..Len(R) /\ \A i \in 1..Len(B) : i + 1 \in 1..Len(R) /\ B[i] = R[i + 1]
  BY <1>1, Tailed
<1>3. D # <<>> BY <1>1, <1>2, EmptySeq
<1>4. /\ E \in Seq(Point) /\ Len(E) = Len(D) - 1
      /\ \A i \in 1..Len(E) : i + 1 \in 1..Len(D) /\ E[i] = D[i + 1]
  BY <1>1, <1>3, Tailed
<1> HIDE DEF B, E
<1>5. Len(E) = Len(B) /\ 1 \in 1..Len(D) BY <1>1, <1>2, <1>4
<1>6. ASSUME NEW i \in 1..Len(E) PROVE Good(h, E[i]) /\ Asks(h, B[i], E[i]) /\ Later(h, E[i], X[1])
  <2> DEFINE k == i + 1
  <2>1. k \in 1..Len(D) /\ E[i] = D[k] /\ B[i] = R[k] BY <1>2, <1>4, <1>5
  <2> HIDE DEF k
  <2> QED BY <1>1, <2>1
<1>7. ASSUME NEW i \in 1..Len(E), NEW j \in 1..Len(E), i < j PROVE Before(h, E[i], B[j], E[j])
  <2> DEFINE k == i + 1
             l == j + 1
  <2>1. k \in 1..Len(D) /\ E[i] = D[k] /\ l \in 1..Len(D) /\ E[j] = D[l] /\ B[j] = R[l] /\ k < l
    BY <1>2, <1>4, <1>5, <1>7
  <2> HIDE DEF k, l
  <2> QED BY <1>1, <2>1
<1>8. Past(h, s, B, A, E, X) BY <1>1, <1>2, <1>4, <1>5, <1>6, <1>7 DEF Past
<1>9. ASSUME NEW i \in 1..Len(B)
      PROVE  /\ i + 1 \in 1..Len(R) /\ B[i] = R[i + 1] /\ E[i] = D[i + 1]
             /\ IsSnapshot(B[i].snapshot) => D[1].Commit < Len(B[i].snapshot)
  <2> DEFINE k == i + 1
  <2>1. k \in 1..Len(R) /\ k \in 1..Len(D) /\ 1 < k /\ B[i] = R[k] /\ E[i] = D[k]
    BY <1>1, <1>2, <1>4, <1>5
  <2> HIDE DEF k
  <2>2. Before(h, D[1], R[k], D[k]) BY <1>1, <1>5, <2>1
  <2>3. IsSnapshot(R[k].snapshot) => D[1].Commit < Len(R[k].snapshot) BY <2>2 DEF Before
  <2> QED BY <2>1, <2>3 DEF k
<1>10. ASSUME NEW i \in 1..Len(R), i # 1 PROVE \E k \in 1..Len(B) : B[k] = R[i]
  <2> DEFINE k == i - 1
  <2>1. k \in 1..Len(B) /\ k + 1 = i BY <1>2, <1>10
  <2> HIDE DEF k
  <2> QED BY <1>2, <2>1
<1>11. Dropped(R, D, B, E) BY <1>1, <1>5, <1>9, <1>10 DEF Dropped
<1> QED BY <1>1, <1>5, <1>8, <1>11 DEF B, E

\* A response without the snapshot that the log waits for.
LEMMA DropKeeps ==
    ASSUME NEW h, IsHistory(h), NEW r, NEW s, NEW R, NEW A, NEW ps, NEW rs, NEW m, NEW D, NEW X,
           Fits(h, r, s, R, A, ps, rs, m, D, X), R # <<>>,
           ~(IsSnapshot(r.u.snapshot) /\ Len(r.u.snapshot) = Len(R[1].snapshot))
    PROVE  /\ Fits(h, r, s, Tail(R), A, ps, rs, m, Tail(D), X)
           /\ IsSnapshot(r.u.snapshot) => D[1].Commit < Len(r.u.snapshot)
<1> DEFINE B == Tail(R)
           E == Tail(D)
           d == D[1]
           p == r.u.snapshot
<1>1. Past(h, s, R, A, D, X) /\ UnstableOK(r.u) /\ r \in Node /\ 1 \in 1..Len(D) /\ Good(h, d)
  <2>1. Past(h, s, R, A, D, X) BY DEF Fits
  <2> QED BY <2>1, FitsIs, PastDrop
<1>2. Past(h, s, B, A, E, X) /\ Dropped(R, D, B, E) BY <1>1, PastDrop
<1>3. /\ Ahead(h, r, s, X) /\ Owed(r, s, X) /\ Settled(r, s, X)
      /\ Carried(r, R, A) /\ Expected(r, R) /\ Expected(r, A)
      /\ Lacked(r, D) /\ Lacked(r, X)
  BY DEF Fits, Present
<1> HIDE DEF B, E
<1>4. Carried(r, B, A)
  <2> SUFFICES ASSUME r.u.snapshotInProgress
               PROVE  \/ \E i \in 1..Len(B) : B[i].snapshot = p
                      \/ \E i \in 1..Len(A) : A[i].snapshot = p
    BY DEF Carried
  <2>1. IsSnapshot(p) BY <1>1 DEF UnstableOK
  <2>2. CASE \E i \in 1..Len(R) : R[i].snapshot = p
    <3>1. PICK i \in 1..Len(R) : R[i].snapshot = p BY <2>2
    <3>2. i # 1 BY <2>1, <3>1
    <3> QED BY <1>2, <3>1, <3>2 DEF Dropped
  <2> QED BY <1>3, <2>2 DEF Carried
<1>5. Expected(r, B)
  <2>1. ASSUME NEW i \in 1..Len(B), IsSnapshot(B[i].snapshot)
        PROVE  IsSnapshot(p) /\ Len(B[i].snapshot) <= Len(p)
    <3> DEFINE k == i + 1
    <3>1. k \in 1..Len(R) /\ B[i] = R[k] BY <1>2 DEF Dropped
    <3> HIDE DEF k
    <3> QED BY <1>3, <2>1, <3>1 DEF Expected
  <2> QED BY <2>1 DEF Expected
<1>6. Lacked(r, E)
  <2>1. ASSUME IsSnapshot(p), NEW i \in 1..Len(E), E[i].Commit < Len(p), E[i].Term = r.Term
        PROVE  ~Agree(E[i].log, p, Len(p))
    <3> DEFINE k == i + 1
    <3>1. k \in 1..Len(D) /\ E[i] = D[k] BY <1>2 DEF Dropped
    <3> HIDE DEF k
    <3> QED BY <1>3, <2>1, <3>1 DEF Lacked
  <2> QED BY <2>1 DEF Lacked
<1>7. Fits(h, r, s, B, A, ps, rs, m, E, X) BY <1>2, <1>3, <1>4, <1>5, <1>6 DEF Fits, Present
<1>8. ASSUME IsSnapshot(p) PROVE d.Commit < Len(p)
  <2>1. /\ Len(X) \in 1..Len(X)
        /\ \A j \in 1..Len(X) : Good(h, X[j]) /\ d.Commit <= X[j].Commit
        /\ \A k \in 1..Len(A) : k \in 1..Len(X)
             /\ (IsSnapshot(A[k].snapshot) => X[k].Commit < Len(A[k].snapshot))
    <3>1. \A j \in 1..Len(X) : Later(h, d, X[j]) BY <1>1, PointsInOrder
    <3> QED BY <3>1, FitsIs, PointsInOrder DEF Later
  <2>2. Len(p) \in Nat /\ d.Commit \in Nat BY <1>1, NodeIs, PointIs
  <2>3. ASSUME NEW j \in 1..Len(X), X[j].Commit < Len(p) PROVE d.Commit < Len(p)
    <3> DEFINE a == d.Commit
               b == X[j].Commit
               l == Len(p)
    <3>1. a \in Nat /\ b \in Nat /\ l \in Nat /\ a <= b /\ b < l BY <2>1, <2>2, <2>3, PointIs
    <3> HIDE DEF a, b, l
    <3>2. a < l BY <3>1
    <3> QED BY <3>2 DEF a, l
  <2>4. CASE ~r.u.snapshotInProgress
    <3>1. nextSnapshot(r) = p BY <2>4 DEF nextSnapshot
    <3>2. X[Len(X)].Commit < Len(p) BY <1>3, <1>8, <3>1 DEF Owed, Writes
    <3> QED BY <2>1, <2>3, <3>2
  <2>5. CASE r.u.snapshotInProgress /\ \E i \in 1..Len(B) : B[i].snapshot = p
    <3>1. PICK i \in 1..Len(B) : B[i].snapshot = p BY <2>5
    <3>2. IsSnapshot(B[i].snapshot) => d.Commit < Len(B[i].snapshot) BY <1>2 DEF Dropped
    <3> QED BY <1>8, <3>1, <3>2
  <2>6. CASE r.u.snapshotInProgress /\ \E i \in 1..Len(A) : A[i].snapshot = p
    <3>1. PICK i \in 1..Len(A) : A[i].snapshot = p BY <2>6
    <3>2. X[i].Commit < Len(p) /\ i \in 1..Len(X) BY <1>8, <2>1, <3>1
    <3> QED BY <2>3, <3>2
  <2> QED BY <1>4, <2>4, <2>5, <2>6 DEF Carried
<1> QED BY <1>7, <1>8 DEF B, E

\* q is r but for the snapshot of its unstable log, which is gone.
Released(q, r) ==
    /\ q \in Node /\ ~q.panic /\ q.u.snapshot = None /\ q.u.snapshotInProgress = FALSE
    /\ q.u.entries = r.u.entries /\ q.u.offset = r.u.offset
    /\ q.u.offsetInProgress = r.u.offsetInProgress
    /\ q.Term = r.Term /\ q.committed = r.committed /\ q.after = r.after
    /\ q.applied = r.applied /\ q.applying = r.applying

\* The response with the snapshot that the log waits for, which is applied.
LEMMA ReleaseKeeps ==
    ASSUME NEW h, IsHistory(h), NEW r, NEW s, NEW R, NEW A, NEW ps, NEW rs, NEW m, NEW D, NEW X,
           Fits(h, r, s, R, A, ps, rs, m, D, X), R # <<>>,
           IsSnapshot(r.u.snapshot), Len(r.u.snapshot) = Len(R[1].snapshot),
           Len(r.u.snapshot) <= r.applying, NEW q, Released(q, r)
    PROVE  /\ Fits(h, q, s, Tail(R), A, ps, rs, m, Tail(D), X)
           /\ Whole(q, s) = Whole(r, s) /\ ~IsSnapshot(q.u.snapshot)
<1> DEFINE B == Tail(R)
           E == Tail(D)
           d == D[1]
           w == Whole(r, s)
           o == r.u.offset
           e == r.u.entries
           l == Len(r.u.snapshot)
           b == r.applying
<1>1. /\ Past(h, s, R, A, D, X) /\ NodeOK(h, r, s) /\ StorageOK(h, r, s)
      /\ Ahead(h, r, s, X) /\ Owed(r, s, X) /\ Settled(r, s, X)
      /\ Expected(r, R) /\ Expected(r, A) /\ Applies(r, w, ps, rs, m, X)
  BY DEF Fits, Present
<1>2. /\ r \in Node /\ s \in Storage /\ UnstableOK(r.u) /\ w \in Log /\ Len(w) \in Nat
      /\ \A i \in 1..Len(X) : Good(h, X[i])
  BY FitsIs
<1>3. /\ o \in Nat \ {0} /\ e \in Log /\ l \in Nat /\ b \in Nat BY <1>2, NodeIs
<1>4. /\ q \in Node /\ ~q.panic /\ q.u.snapshot = None /\ q.u.snapshotInProgress = FALSE
      /\ q.u.entries = e /\ q.u.offset = o /\ q.u.offsetInProgress = r.u.offsetInProgress
      /\ q.Term = r.Term /\ q.committed = r.committed /\ q.after = r.after
      /\ q.applied = r.applied /\ q.applying = b
  BY DEF Released
<1>5. ~IsSnapshot(q.u.snapshot) BY <1>4 DEF IsSnapshot
<1>6. /\ Past(h, s, B, A, E, X) /\ Dropped(R, D, B, E) /\ Good(h, d) /\ Asks(h, R[1], d)
      /\ 1 \in 1..Len(D)
  BY <1>1, PastDrop
<1>7. l <= d.Commit /\ d.Commit \in Nat
  <2>1. Len(R[1].snapshot) <= d.Commit BY <1>6 DEF Asks
  <2> QED BY <1>6, <2>1, PointIs
<1>8. /\ 1 \in 1..Len(X) /\ Len(X) \in 1..Len(X)
      /\ \A j \in 1..Len(X) : Later(h, d, X[j])
      /\ \A k \in 1..Len(A) : k \in 1..Len(X)
           /\ (IsSnapshot(A[k].snapshot) => X[k].Commit < Len(A[k].snapshot))
  <2> HIDE DEF B, E, w
  <2> QED BY <1>6, PointsInOrder
<1>9. ASSUME NEW j \in 1..Len(X) PROVE l <= X[j].Commit /\ X[j].Commit \in Nat
  <2> DEFINE c == X[j].Commit
             a == d.Commit
  <2>1. a <= c /\ c \in Nat /\ a \in Nat /\ l <= a BY <1>2, <1>7, <1>8, PointIs DEF Later
  <2> HIDE DEF a, c, l
  <2>2. l <= c BY <1>3, <2>1
  <2> QED BY <2>1, <2>2 DEF c
<1>10. r.u.snapshotInProgress
  <2> SUFFICES ASSUME ~r.u.snapshotInProgress PROVE FALSE OBVIOUS
  <2>1. nextSnapshot(r) = r.u.snapshot BY DEF nextSnapshot
  <2>2. X[Len(X)].Commit < l BY <1>1, <2>1 DEF Owed, Writes
  <2>3. l <= X[Len(X)].Commit /\ X[Len(X)].Commit \in Nat BY <1>8, <1>9
  <2> HIDE DEF l
  <2> QED BY <1>3, <2>2, <2>3
<1>11. nextSnapshot(r) = None /\ nextSnapshot(q) = None BY <1>4, <1>10 DEF nextSnapshot
<1>12. \A j \in 1..Len(X) :
          /\ Agree(X[j].log, w, b) /\ Agree(X[j].log, w, o - 1)
          /\ e = <<>> => X[j].log = w
  BY <1>1, <1>9 DEF Settled
<1>13. Agree(s.log, w, o - 1)
  <2>1. X[1] = Stored(s) BY <1>1 DEF Past
  <2>2. Agree(X[1].log, w, o - 1) BY <1>8, <1>12
  <2> QED BY <2>1, <2>2 DEF Stored
<1>14. Whole(q, s) = w
  <2>1. /\ Len(w) = o - 1 + Len(e) /\ \A i \in 1..Len(e) : w[o - 1 + i] = e[i]
    BY <1>2, WholeIs
  <2>2. Whole(q, s) = SubSeq(s.log, 1, o - 1) \o e BY <1>4, <1>5 DEF Whole
  <2> HIDE DEF w, o, e
  <2>3. s.log \in Log /\ Len(s.log) \in Nat BY <1>2, StorageIs
  <2>4. Agree(w, s.log, o - 1) /\ o - 1 <= Len(s.log) BY <1>13, AgreeSym DEF Agree
  <2>5. o - 1 \in 0..Len(s.log) BY <1>3, <2>3, <2>4
  <2>6. w = SubSeq(s.log, 1, o - 1) \o e BY <1>2, <1>3, <2>1, <2>3, <2>4, <2>5, JoinIs
  <2> QED BY <2>2, <2>6
<1>15. UnstableOK(q.u)
  <2>1. q.u \in Unstable BY <1>4, NodeIs
  <2> QED BY <1>2, <1>4, <1>5, <2>1 DEF UnstableOK
<1>16. Now(q, s) = Now(r, s) BY <1>4, <1>14 DEF Now
<1>17. NodeOK(h, q, s)
  <2>1. o - 1 <= Len(s.log) BY <1>13 DEF Agree
  <2> QED BY <1>1, <1>4, <1>5, <1>15, <1>16, <2>1 DEF NodeOK
<1>18. StorageOK(h, q, s)
  <2>1. s.offset <= b
    <3> DEFINE f == s.offset
    <3>1. f \in Nat /\ (f <= b \/ f <= l) /\ l <= b BY <1>1, <1>2, StorageIs DEF StorageOK
    <3> HIDE DEF f, b, l
    <3>2. f <= b BY <1>3, <3>1
    <3> QED BY <3>2 DEF f
  <2> QED BY <1>1, <1>4, <2>1 DEF StorageOK
<1> HIDE DEF B, E, w, o, e, b
<1>19. Ahead(h, q, s, X) /\ Owed(q, s, X)
  <2>1. nextEntries(q.u) = nextEntries(r.u) BY <1>4 DEF nextEntries, e, o
  <2> QED BY <1>1, <1>4, <1>11, <1>16, <2>1 DEF Ahead, Owed
<1>20. Settled(q, s, X) BY <1>4, <1>12, <1>14 DEF Settled
<1>21. Carried(q, B, A) BY <1>4 DEF Carried
<1>22. Expected(q, B)
  <2> SUFFICES ASSUME NEW i \in 1..Len(B), IsSnapshot(B[i].snapshot) PROVE FALSE BY DEF Expected
  <2> DEFINE k == i + 1
             y == Len(R[k].snapshot)
  <2>1. k \in 1..Len(R) /\ B[i] = R[k] /\ d.Commit < Len(B[i].snapshot) BY <1>6 DEF Dropped
  <2> HIDE DEF k
  <2>2. y <= l BY <1>1, <2>1 DEF Expected
  <2>3. R \in Seq(AppendMsg) BY <1>1 DEF Past
  <2>4. R[k] \in AppendMsg BY <2>1, <2>3, ElementOfSeq
  <2>5. y \in Nat BY <2>4, LenProperties DEF AppendMsg, Log
  <2>6. d.Commit < y BY <2>1
  <2> HIDE DEF y, l, d
  <2> QED BY <1>3, <1>7, <2>2, <2>5, <2>6
<1>23. Expected(q, A)
  <2> SUFFICES ASSUME NEW i \in 1..Len(A), IsSnapshot(A[i].snapshot) PROVE FALSE BY DEF Expected
  <2> DEFINE y == Len(A[i].snapshot)
             c == X[i].Commit
  <2>1. c < y /\ y <= l /\ i \in 1..Len(X) BY <1>1, <1>8 DEF Expected
  <2>2. A \in Seq(AppendMsg) BY <1>1 DEF Past
  <2>3. A[i] \in AppendMsg BY <2>2, ElementOfSeq
  <2>4. y \in Nat BY <2>3, LenProperties DEF AppendMsg, Log
  <2>5. l <= c /\ c \in Nat BY <1>9, <2>1
  <2> HIDE DEF y, l, c
  <2> QED BY <1>3, <2>1, <2>4, <2>5
<1>24. Lacked(q, E) /\ Lacked(q, X) BY <1>5 DEF Lacked
<1>25. Applies(q, w, ps, rs, m, X) BY <1>1, <1>4 DEF Applies, b
<1>26. Fits(h, q, s, B, A, ps, rs, m, E, X)
  BY <1>6, <1>14, <1>17, <1>18, <1>19, <1>20, <1>21, <1>22, <1>23, <1>24, <1>25 DEF Fits, Present
<1> QED BY <1>5, <1>14, <1>26 DEF B, E, w

\* What handleAppendResp makes of the snapshot of a response.
installedBy(r, p) ==
    IF Len(p) = 0 THEN r ELSE appliedTo([r EXCEPT !.u = stableSnapTo(r.u, Len(p))], Len(p), 0)

\* The log of q is the log of r, in the same term.
SameUnstable(q, r) ==
    /\ q.Term = r.Term /\ q.committed = r.committed
    /\ q.u.entries = r.u.entries /\ q.u.offset = r.u.offset
    /\ q.u.offsetInProgress = r.u.offsetInProgress

LEMMA SnapRespKeeps ==
    ASSUME NEW h, IsHistory(h), NEW r, NEW s, NEW R, NEW A, NEW ps, NEW rs, NEW m, NEW D, NEW X,
           Fits(h, r, s, R, A, ps, rs, m, D, X), R # <<>>, NEW acked, Kept(h, s, R, m, acked)
    PROVE  LET q == installedBy(r, R[1].snapshot)
           IN  /\ Fits(h, q, s, Tail(R), A, ps, rs, m, Tail(D), X)
               /\ Whole(q, s) = Whole(r, s) /\ SameUnstable(q, r)
               /\ IsSnapshot(q.u.snapshot) =>
                    /\ D[1].Commit < Len(q.u.snapshot)
                    /\ D[1].Term = q.Term => ~Agree(D[1].log, q.u.snapshot, Len(q.u.snapshot))
<1> DEFINE p == R[1].snapshot
           i == Len(p)
           q == installedBy(r, p)
           d == D[1]
           w == Whole(r, s)
           u == r.u
           y == u.snapshot
           match == IsSnapshot(y) /\ Len(y) = i
           z == appliedTo(r, i, 0)
<1>1. Past(h, s, R, A, D, X) /\ Lacked(r, D) /\ m \in Log
  BY DEF Fits, Present, Applies
<1>2. Good(h, d) /\ Asks(h, R[1], d) /\ 1 \in 1..Len(D) BY <1>1, PastDrop
<1>3. /\ r \in Node /\ s \in Storage /\ ~r.panic /\ w \in Log /\ Len(w) \in Nat /\ Good(h, Now(r, s))
      /\ r.applied <= r.applying /\ r.applying <= r.committed
      /\ \A k \in 1..Len(X) : Good(h, X[k]) /\ Later(h, X[k], Now(r, s))
      /\ d.Commit <= r.committed
  BY <1>2, FitsIs
<1>4. R[1] \in AppendMsg /\ i <= d.Commit BY <1>2 DEF Asks
<1>5. p \in Log /\ i \in Nat
  <2>1. p \in Log BY <1>4 DEF AppendMsg
  <2> QED BY <2>1, LenProperties DEF Log
<1>6. /\ r.committed \in Nat /\ r.applying \in Nat /\ r.applied \in Nat /\ u \in Unstable
      /\ y \in Log /\ Len(y) \in Nat
  BY <1>3, NodeIs
<1>7. ASSUME NEW f, Fits(h, f, s, Tail(R), A, ps, rs, m, Tail(D), X), f.u.snapshot = y,
             f.Term = r.Term, IsSnapshot(y) => d.Commit < Len(y)
      PROVE  IsSnapshot(f.u.snapshot) =>
               /\ d.Commit < Len(f.u.snapshot)
               /\ d.Term = f.Term => ~Agree(d.log, f.u.snapshot, Len(f.u.snapshot))
  BY <1>1, <1>2, <1>7 DEF Lacked
<1>8. CASE i = 0
  <2>1. q = r BY <1>8 DEF installedBy
  <2>2. ~match BY <1>6, <1>8, SnapshotEmpty
  <2>3. /\ Fits(h, r, s, Tail(R), A, ps, rs, m, Tail(D), X)
        /\ IsSnapshot(y) => d.Commit < Len(y)
    BY <2>2, DropKeeps
  <2>4. IsSnapshot(r.u.snapshot) =>
               /\ d.Commit < Len(r.u.snapshot)
               /\ d.Term = r.Term => ~Agree(d.log, r.u.snapshot, Len(r.u.snapshot))
    BY <1>7, <2>3
  <2> HIDE DEF q
  <2> QED BY <2>1, <2>3, <2>4 DEF q, SameUnstable
<1>9. CASE i # 0
  <2> DEFINE v == [u EXCEPT !.snapshot = None, !.snapshotInProgress = FALSE]
             f == [r EXCEPT !.u = v]
  <2>1. q = appliedTo([r EXCEPT !.u = stableSnapTo(u, i)], i, 0) BY <1>9 DEF installedBy
  <2>2. i <= Len(m)
    <3>1. R \in Seq(AppendMsg) /\ Len(R) = Len(D) BY <1>1 DEF Past
    <3>2. 1 \in 1..Len(R) BY <1>2, <3>1
    <3> QED BY <3>2 DEF Kept
  <2>3. i <= r.committed /\ r.applied <= r.committed
    <3> DEFINE a == r.applied
               b == r.applying
               c == r.committed
               k == d.Commit
    <3>1. a \in Nat /\ b \in Nat /\ c \in Nat /\ k \in Nat /\ a <= b /\ b <= c /\ i <= k /\ k <= c
      BY <1>2, <1>3, <1>4, <1>6, PointIs
    <3> HIDE DEF a, b, c, k, i
    <3>2. i <= c /\ a <= c BY <1>5, <3>1
    <3> QED BY <3>2 DEF a, c
  <2>4. HasApplied(z, r, i)
    <3> HIDE DEF i, z
    <3> QED BY <1>3, <1>5, <2>3, AppliedToIs DEF z
  <2>5. ASSUME NEW k \in 1..Len(X) PROVE Agree(X[k].log, w, i)
    <3>1. Later(h, d, X[k]) BY <1>2, PointsInOrder
    <3>2. Agree(X[k].log, w, X[k].Commit)
      <4>1. Now(r, s).log = w BY DEF Now
      <4>2. Agree(X[k].log, Now(r, s).log, X[k].Commit) BY <1>3, LaterCommitted
      <4> QED BY <4>1, <4>2
    <3>3. d.Commit <= X[k].Commit BY <3>1 DEF Later
    <3>4. d.Commit \in Nat /\ X[k].Commit \in Nat /\ Len(X[k].log) \in Nat BY <1>2, <1>3, PointIs
    <3>5. i <= X[k].Commit
      <4> DEFINE a == d.Commit
                 b == X[k].Commit
      <4>1. a \in Nat /\ b \in Nat /\ i <= a /\ a <= b BY <1>4, <3>3, <3>4
      <4> HIDE DEF a, b, i
      <4>2. i <= b BY <1>5, <4>1
      <4> QED BY <4>2 DEF b
    <3> HIDE DEF i, w
    <3> QED BY <1>3, <1>5, <3>2, <3>4, <3>5, AgreeLess
  <2> HIDE DEF z, v
  <2>6. Fits(h, z, s, R, A, ps, rs, m, D, X) /\ Whole(z, s) = w
    <3> HIDE DEF i
    <3> QED BY <1>5, <2>2, <2>4, <2>5, AppliedToKeeps
  <2>7. /\ z \in Node /\ z.u = u /\ z.Term = r.Term /\ z.committed = r.committed /\ z.after = r.after
        /\ z.applied = Greatest(i, r.applied) /\ z.applying = Greatest(r.applying, Greatest(i, r.applied))
    BY <2>4 DEF HasApplied
  <2>8. CASE ~match
    <3>1. stableSnapTo(u, i) = u BY <2>8 DEF stableSnapTo
    <3>2. [r EXCEPT !.u = u] = r BY <1>3 DEF Node
    <3>3. q = z BY <2>1, <3>1, <3>2 DEF z
    <3>4. /\ Fits(h, z, s, Tail(R), A, ps, rs, m, Tail(D), X)
          /\ IsSnapshot(y) => d.Commit < Len(y)
      BY <2>6, <2>7, <2>8, DropKeeps
    <3>5. IsSnapshot(z.u.snapshot) =>
               /\ d.Commit < Len(z.u.snapshot)
               /\ d.Term = z.Term => ~Agree(d.log, z.u.snapshot, Len(z.u.snapshot))
      BY <1>7, <2>7, <3>4
    <3> HIDE DEF q
    <3> QED BY <2>6, <2>7, <3>3, <3>4, <3>5 DEF q, SameUnstable
  <2>9. CASE match
    <3>1. stableSnapTo(u, i) = v BY <2>9 DEF stableSnapTo, v
    <3>2. q = appliedTo(f, i, 0) BY <2>1, <3>1
    <3>3. /\ v \in Unstable /\ v.snapshot = None /\ v.snapshotInProgress = FALSE
          /\ v.entries = u.entries /\ v.offset = u.offset /\ v.offsetInProgress = u.offsetInProgress
      <4> DEFINE N == None
                 L == Log
      <4>1. N \in L BY DEF None, Log
      <4>2. /\ u \in [entries : L, offset : Nat \ {0}, offsetInProgress : Nat \ {0},
                      snapshot : L, snapshotInProgress : BOOLEAN]
            /\ v = [u EXCEPT !.snapshot = N, !.snapshotInProgress = FALSE]
        BY <1>6 DEF v, Unstable
      <4> HIDE DEF N, L, u
      <4>3. /\ v \in [entries : L, offset : Nat \ {0}, offsetInProgress : Nat \ {0},
                      snapshot : L, snapshotInProgress : BOOLEAN]
            /\ v.snapshot = N /\ v.snapshotInProgress = FALSE
            /\ v.entries = u.entries /\ v.offset = u.offset
            /\ v.offsetInProgress = u.offsetInProgress
        BY <4>1, <4>2
      <4> QED BY <4>3 DEF N, L, Unstable
    <3>4. /\ f \in Node /\ ~f.panic /\ f.u = v /\ f.Term = r.Term /\ f.committed = r.committed
          /\ f.after = r.after /\ f.applied = r.applied /\ f.applying = r.applying
      BY <1>3, <3>3 DEF Node
    <3> HIDE DEF f, q
    <3>5. HasApplied(q, f, i)
      <4>1. i <= f.committed /\ f.applied <= f.committed BY <2>3, <3>4
      <4> HIDE DEF i
      <4> QED BY <1>5, <3>2, <3>4, <4>1, AppliedToIs
    <3>6. /\ q \in Node /\ ~q.panic /\ q.u = v /\ q.Term = r.Term /\ q.committed = r.committed
          /\ q.after = r.after /\ q.applied = z.applied /\ q.applying = z.applying
      BY <2>7, <3>4, <3>5 DEF HasApplied
    <3>7. Released(q, z) BY <2>7, <3>3, <3>6 DEF Released
    <3>8. IsSnapshot(z.u.snapshot) /\ Len(z.u.snapshot) = Len(R[1].snapshot) BY <2>7, <2>9
    <3>9. Len(z.u.snapshot) <= z.applying
      <4> DEFINE a == r.applied
                 b == r.applying
      <4>1. Len(z.u.snapshot) = i /\ z.applying = Greatest(b, Greatest(i, a)) BY <2>7, <2>9
      <4>2. a \in Nat /\ b \in Nat BY <1>6
      <4> HIDE DEF a, b, i
      <4>3. i <= Greatest(b, Greatest(i, a)) BY <1>5, <4>2 DEF Greatest
      <4> QED BY <4>1, <4>3
    <3>10. /\ Fits(h, q, s, Tail(R), A, ps, rs, m, Tail(D), X)
           /\ Whole(q, s) = Whole(z, s) /\ ~IsSnapshot(q.u.snapshot)
      BY <2>6, <3>7, <3>8, <3>9, ReleaseKeeps
    <3>11. SameUnstable(q, r) BY <3>3, <3>6 DEF SameUnstable
    <3> QED BY <2>6, <3>10, <3>11 DEF q
  <2> QED BY <2>8, <2>9
<1> QED BY <1>8, <1>9

\* A point between two under one leader, the later of which holds all of the earlier.
LEMMA EvolvesBetween ==
    ASSUME NEW a \in Log, NEW b \in Log, NEW c \in Log, NEW L \in Log,
           Evolves(a, b, L), Evolves(b, c, L), Agree(a, c, Len(a))
    PROVE  Agree(b, c, Len(a)) /\ (Len(a) = Len(c) => b = c)
<1>1. Len(a) \in Nat /\ Len(b) \in Nat /\ Len(c) \in Nat BY LenProperties DEF Log
<1>2. CASE a = b
  <2>1. Agree(b, c, Len(a)) BY <1>2
  <2>2. Len(a) = Len(c) => b = c BY <1>2, AgreeEqual
  <2> QED BY <2>1, <2>2
<1>3. CASE b = c
  <2>1. Len(a) <= Len(b) BY <1>3 DEF Agree
  <2>2. Agree(b, c, Len(a)) BY <1>1, <1>3, <2>1, AgreeSame
  <2> QED BY <1>3, <2>2
<1>4. CASE a # b /\ b # c
  <2>1. Agree(b, L, Len(b)) /\ \A i \in 0..Len(a) : Agree(a, L, i) => i <= Len(b)
    BY <1>4 DEF Evolves
  <2>2. Agree(c, L, Len(c)) /\ \A i \in 0..Len(b) : Agree(b, L, i) => i <= Len(c)
    BY <1>4 DEF Evolves
  <2>3. Len(a) <= Len(c) BY DEF Agree
  <2>4. Len(L) \in Nat BY LenProperties DEF Log
  <2>5. Agree(c, L, Len(a)) BY <1>1, <2>2, <2>3, <2>4, AgreeLess
  <2>6. Agree(a, L, Len(a)) BY <2>5, AgreeTrans
  <2>7. Len(a) <= Len(b)
    <3>1. Len(a) \in 0..Len(a) BY <1>1
    <3> QED BY <2>1, <2>6, <3>1
  <2>8. Agree(b, L, Len(a)) BY <1>1, <2>1, <2>4, <2>7, AgreeLess
  <2>9. Agree(b, c, Len(a)) BY <2>5, <2>8, AgreeSym, AgreeTrans
  <2>10. ASSUME Len(a) = Len(c) PROVE b = c
    <3>1. Len(b) \in 0..Len(b) BY <1>1
    <3>2. Len(b) <= Len(c) BY <2>1, <2>2, <3>1
    <3>3. Len(b) = Len(c) BY <1>1, <2>7, <2>10, <3>2
    <3> QED BY <2>9, <2>10, <3>3, AgreeEqual
  <2> QED BY <2>9, <2>10
<1> QED BY <1>2, <1>3, <1>4

\* v is u without the entries up to i.
CutTo(v, u, i) ==
    /\ v \in Unstable /\ v.snapshot = u.snapshot /\ v.snapshotInProgress = u.snapshotInProgress
    /\ u.offset <= i /\ i < u.offset + Len(u.entries) /\ v.offset = i + 1
    /\ v.offsetInProgress = Greatest(u.offsetInProgress, i + 1)
    /\ Len(v.entries) = u.offset + Len(u.entries) - 1 - i
    /\ \A k \in 1..Len(v.entries) : v.entries[k] = u.entries[k + (i + 1 - u.offset)]

LEMMA StableToIs ==
    ASSUME NEW u \in Unstable, NEW i \in Nat, NEW t
    PROVE  LET v == stableTo(u, i, t)
           IN  /\ v \in Unstable
               /\ v = u \/ (CutTo(v, u, i) /\ u.entries[i + 1 - u.offset] = t)
<1> DEFINE o == u.offset
           e == u.entries
           b == u.offsetInProgress
           l == Len(e)
           y == i + 2 - o
           x == SubSeq(e, y, l)
           g == Greatest(b, i + 1)
           c == i + 1
           v == stableTo(u, i, t)
           z == [u EXCEPT !.entries = x, !.offset = c, !.offsetInProgress = g]
<1>1. e \in Log /\ l \in Nat /\ o \in Nat \ {0} /\ b \in Nat \ {0}
  <2>1. e \in Log /\ o \in Nat \ {0} /\ b \in Nat \ {0} BY DEF Unstable
  <2>2. l \in Nat BY <2>1, LenProperties DEF Log
  <2> QED BY <2>1, <2>2
<1>2. v = u \/ (o <= i /\ i < o + l /\ e[i + 1 - o] = t /\ v = z)
  <2>1. v = IF i < o \/ i >= o + l THEN u ELSE IF e[i + 1 - o] # t THEN u ELSE z
    BY DEF stableTo
  <2> HIDE DEF v, z, o, l
  <2>2. CASE i < o \/ i >= o + l BY <2>1, <2>2
  <2>3. CASE ~(i < o \/ i >= o + l)
    <3>1. o <= i /\ i < o + l BY <1>1, <2>3
    <3> QED BY <2>1, <2>3, <3>1
  <2> QED BY <2>2, <2>3
<1>3. ASSUME o <= i, i < o + l, v = z PROVE v \in Unstable /\ CutTo(v, u, i)
  <2>1. y \in Nat \ {0} /\ l \in 0..l /\ y <= l + 1 /\ l - y + 1 = o + l - 1 - i /\ c \in Nat \ {0}
    <3> HIDE DEF o, l
    <3> QED BY <1>1, <1>3
  <2>2. g \in Nat \ {0} BY <1>1, <2>1 DEF Greatest
  <2> HIDE DEF e, l, y
  <2>3. /\ x \in Log /\ Len(x) = l - y + 1
        /\ \A k \in 1..(l - y + 1) : x[k] = e[y - 1 + k]
    <3>1. l \in 0..Len(e) BY <2>1 DEF l
    <3>2. y <= l + 1 /\ y \in Nat \ {0} BY <2>1
    <3> QED BY <1>1, <3>1, <3>2, PartOf
  <2> HIDE DEF x, g, c
  <2>4. /\ z \in Unstable /\ z.snapshot = u.snapshot /\ z.snapshotInProgress = u.snapshotInProgress
        /\ z.entries = x /\ z.offset = c /\ z.offsetInProgress = g
    BY <2>1, <2>2, <2>3 DEF Unstable
  <2>5. \A k \in 1..Len(x) : x[k] = e[k + (i + 1 - o)]
    <3> SUFFICES ASSUME NEW k \in 1..Len(x) PROVE x[k] = e[k + (i + 1 - o)] OBVIOUS
    <3>1. k \in 1..(l - y + 1) BY <2>3
    <3>2. y - 1 + k = k + (i + 1 - o)
      <4> HIDE DEF o
      <4> QED BY <1>1 DEF y
    <3> QED BY <2>3, <3>1, <3>2
  <2>6. Len(x) = o + l - 1 - i BY <2>1, <2>3
  <2> HIDE DEF z, v
  <2> QED BY <1>3, <2>4, <2>5, <2>6 DEF CutTo, o, l, e, c, g, b
<1>4. v \in Unstable BY <1>2, <1>3
<1> HIDE DEF v, z
<1>5. v = u \/ (CutTo(v, u, i) /\ e[i + 1 - o] = t) BY <1>2, <1>3
<1> QED BY <1>4, <1>5 DEF v

\* The entries that are not in progress are the end of the log.
LEMMA NextEntriesAre ==
    ASSUME NEW r \in Node, NEW s \in Storage, UnstableOK(r.u),
           ~IsSnapshot(r.u.snapshot) => r.u.offset - 1 <= Len(s.log)
    PROVE  LET w == Whole(r, s)
               p == r.u.offsetInProgress
               e == nextEntries(r.u)
           IN  /\ e \in Log /\ Len(e) = Len(w) + 1 - p
               /\ \A k \in 1..Len(e) : e[k] = w[p - 1 + k]
<1> DEFINE w == Whole(r, s)
           p == r.u.offsetInProgress
           o == r.u.offset
           a == r.u.entries
           l == Len(a)
           y == p - o + 1
           e == nextEntries(r.u)
<1>1. /\ w \in Log /\ Len(w) \in Nat /\ Len(w) = o - 1 + l /\ \A i \in 1..l : w[o - 1 + i] = a[i]
  BY WholeIs
<1>2. a \in Log /\ l \in Nat /\ o \in Nat \ {0} /\ p \in Nat \ {0} /\ o <= p /\ p <= o + l
  BY NodeIs DEF UnstableOK
<1>3. e = SubSeq(a, y, l) BY DEF nextEntries
<1>4. y \in Nat \ {0} /\ y <= l + 1 /\ l \in 0..l
  <2> HIDE DEF p, o, l
  <2> QED BY <1>2
<1> HIDE DEF e, w, a, y
<1>5. e \in Log /\ Len(e) = l - y + 1 /\ \A k \in 1..(l - y + 1) : e[k] = a[y - 1 + k]
  <2>1. l \in 0..Len(a) BY <1>4
  <2> HIDE DEF l
  <2> QED BY <1>2, <1>3, <1>4, <2>1, PartOf
<1> HIDE DEF p, o, l
<1>6. Len(e) = Len(w) + 1 - p BY <1>1, <1>2, <1>5 DEF y
<1>7. ASSUME NEW k \in 1..Len(e) PROVE e[k] = w[p - 1 + k]
  <2> DEFINE j == y - 1 + k
  <2>1. j \in 1..l /\ o - 1 + j = p - 1 + k BY <1>2, <1>4, <1>5 DEF y
  <2>2. k \in 1..(l - y + 1) BY <1>5
  <2> HIDE DEF j
  <2>3. w[o - 1 + j] = a[j] BY <1>1, <2>1
  <2>4. e[k] = a[j] BY <1>5, <2>2 DEF j
  <2> QED BY <2>1, <2>3, <2>4
<1> QED BY <1>5, <1>6, <1>7 DEF e, w, p

\* q is r with the unstable log v.
HasUnstable(q, r, v) ==
    /\ q \in Node /\ ~q.panic /\ q.u = v /\ q.Term = r.Term /\ q.committed = r.committed
    /\ q.after = r.after /\ q.applied = r.applied /\ q.applying = r.applying

\* The entries up to the end of the point d, which the log has still, are dropped.
LEMMA CutKeeps ==
    ASSUME NEW h, IsHistory(h), NEW r, NEW s, NEW R, NEW A, NEW ps, NEW rs, NEW m, NEW D, NEW X,
           Fits(h, r, s, R, A, ps, rs, m, D, X),
           NEW d, Good(h, d), d.Term = r.Term, \A j \in 1..Len(X) : Later(h, d, X[j]),
           NEW i \in Nat \ {0}, Len(d.log) = i,
           r.u.entries[i + 1 - r.u.offset] = d.log[i],
           IsSnapshot(r.u.snapshot) => ~Agree(d.log, r.u.snapshot, Len(r.u.snapshot)),
           NEW v, CutTo(v, r.u, i), NEW q, HasUnstable(q, r, v)
    PROVE  Fits(h, q, s, R, A, ps, rs, m, D, X) /\ Whole(q, s) = Whole(r, s)
<1> DEFINE u == r.u
           o == u.offset
           e == u.entries
           p == u.offsetInProgress
           l == Len(e)
           w == Whole(r, s)
           g == v.offsetInProgress
           x == v.entries
           c == i + 1
<1>1. /\ NodeOK(h, r, s) /\ StorageOK(h, r, s) /\ Past(h, s, R, A, D, X)
      /\ Ahead(h, r, s, X) /\ Owed(r, s, X) /\ Settled(r, s, X)
      /\ Expected(r, R) /\ Expected(r, A) /\ Applies(r, w, ps, rs, m, X)
  BY DEF Fits, Present
<1>2. /\ r \in Node /\ s \in Storage /\ UnstableOK(u) /\ w \in Log /\ Len(w) \in Nat
      /\ Len(w) = o - 1 + l /\ Good(h, Now(r, s)) /\ X[1] = Stored(s)
      /\ \A j \in 1..Len(X) : Good(h, X[j]) /\ Later(h, X[j], Now(r, s))
  BY FitsIs
<1>3. /\ e \in Log /\ l \in Nat /\ o \in Nat \ {0} /\ p \in Nat \ {0} /\ r.Term \in Nat
      /\ u.snapshot \in Log /\ Len(u.snapshot) \in Nat
      /\ o <= p /\ p <= o + l
  BY <1>2, NodeIs DEF UnstableOK
<1>4. /\ v \in Unstable /\ v.snapshot = u.snapshot /\ v.snapshotInProgress = u.snapshotInProgress
      /\ o <= i /\ i < o + l /\ v.offset = c /\ g = Greatest(p, c)
      /\ Len(x) = o + l - 1 - i /\ \A k \in 1..Len(x) : x[k] = e[k + (i + 1 - o)]
  BY DEF CutTo
<1>5. /\ q \in Node /\ ~q.panic /\ q.u = v /\ q.Term = r.Term /\ q.committed = r.committed
      /\ q.after = r.after /\ q.applied = r.applied /\ q.applying = r.applying
  BY DEF HasUnstable
<1>6. x \in Log BY <1>4 DEF Unstable
<1>7. /\ \A k \in 1..l : w[o - 1 + k] = e[k]
      /\ IsSnapshot(u.snapshot) => Agree(w, u.snapshot, o - 1) /\ Len(u.snapshot) = o - 1
  <2>1. ~IsSnapshot(u.snapshot) => o - 1 <= Len(s.log) BY <1>1 DEF NodeOK
  <2>2. IsSnapshot(u.snapshot) => o = Len(u.snapshot) + 1 BY <1>2 DEF UnstableOK
  <2>3. IsSnapshot(u.snapshot) => Len(u.snapshot) = o - 1
    <3> DEFINE b == Len(u.snapshot)
               f == IsSnapshot(u.snapshot)
    <3>1. f => o = b + 1 BY <2>2
    <3>2. b \in Nat BY <1>3
    <3> HIDE DEF b, f, o
    <3>3. f => b = o - 1 BY <3>1, <3>2
    <3> QED BY <3>3 DEF b, f
  <2> QED BY <1>2, <2>1, <2>3, WholeIs
<1>8. d.log \in Log /\ True(h, d.log) /\ True(h, w) /\ d.Term \in Term
  <2>1. Now(r, s).log = w BY DEF Now
  <2> QED BY <1>2, <2>1, PointIs
<1>9. i <= Len(w) /\ w[i] = d.log[i]
  <2> DEFINE k == i + 1 - o
  <2>1. k \in 1..l /\ o - 1 + k = i /\ i <= Len(w)
    <3> HIDE DEF o, l, w
    <3> QED BY <1>2, <1>3, <1>4
  <2>2. e[k] = d.log[i] OBVIOUS
  <2> HIDE DEF k
  <2>3. w[o - 1 + k] = e[k] BY <1>7, <2>1
  <2> QED BY <2>1, <2>2, <2>3
<1> HIDE DEF w
<1>10. Agree(d.log, w, i) BY <1>8, <1>9, TrueMatch
<1>11. ~IsSnapshot(u.snapshot)
  <2> SUFFICES ASSUME IsSnapshot(u.snapshot) PROVE FALSE OBVIOUS
  <2> DEFINE y == u.snapshot
             b == o - 1
  <2>1. Agree(w, y, b) /\ Len(y) = b BY <1>7
  <2>2. b \in Nat /\ b <= i
    <3> HIDE DEF o
    <3> QED BY <1>3, <1>4
  <2>3. ~Agree(d.log, y, Len(y)) OBVIOUS
  <2> HIDE DEF b, y
  <2>4. Len(d.log) \in Nat BY <1>8, TrueLog
  <2>5. Agree(d.log, w, b) BY <1>2, <1>10, <2>2, <2>4, AgreeLess
  <2>6. Agree(d.log, y, b) BY <2>1, <2>5, AgreeTrans
  <2> QED BY <2>1, <2>3, <2>6
<1>12. ASSUME NEW j \in 1..Len(X) PROVE Agree(X[j].log, w, i) /\ (i = Len(w) => X[j].log = w)
  <2> DEFINE L == LeaderLog(h, d.Term)
             b == X[j].log
             n1 == Now(r, s)
  <2>1. n1.log = w /\ n1.Term = r.Term BY DEF Now, w
  <2>2. Good(h, X[j]) /\ Later(h, d, X[j]) /\ Later(h, X[j], n1) BY <1>2
  <2>3. X[j].Term = d.Term
    <3> DEFINE a == d.Term
               f == X[j].Term
    <3>1. a \in Nat /\ f \in Nat /\ a <= f /\ f <= a BY <2>1, <2>2, PointIs DEF Later
    <3> HIDE DEF a, f
    <3>2. f = a BY <3>1
    <3> QED BY <3>2 DEF a, f
  <2>4. Evolves(d.log, b, L) /\ Evolves(b, w, L) BY <2>1, <2>2, <2>3 DEF Later
  <2>5. L \in Log /\ b \in Log BY <1>8, <2>2, LeaderLogs, PointIs
  <2> HIDE DEF L, b
  <2>6. Agree(b, w, Len(d.log)) /\ (Len(d.log) = Len(w) => b = w)
    BY <1>2, <1>8, <1>10, <2>4, <2>5, EvolvesBetween
  <2> QED BY <2>6 DEF b
<1>13. Len(X) \in Nat \ {0} /\ 1 \in 1..Len(X) /\ Len(X) \in 1..Len(X) BY PointsInOrder
<1>14. Agree(s.log, w, i) /\ s.log \in Log /\ Len(s.log) \in Nat
  <2>1. Agree(X[1].log, w, i) BY <1>12, <1>13
  <2>2. X[1].log = s.log BY <1>2 DEF Stored
  <2> QED BY <1>2, <2>1, <2>2, StorageIs
<1>15. Len(w) = i + Len(x) /\ \A k \in 1..Len(x) : w[i + k] = x[k] /\ Len(x) \in Nat
  <2>1. Len(w) = i + Len(x)
    <3> HIDE DEF o, l, x
    <3> QED BY <1>2, <1>3, <1>4
  <2>2. Len(x) \in Nat BY <1>6, LenProperties DEF Log
  <2> SUFFICES ASSUME NEW k \in 1..Len(x) PROVE w[i + k] = x[k] BY <2>1, <2>2
  <2> DEFINE f == k + (i + 1 - o)
  <2>3. f \in 1..l /\ o - 1 + f = i + k
    <3> HIDE DEF o, l, x
    <3> QED BY <1>2, <1>3, <1>4
  <2>4. x[k] = e[f] BY <1>4
  <2> HIDE DEF f
  <2>5. w[o - 1 + f] = e[f] BY <1>7, <2>3
  <2> QED BY <2>3, <2>4, <2>5
<1>16. ASSUME NEW b \in Log, Agree(b, w, i) PROVE w = SubSeq(b, 1, i) \o x
  <2>1. Len(b) \in Nat BY LenProperties DEF Log
  <2>2. i \in 0..Len(b) BY <1>16, <2>1 DEF Agree
  <2>3. Agree(w, b, i) BY <1>16, AgreeSym
  <2> HIDE DEF x
  <2> QED BY <1>2, <1>6, <1>15, <2>2, <2>3, JoinIs
<1>17. Whole(q, s) = w
  <2>1. Whole(q, s) = SubSeq(s.log, 1, (i + 1) - 1) \o x BY <1>4, <1>5, <1>11 DEF Whole
  <2>2. (i + 1) - 1 = i OBVIOUS
  <2> QED BY <1>14, <1>16, <2>1, <2>2
<1>18. UnstableOK(q.u)
  <2>1. c <= g /\ g <= c + Len(x)
    <3> HIDE DEF o, l, x, p, g
    <3>1. g = p \/ g = i + 1 BY <1>4 DEF Greatest
    <3>2. i + 1 <= g BY <1>3, <1>4 DEF Greatest
    <3> QED BY <1>3, <1>4, <3>1, <3>2
  <2>2. ~u.snapshotInProgress BY <1>2, <1>11 DEF UnstableOK
  <2> HIDE DEF c
  <2> QED BY <1>4, <1>5, <1>11, <2>1, <2>2 DEF UnstableOK
<1>19. Now(q, s) = Now(r, s) BY <1>5, <1>17 DEF Now, w
<1>20. NodeOK(h, q, s)
  <2>1. q.u.offset - 1 <= Len(s.log)
    <3>1. i <= Len(s.log) BY <1>14 DEF Agree
    <3>2. c - 1 = i OBVIOUS
    <3> HIDE DEF c
    <3> QED BY <1>4, <1>5, <3>1, <3>2
  <2> QED BY <1>1, <1>4, <1>5, <1>11, <1>18, <1>19, <2>1 DEF NodeOK
<1>21. StorageOK(h, q, s) BY <1>1, <1>4, <1>5 DEF StorageOK
<1>22. nextSnapshot(r) = None /\ nextSnapshot(q) = None
  BY <1>4, <1>5, <1>11 DEF nextSnapshot, IsSnapshot
<1>23. Ahead(h, q, s, X) BY <1>1, <1>19 DEF Ahead
<1>24. Owed(q, s, X)
  <2> DEFINE f == nextEntries(q.u)
             b == nextEntries(r.u)
             y == X[Len(X)].log
  <2>1. f \in Log /\ Len(f) = Len(w) + 1 - g /\ \A k \in 1..Len(f) : f[k] = w[g - 1 + k]
    <3>1. ~IsSnapshot(q.u.snapshot) => q.u.offset - 1 <= Len(s.log) BY <1>20 DEF NodeOK
    <3> QED BY <1>2, <1>5, <1>17, <1>18, <3>1, NextEntriesAre
  <2>2. b \in Log /\ Len(b) = Len(w) + 1 - p /\ \A k \in 1..Len(b) : b[k] = w[p - 1 + k]
    <3>1. ~IsSnapshot(r.u.snapshot) => r.u.offset - 1 <= Len(s.log) BY <1>1 DEF NodeOK
    <3> QED BY <1>2, <3>1, NextEntriesAre DEF w
  <2>3. Writes(X[Len(X)], None, p, b, Now(r, s)) BY <1>1, <1>22 DEF Owed
  <2>4. Now(r, s).log = w BY DEF Now, w
  <2> SUFFICES Writes(X[Len(X)], None, g, f, Now(r, s)) BY <1>5, <1>19, <1>22 DEF Owed
  <2> HIDE DEF f, b
  <2>5. CASE c <= p
    <3>1. g = p
      <4> HIDE DEF p, g
      <4> QED BY <1>3, <1>4, <2>5 DEF Greatest
    <3>2. f = b BY <2>1, <2>2, <3>1, SeqEqual DEF Log
    <3> QED BY <2>3, <3>1, <3>2
  <2>6. CASE ~(c <= p)
    <3>1. g = c /\ p <= i
      <4> HIDE DEF p, g
      <4> QED BY <1>3, <1>4, <2>6 DEF Greatest
    <3>2. Agree(y, w, i) /\ (i = Len(w) => y = w) /\ y \in Log /\ X[Len(X)].Commit \in Nat
          /\ Len(y) \in Nat
      <4>1. Good(h, X[Len(X)]) BY <1>2, <1>13
      <4> QED BY <1>12, <1>13, <4>1, PointIs
    <3>3. f = x
      <4>1. Len(f) = Len(x)
        <5> DEFINE a == Len(x)
                   k == Len(w)
        <5>1. Len(f) = k + 1 - (i + 1) /\ k = i + a /\ a \in Nat BY <1>15, <2>1, <3>1
        <5> HIDE DEF a, k
        <5>2. Len(f) = a BY <5>1
        <5> QED BY <5>2 DEF a
      <4>2. ASSUME NEW k \in 1..Len(f) PROVE f[k] = x[k]
        <5>1. f[k] = w[c - 1 + k] /\ c - 1 + k = i + k BY <2>1, <3>1
        <5> QED BY <1>15, <4>1, <5>1
      <4> QED BY <1>6, <2>1, <4>1, <4>2, SeqEqual DEF Log
    <3>4. X[Len(X)].Commit < c
      <4> DEFINE a == X[Len(X)].Commit
      <4>1. b # <<>>
        <5>1. Len(b) # 0 BY <1>2, <1>3, <1>9, <2>2, <3>1
        <5> QED BY <2>2, <5>1, SnapshotEmpty
      <4>2. a < p BY <2>3, <4>1 DEF Writes
      <4>3. a \in Nat BY <3>2
      <4> HIDE DEF a, p
      <4>4. a < c BY <1>3, <3>1, <4>2, <4>3
      <4> QED BY <4>4 DEF a
    <3> HIDE DEF x
    <3>5. CASE x = <<>>
      <4>1. i = Len(w) BY <1>15, <3>3, <3>5
      <4>2. y = w BY <3>2, <4>1
      <4> QED BY <2>4, <3>3, <3>5, <4>2 DEF Writes, IsSnapshot
    <3>6. CASE x # <<>>
      <4>1. w = SubSeq(y, 1, i) \o x
        <5> HIDE DEF y
        <5> QED BY <1>16, <3>2 DEF x
      <4>2. i <= Len(y) BY <3>2 DEF Agree
      <4>3. c - 1 = i OBVIOUS
      <4>4. c - 1 <= Len(y) /\ w = SubSeq(y, 1, c - 1) \o x BY <4>1, <4>2, <4>3
      <4> HIDE DEF c
      <4> QED BY <2>4, <3>1, <3>3, <3>4, <3>6, <4>4 DEF Writes, IsSnapshot
    <3> QED BY <3>5, <3>6
  <2> QED BY <2>5, <2>6
<1>25. Settled(q, s, X)
  <2>1. ASSUME NEW j \in 1..Len(X)
        PROVE  /\ Agree(X[j].log, w, r.applying) /\ Agree(X[j].log, w, c - 1)
               /\ x = <<>> => X[j].log = w
    <3>1. Agree(X[j].log, w, r.applying) BY <1>1 DEF Settled, w
    <3>2. c - 1 = i OBVIOUS
    <3>3. x = <<>> => i = Len(w) BY <1>2, <1>15
    <3> HIDE DEF c
    <3> QED BY <1>12, <3>1, <3>2, <3>3
  <2> HIDE DEF c
  <2> QED BY <1>4, <1>5, <1>17, <2>1 DEF Settled
<1>26. Carried(q, R, A) /\ Expected(q, R) /\ Expected(q, A) /\ Lacked(q, D) /\ Lacked(q, X)
  <2>1. ~q.u.snapshotInProgress BY <1>18, <1>4, <1>5, <1>11 DEF UnstableOK
  <2> QED BY <1>1, <1>4, <1>5, <1>11, <2>1 DEF Carried, Expected, Lacked
<1>27. Applies(q, w, ps, rs, m, X) BY <1>1, <1>5 DEF Applies
<1> QED BY <1>1, <1>17, <1>20, <1>21, <1>23, <1>24, <1>25, <1>26, <1>27 DEF Fits, Present, w

LEMMA SnapToIs ==
    ASSUME NEW u \in Unstable, NEW l
    PROVE  /\ stableSnapTo(u, l) \in Unstable
           /\ stableSnapTo(u, l) = u \/
                stableSnapTo(u, l) = [u EXCEPT !.snapshot = None, !.snapshotInProgress = FALSE]
<1> DEFINE N == None
           L == Log
           v == [u EXCEPT !.snapshot = N, !.snapshotInProgress = FALSE]
<1>1. stableSnapTo(u, l) = u \/ stableSnapTo(u, l) = v BY DEF stableSnapTo
<1>2. N \in L BY DEF None, Log
<1>3. u \in [entries : L, offset : Nat \ {0}, offsetInProgress : Nat \ {0},
             snapshot : L, snapshotInProgress : BOOLEAN]
  BY DEF Unstable
<1> HIDE DEF N, L
<1>4. v \in [entries : L, offset : Nat \ {0}, offsetInProgress : Nat \ {0},
             snapshot : L, snapshotInProgress : BOOLEAN]
  BY <1>2, <1>3
<1>5. v \in Unstable BY <1>4 DEF L, Unstable
<1> QED BY <1>1, <1>5 DEF N

\* The snapshot and the entries of a response may be taken in either order.
LEMMA SnapAndEntries ==
    ASSUME NEW u \in Unstable, NEW i \in Nat, NEW t, NEW l
    PROVE  stableSnapTo(stableTo(u, i, t), l) = stableTo(stableSnapTo(u, l), i, t)
<1> DEFINE N == None
           v == [u EXCEPT !.snapshot = N, !.snapshotInProgress = FALSE]
           c == i + 1
           x == SubSeq(u.entries, i + 2 - u.offset, Len(u.entries))
           g == Greatest(u.offsetInProgress, i + 1)
           z == [u EXCEPT !.entries = x, !.offset = c, !.offsetInProgress = g]
           y == [v EXCEPT !.entries = x, !.offset = c, !.offsetInProgress = g]
           cut == ~(i < u.offset \/ i >= u.offset + Len(u.entries)) /\ u.entries[i + 1 - u.offset] = t
           match == IsSnapshot(u.snapshot) /\ Len(u.snapshot) = l
           L == Log
<1>1. u \in [entries : L, offset : Nat \ {0}, offsetInProgress : Nat \ {0},
             snapshot : L, snapshotInProgress : BOOLEAN]
  BY DEF Unstable
<1>2. stableTo(u, i, t) = IF cut THEN z ELSE u BY DEF stableTo
<1>3. stableSnapTo(u, l) = IF match THEN v ELSE u BY DEF stableSnapTo
<1>4. v.entries = u.entries /\ v.offset = u.offset /\ v.offsetInProgress = u.offsetInProgress
  <2> HIDE DEF L, N
  <2> QED BY <1>1
<1>5. z.snapshot = u.snapshot
  <2> HIDE DEF L, x, c, g
  <2> QED BY <1>1
<1>6. [z EXCEPT !.snapshot = N, !.snapshotInProgress = FALSE] = y
  <2> HIDE DEF L, N, x, c, g
  <2> QED BY <1>1
<1>7. stableTo(v, i, t) = IF cut THEN y ELSE v
  <2> DEFINE o == u.offset
             e == u.entries
             p == u.offsetInProgress
  <2>1. v.offset = o /\ v.entries = e /\ v.offsetInProgress = p BY <1>4
  <2> HIDE DEF v
  <2> HIDE DEF o, e, p
  <2>2. stableTo(v, i, t) =
          IF i < o \/ i >= o + Len(e) THEN v ELSE IF e[i + 1 - o] # t THEN v
          ELSE [v EXCEPT !.entries = SubSeq(e, i + 2 - o, Len(e)), !.offset = i + 1,
                         !.offsetInProgress = Greatest(p, i + 1)]
    BY <2>1 DEF stableTo
  <2> QED BY <2>2 DEF o, e, p
<1>8. stableSnapTo(z, l) = IF match THEN y ELSE z
  <2> HIDE DEF z, y
  <2> QED BY <1>5, <1>6 DEF stableSnapTo
<1> HIDE DEF v, y, z, cut, match
<1>9. CASE cut /\ match BY <1>2, <1>3, <1>7, <1>8, <1>9
<1>10. CASE cut /\ ~match BY <1>2, <1>3, <1>7, <1>8, <1>10
<1>11. CASE ~cut /\ match BY <1>2, <1>3, <1>7, <1>8, <1>11
<1>12. CASE ~cut /\ ~match BY <1>2, <1>3, <1>7, <1>8, <1>12
<1> QED BY <1>9, <1>10, <1>11, <1>12

LEMMA WithUnstable ==
    ASSUME NEW r \in Node, ~r.panic, NEW v \in Unstable
    PROVE  HasUnstable([r EXCEPT !.u = v], r, v)
BY DEF HasUnstable, Node

\* What handleAppendResp makes of the entries, once the snapshot is taken.
LEMMA AppendRespIs ==
    ASSUME NEW r \in Node, ~r.panic, NEW a, NEW i \in Nat, a.index = i, i # 0, ~(a.term < r.Term),
           NEW l \in Nat, Len(a.snapshot) = l, l <= r.committed, r.applied <= r.committed
    PROVE  LET f == installedBy(r, a.snapshot)
               q == handleAppendResp(r, a)
           IN  f \in Node /\ HasUnstable(q, f, stableTo(f.u, i, a.logTerm))
<1> DEFINE f == installedBy(r, a.snapshot)
           q == handleAppendResp(r, a)
           t == a.logTerm
           u == r.u
           v == stableTo(u, i, t)
           g == [r EXCEPT !.u = v]
           w == stableSnapTo(u, l)
           z == stableTo(w, i, t)
           k == [r EXCEPT !.u = w]
           j == [g EXCEPT !.u = z]
<1>1. u \in Unstable BY NodeIs
<1>2. v \in Unstable /\ w \in Unstable BY <1>1, StableToIs, SnapToIs
<1>3. z \in Unstable BY <1>2, StableToIs
<1>4. q = IF l = 0 THEN g ELSE appliedTo([g EXCEPT !.u = stableSnapTo(g.u, l)], l, 0)
  <2> DEFINE stable == IF a.index = 0 \/ a.term < r.Term THEN r
                       ELSE [r EXCEPT !.u = stableTo(r.u, a.index, a.logTerm)]
             j0 == Len(a.snapshot)
  <2>1. stable = g OBVIOUS
  <2>2. q = IF j0 = 0 THEN stable ELSE appliedTo([stable EXCEPT !.u = stableSnapTo(stable.u, j0)], j0, 0)
    BY DEF handleAppendResp
  <2>3. j0 = l OBVIOUS
  <2> HIDE DEF stable, g, q, j0
  <2> QED BY <2>1, <2>2, <2>3
<1>5. f = IF l = 0 THEN r ELSE appliedTo(k, l, 0) BY DEF installedBy
<1>6. z = stableSnapTo(v, l) BY <1>1, SnapAndEntries
<1> HIDE DEF v, w, z, q, f
<1>7. HasUnstable(g, r, v) /\ HasUnstable(k, r, w) BY <1>2, WithUnstable
<1>8. HasUnstable(j, g, z)
  <2>1. g \in Node /\ ~g.panic BY <1>7 DEF HasUnstable
  <2> HIDE DEF g
  <2> QED BY <1>3, <2>1, WithUnstable
<1> HIDE DEF g, k, j
<1>9. CASE l = 0
  <2>1. q = g /\ f = r BY <1>4, <1>5, <1>9
  <2> QED BY <1>7, <2>1 DEF q, f, v
<1>10. CASE l # 0
  <2>1. g.u = v BY <1>7 DEF HasUnstable
  <2>2. q = appliedTo(j, l, 0) /\ f = appliedTo(k, l, 0)
    BY <1>4, <1>5, <1>6, <1>10, <2>1 DEF j
  <2>3. HasApplied(f, k, l)
    <3>1. k \in Node /\ ~k.panic /\ l <= k.committed /\ k.applied <= k.committed
      BY <1>7 DEF HasUnstable
    <3> QED BY <2>2, <3>1, AppliedToIs
  <2>4. HasApplied(q, j, l)
    <3>1. j \in Node /\ ~j.panic /\ l <= j.committed /\ j.applied <= j.committed
      BY <1>7, <1>8 DEF HasUnstable
    <3> QED BY <2>2, <3>1, AppliedToIs
  <2>5. f \in Node /\ f.u = w BY <1>7, <2>3 DEF HasUnstable, HasApplied
  <2>6. HasUnstable(q, f, z) BY <1>7, <1>8, <2>3, <2>4 DEF HasUnstable, HasApplied
  <2> QED BY <2>5, <2>6 DEF z, f, q
<1> QED BY <1>9, <1>10

LEMMA AppendRespKeeps ==
    ASSUME NEW h, IsHistory(h), NEW r, NEW s, NEW R, NEW A, NEW ps, NEW rs, NEW m, NEW D, NEW X,
           Fits(h, r, s, R, A, ps, rs, m, D, X), R # <<>>, NEW acked, Kept(h, s, R, m, acked)
    PROVE  LET q == handleAppendResp(r, R[1])
           IN  /\ Fits(h, q, s, Tail(R), A, ps, rs, m, Tail(D), X)
               /\ Whole(q, s) = Whole(r, s) /\ q.committed = r.committed
<1> DEFINE a == R[1]
           d == D[1]
           q == handleAppendResp(r, a)
           f == installedBy(r, a.snapshot)
           B == Tail(R)
           E == Tail(D)
           i == a.index
           v == stableTo(f.u, i, a.logTerm)
<1>1. /\ Fits(h, f, s, B, A, ps, rs, m, E, X)
      /\ Whole(f, s) = Whole(r, s) /\ SameUnstable(f, r)
      /\ IsSnapshot(f.u.snapshot) => (d.Term = f.Term => ~Agree(d.log, f.u.snapshot, Len(f.u.snapshot)))
  BY SnapRespKeeps
<1>2. Good(h, d) /\ Asks(h, a, d) /\ 1 \in 1..Len(D)
  <2>1. Past(h, s, R, A, D, X) BY DEF Fits
  <2> QED BY <2>1, PastDrop
<1>3. /\ \A j \in 1..Len(X) : Later(h, d, X[j])
      /\ Later(h, d, Now(r, s)) /\ d.Commit <= r.committed
  BY <1>2, FitsIs, PointsInOrder
<1>4. /\ r \in Node /\ s \in Storage /\ ~r.panic /\ r.applied <= r.applying /\ r.applying <= r.committed
  BY FitsIs
<1>5. /\ r.Term \in Nat /\ d.Term \in Nat /\ d.Term <= r.Term /\ f.Term = r.Term
      /\ f.committed = r.committed /\ d.log \in Log
  <2>1. Now(r, s).Term = r.Term BY DEF Now
  <2>2. d.Term <= r.Term BY <1>3, <2>1 DEF Later
  <2>3. f.Term = r.Term /\ f.committed = r.committed BY <1>1 DEF SameUnstable
  <2> HIDE DEF f, d
  <2> QED BY <1>2, <1>4, <2>2, <2>3, NodeIs, PointIs
<1>6. /\ a \in AppendMsg /\ a.term = d.Term /\ Len(a.snapshot) <= d.Commit
      /\ i = 0 \/ (i = Len(d.log) /\ a.logTerm = d.log[i])
  BY <1>2 DEF Asks
<1>7. i \in Nat /\ a.snapshot \in Log
  <2>1. i \in Index /\ a.snapshot \in Log BY <1>6 DEF AppendMsg
  <2> QED BY <2>1 DEF Index
<1>8. Len(a.snapshot) \in Nat BY <1>7, LenProperties DEF Log
<1> HIDE DEF q, f, B, E, d
<1>9. CASE i = 0 \/ a.term < r.Term
  <2>1. q = f BY <1>9 DEF q, f, handleAppendResp, installedBy
  <2> QED BY <1>1, <1>5, <2>1 DEF q, B, E
<1>10. CASE ~(i = 0 \/ a.term < r.Term)
  <2>1. d.Term = f.Term /\ i # 0 /\ i = Len(d.log) /\ a.logTerm = d.log[i] /\ i \in Nat \ {0}
    <3> DEFINE x == d.Term
               y == r.Term
    <3>1. ~(x < y) /\ x \in Nat /\ y \in Nat /\ x <= y BY <1>5, <1>6, <1>10
    <3> HIDE DEF x, y
    <3>2. x = y BY <3>1
    <3>3. d.Term = f.Term BY <1>5, <3>2 DEF x, y
    <3> QED BY <1>6, <1>7, <1>10, <3>3
  <2>2. f \in Node /\ HasUnstable(q, f, v)
    <3> DEFINE l == Len(a.snapshot)
               c == r.committed
               b == r.applying
               x == r.applied
               k == d.Commit
    <3>1. /\ c \in Nat /\ b \in Nat /\ x \in Nat /\ k \in Nat /\ l <= k /\ k <= c
          /\ x <= b /\ b <= c
      BY <1>2, <1>3, <1>4, <1>6, NodeIs, PointIs
    <3> HIDE DEF c, b, x, k, l
    <3>2. l <= c /\ x <= c BY <1>8, <3>1 DEF l
    <3>3. l <= r.committed /\ r.applied <= r.committed BY <3>2 DEF c, x
    <3> QED BY <1>4, <1>7, <1>8, <1>10, <3>3, AppendRespIs DEF l, f, q
  <2>3. q.committed = f.committed /\ q.Term = f.Term BY <2>2 DEF HasUnstable
  <2>4. CASE v = f.u
    <3>1. /\ q \in Node /\ ~q.panic /\ q.u = f.u /\ q.applying = f.applying /\ q.applied = f.applied
          /\ q.Term = f.Term /\ q.committed = f.committed /\ q.after = f.after
      BY <2>2, <2>4 DEF HasUnstable
    <3>2. Now(q, s) = Now(f, s) BY <3>1 DEF Now, Whole
    <3>3. Good(h, Now(f, s)) /\ Supports(h, Now(f, s), f.after) BY <1>1 DEF Fits, NodeOK
    <3>4. f.Term <= q.Term /\ f.committed <= q.committed
      <4>1. f.Term \in Nat /\ f.committed \in Nat BY <2>2, NodeIs
      <4> QED BY <2>3, <4>1
    <3>5. Fits(h, q, s, B, A, ps, rs, m, E, X) /\ Whole(q, s) = Whole(f, s)
      BY <1>1, <3>1, <3>2, <3>3, <3>4, SameLog
    <3> QED BY <1>1, <1>5, <2>3, <3>5 DEF q, B, E
  <2>5. CASE CutTo(v, f.u, i) /\ f.u.entries[i + 1 - f.u.offset] = a.logTerm
    <3>1. f.u.entries[i + 1 - f.u.offset] = d.log[i] BY <2>1, <2>5
    <3>2. IsSnapshot(f.u.snapshot) => ~Agree(d.log, f.u.snapshot, Len(f.u.snapshot)) BY <1>1, <2>1
    <3> HIDE DEF v, i
    <3>3. Fits(h, q, s, B, A, ps, rs, m, E, X) /\ Whole(q, s) = Whole(f, s)
      BY <1>1, <1>2, <1>3, <2>1, <2>2, <2>5, <3>1, <3>2, CutKeeps
    <3> QED BY <1>1, <1>5, <2>3, <3>3 DEF q, B, E
  <2>6. f.u \in Unstable BY <2>2, NodeIs
  <2> QED BY <1>7, <2>4, <2>5, <2>6, StableToIs
<1> QED BY <1>9, <1>10

----------------------------------------------------------------------------
(* Compaction and restart *)

LEMMA CompactKeeps ==
    ASSUME NEW h, IsHistory(h), NEW r, NEW s, NEW R, NEW A, NEW ps, NEW rs, NEW m, NEW D, NEW X,
           Fits(h, r, s, R, A, ps, rs, m, D, X), NEW acked, Kept(h, s, R, m, acked),
           NEW i \in Nat, i <= r.applied, i <= s.hs.Commit
    PROVE  LET t == [s EXCEPT !.offset = i]
           IN  /\ Fits(h, r, t, R, A, ps, rs, m, D, X) /\ Kept(h, t, R, m, acked)
               /\ Whole(r, t) = Whole(r, s) /\ t.log = s.log
<1> DEFINE t == [s EXCEPT !.offset = i]
           c == s.hs.Commit
           a == r.applied
           b == r.applying
           k == Len(m)
<1>1. /\ s \in Storage /\ r \in Node /\ a <= b BY FitsIs
<1>2. c \in Nat /\ c \in Index /\ a \in Nat /\ b \in Nat BY <1>1, NodeIs, StorageIs
<1>3. m \in Log /\ a <= k
  <2>1. Applies(r, Whole(r, s), ps, rs, m, X) BY DEF Fits
  <2> QED BY <2>1 DEF Applies
<1>4. k \in Nat BY <1>3, LenProperties DEF Log
<1>5. i \in Index /\ i <= b /\ i <= k
  <2>1. i <= a /\ i <= c OBVIOUS
  <2> HIDE DEF a, b, c, k
  <2>2. i \in 0..MaxLog BY <1>2, <2>1, Bounds DEF Index
  <2> QED BY <1>1, <1>2, <1>3, <1>4, <2>1, <2>2 DEF Index
<1>6. /\ t \in Storage /\ t.log = s.log /\ t.hs = s.hs /\ t.offset = i
  BY <1>1, <1>5 DEF Storage
<1> HIDE DEF t
<1>7. Stored(t) = Stored(s) /\ Whole(r, t) = Whole(r, s) BY <1>6 DEF Stored, Whole
<1>8. Now(r, t) = Now(r, s) BY <1>7 DEF Now
<1>9. NodeOK(h, r, t)
  <2>1. NodeOK(h, r, s) BY DEF Fits
  <2> QED BY <1>6, <1>8, <2>1 DEF NodeOK
<1>10. StorageOK(h, r, t)
  <2>1. Good(h, Stored(s)) BY FitsIs
  <2> QED BY <1>5, <1>6, <1>7, <2>1 DEF StorageOK
<1>11. Past(h, t, R, A, D, X)
  <2>1. Past(h, s, R, A, D, X) BY DEF Fits
  <2> QED BY <1>7, <2>1 DEF Past
<1>12. Present(h, r, t, R, A, D, X)
  <2>1. Present(h, r, s, R, A, D, X) BY DEF Fits
  <2> QED BY <1>7, <1>8, <2>1 DEF Present, Ahead, Owed, Settled
<1>13. Applies(r, Whole(r, t), ps, rs, m, X) BY <1>7 DEF Fits
<1>14. Kept(h, t, R, m, acked) BY <1>5, <1>6 DEF Kept
<1> QED BY <1>6, <1>7, <1>9, <1>10, <1>11, <1>12, <1>13, <1>14 DEF Fits, t

\* newRaft on what the storage holds.
LEMMA NewLogIs ==
    ASSUME NEW h, NEW s \in Storage, s.offset <= s.hs.Commit, Good(h, Stored(s))
    PROVE  LET r == newLog(s)
           IN  /\ r \in Node /\ ~r.panic /\ UnstableOK(r.u)
               /\ r.u.entries = <<>> /\ r.u.snapshot = None /\ ~r.u.snapshotInProgress
               /\ r.u.offset = Len(s.log) + 1 /\ r.u.offsetInProgress = Len(s.log) + 1
               /\ r.committed = s.hs.Commit /\ r.applying = s.offset /\ r.applied = s.offset
               /\ r.Term = s.hs.Term /\ r.after = <<>> /\ nextEntries(r.u) = <<>>
<1> DEFINE r == newLog(s)
           l == Len(s.log)
           o == l + 1
           c == s.hs.Commit
           f == s.offset
           u == [entries |-> <<>>, offset |-> o, offsetInProgress |-> o,
                 snapshot |-> None, snapshotInProgress |-> FALSE]
           p == c \notin f..l
<1>1. /\ l \in Nat /\ f \in Nat /\ f \in Index /\ c \in Nat /\ c \in Index
      /\ s.hs.Term \in Term /\ s.hs \in HardState
  BY StorageIs
<1>2. ~p
  <2>1. c <= l
    <3>1. Stored(s).Commit = c /\ Stored(s).log = s.log BY DEF Stored
    <3> QED BY <3>1 DEF Good
  <2> HIDE DEF c, f, l
  <2>2. f <= c BY DEF f, c
  <2>3. c \in f..l BY <1>1, <2>1, <2>2
  <2> QED BY <2>3
<1>3. r = [u |-> u, committed |-> c, applying |-> f, applied |-> f,
           applyingSize |-> 0, applyingPaused |-> FALSE, Term |-> s.hs.Term,
           after |-> <<>>, prev |-> s.hs, panic |-> p]
  BY DEF newLog
<1>4. u \in Unstable
  <2>1. <<>> \in Log /\ None \in Log BY DEF None, Log
  <2>2. o \in Nat \ {0} BY <1>1
  <2> HIDE DEF o
  <2> QED BY <2>1, <2>2 DEF Unstable
<1>5. UnstableOK(u)
  <2>1. ~IsSnapshot(u.snapshot) BY DEF IsSnapshot
  <2>2. u.offset = o /\ u.offsetInProgress = o /\ u.entries = <<>> OBVIOUS
  <2>3. ~u.snapshotInProgress OBVIOUS
  <2>4. o <= o /\ o <= o + Len(<<>>) BY <1>1
  <2> HIDE DEF o, u
  <2>5. u.offset <= u.offsetInProgress /\ u.offsetInProgress <= u.offset + Len(u.entries)
    BY <2>2, <2>4
  <2> QED BY <1>4, <2>1, <2>3, <2>5 DEF UnstableOK
<1>6. nextEntries(u) = <<>>
  <2>1. nextEntries(u) = SubSeq(<<>>, o - o + 1, 0) BY DEF nextEntries
  <2>2. o - o + 1 = 1 BY <1>1
  <2> QED BY <2>1, <2>2
<1>7. p \in BOOLEAN /\ <<>> \in Seq(Ack) OBVIOUS
<1>8. u.entries = <<>> /\ u.snapshot = None /\ ~u.snapshotInProgress /\ u.offset = o /\ u.offsetInProgress = o
  OBVIOUS
<1> HIDE DEF u, p, c, f, r
<1>9. r \in Node BY <1>1, <1>3, <1>4, <1>7 DEF Node
<1> QED BY <1>2, <1>3, <1>5, <1>6, <1>8, <1>9 DEF r, c, f

LEMMA NewLogKeeps ==
    ASSUME NEW h, IsHistory(h), NEW s \in Storage, s.offset <= s.hs.Commit, Good(h, Stored(s))
    PROVE  LET r == newLog(s)
               m == SubSeq(s.log, 1, s.offset)
           IN  /\ Whole(r, s) = s.log /\ Len(m) = s.offset /\ Agree(m, s.log, s.offset) /\ m \in Log
               /\ \E D, X : Fits(h, r, s, <<>>, <<>>, <<>>, <<>>, m, D, X)
<1> DEFINE r == newLog(s)
           f == s.offset
           m == SubSeq(s.log, 1, f)
           l == Len(s.log)
           c == s.hs.Commit
           x == Stored(s)
           X == <<x>>
<1>1. /\ s.log \in Log /\ l \in Nat /\ f \in Nat /\ c \in Nat /\ f <= c /\ c <= l
  <2>1. x.Commit = c /\ x.log = s.log BY DEF Stored
  <2> QED BY <2>1, StorageIs DEF Good
<1>2. /\ r \in Node /\ ~r.panic /\ UnstableOK(r.u)
      /\ r.u.entries = <<>> /\ r.u.snapshot = None /\ ~r.u.snapshotInProgress
      /\ r.u.offset = l + 1 /\ r.u.offsetInProgress = l + 1
      /\ r.committed = c /\ r.applying = f /\ r.applied = f
      /\ r.Term = s.hs.Term /\ r.after = <<>> /\ nextEntries(r.u) = <<>>
  BY NewLogIs
<1> HIDE DEF r
<1>3. f <= l /\ f \in 0..l
  <2> HIDE DEF f, c, l
  <2> QED BY <1>1
<1>4. m \in Log /\ Len(m) = f /\ Agree(m, s.log, f) BY <1>1, <1>3, PrefixOf
<1> HIDE DEF m
<1>5. ~IsSnapshot(r.u.snapshot) BY <1>2 DEF IsSnapshot
<1>6. Whole(r, s) = s.log
  <2>1. l + 1 - 1 = l /\ l \in 0..l BY <1>1
  <2>2. Whole(r, s) = SubSeq(s.log, 1, l) \o <<>> BY <1>2, <1>5, <2>1 DEF Whole
  <2>3. <<>> \in Log /\ l = l + Len(<<>>) BY <1>1 DEF Log
  <2>4. Agree(s.log, s.log, l) BY <1>1, AgreeSame
  <2>5. s.log = SubSeq(s.log, 1, l) \o <<>> BY <1>1, <2>1, <2>3, <2>4, JoinIs
  <2> QED BY <2>2, <2>5
<1>7. Now(r, s) = x BY <1>2, <1>6 DEF Now, Stored
<1>8. /\ X \in Seq(Point) /\ Len(X) = 1 /\ X[1] = x /\ x \in Point
  <2>1. x \in Point BY DEF Good
  <2> QED BY <2>1
<1> HIDE DEF X, x
<1>9. NodeOK(h, r, s)
  <2>1. l + 1 - 1 <= l BY <1>1
  <2>2. Supports(h, x, <<>>) BY DEF Supports
  <2>3. f <= f /\ f <= c BY <1>1
  <2>4. Good(h, x) BY DEF x
  <2> HIDE DEF l, f, c
  <2> QED BY <1>2, <1>5, <1>7, <2>1, <2>2, <2>3, <2>4 DEF NodeOK, l
<1>10. StorageOK(h, r, s)
  <2>1. f <= f BY <1>1
  <2> QED BY <1>2, <2>1 DEF StorageOK
<1>11. Past(h, s, <<>>, <<>>, <<>>, X)
  <2>1. Good(h, x) BY DEF x
  <2>2. \A i \in 1..Len(X) : X[i] = x
    <3> SUFFICES ASSUME NEW i \in 1..Len(X) PROVE X[i] = x OBVIOUS
    <3>1. i = 1 BY <1>8
    <3> QED BY <1>8, <3>1
  <2>3. \A i, j \in 1..Len(X) : ~(i < j) BY <1>8
  <2> QED BY <1>8, <2>1, <2>2, <2>3 DEF Past, x
<1>12. \A i \in 1..Len(X) : X[i] = x
  <2> SUFFICES ASSUME NEW i \in 1..Len(X) PROVE X[i] = x OBVIOUS
  <2>1. i = 1 BY <1>8
  <2> QED BY <1>8, <2>1
<1>13. Good(h, x) /\ x.log = s.log BY DEF x, Stored
<1>14. Ahead(h, r, s, X) BY <1>7, <1>12, <1>13, LaterRefl DEF Ahead
<1>15. Owed(r, s, X)
  <2>1. nextSnapshot(r) = None BY <1>2 DEF nextSnapshot
  <2>2. Writes(x, None, l + 1, <<>>, x) BY DEF Writes, IsSnapshot
  <2> QED BY <1>2, <1>7, <1>8, <2>1, <2>2 DEF Owed
<1>16. Settled(r, s, X)
  <2>1. l + 1 - 1 = l BY <1>1
  <2>2. Agree(s.log, s.log, f) /\ Agree(s.log, s.log, l) BY <1>1, <1>3, AgreeSame
  <2> QED BY <1>2, <1>6, <1>12, <1>13, <2>1, <2>2 DEF Settled
<1>17. Carried(r, <<>>, <<>>) /\ Expected(r, <<>>) /\ Lacked(r, <<>>) /\ Lacked(r, X)
  BY <1>2, <1>5 DEF Carried, Expected, Lacked
<1>18. Applies(r, Whole(r, s), <<>>, <<>>, m, X)
  <2>1. f <= c /\ f <= f BY <1>1
  <2>2. Agree(m, s.log, Len(m)) BY <1>4
  <2> HIDE DEF f, c
  <2> QED BY <1>2, <1>4, <1>6, <1>12, <1>13, <2>1, <2>2 DEF Applies
<1>19. Fits(h, r, s, <<>>, <<>>, <<>>, <<>>, m, <<>>, X)
  BY <1>9, <1>10, <1>11, <1>14, <1>15, <1>16, <1>17, <1>18 DEF Fits, Present
<1> QED BY <1>4, <1>6, <1>19 DEF r, m

\* What the state machine holds is committed, and on disk.
LEMMA MachineIs ==
    ASSUME NEW h, IsHistory(h), NEW r, NEW s, NEW R, NEW A, NEW ps, NEW rs, NEW m, NEW D, NEW X,
           Fits(h, r, s, R, A, ps, rs, m, D, X)
    PROVE  /\ m \in Log /\ Len(m) \in Nat /\ Len(m) <= r.committed
           /\ Agree(m, Whole(r, s), Len(m)) /\ Agree(m, s.log, Len(m))
           /\ IsPrefix(m, SubSeq(Whole(r, s), 1, r.committed)) /\ IsPrefix(m, s.log)
<1> DEFINE w == Whole(r, s)
           c == r.committed
           p == SubSeq(w, 1, c)
           k == Len(m)
<1>1. /\ m \in Log /\ k <= c /\ Agree(m, w, k) /\ \A i \in 1..Len(X) : Agree(m, X[i].log, k)
  <2>1. Applies(r, w, ps, rs, m, X) BY DEF Fits
  <2> QED BY <2>1 DEF Applies
<1>2. /\ r \in Node /\ s \in Storage /\ w \in Log /\ Len(w) \in Nat /\ c <= Len(w)
      /\ X[1] = Stored(s) /\ 1 \in 1..Len(X)
  BY FitsIs, PointsInOrder
<1>3. k \in Nat /\ c \in Nat /\ s.log \in Log
  BY <1>1, <1>2, LenProperties, NodeIs, StorageIs DEF Log
<1>4. Agree(m, s.log, k)
  <2>1. X[1].log = s.log BY <1>2 DEF Stored
  <2> QED BY <1>1, <1>2, <2>1
<1> HIDE DEF w, c
<1>5. c \in 0..Len(w) BY <1>2, <1>3
<1>6. p \in Log /\ Len(p) = c /\ Agree(p, w, c) BY <1>2, <1>5, PrefixOf
<1> HIDE DEF p
<1>7. Agree(m, p, k)
  <2>1. Len(p) \in Nat BY <1>3, <1>6
  <2>2. Agree(p, w, k) BY <1>1, <1>2, <1>3, <1>6, <2>1, AgreeLess
  <2> QED BY <1>1, <2>2, AgreeSym, AgreeTrans
<1> QED BY <1>1, <1>3, <1>4, <1>6, <1>7, PrefixAgrees DEF w, c, p

----------------------------------------------------------------------------
(* The steps *)

LEMMA HistoryIs == leaders \in Histories => IsHistory(leaders)
BY LogAssumption

LEMMA ViewIs ==
    /\ View = Whole(n, st)
    /\ View' = Whole(n', st')
BY DEF View, Whole

LEMMA SamePrefix ==
    ASSUME NEW a, NEW b
    PROVE  Abstract!IsPrefix(a, b) <=> IsPrefix(a, b)
BY DEF IsPrefix, Abstract!IsPrefix

\* A move of the node alone that keeps what is committed.
LEMMA MoveKeeps ==
    ASSUME LogInvariant, NEW r, NodeMoves(r),
           \A D, X : Fits(leaders, n, st, resps.append, appends, applies, resps.apply, sm, D, X) =>
             /\ Fits(leaders, r, st, resps.append, appends, applies, resps.apply, sm, D, X)
             /\ Later(leaders, Now(n, st), Now(r, st))
    PROVE  LogInvariant' /\ Abstract!Change
<1> DEFINE a == Now(n, st)
           b == Now(r, st)
<1>1. /\ n' = r /\ st' = st /\ appends' = appends /\ applies' = applies /\ resps' = resps
      /\ sm' = sm /\ acks' = acks /\ leaders' = leaders
  BY DEF NodeMoves
<1>2. IsHistory(leaders) BY HistoryIs DEF LogInvariant
<1>3. PICK D, X : Fits(leaders, n, st, resps.append, appends, applies, resps.apply, sm, D, X)
  BY DEF LogInvariant
<1>4. /\ Fits(leaders, r, st, resps.append, appends, applies, resps.apply, sm, D, X)
      /\ Later(leaders, a, b)
  BY <1>3
<1>5. Good(leaders, a) /\ Good(leaders, b) BY <1>2, <1>3, <1>4, FitsIs
<1>6. LogInvariant' BY <1>1, <1>4 DEF LogInvariant
<1>7. /\ a.log = View /\ a.Commit = n.committed
      /\ b.log = View' /\ b.Commit = (n.committed)'
  BY <1>1, ViewIs DEF Now
<1> HIDE DEF a, b
<1>8. /\ a.log \in Log /\ b.log \in Log /\ a.Commit \in 0..Len(a.log) /\ b.Commit \in Nat
      /\ b.Commit <= Len(b.log) /\ a.Commit <= b.Commit /\ a.Commit \in Nat
  BY <1>4, <1>5, PointIs DEF Later
<1>9. Agree(a.log, b.log, a.Commit) BY <1>2, <1>4, <1>5, LaterCommitted
<1>10. IsPrefix(SubSeq(a.log, 1, a.Commit), b.log) BY <1>8, <1>9, CutAgrees
<1>11. b.Commit \in a.Commit..Len(b.log)
  <2> DEFINE i == a.Commit
             j == b.Commit
  <2>1. i \in Nat /\ j \in Nat /\ i <= j /\ j <= Len(b.log) /\ Len(b.log) \in Nat
    BY <1>5, <1>8, PointIs
  <2> HIDE DEF i, j
  <2>2. j \in i..Len(b.log) BY <2>1
  <2> QED BY <2>2 DEF i, j
<1>12. Abstract!Change
  <2>1. View' \in Seq(Term) /\ (n.committed)' \in n.committed..Len(View')
    BY <1>7, <1>8, <1>11 DEF Log
  <2>2. Abstract!IsPrefix(SubSeq(View, 1, n.committed), View') BY <1>7, <1>10, SamePrefix
  <2>3. UNCHANGED <<st.log, sm>> BY <1>1
  <2> QED BY <2>1, <2>2, <2>3 DEF Abstract!Change, Abstract!Committed
<1> QED BY <1>6, <1>12

\* The messages of the leaders.
LEMMA ReceiveAppStep ==
    ASSUME LogInvariant, ReceiveApp
    PROVE  LogInvariant' /\ Abstract!Change
<1> DEFINE h == leaders
<1>1. PICK t \in 1..MaxTerm : FromLeader(t) /\
        \E index \in 0..Len(h[t].log), count \in 0..MaxBatch, commit \in 0..h[t].commit :
          /\ index + count <= Len(h[t].log)
          /\ NodeMoves(handleAppendEntries(adoptTerm(n, t), st,
               [index |-> index, commit |-> commit,
                logTerm |-> IF index = 0 THEN 0 ELSE h[t].log[index],
                entries |-> SubSeq(h[t].log, index + 1, index + count)]))
  BY DEF ReceiveApp
<1>2. PICK i \in 0..Len(h[t].log), l \in 0..MaxBatch, c \in 0..h[t].commit :
          /\ i + l <= Len(h[t].log)
          /\ NodeMoves(handleAppendEntries(adoptTerm(n, t), st,
               [index |-> i, commit |-> c,
                logTerm |-> IF i = 0 THEN 0 ELSE h[t].log[i],
                entries |-> SubSeq(h[t].log, i + 1, i + l)]))
  BY <1>1
<1>3. IsHistory(h) BY HistoryIs DEF LogInvariant
<1>4. n.Term <= t /\ h[t].log # <<>> /\ l \in Nat
  <2>1. t >= n.Term /\ h[t].log # <<>> BY <1>1 DEF FromLeader
  <2>2. n.Term \in Nat
    <3>1. PICK D, X : Fits(h, n, st, resps.append, appends, applies, resps.apply, sm, D, X)
      BY DEF LogInvariant
    <3> QED BY <1>3, <3>1, FitsIs, NodeIs
  <2> QED BY <2>1, <2>2
<1> DEFINE q == handleAppendEntries(adoptTerm(n, t), st,
                  [index |-> i, commit |-> c,
                   logTerm |-> IF i = 0 THEN 0 ELSE h[t].log[i],
                   entries |-> SubSeq(h[t].log, i + 1, i + l)])
<1>5. ASSUME NEW D, NEW X, Fits(h, n, st, resps.append, appends, applies, resps.apply, sm, D, X)
      PROVE  /\ Fits(h, q, st, resps.append, appends, applies, resps.apply, sm, D, X)
             /\ Later(h, Now(n, st), Now(q, st))
  BY <1>2, <1>3, <1>4, <1>5, HandleAppendKeeps
<1>6. NodeMoves(q) BY <1>2
<1> HIDE DEF q
<1> QED BY <1>5, <1>6, MoveKeeps

LEMMA ReceiveHeartbeatStep ==
    ASSUME LogInvariant, ReceiveHeartbeat
    PROVE  LogInvariant' /\ Abstract!Change
<1> DEFINE h == leaders
<1>1. PICK t \in 1..MaxTerm : FromLeader(t) /\
        \E commit \in 1..h[t].commit :
          commit <= acks[t] /\ NodeMoves(commitTo(adoptTerm(n, t), st, commit))
  BY DEF ReceiveHeartbeat
<1>2. PICK c \in 1..h[t].commit : c <= acks[t] /\ NodeMoves(commitTo(adoptTerm(n, t), st, c))
  BY <1>1
<1>3. IsHistory(h) /\ Kept(h, st, resps.append, sm, acks) BY HistoryIs DEF LogInvariant
<1>4. n.Term <= t
  <2>1. t >= n.Term BY <1>1 DEF FromLeader
  <2>2. n.Term \in Nat
    <3>1. PICK D, X : Fits(h, n, st, resps.append, appends, applies, resps.apply, sm, D, X)
      BY DEF LogInvariant
    <3> QED BY <1>3, <3>1, FitsIs, NodeIs
  <2> QED BY <2>1, <2>2
<1> DEFINE q == commitTo(adoptTerm(n, t), st, c)
<1>5. ASSUME NEW D, NEW X, Fits(h, n, st, resps.append, appends, applies, resps.apply, sm, D, X)
      PROVE  /\ Fits(h, q, st, resps.append, appends, applies, resps.apply, sm, D, X)
             /\ Later(h, Now(n, st), Now(q, st))
  BY <1>2, <1>3, <1>4, <1>5, HandleHeartbeatKeeps
<1>6. NodeMoves(q) BY <1>2
<1> HIDE DEF q
<1> QED BY <1>5, <1>6, MoveKeeps

LEMMA ReceiveSnapshotStep ==
    ASSUME LogInvariant, ReceiveSnapshot
    PROVE  LogInvariant' /\ Abstract!Change
<1> DEFINE h == leaders
<1>1. PICK t \in 1..MaxTerm : FromLeader(t) /\
        \E index \in 1..h[t].commit :
          NodeMoves(handleSnapshot(adoptTerm(n, t), st, SubSeq(h[t].log, 1, index)))
  BY DEF ReceiveSnapshot
<1>2. PICK i \in 1..h[t].commit :
        NodeMoves(handleSnapshot(adoptTerm(n, t), st, SubSeq(h[t].log, 1, i)))
  BY <1>1
<1>3. IsHistory(h) BY HistoryIs DEF LogInvariant
<1>4. n.Term <= t /\ h[t].log # <<>>
  <2>1. t >= n.Term /\ h[t].log # <<>> BY <1>1 DEF FromLeader
  <2>2. n.Term \in Nat
    <3>1. PICK D, X : Fits(h, n, st, resps.append, appends, applies, resps.apply, sm, D, X)
      BY DEF LogInvariant
    <3> QED BY <1>3, <3>1, FitsIs, NodeIs
  <2> QED BY <2>1, <2>2
<1> DEFINE q == handleSnapshot(adoptTerm(n, t), st, SubSeq(h[t].log, 1, i))
<1>5. ASSUME NEW D, NEW X, Fits(h, n, st, resps.append, appends, applies, resps.apply, sm, D, X)
      PROVE  /\ Fits(h, q, st, resps.append, appends, applies, resps.apply, sm, D, X)
             /\ Later(h, Now(n, st), Now(q, st))
  BY <1>3, <1>4, <1>5, HandleSnapshotKeeps
<1>6. NodeMoves(q) BY <1>2
<1> HIDE DEF q
<1> QED BY <1>5, <1>6, MoveKeeps

LEMMA NewTermStep ==
    ASSUME LogInvariant, NewTerm
    PROVE  LogInvariant' /\ Abstract!Change
<1> DEFINE h == leaders
           t == n.Term + 1
           q == adoptTerm(n, t)
<1>1. n.Term < MaxTerm /\ NodeMoves(q) BY DEF NewTerm
<1>2. IsHistory(h) BY HistoryIs DEF LogInvariant
<1>3. n.Term \in Nat
  <2>1. PICK D, X : Fits(h, n, st, resps.append, appends, applies, resps.apply, sm, D, X)
    BY DEF LogInvariant
  <2> QED BY <1>2, <2>1, FitsIs, NodeIs
<1>4. t \in Term /\ n.Term <= t BY <1>1, <1>3, Bounds DEF Term
<1> HIDE DEF t
<1>5. ASSUME NEW D, NEW X, Fits(h, n, st, resps.append, appends, applies, resps.apply, sm, D, X)
      PROVE  /\ Fits(h, q, st, resps.append, appends, applies, resps.apply, sm, D, X)
             /\ Later(h, Now(n, st), Now(q, st))
  BY <1>2, <1>4, <1>5, AdoptKeeps
<1> HIDE DEF q
<1> QED BY <1>1, <1>5, MoveKeeps

\* Ready, and the responses, are not seen in the log.
LEMMA ReadyStep ==
    ASSUME LogInvariant, Ready
    PROVE  LogInvariant' /\ UNCHANGED Abstract!vars
<1> DEFINE q == acceptReady(n)
           B == IF needStorageAppendMsg(n) THEN Append(appends, newStorageAppendMsg(n, st)) ELSE appends
           bs == IF nextCommitted(n).to >= nextCommitted(n).from
                 THEN Append(applies, newStorageApplyMsg(n, st)) ELSE applies
<1>1. /\ n' = q /\ appends' = B /\ applies' = bs
      /\ st' = st /\ resps' = resps /\ sm' = sm /\ acks' = acks /\ leaders' = leaders
  BY DEF Ready
<1>2. IsHistory(leaders) BY HistoryIs DEF LogInvariant
<1>3. PICK D, X : Fits(leaders, n, st, resps.append, appends, applies, resps.apply, sm, D, X)
  BY DEF LogInvariant
<1>4. /\ Whole(q, st) = Whole(n, st) /\ q.committed = n.committed
      /\ \E Y : Fits(leaders, q, st, resps.append, B, bs, resps.apply, sm, D, Y)
  BY <1>2, <1>3, ReadyKeeps
<1> HIDE DEF q, B, bs
<1>5. LogInvariant' BY <1>1, <1>4 DEF LogInvariant
<1>6. UNCHANGED Abstract!vars
  <2>1. View' = View BY <1>1, <1>4, ViewIs
  <2>2. (n.committed)' = n.committed /\ (st.log)' = st.log /\ sm' = sm BY <1>1, <1>4
  <2> QED BY <2>1, <2>2 DEF Abstract!vars
<1> QED BY <1>5, <1>6

LEMMA AppendRespStep ==
    ASSUME LogInvariant, AppendResp
    PROVE  LogInvariant' /\ UNCHANGED Abstract!vars
<1> DEFINE R == resps.append
           q == handleAppendResp(n, R[1])
<1>1. /\ R # <<>> /\ n' = handleAppendResp(n, Head(R)) /\ resps' = [resps EXCEPT !.append = Tail(R)]
      /\ st' = st /\ appends' = appends /\ applies' = applies
      /\ sm' = sm /\ acks' = acks /\ leaders' = leaders
  BY DEF AppendResp
<1>2. /\ IsHistory(leaders) /\ resps = [append |-> R, apply |-> resps.apply]
      /\ leaders \in Histories /\ Kept(leaders, st, R, sm, acks)
  BY HistoryIs DEF LogInvariant
<1>3. PICK D, X : Fits(leaders, n, st, R, appends, applies, resps.apply, sm, D, X)
  BY DEF LogInvariant
<1>4. /\ Fits(leaders, q, st, Tail(R), appends, applies, resps.apply, sm, Tail(D), X)
      /\ Whole(q, st) = Whole(n, st) /\ q.committed = n.committed
  BY <1>1, <1>2, <1>3, AppendRespKeeps
<1>5. resps' = [append |-> Tail(R), apply |-> resps.apply] BY <1>1, <1>2
<1>6. resps'.append = Tail(R) /\ resps'.apply = resps.apply BY <1>5
<1>7. n' = q BY <1>1
<1>8. Kept(leaders, st, Tail(R), sm, acks)
  <2>1. R \in Seq(AppendMsg) BY <1>3 DEF Fits, Past
  <2>2. \A i \in 1..Len(Tail(R)) : i + 1 \in 1..Len(R) /\ Tail(R)[i] = R[i + 1] BY <1>1, <2>1, Tailed
  <2>3. ASSUME NEW i \in 1..Len(Tail(R)) PROVE Len(Tail(R)[i].snapshot) <= Len(sm)
    <3> DEFINE k == i + 1
    <3>1. k \in 1..Len(R) /\ Tail(R)[i] = R[k] BY <2>2
    <3> HIDE DEF k
    <3> QED BY <1>2, <3>1 DEF Kept
  <2> QED BY <1>2, <2>3 DEF Kept
<1> HIDE DEF q, R
<1>9. LogInvariant' BY <1>1, <1>2, <1>4, <1>5, <1>6, <1>7, <1>8 DEF LogInvariant
<1>10. UNCHANGED Abstract!vars
  <2>1. View' = View BY <1>1, <1>4, <1>7, ViewIs
  <2>2. (n.committed)' = n.committed /\ (st.log)' = st.log /\ sm' = sm BY <1>1, <1>4, <1>7
  <2> QED BY <2>1, <2>2 DEF Abstract!vars
<1> QED BY <1>9, <1>10

LEMMA ApplyRespStep ==
    ASSUME LogInvariant, ApplyResp
    PROVE  LogInvariant' /\ UNCHANGED Abstract!vars
<1> DEFINE Q == resps.apply
           q == appliedTo(n, Q[1].index, Q[1].size)
<1>1. /\ Q # <<>> /\ n' = appliedTo(n, Head(Q).index, Head(Q).size)
      /\ resps' = [resps EXCEPT !.apply = Tail(Q)]
      /\ st' = st /\ appends' = appends /\ applies' = applies
      /\ sm' = sm /\ acks' = acks /\ leaders' = leaders
  BY DEF ApplyResp
<1>2. /\ IsHistory(leaders) /\ resps = [append |-> resps.append, apply |-> Q]
      /\ leaders \in Histories /\ Kept(leaders, st, resps.append, sm, acks)
  BY HistoryIs DEF LogInvariant
<1>3. PICK D, X : Fits(leaders, n, st, resps.append, appends, applies, Q, sm, D, X)
  BY DEF LogInvariant
<1>4. /\ Fits(leaders, q, st, resps.append, appends, applies, Tail(Q), sm, D, X)
      /\ Whole(q, st) = Whole(n, st) /\ q.committed = n.committed
  BY <1>1, <1>2, <1>3, ApplyRespKeeps
<1>5. resps' = [append |-> resps.append, apply |-> Tail(Q)] BY <1>1, <1>2
<1>6. resps'.append = resps.append /\ resps'.apply = Tail(Q) BY <1>5
<1>7. n' = q BY <1>1
<1> HIDE DEF q, Q
<1>8. LogInvariant' BY <1>1, <1>2, <1>4, <1>5, <1>6, <1>7 DEF LogInvariant
<1>9. UNCHANGED Abstract!vars
  <2>1. View' = View BY <1>1, <1>4, <1>7, ViewIs
  <2>2. (n.committed)' = n.committed /\ (st.log)' = st.log /\ sm' = sm BY <1>1, <1>4, <1>7
  <2> QED BY <2>1, <2>2 DEF Abstract!vars
<1> QED BY <1>8, <1>9

LEMMA CompactStep ==
    ASSUME LogInvariant, Compact
    PROVE  LogInvariant' /\ UNCHANGED Abstract!vars
<1>1. PICK i \in (st.offset + 1)..Least(n.applied, st.hs.Commit) : st' = [st EXCEPT !.offset = i]
  BY DEF Compact
<1>2. /\ n' = n /\ appends' = appends /\ applies' = applies /\ resps' = resps
      /\ sm' = sm /\ acks' = acks /\ leaders' = leaders
  BY DEF Compact
<1>3. /\ IsHistory(leaders) /\ Kept(leaders, st, resps.append, sm, acks)
      /\ leaders \in Histories /\ resps = [append |-> resps.append, apply |-> resps.apply]
  BY HistoryIs DEF LogInvariant
<1>4. PICK D, X : Fits(leaders, n, st, resps.append, appends, applies, resps.apply, sm, D, X)
  BY DEF LogInvariant
<1>5. i \in Nat /\ i <= n.applied /\ i <= st.hs.Commit
  <2> DEFINE a == n.applied
             b == st.hs.Commit
             o == st.offset
  <2>1. n \in Node /\ st \in Storage BY <1>3, <1>4, FitsIs
  <2>2. a \in Nat /\ b \in Nat /\ o \in Nat /\ i \in (o + 1)..Least(a, b) BY <2>1, NodeIs, StorageIs
  <2> HIDE DEF a, b, o
  <2>3. i \in Nat /\ i <= a /\ i <= b BY <2>2 DEF Least
  <2> QED BY <2>3 DEF a, b
<1> DEFINE t == [st EXCEPT !.offset = i]
<1>6. /\ Fits(leaders, n, t, resps.append, appends, applies, resps.apply, sm, D, X)
      /\ Kept(leaders, t, resps.append, sm, acks)
      /\ Whole(n, t) = Whole(n, st) /\ t.log = st.log
  BY <1>3, <1>4, <1>5, CompactKeeps
<1>7. st' = t BY <1>1
<1> HIDE DEF t
<1>8. LogInvariant' BY <1>2, <1>3, <1>6, <1>7 DEF LogInvariant
<1>9. UNCHANGED Abstract!vars
  <2>1. View' = View BY <1>2, <1>6, <1>7, ViewIs
  <2>2. (n.committed)' = n.committed /\ (st.log)' = st.log /\ sm' = sm BY <1>2, <1>6, <1>7
  <2> QED BY <2>1, <2>2 DEF Abstract!vars
<1> QED BY <1>8, <1>9

LEMMA AppendThreadStep ==
    ASSUME LogInvariant, AppendThread
    PROVE  LogInvariant' /\ Abstract!Persist
<1> DEFINE R == resps.append
           a == appends[1]
           t == stored(st, a)
           v == installed(sm, a.snapshot)
           B == DoneBy(a, R)
<1>1. /\ appends # <<>> /\ appends' = Tail(appends)
      /\ applies' = applies /\ leaders' = leaders
  BY DEF AppendThread
<1>2. /\ IsHistory(leaders) /\ Kept(leaders, st, R, sm, acks)
      /\ leaders \in Histories /\ resps = [append |-> R, apply |-> resps.apply]
  BY HistoryIs DEF LogInvariant
<1>3. PICK D, X : Fits(leaders, n, st, R, appends, applies, resps.apply, sm, D, X)
  BY DEF LogInvariant
<1>4. /\ ~MissesEntries(ApplySnapshot(st, a.snapshot), a.first, a.entries)
      /\ Whole(n, t) = Whole(n, st) /\ Agree(sm, v, Len(sm))
      /\ Kept(leaders, t, B, v, acknowledged(a))
      /\ \E E, Y : Fits(leaders, n, t, B, Tail(appends), applies, resps.apply, v, E, Y)
  BY <1>1, <1>2, <1>3, AppendThreadKeeps
<1>5. Head(appends) = a
  <2>1. appends \in Seq(AppendMsg) BY <1>3 DEF Fits, Past
  <2> QED BY <1>1, <2>1, Tailed
<1>6. /\ st' = t /\ sm' = v /\ acks' = acknowledged(a)
      /\ n' = IF MissesEntries(ApplySnapshot(st, a.snapshot), a.first, a.entries) THEN Panic(n) ELSE n
      /\ resps' = IF a.responds THEN [resps EXCEPT !.append = Append(R, a)] ELSE resps
  BY <1>5 DEF AppendThread, stored, installed
<1>7. n' = n BY <1>4, <1>6
<1>8. resps' = [append |-> B, apply |-> resps.apply] BY <1>2, <1>6 DEF DoneBy
<1>9. resps'.append = B /\ resps'.apply = resps.apply BY <1>8
<1>10. PICK E, Y : Fits(leaders, n, t, B, Tail(appends), applies, resps.apply, v, E, Y) BY <1>4
<1>11. /\ v \in Log /\ sm \in Log /\ t.log \in Log
       /\ IsPrefix(v, SubSeq(Whole(n, t), 1, n.committed)) /\ IsPrefix(v, t.log)
  <2> HIDE DEF v, t, B
  <2>1. v \in Log /\ sm \in Log BY <1>2, <1>3, <1>10, MachineIs
  <2>2. t \in Storage BY <1>2, <1>10, FitsIs
  <2>3. t.log \in Log BY <2>2, StorageIs
  <2> QED BY <1>2, <1>10, <2>1, <2>3, MachineIs
<1> HIDE DEF v, t, B, R
<1>12. LogInvariant'
  <2>1. leaders' = leaders /\ st' = t /\ sm' = v /\ n' = n /\ appends' = Tail(appends) /\ applies' = applies
    BY <1>1, <1>6, <1>7
  <2> QED BY <1>2, <1>4, <1>6, <1>8, <1>9, <1>10, <2>1 DEF LogInvariant
<1>13. IsPrefix(sm, v) BY <1>4, <1>11, PrefixAgrees
<1>14. Abstract!Persist
  <2>1. View' = View /\ View = Whole(n, t) /\ (n.committed)' = n.committed BY <1>4, <1>6, <1>7, ViewIs
  <2>2. (st.log)' \in Seq(Term) /\ sm' \in Seq(Term) BY <1>6, <1>11 DEF Log
  <2>3. Abstract!IsPrefix(sm, sm') BY <1>6, <1>13, SamePrefix
  <2>4. Abstract!IsPrefix(sm', SubSeq(View, 1, n.committed)) BY <1>6, <1>11, <2>1, SamePrefix
  <2>5. Abstract!IsPrefix(sm', (st.log)') BY <1>6, <1>11, SamePrefix
  <2> QED BY <2>1, <2>2, <2>3, <2>4, <2>5 DEF Abstract!Persist, Abstract!Committed
<1> QED BY <1>12, <1>14

LEMMA ApplyThreadStep ==
    ASSUME LogInvariant, ApplyThread
    PROVE  LogInvariant' /\ Abstract!Apply
<1> DEFINE Q == resps.apply
           a == applies[1]
           v == applied(sm, a)
           l == a.first + Len(a.entries) - 1
           res == [index |-> l, size |-> Len(a.entries)]
           T == Append(Q, res)
<1>1. /\ applies # <<>> /\ applies' = Tail(applies)
      /\ n' = n /\ st' = st /\ appends' = appends /\ acks' = acks /\ leaders' = leaders
  BY DEF ApplyThread
<1>2. /\ IsHistory(leaders) /\ Kept(leaders, st, resps.append, sm, acks)
      /\ leaders \in Histories /\ resps = [append |-> resps.append, apply |-> Q]
  BY HistoryIs DEF LogInvariant
<1>3. PICK D, X : Fits(leaders, n, st, resps.append, appends, applies, Q, sm, D, X)
  BY DEF LogInvariant
<1>4. /\ Fits(leaders, n, st, resps.append, appends, Tail(applies), T, v, D, X)
      /\ Agree(sm, v, Len(sm)) /\ Kept(leaders, st, resps.append, v, acks)
  BY <1>1, <1>2, <1>3, ApplyThreadKeeps
<1>5. Head(applies) = a
  <2>1. applies \in Seq(ApplyMsg) BY <1>3 DEF Fits, Applies
  <2> QED BY <1>1, <2>1, Tailed
<1>6. sm' = v /\ resps' = [resps EXCEPT !.apply = T] BY <1>5 DEF ApplyThread, applied
<1>7. resps' = [append |-> resps.append, apply |-> T] BY <1>2, <1>6
<1>8. resps'.append = resps.append /\ resps'.apply = T BY <1>7
<1>9. /\ v \in Log /\ sm \in Log
      /\ IsPrefix(v, SubSeq(Whole(n, st), 1, n.committed)) /\ IsPrefix(v, st.log)
  <2> HIDE DEF v, T
  <2> QED BY <1>2, <1>3, <1>4, MachineIs
<1> HIDE DEF v, T, Q
<1>10. LogInvariant' BY <1>1, <1>2, <1>4, <1>6, <1>7, <1>8 DEF LogInvariant
<1>11. IsPrefix(sm, v) BY <1>4, <1>9, PrefixAgrees
<1>12. Abstract!Apply
  <2>1. View' = View /\ View = Whole(n, st) /\ (n.committed)' = n.committed /\ (st.log)' = st.log
    BY <1>1, ViewIs
  <2>2. sm' \in Seq(Term) BY <1>6, <1>9 DEF Log
  <2>3. Abstract!IsPrefix(sm, sm') BY <1>6, <1>11, SamePrefix
  <2>4. Abstract!IsPrefix(sm', SubSeq(View, 1, n.committed)) BY <1>6, <1>9, <2>1, SamePrefix
  <2>5. Abstract!IsPrefix(sm', st.log) BY <1>6, <1>9, SamePrefix
  <2> QED BY <2>1, <2>2, <2>3, <2>4, <2>5 DEF Abstract!Apply, Abstract!Committed
<1> QED BY <1>10, <1>12

LEMMA CrashStep ==
    ASSUME LogInvariant, Crash
    PROVE  LogInvariant' /\ Abstract!Crash
<1> DEFINE h == leaders
           r == newLog(st)
           v == SubSeq(st.log, 1, st.offset)
           c == st.hs.Commit
<1>1. /\ n' = r /\ appends' = <<>> /\ applies' = <<>> /\ resps' = [append |-> <<>>, apply |-> <<>>]
      /\ sm' = v /\ st' = st /\ acks' = acks /\ leaders' = leaders
  BY DEF Crash
<1>2. /\ IsHistory(h) /\ h \in Histories /\ Kept(h, st, resps.append, sm, acks)
  BY HistoryIs DEF LogInvariant
<1>3. PICK D, X : Fits(h, n, st, resps.append, appends, applies, resps.apply, sm, D, X)
  BY DEF LogInvariant
<1>4. /\ n \in Node /\ st \in Storage /\ Good(h, Stored(st)) /\ Later(h, Stored(st), Now(n, st))
      /\ st.offset <= c
  BY <1>2, <1>3, FitsIs DEF Fits, StorageOK
<1>5. /\ Whole(r, st) = st.log /\ Len(v) = st.offset /\ Agree(v, st.log, st.offset) /\ v \in Log
      /\ \E E, Y : Fits(h, r, st, <<>>, <<>>, <<>>, <<>>, v, E, Y)
  BY <1>2, <1>4, NewLogKeeps
<1>6. r.committed = c BY <1>2, <1>4, NewLogIs
<1>7. /\ c \in Nat /\ c <= Len(st.log) /\ c <= n.committed /\ n.committed \in Nat
      /\ st.offset \in Nat /\ st.log \in Log
  <2>1. Stored(st).Commit = c /\ Stored(st).log = st.log /\ Now(n, st).Commit = n.committed
    BY DEF Stored, Now
  <2>2. c <= n.committed BY <1>4, <2>1 DEF Later
  <2>3. c <= Len(st.log) BY <1>4, <2>1 DEF Good
  <2> QED BY <1>4, <2>2, <2>3, NodeIs, StorageIs
<1>8. /\ sm \in Log /\ Agree(sm, st.log, Len(sm)) /\ Len(sm) \in Nat BY <1>2, <1>3, MachineIs
<1>9. st.offset <= Len(sm) BY <1>2 DEF Kept
<1>10. Kept(h, st, <<>>, v, acks)
  <2>1. st.offset <= st.offset BY <1>7
  <2> HIDE DEF v
  <2> QED BY <1>2, <1>5, <2>1 DEF Kept
<1> HIDE DEF r, v
<1>11. LogInvariant'
  <2>1. /\ n' = r /\ appends' = <<>> /\ applies' = <<>> /\ sm' = v /\ st' = st /\ acks' = acks
        /\ leaders' = h
        /\ resps'.append = <<>> /\ resps'.apply = <<>>
        /\ resps' = [append |-> <<>>, apply |-> <<>>]
    BY <1>1
  <2>2. PICK E, Y : Fits(h, r, st, <<>>, <<>>, <<>>, <<>>, v, E, Y) BY <1>5
  <2> HIDE DEF h
  <2>3. Kept(leaders', st', resps'.append, sm', acks') BY <1>10, <2>1
  <2>4. Fits(leaders', n', st', resps'.append, appends', applies', resps'.apply, sm', E, Y)
    BY <2>1, <2>2
  <2>5. leaders' \in Histories /\ resps' = [append |-> resps'.append, apply |-> resps'.apply]
    BY <1>2, <2>1
  <2> QED BY <2>3, <2>4, <2>5 DEF LogInvariant
<1>12. Abstract!Crash
  <2>1. View' = st.log /\ (st.log)' = st.log BY <1>1, <1>5, ViewIs
  <2>2. (n.committed)' = c BY <1>1, <1>6
  <2>3. c \in 0..n.committed /\ c <= Len(st.log) BY <1>7
  <2>4. IsPrefix(v, sm)
    <3>1. Len(st.log) \in Nat BY <1>7, LenProperties DEF Log
    <3>2. Agree(sm, st.log, st.offset) BY <1>7, <1>8, <1>9, <3>1, AgreeLess
    <3>3. Agree(v, sm, Len(v)) BY <1>5, <3>2, AgreeSym, AgreeTrans
    <3> QED BY <1>5, <1>8, <3>3, PrefixAgrees
  <2>5. Abstract!IsPrefix(sm', sm) BY <1>1, <2>4, SamePrefix
  <2>6. sm' \in Seq(Term) BY <1>1, <1>5 DEF Log
  <2> HIDE DEF c
  <2> QED BY <2>1, <2>2, <2>3, <2>5, <2>6 DEF Abstract!Crash
<1> QED BY <1>11, <1>12

LEMMA InitStep ==
    ASSUME Init
    PROVE  LogInvariant /\ Abstract!Init
<1> DEFINE h == leaders
           s == InitialStorage
           r == newLog(s)
           v == SubSeq(s.log, 1, s.offset)
<1>1. /\ st = s /\ n = r /\ appends = <<>> /\ applies = <<>> /\ resps = [append |-> <<>>, apply |-> <<>>]
      /\ sm = <<>> /\ acks = [t \in 1..MaxTerm |-> 0] /\ h \in Histories
  BY DEF Init
<1>2. IsHistory(h) BY <1>1, HistoryIs
<1>3. 0 \in Term /\ 0 \in Index BY Bounds DEF Term, Index
<1>4. /\ s \in Storage /\ s.log = <<>> /\ s.offset = 0 /\ s.hs.Commit = 0 /\ s.hs.Term = 0
  <2>1. s.hs = [Term |-> 0, Commit |-> 0] /\ s.hs \in HardState BY <1>3 DEF InitialStorage, HardState
  <2>2. s.log = <<>> /\ s.offset = 0 /\ <<>> \in Log BY DEF InitialStorage, Log
  <2>3. s = [log |-> <<>>, offset |-> 0, hs |-> [Term |-> 0, Commit |-> 0]] BY DEF InitialStorage
  <2>4. s \in Storage BY <1>3, <2>1, <2>2, <2>3 DEF Storage
  <2> QED BY <2>1, <2>2, <2>4
<1> HIDE DEF s
<1>5. Good(h, Stored(s)) /\ s.offset <= s.hs.Commit
  <2> DEFINE x == Stored(s)
  <2>1. x = [log |-> <<>>, Term |-> 0, Commit |-> 0] BY <1>4 DEF Stored
  <2>2. <<>> \in Log /\ True(h, <<>>) BY DEF True, Log
  <2>3. x \in Point BY <1>3, <2>1, <2>2 DEF Point
  <2>4. x.log = <<>> /\ x.Commit = 0 BY <2>1
  <2>5. Sanctioned(h, x.log, x.Term, x.Commit) BY <2>4 DEF Sanctioned
  <2>6. x.Commit <= Len(x.log) BY <2>4
  <2> HIDE DEF x
  <2>7. Good(h, x) BY <2>2, <2>3, <2>4, <2>5, <2>6 DEF Good
  <2> QED BY <1>4, <2>7 DEF x
<1>6. /\ Whole(r, s) = s.log /\ \E D, X : Fits(h, r, s, <<>>, <<>>, <<>>, <<>>, v, D, X)
  BY <1>2, <1>4, <1>5, NewLogKeeps
<1>7. v = <<>> BY <1>4
<1>8. r.committed = 0 BY <1>4, <1>5, NewLogIs
<1>9. Kept(h, s, <<>>, <<>>, acks)
  <2>1. acks \in [1..MaxTerm -> Index] BY <1>1, <1>3
  <2>2. \A t \in 1..MaxTerm : ~(acks[t] > 0) BY <1>1
  <2> QED BY <1>4, <2>1, <2>2 DEF Kept
<1> HIDE DEF r, v
<1>10. LogInvariant
  <2>1. PICK D, X : Fits(h, r, s, <<>>, <<>>, <<>>, <<>>, v, D, X) BY <1>6
  <2>2. resps.append = <<>> /\ resps.apply = <<>> BY <1>1
  <2>3. Fits(h, n, st, resps.append, appends, applies, resps.apply, sm, D, X)
    BY <1>1, <1>7, <2>1, <2>2
  <2>4. Kept(h, st, resps.append, sm, acks) BY <1>1, <1>9, <2>2
  <2>5. resps = [append |-> resps.append, apply |-> resps.apply] BY <1>1, <2>2
  <2> QED BY <1>1, <2>3, <2>4, <2>5 DEF LogInvariant
<1>11. View = <<>> /\ n.committed = 0 /\ st.log = <<>> /\ sm = <<>>
  BY <1>1, <1>4, <1>6, <1>8, ViewIs
<1> QED BY <1>10, <1>11 DEF Abstract!Init

LEMMA StutterStep ==
    ASSUME LogInvariant, UNCHANGED vars
    PROVE  LogInvariant' /\ UNCHANGED Abstract!vars
<1>1. /\ n' = n /\ st' = st /\ appends' = appends /\ applies' = applies /\ resps' = resps
      /\ sm' = sm /\ acks' = acks /\ leaders' = leaders
  BY DEF vars
<1>2. LogInvariant' BY <1>1 DEF LogInvariant
<1>3. View' = View BY <1>1, ViewIs
<1>4. (n.committed)' = n.committed /\ (st.log)' = st.log BY <1>1
<1> QED BY <1>1, <1>2, <1>3, <1>4 DEF Abstract!vars

\* Each step keeps the invariant and is a step of DurableLog, or none.
LEMMA LogStep ==
    ASSUME LogInvariant, [Next]_vars
    PROVE  LogInvariant' /\ [Abstract!Next]_(Abstract!vars)
<1>1. CASE ReceiveApp BY <1>1, ReceiveAppStep DEF Abstract!Next
<1>2. CASE ReceiveHeartbeat BY <1>2, ReceiveHeartbeatStep DEF Abstract!Next
<1>3. CASE ReceiveSnapshot BY <1>3, ReceiveSnapshotStep DEF Abstract!Next
<1>4. CASE NewTerm BY <1>4, NewTermStep DEF Abstract!Next
<1>5. CASE Ready BY <1>5, ReadyStep
<1>6. CASE AppendThread BY <1>6, AppendThreadStep DEF Abstract!Next
<1>7. CASE ApplyThread BY <1>7, ApplyThreadStep DEF Abstract!Next
<1>8. CASE AppendResp BY <1>8, AppendRespStep
<1>9. CASE ApplyResp BY <1>9, ApplyRespStep
<1>10. CASE Compact BY <1>10, CompactStep
<1>11. CASE Crash BY <1>11, CrashStep DEF Abstract!Next
<1>12. CASE UNCHANGED vars BY <1>12, StutterStep
<1> QED
  BY <1>1, <1>2, <1>3, <1>4, <1>5, <1>6, <1>7, <1>8, <1>9, <1>10, <1>11, <1>12 DEF Next

----------------------------------------------------------------------------
(* Theorems *)

\* The invariant: there are points, of the past and of the appends that are
\* under way, through which the storage went and will go, which account for
\* the unstable log, the responses on the way, the acknowledgements and what
\* the state machine has been handed (raft/log_unstable.go, raft/rawnode.go).
THEOREM LogInvariance == Spec => []LogInvariant
<1>1. Init => LogInvariant BY InitStep
<1>2. LogInvariant /\ [Next]_vars => LogInvariant' BY LogStep
<1> QED BY <1>1, <1>2, PTL DEF Spec

LEMMA InvariantTypes == LogInvariant => TypeOK
<1> SUFFICES ASSUME LogInvariant PROVE TypeOK OBVIOUS
<1> DEFINE R == resps.append
<1>1. PICK D, X : Fits(leaders, n, st, R, appends, applies, resps.apply, sm, D, X)
  BY DEF LogInvariant
<1>2. IsHistory(leaders) /\ leaders \in Histories /\ Kept(leaders, st, R, sm, acks)
  BY HistoryIs DEF LogInvariant
<1>3. n \in Node /\ st \in Storage /\ sm \in Log BY <1>1, <1>2, FitsIs, MachineIs
<1>4. acks \in [1..MaxTerm -> Index] BY <1>2 DEF Kept
<1>5. \A k \in 1..Len(appends) : appends[k] \in AppendMsg
  <2>1. appends \in Seq(AppendMsg) BY <1>1 DEF Fits, Past
  <2> QED BY <2>1, ElementOfSeq
<1>6. \A k \in 1..Len(applies) : applies[k] \in ApplyMsg
  <2>1. applies \in Seq(ApplyMsg) BY <1>1 DEF Fits, Applies
  <2> QED BY <2>1, ElementOfSeq
<1> QED BY <1>2, <1>3, <1>4, <1>5, <1>6 DEF TypeOK, Node, Storage, AppendMsg, ApplyMsg

\* What the group commits is the longest of what its leaders committed.
LEMMA ChosenIs ==
    ASSUME IsHistory(leaders)
    PROVE  \E t \in 1..MaxTerm :
             /\ Chosen = SubSeq(leaders[t].log, 1, leaders[t].commit)
             /\ \A k \in 1..MaxTerm : leaders[k].commit <= leaders[t].commit
<1> DEFINE c(t) == leaders[t].commit
           p(t) == SubSeq(leaders[t].log, 1, c(t))
           S == {c(t) : t \in 1..MaxTerm}
           P == {p(t) : t \in 1..MaxTerm}
           Q(log) == \A t \in 1..MaxTerm : c(t) <= Len(log)
<1>1. ASSUME NEW t \in 1..MaxTerm
      PROVE  c(t) \in Nat /\ c(t) <= MaxLog /\ Len(p(t)) = c(t)
  <2>1. /\ leaders[t].log \in Log /\ c(t) \in Nat /\ c(t) <= Len(leaders[t].log)
        /\ Len(leaders[t].log) \in Nat /\ Len(leaders[t].log) <= MaxLog
    BY LeadersHave
  <2>2. c(t) \in 0..Len(leaders[t].log) /\ c(t) <= MaxLog BY <2>1, Bounds
  <2> QED BY <2>1, <2>2, PrefixOf
<1>2. \E i \in S : \A j \in S : j <= i
  <2>1. S \subseteq 0..MaxLog BY <1>1
  <2>2. S # {} /\ MaxLog \in Nat
    <3>1. 1 \in 1..MaxTerm /\ MaxLog \in Nat BY Bounds
    <3> QED BY <3>1
  <2> HIDE DEF S
  <2> QED BY <2>1, <2>2, LargestOf
<1>3. PICK t \in 1..MaxTerm : \A k \in 1..MaxTerm : c(k) <= c(t) BY <1>2
<1>4. p(t) \in P /\ Q(p(t)) BY <1>1, <1>3
<1>5. Chosen = CHOOSE log \in P : Q(log) BY DEF Chosen
<1> HIDE DEF Q, P
<1>6. Chosen \in P /\ Q(Chosen) BY <1>4, <1>5
<1>7. PICK k \in 1..MaxTerm : Chosen = p(k) BY <1>6 DEF P
<1>8. \A j \in 1..MaxTerm : c(j) <= c(k) BY <1>1, <1>6, <1>7 DEF Q
<1> QED BY <1>7, <1>8

LEMMA InvariantCommits == LogInvariant => CommittedIsChosen
<1> SUFFICES ASSUME LogInvariant PROVE IsPrefix(SubSeq(View, 1, n.committed), Chosen)
  BY DEF CommittedIsChosen
<1> DEFINE h == leaders
           w == Whole(n, st)
           c == n.committed
<1>1. PICK D, X : Fits(h, n, st, resps.append, appends, applies, resps.apply, sm, D, X)
  BY DEF LogInvariant
<1>2. IsHistory(h) BY HistoryIs DEF LogInvariant
<1>3. PICK t \in 1..MaxTerm :
             /\ Chosen = SubSeq(h[t].log, 1, h[t].commit)
             /\ \A k \in 1..MaxTerm : h[k].commit <= h[t].commit
  BY <1>2, ChosenIs
<1> DEFINE L == h[t].log
           d == h[t].commit
           b == SubSeq(L, 1, d)
<1>4. L \in Log /\ Len(L) \in Nat /\ d \in Nat /\ d <= Len(L) BY <1>2, LeadersHave
<1>5. /\ w \in Log /\ n.Term \in Term /\ c \in Nat /\ c <= Len(w) /\ Len(w) \in Nat
      /\ Sanctioned(h, w, n.Term, c) /\ n.Term \in Nat
  <2>1. Now(n, st).log = w /\ Now(n, st).Term = n.Term /\ Now(n, st).Commit = c BY DEF Now
  <2>2. Good(h, Now(n, st)) BY <1>1, <1>2, FitsIs
  <2> QED BY <2>1, <2>2, PointIs DEF Good
<1>6. /\ b \in Log /\ Len(b) = d /\ Agree(b, L, d)
  <2>1. d \in 0..Len(L) BY <1>4
  <2> QED BY <1>4, <2>1, PrefixOf
<1> HIDE DEF b, d, L, w, c
<1>7. t \in Term /\ t \in Nat BY Bounds DEF Term
<1>8. Agree(w, b, c)
  <2>1. CASE c = 0 BY <1>5, <1>6, <2>1, AgreeNone
  <2>2. CASE c # 0
    <3>1. PICK k \in 1..n.Term : c <= h[k].commit /\ Agree(w, h[k].log, c)
      BY <1>5, <2>2 DEF Sanctioned
    <3>2. k \in 1..MaxTerm BY <1>5, Bounds DEF Term
    <3>3. h[k].commit \in Nat /\ h[k].commit <= d BY <1>2, <1>3, <3>2, LeadersHave DEF d
    <3>4. c <= d BY <1>4, <1>5, <3>1, <3>3
    <3>5. Sanctioned(h, b, t, d)
      <4>1. t \in 1..t /\ d <= h[t].commit BY <1>4, <1>7 DEF d
      <4>2. Agree(b, h[t].log, d) BY <1>6 DEF L
      <4> QED BY <4>1, <4>2 DEF Sanctioned
    <3> QED BY <1>2, <1>4, <1>5, <1>6, <1>7, <3>4, <3>5, SanctionedAgree
  <2> QED BY <2>1, <2>2
<1>9. c \in 0..Len(w) BY <1>5
<1>10. IsPrefix(SubSeq(w, 1, c), b) BY <1>5, <1>6, <1>8, <1>9, CutAgrees
<1> QED BY <1>3, <1>10, ViewIs DEF w, c, b, d, L

\* The log's values keep their types, none of the log's panics is reached
\* (commitTo, append and appliedTo of raft/log.go, MemoryStorage.Append,
\* loadState), and what the follower commits, and hands to its application, is
\* what the group has committed, whatever the order of messages, appends that
\* complete late, responses and crashes.
THEOREM LogIsSound == Spec => []LogInv
<1>1. LogInvariant => NoPanic
  <2> SUFFICES ASSUME LogInvariant PROVE NoPanic OBVIOUS
  <2>1. PICK D, X : Fits(leaders, n, st, resps.append, appends, applies, resps.apply, sm, D, X)
    BY DEF LogInvariant
  <2>2. IsHistory(leaders) BY HistoryIs DEF LogInvariant
  <2> QED BY <2>1, <2>2, FitsIs DEF NoPanic
<1>2. LogInvariant => LogInv BY <1>1, InvariantTypes, InvariantCommits DEF LogInv
<1> QED BY <1>2, LogInvariance, PTL

\* What was acknowledged to the leader of the term on disk is on disk, also
\* after a crash (raft/raft.go, send: MsgAppResp waits for the append).
THEOREM AcksAreDurable == Spec => []AckedIsDurable
<1>1. LogInvariant => AckedIsDurable
  <2> SUFFICES ASSUME LogInvariant, NEW t \in 1..MaxTerm, acks[t] > 0
               PROVE  /\ st.hs.Term >= t
                      /\ st.hs.Term = t => IsPrefix(SubSeq(leaders[t].log, 1, acks[t]), st.log)
    BY DEF AckedIsDurable
  <2> DEFINE h == leaders
             L == h[t].log
             i == acks[t]
  <2>1. IsHistory(h) /\ Kept(h, st, resps.append, sm, acks) BY HistoryIs DEF LogInvariant
  <2>2. /\ acks \in [1..MaxTerm -> Index] /\ t <= st.hs.Term
        /\ t = st.hs.Term => Agree(st.log, LeaderLog(h, t), i)
    BY <2>1 DEF Kept
  <2>3. LeaderLog(h, t) = L /\ L \in Log /\ Len(L) \in Nat BY <2>1, LeadersHave DEF LeaderLog
  <2>4. st.log \in Log /\ st.hs.Term \in Nat
    <3>1. PICK D, X : Fits(h, n, st, resps.append, appends, applies, resps.apply, sm, D, X)
      BY DEF LogInvariant
    <3> QED BY <2>1, <3>1, FitsIs, StorageIs
  <2>5. i \in Nat BY <2>2 DEF Index
  <2>6. ASSUME st.hs.Term = t PROVE IsPrefix(SubSeq(L, 1, i), st.log)
    <3>1. Agree(L, st.log, i) BY <2>2, <2>3, <2>6, AgreeSym
    <3>2. i \in 0..Len(L) BY <2>3, <2>5, <3>1 DEF Agree
    <3> HIDE DEF L, i
    <3> QED BY <2>3, <2>4, <3>1, <3>2, CutAgrees
  <2>7. st.hs.Term >= t BY <2>2, <2>4
  <2> QED BY <2>6, <2>7
<1> QED BY <1>1, LogInvariance, PTL

\* The unstable log, the storage, and the appends, applies and responses
\* between them implement DurableLog: one log whose committed entries never
\* change, and a state machine that is handed committed and durable entries
\* only, in order, none twice and none left out (raft/log_unstable.go,
\* raft/rawnode.go, newStorageAppendRespMsg).
THEOREM LogImplements == Spec => OneLog
<1>1. Init => Abstract!Init BY InitStep
<1>2. LogInvariant /\ [Next]_vars => [Abstract!Next]_(Abstract!vars) BY LogStep
<1> QED BY <1>1, <1>2, LogInvariance, PTL DEF Spec, OneLog, Abstract!Spec
=============================================================================
