---------------------------- MODULE NodeLoopProofs ----------------------------
(***************************************************************************)
(* What run hands over and to whom it answers, for any number of callers,  *)
(* leaders, ticks and calls.                                               *)
(*                                                                         *)
(* Two things make NodeInv and NothingLost inductive.  The Ready on offer  *)
(* is what the raft has produced whenever run selects, since the head of   *)
(* the loop computes it again (Fresh), and between two selects it is never *)
(* more than that (Offers).  And run is in between only on behalf of one   *)
(* caller, the only one that waits for what it sends next (Answers).       *)
(***************************************************************************)
EXTENDS NodeLoop, SequenceTheorems, TLAPS

Loop == [pc : {"select", "result", "confState", "status"}, peer : Caller \cup {None},
         err : {"none", "nil", "dropped"}, rd : Seq(Nat), readyc : BOOLEAN,
         advancec : BOOLEAN, propc : BOOLEAN, lead : Leaders \cup {None}]

Raft == [lead : Leaders \cup {None}, member : BOOLEAN, made : Nat, msgs : Seq(Nat),
         stepsOnAdvance : BOOLEAN, panic : BOOLEAN]

Call == [op : Op \cup {None}, pc : {"idle", "send", "wait"},
         got : Caller \cup {None}, result : {"none", "nil", "dropped"}]

Typed ==
    /\ n \in Loop /\ r \in Raft /\ call \in [Caller -> Call]
    /\ async \in BOOLEAN /\ done \in BOOLEAN
    /\ tickc \in 0..TickBuffer /\ calls \in 0..MaxCalls
    /\ app \in {"ready", "handling", "advance", "exited"}
    /\ handed \in Seq(Nat)

\* What m offers while it waits is some of what s was asked for, and run waits
\* for Advance exactly when the raft keeps steps for it.
Offers(m, s) ==
    /\ m.rd \in Seq(1..s.made) /\ s.msgs \in Seq(1..s.made)
    /\ m.readyc = (m.rd # <<>> /\ ~m.advancec)
    /\ s.stepsOnAdvance = m.advancec /\ ~s.panic
    /\ ~m.advancec /\ s.msgs = <<>> => m.rd = <<>>

\* The Ready on offer is all there is.
Fresh(m, s) == ~m.advancec => m.rd = s.msgs

\* The first k of what the raft produces, in order.
Numbered(k) == [i \in 1..k |-> i]

\* With m and s for run and the raft, and what was handed over, h.
Offered(m, s, h) ==
    /\ Offers(m, s)
    /\ m.pc = "select" => Fresh(m, s)
    /\ h \in Seq(1..s.made) /\ h \o s.msgs = Numbered(s.made)

OfferInv == Offered(n, r, handed) /\ (async => ~n.advancec)

\* Run works for one caller at a time; what it sends next is for that one.
Answers ==
    /\ n.pc # "select" => n.peer \in Caller /\ ~done
    /\ n.pc = "confState" =>
         LET c == call[n.peer]
         IN  c.op = "ApplyConfChange" /\ c.pc = "wait" /\ c.got = None /\ c.result = "none"
    /\ \A c \in Caller :
         /\ call[c].got \in {None, c}
         /\ call[c].pc = "send" => call[c].got = None /\ call[c].result = "none"
         /\ ~done /\ call[c].op = "ApplyConfChange" /\ call[c].pc = "wait" /\ call[c].got = None
              => n.pc = "confState" /\ n.peer = c

IInv == Typed /\ OfferInv /\ Answers

----------------------------------------------------------------------------
(* The head of the loop, and what produces *)

\* The head computes the Ready and the leader anew, and nothing else.
LEMMA HeadFields ==
    ASSUME NEW m \in Loop, NEW s \in Raft
    PROVE  LET h == head(m, s)
           IN  /\ h \in Loop
               /\ h.pc = m.pc /\ h.peer = m.peer /\ h.advancec = m.advancec
               /\ h.rd = IF offered(m, s) THEN s.msgs ELSE m.rd
               /\ h.readyc = IF offered(m, s) THEN TRUE ELSE m.readyc
<1> DEFINE o == IF offered(m, s) THEN [m EXCEPT !.rd = s.msgs, !.readyc = TRUE] ELSE m
<1>1. /\ o \in Loop /\ o.pc = m.pc /\ o.peer = m.peer /\ o.advancec = m.advancec
      /\ o.rd = IF offered(m, s) THEN s.msgs ELSE m.rd
      /\ o.readyc = IF offered(m, s) THEN TRUE ELSE m.readyc
  <2>1. CASE offered(m, s)
    <3>1. o = [m EXCEPT !.rd = s.msgs, !.readyc = TRUE] BY <2>1
    <3>2. s.msgs \in Seq(Nat) BY DEF Raft
    <3> HIDE DEF o
    <3>3. o \in Loop BY <3>1, <3>2 DEF Loop
    <3>4. /\ o.pc = m.pc /\ o.peer = m.peer /\ o.advancec = m.advancec
          /\ o.rd = s.msgs /\ o.readyc = TRUE
      BY <3>1 DEF Loop
    <3> QED BY <2>1, <3>3, <3>4
  <2>2. CASE ~offered(m, s)
    <3>1. o = m BY <2>2
    <3> HIDE DEF o
    <3> QED BY <2>2, <3>1
  <2> QED BY <2>1, <2>2
<1> HIDE DEF o
<1> DEFINE h == IF o.lead = s.lead THEN o ELSE [o EXCEPT !.propc = s.lead # None, !.lead = s.lead]
<1>2. h \in Loop
  <2>1. (s.lead # None) \in BOOLEAN /\ s.lead \in Leaders \cup {None} BY DEF Raft
  <2>2. o \in Loop BY <1>1
  <2>3. [o EXCEPT !.propc = s.lead # None, !.lead = s.lead] \in Loop BY <2>1, <2>2 DEF Loop
  <2> QED BY <2>2, <2>3
<1>3. h.pc = o.pc /\ h.peer = o.peer /\ h.advancec = o.advancec /\ h.rd = o.rd /\ h.readyc = o.readyc
  BY <1>1 DEF Loop
<1>4. head(m, s) = h BY DEF head, o
<1> QED BY <1>1, <1>2, <1>3, <1>4

\* After the head, what is offered is up to date.
LEMMA HeadOffers ==
    ASSUME NEW m \in Loop, NEW s \in Raft, Offers(m, s)
    PROVE  Offers(head(m, s), s) /\ Fresh(head(m, s), s)
<1>1. CASE offered(m, s)
  <2>1. head(m, s).rd = s.msgs /\ head(m, s).readyc = TRUE /\ head(m, s).advancec = m.advancec
    BY <1>1, HeadFields
  <2> QED BY <1>1, <2>1 DEF offered, HasReady, Offers, Fresh
<1>2. CASE ~offered(m, s)
  <2>1. /\ head(m, s).rd = m.rd /\ head(m, s).readyc = m.readyc
        /\ head(m, s).advancec = m.advancec
    BY <1>2, HeadFields DEF Loop
  <2> QED BY <1>2, <2>1 DEF offered, HasReady, Offers, Fresh
<1> QED BY <1>1, <1>2

\* Counting on by one.
LEMMA CountOn ==
    ASSUME NEW k \in Nat, NEW h \in Seq(Nat), NEW q \in Seq(Nat), NEW new \in Nat,
           h \o q = Numbered(k), new = k + 1
    PROVE  h \o Append(q, new) = Numbered(new)
<1> DEFINE p == Append(q, new)
           a == h \o p
           b == [i \in 1..new |-> i]
<1>1. p \in Seq(Nat) /\ Len(p) = Len(q) + 1 BY AppendProperties
<1>2. p[Len(q) + 1] = new /\ \A i \in 1..Len(q) : p[i] = q[i] BY AppendProperties
<1>3. Len(q) \in Nat /\ Len(h) \in Nat BY LenProperties
<1> HIDE DEF p
<1>4. h \o q \in Seq(Nat) /\ Len(h \o q) = Len(h) + Len(q) BY ConcatProperties
<1>5. \A i \in 1..Len(h) + Len(q) : (h \o q)[i] = IF i <= Len(h) THEN h[i] ELSE q[i - Len(h)]
  BY ConcatProperties
<1>6. a \in Seq(Nat) /\ Len(a) = Len(h) + Len(p) BY <1>1, ConcatProperties
<1>7. \A i \in 1..Len(h) + Len(p) : a[i] = IF i <= Len(h) THEN h[i] ELSE p[i - Len(h)]
  BY <1>1, ConcatProperties
<1>8. Len(h) + Len(q) = k
  <2>1. DOMAIN (h \o q) = 1..Len(h \o q) BY <1>4, LenProperties
  <2>2. 1..k = 1..Len(h) + Len(q) BY <1>4, <2>1 DEF Numbered
  <2> QED BY <1>3, <2>2
<1> HIDE DEF a
<1>9. Len(a) = new BY <1>1, <1>3, <1>8, <1>6
<1>10. b \in Seq(Nat) /\ Len(b) = new
  <2>1. b \in [1..new -> Nat] BY DEF b
  <2>2. b \in Seq(Nat) BY <2>1, SeqDef
  <2>3. DOMAIN b = 1..Len(b) /\ Len(b) \in Nat BY <2>2, LenProperties
  <2> QED BY <2>1, <2>2, <2>3
<1>11. ASSUME NEW i \in 1..Len(a) PROVE a[i] = b[i]
  <2>1. CASE i = new
    <3>1. new = Len(h) + Len(q) + 1 BY <1>8
    <3>2. ~(new <= Len(h)) /\ new - Len(h) = Len(q) + 1 BY <1>3, <3>1
    <3>3. new \in 1..Len(h) + Len(p) BY <1>1, <1>3, <3>1
    <3>4. a[new] = p[new - Len(h)] BY <1>7, <3>2, <3>3
    <3> QED BY <1>2, <2>1, <3>2, <3>4
  <2>2. CASE i # new
    <3>1. i \in 1..k /\ (h \o q)[i] = i /\ b[i] = i BY <1>9, <2>2 DEF Numbered
    <3>2. i \in 1..Len(h) + Len(q) /\ i \in 1..Len(h) + Len(p) BY <1>1, <1>3, <1>8, <3>1
    <3>3. CASE i <= Len(h)
      <4>1. a[i] = h[i] BY <1>7, <3>2, <3>3
      <4>2. (h \o q)[i] = h[i] BY <1>5, <3>2, <3>3
      <4> QED BY <3>1, <4>1, <4>2
    <3>4. CASE ~(i <= Len(h))
      <4>1. i - Len(h) \in 1..Len(q) BY <1>3, <3>2, <3>4
      <4>2. a[i] = p[i - Len(h)] BY <1>7, <3>2, <3>4
      <4>3. (h \o q)[i] = q[i - Len(h)] BY <1>5, <3>2, <3>4
      <4>4. p[i - Len(h)] = q[i - Len(h)] BY <1>2, <4>1
      <4> QED BY <3>1, <4>2, <4>3, <4>4
    <3> QED BY <3>3, <3>4
  <2> QED BY <2>1, <2>2
<1>12. a = b BY <1>9, <1>10, <1>11, <1>6, SeqEqual
<1> QED BY <1>12 DEF a, p, Numbered

\* One more of what the raft produces, numbered by the order.
LEMMA ProducedLossless ==
    ASSUME NEW h, NEW s \in Raft, NEW m \in Loop, Offers(m, s), h \in Seq(1..s.made),
           h \o s.msgs = Numbered(s.made)
    PROVE  LET t == produced(s)
           IN  /\ t \in Raft /\ t.msgs # <<>> /\ Offers(m, t) /\ h \in Seq(1..t.made)
               /\ h \o t.msgs = Numbered(t.made)
<1> DEFINE t == produced(s)
           new == s.made + 1
<1>1. s.made \in Nat /\ s.msgs \in Seq(1..s.made) BY DEF Raft, Offers
<1>2. new \in Nat /\ new \in 1..new /\ 1..s.made \subseteq 1..new /\ 1..new \subseteq Nat
  BY <1>1
<1>3. /\ t.made = new /\ t.msgs = Append(s.msgs, new)
      /\ t.stepsOnAdvance = s.stepsOnAdvance /\ t.panic = s.panic
  BY DEF produced, Raft
<1>4. s.msgs \in Seq(Nat) /\ new = s.made + 1 BY DEF Raft
<1> HIDE DEF new
<1>5. h \in Seq(1..new) /\ s.msgs \in Seq(1..new) /\ m.rd \in Seq(1..new)
  BY <1>1, <1>2, SeqMonotonic DEF Offers
<1>6. t.msgs \in Seq(1..new) /\ Len(t.msgs) = Len(s.msgs) + 1
  BY <1>2, <1>3, <1>5, AppendProperties
<1>7. t.msgs # <<>>
  <2>1. Len(s.msgs) \in Nat BY <1>4, LenProperties
  <2> QED BY <1>6, <2>1, EmptySeq
<1>8. t.msgs \in Seq(Nat) /\ h \in Seq(Nat) BY <1>2, <1>5, <1>6, SeqMonotonic
<1>9. t \in Raft
  <2>1. t = [s EXCEPT !.made = new, !.msgs = Append(@, new)] BY DEF produced, new
  <2>2. Append(s.msgs, new) \in Seq(Nat) BY <1>3, <1>8
  <2> QED BY <1>2, <2>1, <2>2 DEF Raft
<1>10. h \o t.msgs = Numbered(new)
  <2>1. s.made \in Nat /\ h \in Seq(Nat) /\ s.msgs \in Seq(Nat) /\ new \in Nat
          /\ new = s.made + 1
    BY <1>1, <1>2, <1>4, <1>8
  <2>2. h \o Append(s.msgs, new) = Numbered(new) BY <2>1, CountOn
  <2> QED BY <1>3, <2>2
<1> HIDE DEF t
<1>11. Offers(m, t) BY <1>3, <1>5, <1>6, <1>7 DEF Offers
<1> QED BY <1>3, <1>5, <1>7, <1>9, <1>10, <1>11 DEF t

----------------------------------------------------------------------------
(* Every step keeps the invariant *)

\* run comes back to select.
LEMMA HeadKeeps ==
    ASSUME NEW m \in Loop, NEW s \in Raft, NEW h, Offers(m, s),
           h \in Seq(1..s.made), h \o s.msgs = Numbered(s.made)
    PROVE  LET l == head(m, s)
           IN  l \in Loop /\ l.pc = m.pc /\ l.peer = m.peer /\ l.advancec = m.advancec
               /\ Offered(l, s, h)
BY HeadFields, HeadOffers DEF Offered

\* The raft produces something or nothing.
LEMMA MayProduce ==
    ASSUME NEW m \in Loop, NEW s \in Raft, NEW h, NEW t, Offered(m, s, h),
           t = s \/ t = produced(s)
    PROVE  /\ t \in Raft /\ Offers(m, t)
           /\ h \in Seq(1..t.made) /\ h \o t.msgs = Numbered(t.made)
<1>1. CASE t = s BY <1>1 DEF Offered
<1>2. CASE t = produced(s) BY <1>2, ProducedLossless DEF Offered
<1> QED BY <1>1, <1>2

\* To offer the same, run may be elsewhere than in its select.
LEMMA OffersSame ==
    ASSUME NEW m, NEW l, NEW s, Offers(m, s),
           l.rd = m.rd, l.readyc = m.readyc, l.advancec = m.advancec
    PROVE  Offers(l, s)
BY DEF Offers

LEMMA WaitingType ==
    ASSUME call \in [Caller -> Call], NEW c \in Caller
    PROVE  /\ waiting(c) \in [Caller -> Call] /\ returned(c) \in [Caller -> Call]
           /\ waiting(c)[c] = [call[c] EXCEPT !.pc = "wait"] /\ returned(c)[c] = idle
           /\ \A d \in Caller \ {c} : waiting(c)[d] = call[d] /\ returned(c)[d] = call[d]
<1>1. idle \in Call BY DEF idle, Call
<1>2. [call[c] EXCEPT !.pc = "wait"] \in Call BY DEF Call
<1> QED BY <1>1, <1>2 DEF waiting, returned

\* A call that returns leaves the others as they were.
LEMMA ReturnKeepsAnswers ==
    ASSUME Typed, Answers, NEW c \in Caller, call' = returned(c), done' = done,
           \/ n'.pc = n.pc /\ n'.peer = n.peer /\ (n.pc = "confState" => n.peer # c)
           \/ n'.pc = "select" /\ n.pc # "confState"
    PROVE  Answers'
<1>1. /\ call'[c] = idle /\ \A d \in Caller \ {c} : call'[d] = call[d]
  BY WaitingType DEF Typed
<1>2. idle.op = None /\ idle.got = None /\ idle.pc = "idle" /\ idle.result = "none" BY DEF idle
<1>3. n.pc = "confState" => n'.pc = n.pc /\ n'.peer = n.peer /\ call'[n.peer] = call[n.peer]
  BY <1>1 DEF Answers
<1>4. n'.pc # "select" => n'.peer \in Caller /\ ~done' BY DEF Answers
<1>5. n'.pc = "confState" =>
        LET d == call'[n'.peer]
        IN  d.op = "ApplyConfChange" /\ d.pc = "wait" /\ d.got = None /\ d.result = "none"
  BY <1>3 DEF Answers
<1>6. ASSUME NEW d \in Caller
      PROVE  /\ call'[d].got \in {None, d}
             /\ call'[d].pc = "send" => call'[d].got = None /\ call'[d].result = "none"
             /\ ~done' /\ call'[d].op = "ApplyConfChange" /\ call'[d].pc = "wait"
                /\ call'[d].got = None => n'.pc = "confState" /\ n'.peer = d
  BY <1>1, <1>2, <1>3 DEF Answers
<1> QED BY <1>4, <1>5, <1>6 DEF Answers

\* A caller starts to wait for run, which leaves its select for it, if at all.
LEMMA WaitKeepsAnswers ==
    ASSUME Typed, Answers, NEW c \in Caller, call[c].pc = "send", n.pc = "select",
           call' = waiting(c), done => done',
           n'.pc # "select" => n'.peer = c /\ ~done',
           ~done' => (n'.pc = "confState" <=> call[c].op = "ApplyConfChange")
    PROVE  Answers'
<1>1. call' \in [Caller -> Call] /\ call'[c] = [call[c] EXCEPT !.pc = "wait"]
      /\ \A d \in Caller \ {c} : call'[d] = call[d]
  BY WaitingType DEF Typed
<1>2. /\ call'[c].op = call[c].op /\ call'[c].pc = "wait" /\ call'[c].got = call[c].got
      /\ call'[c].result = call[c].result /\ call[c].got = None /\ call[c].result = "none"
  BY <1>1 DEF Typed, Call, Answers
<1>3. n'.pc # "select" => n'.peer \in Caller /\ ~done' OBVIOUS
<1>4. n'.pc = "confState" =>
        LET d == call'[n'.peer]
        IN  d.op = "ApplyConfChange" /\ d.pc = "wait" /\ d.got = None /\ d.result = "none"
  BY <1>2
<1>5. ASSUME NEW d \in Caller
      PROVE  /\ call'[d].got \in {None, d}
             /\ call'[d].pc = "send" => call'[d].got = None /\ call'[d].result = "none"
             /\ ~done' /\ call'[d].op = "ApplyConfChange" /\ call'[d].pc = "wait"
                /\ call'[d].got = None => n'.pc = "confState" /\ n'.peer = d
  <2>1. CASE d = c BY <1>2, <2>1
  <2>2. CASE d # c
    <3>1. call'[d] = call[d] BY <1>1, <2>2
    <3> QED BY <3>1 DEF Answers
  <2> QED BY <2>1, <2>2
<1> QED BY <1>3, <1>4, <1>5 DEF Answers

\* Neither the calls nor what run works on change.
LEMMA IdleKeepsAnswers ==
    ASSUME Answers, call' = call, done' = done, n'.pc = n.pc, n'.peer = n.peer PROVE Answers'
BY DEF Answers

LEMMA InitInv == Init => IInv
<1> SUFFICES ASSUME Init PROVE IInv OBVIOUS
<1>1. <<>> \in Seq(Nat) /\ <<>> \in Seq(1..0) /\ <<>> \o <<>> = <<>>
  BY EmptySeq, ConcatEmptySeq
<1>2. Typed
  <2>1. n \in Loop BY <1>1 DEF Init, Loop
  <2>2. r \in Raft BY <1>1 DEF Init, Raft
  <2>3. idle \in Call BY DEF idle, Call
  <2>4. 0 \in 0..TickBuffer /\ 0 \in 0..MaxCalls BY NodeLoopAssumption
  <2> QED BY <1>1, <2>1, <2>2, <2>3, <2>4 DEF Init, Typed
<1>3. Offered(n, r, handed)
  <2>1. Numbered(0) = <<>>
    <3>1. Numbered(0) \in [1..0 -> Nat] BY DEF Numbered
    <3>2. Numbered(0) \in Seq(Nat) BY <3>1, SeqDef
    <3>3. DOMAIN Numbered(0) = 1..0 BY DEF Numbered
    <3>4. Len(Numbered(0)) = 0 BY <3>2, <3>3, LenProperties
    <3> QED BY <3>2, <3>4, EmptySeq
  <2> QED BY <1>1, <2>1 DEF Init, Offered, Offers, Fresh
<1>4. ~n.advancec BY DEF Init
<1>5. Answers BY DEF Init, Answers, idle
<1> QED BY <1>2, <1>3, <1>5, <1>4 DEF IInv, OfferInv

\* What neither run nor the raft takes part in.
LEMMA IdleKeepsOffer ==
    ASSUME OfferInv, UNCHANGED <<n, r, async, handed>> PROVE OfferInv'
BY DEF OfferInv

----------------------------------------------------------------------------
(* The steps of run *)

\* The types after a step, from those of what changed in it.
LEMMA TypesAfter ==
    ASSUME Typed, n' \in Loop, r' \in Raft, call' \in [Caller -> Call],
           UNCHANGED async, done' \in BOOLEAN, tickc' \in 0..TickBuffer,
           calls' \in 0..MaxCalls, app' \in {"ready", "handling", "advance", "exited"},
           handed' \in Seq(Nat)
    PROVE  Typed'
BY DEF Typed

\* A meeting with a caller.
LEMMA TypesKept ==
    ASSUME Typed, n' \in Loop, r' \in Raft, call' \in [Caller -> Call],
           UNCHANGED <<async, done, tickc, calls, app, handed>>
    PROVE  Typed'
BY DEF Typed

\* The offer after a step that comes back to select.
LEMMA OfferAfterHead ==
    ASSUME NEW m \in Loop, r' \in Raft, n' = head(m, r'), Offers(m, r'),
           async' => ~m.advancec,
           handed' \in Seq(1..r'.made), handed' \o r'.msgs = Numbered(r'.made)
    PROVE  n' \in Loop /\ n'.pc = m.pc /\ n'.peer = m.peer /\ OfferInv'
<1>1. \A s \in Raft : \A h :
        Offers(m, s) /\ h \in Seq(1..s.made)
          /\ h \o s.msgs = Numbered(s.made)
        => LET l == head(m, s)
           IN  l \in Loop /\ l.pc = m.pc /\ l.peer = m.peer /\ l.advancec = m.advancec
               /\ Offered(l, s, h)
  BY HeadKeeps
<1>2. LET l == head(m, r')
      IN  l \in Loop /\ l.pc = m.pc /\ l.peer = m.peer /\ l.advancec = m.advancec
          /\ Offered(l, r', handed')
  BY Zenon, <1>1
<1> QED BY <1>2 DEF OfferInv

\* The offer after a step that leaves select.
LEMMA OfferAway ==
    ASSUME NEW m, m.pc # "select", n' = m, Offers(n, r'),
           m.rd = n.rd, m.readyc = n.readyc, m.advancec = n.advancec,
           async' => ~n.advancec,
           handed' \in Seq(1..r'.made), handed' \o r'.msgs = Numbered(r'.made)
    PROVE  OfferInv'
<1>1. Offers(m, r') BY OffersSame
<1> QED BY <1>1 DEF OfferInv, Offered

LEMMA TakeProposalKeeps ==
    ASSUME IInv, NEW c \in Caller, TakeProposal(c) PROVE IInv'
<1>1. Typed /\ OfferInv /\ Answers BY DEF IInv
<1>2. n \in Loop /\ r \in Raft /\ call \in [Caller -> Call] BY <1>1 DEF Typed
<1>3. UNCHANGED <<async, tickc, done, app, handed, calls>> BY DEF TakeProposal
<1>4. n.pc = "select" /\ call[c].pc = "send" /\ call[c].op \in Proposals
  BY DEF TakeProposal, Selects, Sends
<1>5. PICK err \in {"nil", "dropped"} :
        /\ r' = IF err = "nil" THEN produced(r) ELSE r
        /\ IF call[c].op = "Propose"
           THEN /\ n' = [n EXCEPT !.pc = "result", !.peer = c, !.err = err]
                /\ call' = waiting(c)
           ELSE n' = head(n, r') /\ call' = returned(c)
  BY DEF TakeProposal
<1>6. /\ r' \in Raft /\ Offers(n, r')
      /\ handed' \in Seq(1..r'.made) /\ handed' \o r'.msgs = Numbered(r'.made)
  <2>1. r' = r \/ r' = produced(r) BY <1>5
  <2>2. Offered(n, r, handed) /\ handed' = handed BY <1>1, <1>3 DEF OfferInv
  <2>3. ASSUME NEW t, t = r \/ t = produced(r)
        PROVE  /\ t \in Raft /\ Offers(n, t)
               /\ handed \in Seq(1..t.made) /\ handed \o t.msgs = Numbered(t.made)
    <3>1. n \in Loop /\ r \in Raft /\ Offered(n, r, handed) BY <1>2, <2>2
    <3> QED BY ZenonT(60), <2>3, <3>1, MayProduce
  <2> QED BY <2>1, <2>2, <2>3
<1>7. async' => ~n.advancec BY <1>1, <1>3 DEF OfferInv
<1>8. CASE call[c].op = "Propose"
  <2> DEFINE m == [n EXCEPT !.pc = "result", !.peer = c, !.err = err]
  <2>1. n' = m /\ call' = waiting(c) BY <1>5, <1>8
  <2>2. m \in Loop /\ m.pc = "result" /\ m.peer = c BY <1>2 DEF Loop
  <2>3. m.rd = n.rd /\ m.readyc = n.readyc /\ m.advancec = n.advancec BY <1>2 DEF Loop
  <2>4. n' \in Loop /\ n'.pc = "result" /\ n'.peer = c BY <2>1, <2>2
  <2> HIDE DEF m
  <2>5. OfferInv' BY <1>6, <1>7, <2>1, <2>2, <2>3, OfferAway
  <2>6. Answers'
    <3>1. ~done' BY <1>3 DEF TakeProposal, Selects
    <3> QED BY <1>1, <1>3, <1>4, <1>8, <2>1, <2>4, <3>1, WaitKeepsAnswers
  <2>7. call' \in [Caller -> Call] BY <1>2, <2>1, WaitingType
  <2>8. Typed' BY <1>1, <1>3, <1>6, <2>4, <2>7, TypesKept
  <2> QED BY <2>5, <2>6, <2>8 DEF IInv
<1>9. CASE call[c].op # "Propose"
  <2>1. n' = head(n, r') /\ call' = returned(c) BY <1>5, <1>9
  <2>2. n' \in Loop /\ n'.pc = n.pc /\ n'.peer = n.peer /\ OfferInv'
    BY <1>2, <1>6, <1>7, <2>1, OfferAfterHead
  <2>3. Answers' BY <1>1, <1>3, <1>4, <2>1, <2>2, ReturnKeepsAnswers
  <2>4. call' \in [Caller -> Call] BY <1>2, <2>1, WaitingType
  <2>5. Typed' BY <1>1, <1>3, <1>6, <2>2, <2>4, TypesKept
  <2> QED BY <2>2, <2>3, <2>5 DEF IInv
<1> QED BY <1>8, <1>9

LEMMA SendResultKeeps ==
    ASSUME IInv, SendResult PROVE IInv'
<1>1. Typed /\ OfferInv /\ Answers BY DEF IInv
<1>2. n \in Loop /\ r \in Raft /\ call \in [Caller -> Call] BY <1>1 DEF Typed
<1>3. UNCHANGED <<r, async, tickc, done, app, handed, calls>> BY DEF SendResult
<1>4. ~done /\ n.pc = "result" /\ n.peer \in Caller BY <1>1 DEF SendResult, Answers
<1> DEFINE m == [n EXCEPT !.pc = "select", !.peer = None, !.err = "none"]
<1>5. n' = head(m, r') BY <1>3 DEF SendResult
<1>6. m \in Loop /\ m.pc = "select" BY <1>2 DEF Loop
<1>7. m.rd = n.rd /\ m.readyc = n.readyc /\ m.advancec = n.advancec BY <1>2 DEF Loop
<1> HIDE DEF m
<1>8. n' \in Loop /\ n'.pc = "select" /\ OfferInv'
  <2>1. Offers(n, r') /\ handed' \in Seq(1..r'.made) /\ handed' \o r'.msgs = Numbered(r'.made)
    BY <1>1, <1>3 DEF OfferInv, Offered
  <2>2. Offers(m, r') BY <1>7, <2>1, OffersSame
  <2>3. async' => ~m.advancec BY <1>1, <1>3, <1>7 DEF OfferInv
  <2>4. r' \in Raft BY <1>2, <1>3
  <2> QED BY <1>5, <1>6, <2>1, <2>2, <2>3, <2>4, OfferAfterHead
<1>9. /\ call' \in [Caller -> Call]
      /\ \A d \in Caller : /\ call'[d].op = call[d].op /\ call'[d].pc = call[d].pc
                           /\ call'[d].got = call[d].got
                           /\ call[d].pc = "send" => call'[d].result = call[d].result
  <2>1. CASE call[n.peer].op = "Propose" /\ call[n.peer].pc = "wait"
    <3>1. call' = [call EXCEPT ![n.peer].result = n.err] BY <2>1 DEF SendResult
    <3>2. n.err \in {"none", "nil", "dropped"} BY <1>2 DEF Loop
    <3>3. call[n.peer] \in Call BY <1>2, <1>4
    <3>4. [call[n.peer] EXCEPT !.result = n.err] \in Call BY <3>2, <3>3 DEF Call
    <3>5. call'[n.peer] = [call[n.peer] EXCEPT !.result = n.err] BY <1>2, <1>4, <3>1
    <3>6. \A d \in Caller \ {n.peer} : call'[d] = call[d] BY <1>2, <3>1
    <3>7. /\ call'[n.peer].op = call[n.peer].op /\ call'[n.peer].pc = call[n.peer].pc
          /\ call'[n.peer].got = call[n.peer].got
      BY <3>3, <3>5 DEF Call
    <3>8. call' \in [Caller -> Call] BY <1>2, <1>4, <3>1, <3>4
    <3> QED BY <2>1, <3>6, <3>7, <3>8
  <2>2. CASE ~(call[n.peer].op = "Propose" /\ call[n.peer].pc = "wait")
    <3>1. call' = call BY <2>2 DEF SendResult
    <3> QED BY <1>2, <3>1
  <2> QED BY <2>1, <2>2
<1>10. Answers'
  <2>1. done' = done BY <1>3
  <2> QED BY <1>1, <1>4, <1>8, <1>9, <2>1 DEF Answers
<1>11. Typed'
  <2>1. r' \in Raft BY <1>2, <1>3
  <2>2. call' \in [Caller -> Call] BY <1>9
  <2>3. n' \in Loop BY <1>8
  <2> QED BY <1>1, <1>3, <2>1, <2>2, <2>3, TypesKept
<1> QED BY <1>8, <1>10, <1>11 DEF IInv

\* To offer the same, the raft may know who leads and whether it is a member.
LEMMA OffersSameRaft ==
    ASSUME NEW m, NEW s, NEW t, Offers(m, s), t.made = s.made, t.msgs = s.msgs,
           t.stepsOnAdvance = s.stepsOnAdvance, t.panic = s.panic
    PROVE  Offers(m, t)
BY DEF Offers

LEMMA TakeMessageKeeps ==
    ASSUME IInv, NEW c \in Caller, TakeMessage(c) PROVE IInv'
<1>1. Typed /\ OfferInv /\ Answers BY DEF IInv
<1>2. n \in Loop /\ r \in Raft /\ call \in [Caller -> Call] BY <1>1 DEF Typed
<1>3. UNCHANGED <<async, tickc, done, app, handed, calls>> BY DEF TakeMessage
<1>4. n.pc = "select" /\ n' = head(n, r') /\ call' = returned(c) BY DEF TakeMessage, Selects
<1>5. r' \in Raft /\ Offers(n, r') /\ handed \in Seq(1..r'.made)
      /\ handed \o r'.msgs = Numbered(r'.made)
  <2>1. Offered(n, r, handed) BY <1>1 DEF OfferInv
  <2>2. CASE r' = r BY <1>2, <2>1, <2>2 DEF Offered
  <2>3. ASSUME NEW lead \in Leaders \cup {None}, r' = [produced(r) EXCEPT !.lead = lead]
        PROVE  r' \in Raft /\ Offers(n, r') /\ handed \in Seq(1..r'.made)
               /\ handed \o r'.msgs = Numbered(r'.made)
    <3> DEFINE t == produced(r)
    <3>1. t \in Raft /\ Offers(n, t) /\ handed \in Seq(1..t.made)
          /\ handed \o t.msgs = Numbered(t.made)
      BY <1>2, <2>1, MayProduce
    <3>2. r' = [t EXCEPT !.lead = lead] BY <2>3
    <3> HIDE DEF t
    <3>3. r' \in Raft BY <3>1, <3>2 DEF Raft
    <3>4. r'.made = t.made /\ r'.msgs = t.msgs BY <3>1, <3>2 DEF Raft
    <3>5. r'.stepsOnAdvance = t.stepsOnAdvance /\ r'.panic = t.panic BY <3>1, <3>2 DEF Raft
    <3>6. Offers(n, r') BY <3>1, <3>4, <3>5, OffersSameRaft
    <3> QED BY <3>1, <3>3, <3>4, <3>6
  <2> QED BY <2>2, <2>3 DEF TakeMessage
<1>6. n' \in Loop /\ n'.pc = n.pc /\ n'.peer = n.peer /\ OfferInv'
  <2>1. async' => ~n.advancec BY <1>1, <1>3 DEF OfferInv
  <2>2. handed' = handed BY <1>3
  <2> QED BY <1>2, <1>4, <1>5, <2>1, <2>2, OfferAfterHead
<1>7. Answers' BY <1>1, <1>3, <1>4, <1>6, ReturnKeepsAnswers
<1>8. call' \in [Caller -> Call] BY <1>2, <1>4, WaitingType
<1>9. Typed' BY <1>1, <1>3, <1>5, <1>6, <1>8, TypesKept
<1> QED BY <1>6, <1>7, <1>9 DEF IInv

LEMMA TakeConfChangeKeeps ==
    ASSUME IInv, NEW c \in Caller, TakeConfChange(c) PROVE IInv'
<1>1. Typed /\ OfferInv /\ Answers BY DEF IInv
<1>2. n \in Loop /\ r \in Raft /\ call \in [Caller -> Call] BY <1>1 DEF Typed
<1>3. UNCHANGED <<async, tickc, done, app, handed, calls>> BY DEF TakeConfChange
<1>4. n.pc = "select" /\ call[c].pc = "send" /\ call[c].op = "ApplyConfChange"
      /\ call' = waiting(c)
  BY DEF TakeConfChange, Selects, Sends
<1>5. PICK member \in BOOLEAN :
        /\ r' = [r EXCEPT !.member = member]
        /\ n' = [n EXCEPT !.pc = "confState", !.peer = c,
                          !.propc = IF r.member /\ ~member THEN FALSE ELSE @]
  BY DEF TakeConfChange
<1>6. /\ n' \in Loop /\ n'.pc = "confState" /\ n'.peer = c
      /\ n'.rd = n.rd /\ n'.readyc = n.readyc /\ n'.advancec = n.advancec
  BY <1>2, <1>5 DEF Loop
<1>7. /\ r' \in Raft /\ r'.made = r.made /\ r'.msgs = r.msgs
      /\ r'.stepsOnAdvance = r.stepsOnAdvance /\ r'.panic = r.panic
  BY <1>2, <1>5 DEF Raft
<1>8. OfferInv'
  <2>1. Offers(n, r) /\ handed \in Seq(1..r.made) /\ handed \o r.msgs = Numbered(r.made)
    BY <1>1 DEF OfferInv, Offered
  <2>2. Offers(n, r') BY <1>7, <2>1, OffersSameRaft
  <2>3. Offers(n', r') BY <1>6, <2>2, OffersSame
  <2>4. handed' \in Seq(1..r'.made) /\ handed' \o r'.msgs = Numbered(r'.made)
    BY <1>3, <1>7, <2>1
  <2>5. async' => ~n'.advancec BY <1>1, <1>3, <1>6 DEF OfferInv
  <2> QED BY <1>6, <2>3, <2>4, <2>5 DEF OfferInv, Offered
<1>9. Answers'
  <2>1. ~done' BY <1>3 DEF TakeConfChange, Selects
  <2>2. done => done' BY <1>3
  <2> QED BY <1>1, <1>4, <1>6, <2>1, <2>2, WaitKeepsAnswers
<1>10. call' \in [Caller -> Call] BY <1>2, <1>4, WaitingType
<1>11. Typed' BY <1>1, <1>3, <1>6, <1>7, <1>10, TypesKept
<1> QED BY <1>8, <1>9, <1>11 DEF IInv

\* Who reads confstatec is who asked for what is in it.
LEMMA SendConfStateKeeps ==
    ASSUME IInv, NEW c \in Caller, SendConfState(c) PROVE IInv'
<1>1. Typed /\ OfferInv /\ Answers BY DEF IInv
<1>2. n \in Loop /\ r \in Raft /\ call \in [Caller -> Call] BY <1>1 DEF Typed
<1>3. UNCHANGED <<r, async, tickc, done, app, handed, calls>> BY DEF SendConfState
<1>4. n.pc = "confState" /\ call[c].op = "ApplyConfChange" /\ call[c].pc = "wait"
      /\ call[c].got = None /\ ~done /\ call' = [call EXCEPT ![c].got = n.peer]
  BY DEF SendConfState
<1>5. n.peer = c BY <1>1, <1>4 DEF Answers
<1> DEFINE m == [n EXCEPT !.pc = "select", !.peer = None]
<1>6. n' = head(m, r') BY <1>3 DEF SendConfState
<1>7. m \in Loop /\ m.pc = "select" BY <1>2 DEF Loop
<1>8. m.rd = n.rd /\ m.readyc = n.readyc /\ m.advancec = n.advancec BY <1>2 DEF Loop
<1> HIDE DEF m
<1>9. n' \in Loop /\ n'.pc = "select" /\ OfferInv'
  <2>1. Offers(n, r') /\ handed' \in Seq(1..r'.made) /\ handed' \o r'.msgs = Numbered(r'.made)
    BY <1>1, <1>3 DEF OfferInv, Offered
  <2>2. Offers(m, r') BY <1>8, <2>1, OffersSame
  <2>3. async' => ~m.advancec BY <1>1, <1>3, <1>8 DEF OfferInv
  <2>4. r' \in Raft BY <1>2, <1>3
  <2> QED BY <1>6, <1>7, <2>1, <2>2, <2>3, <2>4, OfferAfterHead
<1>10. /\ call' \in [Caller -> Call]
       /\ call'[c].got = c /\ call'[c].pc = "wait" /\ call'[c].op = "ApplyConfChange"
       /\ \A d \in Caller \ {c} : call'[d] = call[d]
  <2>1. call[c] \in Call BY <1>2
  <2>2. [call[c] EXCEPT !.got = c] \in Call BY <2>1 DEF Call
  <2>3. call'[c] = [call[c] EXCEPT !.got = c] BY <1>2, <1>4, <1>5
  <2>4. call' \in [Caller -> Call] BY <1>2, <1>4, <1>5, <2>2
  <2>5. call'[c].got = c /\ call'[c].pc = "wait" /\ call'[c].op = "ApplyConfChange"
    BY <1>4, <2>1, <2>3 DEF Call
  <2>6. \A d \in Caller \ {c} : call'[d] = call[d] BY <1>2, <1>4
  <2> QED BY <2>4, <2>5, <2>6
<1>11. Answers'
  <2>1. done' = done /\ None \notin Caller BY <1>3, NodeLoopAssumption
  <2>2. ASSUME NEW d \in Caller
        PROVE  /\ call'[d].got \in {None, d}
               /\ call'[d].pc = "send" => call'[d].got = None /\ call'[d].result = "none"
               /\ ~done' /\ call'[d].op = "ApplyConfChange" /\ call'[d].pc = "wait"
                  /\ call'[d].got = None => n'.pc = "confState" /\ n'.peer = d
    BY <1>1, <1>4, <1>5, <1>10, <2>1 DEF Answers
  <2> QED BY <1>9, <2>2 DEF Answers
<1>12. Typed'
  <2>1. r' \in Raft BY <1>2, <1>3
  <2>2. call' \in [Caller -> Call] BY <1>10
  <2>3. n' \in Loop BY <1>9
  <2> QED BY <1>1, <1>3, <2>1, <2>2, <2>3, TypesKept
<1> QED BY <1>9, <1>11, <1>12 DEF IInv

LEMMA TakeTickKeeps ==
    ASSUME IInv, TakeTick PROVE IInv'
<1>1. Typed /\ OfferInv /\ Answers BY DEF IInv
<1>2. n \in Loop /\ r \in Raft /\ call \in [Caller -> Call] BY <1>1 DEF Typed
<1>3. UNCHANGED <<r, async, done, call, app, handed, calls>> BY DEF TakeTick
<1>4. n' = head(n, r') BY <1>3 DEF TakeTick
<1>5. n' \in Loop /\ n'.pc = n.pc /\ n'.peer = n.peer /\ OfferInv'
  <2>1. Offers(n, r') /\ handed' \in Seq(1..r'.made) /\ handed' \o r'.msgs = Numbered(r'.made)
    BY <1>1, <1>3 DEF OfferInv, Offered
  <2>2. async' => ~n.advancec BY <1>1, <1>3 DEF OfferInv
  <2>3. r' \in Raft BY <1>2, <1>3
  <2> QED BY <1>2, <1>4, <2>1, <2>2, <2>3, OfferAfterHead
<1>6. Answers' BY <1>1, <1>3, <1>5, IdleKeepsAnswers
<1>7. Typed'
  <2>1. tickc' \in 0..TickBuffer
    <3>1. tickc' = tickc - 1 /\ tickc > 0 BY DEF TakeTick
    <3>2. tickc \in 0..TickBuffer /\ TickBuffer \in Nat BY <1>1, NodeLoopAssumption DEF Typed
    <3> QED BY <3>1, <3>2
  <2> QED BY <1>1, <1>3, <1>5, <2>1 DEF Typed
<1> QED BY <1>5, <1>6, <1>7 DEF IInv

\* The Ready that App takes is all that was produced, and is forgotten.
LEMMA SendReadyKeeps ==
    ASSUME IInv, SendReady PROVE IInv'
<1>1. Typed /\ OfferInv /\ Answers BY DEF IInv
<1>2. n \in Loop /\ r \in Raft /\ async \in BOOLEAN BY <1>1 DEF Typed
<1>3. UNCHANGED <<async, tickc, done, call, calls>> BY DEF SendReady
<1>4. n.pc = "select" /\ n.readyc /\ handed' = handed \o n.rd /\ app' = "handling"
      /\ r' = acceptReady(r, n.rd)
  BY DEF SendReady, Selects
<1>5. /\ Offers(n, r) /\ handed \in Seq(1..r.made) /\ handed \o r.msgs = Numbered(r.made)
      /\ ~n.advancec /\ n.rd = r.msgs /\ n.rd # <<>>
  BY <1>1, <1>4 DEF OfferInv, Offered, Offers, Fresh
<1>6. ~r.stepsOnAdvance /\ ~r.panic /\ n.rd \in Seq(1..r.made) BY <1>5 DEF Offers
<1> DEFINE m == [n EXCEPT !.readyc = FALSE, !.advancec = ~async,
                          !.rd = IF async THEN <<>> ELSE @]
<1>7. n' = head(m, r') BY DEF SendReady
<1>8. <<>> \in Seq(Nat) /\ <<>> \in Seq(1..r.made) BY EmptySeq
<1>9. m \in Loop /\ m.pc = "select" /\ m.peer = n.peer BY <1>2, <1>4, <1>8 DEF Loop
<1>10. m.readyc = FALSE /\ m.advancec = ~async /\ m.rd = IF async THEN <<>> ELSE n.rd
  BY <1>2 DEF Loop
<1> HIDE DEF m
<1>11. /\ r' \in Raft /\ r'.made = r.made /\ r'.msgs = <<>> /\ ~r'.panic
       /\ r'.stepsOnAdvance = ~async
  <2>1. CASE async
    <3>1. r' = [r EXCEPT !.msgs = <<>>] BY <1>4, <2>1 DEF acceptReady
    <3> QED BY <1>2, <1>6, <1>8, <2>1, <3>1 DEF Raft
  <2>2. CASE ~async
    <3>1. r' = [r EXCEPT !.msgs = <<>>, !.stepsOnAdvance = TRUE,
                         !.panic = r.panic \/ r.stepsOnAdvance]
      BY <1>4, <2>2 DEF acceptReady
    <3>2. r' \in Raft BY <1>2, <1>8, <3>1 DEF Raft
    <3>3. r'.made = r.made /\ r'.msgs = <<>> /\ r'.stepsOnAdvance = TRUE BY <1>2, <3>1 DEF Raft
    <3>4. r'.panic = (r.panic \/ r.stepsOnAdvance) BY <1>2, <3>1 DEF Raft
    <3> QED BY <1>6, <2>2, <3>2, <3>3, <3>4
  <2> QED BY <2>1, <2>2
<1>12. Offers(m, r')
  <2>1. m.rd \in Seq(1..r'.made) /\ r'.msgs \in Seq(1..r'.made)
    BY <1>6, <1>8, <1>10, <1>11
  <2>2. m.readyc = (m.rd # <<>> /\ ~m.advancec) BY <1>10
  <2>3. r'.stepsOnAdvance = m.advancec /\ ~r'.panic BY <1>10, <1>11
  <2>4. ~m.advancec /\ r'.msgs = <<>> => m.rd = <<>> BY <1>10
  <2> QED BY <2>1, <2>2, <2>3, <2>4 DEF Offers
<1>13. handed' \in Seq(1..r'.made) /\ handed' \o r'.msgs = Numbered(r'.made)
  <2>1. handed' = Numbered(r.made) BY <1>4, <1>5
  <2>2. handed' \in Seq(1..r.made) BY <1>4, <1>5, <1>6, ConcatProperties
  <2>3. handed' \o <<>> = handed' BY <2>2, ConcatEmptySeq
  <2> QED BY <1>11, <2>1, <2>2, <2>3
<1>14. n' \in Loop /\ n'.pc = n.pc /\ n'.peer = n.peer /\ OfferInv'
  <2>1. async' => ~m.advancec BY <1>3, <1>10
  <2> QED BY <1>4, <1>7, <1>9, <1>11, <1>12, <1>13, <2>1, OfferAfterHead
<1>15. Answers' BY <1>1, <1>3, <1>14, IdleKeepsAnswers
<1>16. Typed'
  <2>1. handed' \in Seq(Nat)
    <3>1. r'.made \in Nat BY <1>11 DEF Raft
    <3>2. 1..r'.made \subseteq Nat BY <3>1
    <3> QED BY <1>13, <3>2, SeqMonotonic
  <2>2. app' \in {"ready", "handling", "advance", "exited"} BY <1>4
  <2> QED BY <1>1, <1>3, <1>11, <1>14, <2>1, <2>2 DEF Typed
<1> QED BY <1>14, <1>15, <1>16 DEF IInv

LEMMA TakeAdvanceKeeps ==
    ASSUME IInv, TakeAdvance PROVE IInv'
<1>1. Typed /\ OfferInv /\ Answers BY DEF IInv
<1>2. n \in Loop /\ r \in Raft BY <1>1 DEF Typed
<1>3. UNCHANGED <<async, tickc, done, call, handed, calls>> BY DEF TakeAdvance
<1>4. n.advancec /\ r' = [r EXCEPT !.stepsOnAdvance = FALSE] /\ app' = "ready"
  BY DEF TakeAdvance
<1>5. /\ Offers(n, r) /\ handed \in Seq(1..r.made) /\ handed \o r.msgs = Numbered(r.made)
  BY <1>1 DEF OfferInv, Offered
<1> DEFINE m == [n EXCEPT !.rd = <<>>, !.advancec = FALSE]
<1>6. n' = head(m, r') BY DEF TakeAdvance
<1>7. <<>> \in Seq(Nat) /\ <<>> \in Seq(1..r.made) BY EmptySeq
<1>8. m \in Loop /\ m.pc = n.pc /\ m.peer = n.peer BY <1>2, <1>7 DEF Loop
<1>9. m.rd = <<>> /\ m.advancec = FALSE /\ m.readyc = n.readyc BY <1>2 DEF Loop
<1> HIDE DEF m
<1>10. /\ r' \in Raft /\ r'.made = r.made /\ r'.msgs = r.msgs /\ r'.panic = r.panic
       /\ r'.stepsOnAdvance = FALSE
  BY <1>2, <1>4 DEF Raft
<1>11. Offers(m, r')
  <2>1. ~n.readyc BY <1>4, <1>5 DEF Offers
  <2> QED BY <1>5, <1>7, <1>9, <1>10, <2>1 DEF Offers
<1>12. n' \in Loop /\ n'.pc = n.pc /\ n'.peer = n.peer /\ OfferInv'
  <2>1. async' => ~m.advancec BY <1>9
  <2>2. handed' \in Seq(1..r'.made) /\ handed' \o r'.msgs = Numbered(r'.made)
    BY <1>3, <1>5, <1>10
  <2> QED BY <1>6, <1>8, <1>10, <1>11, <2>1, <2>2, OfferAfterHead
<1>13. Answers' BY <1>1, <1>3, <1>12, IdleKeepsAnswers
<1>14. Typed'
  <2>1. app' \in {"ready", "handling", "advance", "exited"} BY <1>4
  <2> QED BY <1>1, <1>3, <1>10, <1>12, <2>1 DEF Typed
<1> QED BY <1>12, <1>13, <1>14 DEF IInv

LEMMA TakeStatusKeeps ==
    ASSUME IInv, NEW c \in Caller, TakeStatus(c) PROVE IInv'
<1>1. Typed /\ OfferInv /\ Answers BY DEF IInv
<1>2. n \in Loop /\ r \in Raft /\ call \in [Caller -> Call] BY <1>1 DEF Typed
<1>3. UNCHANGED <<r, async, tickc, done, app, handed, calls>> BY DEF TakeStatus
<1>4. n.pc = "select" /\ call[c].pc = "send" /\ call[c].op = "Status" /\ call' = waiting(c)
  BY DEF TakeStatus, Selects, Sends
<1> DEFINE m == [n EXCEPT !.pc = "status", !.peer = c]
<1>5. n' = m BY DEF TakeStatus
<1>6. m \in Loop /\ m.pc = "status" /\ m.peer = c BY <1>2 DEF Loop
<1>7. m.rd = n.rd /\ m.readyc = n.readyc /\ m.advancec = n.advancec BY <1>2 DEF Loop
<1> HIDE DEF m
<1>8. OfferInv'
  <2>1. Offers(n, r') /\ handed' \in Seq(1..r'.made) /\ handed' \o r'.msgs = Numbered(r'.made)
    BY <1>1, <1>3 DEF OfferInv, Offered
  <2>2. async' => ~n.advancec BY <1>1, <1>3 DEF OfferInv
  <2> QED BY <1>5, <1>6, <1>7, <2>1, <2>2, OfferAway
<1>9. Answers'
  <2>1. ~done' /\ (done => done') BY <1>3 DEF TakeStatus, Selects
  <2> QED BY <1>1, <1>4, <1>5, <1>6, <2>1, WaitKeepsAnswers
<1>10. Typed'
  <2>1. r' \in Raft BY <1>2, <1>3
  <2>2. call' \in [Caller -> Call] BY <1>2, <1>4, WaitingType
  <2>3. n' \in Loop BY <1>5, <1>6
  <2> QED BY <1>1, <1>3, <2>1, <2>2, <2>3, TypesKept
<1> QED BY <1>8, <1>9, <1>10 DEF IInv

LEMMA SendStatusKeeps ==
    ASSUME IInv, SendStatus PROVE IInv'
<1>1. Typed /\ OfferInv /\ Answers BY DEF IInv
<1>2. n \in Loop /\ r \in Raft /\ call \in [Caller -> Call] BY <1>1 DEF Typed
<1>3. UNCHANGED <<r, async, tickc, done, app, handed, calls>> BY DEF SendStatus
<1>4. n.pc = "status" /\ n.peer \in Caller /\ call' = returned(n.peer)
  BY <1>1 DEF SendStatus, Answers
<1> DEFINE m == [n EXCEPT !.pc = "select", !.peer = None]
<1>5. n' = head(m, r') BY <1>3 DEF SendStatus
<1>6. m \in Loop /\ m.pc = "select" BY <1>2 DEF Loop
<1>7. m.rd = n.rd /\ m.readyc = n.readyc /\ m.advancec = n.advancec BY <1>2 DEF Loop
<1> HIDE DEF m
<1>8. n' \in Loop /\ n'.pc = "select" /\ OfferInv'
  <2>1. Offers(n, r') /\ handed' \in Seq(1..r'.made) /\ handed' \o r'.msgs = Numbered(r'.made)
    BY <1>1, <1>3 DEF OfferInv, Offered
  <2>2. Offers(m, r') BY <1>7, <2>1, OffersSame
  <2>3. async' => ~m.advancec BY <1>1, <1>3, <1>7 DEF OfferInv
  <2>4. r' \in Raft BY <1>2, <1>3
  <2> QED BY <1>5, <1>6, <2>1, <2>2, <2>3, <2>4, OfferAfterHead
<1>9. Answers' BY <1>1, <1>3, <1>4, <1>8, ReturnKeepsAnswers
<1>10. Typed'
  <2>1. r' \in Raft BY <1>2, <1>3
  <2>2. call' \in [Caller -> Call] BY <1>2, <1>4, WaitingType
  <2>3. n' \in Loop BY <1>8
  <2> QED BY <1>1, <1>3, <2>1, <2>2, <2>3, TypesKept
<1> QED BY <1>8, <1>9, <1>10 DEF IInv

LEMMA TakeStopKeeps ==
    ASSUME IInv, NEW c \in Caller, TakeStop(c) PROVE IInv'
<1>1. Typed /\ OfferInv /\ Answers BY DEF IInv
<1>2. UNCHANGED <<n, r, async, tickc, app, handed, calls>> BY DEF TakeStop
<1>3. n.pc = "select" /\ call[c].pc = "send" /\ done' /\ call' = waiting(c)
  BY DEF TakeStop, Selects, Sends
<1>4. OfferInv' BY <1>1, <1>2, IdleKeepsOffer
<1>5. Answers' BY <1>1, <1>2, <1>3, WaitKeepsAnswers
<1>6. Typed'
  <2>1. call' \in [Caller -> Call] BY <1>1, <1>3, WaitingType DEF Typed
  <2>2. done' \in BOOLEAN BY DEF TakeStop
  <2> QED BY <1>1, <1>2, <2>1, <2>2 DEF Typed
<1> QED BY <1>4, <1>5, <1>6 DEF IInv

----------------------------------------------------------------------------
(* The steps of the callers *)

LEMMA BeginKeeps ==
    ASSUME IInv, NEW c \in Caller, NEW op \in Op, Begin(c, op) PROVE IInv'
<1>1. Typed /\ OfferInv /\ Answers BY DEF IInv
<1>2. UNCHANGED <<n, r, async, tickc, done, app, handed>> BY DEF Begin
<1> DEFINE new == [idle EXCEPT !.op = op, !.pc = "send"]
<1>3. call[c].pc = "idle" /\ call' = [call EXCEPT ![c] = new] BY DEF Begin
<1>4. new \in Call /\ new.pc = "send" /\ new.got = None /\ new.result = "none"
  BY DEF idle, Call
<1>5. OfferInv' BY <1>1, <1>2, IdleKeepsOffer
<1> HIDE DEF new
<1>6. /\ call' \in [Caller -> Call] /\ call'[c] = new
      /\ \A d \in Caller \ {c} : call'[d] = call[d]
  BY <1>1, <1>3, <1>4 DEF Typed
<1>7. Answers'
  <2>1. n' = n /\ done' = done BY <1>2
  <2>2. n.pc = "confState" => n.peer # c /\ n.peer \in Caller BY <1>1, <1>3 DEF Answers
  <2>3. n'.pc = "confState" =>
          LET d == call'[n'.peer]
          IN  d.op = "ApplyConfChange" /\ d.pc = "wait" /\ d.got = None /\ d.result = "none"
    <3>1. n.pc = "confState" => call'[n'.peer] = call[n.peer] BY <1>6, <2>1, <2>2
    <3> QED BY <1>1, <2>1, <3>1 DEF Answers
  <2>4. ASSUME NEW d \in Caller
        PROVE  /\ call'[d].got \in {None, d}
               /\ call'[d].pc = "send" => call'[d].got = None /\ call'[d].result = "none"
               /\ ~done' /\ call'[d].op = "ApplyConfChange" /\ call'[d].pc = "wait"
                  /\ call'[d].got = None => n'.pc = "confState" /\ n'.peer = d
    BY <1>1, <1>4, <1>6, <2>1 DEF Answers
  <2>5. n'.pc # "select" => n'.peer \in Caller /\ ~done' BY <1>1, <2>1 DEF Answers
  <2> QED BY <2>3, <2>4, <2>5 DEF Answers
<1>8. Typed'
  <2>1. calls' \in 0..MaxCalls
    <3>1. calls \in 0..MaxCalls /\ MaxCalls \in Nat BY <1>1, NodeLoopAssumption DEF Typed
    <3>2. calls' = calls + 1 /\ calls < MaxCalls BY DEF Begin
    <3> QED BY <3>1, <3>2
  <2> QED BY <1>1, <1>2, <1>6, <2>1 DEF Typed
<1> QED BY <1>5, <1>7, <1>8 DEF IInv

\* A call returns, but never the one that is waiting for the state after its
\* change while run has it in hand.
LEMMA ReturnsKeeps ==
    ASSUME IInv, NEW c \in Caller, Returns(c), n.pc = "confState" => n.peer # c PROVE IInv'
<1>1. Typed /\ OfferInv /\ Answers BY DEF IInv
<1>2. UNCHANGED <<n, r, async, tickc, done, app, handed, calls>> /\ call' = returned(c)
  BY DEF Returns
<1>3. OfferInv' BY <1>1, <1>2, IdleKeepsOffer
<1>4. Answers' BY <1>1, <1>2, ReturnKeepsAnswers
<1>5. Typed'
  <2>1. call' \in [Caller -> Call] BY <1>1, <1>2, WaitingType DEF Typed
  <2> QED BY <1>1, <1>2, <2>1 DEF Typed
<1> QED BY <1>3, <1>4, <1>5 DEF IInv

LEMMA CallerKeeps ==
    ASSUME IInv, NEW c \in Caller, Cancelled(c) \/ Answered(c) \/ Stopped(c) PROVE IInv'
<1>1. Typed /\ OfferInv /\ Answers BY DEF IInv
<1>2. Returns(c) BY DEF Cancelled, Answered, Stopped
<1>3. n.pc = "confState" => n.peer # c
  <2>1. n.pc = "confState" /\ n.peer = c =>
          call[c].op = "ApplyConfChange" /\ call[c].got = None /\ call[c].result = "none" /\ ~done
    BY <1>1 DEF Answers
  <2>2. CASE Cancelled(c) BY <2>1, <2>2 DEF Cancelled, WithContext, Proposals
  <2>3. CASE Answered(c) BY <2>1, <2>3 DEF Answered
  <2>4. CASE Stopped(c) BY <2>1, <2>4 DEF Stopped
  <2> QED BY <2>2, <2>3, <2>4
<1> QED BY <1>2, <1>3, ReturnsKeeps

\* Neither run nor a call takes part.
LEMMA OutsideKeeps ==
    ASSUME IInv, Tick \/ Handled \/ AppExits \/ UNCHANGED vars PROVE IInv'
<1>1. Typed /\ OfferInv /\ Answers BY DEF IInv
<1>2. UNCHANGED <<n, r, async, done, call, handed, calls>>
  BY DEF Tick, Handled, AppExits, vars
<1>3. OfferInv' BY <1>1, <1>2, IdleKeepsOffer
<1>4. Answers' BY <1>1, <1>2, IdleKeepsAnswers
<1>5. tickc' \in 0..TickBuffer /\ app' \in {"ready", "handling", "advance", "exited"}
  <2>1. tickc \in 0..TickBuffer /\ TickBuffer \in Nat
        /\ app \in {"ready", "handling", "advance", "exited"}
    BY <1>1, NodeLoopAssumption DEF Typed
  <2>2. CASE Tick BY <2>1, <2>2 DEF Tick
  <2>3. CASE Handled BY <2>1, <2>3 DEF Handled
  <2>4. CASE AppExits BY <2>1, <2>4 DEF AppExits
  <2>5. CASE UNCHANGED vars BY <2>1, <2>5 DEF vars
  <2> QED BY <2>2, <2>3, <2>4, <2>5
<1>6. Typed' BY <1>1, <1>2, <1>5 DEF Typed
<1> QED BY <1>3, <1>4, <1>6 DEF IInv

LEMMA NextKeeps == IInv /\ [Next]_vars => IInv'
<1> SUFFICES ASSUME IInv, [Next]_vars PROVE IInv' OBVIOUS
<1>1. CASE SendResult BY <1>1, SendResultKeeps
<1>2. CASE SendReady BY <1>2, SendReadyKeeps
<1>3. CASE TakeAdvance BY <1>3, TakeAdvanceKeeps
<1>4. CASE SendStatus BY <1>4, SendStatusKeeps
<1>5. CASE Tick \/ Handled \/ AppExits \/ UNCHANGED vars BY <1>5, OutsideKeeps
<1>6. CASE TakeTick BY <1>6, TakeTickKeeps
<1>7. ASSUME NEW c \in Caller,
             TakeProposal(c) \/ TakeMessage(c) \/ TakeConfChange(c) \/ SendConfState(c)
      PROVE  IInv'
  BY <1>7, TakeProposalKeeps, TakeMessageKeeps, TakeConfChangeKeeps, SendConfStateKeeps
<1>8. ASSUME NEW c \in Caller, TakeStatus(c) \/ TakeStop(c) PROVE IInv'
  BY <1>8, TakeStatusKeeps, TakeStopKeeps
<1>9. ASSUME NEW c \in Caller, Cancelled(c) \/ Answered(c) \/ Stopped(c) PROVE IInv'
  BY <1>9, CallerKeeps
<1>10. ASSUME NEW c \in Caller, NEW op \in Op, Begin(c, op) PROVE IInv'
  BY <1>10, BeginKeeps
<1> QED BY <1>1, <1>2, <1>3, <1>4, <1>5, <1>6, <1>7, <1>8, <1>9, <1>10 DEF Next, Works

----------------------------------------------------------------------------
(* The theorems *)

LEMMA Inductive == Spec => []IInv
<1>1. IInv /\ [Next]_vars => IInv' BY NextKeeps
<1> QED BY InitInv, <1>1, PTL DEF Spec

\* What IInv says of the types is TypeOK.
LEMMA TypesMeant == IInv => TypeOK
<1> SUFFICES ASSUME IInv PROVE TypeOK OBVIOUS
<1>1. Typed /\ Offers(n, r) /\ handed \in Seq(1..r.made) BY DEF IInv, OfferInv, Offered
<1>2. /\ n.pc \in {"select", "result", "confState", "status"} /\ n.peer \in Caller \cup {None}
      /\ {n.readyc, n.advancec, n.propc} \subseteq BOOLEAN /\ n.lead \in Leaders \cup {None}
  BY <1>1 DEF Typed, Loop
<1>3. r.lead \in Leaders \cup {None} /\ r.member \in BOOLEAN /\ r.made \in Nat
      /\ r.panic \in BOOLEAN
  BY <1>1 DEF Typed, Raft
<1>4. n.rd \in Seq(1..r.made) /\ r.msgs \in Seq(1..r.made)
      /\ n.readyc = (n.rd # <<>> /\ ~n.advancec)
  BY <1>1 DEF Offers
<1>5. call \in [Caller -> Call] BY <1>1 DEF Typed
<1>6. /\ async \in BOOLEAN /\ done \in BOOLEAN /\ tickc \in 0..TickBuffer
      /\ app \in {"ready", "handling", "advance", "exited"} /\ calls \in 0..MaxCalls
  BY <1>1 DEF Typed
<1> QED BY <1>1, <1>2, <1>3, <1>4, <1>5, <1>6 DEF TypeOK, Call

\* acceptReady never meets steps that still wait for Advance, and confstatec,
\* which all callers read, brings each of them the state after its own change:
\* for any number of callers, however they are cancelled, answered or stopped.
THEOREM ChannelsSafe == Spec => []NodeInv
<1>1. IInv => NodeInv
  <2> SUFFICES ASSUME IInv PROVE NodeInv OBVIOUS
  <2>1. NoPanic BY DEF IInv, OfferInv, Offered, Offers, NoPanic
  <2>2. OwnConfState BY DEF IInv, Answers, OwnConfState
  <2> QED BY <2>1, <2>2, TypesMeant DEF NodeInv
<1> QED BY <1>1, Inductive, PTL

\* What the raft has produced is what Readys have brought to App and what the
\* next Ready will bring, in order, once each: also what is produced while a
\* Ready waits to be taken.
THEOREM HandedOver == Spec => []NothingLost
<1>1. IInv => NothingLost
  BY DEF IInv, OfferInv, Offered, Numbered, NothingLost
<1> QED BY <1>1, Inductive, PTL
=============================================================================
