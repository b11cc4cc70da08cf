----------------------------- MODULE ReadIndex -----------------------------
(***************************************************************************)
(* Reads without writes: raft/read_only.go and the handlers of MsgReadIndex*)
(* in raft/raft.go, with ReadOnlySafe.  A request gets the commit index of *)
(* the leader, once a round of heartbeats with the request's context has   *)
(* shown that there is no newer leader.                                    *)
(*                                                                         *)
(* Requests that are forwarded arrive late or never, answers to heartbeats *)
(* also twice.  A heartbeat with the context of a request that waits is on *)
(* its way: it arrives at any later time, or never.                        *)
(* Elections and replication are coarse (RaftCluster has their detail):    *)
(* votes are counted when they are cast and a MsgApp is answered when it is*)
(* sent.  A step includes the Ready it leads to.                           *)
(***************************************************************************)
EXTENDS LogTerms, Quorums, SequencesExt

CONSTANTS
    Server,
    Nil,           \* no leader; also the context of a heartbeat without one
    FirstLeader,   \* the leader of term 1
    MaxTerm,
    MaxInputs      \* read requests, each with a context of its own, and restarts together

ASSUME ReadIndexAssumption ==
    /\ IsFiniteSet(Server) /\ Cardinality(Server) > 1
    /\ FirstLeader \in Server /\ Nil \notin Server
    /\ {MaxTerm, MaxInputs} \subseteq Nat

VARIABLES
    node,    \* the servers
    net,     \* the messages sent and not yet received
    asked,   \* for each request made, by whom, and what was committed then
    restarts,
    reads    \* the ReadStates handed to the applications
vars == <<node, net, asked, restarts, reads>>

Ctx == 1..MaxInputs
Request == [from : Server \cup {Nil}, ctx : Ctx]
Message ==
    [type : {"MsgHeartbeatResp"}, term : 1..MaxTerm, from : Server, to : Server, ctx : Ctx]
    \cup [type : {"MsgReadIndex"}, from : Server, to : Server, ctx : Ctx]

TypeOK ==
    /\ \A i \in Server : LET r == node[i] IN
         /\ r.Term \in 1..MaxTerm /\ r.lead \in Server \cup {Nil}
         /\ r.state \in {"StateFollower", "StateCandidate", "StateLeader"}
         /\ r.log \in Seq([term : 1..MaxTerm]) /\ r.committed \in 0..Len(r.log)
         /\ r.Match \in [Server -> 0..MaxTerm]
         /\ \A c \in DOMAIN r.pendingReadIndex :
              r.pendingReadIndex[c] \in [index : 1..r.committed, from : Server \cup {Nil},
                                         acks : SUBSET Server]
         /\ DOMAIN r.pendingReadIndex = ToSet(r.readIndexQueue)
         /\ IsInjective(r.readIndexQueue)
         /\ r.pendingReadIndexMessages \in Seq(Request)
         /\ r.msgs = {} /\ r.readStates = {} /\ r.responses = {} /\ ~r.panic
         /\ r.state = "StateLeader" <=> r.lead = i
    /\ net \subseteq Message
    /\ DOMAIN asked \subseteq Ctx
    /\ \A c \in DOMAIN asked : asked[c] \in [at : Server, index : 0..MaxTerm]
    /\ restarts \in 0..MaxInputs
    /\ reads \subseteq [at : Server, ctx : Ctx, index : 0..MaxTerm]

----------------------------------------------------------------------------
(* raft/read_only.go: a queue of contexts and what is known of each *)

\* addRequest: a context that is pending already is not added again.
addRequest(r, m) ==
    IF m.ctx \in DOMAIN r.pendingReadIndex THEN r
    ELSE [r EXCEPT !.pendingReadIndex =
                     (m.ctx :> [index |-> r.committed, from |-> m.from, acks |-> {}]) @@ @,
                   !.readIndexQueue = Append(@, m.ctx)]

recvAck(r, id, ctx) ==
    IF ctx \in DOMAIN r.pendingReadIndex
    THEN [r EXCEPT !.pendingReadIndex[ctx].acks = @ \cup {id}] ELSE r

\* A plausible slip: one confirmed request confirms all that are queued.
confirmed_All(r, ctx) == r.readIndexQueue

\* What advance finds in the queue up to a context: it confirms those as well.
confirmed(r, ctx) ==
    SubSeq(r.readIndexQueue, 1, SelectInSeq(r.readIndexQueue, LAMBDA c : c = ctx))

advance(r, ctx) ==
    LET rss == ToSet(confirmed(r, ctx))
    IN  [r EXCEPT !.pendingReadIndex = [c \in DOMAIN @ \ rss |-> @[c]],
                  !.readIndexQueue = SelectSeq(@, LAMBDA c : c \notin rss)]

lastPendingRequestCtx(r) == IF r.readIndexQueue = <<>> THEN Nil ELSE Last(r.readIndexQueue)

----------------------------------------------------------------------------
(* The leader *)

\* responseToReadIndexReq and the sending of what it returns: a request of the
\* server's own application is answered at once.
responseToReadIndexReq(r, i, from, ctx, index) ==
    IF from \in {Nil, i}
    THEN [r EXCEPT !.readStates = @ \cup {[at |-> i, ctx |-> ctx, index |-> index]}]
    ELSE [r EXCEPT !.responses = @ \cup {[at |-> from, ctx |-> ctx, index |-> index]}]

\* sendMsgReadIndexResponse, ReadOnlySafe; Heartbeat has what is broadcast.
sendMsgReadIndexResponse(r, i, m) == recvAck(addRequest(r, m), i, m.ctx)

committedEntryInCurrentTerm(r) == TermAt(r.log, r.committed) = r.Term

\* MsgReadIndex at the leader: postponed while it may not know all that earlier
\* leaders committed.
leaderReadIndex(r, i, m) ==
    IF committedEntryInCurrentTerm(r) THEN sendMsgReadIndexResponse(r, i, m)
    ELSE [r EXCEPT !.pendingReadIndexMessages = Append(@, m)]

\* A plausible slip: the requests are never taken up again.
releasePendingReadIndexMessages_Never(r, i) == r

releasePendingReadIndexMessages(r, i) ==
    IF ~committedEntryInCurrentTerm(r) THEN r
    ELSE FoldLeft(LAMBDA s, m : sendMsgReadIndexResponse(s, i, m),
                  [r EXCEPT !.pendingReadIndexMessages = <<>>], r.pendingReadIndexMessages)

maybeCommit(r) ==
    LET mci == MajorityCommittedIndex(Server, r.Match)
    IN  IF mci > r.committed /\ TermAt(r.log, mci) = r.Term THEN [r EXCEPT !.committed = mci]
        ELSE r

\* MsgAppResp at the leader.
handleAppResp(r, i, j, index) ==
    LET s == maybeCommit([r EXCEPT !.Match[j] = Greatest(@, index)])
    IN  IF s.committed = r.committed THEN s ELSE releasePendingReadIndexMessages(s, i)

\* MsgHeartbeatResp at the leader.
handleHeartbeatResp(r, i, m) ==
    LET s    == recvAck(r, m.from, m.ctx)
        won  == /\ m.ctx \in DOMAIN s.pendingReadIndex
                /\ MajorityVoteResult(Server, [j \in s.pendingReadIndex[m.ctx].acks |-> TRUE])
                     = "VoteWon"
        respond(t, c) == LET rs == s.pendingReadIndex[c]
                         IN  responseToReadIndexReq(t, i, rs.from, c, rs.index)
    IN  IF won THEN FoldLeft(respond, advance(s, m.ctx), confirmed(s, m.ctx)) ELSE s

----------------------------------------------------------------------------
(* Becoming and being a follower *)

\* The requests that are postponed are kept.
reset(r, term) ==
    [r EXCEPT !.Term = term, !.Match = [j \in Server |-> 0],
              !.pendingReadIndex = <<>>, !.readIndexQueue = <<>>]

becomeFollower(r, term, lead) ==
    [reset(r, term) EXCEPT !.state = "StateFollower", !.lead = lead]

becomeLeader(r, i) ==
    LET s == [r EXCEPT !.state = "StateLeader", !.lead = i,
                       !.log = Append(@, [term |-> r.Term])]
    IN  [s EXCEPT !.Match[i] = Len(s.log)]

\* A plausible slip: who forwards a request is taken for who made it.
forwarded_FromForwarder(r, i, m) ==
    [type |-> "MsgReadIndex", from |-> i, to |-> r.lead, ctx |-> m.ctx]

forwarded(r, i, m) ==
    [type |-> "MsgReadIndex", from |-> IF m.from = Nil THEN i ELSE m.from, to |-> r.lead,
     ctx |-> m.ctx]

\* MsgReadIndex at any server.
handleReadIndex(r, i, m) ==
    CASE r.state = "StateLeader"    -> leaderReadIndex(r, i, m)
      [] r.state = "StateCandidate" -> r
      [] OTHER -> IF r.lead = Nil THEN r
                  ELSE [r EXCEPT !.msgs = @ \cup {forwarded(r, i, m)}]

\* What Step makes of a message of a leader of that term, which is not lower.
adopted(r, term, lead) ==
    [(IF term > r.Term THEN becomeFollower(r, term, lead) ELSE r)
       EXCEPT !.state = "StateFollower", !.lead = lead]

\* MsgReadIndexResp of a leader of that term: not what a candidate waits for.
handleReadIndexResp(r, term, rs) ==
    LET s == IF term > r.Term THEN becomeFollower(r, term, Nil) ELSE r
    IN  IF term < r.Term \/ s.state # "StateFollower" THEN r
        ELSE [s EXCEPT !.readStates = {rs}]

----------------------------------------------------------------------------
(* Actions *)

leads(i, j) == i # j /\ node[i].state = "StateLeader" /\ node[j].Term <= node[i].Term

\* An answer to a heartbeat matters as long as its leader leads.
live(msgs, nodes) ==
    {m \in msgs : m.type = "MsgHeartbeatResp" =>
                    nodes[m.to].state = "StateLeader" /\ m.term = nodes[m.to].Term}

\* The Ready of the server i, which is now r: its messages are sent and its
\* ReadStates handed over; a MsgReadIndexResp arrives at once or never.
ready(i, r, msgs) ==
    \E arrived \in SUBSET r.responses :
      LET handled(j, s) ==
              FoldSet(LAMBDA rs, t : IF rs.at = j THEN handleReadIndexResp(t, r.Term, rs) ELSE t,
                      s, arrived)
          nodes == [j \in Server |-> IF j = i THEN r ELSE handled(j, node[j])]
      IN  /\ reads' = reads \cup UNION {nodes[j].readStates : j \in Server}
          /\ node' = [j \in Server |-> [nodes[j] EXCEPT !.msgs = {}, !.readStates = {},
                                                        !.responses = {}]]
          /\ net' = live(msgs \cup r.msgs, nodes)

handleHeartbeat(r, i, j) ==
    commitTo(adopted(node[j], r.Term, i), Least(r.Match[j], r.committed))

\* What j answers; without a context it says nothing about reads.
heartbeatResp(i, j, ctx) ==
    IF ctx = Nil THEN {}
    ELSE {[type |-> "MsgHeartbeatResp", term |-> node[i].Term, from |-> j, to |-> i, ctx |-> ctx]}

\* A heartbeat that i broadcast arrives at j: one with the context of a request
\* that waits, or MsgBeat's without one.
Heartbeat(i, j, ctx) ==
    /\ leads(i, j)
    /\ ctx \in DOMAIN node[i].pendingReadIndex \/ ctx = lastPendingRequestCtx(node[i])
    /\ node' = [node EXCEPT ![j] = handleHeartbeat(node[i], i, j)]
    /\ net' = live(net \cup heartbeatResp(i, j, ctx), node')
    /\ UNCHANGED <<asked, restarts, reads>>

\* An answer of a lower term is ignored, and so is one to who leads no more.
HeartbeatResp(m) ==
    /\ m.type = "MsgHeartbeatResp" /\ m.term = node[m.to].Term
    /\ node[m.to].state = "StateLeader"
    /\ ready(m.to, handleHeartbeatResp(node[m.to], m.to, m), net)
    /\ UNCHANGED <<asked, restarts>>

ForwardedRead(m) ==
    /\ m.type = "MsgReadIndex"
    /\ ready(m.to, handleReadIndex(node[m.to], m.to, [from |-> m.from, ctx |-> m.ctx]), net \ {m})
    /\ UNCHANGED <<asked, restarts>>

everCommitted == MaxOr0({node[i].committed : i \in Server})

inputs == Cardinality(DOMAIN asked) + restarts

\* RawNode.ReadIndex, with a context that was never used.
Read(i, c) ==
    /\ DOMAIN asked = 1..(c - 1) /\ inputs < MaxInputs
    /\ asked' = (c :> [at |-> i, index |-> everCommitted]) @@ asked
    /\ ready(i, handleReadIndex(node[i], i, [from |-> Nil, ctx |-> c]), net)
    /\ UNCHANGED restarts

\* The follower's log up to where it agrees with the leader's.
commonPrefix(r, s) ==
    MaxOr0({k \in 1..Least(Len(r.log), Len(s.log)) : TermAt(r.log, k) = TermAt(s.log, k)})

\* j handles a MsgApp with all it lacks.
handleAppendEntries(r, i, s) ==
    LET p == commonPrefix(r, s)
    IN  maybeAppend(adopted(s, r.Term, i), p, r.committed, SubSeq(r.log, p + 1, Len(r.log)))

\* The leader handles the answer at once.
Replicate(i, j) ==
    /\ leads(i, j)
    /\ node' = [node EXCEPT ![j] = handleAppendEntries(node[i], i, @),
                            ![i] = handleAppResp(@, i, j, Len(@.log))]
    /\ net' = live(net, node')
    /\ UNCHANGED <<asked, restarts, reads>>

\* i runs for the next term and S are those who vote for it.
Campaign(i, S) ==
    /\ node[i].state # "StateLeader" /\ node[i].Term < MaxTerm
    /\ LET term == node[i].Term + 1
           cand == [reset(node[i], term) EXCEPT !.state = "StateCandidate", !.lead = Nil]
       IN  /\ \A j \in S : /\ node[j].Term < term
                            /\ isUpToDate(node[j].log, Len(cand.log), lastTerm(cand.log))
           /\ node' = [j \in Server |->
                          IF j = i THEN IF Cardinality(S) + 1 >= majority(Server)
                                        THEN becomeLeader(cand, i) ELSE cand
                          ELSE IF j \in S THEN becomeFollower(node[j], term, Nil) ELSE node[j]]
    /\ net' = live(net, node')
    /\ UNCHANGED <<asked, restarts, reads>>

waits(i) == DOMAIN node[i].pendingReadIndex # {} \/ node[i].pendingReadIndexMessages # <<>>

\* A leader, or a server with reads that wait, restarts on what it has written;
\* the reads are lost.
Restart(i) ==
    /\ node[i].state = "StateLeader" \/ waits(i)
    /\ inputs < MaxInputs /\ restarts' = restarts + 1
    /\ node' = [node EXCEPT ![i] = [becomeFollower(@, @.Term, Nil)
                                      EXCEPT !.pendingReadIndexMessages = <<>>]]
    /\ net' = live(net, node')
    /\ UNCHANGED <<asked, reads>>

Init ==
    /\ node = [i \in Server |->
         LET r == [Term |-> 1, lead |-> Nil, state |-> "StateFollower", log |-> <<>>,
                   committed |-> 0, Match |-> [j \in Server |-> 0], pendingReadIndex |-> <<>>,
                   readIndexQueue |-> <<>>, pendingReadIndexMessages |-> <<>>,
                   msgs |-> {}, readStates |-> {}, responses |-> {}, panic |-> FALSE]
         IN  IF i = FirstLeader THEN becomeLeader(r, i) ELSE r]
    /\ net = {} /\ asked = <<>> /\ restarts = 0 /\ reads = {}

Next ==
    \/ \E i \in Server :
         \/ Restart(i)
         \/ \E c \in Ctx : Read(i, c)
         \/ \E S \in SUBSET (Server \ {i}) : Campaign(i, S)
         \/ \E j \in Server :
              \/ Replicate(i, j)
              \/ \E ctx \in Ctx \cup {Nil} : Heartbeat(i, j, ctx)
    \/ \E m \in net : HeartbeatResp(m) \/ ForwardedRead(m)

StableLeader(i) == node[i].state = "StateLeader" /\ \A j \in Server : node[j].Term <= node[i].Term

\* What brings the reads further that wait at the leader i; MsgBeat repeats the
\* context of the last of them only.
Confirms(i) ==
    \/ \E j \in Server : \/ Heartbeat(i, j, lastPendingRequestCtx(node[i]))
                        \/ Replicate(i, j)
    \/ \E m \in net : m.to = i /\ HeartbeatResp(m)

\* One of these steps makes a difference.
CanConfirm(i) ==
    /\ StableLeader(i) /\ waits(i)
    /\ LET r == node[i] IN
         \/ \E j \in Server \ {i} :
              \/ handleHeartbeat(r, i, j) # node[j]
              \/ ~ heartbeatResp(i, j, lastPendingRequestCtx(r)) \subseteq net
              \/ handleAppendEntries(r, i, node[j]) # node[j]
              \/ handleAppResp(r, i, j, Len(r.log)) # r
         \/ \E m \in net : /\ m.to = i /\ m.type = "MsgHeartbeatResp" /\ m.term = r.Term
                           /\ handleHeartbeatResp(r, i, m) # r

\* Messages to and from a leader that stays get through in the end, and its
\* ticks go on.  These steps are finitely many while no request is added.
Fairness == \A i \in Server :
    []<>~CanConfirm(i) \/ []<><<Confirms(i)>>_<<node, net>>

Spec == Init /\ [][Next]_vars /\ Fairness

----------------------------------------------------------------------------
(* Properties *)

\* Linearizability: a read sees all that was committed, and so may have been
\* acknowledged by any leader, when the request was made (raft/read_only.go,
\* ReadOnlySafe).
ReadsAreCurrent == \A rs \in reads : rs.index >= asked[rs.ctx].index

\* A request that is forwarded, even several times or back to where it came
\* from, is answered to the server whose application made it.
ReadsGoToTheAsker == \A rs \in reads : rs.at = asked[rs.ctx].at

\* The queue and the table of the requests that wait stay in step (TypeOK), and
\* answers find their way (ReadsGoToTheAsker).
ReadInv == TypeOK /\ ReadsGoToTheAsker

\* A leader that stays does not keep reads waiting: those it had to postpone
\* are taken up when it commits, and those whose heartbeat is lost are
\* confirmed by a later one.
ReadsAreAnswered == \A i \in Server : <>[]StableLeader(i) => []<>~waits(i)
=============================================================================
