------------------------------- MODULE Fuzzer -------------------------------
(***************************************************************************)
(* The fuzzing loop: fuzzer.go, mutator.go, and what they use of types.go, *)
(* guider.go and raft.go.  A campaign runs episodes; an episode schedules  *)
(* the messages of a group of servers, stops and starts servers, and       *)
(* records its choices in a trace, which a later episode may repeat after  *)
(* a mutator has changed it.                                               *)
(*                                                                         *)
(* The servers are abstract: a tick makes any of them send to any other,   *)
(* and a message, a request or a start may fail with a panic or an error.  *)
(* A message is the number of its episode and its number on its link.      *)
(***************************************************************************)
EXTENDS Integers, Sequences, FiniteSets, SequencesExt, BagsExt

CONSTANTS
    Replicas,
    Steps,
    Iterations,
    ReseedFrequency,
    SeedPopulationSize,
    MutPerTrace,
    CrashQuota,
    NumberRequests,
    MaxMessages,
    Mutators,      \* the mutators a campaign may be configured with
    CrashSwaps, NodeSwaps, MaxSwaps, NumSkips,  \* the numbers they are made with
    ModelState,    \* the states the guider's TLC server may answer with
    Draws,         \* the choices drawn at random for a fresh episode...
    LateDraws,     \* ... and by an episode that has used up its own
    MaxSends       \* the messages of one tick

Server == 1..Replicas
nodeIDs == 0..Replicas          \* NewFuzzer starts at 0
Link == nodeIDs \X nodeIDs
Step == 0..Steps - 1
Choice(from, to) == [type : {"Node"}, from : from, to : to, max : 0..MaxMessages - 1]
SchedulingChoice ==
    Choice(nodeIDs, nodeIDs)
    \cup [type : {"StopNode", "StartNode"}, node : Server, step : Step]
    \cup [type : {"ClientRequest"}, request : 1..NumberRequests, step : Step]

ASSUME FuzzerAssumption ==
    /\ {Replicas, Steps, Iterations, ReseedFrequency, MaxMessages} \subseteq Nat \ {0}
    /\ {SeedPopulationSize, MutPerTrace, CrashQuota, NumberRequests, MaxSends} \subseteq Nat
    /\ {CrashSwaps, NodeSwaps, MaxSwaps, NumSkips} \subseteq Nat
    /\ Mutators \subseteq {"empty", "combined", "skip"}
    /\ Draws \subseteq Choice(Server, Server) /\ LateDraws \subseteq Choice(nodeIDs, nodeIDs)

VARIABLES
    pc,        \* where Run is: "loop", "setup", "episode", "mutate" or "done"
    i,         \* its iteration
    seeds,     \* the seed executions that seed() still has to make
    j,         \* the step of the episode
    mutator,
    mutatedTracesQueue,
    budget,    \* the mutations still to be made of the last trace
    statesMap, \* the states the guider has seen
    tCtx,      \* the context of the episode
    messageQueues,
    nodes,     \* the servers that run, in the environment
    crashed,   \* the servers that do not, in the fuzzer
    sent,      \* how many messages were sent on each link in this episode
    delivered  \* the messages delivered on each link in this episode
campaign == <<i, seeds, mutator, mutatedTracesQueue, statesMap>>
episode == <<messageQueues, nodes, crashed, sent, delivered>>
vars == <<pc, campaign, budget, j, tCtx, episode>>

NoContext == [trace |-> <<>>, mimicTrace |-> <<>>, nodeChoices |-> <<>>, crashPoints |-> <<>>,
              startPoints |-> <<>>, clientRequests |-> <<>>, Error |-> FALSE]

TypeOK ==
    /\ pc \in {"loop", "setup", "episode", "mutate", "done"}
    /\ i \in 0..Iterations /\ j \in 0..Steps
    /\ seeds \in 0..SeedPopulationSize
    /\ mutatedTracesQueue \in Seq(Seq(SchedulingChoice))
    /\ statesMap \subseteq ModelState
    /\ budget \in 0..MutPerTrace * Cardinality(ModelState)
    /\ tCtx.trace \in Seq(SchedulingChoice) /\ tCtx.mimicTrace \in Seq(SchedulingChoice)
    /\ Len(SelectSeq(tCtx.trace, LAMBDA c : c.type = "Node")) <= Steps
    /\ \A p \in {tCtx.crashPoints, tCtx.startPoints} :
         DOMAIN p \subseteq Step /\ \A s \in DOMAIN p : p[s] \in Server
    /\ nodes \subseteq Server /\ crashed \subseteq Server

-----------------------------------------------------------------------------
(* The context of an episode.                                              *)

\* A Go map filled from keys and values in order: the last one stays.
filled(keys, vals) ==
    [k \in ToSet(keys) |-> vals[CHOOSE n \in DOMAIN keys :
                                   keys[n] = k /\ \A m \in DOMAIN keys : keys[m] = k => m <= n]]

\* sample: all of l, or size of them in the order in which a map gives them.
samples(l, size) ==
    IF size >= Len(l) THEN {l}
    ELSE {s \in [1..size -> ToSet(l)] : IsInjective(s)}

chosen(tr, type) == SelectSeq(tr, LAMBDA c : c.type = type)

pointsOf(tr, type) ==
    LET cs == chosen(tr, type)
    IN  filled([n \in DOMAIN cs |-> cs[n].step], [n \in DOMAIN cs |-> cs[n].node])

\* What an episode that repeats a trace takes from it.
mimicContext(tr) ==
    LET rs == chosen(tr, "ClientRequest")
    IN  [NoContext EXCEPT
           !.mimicTrace = tr,
           !.nodeChoices = chosen(tr, "Node"),
           !.crashPoints = pointsOf(tr, "StopNode"),
           !.startPoints = pointsOf(tr, "StartNode"),
           !.clientRequests = filled([n \in DOMAIN rs |-> rs[n].step],
                                     [n \in DOMAIN rs |-> rs[n].request])]

\* What a fresh episode draws: the choices of the servers, and at some steps a
\* server to stop, with a step not before it to start it at, and a request.
stepIndices == [n \in 1..Steps |-> n - 1]
isFresh(ctx) ==
    \E ns \in [1..Steps -> Draws], cs \in samples(stepIndices, CrashQuota),
       rs \in samples(stepIndices, NumberRequests) :
    \E who \in [DOMAIN cs -> Server], at \in [DOMAIN cs -> Step] :
        /\ \A n \in DOMAIN cs : at[n] >= cs[n]
        /\ ctx = [NoContext EXCEPT !.nodeChoices = ns,
                                   !.crashPoints = filled(cs, who),
                                   !.startPoints = filled(at, who),
                                   !.clientRequests = filled(rs, [n \in DOMAIN rs |-> n])]

-----------------------------------------------------------------------------
(* The mutators: every trace a mutator may return, none when it gives up.  *)

indicesOf(tr, type) == {n \in DOMAIN tr : tr[n].type = type}

swapped(tr, p) == [tr EXCEPT ![p[1]] = tr[p[2]], ![p[2]] = tr[p[1]]]
swapNode(tr) ==
    LET idx == indicesOf(tr, "Node")
        n == IF NodeSwaps < Cardinality(idx) THEN NodeSwaps ELSE Cardinality(idx)
    IN  IF idx = {} THEN {}
        ELSE {FoldLeft(swapped, tr, ps) : ps \in {s \in [1..n -> idx \X idx] : IsInjective(s)}}

\* Pairs of distinct indices with distinct first ones, in the order of a map.
pairs(idx, n) ==
    {s \in [1..n -> {p \in idx \X idx : p[1] # p[2]}] :
        \A a, b \in 1..n : a # b => s[a][1] # s[b][1]}

swappedNode(tr, p) ==
    [tr EXCEPT ![p[1]].node = tr[p[2]].node, ![p[2]].node = tr[p[1]].node]
swapCrashNode(tr) ==
    LET idx == indicesOf(tr, "StopNode")
    IN  IF Cardinality(idx) < CrashSwaps * 2 THEN {}
        ELSE {FoldLeft(swappedNode, tr, ps) : ps \in pairs(idx, CrashSwaps)}

swappedMax(tr, p) ==
    [tr EXCEPT ![p[1]].max = tr[p[2]].max, ![p[2]].max = tr[p[1]].max]
\* A plausible slip: the swaps all read the trace they were given.
swapMaxMessages_FromOriginal(tr) ==
    LET idx == indicesOf(tr, "Node")
    IN  IF Cardinality(idx) < MaxSwaps THEN {}
        ELSE {FoldLeft(LAMBDA new, p : [new EXCEPT ![p[1]].max = tr[p[2]].max,
                                                   ![p[2]].max = tr[p[1]].max], tr, ps) :
                ps \in pairs(idx, MaxSwaps)}
swapMaxMessages(tr) ==
    LET idx == indicesOf(tr, "Node")
    IN  IF Cardinality(idx) < MaxSwaps THEN {}
        ELSE {FoldLeft(swappedMax, tr, ps) : ps \in pairs(idx, MaxSwaps)}

\* What is left of tr without the indices in skip; NumSkips choices are dropped.
without(tr, skip) ==
    [n \in 1..Len(tr) - Cardinality(skip) |->
        tr[CHOOSE k \in DOMAIN tr \ skip : Cardinality((1..k) \ skip) = n]]
skipNode(tr) == {without(tr, skip) : skip \in kSubset(NumSkips, indicesOf(tr, "Node"))}

Mutants(tr) ==
    CASE mutator = "empty" -> {}
      [] mutator = "combined" -> UNION {swapMaxMessages(tr2) :
                                   tr2 \in UNION {swapNode(tr1) : tr1 \in swapCrashNode(tr)}}
      [] mutator = "skip" -> skipNode(tr)

-----------------------------------------------------------------------------
(* The campaign: Run, seed, and the ends of RunIteration.                  *)

Init ==
    /\ pc = "loop" /\ i = 0 /\ seeds = 0 /\ j = 0 /\ budget = 0
    /\ mutator \in Mutators
    /\ mutatedTracesQueue = <<>> /\ statesMap = {}
    /\ tCtx = NoContext
    /\ messageQueues = [l \in Link |-> <<>>]
    /\ nodes = Server /\ crashed = {}
    /\ sent = [l \in Link |-> 0] /\ delivered = [l \in Link |-> <<>>]

\* The head of Run's loop, with the call of seed().
Iterate ==
    /\ pc = "loop"
    /\ pc' = IF i < Iterations THEN "setup" ELSE "done"
    /\ IF i < Iterations /\ i % ReseedFrequency = 0
       THEN mutatedTracesQueue' = <<>> /\ seeds' = SeedPopulationSize
       ELSE UNCHANGED <<mutatedTracesQueue, seeds>>
    /\ UNCHANGED <<i, mutator, statesMap, budget, j, tCtx, episode>>

\* The queues and the environment are reset before the first step.
resetEpisode ==
    /\ messageQueues' = [l \in Link |-> <<>>]
    /\ nodes' = Server /\ crashed' = {}
    /\ sent' = [l \in Link |-> 0] /\ delivered' = [l \in Link |-> <<>>]

\* An episode that repeats a trace of the queue: none of seed() does.
SetupMimic ==
    /\ pc = "setup" /\ seeds = 0 /\ mutatedTracesQueue # <<>>
    /\ tCtx' = mimicContext(Head(mutatedTracesQueue))
    /\ mutatedTracesQueue' = Tail(mutatedTracesQueue)
    /\ pc' = "episode" /\ j' = 0
    /\ resetEpisode
    /\ UNCHANGED <<i, seeds, mutator, statesMap, budget>>

SetupFresh ==
    /\ pc = "setup" /\ (seeds > 0 \/ mutatedTracesQueue = <<>>)
    /\ isFresh(tCtx')
    /\ pc' = "episode" /\ j' = 0
    /\ resetEpisode
    /\ UNCHANGED <<campaign, budget>>

ended == pc = "episode" /\ (j = Steps \/ tCtx.Error)

\* An execution of seed(): its trace is queued as it is.
EndSeed ==
    /\ ended /\ seeds > 0
    /\ mutatedTracesQueue' = Append(mutatedTracesQueue, tCtx.trace)
    /\ seeds' = seeds - 1
    /\ pc' = "setup" /\ tCtx' = NoContext /\ j' = 0
    /\ UNCHANGED <<i, mutator, statesMap, budget, episode>>

\* Guider.Check: the states that TLC answers with and that are new.
Check(states) ==
    /\ statesMap' = statesMap \cup ToSet(states)
    /\ budget' = MutPerTrace * Cardinality(ToSet(states) \ statesMap)

\* The end of an execution of the loop.
EndFuzz ==
    /\ ended /\ seeds = 0
    /\ \E states \in BoundedSeq(ModelState, 2) : Check(states)
    /\ pc' = "mutate" /\ tCtx' = [NoContext EXCEPT !.trace = tCtx.trace] /\ j' = 0
    /\ UNCHANGED <<i, seeds, mutator, mutatedTracesQueue, episode>>

\* A call of Mutate; the copy of what it returns, if anything, is queued.
Mutate ==
    /\ pc = "mutate" /\ budget > 0
    /\ budget' = budget - 1
    /\ LET new == Mutants(tCtx.trace)
       IN  IF new = {} THEN UNCHANGED mutatedTracesQueue
           ELSE \E tr \in new : mutatedTracesQueue' = Append(mutatedTracesQueue, tr)
    /\ UNCHANGED <<pc, i, seeds, mutator, statesMap, j, tCtx, episode>>

Continue ==
    /\ pc = "mutate" /\ budget = 0
    /\ i' = i + 1 /\ pc' = "loop" /\ tCtx' = NoContext
    /\ UNCHANGED <<seeds, mutator, mutatedTracesQueue, statesMap, budget, j, episode>>

-----------------------------------------------------------------------------
(* A step of an episode: the body of EpisodeLoop.  An error ends it after  *)
(* the call that failed.                                                   *)

toCrash == IF j \in DOMAIN tCtx.crashPoints THEN {tCtx.crashPoints[j]} ELSE {}
toStart == IF j \in DOMAIN tCtx.startPoints THEN {tCtx.startPoints[j]} ELSE {}

\* A plausible slip: the step is left out, as for requests.
recordedPoints_NoStep ==
    SetToSeq({[type |-> "StopNode", node |-> n, step |-> 0] : n \in toCrash})
    \o SetToSeq({[type |-> "StartNode", node |-> n, step |-> 0] : n \in toStart})

\* CanCrash and CanStart record the point, whatever becomes of it.
recordedPoints ==
    SetToSeq({[type |-> "StopNode", node |-> n, step |-> j] : n \in toCrash})
    \o SetToSeq({[type |-> "StartNode", node |-> n, step |-> j] : n \in toStart})

\* A server is started only when it was stopped.
stopped == crashed \cup toCrash
started == toStart \cap stopped
upNow == (nodes \ toCrash) \cup started
\* A plausible slip: a server that is started again stays in the map.
downNow_KeepsStarted == stopped
downNow == stopped \ started

\* GetNextNodeChoice.
nodeChoice == IF tCtx.nodeChoices # <<>> THEN {Head(tCtx.nodeChoices)} ELSE LateDraws
unusedChoices == IF tCtx.nodeChoices # <<>> THEN Tail(tCtx.nodeChoices) ELSE <<>>

\* Schedule: nothing is taken from a queue while the receiver is down.
Schedule(c) ==
    LET q == messageQueues[<<c.from, c.to>>]
        n == IF c.max < Len(q) THEN c.max ELSE Len(q)
    IN  IF c.to \in downNow THEN <<>> ELSE SubSeq(q, 1, n)

\* IsClientRequest: the step of a request is not recorded.
request == IF j \in DOMAIN tCtx.clientRequests THEN {tCtx.clientRequests[j]} ELSE {}
recordedRequest ==
    SetToSeq({[type |-> "ClientRequest", request |-> r, step |-> 0] : r \in request})

\* A plausible slip: the messages are taken before it is known who is down.
untaken_WhoeverIsDown(c) ==
    [messageQueues EXCEPT ![<<c.from, c.to>>] =
        SubSeq(@, (IF c.max < Len(@) THEN c.max ELSE Len(@)) + 1, Len(@))]

untaken(c) ==
    [messageQueues EXCEPT ![<<c.from, c.to>>] = SubSeq(@, Len(Schedule(c)) + 1, Len(@))]
\* The first n of the messages taken from the queue are delivered.
deliver(c, n) ==
    delivered' = [delivered EXCEPT ![<<c.from, c.to>>] = @ \o SubSeq(Schedule(c), 1, n)]

breaks(trace) ==
    /\ tCtx' = [tCtx EXCEPT !.trace = @ \o trace, !.Error = TRUE]
    /\ UNCHANGED <<pc, campaign, budget, j, sent>>

\* NewRawNode returns an error.
StartFails ==
    /\ pc = "episode" /\ ~ended /\ started # {}
    /\ breaks(recordedPoints)
    /\ nodes' = upNow /\ crashed' = stopped
    /\ UNCHANGED <<messageQueues, delivered>>

\* A message makes its receiver panic: those taken after it are lost.
DeliveryFails ==
    /\ pc = "episode" /\ ~ended
    /\ \E c \in nodeChoice :
         /\ \E n \in DOMAIN Schedule(c) : deliver(c, n)
         /\ messageQueues' = untaken(c)
         /\ breaks(recordedPoints \o <<c>>)
    /\ nodes' = upNow /\ crashed' = downNow

RequestFails ==
    /\ pc = "episode" /\ ~ended /\ request # {}
    /\ \E c \in nodeChoice :
         /\ deliver(c, Len(Schedule(c)))
         /\ messageQueues' = untaken(c)
         /\ breaks(recordedPoints \o <<c>> \o recordedRequest)
    /\ nodes' = upNow /\ crashed' = downNow

\* Tick: the messages of the Readys of the servers that run are queued.
message(n) == [execution |-> <<i, seeds>>, n |-> n]
push(queues, l) == [queues EXCEPT ![l] = Append(@, message(sent[l] + 1))]
Sends == UNION {kSubset(n, {l \in upNow \X Server : l[1] # l[2]}) : n \in 0..MaxSends}

EpisodeStep ==
    /\ pc = "episode" /\ ~ended
    /\ \E c \in nodeChoice, out \in Sends :
         /\ deliver(c, Len(Schedule(c)))
         /\ messageQueues' = FoldSet(LAMBDA l, q : push(q, l), untaken(c), out)
         /\ sent' = [l \in Link |-> IF l \in out THEN sent[l] + 1 ELSE sent[l]]
         /\ tCtx' = [tCtx EXCEPT !.trace = @ \o recordedPoints \o <<c>> \o recordedRequest,
                                 !.nodeChoices = unusedChoices]
    /\ nodes' = upNow /\ crashed' = downNow
    /\ j' = j + 1
    /\ UNCHANGED <<pc, campaign, budget>>

Next ==
    \/ Iterate \/ SetupMimic \/ SetupFresh \/ EndSeed \/ EndFuzz \/ Mutate \/ Continue
    \/ StartFails \/ DeliveryFails \/ RequestFails \/ EpisodeStep

Spec == Init /\ [][Next]_vars

-----------------------------------------------------------------------------
(* What should hold.                                                       *)

\* An episode that repeats a trace makes the choices of the trace: the same
\* links in the same order, the same servers stopped and started at the same
\* steps (GetNextNodeChoice, CanCrash, CanStart against the switch over the
\* mimicked trace in RunIteration).
ScheduleReplayed ==
    pc = "episode" /\ tCtx.mimicTrace # <<>> =>
        /\ LET asked == chosen(tCtx.mimicTrace, "Node")
               made == chosen(tCtx.trace, "Node")
           IN  IsPrefix(made, asked) \/ IsPrefix(asked, made)
        /\ \A type \in {"StopNode", "StartNode"} :
             LET asked == chosen(tCtx.mimicTrace, type)
                 made == chosen(tCtx.trace, type)
             IN  IF j = Steps /\ ~tCtx.Error THEN made = asked ELSE IsPrefix(made, asked)

\* A link is a queue, whichever servers stop and start in between: what was
\* sent in this episode was delivered, in order and once, or still waits, and
\* nothing comes from an earlier episode (Schedule, the push after Tick and
\* the reset of the queues in RunIteration).
LinksAreFifo ==
    pc = "episode" /\ ~tCtx.Error =>
        \A l \in Link : delivered[l] \o messageQueues[l] = [n \in 1..sent[l] |-> message(n)]

bagOf(tr, type, f(_)) ==
    FoldLeft(LAMBDA bag, c : BagAdd(bag, f(c)), EmptyBag, chosen(tr, type))

\* Swapping changes neither the shape of a trace nor what it is made of: the
\* steps of the crash points, the links, the numbers of messages and the
\* servers that are stopped are those of the trace the mutator was given.
Rearranged(tr, new) ==
    /\ Len(new) = Len(tr)
    /\ \A n \in DOMAIN tr :
         /\ new[n].type = tr[n].type
         /\ tr[n].type \in {"StartNode", "ClientRequest"} => new[n] = tr[n]
         /\ tr[n].type = "StopNode" => new[n].step = tr[n].step
    /\ bagOf(new, "Node", LAMBDA c : <<c.from, c.to>>) =
       bagOf(tr, "Node", LAMBDA c : <<c.from, c.to>>)
    /\ bagOf(new, "Node", LAMBDA c : c.max) = bagOf(tr, "Node", LAMBDA c : c.max)
    /\ bagOf(new, "StopNode", LAMBDA c : c.node) = bagOf(tr, "StopNode", LAMBDA c : c.node)

\* Swaps may overlap: a mutant is a rearrangement all the same (the Swap
\* mutators work on one copy, in any order of their swaps).
MutantsRearrange ==
    [][mutator = "combined" /\ pc = "mutate" /\ mutatedTracesQueue' # mutatedTracesQueue =>
         Rearranged(tCtx.trace, Last(mutatedTracesQueue'))]_vars

\* The fuzzer and the environment agree on which servers run, between the steps
\* of an episode (the map crashed of RunIteration).
CrashedAreDown == pc = "episode" /\ ~tCtx.Error => crashed = Server \ nodes

\* An episode makes at most Steps choices, and knows which servers run
\* (CrashedAreDown).
FuzzerInv == TypeOK /\ CrashedAreDown
=============================================================================
