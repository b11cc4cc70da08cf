# A verification project for raft-fuzzing

The repository holds a copy of the etcd raft library (`src/raft`) and a fuzzer
that drives three to five instances of it (`src/*.go`). This directory models
both in TLA+, checks the models with TLC on small instances, and proves theorems
about the core with TLAPS.

    tlc -workers 2 -config core_three_servers.cfg MCRaftCluster.tla # one run
    tlapm RaftElectionProofs.tla                                    # types, elections
    tlapm RaftLogProofs.tla                                         # logs
    tlapm RaftCommitTheorems.tla                                    # commitment
    tlapm RaftPanicProofs.tla                                       # panics
    tlapm FlowControlProofs.tla                                     # progress, window
    tlapm DurableLogProofs.tla                                      # log over storage
    tlapm NodeLoopProofs.tla                                        # Node's goroutine

## 1. The system

| component | state | operations |
|---|---|---|
| raft state machine (`raft/raft.go`) | term, vote, role, leader, transferee, timers, two outboxes | `Step`, `tick`, `become*`, `campaign`, `reset`, `applyConfChange` |
| raft log (`raft/log.go`, `log_unstable.go`, `storage.go`) | stable entries, unstable tail, committed, applying and applied cursors | `maybeAppend`, `commitTo`, `findConflict`, `findConflictByTerm`, `stableTo`, `restore`, compaction |
| progress tracker (`raft/tracker`) | per peer `Match`, `Next`, probe / replicate / snapshot, inflights window, votes | `MaybeUpdate`, `MaybeDecrTo`, `UpdateOnEntriesSend`, `RecordVote`, `QuorumActive` |
| quorums (`raft/quorum`) | voters (majority, joint) | `VoteResult`, `CommittedIndex` |
| RawNode (`raft/rawnode.go`) | previous hard state, steps to take on Advance | `Ready`, `Advance`, `Step`, `Tick`, local calls, storage-thread messages |
| Node (`raft/node.go`) | a goroutine and its channels | `run`'s select loop, the calls that meet it |
| configuration changes (`raft/confchange`) | incoming and outgoing voters, learners | `EnterJoint`, `LeaveJoint`, `Simple`, `Restore` |
| read-only requests (`raft/read_only.go`) | pending reads and their acknowledgements | `addRequest`, `recvAck`, `advance` |
| fuzzing harness (`src/raft.go`, `fuzzer.go`) | nodes, message queues, crashed set, traces to mutate | `RunIteration`, `Tick`, `Step`, `Stop`, `Start`, trace replay |
| mutators (`src/mutator.go`) | a trace | swap, skip, combine |
| guiders, checkers, command line | visited states | outside the models but for one answer (section 6) |

**How they interact.** `raft` is deterministic and single-threaded. A caller
steps messages and ticks into it; each call changes the record and appends to
one of two outboxes: `msgs` (may leave at once) and `msgsAfterAppend`
(`MsgAppResp`, `MsgVoteResp`, `MsgPreVoteResp`: promises that only hold once the
current state is durable). `RawNode.Ready` hands out unstable entries, the hard
state and both outboxes. With synchronous writes the application stores and
sends them and calls `Advance`; with asynchronous ones it passes `MsgStorageAppend`
and `MsgStorageApply` to two threads, whose responses are stepped later. `Node` puts a
goroutine and channels around a `RawNode`. The fuzzer is an application of `RawNode`
with a network of queues it controls; it records its choices and replays them.

**What is hard.** Messages are lost, duplicated, delayed and reordered; a server
can crash between any two steps and in the middle of handling a Ready; answers
to an earlier term, round or probe arrive in a later one; storage writes complete
after what they wrote was overwritten; a leadership transfer races proposals and
elections; servers decide with different configurations; callers cancel while
the goroutine answers; what the leader believes of a follower is always out of
date. `PROJECT.json` lists each hazard at its line, with the properties about it.

**What makes each part correct.**

* *Elections*: at most one leader per term, across crashes and configuration
  changes; a leader has all that was committed.
* *Log*: entries of the same index and term have the same past; committed entries
  are never rewritten; memory and disk read as one log; entries are applied once,
  in order, and only when durable.
* *Tracker*: `Match` never exceeds what the follower has; the window holds exactly
  what is under way; no paused follower is forgotten.
* *RawNode and Node*: promises are durable first; what raft produces is handed over
  once; calls return.
* *Configuration changes*: the outcome is what was asked for, quorums of successive
  configurations meet, a joint configuration is left.
* *Reads*: a read sees all that was committed when it was asked, and is answered.
* *Fuzzer*: a trace replays; links are queues; mutants stay well-formed.

## 2. Modules

| module | models | composed from |
|---|---|---|
| `LogTerms` | the functions of `log.go` that work on a sequence of entries | |
| `RaftNode` | one server: every function of `raft.go` for elections, replication, transfer and ticks, from a server record to the record it leaves behind | `LogTerms` |
| `RaftCluster` | a group of RawNodes, their disks and the network | `RaftNode` |
| `RaftElections`, `RaftLogs`, `RaftCommits`, `RaftPanics` | the inductive invariants of elections, of replication, of commitment and of the panics that do not happen, each on top of the one before | `RaftCluster` |
| `RaftElectionProofs`, `RaftLogProofs`, `RaftCommitProofs`, `RaftCommitTheorems`, `RaftPanicProofs` | lemmas and theorems about the group (section 5) | `RaftPanics` |
| `SendWindow` | what the inflights window promises: the abstract specification | |
| `Inflights` | the ring buffer of `inflights.go` | |
| `FlowControl` | a leader feeding one follower: progress states, window, snapshots and their reports, payload sizes, compaction | `LogTerms`, `Inflights`; implements `SendWindow` |
| `FlowControlProofs` | lemmas and theorems about `FlowControl` and `Inflights`, the refinement among them | `FlowControl` |
| `DurableLog` | what a follower's log promises: the abstract specification | |
| `RaftLog` | the log over unstable entries and storage, with append and apply threads, snapshots, compaction, crashes | implements `DurableLog` |
| `DurableLogProofs` | lemmas and theorems about `RaftLog`, the refinement among them | `RaftLog` |
| `Quorums` | majority and joint vote results and commit indexes | |
| `ConfChange` | the `Changer`: `Simple`, `EnterJoint`, `LeaveJoint`, `Restore`, `checkInvariants` | `Quorums` |
| `Reconfiguration` | every sequence of changes a group can apply | `ConfChange` |
| `Membership` | conf changes through the log, with elections, snapshots, restarts | `ConfChange`, `LogTerms` |
| `ReadIndex` | linearizable reads with elections and restarts | `Quorums`, `LogTerms` |
| `NodeLoop`, `NodeLoopProofs` | the goroutine of `Node`, its channels and callers; theorems about them | |
| `Fuzzer` | campaigns, episodes, crashes, queues, replay, mutators | |
| `MC*` | the instances for TLC: inputs, symmetry, views | |

Names are the source's. In every module a Go panic sets a `panic` field and the
server takes no more steps; a property says that it does not happen.

**`RaftNode` and `RaftCluster`.** `Step(r, m)` is the record after `r.Step(m)`. The log
is one sequence from index 1; what is not stable is the difference between
`node[i].log` and `disk[i].log`. `electionElapsed` is only compared with
thresholds: a tick says which it reaches. `max-size-per-msg` becomes `MaxEntries`.
`sendRemaining` is the loop `for r.maybeSendAppend(...)` in closed form. Followers forward
proposals; with `DisableProposalForwarding` they drop them, as if none had come. `send` panics where
the code does: on a campaign message without a term, on any other message that has one, and on a
message to itself that is no promise. `net` is the
set of all messages ever sent: each can arrive late, twice, after others, or
never. `disk[i]` has `hs`, `log` and `synced`, the commit index that survives a power
loss, since `MustSync` asks for no sync when only the commit index moved.
`MaxPending` says how the application drives a server: with 0 each input is followed by
its Ready and the first step of Advance; with 1, inputs pile up, and messages
arrive between a Ready and its Advance. `Restart` strikes between any two actions,
`CrashInReady` inside a Ready: `entriesOnly`, `hardStateOnly`.

**`FlowControl`.** One term, one leader `l`, one follower `f`, two queues between them
whose messages may be overtaken, and lost or repeated up to `MaxFaults` times; the other
follower is the index it has acknowledged (`OtherAck`). The progress record holds
an `Inflights` record, so `Add`, `FreeLE`, `reset`, `grow` run where the code calls them. The panic of `Add`
on a full window, and the error of `UpdateOnEntriesSend` in `StateSnapshot`, which
`maybeSendAppend` turns into one, are in `refusesToSend`. A
MsgSnap brings a report, `ReportSnapshot`, at any later moment and either way.
`limitSize` leaves `MaxEntries`, and sizes are per entry.

**`RaftLog`.** One follower; leaders are a `Histories` table of what each term's leader's
log and commit index come to, so that messages are all true prefixes of some
leader's log. `n` is `raftLog` with `unstable` (offset, in-progress marks, snapshot),
`st` is `MemoryStorage` with the hard state; `appends`, `applies`, `resps` are the queues to and
from the threads. Overwritten entries remain in `appends` and reach the disk late:
the ABA scenario of `newStorageAppendRespMsg` is a behaviour of this model (the run's
history `Returning`), and the guard on the term is what `OneLog` needs. `nextCommitted` hands out at
least one entry; that the room it has is positive (`log.go:231`) is not modelled as a panic, since
`applyingEntsPaused` is set before the room is used up.

**`ConfChange`, `Reconfiguration`, `Membership`.** `ConfChange` has no variables: a
configuration is a record of incoming, outgoing, learners, learnersNext, autoLeave. A
change the Changer refuses is `Refused`. `Membership` puts changes in log entries. Its
replication is coarse on purpose (a MsgApp is handled when sent and answered at
once or never; a step includes its Ready); in exchange each server elects, counts
and commits with the configuration it has switched to itself. `configured` runs
ahead of `applied`, as `ApplyConfChange` comes before `Advance`.

**`ReadIndex`.** Queue and map of pending reads per leader, messages set aside until the
leader commits in its term, forwarding over any number of hops. Heartbeats carry
the last pending context; answers and forwarded requests are messages in `net`, elections
and replication are coarse.

**`NodeLoop`.** `n.pc` is where `run` stands: in `select`, sending a result, sending a
conf state, sending a status. An unbuffered channel is an action of two goroutines.
The raft behind it is who leads, whether the server is a member, and a numbered
sequence of what it has produced. A caller is in `call[c]`, with the operation and
what it waits for; callers with a context may cancel at any wait; the goroutine that handles
Readys is a caller too, of `ApplyConfChange` only. Ticks, `Advance` and configuration changes can make
the raft campaign, change its leader and produce messages (`node.go:376`, `407`, `418`). In the model
only `TakeMessage` does that: it can come right after any of them, so that the same states are reached
in two steps. Calls that put a message on `recvc` are a `Step`, or, without a context to cancel them, a
`ReportUnreachable` (which stands for `ReportSnapshot` as well).

**`Fuzzer`.** `tCtx` is `traceCtx`, a step of an episode is one action because the loop
body is sequential. Raft nodes are whom they send to, and they may fail at a
start, a delivery or a request. Mutators are the sets of traces a mutator can return.

## 3. What is checked

All runs are listed in `PROJECT.json` with their properties. `CHECK_DEADLOCK` is off
where the bounded inputs run out and an idle system stops (all but `flow_control`,
`inflights_reset` and `conf_change`).

| run | instance | properties |
|---|---|---|
| `core_three_servers` | 3 servers, logs of 2; 3 campaigns, a fourth where an old entry is contested; or 2 campaigns and a crash, or 1 and an unreachable report (`FourTermsOrOneFault`) | `TypeOK`, `LogMatching`, `StateMachineSafety`, `ElectionSafety`, `LeaderCompleteness`, `VotesOnDisk`, `AnswersHold`, `CommittedStable` |
| `core_prevote` | PreVote, CheckQuorum; until something is replicated (`NothingReplicated`) | `PreVoteGuardsTerm` |
| `core_two_servers` | 2 servers, everything: inputs pile up, a crash at every point of a Ready, a proposal, a heartbeat round, a transfer | `ClusterInv`, `NoPanic`, `LeaderAppendOnly`, `TransferTargetUpToDate` |
| `flow_control` | window of 2, a follower behind or diverged, a fault (one message lost or repeated, or all on a connection lost), a compaction | `FlowInv`, `OnlyUnappliedCounts`, `WindowSlides`, `FollowerKeepsCommitted`, `CatchesUp` |
| `raft_log` | 3 terms, logs of 3, 2 pending writes, a crash, a compaction | `LogInv`, `AckedIsDurable`, `OneLog`, `Settles` |
| `conf_change` | 4 peers, changes of up to 2 | `ConfigInv`, `OutcomeAsAsked`, `QuorumsMeet` |
| `membership` | 3 servers, from {s1} to {s2, s3} through a joint configuration, or to {s1, s2}; 2 terms, 2 inputs | `MembershipInv`, `SafeThroughChanges`, `ConfigFromLog`, `AutoLeaves` |
| `read_index` | 3 servers, 2 terms, 2 inputs: reads, a restart | `ReadInv`, `ReadsAreCurrent`, `ReadsAreAnswered` |
| `node_loop` | 2 callers and the application, 4 calls, both storage modes | `NodeInv`, `NothingLost`, `CallsReturn`, `ProposalsServed` |
| `fuzzer` | 2 replicas, 3 steps, 3 iterations, reseeding, 2 mutators | `FuzzerInv`, `ScheduleReplayed`, `LinksAreFifo`, `MutantsRearrange` |
| `core_prevote_crash` | 3 servers, PreVote, 2 terms, a crash between the entries and the hard state of a Ready | violates `NoPanic` |
| `inflights_reset` | as `flow_control` with a byte limit, no faults | violates `CatchesUp` |

Properties that belong together are conjunctions of named parts: `AnswersHold` is
`TermOnDisk`, `MatchOnDisk`, `CommittedOnDisks`, `ActiveInTerm`; `FlowInv` is `TypeOK`, `NoPanic`,
`WindowInProgress`, `MatchInLog`; and so on. The comment at each says what in the code
it is about.

**Why these bounds.** Three servers are the smallest group in which two quorums
differ and overlap in one. Two terms give every message of one leadership a
chance to arrive in the next; three give a leader that never learned of the second. For a
leader that commits by counting replicas what a later one overwrites (the reason for the term
check of `maybeCommit`) it takes four: the entry is made in the first, a rival entry in the second, the
first is replicated to a quorum in the third and overwritten in the fourth. Without that check
`LeaderCompleteness` fails in this run, and in none with three terms.
Each leader appends its own empty entry, so two terms produce diverging logs,
truncation and rejected probes without any client. One crash suffices to forget what
was promised. A window of two wraps around and grows. For the ABA problem three
terms and logs of three are enough: an entry, its replacement and its return.
Four peers allow two to leave and two to join at once. In `membership` the
old and the new configuration share no voter, so that each half of the joint one
matters. Two reads make one wait behind another. Three iterations of the
fuzzer are a seed, a reseed and a replay of a mutant. All bounds are constants
that appear in the guards of the actions they bound; `flow_control` also admits no
new input while `MaxNet` messages are under way, `raft_log` none while `MaxKept`
acknowledgements wait.

**Symmetry and views.** Nothing distinguishes servers in `RaftCluster`, and none of its
properties is a liveness property. Each view drops what no later step or
property reads: the progress of a server that does not lead and messages of terms
both ends have left (`MCRaftCluster`), which commit index is on disk when no restart is
left (`MCMembership`), answers that were counted or concern no waiting request
(`MCReadIndex`), and, of the fuzzer, what is not read before it is written again.
Two runs are cut off by a constraint on states, where their questions end:
`NothingReplicated` where replication starts (`core_prevote`), and `FourTermsOrOneFault`
(`core_three_servers`) where logs grow beyond two entries (`ShortLogs`), where a fourth
campaign starts before three terms had a leader, or no old entry that two servers have is
left for a rival to overwrite (`FourthIfContested`), and where a third campaign comes on top of a
crash, or a second on top of an unreachable report (`OneFault`).

### Refinements

* `FlowControl` implements `SendWindow` (`WindowSlides`): whatever `Add`, `FreeLE`, `reset` and
  `grow` do to the ring, the messages in flight (`Window`) are a sliding window of at most
  `MaxInflight` with increasing indexes.
* `RaftLog` implements `DurableLog` (`OneLog`): the log as the node reads it, unstable
  entries over storage, is one log whose committed part only grows; storage writes
  are invisible to it; the state machine gets each committed, durable entry once.

### Liveness and fairness

* `CatchesUp` (`FlowControl`): the leader ticks (weak fairness of `Beat`), messages that are
  not lost are delivered, the application reports on every snapshot, as `node.go`
  demands ("the application MUST report"). Proposals, compactions and faults are not fair.
* `Settles` (`RaftLog`): the application takes every Ready and both threads work. Terms
  change a bounded number of times: the comment on `newStorageAppendRespMsg` assumes that.
* `AutoLeaves` (`Membership`): entries are applied and messages to and from the leader
  get through in the end; the property is conditional on a leader that stays.
* `ReadsAreAnswered` (`ReadIndex`): messages to and from a leader that stays get through
  in the end, its ticks go on. Also conditional on that leader.
* `CallsReturn`, `ProposalsServed` (`NodeLoop`): goroutines run, and `select` chooses among what
  is ready, so ticks cannot keep the rest waiting. `ProposalsServed` is conditional on a
  leader, and on the server never being removed (see 4).

`RaftCluster`, `Reconfiguration` and `Fuzzer` are safety specifications without fairness: elections
need not succeed, and a campaign may stop at any time.

## 4. What the models showed about the code

**A panic, in run `core_prevote_crash`.** `send` panics on a campaign message without a term
(`raft.go:466-479`); its comment gives reasons why each kind has one, but for a pre-vote
it only speaks of the answers that grant it. A refusal carries the server's own term
(`raft.go:1143`), and that is 0 on a server that has a log but no hard state. There are such
servers: the library asks for "Entries first, then HardState" (`raft/README.md:116`), and a
crash may come in between. Three servers with PreVote suffice: one stores the first entries of a
leader of term 1, crashes, restarts, and is asked for a pre-vote by a server without entries. The
run finds it in seconds. `NoPanic` holds, and is proved, for crash points that exclude this
(`TermWithEntries`), and `core_two_servers` checks it without PreVote.

**A bug, in run `inflights_reset`.** `Inflights.reset` leaves `bytes` as it was. With
`MaxInflightBytes` set, a follower that falls back to probing while its window holds
bytes comes back with a window that is empty and full: nothing but empty
appends leaves for it any more.

**Not given a run of their own**, but met while modelling and reproducible by
reading the lines (files of the library are in `src/raft`, those of the fuzzer in `src`):

* `stepCandidate` counts a pre-vote grant in whatever round the candidate is when it
  arrives (`raft.go:1561`). Elections stay safe, and a server still needs a
  quorum of grants of this round or the one before (`PreVoteGuardsTerm`).
* `uncommittedSize` "may underestimate the size of the uncommitted Raft log tail but will never
  overestimate it" (`raft.go:1956-1958`), and `reduceUncommittedSize` speaks of "newly committed
  entries". It is called when entries were *applied* (`raft.go:1093`): entries that are committed
  and wait to be applied are still counted, and proposals may be refused although the
  uncommitted tail is below the limit. What does hold, `OnlyUnappliedCounts`, is about the
  entries that were not applied.
* `doc.go:79` allows messages to be sent while entries of the same batch are being
  written; the synchronous Ready of this version includes the acknowledgements of those
  entries (`rawnode.go:180`). An application that follows `doc.go` can lose a committed entry.
  The model's application sends after it has written.
* The comment on `ReportSnapshot` (`node.go:206`) says `SnapshotFinish` is a no-op; the
  code leaves the snapshot state and probes from the snapshot index.
* With asynchronous writes `loadState` or `newRaft` panics at a restart if the application
  compacts, or gives as `Config.Applied`, an index beyond the durable commit index. The model's
  application does neither.
* Configuration changes: an empty `ConfChangeV2` that names a transition is accepted in a
  joint configuration (`raft.go:1210`) and then panics when it is applied; so does one
  that removes the last voter. A removed leader goes on leading (the
  TODO at `raft.go:1838`). `Config.Clone` drops `AutoLeave`. `pendingConfIndex` is
  set even if `appendEntry` then refuses the proposal.
* Contexts of `ReadIndex` must not be reused: a repeated forwarded `MsgReadIndex` whose
  context is pending is ignored, and one whose context was answered is a new request.
* `Node`: a server that is removed and added back under the same leader keeps its proposals
  blocked (the comment at `node.go:383` suspects it). An application that proposes from
  the goroutine that handles Readys can block when there is no leader.
* The fuzzer: `IsClientRequest` records a request without its step (`fuzzer.go:156`), so a
  replay sends only the last one, at step 0; `CanStart` records a start also when the server
  was not stopped; two crashes that drew the same start step leave one server
  stopped; `ReseedFrequency` is left 0 by the `fuzz` command, and then divides
  (`fuzzer.go:271`); mutators that draw distinct positions do not end when there are too
  few, and `SwapMaxMessages` panics when the trace has a single node choice;
  mutators of Boolean and integer choices find none, as none are recorded.
* The checkers: `SingleLeader` reports two leaders of different terms, which raft allows;
  `SerializabilityChecker` compares at most 100 entries by a byte limit (`checker.go:24`).
* The environment stores entries and snapshots but neither hard state nor configuration
  (`src/raft.go:172`): a server it restarts can vote twice in a term, and raft's
  timeouts are random, so a replay repeats the schedule and not the execution.

## 5. What is proved

`RaftElectionProofs!TypeCorrect` is `Spec => []TypeOK`, for every finite set of
servers, every payload set, every configuration and every bound. The argument is
one lemma per operator, in the order of `RaftNode`, then one step
per action. The places where the types are not a matter of course: `maybeAppend`
slices the log and the message at the first conflict, and the slices exist only
because `findConflict` returns an index whose predecessors are all in the log;
`sendRemaining` builds messages at computed indexes, which are positive only
because `Next` is; `MaybeDecrTo` keeps `Next` positive whatever hint a follower
sends. The assumptions are `ServerAssumption`, `ConfigAssumption` (both in
`RaftNode`) and `BoundAssumption`, and TLC evaluates them in every run.

`RaftElectionProofs` proves, from the same assumptions and nothing else,

* `ElectionInvariance`: `Spec => []ElectionInv`,
* `AtMostOneLeader`: `Spec => []ElectionSafety`,
* `VotesSurvive`: `Spec => []VotesOnDisk`,

for every number of servers and every configuration, with PreVote and CheckQuorum
on or off, any way of piling up inputs and every crash point.

`ElectionSafety` is not inductive: a state with two candidates of one term, each
with a full tally, satisfies it and leads out of it. `ElectionInv` (in
`RaftElections`) adds what rules such states out, one link after the other:

1. a grant in an outbox or a pending step comes from this server, and the server
   still stands by it (`StoodBy`): it is at a later term, or in that term with that vote;
2. a server never contradicts its disk (`Durable`): that is why a restart, which
   returns to the disk, cannot take a vote back;
3. a grant in the network is one the *disk* of its sender stands by, since
   `MsgVoteResp` waits in `msgsAfterAppend` for the hard state to be written;
4. no two grants of one server in one term differ in their receiver;
5. whoever campaigns or leads holds the grants it counts (`Evidence`): a tally
   consists of grants in the network, a leader has a quorum of them besides its
   own vote, and its own vote is its hard state's.

Two leaders of one term would then have quorums with a server in common
(`QuorumsMeet`), which granted twice or granted against its own vote.
`Stamped` says that no vote or leader's message has term 0, the term by which
`Step` recognises local messages.

The proof is in two layers. The first describes what an operator of `RaftNode` may
do to a vote: nothing (`Quiet`) or record at most one and send grants of that one
only (`BallotStep`); there is one lemma per operator, up to `StepBallot` for the
whole of `Step`. The second shows that the actions keep `ElectionInv`: handlers by
`BallotKeeps`, a Ready by `WriteKeeps` and `EmptyKeeps` (writing moves grants from the
outbox to the network only with the disk), crashes by `RestartedKeeps`.

`RaftLogProofs` proves, from the same assumptions,

* `ClusterInvariance`: `Spec => []ClusterInv`,
* `LogsAlwaysMatch`: `Spec => []LogMatching`,
* `LeadersOnlyAppend`: `Spec => LeaderAppendOnly`, an action property.

`LogMatching` compares prefixes of two logs, and no handler sees two logs. What
handlers do pass on are *links* (`LogLinks`, `Carried`): an entry with its index and the
term of the entry before it. A `MsgApp` is a sequence of links, since its
`(index, logTerm)` is the place before its first entry, and `maybeAppend` accepts it
only where the follower's log has that place. `ClusterInv` (in `RaftLogs`) is `ElectionInv`
and two more invariants about the group:

1. `LinkInvariant`: of all links anywhere, in memory, on disk, in the network, in an
   outbox or waiting for `Advance`, there is one per index and term; its term was
   won (`Won`) by some server; and while a server leads, its log has all links of its
   term. New links come about only in the log of a leader, so the third part gives
   the first.
2. What the third part needs at a `becomeLeader`: that nothing was made in the new
   leader's term before. `ElectionSafety` does not say so, since the earlier leader
   may be gone, and may be the same server before a crash. `Won` says it for good:
   a quorum granted the term to `l`, all of `l`'s grants in the term are for itself, and `l`'s
   vote for itself is *on its disk*, so that it never campaigns in the term again.
3. `TrailInvariant` is why that vote is on disk once a grant is counted: a grant for `l`
   answers a request of `l`, which waited in `l`'s outbox for the hard state with `l`'s vote
   to be written. This is the one place where the proof needs that
   requests and grants alike leave after `Ready` is written (`readyMessages`, `Written`).

Again the proof has two layers. The first half of `RaftLogProofs` shows, operator by operator, that `Step` and
the ticks are `LogStep`s: a leader extends its log with entries of its term, anyone else takes
links only from the message it reads, and what leaves is `Honest`. The second half shows that
`LogStep`s (`StepKeeps`), writes (`WriteKeepsAll`), a Ready (`AcceptReadyKeepsAll`), Advance
(`AdvanceKeepsAll`) and restarts (`RestartKeepsAll`) keep `ClusterInv`. `LogMatching` follows by
looking at the largest index below a common one where the terms differ (`LinksAgree`): the
links right after it are equal, so the terms do not differ. That is an induction on
indexes, put as a least counterexample (`LeastElement`), which needs no induction
theorem with an operator parameter. `LeaderAppendOnly` is the leader's part of `LogStep`.

`RaftCommitTheorems` proves, from the same assumptions and one more,

* `CommitInvariance`: `Spec => []CommitInv`,
* `CommitsAgree`: `Spec => []StateMachineSafety`,
* `LeadersHaveCommits`: `Spec => []LeaderCompleteness`,
* `CommitsOnDisks`: `Spec => []CommittedOnDisks`,
* `CommitsStay`: `Spec => CommittedStable`, an action property.

The one more is `EntriesFirst`: the crash point `hardStateOnly` is not among
`CrashPoints`, that is, the application writes a Ready's entries before its hard
state or both at once, as the library's `README.md` asks ("Entries first, then HardState").
It is needed. A follower whose disk has a commit index beyond its entries commits,
after the restart, whatever is put there. `core_two_servers` has both crash points;
its `ClusterInv`, and the theorems above on types, votes and logs, do not need the assumption.

The invariant is about *keys* (`Keys`): an index, a term and the server that won
the term, which by `ClusterInv` say which entry is meant and what precedes it.
Messages stay in `net`, so that an acknowledgement of a key is on record for good, and
once a quorum is durably in later terms without having acknowledged a key, the key
is `Missed`: its leader will never count a quorum for it. All other keys are *live*
(`LiveKeys`), chosen or not, and `CommitInv` (in `RaftCommits`) says of them, on top of
`ClusterInv`, what would otherwise have to be said of entries that are already committed
and is then not inductive:

1. `OrderInvariant`: terms grow along logs, a leader's log ends in its term and has all
   that was ever sent or acknowledged in that term. A candidate whose log holds a term after its
   own is `Beaten`. There are such candidates, since entries can be on disk before
   the hard state with their term is (the crash point `entriesOnly`).
2. `AckInvariant`: whoever acknowledged an index in a term has, in memory and,
   once the answer has left, on disk, what the owner of a live key of that or an earlier
   term has, up to the lower of the two. Answers wait in `msgsAfterAppend` for this reason.
3. `KeyInvariant`: a log that has anything after a live key has the key (`Complete`), the
   owner keeps it, every leader of the same or a later term has it, what such leaders send agrees
   with it (`Respects`), and a candidate that was granted a vote by a server that `Holds` the
   key has a log that reaches beyond it. This last part is `isUpToDate`, and with the
   quorum that a live key still has it gives that whoever wins has the key.
4. `SealInvariant`: a commit index other than 0, in memory, on disk or in a message, is
   at or below a live key that a quorum acknowledged (`Chosen`), in a log that is the
   owner's up to there (`Sealed`); what a leader believes of its followers is on record
   as an acknowledgement of its own term (`Counted`), and the commit index a heartbeat carries
   is one its receiver acknowledged (`Told`).

The cases with most in them are a leader that is elected (it must have every live
key), the truncation in `maybeAppend` (what is cut off is no live key), a vote that is granted (`Holds`
decides which live keys the candidate must have) and `maybeCommit`, whose term check is
what makes a counted index a chosen key of the leader's own term.

As before the first half of `RaftCommitProofs` describes the operators one by one: `Steady` for those
that only send, `Mindful` for a whole step, with the message each change owes to.
The second half treats Ready, writes and restarts as one kind of step that says
nothing new (`Settles`) and shows what a `Mindful` step keeps of live keys;
`RaftCommitTheorems` puts the actions together (`CommitNext`) and derives the
properties. `CommitInv` was checked with TLC before it was proved: with three servers, two terms and a crash between two Readys it holds in all 45,000 states, which
takes four minutes. It is in no listed run because it is slow to evaluate (`LiveKeys` quantifies over
the quorums for each key), and what it implies is in the runs.

`RaftPanicProofs` proves, from the same assumptions, `EntriesFirst` and `TermWithEntries`,

* `PanicInvariance`: `Spec => []PanicInv`,
* `NeverPanics`: `Spec => []NoPanic`.

`TermWithEntries` says that with PreVote the crash point `entriesOnly` is excluded too, so that
a Ready is written as a whole. Both assumptions are needed once there are three servers. A hard
state without its entries can have a commit index that the log on disk does not reach, and `newRaft`
panics on it; entries without their hard state lead to the panic of `core_prevote_crash`. `PanicInv` (in `RaftPanics`) is `CommitInv` and the bookkeeping of leadership. What each `Panicf`
takes to be out of reach:

* `commitTo` beyond the log: the commit index of a heartbeat was acknowledged by its
  receiver in the heartbeat's term and is below a live key (`Told`), and what was acknowledged up to a
  live key stays (`AckInvariant`), in whatever term the heartbeat arrives.
* a conflict at or below the commit index (`maybeAppend`): no `MsgApp` under way contradicts what
  its receiver has committed, since both copy live keys (`NoClash`).
* a follower that needs a snapshot (`maybeSendAppend`): `Next` is at most one past the leader's log
  (`Fit`). It is raised to what was acknowledged, and nobody acknowledged more than
  the leader has (`LeaderKnows`); to what was sent; or taken from a hint, which is bounded by the
  rejected index. The leader never sends to itself because its own progress stays paused.
* a proposal or a transfer request forwarded to oneself (`send`): a follower follows who won
  its term (`Obeys`), and not itself. That holds because only leaders send `MsgApp` and `MsgHeartbeat`
  (`Directed`), and never to themselves.
* a pre-vote or its answer without a term (`send`): a request asks for the term after the
  sender's (`Polled`), a grant repeats it, and who refuses one has entries and then a term, in memory
  and on disk (`Titled`, by `TermWithEntries`), or is at the requested term or beyond it. A `MsgVote` raises the
  term of whoever answers it, to 1 at least.
* any other message that already has a term (`send`): only proposals and transfer requests are sent on
  as they came, and proposals have none (`Directed`).
* a transfer request that already has a term (`send`): it has one once it was forwarded to the
  winner of that term, which is then no follower of another in that term (`OneWinner`).
* a candidate or leader that takes a role it cannot: by the roles in which `Step` calls
  `becomeCandidate`, `becomePreCandidate` and `becomeLeader`.
* a commit index beyond the log at a restart (`newRaft`): a disk has what its hard
  state says is committed (`Sealed`).

The first layer has one lemma per operator: `Calm` for those that keep role, term and leader and
the server `Fit`, `Sound` for a whole step, under the condition that the message is `Apt`. The
second shows that `PanicInv` makes every message `Apt` for its receiver (`HeardApt`) and is
kept by every action (`PanicNext`). `PanicInv` was checked with TLC before it was proved, in the
instances of `core_two_servers` (with PreVote and no crash point inside a Ready, too) and `core_prevote`, and with
three servers, two terms and a crash.

`FlowControlProofs` proves, for every window and buffer size, limit, log, number of faults and of
messages under way,

* `FlowInvariance`: `Spec => []FlowInvariant`,
* `FlowIsSound`: `Spec => []FlowInv`,
* `OnlyUnappliedIsCounted`: `Spec => []OnlyUnappliedCounts`,
* `CommittedIsKept`: `Spec => FollowerKeepsCommitted`, an action property,
* `InflightsSlide`: `Spec => WindowSlides`, the refinement of `SendWindow`.

The assumptions are `FlowAssumption` and `InflightAssumption`, which TLC evaluates. The one that is
more than a type is `LogsMatch`: the logs that leader and follower start with agree up to each index
at which their terms agree, which is what `LogsAlwaysMatch` proves of the group. `FlowInv` is not
inductive: it says nothing of messages. `FlowInvariant` adds

1. `ForFollower` and `ForLeader`: every message under way is right whenever it arrives. An append or a
   snapshot is a part of the leader's log (`Carries`); an acknowledged index, and the commit index
   of a heartbeat, are ones up to which both logs agree (`Agree`). The leader's log only grows and the
   follower's never loses what agrees (`Fits`), so being right lasts. That is why a stale
   acknowledgement cannot raise `Match` too far, nor a stale append shorten the log.
2. `Accounts`: what the leader notes of the follower. `Next` is at most one past the log and,
   while the leader replicates, above `Match`; the window is increasing and between them
   (`InWindow`); a pending snapshot is in the log.
3. `Ring`: the ring buffer. The slots in use are there although the buffer grows on demand, and they do
   not wrap around before it has its full size, which `grow`, copying from the front, relies on. The
   bytes counted are *at least* those in flight: at least, because `reset` leaves them (section 4).
4. `uncommittedSize` is at most `TailSize`, the payload of the tail that was not applied.

The layers: sums over sequences; `Add`, `grow`, `FreeLE` and `reset` as operations on a ring, and as
slides of the window (`Slid`); what the progress may do (`Moved`); the leader's operators (`Feeds`) and
the follower's (`Keeps`, `Answers`); then one lemma per action (`Kept`), put together in
`StepKept`. `SumOf` and the loop of `sendRemaining` are recursive functions on numbers. What they
compute is proved by induction on sets of numbers (`AllNaturals`, from the least number outside),
which, unlike the library's induction theorem, takes no operator.

`NodeLoopProofs` proves, for any number of callers and calls and both storage modes,

* `ChannelsSafe`: `Spec => []NodeInv`,
* `HandedOver`: `Spec => []NothingLost`.

Its invariant `IInv` adds to the types what a Ready that is on offer contains: all that the
raft had produced when it was computed, a prefix of what it has produced since
(`OfferInv`); and, for `OwnConfState`, which caller the loop serves while it sends on
`confstatec` (`Answers`). The constants need `NodeLoopAssumption` only.

`DurableLogProofs` proves, for every history of leaders, any number of pending writes and of responses
under way, any limit on what is being applied, crashes and compactions,

* `LogInvariance`: `Spec => []LogInvariant`,
* `LogIsSound`: `Spec => []LogInv`,
* `AcksAreDurable`: `Spec => []AckedIsDurable`,
* `LogImplements`: `Spec => OneLog`, the refinement of `DurableLog`.

The assumption is `LogAssumption`, which TLC evaluates. Its part that is more than a type is
`IsHistory`: what each term's leader has in its log is what a leader of raft can have there, which is
what `LogsAlwaysMatch` and `LeadersHaveCommits` prove of the group. None of the properties is inductive:
they say nothing of the appends and responses under way, and what an append will have been good for
depends on all that is written before it. So the invariant speaks of *points*: the log as the
node read it when it accepted a Ready, with the hard state. `LogInvariant` says that there are points
`D`, one for each response that is not stepped yet, and `X`, the storage and one for each
pending append, such that (`Fits`)

1. `Past`: each append, written over the point before it, makes the next (`Writes`), its acknowledgements
   and its `index` and `logTerm` are true of its point (`Asks`), and points only go forward (`Later`):
   terms and commit indexes grow, and in one term the log only comes closer to its leader's.
2. `Present`: the node is after all points (`Ahead`); what is not in progress, written over the last of them,
   makes its log (`Owed`), which is `truncateAndAppend`; below `offset` every point agrees with the log
   (`Settled`), which is why a response may drop entries only if it is of this term: two points of a
   term with the same last entry agree, points of two terms need not, the ABA case.
3. `NodeOK`, `StorageOK`: every entry of the log was made by the leader of its term after what precedes it there
   (`True`), and what is committed a leader has committed (`Sanctioned`).
4. `Applies`, `Kept`: the state machine has a part of the log and of every point, what waits for the apply thread
   continues it, and what was acknowledged is on disk while the disk is in that term.

The points are no part of the state, and the proof provides them: a Ready adds one to `X`, the append
thread moves the first from `X` to `D`, a response takes one out of `D`, a crash keeps the storage.
The layers: sequences and agreement; `maybeAppend`, `truncateAndAppend`, `restore`; Ready; the
two threads; the responses; compaction and restart; then one lemma per action.
`LogImplements` follows since a step that keeps `Fits` keeps the log up to the commit index.

Only model-checked: the other parts of `AnswersHold` (`TermOnDisk`, `MatchOnDisk`,
`ActiveInTerm`), `PreVoteGuardsTerm` and `TransferTargetUpToDate` of the core, the properties of
`Reconfiguration`, `Membership`, `ReadIndex` and `Fuzzer`. Out of
reach of the prover: liveness.

`MatchOnDisk` needs more than `EntriesFirst`. In a group of five, a follower that acknowledged an
entry which is not committed can have it overwritten in memory by a later leader and crash
with only the new entries on disk. It restarts in its old term, and the old leader, which
may still lead that term, counts a Match that is no longer there. Nothing is lost by it: the
entry can be committed only if a quorum has it, and then the later leader had it too, which is why
`CommitInvariance` holds with the crash point `entriesOnly`. `core_three_servers`, which checks
`AnswersHold`, has no crash inside a Ready.

## 6. Not modelled

* Lease-based reads (`ReadOnlyLeaseBased`): their safety rests on clocks. Groups of one
  voter and learners that ask for reads, which `stepLeader` answers at once.
* `Bootstrap`, and the string syntax of configuration changes. Learners take part in
  `ConfChange` and are left out of `Membership`'s replication unless a change demotes to one.
* Elections and replication in `Membership` and `ReadIndex` are coarse: their detail is in
  `RaftCluster`, with a fixed configuration and without reads. One model with
  both would be beyond TLC. In particular pre-vote, check-quorum and transfers are not
  combined with changes of configuration.
* What the fuzzer's raft servers remember across a restart; the two checkers; the
  scaling mutators and the strategies, which no campaign uses; hashing, the
  coverage server's HTTP client, plotting, the command line.
* Liveness of elections: with random timeouts they succeed with probability 1, which
  no fairness condition over ticks expresses.
* Marshalling (generated code), logging and status printing.

## 7. What is left to prove

1. `TermOnDisk`, `ActiveInTerm` and, for Readys that are written whole, `MatchOnDisk`, so that all of
   `AnswersHold` is proved.
2. `Quorums`: two joint quorums meet if their configurations are joint or share a
   half, for every set of voters; from it `QuorumsMeet` of `Reconfiguration`.
3. `LinksAreFifo` of `Fuzzer`: an invariant that is close to inductive.
