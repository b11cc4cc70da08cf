------------------------------ MODULE NodeLoop ------------------------------
(***************************************************************************)
(* The Node of raft/node.go: one goroutine (run) owns the raft and selects *)
(* among channels; the goroutines of the application call the methods of   *)
(* Node, each of which meets run on one or two channels.                   *)
(*                                                                         *)
(* The raft itself is what run can tell of it: who leads, and a sequence of*)
(* what it has produced for the next Ready (messages and entries alike),   *)
(* numbered.  A step of run is a case of its select and the head of its    *)
(* loop.                                                                   *)
(***************************************************************************)
EXTENDS Integers, Sequences, FiniteSets

CONSTANTS
    Caller,      \* the goroutines that call Node
    App,         \* the one that handles Readys
    None,        \* no leader, nobody
    Leaders,     \* who may lead
    TickBuffer,  \* capacity of tickc
    MaxCalls     \* calls made by all goroutines

ASSUME NodeLoopAssumption ==
    /\ App \in Caller /\ None \notin Caller \cup Leaders
    /\ {TickBuffer, MaxCalls} \subseteq Nat

VARIABLES
    n,       \* run's variables and where it is; the channels it listens on
    r,       \* the raft
    async,   \* Config.AsyncStorageWrites
    tickc,   \* ticks in the channel
    done,    \* the channel is closed
    call,    \* the call each goroutine is in
    app,     \* where App is between two Readys
    handed,  \* all that Readys brought to App
    calls    \* calls made so far
vars == <<n, r, async, tickc, done, call, app, handed, calls>>

Proposals == {"Propose", "ProposeConfChange"}
Op == Proposals \cup {"Step", "ReportUnreachable", "Status", "ApplyConfChange", "Stop"}
WithContext == Proposals \cup {"Step"}

TypeOK ==
    /\ n.pc \in {"select", "result", "confState", "status"}
    /\ n.peer \in Caller \cup {None}
    /\ {n.readyc, n.advancec, n.propc} \subseteq BOOLEAN
    /\ n.lead \in Leaders \cup {None}
    /\ n.rd \in Seq(1..r.made) /\ n.readyc = (n.rd # <<>> /\ ~n.advancec)
    /\ r.lead \in Leaders \cup {None} /\ r.member \in BOOLEAN
    /\ r.made \in Nat /\ r.msgs \in Seq(1..r.made) /\ r.panic \in BOOLEAN
    /\ async \in BOOLEAN /\ done \in BOOLEAN
    /\ tickc \in 0..TickBuffer
    /\ call \in [Caller -> [op : Op \cup {None}, pc : {"idle", "send", "wait"},
                            got : Caller \cup {None}, result : {"none", "nil", "dropped"}]]
    /\ app \in {"ready", "handling", "advance", "exited"}
    /\ handed \in Seq(1..r.made)
    /\ calls \in 0..MaxCalls

----------------------------------------------------------------------------
(* RawNode, as far as run uses it *)

produced(s) == [s EXCEPT !.made = @ + 1, !.msgs = Append(@, s.made + 1)]

HasReady(s) == s.msgs # <<>>

\* acceptReady takes it that the Ready is all there is; what the raft sent to
\* itself waits for Advance.
acceptReady(s, rd) ==
    IF async THEN [s EXCEPT !.msgs = <<>>]
    ELSE [s EXCEPT !.msgs = <<>>, !.stepsOnAdvance = TRUE, !.panic = @ \/ s.stepsOnAdvance]

----------------------------------------------------------------------------
(* run *)

\* A plausible slip: a Ready is computed once and offered until it is taken.
offered_Once(m, s) == ~m.advancec /\ HasReady(s) /\ ~m.readyc

\* Whether the Ready is computed, or computed again.
offered(m, s) == ~m.advancec /\ HasReady(s)

\* A plausible slip: proposals are taken when a first leader appears.
head_FirstLeaderOnly(m, s) ==
    LET o == IF offered(m, s) THEN [m EXCEPT !.rd = s.msgs, !.readyc = TRUE] ELSE m
    IN  IF o.lead = s.lead THEN o
        ELSE [o EXCEPT !.propc = s.lead # None /\ o.lead = None, !.lead = s.lead]

\* The head of the loop.
head(m, s) ==
    LET o == IF offered(m, s) THEN [m EXCEPT !.rd = s.msgs, !.readyc = TRUE] ELSE m
    IN  IF o.lead = s.lead THEN o ELSE [o EXCEPT !.propc = s.lead # None, !.lead = s.lead]

\* A plausible slip: the state after a conf change is one more case of select.
Selects_WithConfState == ~done /\ n.pc \in {"select", "confState"}

Selects == ~done /\ n.pc = "select"
Sends(c, ops) == call[c].pc = "send" /\ call[c].op \in ops

idle == [op |-> None, pc |-> "idle", got |-> None, result |-> "none"]
returned(c) == [call EXCEPT ![c] = idle]
waiting(c) == [call EXCEPT ![c].pc = "wait"]

\* <-propc: the raft may refuse a proposal.
TakeProposal(c) ==
    /\ Selects /\ n.propc /\ Sends(c, Proposals)
    /\ \E err \in {"nil", "dropped"} :
         /\ r' = IF err = "nil" THEN produced(r) ELSE r
         /\ IF call[c].op = "Propose"
            THEN /\ n' = [n EXCEPT !.pc = "result", !.peer = c, !.err = err]
                 /\ call' = waiting(c)
            ELSE n' = head(n, r') /\ call' = returned(c)
    /\ UNCHANGED <<async, tickc, done, app, handed, calls>>

\* A plausible slip: the result's channel has no buffer.
room_Unbuffered(c) == call[c].pc = "wait"

\* The result's channel has room for one, whether its reader waits or has left.
room(c) == TRUE

SendResult ==
    /\ ~done /\ n.pc = "result" /\ room(n.peer)
    /\ call' = IF call[n.peer].op = "Propose" /\ call[n.peer].pc = "wait"
               THEN [call EXCEPT ![n.peer].result = n.err] ELSE call
    /\ n' = head([n EXCEPT !.pc = "select", !.peer = None, !.err = "none"], r)
    /\ UNCHANGED <<r, async, tickc, done, app, handed, calls>>

\* <-recvc: a response of a peer that is not known is dropped; any other
\* message may change who leads.  Ticks, Advance and conf changes may do so too;
\* as messages come at any time, the raft moves here only.
TakeMessage(c) ==
    /\ Selects /\ Sends(c, {"Step", "ReportUnreachable"})
    /\ \/ r' = r
       \/ \E lead \in Leaders \cup {None} : r' = [produced(r) EXCEPT !.lead = lead]
    /\ n' = head(n, r') /\ call' = returned(c)
    /\ UNCHANGED <<async, tickc, done, app, handed, calls>>

\* <-confc: who is removed takes no more proposals.
TakeConfChange(c) ==
    /\ Selects /\ Sends(c, {"ApplyConfChange"})
    /\ \E member \in BOOLEAN :
         /\ r' = [r EXCEPT !.member = member]
         /\ n' = [n EXCEPT !.pc = "confState", !.peer = c,
                           !.propc = IF r.member /\ ~member THEN FALSE ELSE @]
    /\ call' = waiting(c)
    /\ UNCHANGED <<async, tickc, done, app, handed, calls>>

\* confstatec <- cs, to anyone who reads it.
SendConfState(c) ==
    /\ ~done /\ n.pc = "confState"
    /\ call[c].op = "ApplyConfChange" /\ call[c].pc = "wait" /\ call[c].got = None
    /\ call' = [call EXCEPT ![c].got = n.peer]
    /\ n' = head([n EXCEPT !.pc = "select", !.peer = None], r)
    /\ UNCHANGED <<r, async, tickc, done, app, handed, calls>>

TakeTick ==
    /\ Selects /\ tickc > 0
    /\ tickc' = tickc - 1
    /\ n' = head(n, r)
    /\ UNCHANGED <<r, async, done, call, app, handed, calls>>

\* readyc <- rd: App reads the next Ready also while it handles one.
SendReady ==
    /\ Selects /\ n.readyc /\ app # "exited"
    /\ handed' = handed \o n.rd
    /\ app' = "handling"
    /\ r' = acceptReady(r, n.rd)
    /\ n' = head([n EXCEPT !.readyc = FALSE, !.advancec = ~async,
                           !.rd = IF async THEN <<>> ELSE @], r')
    /\ UNCHANGED <<async, tickc, done, call, calls>>

\* <-advancec: RawNode.Advance steps what the raft sent to itself.
TakeAdvance ==
    /\ Selects /\ n.advancec /\ app = "advance"
    /\ r' = [r EXCEPT !.stepsOnAdvance = FALSE]
    /\ app' = "ready"
    /\ n' = head([n EXCEPT !.rd = <<>>, !.advancec = FALSE], r')
    /\ UNCHANGED <<async, tickc, done, call, handed, calls>>

\* <-status: the answer goes to a channel of the caller's own.
TakeStatus(c) ==
    /\ Selects /\ Sends(c, {"Status"})
    /\ n' = [n EXCEPT !.pc = "status", !.peer = c] /\ call' = waiting(c)
    /\ UNCHANGED <<r, async, tickc, done, app, handed, calls>>

SendStatus ==
    /\ ~done /\ n.pc = "status" /\ call[n.peer].pc = "wait"
    /\ call' = returned(n.peer)
    /\ n' = head([n EXCEPT !.pc = "select", !.peer = None], r)
    /\ UNCHANGED <<r, async, tickc, done, app, handed, calls>>

TakeStop(c) ==
    /\ Selects /\ Sends(c, {"Stop"})
    /\ done' = TRUE /\ call' = waiting(c)
    /\ UNCHANGED <<n, r, async, tickc, app, handed, calls>>

----------------------------------------------------------------------------
(* The callers *)

\* App calls only what handling a Ready takes.
Begin(c, op) ==
    /\ call[c].pc = "idle" /\ calls < MaxCalls
    /\ c = App => op = "ApplyConfChange" /\ app = "handling"
    /\ call' = [call EXCEPT ![c] = [idle EXCEPT !.op = op, !.pc = "send"]]
    /\ calls' = calls + 1
    /\ UNCHANGED <<n, r, async, tickc, done, app, handed>>

\* Tick never waits: a tick that does not fit is dropped.
Tick ==
    /\ tickc < TickBuffer /\ ~done
    /\ tickc' = tickc + 1
    /\ UNCHANGED <<n, r, async, done, call, app, handed, calls>>

Returns(c) == call' = returned(c) /\ UNCHANGED <<n, r, async, tickc, done, app, handed, calls>>

Cancelled(c) ==
    /\ call[c].pc # "idle" /\ call[c].op \in WithContext
    /\ Returns(c)

\* What has been received is returned.
Answered(c) ==
    /\ call[c].result # "none" \/ call[c].got # None
    /\ Returns(c)

\* Where a call also listens on done.
seesDone(c) ==
    \/ call[c].pc = "send"
    \/ call[c].pc = "wait" /\ call[c].op \in {"Propose", "Stop", "ApplyConfChange"}

Stopped(c) == done /\ seesDone(c) /\ Returns(c)

\* App has handled its Ready, and calls Advance unless writes are asynchronous.
Handled ==
    /\ app = "handling" /\ call[App].pc = "idle"
    /\ app' = IF async THEN "ready" ELSE "advance"
    /\ UNCHANGED <<n, r, async, tickc, done, call, handed, calls>>

\* Advance returns, and App no longer waits for a Ready.
AppExits ==
    /\ done /\ app \in {"ready", "advance"}
    /\ app' = "exited"
    /\ UNCHANGED <<n, r, async, tickc, done, call, handed, calls>>

Init ==
    /\ n = [pc |-> "select", peer |-> None, err |-> "none", rd |-> <<>>, readyc |-> FALSE,
            advancec |-> FALSE, propc |-> FALSE, lead |-> None]
    /\ r = [lead |-> None, member |-> TRUE, made |-> 0, msgs |-> <<>>, stepsOnAdvance |-> FALSE,
            panic |-> FALSE]
    /\ async \in BOOLEAN
    /\ tickc = 0 /\ done = FALSE
    /\ call = [c \in Caller |-> idle]
    /\ app = "ready" /\ handed = <<>> /\ calls = 0

Works ==
    \/ SendResult \/ SendReady \/ TakeAdvance \/ SendStatus \/ Handled \/ AppExits
    \/ \E c \in Caller : \/ TakeProposal(c) \/ TakeMessage(c) \/ TakeConfChange(c)
                         \/ SendConfState(c) \/ TakeStatus(c) \/ TakeStop(c)
                         \/ Answered(c) \/ Stopped(c)

Next ==
    \/ Works
    \/ Tick \/ TakeTick
    \/ \E c \in Caller : Cancelled(c) \/ \E op \in Op : Begin(c, op)

\* Goroutines run, and select chooses at random among what is ready: ticks do
\* not keep run from the rest, of which there is finitely much.
Spec == Init /\ [][Next]_vars /\ WF_vars(Works)

----------------------------------------------------------------------------
(* Properties *)

\* What the raft produces is handed over once, in order: a Ready that waits
\* while messages are stepped is not out of date when it is taken (run's first
\* comment), as acceptReady forgets what it believes was in it.
NothingLost == handed \o r.msgs = [k \in 1..r.made |-> k]

\* "two accepted Ready structs without call to Advance" does not happen
\* (raft/rawnode.go, acceptReady).
NoPanic == ~r.panic

\* ApplyConfChange returns the state after its own change, though all its
\* callers read the same channel.
OwnConfState == \A c \in Caller : call[c].got \in {None, c}

\* Every channel carries what it is for to whom it is for (OwnConfState), one
\* Ready at a time (NoPanic).
NodeInv == TypeOK /\ NoPanic /\ OwnConfState

\* A call without a context returns, whatever the others do: also if a proposer
\* leaves, or the node is stopped before, while or after it is accepted.
CallsReturn ==
    \A c \in Caller :
      call[c].op \in Op \ WithContext ~> call[c].pc = "idle"

\* A proposer that keeps waiting is answered once there is a leader for good,
\* or the node is stopped, if the server is never removed.
ProposalsServed ==
    [](r.member) /\ <>[](r.lead # None) =>
      \A c \in Caller : call[c].op \in Proposals ~> call[c].pc = "idle"
=============================================================================
