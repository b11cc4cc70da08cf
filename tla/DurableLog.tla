----------------------------- MODULE DurableLog -----------------------------
(***************************************************************************)
(* What a follower's log promises, whatever is in memory, in storage, or on *)
(* the way between the two: one log whose committed entries never change,   *)
(* a state machine that applies committed and durable entries in order, and *)
(* a crash that takes back no applied entry from the disk.                  *)
(***************************************************************************)
EXTENDS Naturals, Sequences, SequencesExt

CONSTANT Term

VARIABLES
    log,        \* the log as the node reads it
    committed,  \* its commit index
    disk,       \* what the storage holds
    machine     \* the entries applied to the state machine

vars == <<log, committed, disk, machine>>

Init == log = <<>> /\ committed = 0 /\ disk = <<>> /\ machine = <<>>

Committed == SubSeq(log, 1, committed)

\* Entries are appended or overwritten, but for the committed ones; the commit
\* index advances within the log.
Change ==
    /\ log' \in Seq(Term) /\ committed' \in committed..Len(log')
    /\ IsPrefix(Committed, log')
    /\ UNCHANGED <<disk, machine>>

\* The storage changes, which no reader of the log sees; a snapshot that it is
\* given reaches the state machine too.
Persist ==
    /\ disk' \in Seq(Term) /\ machine' \in Seq(Term)
    /\ IsPrefix(machine, machine') /\ IsPrefix(machine', Committed) /\ IsPrefix(machine', disk')
    /\ UNCHANGED <<log, committed>>

\* More of the committed entries that are on disk reach the state machine.
Apply ==
    /\ machine' \in Seq(Term)
    /\ IsPrefix(machine, machine') /\ IsPrefix(machine', Committed) /\ IsPrefix(machine', disk)
    /\ UNCHANGED <<log, committed, disk>>

\* What is on disk survives; the state machine starts over from a snapshot.
Crash ==
    /\ log' = disk /\ committed' \in 0..committed /\ committed' <= Len(disk)
    /\ machine' \in Seq(Term) /\ IsPrefix(machine', machine)
    /\ UNCHANGED disk

Next == Change \/ Persist \/ Apply \/ Crash

Spec == Init /\ [][Next]_vars
=============================================================================
