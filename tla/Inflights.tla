----------------------------- MODULE Inflights -----------------------------
(***************************************************************************)
(* The window of MsgApps sent to one follower and not acknowledged yet:    *)
(* raft/tracker/inflights.go.  A ring buffer that grows by doubling up to  *)
(* MaxInflight slots, with a budget of MaxInflightBytes bytes.             *)
(*                                                                         *)
(* Slot k of the Go slice is buffer[k + 1] here; every method of Inflights *)
(* is an operator from the record to the record it leaves behind.          *)
(***************************************************************************)
EXTENDS Integers, Sequences

CONSTANTS
    MaxInflight,       \* Config.MaxInflightMsgs
    MaxInflightBytes   \* Config.MaxInflightBytes, 0: no limit

ASSUME InflightAssumption == MaxInflight \in Nat \ {0} /\ MaxInflightBytes \in Nat

Slot == [index : Nat, bytes : Nat]
InflightsType == [start : Nat, count : Nat, bytes : Nat, buffer : Seq(Slot)]

NewInflights == [start |-> 0, count |-> 0, bytes |-> 0, buffer |-> <<>>]

\* A position of the ring, counted from 0.
Rotate(k) == IF k >= MaxInflight THEN k - MaxInflight ELSE k

\* The k-th message in flight, the oldest being number 1.
At(in, k) == in.buffer[Rotate(in.start + k - 1) + 1]

\* What the ring stands for: the messages in flight, the oldest first.
Window(in) == [k \in 1..in.count |-> At(in, k)]

\* A plausible slip: one message too many.
Full_OffByOne(in) == in.count > MaxInflight

Full(in) ==
    \/ in.count = MaxInflight
    \/ MaxInflightBytes # 0 /\ in.bytes >= MaxInflightBytes

\* The slice doubles, from 1 on, up to MaxInflight; the new slots are zero.
grow(in) ==
    LET double  == 2 * Len(in.buffer)
        newSize == IF double = 0 THEN 1 ELSE IF double > MaxInflight THEN MaxInflight ELSE double
    IN  [in EXCEPT !.buffer =
            [k \in 1..newSize |-> IF k <= Len(in.buffer) THEN in.buffer[k]
                                  ELSE [index |-> 0, bytes |-> 0]]]

\* Add to a window that is not full (for a full one it panics: refusesToSend in
\* FlowControl).
Add(in, index, bytes) ==
    LET next == Rotate(in.start + in.count)
        room == IF next >= Len(in.buffer) THEN grow(in) ELSE in
    IN  [room EXCEPT !.buffer[next + 1] = [index |-> index, bytes |-> bytes],
                     !.count = @ + 1, !.bytes = @ + bytes]

\* The first k messages in flight are those acknowledged by `to'.
Acknowledged(in, to, k) ==
    /\ \A j \in 1..k : At(in, j).index <= to
    /\ k < in.count => At(in, k + 1).index > to

\* The loops that add up sizes, here and in payloadsSize.
SumOf(sizes) ==
    LET sum[k \in 0..Len(sizes)] == IF k = 0 THEN 0 ELSE sum[k - 1] + sizes[k]
    IN  sum[Len(sizes)]

\* The bytes of the first k messages in flight.
BytesOf(in, k) == SumOf([j \in 1..k |-> At(in, j).bytes])

\* FreeLE: the start index is reset when the window is empty.
FreeLE(in, to) ==
    LET k == CHOOSE j \in 0..in.count : Acknowledged(in, to, j)
    IN  [in EXCEPT !.start = IF k = in.count THEN 0 ELSE Rotate(@ + k),
                   !.count = @ - k, !.bytes = @ - BytesOf(in, k)]

\* reset leaves the bytes as they are.
resetInflights(in) == [in EXCEPT !.count = 0, !.start = 0]
=============================================================================
