----------------------------- MODULE SendWindow -----------------------------
(***************************************************************************)
(* What the inflights window promises its caller (the comment on Inflights *)
(* in raft/tracker/inflights.go): it limits the messages under way, whose  *)
(* indexes increase, and an acknowledgement releases the oldest of them.   *)
(***************************************************************************)
EXTENDS Integers, Sequences

CONSTANT MaxInflight
VARIABLE window   \* the messages in flight, the oldest first

Increasing == \A j, k \in 1..Len(window) : j < k => window[j].index < window[k].index

Init == window = <<>>

\* The oldest k leave, new ones join at the end.
Slide(k) ==
    /\ Len(window') >= Len(window) - k
    /\ SubSeq(window', 1, Len(window) - k) = SubSeq(window, k + 1, Len(window))
    /\ Len(window') <= MaxInflight
    /\ Increasing'

Next == \E k \in 0..Len(window) : Slide(k)

Spec == Init /\ [][Next]_window
=============================================================================
