------------------------------ MODULE LogTerms ------------------------------
(***************************************************************************)
(* Logs as sequences of entries with a term, the part of raft/log.go that  *)
(* compares and appends them.  maybeAppend and commitTo work on any record *)
(* with the fields log, committed and panic: the raft of RaftNode, the     *)
(* follower of FlowControl.                                                *)
(***************************************************************************)
EXTENDS Integers, Sequences

----------------------------------------------------------------------------
(* Helpers on numbers and sets *)

Least(a, b) == IF a < b THEN a ELSE b
Greatest(a, b) == IF a > b THEN a ELSE b

\* The largest element of a set of numbers, 0 when it has none.
MaxOr0(S) == IF \E x \in S : \A y \in S : y <= x
             THEN CHOOSE x \in S : \A y \in S : y <= x
             ELSE 0

\* The smallest element of a set of numbers, 0 when it has none.
MinOr0(S) == IF \E x \in S : \A y \in S : x <= y
             THEN CHOOSE x \in S : \A y \in S : x <= y
             ELSE 0

----------------------------------------------------------------------------
(* raft/log.go: the log as one sequence (stable entries and unstable ones) *)

lastIndex(log) == Len(log)

\* term() with zeroTermOnOutOfBounds: index 0 is the dummy entry of term 0.
TermAt(log, i) == IF i \in 1..Len(log) THEN log[i].term ELSE 0

lastTerm(log) == TermAt(log, Len(log))

\* A plausible slip: the terms are not compared.
matchTerm_IndexOnly(log, i, t) == i <= Len(log)

matchTerm(log, i, t) == i <= Len(log) /\ TermAt(log, i) = t

isUpToDate(log, lasti, term) ==
    \/ term > lastTerm(log)
    \/ term = lastTerm(log) /\ lasti >= lastIndex(log)

\* The first index at which ents, appended after index, disagrees with log.
findConflict(log, index, ents) ==
    MinOr0({i \in (index + 1)..(index + Len(ents)) :
              ~matchTerm(log, i, ents[i - index].term)})

\* The largest index up to i whose term is at most term, 0 if there is none.
findConflictByTerm(log, i, term) ==
    IF i > Len(log) THEN i
    ELSE MaxOr0({k \in 1..i : TermAt(log, k) <= term})

Panic(r) == [r EXCEPT !.panic = TRUE]

\* A plausible slip: the commit index follows whatever it is told.
commitTo_Decreases(r, tocommit) ==
    IF Len(r.log) < tocommit THEN Panic(r) ELSE [r EXCEPT !.committed = tocommit]

commitTo(r, tocommit) ==
    IF r.committed >= tocommit THEN r
    ELSE IF Len(r.log) < tocommit THEN Panic(r)
    ELSE [r EXCEPT !.committed = tocommit]

\* maybeAppend once matchTerm has succeeded: truncate at the first conflict,
\* append what is new, advance the commit index.
maybeAppend(r, index, committed, ents) ==
    LET ci == findConflict(r.log, index, ents)
        appended ==
            IF ci = 0 THEN r
            ELSE IF ci <= r.committed THEN Panic(r)
            ELSE [r EXCEPT !.log = SubSeq(@, 1, ci - 1)
                                   \o SubSeq(ents, ci - index, Len(ents))]
    IN  commitTo(appended, Least(committed, index + Len(ents)))
=============================================================================
