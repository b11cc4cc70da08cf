---------------------------- MODULE MCReadIndex ----------------------------
(***************************************************************************)
(* ReadIndex for TLC.  An answer to a heartbeat makes no difference when   *)
(* the request does not wait (it is never added again), or the answer was  *)
(* counted.                                                                *)
(***************************************************************************)
EXTENDS ReadIndex

CONSTANTS s1, s2, s3

Counts(m) ==
    m.type = "MsgHeartbeatResp" =>
        LET pending == node[m.to].pendingReadIndex
        IN  m.ctx \in DOMAIN pending /\ m.from \notin pending[m.ctx].acks

View == <<node, {m \in net : Counts(m)}, asked, restarts, reads>>
=============================================================================
