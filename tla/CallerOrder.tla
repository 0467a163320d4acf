---------------------------- MODULE CallerOrder ----------------------------
(***************************************************************************)
(* One goroutine that makes two calls over an OutboundChannel, the second  *)
(* when Enqueue has returned for the first; others call as they like.      *)
(***************************************************************************)
EXTENDS OutboundChannel

CONSTANTS First, Second

ASSUME CallerAssumption ==
    /\ {First, Second} \subseteq Requests /\ First # Second
    /\ MaxStreams >= 1

OneCaller ==
    Second \in started' \ started => First \in started /\ enqPc[First] = "none"

OneCallerSpec == Spec /\ [][OneCaller]_vars

InIssueOrder(s) ==
    \A i, j \in DOMAIN wire[s] :
        wire[s][i] = First /\ wire[s][j] = Second => i < j

(* On the channel's first stream the requests of one caller go out in the
   order of their calls, also when some are cancelled, when a stale sender
   still writes to it and when the first is sent again on a later stream.    *)
FifoOnFirstStream == InIssueOrder(1)
=============================================================================
