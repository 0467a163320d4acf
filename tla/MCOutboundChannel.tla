------------------------- MODULE MCOutboundChannel -------------------------
(***************************************************************************)
(* Instances of OutboundChannel for TLC: the sets of requests and the      *)
(* bounds are in the configurations.  The action constraints restrict only *)
(* callers, the server's own calls and the network, which owe no step.     *)
(***************************************************************************)
EXTENDS CallerOrder

\* One request of another kind joins the two-way calls.
OneOfAnotherKind == \A q, t \in started' \ TwoWay : q = t
=============================================================================
