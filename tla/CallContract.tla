---------------------------- MODULE CallContract ----------------------------
(***************************************************************************)
(* What one node's channel promises to the calls issued on it, without     *)
(* saying how: which replies may be put on the response channel of a       *)
(* request, and how often.  OutboundChannel implements this module.        *)
(***************************************************************************)
EXTENDS Sequences

CONSTANTS
    TwoWay,     \* RPC and quorum calls: one server response expected
    Streaming,  \* correctable calls: any number of server responses
    OneWay,     \* unicast and multicast that wait for send confirmation
    Silent      \* requests without a response channel

VARIABLES
    started,    \* requests handed to the channel
    cancelled,  \* requests whose context is done
    closed,     \* the node was closed
    replies     \* what was put on each request's response channel, in order

contractVars == <<started, cancelled, closed, replies>>

AllRequests == TwoWay \cup Streaming \cup OneWay \cup Silent

Errors == {"closed", "ctx", "down", "conn", "send"}

HasError(s) == \E i \in DOMAIN s : s[i] \in Errors

ContractInit ==
    /\ started = {}
    /\ cancelled = {}
    /\ closed = FALSE
    /\ replies = [r \in AllRequests |-> <<>>]

StartCall(r) ==
    /\ r \notin started
    /\ started' = started \cup {r}
    /\ UNCHANGED <<cancelled, closed, replies>>

CancelCall(r) ==
    /\ cancelled' = cancelled \cup {r}
    /\ UNCHANGED <<started, closed, replies>>

CloseNode ==
    /\ closed' = TRUE
    /\ UNCHANGED <<started, cancelled, replies>>

(***************************************************************************)
(* A server value goes only to a call that waits for one, a confirmation   *)
(* only to a one-way call.  A request that is not streaming is answered    *)
(* once; a streaming request fails once.  An error says what happened.     *)
(***************************************************************************)
Answer(r, v) ==
    /\ r \in started \ Silent
    /\ v \in {"value", "sent"} \cup Errors
    /\ v = "value" => r \in TwoWay \cup Streaming
    /\ v = "sent" => r \in OneWay
    /\ v = "closed" => closed
    /\ v = "ctx" => r \in cancelled
    /\ r \notin Streaming => replies[r] = <<>>
    /\ v \in Errors => ~HasError(replies[r])
    /\ replies' = [replies EXCEPT ![r] = Append(@, v)]
    /\ UNCHANGED <<started, cancelled, closed>>

ContractNext ==
    \/ CloseNode
    \/ \E r \in AllRequests :
          \/ StartCall(r)
          \/ CancelCall(r)
          \/ \E v \in {"value", "sent"} \cup Errors : Answer(r, v)

ContractSpec == ContractInit /\ [][ContractNext]_contractVars
=============================================================================
