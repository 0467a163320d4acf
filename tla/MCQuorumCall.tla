---------------------------- MODULE MCQuorumCall ----------------------------
(***************************************************************************)
(* Instances of QuorumCall for TLC.                                        *)
(***************************************************************************)
EXTENDS QuorumCall, TLC

CONSTANTS a, b, c, low, high

MCCall(m, stream, ign, q, nodes, skip, bad) ==
    [method |-> m, streaming |-> stream, ignore |-> ign, threshold |-> q,
     members |-> nodes, skipped |-> skip, unsendable |-> bad]

\* Every method; three nodes for the thresholds, with and without a node that
\* is skipped or whose request cannot be marshalled.
MCCalls ==
    {MCCall(m, FALSE, FALSE, q, Nodes, skip, {}) :
        m \in {"Threshold", "Correctable"}, q \in 0..3, skip \in {{}, {a}}}
    \cup {MCCall("Correctable", TRUE, FALSE, 3, {a, b}, {}, {})}
    \cup {MCCall("Collect", FALSE, ign, 2, Nodes, {}, {b}) : ign \in BOOLEAN}
    \cup {MCCall("Multicast", FALSE, ign, 0, Nodes, {a}, bad) :
             ign \in BOOLEAN, bad \in {{}, {b}}}
    \cup {MCCall(m, FALSE, ign, 0, {a}, {}, bad) :
             m \in {"Unicast", "RPC"}, ign \in BOOLEAN, bad \in {{}, {a}}}

\* A streaming call that skips its second node.
MCStreamSkip == {MCCall("Correctable", TRUE, FALSE, 3, {a, b}, {b}, {})}

MCWatchLevel == (low :> 1) @@ (high :> 3)
=============================================================================
