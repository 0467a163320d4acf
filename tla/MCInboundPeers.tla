-------------------------- MODULE MCInboundPeers --------------------------
(***************************************************************************)
(* Instances of InboundPeers for TLC: one server with two known peers, one *)
(* of which connects more than once.                                       *)
(***************************************************************************)
EXTENDS InboundCalls, TLC

\* All of the known configuration, and one client.
MCWant == [known |-> Cardinality(Peers) + 1, client |-> 1]
===========================================================================
