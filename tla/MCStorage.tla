----------------------------- MODULE MCStorage -----------------------------
(***************************************************************************)
(* Instances of Storage for TLC: pairs of clients on three servers, two of *)
(* which refuse writes of foo.                                             *)
(***************************************************************************)
EXTENDS Storage, TLC

CONSTANTS n1, n2, n3, c1, c2, foo, bar

Cmd(op, cfg, key) == [op |-> op, cfg |-> cfg, key |-> key]

Typed(first, second) == (c1 :> first) @@ (c2 :> second)

\* Quorum writes against writes of one node and one-way writes, and reads of the
\* same, of fewer and of other nodes; each nested command; a correctable read;
\* and writes of the refused key.
MCInputs ==
    {Typed(<<Cmd("WriteQC", Servers, bar)>>,
           <<Cmd("WriteRPC", {n1}, bar), Cmd("ReadQC", {n1, n2}, bar)>>),
     Typed(<<Cmd("WriteQC", {n1, n2}, bar), Cmd("ReadQC", {n2, n3}, bar)>>,
           <<Cmd("WriteUnicast", {n1}, bar), Cmd("ReadRPC", {n1}, bar)>>),
     Typed(<<Cmd("WriteQC", {n1, n2}, bar)>>, <<Cmd("ReadNestedQC", {n3}, bar)>>),
     Typed(<<Cmd("WriteNestedMulticast", {n1}, bar)>>, <<Cmd("WriteRPC", {n1}, bar)>>),
     Typed(<<Cmd("WriteMulticast", {n1, n2}, bar)>>, <<Cmd("WriteMulticast", {n1, n2}, bar)>>),
     Typed(<<Cmd("ReadCorrectable", Servers, bar)>>, <<Cmd("WriteRPC", {n1}, bar)>>),
     Typed(<<Cmd("WriteQC", Servers, foo)>>, <<Cmd("WriteNestedMulticast", {n1}, foo)>>)}

\* A server has all of its peers, or none of them is connected yet.
MCPeerConfigs == {Servers, {}}
=============================================================================
