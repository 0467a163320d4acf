--------------------------- MODULE MCNodeRegistry ---------------------------
(***************************************************************************)
(* Instances of NodeRegistry for TLC.                                      *)
(***************************************************************************)
EXTENDS NodeRegistry, TLC

CONSTANTS addr1, addr2, addr3, alias, bad

List(as) == [isList |-> TRUE, ids |-> <<>>, addrs |-> as]
Map(is, as) == [isList |-> FALSE, ids |-> is, addrs |-> as]

\* Lists and maps that share IDs and addresses, one that names an address
\* twice under different spellings, the reserved ID, an address that does not
\* resolve, and the empty list.
MCOptions ==
    {List(<<addr1>>), List(<<addr1, addr2>>), List(<<addr2, alias>>), List(<<>>), List(<<addr2, bad>>),
     Map(<<2>>, <<addr2>>), Map(<<1, 3>>, <<addr1, addr3>>), Map(<<3>>, <<addr3>>), Map(<<0>>, <<addr1>>)}

\* alias is another way to write addr2.
MCNorm == (addr1 :> addr1) @@ (addr2 :> addr2) @@ (addr3 :> addr3) @@ (alias :> addr2) @@ (bad :> Invalid)
=============================================================================
