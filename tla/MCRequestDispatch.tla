------------------------- MODULE MCRequestDispatch -------------------------
(***************************************************************************)
(* Instances of RequestDispatch for TLC.                                   *)
(***************************************************************************)
EXTENDS RequestDispatch, FiniteSets

\* Requests that have come and whose handler, if they get one, has not ended.
InPlay ==
    {m \in arrived : handlerPc[m] # "done"}
    \cup {m \in LocalCalls : callPc[m] # "idle" /\ handlerPc[m] # "done"}

\* The peer and the local callers, who owe nobody a request, have at most two
\* requests in play at a time.
AtMostTwo == Cardinality(InPlay') <= 2
=============================================================================
