------------------------------ MODULE MCLaunch ------------------------------
(***************************************************************************)
(* Command lines and typed lines for Launch.                               *)
(***************************************************************************)
EXTENDS Launch, Typing

Line(cluster, serve, addrs, ic) ==
    [cluster |-> cluster, serve |-> serve, addrs |-> addrs, ic |-> ic]

\* Entries of -addrs are numbers in the order of the addresses; 0 is blank.
MCInvocations ==
    { Line(FALSE, FALSE, <<>>, <<>>), Line(FALSE, FALSE, <<>>, <<"nofoo", "loging">>),
      Line(FALSE, FALSE, <<7, 5>>, <<>>), Line(FALSE, TRUE, <<0>>, <<>>),
      Line(TRUE, FALSE, <<>>, <<>>), Line(TRUE, TRUE, <<0, 0>>, <<>>),
      Line(TRUE, FALSE, <<7, 0, 5>>, <<"delayed">>),
      Line(TRUE, FALSE, <<6, 7, 5>>, <<"loging">>) }

UpTo(S, n) == UNION {[1..k -> S] : k \in 0..n}

Runes == {Letter, Space, Single, Double, Backslash}
MCTyped ==
    RawLines(UpTo(Runes, 4))
    \cup TypedWords(UpTo(UpTo(Runes, 1), 2) \cup UpTo(UpTo(Runes, 2), 1))

\* Spans and lists of indices around those of the three nodes 0, 1 and 2.
Ends == {-1, 0, 1, 3, 4, Nothing, NotANumber}
Selections ==
    {Span(lo, hi) : lo, hi \in Ends} \cup {Num(i) : i \in {-1, 0, 2, 3}} \cup {Word("x")}
    \cup {Listed(s) : s \in UpTo({-1, 0, 2, 3, NotANumber}, 3)}

X == Word("x")
Ops == {Word(op) : op \in QuorumOps \cup {"x"}}
Indices == {Num(i) : i \in {-1, 0, 2, 3}} \cup {X}

MCSentences ==
    {<<Word("cfg"), sel, op, X, X>> : sel \in Selections, op \in Ops}
    \cup {<<Word("qc"), op>> \o more : op \in Ops, more \in UpTo({X}, 2)}
    \cup {<<Word("rpc"), i, op>> \o more : i \in Indices, op \in Ops, more \in UpTo({X}, 2)}
    \cup {<<Word("unicast"), i>> \o more : i \in Indices, more \in UpTo({X}, 2)}
    \cup {<<Word("multicast")>> \o more : more \in UpTo({X}, 2)}
    \cup {<<Word(name)>> : name \in Commands \cup {"help"}}

=============================================================================
