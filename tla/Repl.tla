-------------------------------- MODULE Repl --------------------------------
(***************************************************************************)
(* How the storage example's interactive loop turns a line into a call     *)
(* (examples/storage/repl.go): splitQuoted cuts it into words, and the     *)
(* handlers of the commands check the words and select the nodes of the    *)
(* configuration that the call is made on.  Storage models the calls.      *)
(*                                                                         *)
(* The scanner is modelled rune by rune, on lines of an alphabet with one  *)
(* ordinary letter.  The commands are modelled on words: a number, a text  *)
(* that is not one, a range or list of indices.                            *)
(***************************************************************************)
EXTENDS Integers, Sequences, Functions, FiniteSets

CONSTANTS
    NumNodes,   \* size of the client's configuration
    Typed,      \* lines: their runes, and the words they stand for or Raw
    Sentences,  \* lines that are already cut into words
    Nothing,    \* an end of a range that is left out
    NotANumber  \* an index or an end of a range that is not a number

Letter == "a"
Space == " "
Single == "'"
Double == "dq"
Backslash == "\\"

VARIABLES
    at,      \* where the loop is
    line,    \* the runes that are still to be read
    want,    \* history: the words the line stands for, if it was made from some
    args, current, quote, escaped, inArg,  \* variables of splitQuoted
    call     \* the call made: [op, nodes], or NoCall

replVars == <<at, line, want, args, current, quote, escaped, inArg, call>>
scanVars == <<args, current, quote, escaped, inArg>>

NoCall == [op |-> "none", nodes |-> <<>>]
Raw == <<<<"raw">>>>

-----------------------------------------------------------------------------
(* splitQuoted *)

StartScan(l, w) ==
    /\ at' = "scan" /\ line' = l /\ want' = w /\ call' = NoCall
    /\ args' = <<>> /\ current' = <<>> /\ quote' = "none" /\ escaped' = FALSE /\ inArg' = FALSE

\* The loop reads a line from the terminal.
ReadLine ==
    /\ at = "prompt"
    /\ \E t \in Typed : StartScan(t.runes, t.words)

\* A line whose words are given.
ReadSentence ==
    /\ at = "prompt"
    /\ \E s \in Sentences : args' = s
    /\ at' = "run" /\ call' = NoCall
    /\ UNCHANGED <<line, want, current, quote, escaped, inArg>>

Take(r) == current' = Append(current, r) /\ inArg' = TRUE

\* Slip: an argument ends only if it has runes.
flush_NonEmpty ==
    IF inArg /\ current # <<>> THEN args' = Append(args, current) /\ current' = <<>> /\ inArg' = FALSE
    ELSE UNCHANGED <<args, current, inArg>>
flush ==
    IF inArg THEN args' = Append(args, current) /\ current' = <<>> /\ inArg' = FALSE
    ELSE UNCHANGED <<args, current, inArg>>

Escaped(r) == escaped /\ Take(r) /\ escaped' = FALSE /\ UNCHANGED <<args, quote>>

ClosesQuote(r) == r = quote

Quoted(r) ==
    /\ ~escaped /\ quote # "none"
    /\ \/ r = Backslash /\ escaped' = TRUE /\ inArg' = TRUE /\ UNCHANGED <<current, quote>>
       \/ /\ r # Backslash /\ ClosesQuote(r)
          /\ quote' = "none" /\ inArg' = TRUE /\ UNCHANGED <<current, escaped>>
       \/ r # Backslash /\ ~ClosesQuote(r) /\ Take(r) /\ UNCHANGED <<quote, escaped>>
    /\ UNCHANGED args

Plain(r) ==
    /\ ~escaped /\ quote = "none"
    /\ \/ /\ r \in {Single, Double}
          /\ quote' = r /\ inArg' = TRUE /\ UNCHANGED <<args, current, escaped>>
       \/ r = Space /\ flush /\ UNCHANGED <<quote, escaped>>
       \/ /\ r = Backslash
          /\ escaped' = TRUE /\ inArg' = TRUE /\ UNCHANGED <<args, current, quote>>
       \/ r = Letter /\ Take(r) /\ UNCHANGED <<args, quote, escaped>>

Scan ==
    /\ at = "scan"
    /\ line # <<>>
    /\ Escaped(Head(line)) \/ Quoted(Head(line)) \/ Plain(Head(line))
    /\ line' = Tail(line)
    /\ UNCHANGED <<at, want, call>>

Unfinished == escaped \/ quote # "none"

\* The end of the line; an error sends the loop back to the prompt.
EndScan ==
    /\ at = "scan"
    /\ line = <<>>
    /\ IF Unfinished
       THEN at' = "bad" /\ UNCHANGED scanVars
       ELSE at' = "words" /\ flush /\ UNCHANGED <<quote, escaped>>
    /\ UNCHANGED <<line, want, call>>

-----------------------------------------------------------------------------
(* Words of a command *)

Word(s) == [kind |-> "word", text |-> s, num |-> 0, list |-> <<>>]
Num(i) == [kind |-> "num", text |-> "", num |-> i, list |-> <<i>>]
Span(lo, hi) == [kind |-> "range", text |-> "", num |-> 0, list |-> <<lo, hi>>]
Listed(s) == [kind |-> "list", text |-> "", num |-> 0, list |-> s]

Index == Int \cup {Nothing, NotANumber}

ASSUME ReplAssumption ==
    /\ NumNodes \in Nat \ {0}
    /\ Nothing \notin Int /\ NotANumber \notin Int
    /\ \A s \in Sentences :
          /\ Len(s) \in Nat /\ DOMAIN s = 1..Len(s)
          /\ \A i \in DOMAIN s :
                s[i].list \in Seq(Index) /\ (s[i].kind = "range" => Len(s[i].list) = 2)

Is(i, s) == i \in DOMAIN args /\ args[i] = Word(s)
Has(i) == Len(args) >= i

QuorumOps == {"read", "cread", "write", "nread", "nwrite"}

RangeValid(start, stop) == ~(start >= stop \/ start < 0 \/ stop > NumNodes)

\* Slip: an index may be named twice.
ListValid_Repeated(s) == \A i \in DOMAIN s : s[i] \in 0..NumNodes - 1
ListValid(s) == (\A i \in DOMAIN s : s[i] \in 0..NumNodes - 1) /\ IsInjective(s)

\* parseIndices: the indices, or <<>> for an error.
parseIndices(w) ==
    IF w.kind = "range"
    THEN LET start == IF w.list[1] = Nothing THEN 0 ELSE w.list[1]
             stop == IF w.list[2] = Nothing THEN NumNodes ELSE w.list[2]
         IN IF NotANumber \in {start, stop} \/ ~RangeValid(start, stop) THEN <<>>
            ELSE [i \in 1..stop - start |-> start + i - 1]
    ELSE IF w.kind \in {"num", "list"} /\ ListValid(w.list) THEN w.list ELSE <<>>

\* slices.SortFunc: the elements rearranged in ascending order.
SortFunc(s) ==
    CHOOSE t \in {[i \in DOMAIN s |-> s[p[i]]] : p \in Bijection(DOMAIN s, DOMAIN s)} :
        \A i, j \in DOMAIN s : i < j => t[i] <= t[j]

\* The nodes in the order of their IDs, which is that of the indices.
parseConfiguration(w) == SortFunc(parseIndices(w))

All == [i \in 1..NumNodes |-> i - 1]

IndexValid(w) == w.kind = "num" /\ w.num \in 0..NumNodes - 1

\* What an operation needs: a key to read, or a key and a value to write.
Needs(op) == IF op \in {"read", "cread", "nread"} THEN 1 ELSE 2

\* The operation in word i, if it is one of ops and its arguments are there.
Operation(ops, nodes, i) ==
    LET asked == {op \in ops : Is(i, op) /\ Has(i + Needs(op))}
    IN IF asked = {} THEN NoCall
       ELSE [op |-> CHOOSE op \in asked : TRUE, nodes |-> nodes]

\* The next turn of the loop, without the locals of this one.
Prompt ==
    /\ at' = "prompt" /\ line' = <<>> /\ want' = Raw /\ call' = NoCall
    /\ args' = <<>> /\ current' = <<>> /\ quote' = "none" /\ escaped' = FALSE /\ inArg' = FALSE

Make(c) ==
    \/ c = NoCall /\ Prompt
    \/ /\ c # NoCall
       /\ call' = c /\ at' = "called"
       /\ UNCHANGED <<line, want, args, current, quote, escaped, inArg>>

\* The call returns, with a result or an error that is printed.
Returned == at = "called" /\ Prompt

Ran(name) == at = "run" /\ Is(1, name)

rpc ==
    /\ Ran("rpc")
    /\ Make(IF Has(3) /\ IndexValid(args[2])
            THEN Operation({"read", "write"}, <<args[2].num>>, 3) ELSE NoCall)

unicast ==
    /\ Ran("unicast")
    /\ Make(IF Has(4) /\ IndexValid(args[2])
            THEN [op |-> "unicast", nodes |-> <<args[2].num>>] ELSE NoCall)

multicast ==
    /\ Ran("multicast")
    /\ Make(IF Has(3) THEN [op |-> "multicast", nodes |-> All] ELSE NoCall)

qc ==
    /\ Ran("qc")
    /\ Make(IF Has(2) THEN Operation(QuorumOps, All, 2) ELSE NoCall)

qcCfg ==
    /\ Ran("cfg")
    /\ Make(IF Has(3) /\ parseConfiguration(args[2]) # <<>>
            THEN Operation(QuorumOps, parseConfiguration(args[2]), 3) ELSE NoCall)

Commands == {"rpc", "unicast", "multicast", "qc", "cfg", "exit"}

\* A line without words, one that cannot be split, one with another command
\* (help, nodes, an unknown one): the loop prints something and goes on.
Other ==
    /\ \/ at \in {"words", "bad"}
       \/ at = "run" /\ \A name \in Commands : ~Is(1, name)
    /\ Prompt

\* The command exit, or the end of the input.
Exit ==
    /\ Ran("exit") \/ at = "prompt"
    /\ at' = "exit"
    /\ UNCHANGED <<line, want, args, current, quote, escaped, inArg, call>>

-----------------------------------------------------------------------------
ReplInit ==
    /\ at = "prompt" /\ line = <<>> /\ want = Raw
    /\ args = <<>> /\ current = <<>> /\ quote = "none" /\ escaped = FALSE /\ inArg = FALSE
    /\ call = NoCall

ReplNext ==
    \/ ReadLine \/ ReadSentence \/ Scan \/ EndScan
    \/ rpc \/ unicast \/ multicast \/ qc \/ qcCfg \/ Returned \/ Other \/ Exit

-----------------------------------------------------------------------------
(* Properties *)

(* Words that are typed in quotes, with the quote and backslashes escaped, or with
   every rune escaped, come out of splitQuoted as they were, empty ones included. *)
WordsSurviveQuoting ==
    want # Raw /\ at \in {"words", "bad"} => at = "words" /\ args = want

\* The nodes a configuration argument names, by the help text of the program.
Named(w) ==
    IF w.kind = "range"
    THEN {i \in 0..NumNodes - 1 : /\ w.list[1] # Nothing => w.list[1] <= i
                                  /\ w.list[2] # Nothing => i < w.list[2]}
    ELSE Range(w.list)

(* A call is made on a non-empty configuration of known nodes, each of them once
   and in the order of their IDs, and after "cfg" on exactly the nodes named:
   Configuration.Context does not panic and no node is counted twice.           *)
CallsAreWellFormed ==
    call # NoCall =>
        /\ call.nodes # <<>>
        /\ Range(call.nodes) \subseteq 0..NumNodes - 1
        /\ \A i, j \in DOMAIN call.nodes : i < j => call.nodes[i] < call.nodes[j]
        /\ Is(1, "cfg") => Range(call.nodes) = Named(args[2])

=============================================================================
