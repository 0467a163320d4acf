------------------------------- MODULE Typing -------------------------------
(***************************************************************************)
(* Ways to type words at the prompt of Repl: the reference for splitQuoted *)
(* (examples/storage/repl.go).                                             *)
(***************************************************************************)
EXTENDS Repl, SequencesExt

Escape(r) == <<Backslash, r>>

\* f applied to every rune of w, and the results joined.
Spell(w, f(_)) == FoldLeft(LAMBDA acc, r : acc \o f(r), <<>>, w)

InQuotes(w, q) ==
    LET f(r) == IF r \in {q, Backslash} THEN Escape(r) ELSE <<r>>
    IN <<q>> \o Spell(w, f) \o <<q>>

Ways == {"single", "double", "escaped"}

TypeWord(w, way) ==
    CASE way = "single" -> InQuotes(w, Single)
      [] way = "double" -> InQuotes(w, Double)
      [] OTHER -> Spell(w, Escape)

TypeWords(ws, way) == FoldLeft(LAMBDA acc, w : acc \o TypeWord(w, way) \o <<Space>>, <<>>, ws)

\* A word without runes can only be typed with quotes.
Typable(ws, way) == way = "escaped" => \A i \in DOMAIN ws : ws[i] # <<>>

\* Lines that nobody knows the words of, and words typed in every way.
RawLines(ls) == {[runes |-> l, words |-> Raw] : l \in ls}
TypedWords(wss) ==
    {[runes |-> TypeWords(t[1], t[2]), words |-> t[1]] :
        t \in {u \in wss \X Ways : Typable(u[1], u[2])}}
=============================================================================
