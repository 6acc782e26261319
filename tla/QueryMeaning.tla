----------------------------- MODULE QueryMeaning -----------------------------
(***************************************************************************)
(* What the texts given to a language_driver mean, told from their tokens,  *)
(* and what the driver makes of them (parser/src/language_parser.y).        *)
(***************************************************************************)
EXTENDS QueryDriver, FiniteSets

\* how many of the parentheses among the tokens i..k are still open behind them
Count(word, tokens, i, k) == Cardinality({m \in i..k : tokens[m].op = word})
Depth(tokens, i, k) == Count("(", tokens, i, k) - Count(")", tokens, i, k)

\* where a word stands outside of parentheses among n tokens from the i-th on
Cuts(word, tokens, i, n) ==
  {k \in i..i + n - 1 : tokens[k].op = word /\ Depth(tokens, i, k) = 0}
LastCut(word, tokens, i, n) ==
  CHOOSE k \in Cuts(word, tokens, i, n) : \A j \in Cuts(word, tokens, i, n) : j <= k

\* The reference: what these tokens mean as a filter, from the top down, where m
\* of them from the k-th on mean of[m][k].  They are cut at the last AND outside of
\* parentheses, if there is none at the last OR, and None is no filter.
Join(op, left, right) == IF None \in {left, right} THEN None ELSE Node(op, left, right)
JoinAt(k, tokens, of, i, n) == Join(tokens[k].op, of[k - i][i], of[i + n - 1 - k][k + 1])
Means(tokens, of, i, n) ==
  IF Cuts("AND", tokens, i, n) # {} THEN JoinAt(LastCut("AND", tokens, i, n), tokens, of, i, n)
  ELSE IF Cuts("OR", tokens, i, n) # {} THEN JoinAt(LastCut("OR", tokens, i, n), tokens, of, i, n)
  ELSE IF n = 1 THEN (IF tokens[i].op = "compare" THEN tokens[i] ELSE None)
  ELSE IF n > 2 /\ tokens[i].op = "(" /\ tokens[i + n - 1].op = ")" THEN of[n - 2][i + 1]
  ELSE None

Meaning(tokens, i, n) ==
  LET of[m \in 0..Len(tokens)] == [k \in 1..Len(tokens) - m + 1 |-> Means(tokens, of, k, m)]
  IN of[n][i]

\* The parser has stopped at the last token of the text, the query has not run yet.
Stopped == at = "accepted" \/ (at = "idle" /\ errors # 0)
OwnFilter == IF Len(text) > 3 /\ text[3].op = "HAVING"
             THEN Meaning(text, 4, Len(text) - 4) ELSE None

\* A text is accepted when it is a query, and leaves exactly one error, which the
\* window shows without a test (main_window.cxx:171), when it is not.  Its filter, if
\* complete, is handed to the driver with every comparison at its place: the groups
\* are those of OR within AND, and of equal operators from the left
\* (language_parser.y:77) -- also when the text is refused for what comes after.
GroupsOrFirst ==
  Stopped => /\ errors = IF Last(text).op = "END" /\ (OwnFilter # None \/ Len(text) = 3) THEN 0 ELSE 1
             /\ OwnFilter # None => filter = OwnFilter

\* Nothing but a text with a complete filter changes the filter of the driver, and
\* then to its own: any other text, accepted or not, leaves that of a text before it,
\* with which the next query without HAVING is run.
FilterKept == [][filter' # filter => Stopped' /\ filter' = OwnFilter' /\ OwnFilter' # None]_vars
===============================================================================
