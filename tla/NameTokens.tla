------------------------------ MODULE NameTokens ------------------------------
(***************************************************************************)
(* Class names cut at their dots, and their match (hprof/includes/          *)
(* name_tokenizer.h).  class_name_tokenizer is an iterator of two pointers; *)
(* a position here is the offset of one from the start of the text.         *)
(***************************************************************************)
EXTENDS Integers, Sequences, FiniteSets

CONSTANTS Chars,       \* of the texts
          Dot,
          Upper        \* std::toupper

ASSUME CharsAssumption == Dot \in Chars /\ Upper \in [Chars -> Chars]

\* next_token_start: a step is taken before anything is compared
NextTokenStart(text, at) ==
  LET stops == {i \in at + 1..Len(text) : i = Len(text) \/ text[i + 1] = Dot}
  IN IF stops = {} THEN at + 1 ELSE CHOOSE i \in stops : \A j \in stops : i <= j

\* a fault: the step over the dot is taken before the next end is looked for
EndAfter(text, from) == NextTokenStart(text, from)

\* _current_end, when _current is at from: it is looked for from the dot in front
\* of a token on, so that two dots in a row enclose a token without characters
EndOf(text, from) == NextTokenStart(text, IF from = 0 THEN 0 ELSE from - 1)

\* name_tokens::set: the pointers go from the start to the end of the text, _current
\* to the place behind _current_end unless that is the end of the text
TokensOf(text) ==
  LET cut[from \in 0..Len(text)] ==
        IF from = Len(text) THEN <<>>
        ELSE LET to == EndOf(text, from)
             IN <<SubSeq(text, from + 1, to)>> \o (IF to = Len(text) THEN <<>> ELSE cut[to + 1])
  IN cut[0]

\* match() of two tokens
StartsWith(token, part) ==
  Len(part) <= Len(token) /\ \A i \in DOMAIN part : Upper[part[i]] = Upper[token[i]]

\* name_tokens::match answers 0: a single token may begin any token of the name,
\* several must begin the first ones in their order
Match(name, filter) ==
  IF Len(filter) = 1
  THEN \E i \in DOMAIN name : StartsWith(name[i], filter[1])
  ELSE /\ Len(name) > 1 /\ Len(name) >= Len(filter)
       /\ \A i \in DOMAIN filter : StartsWith(name[i], filter[i])

\* The reference for the tokens of a text: it is cut at the dots after the first
\* character, and a last piece without characters does not count.
CutAtDots(text, tokens) ==
  LET dots == {i \in 2..Len(text) : text[i] = Dot}
      n == Cardinality(dots)
  IN \E ends \in [0..n -> {0} \cup dots] :
       /\ ends[0] = 0 /\ \A i \in 1..n : ends[i - 1] < ends[i]
       /\ Len(tokens) = IF ends[n] = Len(text) THEN n ELSE n + 1
       /\ \A i \in 1..Len(tokens) :
            tokens[i] = SubSeq(text, ends[i - 1] + 1, IF i > n THEN Len(text) ELSE ends[i] - 1)
===============================================================================
