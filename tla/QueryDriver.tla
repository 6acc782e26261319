----------------------------- MODULE QueryDriver -----------------------------
(***************************************************************************)
(* Parsing queries one after another with one language_driver, as the       *)
(* storage and the command line tool do (parser/src/language_parser.y,      *)
(* language_driver.cxx, language.lex).                                      *)
(*                                                                          *)
(* The parser calls the driver in the middle of a text: bison reduces where *)
(* only one reduction is possible without looking at the next token, and    *)
(* where nothing can be shifted it reduces before it finds that the token   *)
(* is wrong.  So a text that is refused in the end may have set the source  *)
(* and the filter already.  A comparison (object.a.b = 1) is one token here:*)
(* an error inside one has no effect on the driver.                         *)
(***************************************************************************)
EXTENDS Integers, Sequences, SequencesExt

CONSTANTS MaxTexts,    \* bound: texts given to the driver
          MaxTokens    \* bound: tokens of a text

ASSUME BoundsAssumption == MaxTexts \in Nat /\ MaxTokens \in Nat

VARIABLES
  process,   \* "up", "crashed" (a query without a filter) or "ended" (by the scanner)
  at,        \* what the parser expects; "idle" between two texts
  stack,     \* of the parser, from HAVING on: trees, operators and "("
  text,      \* the tokens read so far
  source, filter, errors,   \* language_driver::_query and _errors (how many)
  texts,     \* history: texts begun
  ran        \* history: the last query that was run with a filter

driver == <<source, filter, errors>>
vars == <<process, at, stack, text, driver, texts, ran>>

None == [op |-> "none"]
NotRun == [filter |-> None, source |-> "none", of |-> <<>>]

Words == {"SHOW", "OBJECTS", "CLASSES", "HAVING", "AND", "OR", "(", ")", "END",
          "NAME"}       \* a name stands for any token that is nowhere expected
Token(word) == [op |-> word]

\* a comparison is named after the text it stands in and its place there
Comparison(t, place) == [op |-> "compare", text |-> t, place |-> place]
Tokens == {Token(w) : w \in Words} \cup {Comparison(texts, Len(text) + 1)}

AnyBut(words) == (Words \cup {"compare"}) \ words

Node(op, left, right) == [op |-> op, left |-> left, right |-> right]

-------------------------------------------------------------------------------
(* The stack.  AND and OR are left associative and OR, declared later, binds   *)
(* tighter.                                                                    *)

Operator(s) == IF Len(s) < 3 THEN "none" ELSE s[Len(s) - 1].op
Reduce(s) == Append(SubSeq(s, 1, Len(s) - 3), Node(Operator(s), s[Len(s) - 2], Last(s)))

ReduceOr(s) == IF Operator(s) = "OR" THEN Reduce(s) ELSE s
ReduceAnd(s) == IF Operator(s) = "AND" THEN Reduce(s) ELSE s

\* a fault: the usual precedence
BeforeUsual(word, s) == IF word = "AND" THEN ReduceAnd(s) ELSE ReduceOr(ReduceAnd(s))

\* what is reduced before a token is shifted, or found to be wrong
Before(word, s) == IF word = "OR" THEN ReduceOr(s) ELSE ReduceAnd(ReduceOr(s))

-------------------------------------------------------------------------------
Init == /\ process = "up"
        /\ at = "idle" /\ stack = <<>> /\ text = <<>>
        /\ source \in {"OBJECTS", "CLASSES"}       \* uninitialised
        /\ filter = None /\ errors = 0
        /\ texts = 0 /\ ran = NotRun

\* parse: the errors are cleared, the query is not
Parse == /\ process = "up" /\ at = "idle" /\ texts < MaxTexts
         /\ at' = "SHOW" /\ stack' = <<>> /\ text' = <<>>
         /\ errors' = 0
         /\ texts' = texts + 1
         /\ UNCHANGED <<process, source, filter, ran>>

\* The parser reads a token; at the bound, only the end of the text.
Reads(expected, words) == /\ process = "up" /\ at = expected
                          /\ \E t \in Tokens : /\ t.op \in words
                                               /\ Len(text) + 1 >= MaxTokens => t.op = "END"
                                               /\ text' = Append(text, t)
                          /\ UNCHANGED <<process, texts, ran>>
ReadWord == Last(text').op

\* yyerror and the end of parse, which returns 1
Refuse == at' = "idle" /\ errors' = errors + 1 /\ stack' = <<>>

ReadShow == /\ Reads("SHOW", {"SHOW"})
            /\ at' = "source"
            /\ UNCHANGED <<stack, driver>>

\* show_src is reduced before the next token is read
ReadSource == /\ Reads("source", {"OBJECTS", "CLASSES"})
              /\ source' = ReadWord
              /\ at' = "having"
              /\ UNCHANGED <<stack, filter, errors>>

ReadHaving == /\ Reads("having", {"HAVING"})
              /\ at' = "operand"
              /\ UNCHANGED <<stack, driver>>

ReadOperand == /\ Reads("operand", {"(", "compare"})
               /\ stack' = Append(stack, Last(text'))
               /\ at' = IF ReadWord = "(" THEN "operand" ELSE "operator"
               /\ UNCHANGED driver

ReadOperator == /\ Reads("operator", {"AND", "OR"})
                /\ stack' = Append(Before(ReadWord, stack), Last(text'))
                /\ at' = "operand"
                /\ UNCHANGED driver

CloseParenthesis == /\ Reads("operator", {")"})
                    /\ LET s == Before(")", stack) IN
                         /\ Len(s) > 1
                         /\ stack' = Append(SubSeq(s, 1, Len(s) - 2), Last(s))
                    /\ UNCHANGED <<at, driver>>

\* a token that cannot stand here, before any filter is complete
Wrong == \/ Reads("SHOW", AnyBut({"SHOW"})) /\ Refuse /\ UNCHANGED <<source, filter>>
         \/ /\ Reads("source", AnyBut({"OBJECTS", "CLASSES"}))
            /\ Refuse /\ UNCHANGED <<source, filter>>
         \/ /\ Reads("operand", AnyBut({"(", "compare"}))
            /\ Refuse /\ UNCHANGED <<source, filter>>
         \/ /\ Reads("operator", AnyBut({"AND", "OR", ")"}))
            /\ Len(Before("END", stack)) > 1
            /\ Refuse /\ UNCHANGED <<source, filter>>

\* a fault: open parentheses do not matter
CompleteOpen ==
  /\ \/ Reads("having", AnyBut({"HAVING"})) /\ UNCHANGED filter
     \/ /\ Reads("operator", AnyBut({"AND", "OR", ")"}))
        /\ filter' = Last(Before("END", stack))
  /\ IF ReadWord = "END"
     THEN at' = "accepted" /\ stack' = <<>> /\ UNCHANGED errors
     ELSE Refuse
  /\ UNCHANGED source

\* having_stmt and show_stmt are reduced on any other token, and only then is the
\* end of the text required.
Complete == /\ \/ Reads("having", AnyBut({"HAVING"})) /\ UNCHANGED filter
               \/ /\ Reads("operator", AnyBut({"AND", "OR"}))
                  /\ Len(Before("END", stack)) = 1
                  /\ filter' = Before("END", stack)[1]
            /\ IF ReadWord = "END"
               THEN at' = "accepted" /\ stack' = <<>> /\ UNCHANGED errors
               ELSE Refuse
            /\ UNCHANGED source

\* A character that no rule of the scanner takes ends the process (nodefault).
Jam == /\ process = "up" /\ at \notin {"idle", "accepted"}
       /\ process' = "ended"
       /\ UNCHANGED <<at, stack, text, driver, texts, ran>>

\* A reference to a filter that is not there ends the process when the first item is
\* tried, and may go unnoticed in a profile without one.
NoFilter == /\ filter = None
            /\ \/ process' = "crashed" /\ UNCHANGED at
               \/ at' = "idle" /\ UNCHANGED process
            /\ UNCHANGED <<filter, ran>>

\* a fault: the query gives its filter away
RunMoving == /\ process = "up" /\ at = "accepted"
             /\ \/ NoFilter
                \/ /\ filter # None
                   /\ ran' = [filter |-> filter, source |-> source, of |-> text]
                   /\ at' = "idle" /\ filter' = None /\ UNCHANGED process
             /\ UNCHANGED <<stack, text, source, errors, texts>>

\* The caller runs the query: heap_profile_impl_t::query dereferences the filter.
Run == /\ process = "up" /\ at = "accepted"
       /\ \/ NoFilter
          \/ /\ filter # None
             /\ ran' = [filter |-> filter, source |-> source, of |-> text]
             /\ at' = "idle" /\ UNCHANGED <<process, filter>>
       /\ UNCHANGED <<stack, text, source, errors, texts>>

Next == \/ Parse \/ ReadShow \/ ReadSource \/ ReadHaving \/ ReadOperand \/ ReadOperator
        \/ CloseParenthesis \/ Wrong \/ Complete \/ Jam \/ Run

Spec == Init /\ [][Next]_vars
-------------------------------------------------------------------------------
(* Properties. *)

\* Only a query without HAVING, before any query was run with a filter, ends the
\* program by a filter that is not there (heap_profile.cxx:48).
CrashesAtFirst == process = "crashed" => Len(text) = 3 /\ ran = NotRun
===============================================================================
