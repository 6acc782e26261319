----------------------------- MODULE FieldCompare -----------------------------
(***************************************************************************)
(* One comparison of a query: a field of an object with a literal           *)
(* (hprof/includes/filters/comparation.h, filter_comp_value.h), and the     *)
(* three-valued logic that combines comparisons (filters/logical.h).        *)
(*                                                                          *)
(* A number is counted in halves, so that literals with a fraction exist:   *)
(* 3 is 1.5.  Fields of integral types hold even numbers of halves.  The    *)
(* loss of precision of very large numbers in a double is left out.         *)
(***************************************************************************)
EXTENDS Integers

Integral == {"byte", "short", "char", "int", "long"}
Floating == {"float", "double"}

Operations == {"=", "!=", "<", "<=", ">", ">="}

\* filter_comp_value_t, as the parser makes it: a number or a text
IsNumber(literal) == literal.type \in {"int", "double"}

\* what a field and a literal are that are numbers
NumericField(f) == /\ f.type \in Integral \cup Floating
                   /\ f.value \in Int /\ f.nan \in BOOLEAN
                   /\ f.type \in Integral => f.value % 2 = 0 /\ ~f.nan
NumericLiteral(l) == /\ IsNumber(l)
                     /\ l.value \in Int
                     /\ l.type = "int" => l.value % 2 = 0

\* static_cast<int64_t> of a double: towards 0
Truncated(halves) == IF halves >= 0 THEN 2 * (halves \div 2) ELSE -(2 * ((-halves) \div 2))

\* a fault: no conversion
AsOperandExact(field, literal) == literal.value

\* operator== and operator!= have overloads for int64_t, which convert the
\* literal, and for float and double, which do not
AsOperand(field, literal) ==
  IF field.type \in Integral /\ literal.type = "double" THEN Truncated(literal.value)
  ELSE literal.value

\* The overloads of the six operators, for a field of a numeric type; a field
\* that is not a number (nan) differs from everything and compares with nothing.
CompareNumber(operation, field, literal) ==
  /\ IsNumber(literal)
  /\ \/ operation = "=" /\ ~field.nan /\ AsOperand(field, literal) = field.value
     \/ operation = "!=" /\ (field.nan \/ AsOperand(field, literal) # field.value)
     \/ operation = "<" /\ ~field.nan /\ field.value < literal.value
     \/ operation = "<=" /\ ~field.nan /\ field.value <= literal.value
     \/ operation = ">" /\ ~field.nan /\ field.value > literal.value
     \/ operation = ">=" /\ ~field.nan /\ field.value >= literal.value

\* a reference is compared with a text only; 'text' is the content of the string
\* referred to, "none" if the object is missing and "other" if it is not a string
CanCompare(field, literal, text) ==
  literal.type = "text" /\ field.value # 0 /\ text # "other"

\* match() of the filters.  The scanner never returns a BOOL, so that no query has
\* a literal of that type.
MatchEquals(field, literal, text) ==
  \/ field.type = "bool" /\ literal.type = "bool" /\ literal.value = field.value
  \/ field.type \in Integral \cup Floating /\ CompareNumber("=", field, literal)
  \/ field.type = "object" /\ CanCompare(field, literal, text) /\ text = literal.value

MatchNotEquals(field, literal, text) ==
  \/ field.type = "bool" /\ literal.type = "bool" /\ literal.value # field.value
  \/ field.type \in Integral \cup Floating /\ CompareNumber("!=", field, literal)
  \/ field.type = "object" /\ CanCompare(field, literal, text) /\ text # literal.value

MatchOrder(operation, field, literal) ==
  field.type \in Integral \cup Floating /\ CompareNumber(operation, field, literal)

\* which filter the parser makes of an operator
Compare(operation, field, literal, text) ==
  CASE operation = "=" -> MatchEquals(field, literal, text)
    [] operation = "!=" -> MatchNotEquals(field, literal, text)
    [] OTHER -> MatchOrder(operation, field, literal)

-------------------------------------------------------------------------------
Results == {"Match", "NoMatch", "Fail"}

Not(a) == CASE a = "Match" -> "NoMatch"
            [] a = "NoMatch" -> "Match"
            [] a = "Fail" -> "Fail"

And(a, b) == IF "Fail" \in {a, b} THEN "Fail"
             ELSE IF a = "Match" /\ b = "Match" THEN "Match" ELSE "NoMatch"

Or(a, b) == IF "Fail" \in {a, b} THEN "Fail"
            ELSE IF a = "Match" \/ b = "Match" THEN "Match" ELSE "NoMatch"
-------------------------------------------------------------------------------
(* What a user may expect of the comparisons of one field with one literal. *)

\* Exactly one of the numbers is smaller, or they are equal -- but for a field
\* of an integral type = does not mean that: it compares with the literal
\* without its fraction, so that 1 = 1.5 and 1 < 1.5 both hold.
Trichotomy(field, literal) ==
  (field.type \in Integral \cup Floating /\ IsNumber(literal) /\ ~field.nan) =>
    LET Is(operation) == CompareNumber(operation, field, literal) IN
      /\ Is("<") <=> ~Is(">=")
      /\ Is(">") <=> ~Is("<=")
      /\ ~(Is("<") /\ Is(">"))
      /\ IF field.type \in Integral /\ literal.type = "double" /\ literal.value % 2 # 0
         THEN /\ Is("<") \/ Is(">")
              /\ Is("=") <=> field.value = literal.value + (IF literal.value > 0 THEN -1 ELSE 1)
         ELSE Is("=") <=> ~Is("<") /\ ~Is(">")

\* != is the opposite of = where the two can be compared at all: a number with a
\* number, a text with a reference that is not null and not to something else
\* than a string.  Elsewhere neither holds.
Complement(field, literal, text) ==
  LET Is(operation) == Compare(operation, field, literal, text) IN
    /\ ~(Is("=") /\ Is("!="))
    /\ (Is("=") \/ Is("!=")) <=>
         \/ field.type \in Integral \cup Floating /\ IsNumber(literal)
         \/ /\ field.type = "object" /\ literal.type = "text"
            /\ field.value # 0 /\ text # "other"
         \/ field.type = "bool" /\ literal.type = "bool"
===============================================================================
