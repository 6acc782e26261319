------------------------------ MODULE QueryProofs ------------------------------
(* Theorems about queries: the comparisons of filters, for every number; the    *)
(* driver and what the parser makes of a text, for any number of texts of any   *)
(* length; the printing of a result, for every heap; what a query selects, by   *)
(* a filter or by a class name, for every heap; and what the iterators read of  *)
(* the values of an object, for every dump.                                     *)
EXTENDS QueryMeaning, HeapQuery, ObjectPrinter, HeapValues, FiniteSetTheorems, SequenceFacts

-------------------------------------------------------------------------------
(* The driver. *)

\* A sequence none of whose elements is the missing filter.
Present(s) == \E S : s \in Seq(S) /\ \A e \in S : e.op # "none"

\* The trees on the stack are there, the text is as long as the parser has come, and
\* once a query was run there is a filter.
DriverInv ==
  /\ Present(stack) /\ Present(text)
  /\ at = "SHOW" => Len(text) = 0
  /\ at = "source" => Len(text) = 1
  /\ at = "having" => Len(text) = 2
  /\ at = "accepted" /\ filter = None => Len(text) = 3
  /\ ran # NotRun => filter # None
  /\ process = "crashed" => Len(text) = 3 /\ ran = NotRun

\* No tokens and no trees are missing.
LEMMA NonePresent == Present(<<>>) /\ Len(<<>>) = 0
<1> DEFINE S == {}
<1>1. <<>> \in Seq(S) /\ Len(<<>>) = 0
  BY EmptySeq
<1>2. \A e \in S : e.op # "none"
  OBVIOUS
<1> HIDE DEF S
<1> QED
  BY <1>1, <1>2 DEF Present

\* One more does not change that.
LEMMA AppendPresent ==
  ASSUME NEW s, Present(s), NEW e, e.op # "none"
  PROVE  /\ Present(Append(s, e)) /\ Len(Append(s, e)) = Len(s) + 1
         /\ Len(s) \in Nat /\ Append(s, e)[Len(s) + 1] = e
<1>1. PICK S : s \in Seq(S) /\ \A x \in S : x.op # "none"
  BY DEF Present
<1> DEFINE T == S \cup {e}
<1>2. s \in Seq(T) /\ e \in T
  BY <1>1
<1>3. \A x \in T : x.op # "none"
  BY <1>1
<1> HIDE DEF T
<1>4. /\ Append(s, e) \in Seq(T) /\ Len(Append(s, e)) = Len(s) + 1 /\ Len(s) \in Nat
      /\ Append(s, e)[Len(s) + 1] = e
  BY <1>2, AppendProperties, LenProperties
<1> QED
  BY <1>3, <1>4 DEF Present

\* Nor does the beginning of a sequence.
LEMMA BeginningPresent ==
  ASSUME NEW s, Present(s), NEW n \in Nat, n <= Len(s)
  PROVE  Present(SubSeq(s, 1, n)) /\ Len(SubSeq(s, 1, n)) = n /\ Len(s) \in Nat
<1>1. PICK S : s \in Seq(S) /\ \A x \in S : x.op # "none"
  BY DEF Present
<1>2. SubSeq(s, 1, n) \in Seq(S) /\ Len(SubSeq(s, 1, n)) = n /\ Len(s) \in Nat
  BY <1>1
<1> QED
  BY <1>1, <1>2 DEF Present

\* An element is there.
LEMMA ElementPresent ==
  ASSUME NEW s, Present(s), NEW n \in 1..Len(s)
  PROVE  s[n].op # "none"
<1>1. PICK S : s \in Seq(S) /\ \A x \in S : x.op # "none"
  BY DEF Present
<1>2. s[n] \in S
  BY <1>1
<1> QED
  BY <1>1, <1>2

\* What is reduced is a tree.
LEMMA ReducedPresent ==
  ASSUME NEW s, Present(s)
  PROVE  Present(ReduceOr(s)) /\ Present(ReduceAnd(s))
<1>1. ASSUME NEW word, word # "none", Operator(s) = word PROVE Present(Reduce(s))
  <2>1. Len(s) \in Nat
    BY BeginningPresent DEF Present
  <2>2. ~(Len(s) < 3)
    BY <1>1 DEF Operator
  <2>3. Len(s) - 3 \in Nat /\ Len(s) - 3 <= Len(s)
    BY <2>1, <2>2
  <2>4. Present(SubSeq(s, 1, Len(s) - 3))
    BY <2>3, BeginningPresent
  <2>5. Node(Operator(s), s[Len(s) - 2], Last(s)).op # "none"
    BY <1>1 DEF Node
  <2> QED
    BY <2>4, <2>5, AppendPresent DEF Reduce
<1> QED
  BY <1>1 DEF ReduceOr, ReduceAnd

\* So is what is reduced before a token.
LEMMA BeforePresent == ASSUME NEW s, Present(s), NEW word PROVE Present(Before(word, s))
BY ReducedPresent DEF Before

\* A token that is read is there, and makes the text one longer.
LEMMA ReadsOne ==
  ASSUME Present(text), NEW expected, NEW words, Reads(expected, words), "none" \notin words
  PROVE  /\ Present(text') /\ Len(text') = Len(text) + 1 /\ Len(text) \in Nat
         /\ Last(text').op \in words
         /\ process = "up" /\ process' = "up" /\ ran' = ran /\ at = expected
<1>1. PICK t \in Tokens : t.op \in words /\ text' = Append(text, t)
  BY DEF Reads
<1>2. t.op # "none"
  BY <1>1
<1>3. /\ Present(text') /\ Len(text') = Len(text) + 1 /\ Len(text) \in Nat
      /\ text'[Len(text) + 1] = t
  BY <1>1, <1>2, AppendPresent
<1>4. Last(text').op \in words
  BY <1>1, <1>3 DEF Last
<1> QED
  BY <1>3, <1>4 DEF Reads

\* At the start nothing was read, run or crashed.
LEMMA DriverStart == Init => DriverInv
BY NonePresent DEF Init, DriverInv

\* Every step of the parser, and of its caller, keeps that.
LEMMA DriverStep == DriverInv /\ [Next]_vars => DriverInv'
<1> SUFFICES ASSUME DriverInv, [Next]_vars PROVE DriverInv'
  OBVIOUS
<1>1. Present(stack) /\ Present(text)
  BY DEF DriverInv
<1>2. CASE Parse
  BY <1>2, NonePresent DEF Parse, DriverInv
<1>3. CASE ReadShow
  <2>1. /\ Present(text') /\ Len(text') = Len(text) + 1 /\ process' = "up" /\ ran' = ran /\ at = "SHOW"
    BY <1>1, <1>3, ReadsOne DEF ReadShow
  <2> QED
    BY <1>3, <2>1 DEF ReadShow, DriverInv, driver
<1>4. CASE ReadSource
  <2>1. /\ Present(text') /\ Len(text') = Len(text) + 1 /\ process' = "up" /\ ran' = ran /\ at = "source"
    BY <1>1, <1>4, ReadsOne DEF ReadSource
  <2>2. Len(text) = 1
    BY <2>1 DEF DriverInv
  <2>3. at' = "having" /\ stack' = stack /\ filter' = filter
    BY <1>4 DEF ReadSource
  <2>4. Len(text') = 2
    BY <2>1, <2>2
  <2> QED
    BY <2>1, <2>3, <2>4 DEF DriverInv
<1>5. CASE ReadHaving
  <2>1. /\ Present(text') /\ process' = "up" /\ ran' = ran
    BY <1>1, <1>5, ReadsOne DEF ReadHaving
  <2> QED
    BY <1>5, <2>1 DEF ReadHaving, DriverInv, driver
<1>6. CASE ReadOperand
  <2>1. /\ Present(text') /\ process' = "up" /\ ran' = ran /\ Last(text').op \in {"(", "compare"}
    BY <1>1, <1>6, ReadsOne DEF ReadOperand
  <2>2. Present(stack')
    BY <1>1, <1>6, <2>1, AppendPresent DEF ReadOperand
  <2>3. at' \in {"operand", "operator"} /\ filter' = filter
    BY <1>6 DEF ReadOperand, driver
  <2> QED
    BY <2>1, <2>2, <2>3 DEF DriverInv
<1>7. CASE ReadOperator
  <2>1. /\ Present(text') /\ process' = "up" /\ ran' = ran /\ Last(text').op \in {"AND", "OR"}
    BY <1>1, <1>7, ReadsOne DEF ReadOperator
  <2>2. Present(stack')
    BY <1>1, <1>7, <2>1, AppendPresent, BeforePresent DEF ReadOperator
  <2>3. at' = "operand" /\ filter' = filter
    BY <1>7 DEF ReadOperator, driver
  <2> QED
    BY <2>1, <2>2, <2>3 DEF DriverInv
<1>8. CASE CloseParenthesis
  <2>1. /\ Present(text') /\ process' = "up" /\ ran' = ran /\ at = "operator"
    BY <1>1, <1>8, ReadsOne DEF CloseParenthesis
  <2> DEFINE s == Before(")", stack)
  <2>2. Present(s) /\ Len(s) > 1 /\ stack' = Append(SubSeq(s, 1, Len(s) - 2), Last(s))
    BY <1>1, <1>8, BeforePresent DEF CloseParenthesis
  <2> HIDE DEF s
  <2>3. Len(s) \in Nat
    BY <2>2, BeginningPresent DEF Present
  <2>4. Present(SubSeq(s, 1, Len(s) - 2))
    BY <2>2, <2>3, BeginningPresent
  <2>5. Last(s).op # "none"
    BY <2>2, <2>3, ElementPresent DEF Last
  <2>6. Present(stack')
    BY <2>2, <2>4, <2>5, AppendPresent
  <2>7. at' = at /\ filter' = filter
    BY <1>8 DEF CloseParenthesis, driver
  <2> QED
    BY <2>1, <2>6, <2>7 DEF DriverInv
<1>9. CASE Wrong
  <2>1. \E expected, words : Reads(expected, words) /\ "none" \notin words
    BY <1>9 DEF Wrong, AnyBut, Words
  <2>2. /\ Present(text') /\ process' = "up" /\ ran' = ran
    BY <1>1, <2>1, ReadsOne
  <2>3. at' = "idle" /\ stack' = <<>> /\ filter' = filter
    BY <1>9 DEF Wrong, Refuse
  <2> QED
    BY <2>2, <2>3, NonePresent DEF DriverInv
<1>10. CASE Complete
  <2>1. \E expected, words : Reads(expected, words) /\ "none" \notin words
    BY <1>10 DEF Complete, AnyBut, Words
  <2>2. /\ Present(text') /\ Len(text') = Len(text) + 1 /\ process' = "up" /\ ran' = ran
    BY <1>1, <2>1, ReadsOne
  <2>3. stack' = <<>> /\ at' \in {"idle", "accepted"}
    BY <1>10 DEF Complete, Refuse
  <2>4. CASE Reads("having", AnyBut({"HAVING"})) /\ UNCHANGED filter
    <3>1. at = "having" /\ filter' = filter
      BY <2>4 DEF Reads
    <3>2. Len(text) = 2
      BY <3>1 DEF DriverInv
    <3>3. Len(text') = 3
      BY <2>2, <3>2
    <3> QED
      BY <2>2, <2>3, <3>1, <3>3, NonePresent DEF DriverInv
  <2>5. CASE Len(Before("END", stack)) = 1 /\ filter' = Before("END", stack)[1]
    <3>1. Present(Before("END", stack))
      BY <1>1, BeforePresent
    <3>2. filter'.op # "none"
      <4>1. 1 \in 1..Len(Before("END", stack))
        BY <2>5
      <4> QED
        BY <2>5, <3>1, <4>1, ElementPresent
    <3>3. filter' # None
      BY <3>2 DEF None
    <3> QED
      BY <2>2, <2>3, <3>3, NonePresent DEF DriverInv
  <2> QED
    BY <1>10, <2>4, <2>5 DEF Complete
<1>11. CASE Jam
  BY <1>11 DEF Jam, DriverInv, driver
<1>12. CASE Run
  BY <1>12 DEF Run, NoFilter, DriverInv, driver
<1>13. CASE UNCHANGED vars
  BY <1>13 DEF vars, driver, DriverInv
<1> QED
  BY <1>2, <1>3, <1>4, <1>5, <1>6, <1>7, <1>8, <1>9, <1>10, <1>11, <1>12, <1>13 DEF Next

\* Only a query without HAVING, before any query was run with a filter, ends the program by a
\* filter that is not there, whatever was read before.
THEOREM CrashesCorrect == Spec => []CrashesAtFirst
<1>1. DriverInv => CrashesAtFirst
  BY DEF DriverInv, CrashesAtFirst
<1> QED
  BY <1>1, DriverStart, DriverStep, PTL DEF Spec

-------------------------------------------------------------------------------
(* The comparisons. *)

\* The conversion of a literal to an integer takes the half off, towards 0.
LEMMA TruncatedIs ==
  ASSUME NEW h \in Int
  PROVE  Truncated(h) = IF h % 2 = 0 THEN h ELSE h + (IF h > 0 THEN -1 ELSE 1)
<1>1. CASE h >= 0
  BY <1>1 DEF Truncated
<1>2. CASE ~(h >= 0)
  BY <1>2 DEF Truncated
<1> QED BY <1>1, <1>2

\* What = compares a field with: the literal, but for a field of an integral type
\* the literal without its fraction (operator==, operator!= for int64_t).
LEMMA Operand ==
  ASSUME NEW f, NEW l, NumericLiteral(l)
  PROVE  AsOperand(f, l) =
           IF f.type \in Integral /\ l.type = "double" /\ l.value % 2 # 0
           THEN l.value + (IF l.value > 0 THEN -1 ELSE 1)
           ELSE l.value
BY TruncatedIs DEF AsOperand, NumericLiteral

\* The six comparisons of any number field with any number literal relate as
\* Trichotomy says, the exception of fractions included.
THEOREM TrichotomyCorrect ==
  ASSUME NEW f, NEW l, NumericField(f), NumericLiteral(l)
  PROVE  Trichotomy(f, l)
<1> SUFFICES ASSUME ~f.nan PROVE Trichotomy(f, l)
  BY DEF Trichotomy
<1> DEFINE Is(o) == CompareNumber(o, f, l)
<1>1. f.value \in Int /\ l.value \in Int /\ IsNumber(l)
  BY DEF NumericField, NumericLiteral
<1>2. /\ Is("<") <=> f.value < l.value
      /\ Is("<=") <=> f.value <= l.value
      /\ Is(">") <=> f.value > l.value
      /\ Is(">=") <=> f.value >= l.value
      /\ Is("=") <=> AsOperand(f, l) = f.value
  BY <1>1 DEF CompareNumber
<1>3. CASE f.type \in Integral /\ l.type = "double" /\ l.value % 2 # 0
  <2>1. f.value % 2 = 0
    BY <1>3 DEF NumericField
  <2>2. f.value # l.value
    BY <2>1, <1>3
  <2>3. Is("=") <=> f.value = l.value + (IF l.value > 0 THEN -1 ELSE 1)
    BY <1>2, <1>3, Operand, <1>1
  <2> HIDE DEF Is
  <2>4. /\ Is("<") <=> ~Is(">=")
        /\ Is(">") <=> ~Is("<=")
        /\ ~(Is("<") /\ Is(">"))
        /\ Is("<") \/ Is(">")
    BY <1>1, <1>2, <2>2
  <2> QED BY <1>3, <2>3, <2>4 DEF Trichotomy, Is
<1>4. CASE ~(f.type \in Integral /\ l.type = "double" /\ l.value % 2 # 0)
  <2>1. AsOperand(f, l) = l.value
    BY <1>4, Operand
  <2> HIDE DEF Is
  <2>2. /\ Is("<") <=> ~Is(">=")
        /\ Is(">") <=> ~Is("<=")
        /\ ~(Is("<") /\ Is(">"))
        /\ Is("=") <=> ~Is("<") /\ ~Is(">")
    BY <1>1, <1>2, <2>1
  <2> QED BY <1>4, <2>2 DEF Trichotomy, Is
<1> QED BY <1>3, <1>4

\* = and != exclude each other, and one of them holds exactly where the field and
\* the literal can be compared (Complement), for every field and literal.
THEOREM ComplementCorrect ==
  ASSUME NEW f, NEW l, NEW content
  PROVE  Complement(f, l, content)
<1>1. CompareNumber("=", f, l) <=> IsNumber(l) /\ ~f.nan /\ AsOperand(f, l) = f.value
  BY DEF CompareNumber
<1>2. CompareNumber("!=", f, l) <=> IsNumber(l) /\ (f.nan \/ AsOperand(f, l) # f.value)
  BY DEF CompareNumber
<1>3. Compare("=", f, l, content) <=> MatchEquals(f, l, content)
  BY DEF Compare
<1>4. Compare("!=", f, l, content) <=> MatchNotEquals(f, l, content)
  BY DEF Compare
<1>5. /\ f.type = "bool" => f.type \notin Integral \cup Floating
      /\ f.type = "object" => f.type \notin Integral \cup Floating
  BY DEF Integral, Floating
<1> QED BY <1>1, <1>2, <1>3, <1>4, <1>5 DEF Complement, MatchEquals, MatchNotEquals, CanCompare

\* The logic of filters is a strict three-valued one: the laws of De Morgan hold
\* with failures, and a failure on either side comes through.
THEOREM DeMorgan ==
  \A a, b \in Results :
    /\ Not(And(a, b)) = Or(Not(a), Not(b))
    /\ Not(Or(a, b)) = And(Not(a), Not(b))
    /\ And(a, b) = "Fail" <=> "Fail" \in {a, b}
    /\ Or(a, b) = "Fail" <=> "Fail" \in {a, b}
BY DEF Results, Not, And, Or

-------------------------------------------------------------------------------
(* Parentheses and what tokens mean. *)

\* Tokens are counted one by one,
LEMMA CountOne ==
  ASSUME NEW t, NEW word, NEW i \in Nat, NEW k \in Nat, i <= k + 1
  PROVE  /\ Count(word, t, i, k) \in Nat
         /\ Count(word, t, i, k + 1) = Count(word, t, i, k) + (IF t[k + 1].op = word THEN 1 ELSE 0)
<1> DEFINE S == {m \in i..k : t[m].op = word}
<1> DEFINE T == {m \in i..k + 1 : t[m].op = word}
<1>1. IsFiniteSet(S)
  <2>1. IsFiniteSet(i..k)
    BY FS_Interval
  <2> QED
    BY <2>1, FS_Subset
<1>2. k + 1 \notin S
  OBVIOUS
<1>3. T = IF t[k + 1].op = word THEN S \cup {k + 1} ELSE S
  <2>1. i..k + 1 = (i..k) \cup {k + 1}
    OBVIOUS
  <2> QED
    BY <2>1
<1>4. Cardinality(S) \in Nat
  BY <1>1, FS_CardinalityType
<1>5. Cardinality(S \cup {k + 1}) = Cardinality(S) + 1
  <2> HIDE DEF S
  <2> QED
    BY <1>1, <1>2, FS_AddElement
<1>6. Count(word, t, i, k) = Cardinality(S) /\ Count(word, t, i, k + 1) = Cardinality(T)
  BY DEF Count
<1> HIDE DEF S, T
<1> QED
  BY <1>3, <1>4, <1>5, <1>6

\* and where there are none there is nothing to count.
LEMMA CountNone ==
  ASSUME NEW t, NEW word, NEW i \in Nat
  PROVE  Count(word, t, i, i - 1) = 0
<1>1. {m \in i..i - 1 : t[m].op = word} = {}
  OBVIOUS
<1> QED
  BY <1>1, FS_EmptySet DEF Count

\* What a token adds to the depth.
Deeper(token) == IF token.op = "(" THEN 1 ELSE IF token.op = ")" THEN -1 ELSE 0

\* The depth goes by the tokens one by one.
LEMMA DepthSteps ==
  ASSUME NEW t, NEW i \in Nat \ {0}
  PROVE  /\ Depth(t, i, i - 1) = 0
         /\ \A k \in Nat : i <= k + 1 => /\ Depth(t, i, k) \in Int
                                         /\ Depth(t, i, k + 1) = Depth(t, i, k) + Deeper(t[k + 1])
<1>1. Depth(t, i, i - 1) = 0
  BY CountNone DEF Depth
<1>2. ASSUME NEW k \in Nat, i <= k + 1
      PROVE  /\ Depth(t, i, k) \in Int
             /\ Depth(t, i, k + 1) = Depth(t, i, k) + Deeper(t[k + 1])
  <2>1. \A word : /\ Count(word, t, i, k) \in Nat
                  /\ Count(word, t, i, k + 1) = Count(word, t, i, k) + (IF t[k + 1].op = word THEN 1 ELSE 0)
    BY <1>2, CountOne
  <2> QED
    BY <2>1 DEF Depth, Deeper
<1> QED
  BY <1>1, <1>2

\* The depth of a token alone.
LEMMA DepthAlone ==
  ASSUME NEW t, NEW i \in Nat \ {0}
  PROVE  Depth(t, i, i) = Deeper(t[i])
<1>1. /\ Depth(t, i, i - 1) = 0 /\ i - 1 \in Nat /\ (i - 1) + 1 = i
      /\ Depth(t, i, (i - 1) + 1) = Depth(t, i, i - 1) + Deeper(t[(i - 1) + 1])
  BY DepthSteps
<1> QED
  BY <1>1 DEF Deeper

\* Where tokens are the same, so is the depth.
LEMMA DepthSame ==
  ASSUME NEW t, NEW u, NEW i \in Nat, NEW k \in Int, \A m \in i..k : t[m] = u[m]
  PROVE  Depth(t, i, k) = Depth(u, i, k)
<1>1. \A word : {m \in i..k : t[m].op = word} = {m \in i..k : u[m].op = word}
  OBVIOUS
<1> QED
  BY <1>1 DEF Depth, Count

\* The depths of two neighbours add up.
LEMMA DepthAdds ==
  ASSUME NEW t, NEW i \in Nat \ {0}, NEW j \in Nat, i <= j + 1
  PROVE  \A k \in Nat : j <= k => Depth(t, i, k) = Depth(t, i, j) + Depth(t, j + 1, k)
<1> SUFFICES ASSUME NEW n \in Nat, j <= n
             PROVE  Depth(t, i, n) = Depth(t, i, j) + Depth(t, j + 1, n)
  OBVIOUS
<1> DEFINE S == {m \in 0..(n - j) : Depth(t, i, j + m) = Depth(t, i, j) + Depth(t, j + 1, j + m)}
<1>0. j + 1 \in Nat \ {0} /\ (j + 1) - 1 = j /\ n - j \in Nat
  OBVIOUS
<1>1. 0 \in S
  <2>1. Depth(t, i, j) \in Int
    BY DepthSteps
  <2>2. Depth(t, j + 1, (j + 1) - 1) = 0
    BY <1>0, DepthSteps
  <2>3. j + 0 = j
    OBVIOUS
  <2> QED
    BY <1>0, <2>1, <2>2, <2>3
<1>2. ASSUME NEW m \in 0..(n - j) - 1, m \in S PROVE m + 1 \in S
  <2>1. j + m \in Nat /\ (j + m) + 1 = j + (m + 1) /\ i <= (j + m) + 1 /\ j + 1 <= (j + m) + 1
        /\ m + 1 \in 0..(n - j)
    OBVIOUS
  <2>2. Depth(t, i, (j + m) + 1) = Depth(t, i, j + m) + Deeper(t[(j + m) + 1])
    BY <2>1, DepthSteps
  <2>3. /\ Depth(t, j + 1, j + m) \in Int
        /\ Depth(t, j + 1, (j + m) + 1) = Depth(t, j + 1, j + m) + Deeper(t[(j + m) + 1])
    BY <1>0, <2>1, DepthSteps
  <2>4. Depth(t, i, j) \in Int
    BY DepthSteps
  <2>5. Deeper(t[(j + m) + 1]) \in Int
    BY DEF Deeper
  <2>6. Depth(t, i, j + m) = Depth(t, i, j) + Depth(t, j + 1, j + m)
    BY <1>2
  <2>7. Depth(t, i, j + (m + 1)) = Depth(t, i, j) + Depth(t, j + 1, j + (m + 1))
    BY <2>1, <2>2, <2>3, <2>4, <2>5, <2>6
  <2> QED
    BY <2>1, <2>7
<1>3. n - j \in S
  <2> HIDE DEF S
  <2>1. \A m \in 0..(n - j) : m \in S
    BY <1>0, <1>1, <1>2, InductionTo
  <2> QED
    BY <1>0, <2>1
<1>4. j + (n - j) = n
  OBVIOUS
<1> QED
  BY <1>3, <1>4

\* The last cut is one, where there are any.
LEMMA LastCutIs ==
  ASSUME NEW t, NEW word, NEW i \in Nat, NEW n \in Nat, Cuts(word, t, i, n) # {}
  PROVE  /\ LastCut(word, t, i, n) \in Cuts(word, t, i, n)
         /\ LastCut(word, t, i, n) \in i..i + n - 1
         /\ \A j \in Cuts(word, t, i, n) : j <= LastCut(word, t, i, n)
<1> DEFINE C == Cuts(word, t, i, n)
<1> DEFINE T == {m \in Nat : \E k \in C : m = i + n - k}
<1>1. \A k \in C : k \in i..i + n - 1
  BY DEF Cuts
<1>2. T # {}
  <2>1. PICK k \in C : TRUE
    OBVIOUS
  <2>2. i + n - k \in Nat
    BY <1>1, <2>1
  <2> HIDE DEF C
  <2> QED
    BY <2>1, <2>2
<1>3. PICK m \in T : \A l \in T : m <= l
  <2>1. T \in SUBSET Nat
    OBVIOUS
  <2> HIDE DEF T
  <2> QED
    BY <1>2, <2>1, LeastNumber
<1>4. PICK k \in C : m = i + n - k
  OBVIOUS
<1>5. ASSUME NEW j \in C PROVE j <= k
  <2>1. i + n - j \in Nat
    BY <1>1
  <2>2. i + n - j \in T
    BY <2>1
  <2>3. m <= i + n - j
    BY <1>3, <2>2
  <2>4. k \in i..i + n - 1 /\ j \in i..i + n - 1
    BY <1>1
  <2> HIDE DEF T, C
  <2> QED
    BY <1>4, <2>3, <2>4
<1>6. \E c \in C : \A j \in C : j <= c
  BY <1>4, <1>5
<1> HIDE DEF C, T
<1>7. LastCut(word, t, i, n) \in C /\ \A j \in C : j <= LastCut(word, t, i, n)
  BY <1>6 DEF LastCut, C
<1> QED
  BY <1>1, <1>7 DEF C

\* A last cut is the only place with that.
LEMMA LastCutAt ==
  ASSUME NEW t, NEW word, NEW i \in Nat, NEW n \in Nat,
         NEW k \in Cuts(word, t, i, n), \A j \in Cuts(word, t, i, n) : j <= k
  PROVE  LastCut(word, t, i, n) = k
<1>1. /\ LastCut(word, t, i, n) \in Cuts(word, t, i, n)
      /\ \A j \in Cuts(word, t, i, n) : j <= LastCut(word, t, i, n)
  BY LastCutIs
<1>2. \A j \in Cuts(word, t, i, n) : j \in Int
  BY DEF Cuts
<1> QED
  BY <1>1, <1>2

\* What tokens mean depends on the tokens, and on what fewer of them mean.
SameTokens(t, u, i, n) == \A m \in i..i + n - 1 : t[m] = u[m]
SameParts(f, g, i, n) == \A j \in 0..n - 1 : \A k \in i..i + n - j : f[j][k] = g[j][k]

LEMMA MeansSame ==
  ASSUME NEW t, NEW u, NEW f, NEW g, NEW i \in Nat, NEW n \in Nat,
         SameTokens(t, u, i, n), SameParts(f, g, i, n)
  PROVE  Means(t, f, i, n) = Means(u, g, i, n)
<1> USE DEF SameTokens, SameParts
<1>1. \A word : Cuts(word, t, i, n) = Cuts(word, u, i, n)
  <2>1. ASSUME NEW k \in i..i + n - 1 PROVE Depth(t, i, k) = Depth(u, i, k)
    <3>1. \A m \in i..k : t[m] = u[m]
      OBVIOUS
    <3> QED
      BY <3>1, DepthSame
  <2> QED
    BY <2>1 DEF Cuts
<1>2. \A word : LastCut(word, t, i, n) = LastCut(word, u, i, n)
  BY <1>1 DEF LastCut
<1>3. ASSUME NEW word, Cuts(word, t, i, n) # {}
      PROVE  JoinAt(LastCut(word, t, i, n), t, f, i, n) = JoinAt(LastCut(word, u, i, n), u, g, i, n)
  <2> DEFINE k == LastCut(word, t, i, n)
  <2>1. k \in i..i + n - 1
    BY <1>3, LastCutIs
  <2>2. LastCut(word, u, i, n) = k
    BY <1>2
  <2> HIDE DEF k
  <2>3. /\ k - i \in 0..n - 1 /\ i \in i..i + n - (k - i)
        /\ i + n - 1 - k \in 0..n - 1 /\ k + 1 \in i..i + n - (i + n - 1 - k)
    BY <2>1
  <2>4. f[k - i][i] = g[k - i][i] /\ f[i + n - 1 - k][k + 1] = g[i + n - 1 - k][k + 1]
    BY <2>3
  <2>5. t[k] = u[k]
    BY <2>1
  <2>6. JoinAt(k, t, f, i, n) = JoinAt(k, u, g, i, n)
    BY <2>4, <2>5 DEF JoinAt
  <2> QED
    BY <2>2, <2>6 DEF k
<1>4. n = 1 => t[i] = u[i]
  OBVIOUS
<1>5. n > 2 => t[i] = u[i] /\ t[i + n - 1] = u[i + n - 1] /\ f[n - 2][i + 1] = g[n - 2][i + 1]
  <2> SUFFICES ASSUME n > 2
               PROVE  t[i] = u[i] /\ t[i + n - 1] = u[i + n - 1] /\ f[n - 2][i + 1] = g[n - 2][i + 1]
    OBVIOUS
  <2>1. i \in i..i + n - 1 /\ i + n - 1 \in i..i + n - 1 /\ n - 2 \in 0..n - 1 /\ i + 1 \in i..i + n - (n - 2)
    OBVIOUS
  <2> QED
    BY <2>1
<1> QED
  BY <1>1, <1>3, <1>4, <1>5 DEF Means

\* Tables that agree on fewer tokens give the same meaning.
LEMMA MeansRows ==
  ASSUME NEW t, NEW f, NEW g, NEW i \in Nat, NEW n \in Nat, \A j \in 0..n - 1 : f[j] = g[j]
  PROVE  Means(t, f, i, n) = Means(t, g, i, n)
<1>1. SameTokens(t, t, i, n) /\ SameParts(f, g, i, n)
  BY DEF SameTokens, SameParts
<1> QED
  BY <1>1, MeansSame

\* The meanings of all parts of a text.
Table(t) == [m \in 0..Len(t) |-> [k \in 1..Len(t) - m + 1 |-> Meaning(t, k, m)]]

\* The recursion defines them.
LEMMA MeaningIs ==
  ASSUME NEW t, Len(t) \in Nat
  PROVE  \A n \in 0..Len(t) : \A i \in 1..Len(t) - n + 1 :
           /\ Meaning(t, i, n) = Means(t, Table(t), i, n)
           /\ Table(t)[n][i] = Meaning(t, i, n)
<1> DEFINE N == Len(t)
<1> DEFINE Upto(m, f) == f = [j \in 0..m |-> [k \in 1..N - j + 1 |-> Means(t, f, k, j)]]
<1> DEFINE S == {m \in 0..N : \E f : Upto(m, f)}
<1>0. N \in Nat
  OBVIOUS
<1>1. 0 \in S
  <2> DEFINE e == <<>>
  <2> DEFINE f == [j \in 0..0 |-> [k \in 1..N - j + 1 |-> Means(t, e, k, j)]]
  <2>1. ASSUME NEW j \in 0..0, NEW k \in 1..N - j + 1 PROVE Means(t, e, k, j) = Means(t, f, k, j)
    <3>1. k \in Nat /\ j \in Nat /\ j = 0
      OBVIOUS
    <3> HIDE DEF e, f
    <3>2. \A l \in 0..j - 1 : e[l] = f[l]
      BY <3>1
    <3> QED
      BY ONLY <3>1, <3>2, MeansRows
  <2>2. f = [j \in 0..0 |-> [k \in 1..N - j + 1 |-> Means(t, f, k, j)]]
    <3> HIDE DEF e
    <3> QED
      BY <2>1
  <2> HIDE DEF f
  <2> QED
    BY <1>0, <2>2
<1>2. ASSUME NEW m \in 0..N - 1, m \in S PROVE m + 1 \in S
  <2>1. PICK f : Upto(m, f)
    BY <1>2
  <2> DEFINE g == [j \in 0..m + 1 |-> IF j = m + 1 THEN [k \in 1..N - j + 1 |-> Means(t, f, k, j)] ELSE f[j]]
  <2>2. \A j \in 0..m : g[j] = f[j]
    OBVIOUS
  <2>3. ASSUME NEW j \in 0..m + 1, NEW k \in 1..N - j + 1 PROVE Means(t, f, k, j) = Means(t, g, k, j)
    <3>1. \A l \in 0..j - 1 : f[l] = g[l]
      BY <2>2
    <3> HIDE DEF g
    <3>2. k \in Nat /\ j \in Nat
      OBVIOUS
    <3> QED
      BY ONLY <3>1, <3>2, MeansRows
  <2>4. ASSUME NEW j \in 0..m + 1 PROVE g[j] = [k \in 1..N - j + 1 |-> Means(t, g, k, j)]
    <3>1. CASE j = m + 1
      <4>1. g[j] = [k \in 1..N - j + 1 |-> Means(t, f, k, j)]
        BY <3>1
      <4> HIDE DEF g
      <4> QED
        BY <2>3, <4>1
    <3>2. CASE j # m + 1
      <4>1. j \in 0..m
        BY <3>2
      <4>2. g[j] = f[j]
        BY <2>2, <4>1
      <4>3. f[j] = [k \in 1..N - j + 1 |-> Means(t, f, k, j)]
        BY <2>1, <4>1
      <4> HIDE DEF g
      <4> QED
        BY <2>3, <4>2, <4>3
    <3> QED
      BY <3>1, <3>2
  <2>5. g = [j \in 0..m + 1 |-> g[j]]
    OBVIOUS
  <2>6. Upto(m + 1, g)
    <3> HIDE DEF g
    <3> QED
      BY <2>4, <2>5
  <2> HIDE DEF g, Upto
  <2> QED
    BY <1>0, <2>6
<1>3. N \in S
  <2> HIDE DEF S, N
  <2>1. \A m \in 0..N : m \in S
    BY <1>0, <1>1, <1>2, InductionTo
  <2> QED
    BY <1>0, <2>1
<1> DEFINE h == CHOOSE f : Upto(N, f)
<1>4. Upto(N, h)
  <2> HIDE DEF Upto
  <2> QED
    BY <1>3
<1>5. \A n, i : Meaning(t, i, n) = h[n][i]
  BY DEF Meaning
<1> HIDE DEF h
<1>6. Table(t) = h
  <2>1. Table(t) = [m \in 0..N |-> [k \in 1..N - m + 1 |-> h[m][k]]]
    BY <1>5 DEF Table
  <2>2. ASSUME NEW m \in 0..N PROVE [k \in 1..N - m + 1 |-> h[m][k]] = h[m]
    <3>1. h[m] = [k \in 1..N - m + 1 |-> Means(t, h, k, m)]
      BY <1>4
    <3> QED
      BY <3>1
  <2>3. h = [m \in 0..N |-> h[m]]
    BY <1>4
  <2> HIDE DEF N
  <2> QED
    BY <2>1, <2>2, <2>3
<1>7. ASSUME NEW n \in 0..N, NEW i \in 1..N - n + 1
      PROVE  h[n][i] = Means(t, h, i, n)
  <2>1. h[n] = [k \in 1..N - n + 1 |-> Means(t, h, k, n)]
    BY <1>4
  <2> QED
    BY <2>1
<1> QED
  BY <1>5, <1>6, <1>7

\* Two parts of a text joined by the word at a place.
Joined(t, k, i, n) == Join(t[k].op, Meaning(t, i, k - i), Meaning(t, k + 1, i + n - 1 - k))

\* What a part of a text means, in terms of what its parts mean.
LEMMA MeaningOf ==
  ASSUME NEW t, Len(t) \in Nat, NEW n \in 0..Len(t), NEW i \in 1..Len(t) - n + 1
  PROVE  Meaning(t, i, n) =
           IF Cuts("AND", t, i, n) # {} THEN Joined(t, LastCut("AND", t, i, n), i, n)
           ELSE IF Cuts("OR", t, i, n) # {} THEN Joined(t, LastCut("OR", t, i, n), i, n)
           ELSE IF n = 1 THEN (IF t[i].op = "compare" THEN t[i] ELSE None)
           ELSE IF n > 2 /\ t[i].op = "(" /\ t[i + n - 1].op = ")" THEN Meaning(t, i + 1, n - 2)
           ELSE None
<1>0. i \in Nat /\ n \in Nat
  OBVIOUS
<1>1. ASSUME NEW word, Cuts(word, t, i, n) # {}
      PROVE  JoinAt(LastCut(word, t, i, n), t, Table(t), i, n) = Joined(t, LastCut(word, t, i, n), i, n)
  <2> DEFINE k == LastCut(word, t, i, n)
  <2>1. k \in i..i + n - 1
    BY <1>0, <1>1, LastCutIs
  <2> HIDE DEF k
  <2>2. /\ k - i \in 0..Len(t) /\ i \in 1..Len(t) - (k - i) + 1
        /\ i + n - 1 - k \in 0..Len(t) /\ k + 1 \in 1..Len(t) - (i + n - 1 - k) + 1
    BY <2>1
  <2>3. /\ Table(t)[k - i][i] = Meaning(t, i, k - i)
        /\ Table(t)[i + n - 1 - k][k + 1] = Meaning(t, k + 1, i + n - 1 - k)
    BY <2>2, MeaningIs
  <2>4. JoinAt(k, t, Table(t), i, n) = Joined(t, k, i, n)
    BY <2>3 DEF JoinAt, Joined
  <2> QED
    BY <2>4 DEF k
<1>2. n > 2 => Table(t)[n - 2][i + 1] = Meaning(t, i + 1, n - 2)
  <2> SUFFICES ASSUME n > 2 PROVE Table(t)[n - 2][i + 1] = Meaning(t, i + 1, n - 2)
    OBVIOUS
  <2>1. n - 2 \in 0..Len(t) /\ i + 1 \in 1..Len(t) - (n - 2) + 1
    OBVIOUS
  <2> QED
    BY <2>1, MeaningIs
<1>3. Meaning(t, i, n) = Means(t, Table(t), i, n)
  BY MeaningIs
<1> QED
  BY <1>1, <1>2, <1>3 DEF Means

\* Induction over the length of a part.
LEMMA PartInduction ==
  ASSUME NEW N \in Nat, NEW S, \A n \in 0..N : (\A m \in 0..n - 1 : m \in S) => n \in S
  PROVE  \A n \in 0..N : n \in S
<1> DEFINE T == {n \in 0..N : \A m \in 0..n : m \in S}
<1>1. 0 \in T
  <2>1. 0 \in S
    OBVIOUS
  <2> QED
    BY <2>1
<1>2. ASSUME NEW n \in 0..N - 1, n \in T PROVE n + 1 \in T
  <2>1. \A m \in 0..n : m \in S
    BY <1>2
  <2>2. n + 1 \in 0..N /\ \A m \in 0..(n + 1) - 1 : m \in S
    BY <2>1
  <2>3. n + 1 \in S
    BY <2>2
  <2>4. \A m \in 0..n + 1 : m \in 0..n \/ m = n + 1
    OBVIOUS
  <2> QED
    BY <2>1, <2>2, <2>3, <2>4
<1>3. \A n \in 0..N : n \in T
  <2> HIDE DEF T
  <2> QED
    BY <1>1, <1>2, InductionTo
<1>4. ASSUME NEW n \in 0..N PROVE n \in S
  <2>1. n \in T /\ n \in 0..n
    BY <1>3
  <2> QED
    BY <2>1
<1> QED
  BY <1>4

\* What the beginning of a text means does not depend on how it goes on.
LEMMA MeaningSame ==
  ASSUME NEW t, NEW u, Len(t) \in Nat, Len(u) \in Nat, NEW L \in Nat, L <= Len(t), L <= Len(u),
         \A m \in 1..L : t[m] = u[m]
  PROVE  \A n \in 0..L : \A i \in 1..L - n + 1 : Meaning(t, i, n) = Meaning(u, i, n)
<1> DEFINE S == {n \in 0..L : \A i \in 1..L - n + 1 : Meaning(t, i, n) = Meaning(u, i, n)}
<1>1. ASSUME NEW n \in 0..L, \A m \in 0..n - 1 : m \in S PROVE n \in S
  <2>1. ASSUME NEW i \in 1..L - n + 1 PROVE Meaning(t, i, n) = Meaning(u, i, n)
    <3>1. ASSUME NEW j \in 0..n - 1, NEW k \in i..i + n - j PROVE Table(t)[j][k] = Table(u)[j][k]
      <4>1. j \in 0..L /\ k \in 1..L - j + 1
        OBVIOUS
      <4>2. /\ j \in 0..Len(t) /\ k \in 1..Len(t) - j + 1
            /\ j \in 0..Len(u) /\ k \in 1..Len(u) - j + 1
        BY <4>1
      <4>3. Table(t)[j][k] = Meaning(t, k, j) /\ Table(u)[j][k] = Meaning(u, k, j)
        BY <4>2, MeaningIs
      <4>4. j \in S
        BY <1>1
      <4> QED
        BY <4>1, <4>3, <4>4
    <3>2. \A m \in i..i + n - 1 : t[m] = u[m]
      <4>1. \A m \in i..i + n - 1 : m \in 1..L
        OBVIOUS
      <4> QED
        BY <4>1
    <3>3. /\ n \in 0..Len(t) /\ i \in 1..Len(t) - n + 1
          /\ n \in 0..Len(u) /\ i \in 1..Len(u) - n + 1
          /\ n \in Nat /\ i \in Nat
      OBVIOUS
    <3>4. Means(t, Table(t), i, n) = Means(u, Table(u), i, n)
      <4>1. SameTokens(t, u, i, n) /\ SameParts(Table(t), Table(u), i, n)
        BY <3>1, <3>2 DEF SameTokens, SameParts
      <4> QED
        BY <3>3, <4>1, MeansSame
    <3> QED
      BY <3>3, <3>4, MeaningIs
  <2> QED
    BY <2>1
<1>2. \A n \in 0..L : n \in S
  <2> HIDE DEF S
  <2> QED
    BY <1>1, PartInduction
<1> QED
  BY <1>2

\* A text that means something closes the parentheses it opens, and does not end
\* with an operator or an open parenthesis.
Whole(t, i, n) == /\ n > 0 /\ Depth(t, i, i + n - 1) = 0
                  /\ t[i + n - 1].op \in {"compare", ")"}

LEMMA MeaningWhole ==
  ASSUME NEW t, Len(t) \in Nat
  PROVE  \A n \in 0..Len(t) : \A i \in 1..Len(t) - n + 1 : Meaning(t, i, n) # None => Whole(t, i, n)
<1> DEFINE N == Len(t)
<1> DEFINE S == {n \in 0..N : \A i \in 1..N - n + 1 : Meaning(t, i, n) # None => Whole(t, i, n)}
<1>1. ASSUME NEW n \in 0..N, \A m \in 0..n - 1 : m \in S PROVE n \in S
  <2> SUFFICES ASSUME NEW i \in 1..N - n + 1, Meaning(t, i, n) # None PROVE Whole(t, i, n)
    OBVIOUS
  <2>0. i \in Nat \ {0} /\ n \in Nat
    OBVIOUS
  <2>1. ASSUME NEW word, word \in {"AND", "OR"}, Cuts(word, t, i, n) # {},
               Meaning(t, i, n) = Joined(t, LastCut(word, t, i, n), i, n)
        PROVE  Whole(t, i, n)
    <3> DEFINE k == LastCut(word, t, i, n)
    <3>1. k \in i..i + n - 1 /\ k \in Cuts(word, t, i, n)
      BY <2>0, <2>1, LastCutIs
    <3>2. Meaning(t, i, n) = Joined(t, k, i, n)
      BY <2>1
    <3> HIDE DEF k
    <3>3. t[k].op = word /\ Depth(t, i, k) = 0
      BY <3>1 DEF Cuts
    <3>4. Meaning(t, k + 1, i + n - 1 - k) # None
      BY <3>2 DEF Joined, Join
    <3> DEFINE m == i + n - 1 - k
    <3>5. m \in 0..n - 1 /\ k + 1 \in 1..N - m + 1 /\ (k + 1) + m - 1 = i + n - 1
      BY <3>1
    <3>6. m \in S
      BY <1>1, <3>5
    <3>7. Whole(t, k + 1, m)
      BY <3>4, <3>5, <3>6
    <3>8. Depth(t, i, i + n - 1) = Depth(t, i, k) + Depth(t, k + 1, i + n - 1)
      <4>1. k \in Nat /\ i + n - 1 \in Nat /\ k <= i + n - 1 /\ i <= k + 1
        BY <3>1
      <4> QED
        BY <2>0, <4>1, DepthAdds
    <3> HIDE DEF m
    <3>9. n > 0
      BY <3>1, <2>0
    <3> QED
      BY <3>3, <3>5, <3>7, <3>8, <3>9 DEF Whole
  <2>2. CASE Cuts("AND", t, i, n) = {} /\ Cuts("OR", t, i, n) = {} /\ n = 1
    <3>1. t[i].op = "compare"
      BY <2>2, MeaningOf
    <3>2. Depth(t, i, i) = 0 /\ i + n - 1 = i
      BY <2>0, <2>2, <3>1, DepthAlone DEF Deeper
    <3> QED
      BY <2>2, <3>1, <3>2 DEF Whole
  <2>3. CASE Cuts("AND", t, i, n) = {} /\ Cuts("OR", t, i, n) = {} /\ n # 1
    <3>1. /\ n > 2 /\ t[i].op = "(" /\ t[i + n - 1].op = ")"
          /\ Meaning(t, i + 1, n - 2) # None
      BY <2>3, MeaningOf
    <3>2. n - 2 \in 0..n - 1 /\ i + 1 \in 1..N - (n - 2) + 1 /\ (i + 1) + (n - 2) - 1 = i + n - 2
      <4>1. n > 2
        BY <3>1
      <4>2. N \in Nat /\ n \in 0..N /\ i \in 1..N - n + 1
        OBVIOUS
      <4> HIDE DEF N, S
      <4> QED
        BY <4>1, <4>2
    <3>3. n - 2 \in S
      <4>1. \A m \in 0..n - 1 : m \in S
        BY <1>1
      <4> HIDE DEF S
      <4> QED
        BY <3>2, <4>1, Zenon
    <3>4. Whole(t, i + 1, n - 2)
      BY <3>1, <3>2, <3>3
    <3>5. Depth(t, i + 1, i + n - 2) = 0
      BY <3>2, <3>4 DEF Whole
    <3>6. Depth(t, i, i) = 1
      BY <2>0, <3>1, DepthAlone DEF Deeper
    <3>7. Depth(t, i, i + n - 2) = Depth(t, i, i) + Depth(t, i + 1, i + n - 2)
      <4>1. i + n - 2 \in Nat /\ i <= i + n - 2
        BY <3>1
      <4> QED
        BY <2>0, <4>1, DepthAdds
    <3>8. Depth(t, i, i + n - 1) = Depth(t, i, i + n - 2) + Deeper(t[i + n - 1])
      <4>1. i + n - 2 \in Nat /\ i <= (i + n - 2) + 1 /\ (i + n - 2) + 1 = i + n - 1
        BY <2>0, <3>1
      <4>2. Depth(t, i, (i + n - 2) + 1) = Depth(t, i, i + n - 2) + Deeper(t[(i + n - 2) + 1])
        BY <2>0, <4>1, DepthSteps
      <4> QED
        BY <4>1, <4>2
    <3>9. Deeper(t[i + n - 1]) = -1
      BY <3>1 DEF Deeper
    <3> QED
      BY <3>1, <3>5, <3>6, <3>7, <3>8, <3>9 DEF Whole
  <2>4. CASE Cuts("AND", t, i, n) # {}
    BY <2>1, <2>4, MeaningOf
  <2>5. CASE Cuts("AND", t, i, n) = {} /\ Cuts("OR", t, i, n) # {}
    BY <2>1, <2>5, MeaningOf
  <2> QED
    BY <2>2, <2>3, <2>4, <2>5
<1>2. \A n \in 0..N : n \in S
  <2> HIDE DEF S, N
  <2>1. N \in Nat
    BY DEF N
  <2> QED
    BY <1>1, <2>1, PartInduction
<1> QED
  BY <1>2

-------------------------------------------------------------------------------
(* Parts of a text that are filters. *)

\* The tokens i..k mean tree, and close no parenthesis that they do not open.
Segment(t, i, k, tree) ==
  /\ Meaning(t, i, k - i + 1) = tree /\ tree # None
  /\ i <= k /\ Depth(t, i, k) = 0
  /\ \A m \in i..k : Depth(t, i, m) >= 0

\* The word does not stand outside of parentheses.
Plain(word, t, i, k) == \A m \in i..k : t[m].op = word => Depth(t, i, m) # 0

\* No operator stands there.
Atom(t, i, k) == Plain("AND", t, i, k) /\ Plain("OR", t, i, k)

LEMMA PlainCuts ==
  ASSUME NEW t, NEW word, NEW i \in Nat, NEW k \in Nat
  PROVE  Plain(word, t, i, k) <=> Cuts(word, t, i, k - i + 1) = {}
<1>1. i + (k - i + 1) - 1 = k
  OBVIOUS
<1> QED
  BY <1>1 DEF Plain, Cuts

\* Behind two filters and the word between them the depth is what it is behind the
\* right one.
LEMMA DepthBehind ==
  ASSUME NEW t, NEW i \in Nat \ {0}, NEW m \in Nat, i < m, Depth(t, i, m - 1) = 0, Deeper(t[m]) = 0
  PROVE  /\ Depth(t, i, m) = 0
         /\ \A x \in Nat : m < x => Depth(t, i, x) = Depth(t, m + 1, x)
<1>1. Depth(t, i, m) = 0
  <2>1. m - 1 \in Nat /\ i <= (m - 1) + 1 /\ (m - 1) + 1 = m
    OBVIOUS
  <2>2. Depth(t, i, (m - 1) + 1) = Depth(t, i, m - 1) + Deeper(t[(m - 1) + 1])
    BY <2>1, DepthSteps
  <2> QED
    BY <2>1, <2>2
<1>2. ASSUME NEW x \in Nat, m < x PROVE Depth(t, i, x) = Depth(t, m + 1, x)
  <2>1. Depth(t, i, x) = Depth(t, i, m) + Depth(t, m + 1, x)
    BY <1>2, DepthAdds
  <2>2. Depth(t, m + 1, x) \in Int
    BY <1>2, DepthSteps
  <2> QED
    BY <1>1, <2>1, <2>2
<1> QED
  BY <1>1, <1>2

\* Two filters with AND or OR between them, if that is the last cut, are a filter.
LEMMA SegmentsJoined ==
  ASSUME NEW t, Len(t) \in Nat, NEW i \in Nat \ {0}, NEW m \in Nat, NEW k \in 1..Len(t), NEW l, NEW r,
         i < m, m < k, t[m].op \in {"AND", "OR"},
         Segment(t, i, m - 1, l), Segment(t, m + 1, k, r),
         Plain(t[m].op, t, m + 1, k),
         t[m].op = "OR" => Plain("AND", t, i, m - 1) /\ Plain("AND", t, m + 1, k)
  PROVE  /\ Segment(t, i, k, Node(t[m].op, l, r))
         /\ t[m].op = "OR" => Plain("AND", t, i, k)
<1> DEFINE n == k - i + 1
<1> DEFINE word == t[m].op
<1>0. n \in 0..Len(t) /\ i \in 1..Len(t) - n + 1 /\ i + n - 1 = k /\ n \in Nat
  OBVIOUS
<1>1. /\ Depth(t, i, m) = 0
      /\ \A x \in Nat : m < x => Depth(t, i, x) = Depth(t, m + 1, x)
  <2>1. Deeper(t[m]) = 0
    BY DEF Deeper
  <2>2. Depth(t, i, m - 1) = 0
    BY DEF Segment
  <2> QED
    BY <2>1, <2>2, DepthBehind
<1>2. \A x \in m + 1..k : x \in Nat /\ m < x
  OBVIOUS
<1>3. m \in Cuts(word, t, i, n) /\ \A j \in Cuts(word, t, i, n) : j <= m
  <2>1. m \in Cuts(word, t, i, n)
    BY <1>0, <1>1 DEF Cuts
  <2>2. ASSUME NEW j \in Cuts(word, t, i, n), ~(j <= m) PROVE FALSE
    <3>1. j \in i..k /\ t[j].op = word /\ Depth(t, i, j) = 0
      BY <1>0 DEF Cuts
    <3>2. j \in m + 1..k
      BY <2>2, <3>1
    <3>3. Depth(t, m + 1, j) = 0
      BY <1>1, <1>2, <3>1, <3>2
    <3> QED
      BY <3>1, <3>2, <3>3 DEF Plain
  <2> QED
    BY <2>1, <2>2 DEF Cuts
<1>4. LastCut(word, t, i, n) = m
  BY <1>0, <1>3, LastCutAt
<1>5. word = "OR" => Plain("AND", t, i, k)
  <2> SUFFICES ASSUME word = "OR", NEW x \in i..k, t[x].op = "AND", Depth(t, i, x) = 0 PROVE FALSE
    BY DEF Plain
  <2>1. CASE x < m
    <3>1. x \in i..m - 1
      BY <2>1
    <3> QED
      BY <3>1 DEF Plain
  <2>2. CASE x = m
    BY <2>2
  <2>3. CASE x > m
    <3>1. x \in m + 1..k
      BY <2>3
    <3> QED
      BY <1>1, <1>2, <3>1 DEF Plain
  <2> QED
    BY <2>1, <2>2, <2>3
<1>6. Meaning(t, i, n) = Joined(t, m, i, n)
  <2>1. Meaning(t, i, n) =
          IF Cuts("AND", t, i, n) # {} THEN Joined(t, LastCut("AND", t, i, n), i, n)
          ELSE IF Cuts("OR", t, i, n) # {} THEN Joined(t, LastCut("OR", t, i, n), i, n)
          ELSE IF n = 1 THEN (IF t[i].op = "compare" THEN t[i] ELSE None)
          ELSE IF n > 2 /\ t[i].op = "(" /\ t[i + n - 1].op = ")" THEN Meaning(t, i + 1, n - 2)
          ELSE None
    BY <1>0, MeaningOf
  <2>2. word = "OR" => Cuts("AND", t, i, n) = {}
    <3>1. i \in Nat /\ k \in Nat
      OBVIOUS
    <3>2. Plain("AND", t, i, k) <=> Cuts("AND", t, i, k - i + 1) = {}
      BY <3>1, PlainCuts
    <3> QED
      BY <1>5, <3>2
  <2> QED
    BY <1>3, <1>4, <2>1, <2>2
<1>7. Joined(t, m, i, n) = Node(word, l, r)
  <2>1. (m - 1) - i + 1 = m - i /\ k - (m + 1) + 1 = i + n - 1 - m
    BY <1>0
  <2>2. Meaning(t, i, m - i) = l /\ Meaning(t, m + 1, i + n - 1 - m) = r /\ l # None /\ r # None
    BY <2>1 DEF Segment
  <2> QED
    BY <2>2 DEF Joined, Join
<1>8. Node(word, l, r) # None
  <2>1. Node(word, l, r).op = word /\ None.op = "none"
    BY DEF Node, None
  <2> QED
    BY <2>1
<1>9. Depth(t, i, k) = 0
  <2>1. k \in m + 1..k
    OBVIOUS
  <2>2. Depth(t, m + 1, k) = 0
    BY DEF Segment
  <2> QED
    BY <1>1, <1>2, <2>1, <2>2
<1>10. \A x \in i..k : Depth(t, i, x) >= 0
  <2> SUFFICES ASSUME NEW x \in i..k PROVE Depth(t, i, x) >= 0
    OBVIOUS
  <2>1. CASE x < m
    <3>1. x \in i..m - 1
      BY <2>1
    <3> QED
      BY <3>1 DEF Segment
  <2>2. CASE x = m
    BY <1>1, <2>2
  <2>3. CASE x > m
    <3>1. x \in m + 1..k
      BY <2>3
    <3> QED
      BY <1>1, <1>2, <3>1 DEF Segment
  <2> QED
    BY <2>1, <2>2, <2>3
<1> QED
  BY <1>5, <1>6, <1>7, <1>8, <1>9, <1>10 DEF Segment

\* A filter in parentheses is the filter, and nothing in it stands outside of them.
LEMMA SegmentEnclosed ==
  ASSUME NEW t, Len(t) \in Nat, NEW i \in Nat \ {0}, NEW k \in 1..Len(t), NEW tree,
         t[i].op = "(", t[k].op = ")", Segment(t, i + 1, k - 1, tree)
  PROVE  Segment(t, i, k, tree) /\ Atom(t, i, k)
<1> DEFINE n == k - i + 1
<1>0. /\ i + 1 <= k - 1 /\ n \in 0..Len(t) /\ i \in 1..Len(t) - n + 1 /\ i + n - 1 = k /\ n > 2
      /\ n - 2 = (k - 1) - (i + 1) + 1
  BY DEF Segment
<1>1. Depth(t, i, i) = 1
  BY DepthAlone DEF Deeper
<1>2. ASSUME NEW x \in i + 1..k - 1 PROVE Depth(t, i, x) >= 1
  <2>1. x \in Nat /\ i <= x
    OBVIOUS
  <2>2. Depth(t, i, x) = Depth(t, i, i) + Depth(t, i + 1, x)
    BY <2>1, DepthAdds
  <2>3. Depth(t, i + 1, x) >= 0 /\ Depth(t, i + 1, x) \in Int
    <3>1. i + 1 \in Nat \ {0} /\ i + 1 <= x + 1
      OBVIOUS
    <3> QED
      BY <2>1, <3>1, DepthSteps DEF Segment
  <2> QED
    BY <1>1, <2>2, <2>3
<1>3. Depth(t, i, k) = 0
  <2>1. k - 1 \in Nat /\ i <= k - 1 /\ (k - 1) + 1 = k /\ i <= (k - 1) + 1
    <3>1. \A a, b \in Nat : a + 1 <= b - 1 => /\ b - 1 \in Nat /\ a <= b - 1
                                            /\ (b - 1) + 1 = b /\ a <= (b - 1) + 1
      OBVIOUS
    <3>2. i \in Nat /\ k \in Nat
      OBVIOUS
    <3> QED
      BY <1>0, <3>1, <3>2, Zenon
  <2>2. Depth(t, i, k - 1) = Depth(t, i, i) + Depth(t, i + 1, k - 1)
    BY <2>1, DepthAdds
  <2>3. Depth(t, i, (k - 1) + 1) = Depth(t, i, k - 1) + Deeper(t[(k - 1) + 1])
    BY <2>1, DepthSteps
  <2>4. Depth(t, i + 1, k - 1) = 0 /\ Deeper(t[k]) = -1
    BY DEF Segment, Deeper
  <2> QED
    BY <1>1, <2>1, <2>2, <2>3, <2>4
<1>4. \A x \in i..k : x = i \/ x \in i + 1..k - 1 \/ x = k
  BY <1>0
<1>5. \A x \in i..k : Depth(t, i, x) >= 0 /\ (x = k \/ Depth(t, i, x) >= 1)
  <2>1. ASSUME NEW x \in i + 1..k - 1 PROVE Depth(t, i, x) \in Int
    <3>1. x \in Nat /\ i <= x + 1
      OBVIOUS
    <3> QED
      BY <3>1, DepthSteps
  <2> QED
    BY <1>1, <1>2, <1>3, <1>4, <2>1
<1>6. Atom(t, i, k)
  <2>1. Depth(t, i, i) # 0 /\ \A x \in i + 1..k - 1 : Depth(t, i, x) # 0
    BY <1>1, <1>2
  <2> QED
    BY <1>4, <2>1 DEF Atom, Plain
<1>7. Meaning(t, i, n) = Meaning(t, i + 1, n - 2)
  <2>1. Meaning(t, i, n) =
          IF Cuts("AND", t, i, n) # {} THEN Joined(t, LastCut("AND", t, i, n), i, n)
          ELSE IF Cuts("OR", t, i, n) # {} THEN Joined(t, LastCut("OR", t, i, n), i, n)
          ELSE IF n = 1 THEN (IF t[i].op = "compare" THEN t[i] ELSE None)
          ELSE IF n > 2 /\ t[i].op = "(" /\ t[i + n - 1].op = ")" THEN Meaning(t, i + 1, n - 2)
          ELSE None
    BY <1>0, MeaningOf
  <2>2. Cuts("AND", t, i, n) = {} /\ Cuts("OR", t, i, n) = {}
    BY <1>6, PlainCuts DEF Atom
  <2> QED
    BY <1>0, <2>1, <2>2
<1> QED
  BY <1>0, <1>3, <1>5, <1>6, <1>7 DEF Segment

\* A comparison is a filter.
LEMMA SegmentAlone ==
  ASSUME NEW t, Len(t) \in Nat, NEW i \in 1..Len(t), t[i].op = "compare"
  PROVE  Segment(t, i, i, t[i]) /\ Atom(t, i, i)
<1>1. Depth(t, i, i) = 0
  BY DepthAlone DEF Deeper
<1>2. Atom(t, i, i)
  BY DEF Atom, Plain
<1>3. Meaning(t, i, 1) = t[i]
  <2>1. 1 \in 0..Len(t) /\ i \in 1..Len(t) - 1 + 1
    OBVIOUS
  <2>2. Cuts("AND", t, i, 1) = {} /\ Cuts("OR", t, i, 1) = {}
    <3>1. i - i + 1 = 1 /\ i \in Nat
      OBVIOUS
    <3>2. \A word : Plain(word, t, i, i) <=> Cuts(word, t, i, i - i + 1) = {}
      BY <3>1, PlainCuts
    <3> QED
      BY <1>2, <3>1, <3>2 DEF Atom
  <2> QED
    BY <2>1, <2>2, MeaningOf
<1>4. t[i] # None
  BY DEF None
<1> QED
  BY <1>1, <1>2, <1>3, <1>4 DEF Segment

\* A filter stays one when the text goes on.
LEMMA SegmentSame ==
  ASSUME NEW t, NEW u, Len(t) \in Nat, Len(u) \in Nat, NEW k \in Nat, k <= Len(t), k <= Len(u),
         \A m \in 1..k : t[m] = u[m], NEW i \in Nat \ {0}
  PROVE  /\ \A tree : Segment(t, i, k, tree) => Segment(u, i, k, tree)
         /\ \A word : Plain(word, t, i, k) => Plain(word, u, i, k)
         /\ \A m \in Nat : m <= k => Depth(t, i, m) = Depth(u, i, m)
<1>1. ASSUME NEW m \in Nat, m <= k PROVE Depth(t, i, m) = Depth(u, i, m)
  <2>1. \A x \in i..m : t[x] = u[x]
    <3>1. \A x \in i..m : x \in 1..k
      BY <1>1
    <3> QED
      BY <3>1
  <2>2. i \in Nat /\ m \in Int
    OBVIOUS
  <2> QED
    BY ONLY <2>1, <2>2, DepthSame
<1>2. i <= k => Meaning(t, i, k - i + 1) = Meaning(u, i, k - i + 1)
  <2> SUFFICES ASSUME i <= k PROVE Meaning(t, i, k - i + 1) = Meaning(u, i, k - i + 1)
    OBVIOUS
  <2>1. k - i + 1 \in 0..k /\ i \in 1..k - (k - i + 1) + 1
    OBVIOUS
  <2> QED
    BY <2>1, MeaningSame
<1>3. \A m \in i..k : m \in Nat /\ m <= k /\ m \in 1..k
  OBVIOUS
<1>4. ASSUME NEW tree, Segment(t, i, k, tree) PROVE Segment(u, i, k, tree)
  BY <1>1, <1>2, <1>3, <1>4 DEF Segment
<1>5. ASSUME NEW word, Plain(word, t, i, k) PROVE Plain(word, u, i, k)
  BY <1>1, <1>3, <1>5 DEF Plain
<1> QED
  BY <1>1, <1>4, <1>5

-------------------------------------------------------------------------------
(* The stack of the parser. *)

\* q is the beginning of s up to n, and x.
IsPut(s, q, n, x) == /\ Present(q) /\ Len(q) = n + 1 /\ q[n + 1] = x
                     /\ \A i \in 1..n : q[i] = s[i]

LEMMA PutAt ==
  ASSUME NEW s, Present(s), NEW x, x.op # "none"
  PROVE  /\ Len(s) \in Nat
         /\ IsPut(s, Append(s, x), Len(s), x)
         /\ \A n \in Nat : n <= Len(s) => IsPut(s, Append(SubSeq(s, 1, n), x), n, x)
<1>1. ASSUME NEW q, Present(q), Len(q) \in Nat PROVE IsPut(q, Append(q, x), Len(q), x)
  <2>1. PICK S : q \in Seq(S)
    BY <1>1 DEF Present
  <2>2. \A i \in 1..Len(q) : Append(q, x)[i] = q[i]
    <3>1. q \in Seq(S \cup {x}) /\ x \in S \cup {x}
      BY <2>1
    <3> QED
      BY <3>1, AppendProperties
  <2> QED
    BY <1>1, <2>2, AppendPresent DEF IsPut
<1>2. Len(s) \in Nat
  BY AppendPresent
<1>3. ASSUME NEW n \in Nat, n <= Len(s)
      PROVE  IsPut(s, Append(SubSeq(s, 1, n), x), n, x)
  <2>1. Present(SubSeq(s, 1, n)) /\ Len(SubSeq(s, 1, n)) = n
    BY <1>3, BeginningPresent
  <2>2. \A i \in 1..n : SubSeq(s, 1, n)[i] = s[i]
    <3>1. PICK S : s \in Seq(S)
      BY DEF Present
    <3> QED
      BY <1>3, <3>1
  <2>3. IsPut(SubSeq(s, 1, n), Append(SubSeq(s, 1, n), x), n, x)
    BY <1>1, <2>1
  <2> QED
    BY <2>2, <2>3 DEF IsPut
<1> QED
  BY <1>1, <1>2, <1>3

\* What an item of the stack stands for: the tokens behind b[k - 1] up to b[k], an
\* open parenthesis, an operator or a tree.  Operators and trees alternate, and what
\* is still to be reduced is so because of the precedence of the operators.
Item(s, t, b, w, k) ==
  /\ w[k] \in {"open", "operator", "tree"}
  /\ b[k - 1] < b[k]
  /\ w[k] = "tree" => Segment(t, b[k - 1] + 1, b[k], s[k])
  /\ w[k] # "tree" => b[k] = b[k - 1] + 1 /\ s[k] = t[b[k]]
  /\ w[k] = "open" => s[k].op = "("
  /\ w[k] = "operator" => s[k].op \in {"AND", "OR"}
  /\ w[k] = "operator" <=> k > 1 /\ w[k - 1] = "tree"
  /\ (k > 1 /\ w[k] = "tree" /\ w[k - 1] = "operator") => Plain("AND", t, b[k - 1] + 1, b[k])
  /\ (w[k] = "operator" /\ s[k].op = "AND" /\ k > 2) => w[k - 2] # "operator"
  /\ (w[k] = "operator" /\ s[k].op = "OR") =>
       /\ Plain("AND", t, b[k - 2] + 1, b[k - 1])
       /\ (k > 2 /\ w[k - 2] = "operator") => s[k - 2].op = "AND"

\* The stack stands for the tokens of the filter, from the fourth up to e.
Parsed(s, t, e, b, w) ==
  /\ Len(s) \in Nat /\ Len(t) \in Nat /\ e <= Len(t)
  /\ b[0] = 3 /\ b[Len(s)] = e
  /\ \A j \in 0..Len(s) : b[j] \in Nat /\ b[j] >= 3 /\ Depth(t, 4, b[j]) >= 0
  /\ \A k \in 1..Len(s) : Item(s, t, b, w, k)
  /\ \A k \in 1..Len(s) : w[k] = "open" => \A j \in k..Len(s) : Depth(t, 4, b[j]) >= 1

\* The same as far as the item n.
Shapes(w, n, form) == [j \in 1..n + 1 |-> IF j = n + 1 THEN form ELSE w[j]]
Bounds(b, n, e) == [j \in 0..n + 1 |-> IF j = n + 1 THEN e ELSE b[j]]

\* One item more, or another one for the last ones.
LEMMA ItemPut ==
  ASSUME NEW s, NEW t, NEW e, NEW b, NEW w, Parsed(s, t, e, b, w),
         NEW q, NEW n \in 0..Len(s), NEW x, IsPut(s, q, n, x),
         NEW e2 \in Nat, e2 <= Len(t), b[n] < e2, NEW form,
         Item(q, t, Bounds(b, n, e2), Shapes(w, n, form), n + 1),
         Depth(t, 4, e2) >= Depth(t, 4, b[n]),
         form = "open" => Depth(t, 4, e2) >= 1
  PROVE  Parsed(q, t, e2, Bounds(b, n, e2), Shapes(w, n, form))
<1> DEFINE c == Bounds(b, n, e2)
<1> DEFINE v == Shapes(w, n, form)
<1>1. /\ Len(s) \in Nat /\ Len(t) \in Nat /\ b[0] = 3
      /\ \A j \in 0..Len(s) : b[j] \in Nat /\ b[j] >= 3 /\ Depth(t, 4, b[j]) >= 0
      /\ \A k \in 1..Len(s) : Item(s, t, b, w, k)
      /\ \A k \in 1..Len(s) : w[k] = "open" => \A j \in k..Len(s) : Depth(t, 4, b[j]) >= 1
  BY DEF Parsed
<1>2. Len(q) = n + 1 /\ q[n + 1] = x /\ \A i \in 1..n : q[i] = s[i]
  BY DEF IsPut
<1>3. /\ \A j \in 0..n : c[j] = b[j]
      /\ c[n + 1] = e2
      /\ \A k \in 1..n : v[k] = w[k]
      /\ v[n + 1] = form
  BY DEF Bounds, Shapes
<1> HIDE DEF c, v
<1>4. ASSUME NEW k \in 1..n PROVE Item(q, t, c, v, k)
  <2>1. Item(s, t, b, w, k)
    BY <1>1
  <2>2. /\ k - 1 \in 0..n /\ k \in 0..n
        /\ k > 1 => k - 1 \in 1..n /\ k - 2 \in 0..n
        /\ k > 2 => k - 2 \in 1..n
    OBVIOUS
  <2>3. c[k] = b[k] /\ c[k - 1] = b[k - 1] /\ v[k] = w[k] /\ q[k] = s[k]
    BY <1>2, <1>3, <2>2
  <2>4. /\ k > 1 => v[k - 1] = w[k - 1] /\ c[k - 2] = b[k - 2]
        /\ k > 2 => v[k - 2] = w[k - 2] /\ q[k - 2] = s[k - 2]
    BY <1>2, <1>3, <2>2
  <2> QED
    BY <2>1, <2>3, <2>4 DEF Item
<1>5. \A k \in 1..n + 1 : Item(q, t, c, v, k)
  <2>1. Item(q, t, c, v, n + 1)
    BY DEF c, v
  <2>2. \A k \in 1..n + 1 : k \in 1..n \/ k = n + 1
    OBVIOUS
  <2> QED
    BY <1>4, <2>1, <2>2
<1>6. b[n] \in Nat /\ b[n] >= 3
  BY <1>1
<1>7. \A j \in 0..n + 1 : c[j] \in Nat /\ c[j] >= 3 /\ Depth(t, 4, c[j]) >= 0
  <2>1. Depth(t, 4, e2) >= 0
    <3>1. Depth(t, 4, b[n]) >= 0
      BY <1>1
    <3>2. 4 \in Nat \ {0} /\ 4 <= b[n] + 1 /\ 4 <= e2 + 1
      BY <1>6
    <3>3. Depth(t, 4, e2) \in Int /\ Depth(t, 4, b[n]) \in Int
      BY <1>6, <3>2, DepthSteps
    <3> QED
      BY <3>1, <3>3
  <2>2. \A j \in 0..n + 1 : j \in 0..n \/ j = n + 1
    OBVIOUS
  <2>3. e2 >= 3
    BY <1>6
  <2>4. \A j \in 0..n : j \in 0..Len(s)
    OBVIOUS
  <2> QED
    BY <1>1, <1>3, <2>1, <2>2, <2>3, <2>4
<1>8. ASSUME NEW k \in 1..n + 1, v[k] = "open", NEW j \in k..n + 1 PROVE Depth(t, 4, c[j]) >= 1
  <2>1. CASE k = n + 1
    <3>1. j = n + 1 /\ form = "open"
      BY <1>3, <1>8, <2>1
    <3> QED
      BY <1>3, <3>1
  <2>2. CASE k # n + 1
    <3>1. k \in 1..n /\ w[k] = "open" /\ k \in 1..Len(s)
      BY <1>3, <1>8, <2>2
    <3>2. \A i \in k..Len(s) : Depth(t, 4, b[i]) >= 1
      BY <1>1, <3>1
    <3>3. CASE j = n + 1
      <4>1. Depth(t, 4, b[n]) >= 1
        <5>1. n \in k..Len(s)
          BY <3>1
        <5> QED
          BY <3>2, <5>1
      <4>2. 4 \in Nat \ {0} /\ 4 <= b[n] + 1 /\ 4 <= e2 + 1
        BY <1>6
      <4>3. Depth(t, 4, e2) \in Int /\ Depth(t, 4, b[n]) \in Int
        BY <1>6, <4>2, DepthSteps
      <4> QED
        BY <1>3, <3>3, <4>1, <4>3
    <3>4. CASE j # n + 1
      <4>1. j \in 0..n /\ j \in k..Len(s)
        BY <3>1, <3>4
      <4> QED
        BY <1>3, <3>2, <4>1
    <3> QED
      BY <3>3, <3>4
  <2> QED
    BY <2>1, <2>2
<1>9. c[0] = 3 /\ n + 1 \in Nat
  BY <1>1, <1>3
<1> QED
  BY <1>1, <1>2, <1>3, <1>5, <1>7, <1>8, <1>9 DEF Parsed, c, v

\* No item goes beyond the last one.
LEMMA BoundsOrdered ==
  ASSUME NEW s, NEW t, NEW e, NEW b, NEW w, Parsed(s, t, e, b, w)
  PROVE  \A j \in 0..Len(s) : b[j] <= e
<1> DEFINE N == Len(s)
<1> DEFINE T == {m \in 0..N : b[N - m] <= e}
<1>1. /\ N \in Nat /\ b[N] = e
      /\ \A j \in 0..N : b[j] \in Nat
      /\ \A k \in 1..N : b[k - 1] < b[k]
  BY DEF Parsed, Item
<1> HIDE DEF N
<1>2. 0 \in T
  <2>1. N - 0 = N /\ N \in 0..N /\ 0 \in 0..N
    BY <1>1
  <2> QED
    BY <1>1, <2>1
<1>3. ASSUME NEW m \in 0..N - 1, m \in T PROVE m + 1 \in T
  <2>1. /\ N - m \in 1..N /\ N - m \in 0..N /\ (N - m) - 1 \in 0..N /\ (N - m) - 1 = N - (m + 1)
        /\ m + 1 \in 0..N
    BY <1>1
  <2>2. b[(N - m) - 1] < b[N - m] /\ b[N - m] <= e /\ b[N - m] \in Nat /\ b[(N - m) - 1] \in Nat
    BY <1>1, <1>3, <2>1
  <2>3. e \in Nat
    BY <1>1
  <2>4. b[N - (m + 1)] <= e
    BY <2>1, <2>2, <2>3
  <2> QED
    BY <2>1, <2>4
<1>4. \A m \in 0..N : m \in T
  BY <1>1, <1>2, <1>3, InductionTo
<1>5. ASSUME NEW j \in 0..N PROVE b[j] <= e
  <2>1. N - j \in 0..N /\ N - (N - j) = j
    BY <1>1
  <2>2. N - j \in T
    BY <1>4, <2>1
  <2> QED
    BY <2>1, <2>2
<1> QED
  BY <1>5 DEF N

\* A text that goes on keeps what is parsed.
LEMMA ParsedSame ==
  ASSUME NEW s, NEW t, NEW e \in Nat, NEW b, NEW w, Parsed(s, t, e, b, w),
         NEW u, Len(u) \in Nat, e <= Len(u), \A m \in 1..e : t[m] = u[m]
  PROVE  Parsed(s, u, e, b, w)
<1>0. \A j \in 0..Len(s) : b[j] <= e
  BY BoundsOrdered
<1>1. /\ Len(s) \in Nat /\ Len(t) \in Nat /\ e <= Len(t) /\ b[0] = 3 /\ b[Len(s)] = e
      /\ \A j \in 0..Len(s) : b[j] \in Nat /\ b[j] >= 3 /\ Depth(t, 4, b[j]) >= 0
      /\ \A k \in 1..Len(s) : Item(s, t, b, w, k)
      /\ \A k \in 1..Len(s) : w[k] = "open" => \A j \in k..Len(s) : Depth(t, 4, b[j]) >= 1
  BY DEF Parsed
<1>2. ASSUME NEW i \in Nat \ {0}, NEW k \in Nat, k <= e
      PROVE  /\ \A tree : Segment(t, i, k, tree) => Segment(u, i, k, tree)
             /\ \A word : Plain(word, t, i, k) => Plain(word, u, i, k)
             /\ \A m \in Nat : m <= k => Depth(t, i, m) = Depth(u, i, m)
  <2>1. k <= Len(t) /\ k <= Len(u) /\ \A m \in 1..k : t[m] = u[m]
    BY <1>1, <1>2
  <2> QED
    BY <1>1, <2>1, SegmentSame
<1>3. \A j \in 0..Len(s) : Depth(t, 4, b[j]) = Depth(u, 4, b[j])
  <2>1. 4 \in Nat \ {0}
    OBVIOUS
  <2> QED
    BY <1>0, <1>1, <1>2, <2>1
<1>4. ASSUME NEW k \in 1..Len(s) PROVE Item(s, u, b, w, k)
  <2>1. Item(s, t, b, w, k)
    BY <1>1
  <2>2. /\ k - 1 \in 0..Len(s) /\ k \in 0..Len(s) /\ k > 1 => k - 2 \in 0..Len(s)
    OBVIOUS
  <2>3. /\ b[k] \in Nat /\ b[k] <= e /\ b[k] >= 3 /\ b[k - 1] \in Nat /\ b[k - 1] <= e
        /\ b[k - 1] + 1 \in Nat \ {0}
    BY <1>0, <1>1, <2>2
  <2>8. k > 1 => b[k - 2] \in Nat /\ b[k - 2] + 1 \in Nat \ {0}
    <3>1. ASSUME k > 1 PROVE b[k - 2] \in Nat
      BY <1>1, <2>2, <3>1
    <3> QED
      BY <3>1
  <2>4. t[b[k]] = u[b[k]]
    BY <2>3
  <2>5. Segment(t, b[k - 1] + 1, b[k], s[k]) => Segment(u, b[k - 1] + 1, b[k], s[k])
    BY <1>2, <2>3
  <2>6. Plain("AND", t, b[k - 1] + 1, b[k]) => Plain("AND", u, b[k - 1] + 1, b[k])
    BY <1>2, <2>3
  <2>7. k > 1 => (Plain("AND", t, b[k - 2] + 1, b[k - 1]) => Plain("AND", u, b[k - 2] + 1, b[k - 1]))
    BY <1>2, <2>3, <2>8
  <2> QED
    BY <2>1, <2>4, <2>5, <2>6, <2>7 DEF Item
<1> QED
  BY <1>1, <1>3, <1>4 DEF Parsed

\* One token more.
LEMMA DepthNext ==
  ASSUME NEW t, NEW e \in Nat, e >= 3
  PROVE  Depth(t, 4, e) \in Int /\ Depth(t, 4, e + 1) = Depth(t, 4, e) + Deeper(t[e + 1])
<1>1. 4 \in Nat \ {0} /\ 4 <= e + 1
  OBVIOUS
<1> QED
  BY <1>1, DepthSteps

\* What the new item has to be, told by the items before it.
Fits(s, t, b, w, n, x, e, form) ==
  /\ form \in {"open", "operator", "tree"}
  /\ b[n] < e
  /\ form = "tree" => Segment(t, b[n] + 1, e, x)
  /\ form # "tree" => e = b[n] + 1 /\ x = t[e]
  /\ form = "open" => x.op = "("
  /\ form = "operator" => x.op \in {"AND", "OR"}
  /\ form = "operator" <=> n > 0 /\ w[n] = "tree"
  /\ (n > 0 /\ form = "tree" /\ w[n] = "operator") => Plain("AND", t, b[n] + 1, e)
  /\ (form = "operator" /\ x.op = "AND" /\ n > 1) => w[n - 1] # "operator"
  /\ (form = "operator" /\ x.op = "OR") =>
       /\ Plain("AND", t, b[n - 1] + 1, b[n])
       /\ (n > 1 /\ w[n - 1] = "operator") => s[n - 1].op = "AND"

\* q is a stack with that item behind the first n of s.
Puts(s, t, e, b, w, q, n, x, e2, form) ==
  /\ Parsed(s, t, e, b, w) /\ n \in 0..Len(s) /\ IsPut(s, q, n, x)
  /\ e2 \in Nat /\ e2 <= Len(t) /\ Fits(s, t, b, w, n, x, e2, form)
  /\ Depth(t, 4, e2) >= Depth(t, 4, b[n])
  /\ form = "open" => Depth(t, 4, e2) >= 1

LEMMA FitsPut ==
  ASSUME NEW s, NEW t, NEW e, NEW b, NEW w, NEW q, NEW n, NEW x, NEW e2, NEW form,
         Puts(s, t, e, b, w, q, n, x, e2, form)
  PROVE  /\ Parsed(q, t, e2, Bounds(b, n, e2), Shapes(w, n, form))
         /\ Len(q) = n + 1 /\ Len(q) > 0 /\ Len(q) - 1 = n
         /\ Shapes(w, n, form)[n + 1] = form
         /\ Bounds(b, n, e2)[n] = b[n]
         /\ n > 0 => Shapes(w, n, form)[n] = w[n]
         /\ \A i \in 1..n : q[i] = s[i]
<1> DEFINE c == Bounds(b, n, e2)
<1> DEFINE v == Shapes(w, n, form)
<1>0. /\ Parsed(s, t, e, b, w) /\ n \in 0..Len(s) /\ IsPut(s, q, n, x)
      /\ e2 \in Nat /\ e2 <= Len(t) /\ Fits(s, t, b, w, n, x, e2, form)
      /\ Depth(t, 4, e2) >= Depth(t, 4, b[n])
      /\ form = "open" => Depth(t, 4, e2) >= 1
      /\ Len(s) \in Nat
  BY DEF Puts, Parsed
<1>1. Len(q) = n + 1 /\ q[n + 1] = x /\ \A i \in 1..n : q[i] = s[i]
  BY <1>0 DEF IsPut
<1>2. /\ \A j \in 0..n : c[j] = b[j]
      /\ c[n + 1] = e2
      /\ \A k \in 1..n : v[k] = w[k]
      /\ v[n + 1] = form
  BY <1>0 DEF Bounds, Shapes
<1> HIDE DEF c, v
<1>3. /\ (n + 1) - 1 = n /\ (n + 1) - 2 = n - 1 /\ n \in 0..n
      /\ n > 0 => n \in 1..n /\ n - 1 \in 0..n
      /\ n > 1 => n - 1 \in 1..n
      /\ n + 1 > 1 <=> n > 0
      /\ n + 1 > 2 <=> n > 1
  BY <1>0
<1>4. c[n] = b[n] /\ (n > 0 => v[n] = w[n] /\ c[n - 1] = b[n - 1])
      /\ (n > 1 => v[n - 1] = w[n - 1] /\ q[n - 1] = s[n - 1])
  BY <1>1, <1>2, <1>3
<1>5. Item(q, t, c, v, n + 1)
  BY <1>0, <1>1, <1>2, <1>3, <1>4 DEF Item, Fits
<1>6. Parsed(q, t, e2, c, v)
  <2>1. b[n] < e2
    BY <1>0 DEF Fits
  <2>2. Item(q, t, Bounds(b, n, e2), Shapes(w, n, form), n + 1)
    BY <1>5 DEF c, v
  <2>3. Parsed(q, t, e2, Bounds(b, n, e2), Shapes(w, n, form))
    BY <1>0, <2>1, <2>2, ItemPut
  <2> QED
    BY <2>3 DEF c, v
<1>7. c[n] = b[n] /\ v[n + 1] = form /\ (n > 0 => v[n] = w[n])
  BY <1>2, <1>4
<1> QED
  BY <1>0, <1>1, <1>3, <1>6, <1>7 DEF c, v

\* The stack behind an operator or an open parenthesis, and behind a filter, where
\* no operator stands outside of the last parentheses.
AfterOperator(s, t, e) ==
  \E b, w : Parsed(s, t, e, b, w) /\ (Len(s) > 0 => w[Len(s)] # "tree")
AfterTree(s, t, e) ==
  \E b, w : /\ Parsed(s, t, e, b, w) /\ Len(s) > 0 /\ w[Len(s)] = "tree"
            /\ Atom(t, b[Len(s) - 1] + 1, e)

\* The stack when OR, or both operators, are reduced.
ReducedOr(s, t, e) ==
  \E b, w : /\ Parsed(s, t, e, b, w) /\ Len(s) > 0 /\ w[Len(s)] = "tree"
            /\ Plain("AND", t, b[Len(s) - 1] + 1, e)
            /\ (Len(s) > 1 /\ w[Len(s) - 1] = "operator") => s[Len(s) - 1].op = "AND"
ReducedAll(s, t, e) ==
  \E b, w : /\ Parsed(s, t, e, b, w) /\ Len(s) > 0 /\ w[Len(s)] = "tree"
            /\ Len(s) > 1 => w[Len(s) - 1] = "open"

\* A comparison is put on the stack.
LEMMA ComparisonParsed ==
  ASSUME NEW s, Present(s), NEW t, NEW e \in Nat, AfterOperator(s, t, e),
         e + 1 <= Len(t), t[e + 1].op = "compare"
  PROVE  AfterTree(Append(s, t[e + 1]), t, e + 1)
<1> DEFINE n == Len(s)
<1> DEFINE q == Append(s, t[e + 1])
<1>1. PICK b, w : Parsed(s, t, e, b, w) /\ (n > 0 => w[n] # "tree")
  BY DEF AfterOperator
<1>2. n \in 0..Len(s) /\ n \in Nat /\ b[n] = e /\ Len(t) \in Nat /\ e >= 3
      /\ n \in 0..n
  BY <1>1 DEF Parsed
<1>3. IsPut(s, q, n, t[e + 1])
  BY PutAt
<1>4. e + 1 \in 1..Len(t) /\ e + 1 \in Nat
  BY <1>2
<1>5. Segment(t, e + 1, e + 1, t[e + 1]) /\ Atom(t, e + 1, e + 1)
  BY <1>2, <1>4, SegmentAlone
<1>6. Fits(s, t, b, w, n, t[e + 1], e + 1, "tree")
  BY <1>1, <1>2, <1>5 DEF Fits, Atom
<1>7. Depth(t, 4, e + 1) = Depth(t, 4, e) /\ Depth(t, 4, e) \in Int
  <2>1. Deeper(t[e + 1]) = 0
    BY DEF Deeper
  <2> QED
    BY <1>2, <2>1, DepthNext
<1>8. Depth(t, 4, e + 1) >= Depth(t, 4, b[n])
  BY <1>2, <1>7
<1> DEFINE c == Bounds(b, n, e + 1)
<1> DEFINE v == Shapes(w, n, "tree")
<1>9. /\ Parsed(q, t, e + 1, c, v)
      /\ Len(q) = n + 1 /\ Len(q) > 0 /\ Len(q) - 1 = n /\ v[n + 1] = "tree" /\ c[n] = b[n]
  <2>1. Puts(s, t, e, b, w, q, n, t[e + 1], e + 1, "tree")
    BY <1>1, <1>2, <1>3, <1>4, <1>6, <1>8 DEF Puts
  <2> QED
    BY <2>1, FitsPut
<1>10. v[Len(q)] = "tree" /\ Atom(t, c[Len(q) - 1] + 1, e + 1)
  BY <1>2, <1>5, <1>9
<1> HIDE DEF c, v
<1> QED
  BY <1>9, <1>10 DEF AfterTree

\* An open parenthesis is put on the stack.
LEMMA OpenParsed ==
  ASSUME NEW s, Present(s), NEW t, NEW e \in Nat, AfterOperator(s, t, e),
         e + 1 <= Len(t), t[e + 1].op = "("
  PROVE  AfterOperator(Append(s, t[e + 1]), t, e + 1)
<1> DEFINE n == Len(s)
<1> DEFINE q == Append(s, t[e + 1])
<1>1. PICK b, w : Parsed(s, t, e, b, w) /\ (n > 0 => w[n] # "tree")
  BY DEF AfterOperator
<1>2. n \in 0..Len(s) /\ n \in Nat /\ b[n] = e /\ Len(t) \in Nat /\ e >= 3
      /\ Depth(t, 4, b[n]) >= 0
  BY <1>1 DEF Parsed
<1>3. IsPut(s, q, n, t[e + 1])
  BY PutAt
<1>4. Fits(s, t, b, w, n, t[e + 1], e + 1, "open")
  BY <1>1, <1>2 DEF Fits
<1>5. Depth(t, 4, e + 1) = Depth(t, 4, e) + 1 /\ Depth(t, 4, e) \in Int
  BY <1>2, DepthNext DEF Deeper
<1>6. Depth(t, 4, e + 1) >= Depth(t, 4, b[n]) /\ Depth(t, 4, e + 1) >= 1
  BY <1>2, <1>5
<1> DEFINE c == Bounds(b, n, e + 1)
<1> DEFINE v == Shapes(w, n, "open")
<1>7. Parsed(q, t, e + 1, c, v) /\ Len(q) = n + 1 /\ v[n + 1] = "open"
  <2>1. Puts(s, t, e, b, w, q, n, t[e + 1], e + 1, "open")
    BY <1>1, <1>2, <1>3, <1>4, <1>6 DEF Puts
  <2> QED
    BY <2>1, FitsPut
<1>8. v[Len(q)] # "tree"
  BY <1>7
<1> HIDE DEF c, v
<1> QED
  BY <1>7, <1>8 DEF AfterOperator

\* An operator is put on the stack, when those are reduced that bind tighter or as
\* tight.
LEMMA OperatorParsed ==
  ASSUME NEW s, Present(s), NEW t, NEW e \in Nat, e + 1 <= Len(t),
         \/ t[e + 1].op = "OR" /\ ReducedOr(s, t, e)
         \/ t[e + 1].op = "AND" /\ ReducedAll(s, t, e)
  PROVE  AfterOperator(Append(s, t[e + 1]), t, e + 1)
<1> DEFINE n == Len(s)
<1> DEFINE q == Append(s, t[e + 1])
<1>1. PICK b, w : /\ Parsed(s, t, e, b, w) /\ n > 0 /\ w[n] = "tree"
                  /\ t[e + 1].op = "OR" =>
                       /\ Plain("AND", t, b[n - 1] + 1, e)
                       /\ (n > 1 /\ w[n - 1] = "operator") => s[n - 1].op = "AND"
                  /\ t[e + 1].op = "AND" /\ n > 1 => w[n - 1] # "operator"
  BY DEF ReducedOr, ReducedAll
<1>2. n \in 0..Len(s) /\ n \in Nat /\ b[n] = e /\ Len(t) \in Nat /\ e >= 3
  BY <1>1 DEF Parsed
<1>3. IsPut(s, q, n, t[e + 1])
  BY PutAt
<1>4. Fits(s, t, b, w, n, t[e + 1], e + 1, "operator")
  BY <1>1, <1>2 DEF Fits
<1>5. Depth(t, 4, e + 1) = Depth(t, 4, e) /\ Depth(t, 4, e) \in Int
  <2>1. Deeper(t[e + 1]) = 0
    BY DEF Deeper
  <2> QED
    BY <1>2, <2>1, DepthNext
<1>6. Depth(t, 4, e + 1) >= Depth(t, 4, b[n])
  BY <1>2, <1>5
<1> DEFINE c == Bounds(b, n, e + 1)
<1> DEFINE v == Shapes(w, n, "operator")
<1>7. Parsed(q, t, e + 1, c, v) /\ Len(q) = n + 1 /\ v[n + 1] = "operator"
  <2>1. Puts(s, t, e, b, w, q, n, t[e + 1], e + 1, "operator")
    BY <1>1, <1>2, <1>3, <1>4, <1>6 DEF Puts
  <2> QED
    BY <2>1, FitsPut
<1>8. v[Len(q)] # "tree"
  BY <1>7
<1> HIDE DEF c, v
<1> QED
  BY <1>7, <1>8 DEF AfterOperator

-------------------------------------------------------------------------------
(* What the parser reduces. *)

\* A filter takes the place of the last items, of which the first was no operator.
LEMMA TreePut ==
  ASSUME NEW s, Present(s), NEW t, NEW e, NEW b, NEW w, Parsed(s, t, e, b, w),
         NEW n \in 0..Len(s), n < Len(s), w[n + 1] # "operator",
         NEW x, x.op # "none", NEW e2 \in Nat, e2 <= Len(t), Segment(t, b[n] + 1, e2, x),
         (n > 0 /\ w[n] = "operator") => Plain("AND", t, b[n] + 1, e2)
  PROVE  LET q == Append(SubSeq(s, 1, n), x)
             c == Bounds(b, n, e2)
             v == Shapes(w, n, "tree")
         IN /\ Parsed(q, t, e2, c, v)
            /\ Len(q) = n + 1 /\ Len(q) > 0 /\ v[Len(q)] = "tree" /\ c[Len(q) - 1] = b[n]
            /\ Len(q) > 1 => /\ v[Len(q) - 1] = w[n]
                             /\ q[Len(q) - 1] = s[n]
<1> DEFINE q == Append(SubSeq(s, 1, n), x)
<1>1. /\ n \in Nat /\ n \in 0..Len(s) /\ n + 1 \in 1..Len(s) /\ (n + 1) - 1 = n /\ Len(s) \in Nat
      /\ b[n] \in Nat /\ b[n] >= 3 /\ Len(t) \in Nat
      /\ Item(s, t, b, w, n + 1)
  BY DEF Parsed
<1>2. IsPut(s, q, n, x)
  BY <1>1, PutAt
<1>3. ~ (n > 0 /\ w[n] = "tree")
  BY <1>1 DEF Item
<1>4. b[n] < e2 /\ Depth(t, b[n] + 1, e2) = 0
  BY <1>1 DEF Segment
<1>5. Fits(s, t, b, w, n, x, e2, "tree")
  BY <1>3, <1>4 DEF Fits
<1>6. Depth(t, 4, e2) >= Depth(t, 4, b[n])
  <2>1. /\ 4 \in Nat \ {0} /\ 4 <= b[n] + 1 /\ 4 <= e2 + 1 /\ b[n] <= e2
    BY <1>1, <1>4
  <2>2. Depth(t, 4, e2) = Depth(t, 4, b[n]) + Depth(t, b[n] + 1, e2)
    BY <1>1, <2>1, DepthAdds
  <2>3. Depth(t, 4, b[n]) \in Int
    BY <1>1, <2>1, DepthSteps
  <2> QED
    BY <1>4, <2>2, <2>3
<1>7. Puts(s, t, e, b, w, q, n, x, e2, "tree")
  BY <1>1, <1>2, <1>5, <1>6 DEF Puts
<1> DEFINE c == Bounds(b, n, e2)
<1> DEFINE v == Shapes(w, n, "tree")
<1>8. /\ Parsed(q, t, e2, c, v)
      /\ Len(q) = n + 1 /\ Len(q) > 0 /\ Len(q) - 1 = n
      /\ v[n + 1] = "tree" /\ c[n] = b[n]
      /\ n > 0 => v[n] = w[n]
      /\ \A i \in 1..n : q[i] = s[i]
  BY <1>7, FitsPut
<1> HIDE DEF q, c, v
<1>9. Len(q) > 1 => v[Len(q) - 1] = w[n] /\ q[Len(q) - 1] = s[n]
  <2>1. Len(q) > 1 => n > 0 /\ n \in 1..n
    BY <1>1, <1>8
  <2> QED
    BY <1>8, <2>1
<1>10. v[Len(q)] = "tree" /\ c[Len(q) - 1] = b[n]
  BY <1>8
<1> QED
  BY <1>8, <1>9, <1>10 DEF q, c, v

\* The two trees at the end of the stack and the operator between them, whichever of
\* the two it is.
LEMMA LastThree ==
  ASSUME NEW s, NEW t, NEW e, NEW b, NEW w, Parsed(s, t, e, b, w),
         Len(s) > 0, w[Len(s)] = "tree", Operator(s) \in {"AND", "OR"},
         Plain(Operator(s), t, b[Len(s) - 1] + 1, e), Plain("AND", t, b[Len(s) - 1] + 1, e)
  PROVE  LET n == Len(s) - 3
             tree == Node(Operator(s), s[Len(s) - 2], Last(s))
         IN /\ n \in 0..Len(s) /\ n < Len(s) /\ w[n + 1] = "tree"
            /\ Segment(t, b[n] + 1, e, tree) /\ tree.op # "none"
            /\ Operator(s) = "OR" => Plain("AND", t, b[n] + 1, e)
            /\ (n > 0 /\ w[n] = "operator") => Operator(s) = "OR" /\ s[n].op = "AND"
<1> DEFINE n == Len(s) - 3
<1>1. /\ Len(s) \in Nat /\ Len(t) \in Nat /\ e <= Len(t) /\ b[Len(s)] = e
      /\ \A j \in 0..Len(s) : b[j] \in Nat /\ b[j] >= 3
      /\ \A k \in 1..Len(s) : Item(s, t, b, w, k)
  BY DEF Parsed
<1>2. Len(s) >= 3 /\ Operator(s) = s[Len(s) - 1].op
  BY <1>1 DEF Operator
<1>3. /\ n \in 0..Len(s) /\ n < Len(s)
      /\ n + 1 \in 1..Len(s) /\ n + 2 \in 1..Len(s) /\ n + 3 \in 1..Len(s)
      /\ n + 1 \in 0..Len(s) /\ n + 2 \in 0..Len(s) /\ n + 3 \in 0..Len(s)
      /\ n + 3 = Len(s) /\ n + 2 = Len(s) - 1 /\ n + 1 = Len(s) - 2 /\ n \in Nat
      /\ (n + 3) - 1 = n + 2 /\ (n + 2) - 1 = n + 1 /\ (n + 1) - 1 = n /\ (n + 2) - 2 = n
      /\ n + 2 > 1 /\ n + 3 > 1 /\ (n > 0 => n + 2 > 2)
  <2>1. /\ n \in 0..Len(s) /\ n < Len(s)
        /\ n + 1 \in 1..Len(s) /\ n + 2 \in 1..Len(s) /\ n + 3 \in 1..Len(s)
        /\ n + 1 \in 0..Len(s) /\ n + 2 \in 0..Len(s) /\ n + 3 \in 0..Len(s)
        /\ n + 2 > 1 /\ n + 3 > 1 /\ (n > 0 => n + 2 > 2) /\ n \in Nat
    BY <1>1, <1>2
  <2>2. \A l \in Nat : /\ l - 3 + 3 = l /\ l - 3 + 2 = l - 1 /\ l - 3 + 1 = l - 2
    OBVIOUS
  <2>3. \A m \in Nat : (m + 3) - 1 = m + 2 /\ (m + 2) - 1 = m + 1 /\ (m + 1) - 1 = m /\ (m + 2) - 2 = m
    OBVIOUS
  <2>4. n + 3 = Len(s) /\ n + 2 = Len(s) - 1 /\ n + 1 = Len(s) - 2
    BY <1>1, <2>2, Zenon
  <2>5. (n + 3) - 1 = n + 2 /\ (n + 2) - 1 = n + 1 /\ (n + 1) - 1 = n /\ (n + 2) - 2 = n
    BY <2>1, <2>3, Zenon
  <2> QED
    BY <2>1, <2>4, <2>5, Zenon
<1>4. Item(s, t, b, w, n + 1) /\ Item(s, t, b, w, n + 2) /\ Item(s, t, b, w, n + 3)
  BY <1>1, <1>3
<1>5. Operator(s) = s[n + 2].op /\ Last(s) = s[n + 3] /\ w[n + 3] = "tree" /\ b[n + 3] = e
  BY <1>1, <1>2, <1>3 DEF Last
<1> HIDE DEF n
<1>6. w[n + 2] = "operator"
  <2>1. w[n + 2] # "open"
    BY <1>4, <1>5 DEF Item
  <2>2. w[n + 2] # "tree"
    BY <1>3, <1>4, <1>5 DEF Item
  <2> QED
    BY <1>4, <2>1, <2>2 DEF Item
<1>7. w[n + 1] = "tree"
  BY <1>3, <1>4, <1>6 DEF Item
<1> DEFINE m == b[n + 2]
<1>8. /\ m = b[n + 1] + 1 /\ t[m] = s[n + 2]
      /\ Segment(t, b[n] + 1, b[n + 1], s[n + 1])
      /\ Segment(t, m + 1, e, s[n + 3])
      /\ b[n] < b[n + 1] /\ m < e
  BY <1>3, <1>4, <1>5, <1>6, <1>7 DEF Item
<1>9. /\ Operator(s) = "OR" => Plain("AND", t, b[n] + 1, b[n + 1])
      /\ (n > 0 /\ w[n] = "operator") => Operator(s) = "OR" /\ s[n].op = "AND"
  <2>1. Operator(s) = "OR" =>
          /\ Plain("AND", t, b[n] + 1, b[n + 1])
          /\ (n > 0 /\ w[n] = "operator") => s[n].op = "AND"
    BY <1>3, <1>4, <1>5, <1>6 DEF Item
  <2>2. Operator(s) = "AND" => ~ (n > 0 /\ w[n] = "operator")
    BY <1>3, <1>4, <1>5, <1>6 DEF Item
  <2> QED
    BY <2>1, <2>2
<1>10. /\ b[n] + 1 \in Nat \ {0} /\ m \in Nat /\ e \in 1..Len(t) /\ m - 1 = b[n + 1]
       /\ b[n] + 1 < m
  <2>1. b[n] \in Nat /\ b[n + 1] \in Nat /\ m \in Nat /\ e \in Nat
    BY <1>1, <1>3, <1>5
  <2>2. e <= Len(t) /\ Len(t) \in Nat /\ m = b[n + 1] + 1 /\ b[n] < b[n + 1] /\ m < e
    BY <1>1, <1>8
  <2> HIDE DEF m
  <2> QED
    BY <2>1, <2>2
<1>11. Plain(t[m].op, t, m + 1, e) /\ Plain("AND", t, m + 1, e) /\ t[m].op = Operator(s)
  BY <1>3, <1>5, <1>8
<1>12. /\ Segment(t, b[n] + 1, e, Node(t[m].op, s[n + 1], s[n + 3]))
       /\ t[m].op = "OR" => Plain("AND", t, b[n] + 1, e)
  <2>1. /\ Segment(t, b[n] + 1, m - 1, s[n + 1])
        /\ t[m].op = "OR" => Plain("AND", t, b[n] + 1, m - 1)
        /\ t[m].op \in {"AND", "OR"}
    BY <1>8, <1>9, <1>10, <1>11
  <2> QED
    BY <1>1, <1>8, <1>10, <1>11, <2>1, SegmentsJoined
<1>13. Node(t[m].op, s[n + 1], s[n + 3]) = Node(Operator(s), s[Len(s) - 2], Last(s))
  BY <1>3, <1>5, <1>11
<1>14. Node(Operator(s), s[Len(s) - 2], Last(s)).op # "none"
  BY DEF Node
<1> QED
  BY <1>3, <1>7, <1>9, <1>11, <1>12, <1>13, <1>14 DEF n

\* What is reduced before OR: another OR.
LEMMA OrReduced ==
  ASSUME NEW s, Present(s), NEW t, NEW e \in Nat, AfterTree(s, t, e)
  PROVE  ReducedOr(ReduceOr(s), t, e)
<1>1. PICK b, w : /\ Parsed(s, t, e, b, w) /\ Len(s) > 0 /\ w[Len(s)] = "tree"
                  /\ Atom(t, b[Len(s) - 1] + 1, e)
  BY DEF AfterTree
<1>2. CASE Operator(s) = "OR"
  <2> DEFINE n == Len(s) - 3
  <2> DEFINE tree == Node(Operator(s), s[Len(s) - 2], Last(s))
  <2>1. /\ n \in 0..Len(s) /\ n < Len(s) /\ w[n + 1] = "tree"
        /\ Segment(t, b[n] + 1, e, tree) /\ tree.op # "none"
        /\ Plain("AND", t, b[n] + 1, e)
        /\ (n > 0 /\ w[n] = "operator") => s[n].op = "AND"
    BY <1>1, <1>2, LastThree DEF Atom
  <2>2. e <= Len(t)
    BY <1>1 DEF Parsed
  <2> HIDE DEF n, tree
  <2> DEFINE q == Append(SubSeq(s, 1, n), tree)
  <2> DEFINE c == Bounds(b, n, e)
  <2> DEFINE v == Shapes(w, n, "tree")
  <2>3. /\ Parsed(q, t, e, c, v)
        /\ Len(q) = n + 1 /\ Len(q) > 0 /\ v[Len(q)] = "tree" /\ c[Len(q) - 1] = b[n]
        /\ Len(q) > 1 => v[Len(q) - 1] = w[n] /\ q[Len(q) - 1] = s[n]
    BY <1>1, <2>1, <2>2, TreePut
  <2>4. ReduceOr(s) = q
    BY <1>2 DEF ReduceOr, Reduce, n, tree
  <2>5. n \in Nat
    BY <2>1
  <2> HIDE DEF q, c, v
  <2>6. (Len(q) > 1 /\ v[Len(q) - 1] = "operator") => q[Len(q) - 1].op = "AND"
    BY <2>1, <2>3, <2>5
  <2>7. Plain("AND", t, c[Len(q) - 1] + 1, e)
    BY <2>1, <2>3
  <2> QED
    BY <2>3, <2>4, <2>6, <2>7 DEF ReducedOr
<1>3. CASE Operator(s) # "OR"
  <2>1. ReduceOr(s) = s
    BY <1>3 DEF ReduceOr
  <2>2. ASSUME Len(s) > 1, w[Len(s) - 1] = "operator" PROVE s[Len(s) - 1].op = "AND"
    <3>1. Len(s) \in Nat /\ Item(s, t, b, w, Len(s) - 1)
      BY <1>1, <2>2 DEF Parsed
    <3>2. Len(s) - 1 > 1 /\ s[Len(s) - 1].op \in {"AND", "OR"}
      BY <2>2, <3>1 DEF Item
    <3>3. Operator(s) = s[Len(s) - 1].op
      BY <3>1, <3>2 DEF Operator
    <3> QED
      BY <1>3, <3>2, <3>3
  <2> QED
    BY <1>1, <2>1, <2>2 DEF ReducedOr, Atom
<1> QED
  BY <1>2, <1>3

\* What is reduced after that before any other token: an AND.
LEMMA AndReduced ==
  ASSUME NEW s, Present(s), NEW t, NEW e \in Nat, ReducedOr(s, t, e)
  PROVE  ReducedAll(ReduceAnd(s), t, e)
<1>1. PICK b, w : /\ Parsed(s, t, e, b, w) /\ Len(s) > 0 /\ w[Len(s)] = "tree"
                  /\ Plain("AND", t, b[Len(s) - 1] + 1, e)
                  /\ (Len(s) > 1 /\ w[Len(s) - 1] = "operator") => s[Len(s) - 1].op = "AND"
  BY DEF ReducedOr
<1>2. CASE Operator(s) = "AND"
  <2> DEFINE n == Len(s) - 3
  <2> DEFINE tree == Node(Operator(s), s[Len(s) - 2], Last(s))
  <2>1. /\ n \in 0..Len(s) /\ n < Len(s) /\ w[n + 1] = "tree"
        /\ Segment(t, b[n] + 1, e, tree) /\ tree.op # "none"
        /\ ~ (n > 0 /\ w[n] = "operator")
    BY <1>1, <1>2, LastThree
  <2>2. e <= Len(t)
    BY <1>1 DEF Parsed
  <2> HIDE DEF n, tree
  <2> DEFINE q == Append(SubSeq(s, 1, n), tree)
  <2> DEFINE c == Bounds(b, n, e)
  <2> DEFINE v == Shapes(w, n, "tree")
  <2>3. /\ Parsed(q, t, e, c, v)
        /\ Len(q) = n + 1 /\ Len(q) > 0 /\ v[Len(q)] = "tree" /\ c[Len(q) - 1] = b[n]
        /\ Len(q) > 1 => v[Len(q) - 1] = w[n] /\ q[Len(q) - 1] = s[n]
    BY <1>1, <2>1, <2>2, TreePut
  <2>4. ReduceAnd(s) = q
    BY <1>2 DEF ReduceAnd, Reduce, n, tree
  <2>5. n \in Nat
    BY <2>1
  <2> HIDE DEF q, c, v
  <2>6. Len(q) > 1 => v[Len(q) - 1] = "open"
    <3>1. ASSUME Len(q) > 1 PROVE v[Len(q) - 1] = "open"
      <4>1. n > 0 /\ Item(q, t, c, v, Len(q)) /\ Len(q) \in Nat
        BY <2>3, <2>5, <3>1 DEF Parsed
      <4>2. v[Len(q) - 1] # "tree"
        BY <2>3, <3>1, <4>1 DEF Item
      <4>3. Item(q, t, c, v, Len(q) - 1)
        BY <2>3, <3>1, <4>1 DEF Parsed
      <4>4. v[Len(q) - 1] \in {"open", "operator", "tree"}
        BY <4>3 DEF Item
      <4>5. v[Len(q) - 1] # "operator"
        BY <2>1, <2>3, <3>1, <4>1
      <4> QED
        BY <4>2, <4>4, <4>5
    <3> QED
      BY <3>1
  <2> QED
    BY <2>3, <2>4, <2>6 DEF ReducedAll
<1>3. CASE Operator(s) # "AND"
  <2>1. ReduceAnd(s) = s
    BY <1>3 DEF ReduceAnd
  <2>2. ASSUME Len(s) > 1 PROVE w[Len(s) - 1] = "open"
    <3>1. Len(s) \in Nat /\ Item(s, t, b, w, Len(s) - 1) /\ Item(s, t, b, w, Len(s))
      BY <1>1, <2>2 DEF Parsed
    <3>2. w[Len(s) - 1] # "tree"
      BY <1>1, <2>2, <3>1 DEF Item
    <3>3. w[Len(s) - 1] # "operator"
      <4>1. ASSUME w[Len(s) - 1] = "operator" PROVE FALSE
        <5>1. Len(s) - 1 > 1
          BY <3>1, <4>1 DEF Item
        <5>2. Operator(s) = s[Len(s) - 1].op
          BY <3>1, <5>1 DEF Operator
        <5> QED
          BY <1>1, <1>3, <2>2, <4>1, <5>2
      <4> QED
        BY <4>1
    <3> QED
      BY <3>1, <3>2, <3>3 DEF Item
  <2> QED
    BY <1>1, <2>1, <2>2 DEF ReducedAll
<1> QED
  BY <1>2, <1>3

\* What is reduced before a word.
LEMMA BeforeReduced ==
  ASSUME NEW s, Present(s), NEW t, NEW e \in Nat, AfterTree(s, t, e)
  PROVE  /\ ReducedOr(Before("OR", s), t, e)
         /\ \A word : word # "OR" => ReducedAll(Before(word, s), t, e)
<1>1. ReducedOr(ReduceOr(s), t, e)
  BY OrReduced
<1>2. Present(ReduceOr(s))
  BY ReducedPresent
<1>3. ReducedAll(ReduceAnd(ReduceOr(s)), t, e)
  BY <1>1, <1>2, AndReduced
<1> QED
  BY <1>1, <1>3 DEF Before

\* A parenthesis is closed.
LEMMA CloseParsed ==
  ASSUME NEW s, Present(s), NEW t, NEW e \in Nat, ReducedAll(s, t, e), Len(s) > 1,
         e + 1 <= Len(t), t[e + 1].op = ")"
  PROVE  AfterTree(Append(SubSeq(s, 1, Len(s) - 2), Last(s)), t, e + 1)
<1>1. PICK b, w : /\ Parsed(s, t, e, b, w) /\ w[Len(s)] = "tree" /\ w[Len(s) - 1] = "open"
  BY DEF ReducedAll
<1> DEFINE n == Len(s) - 2
<1>2. /\ Len(s) \in Nat /\ Len(t) \in Nat /\ e <= Len(t) /\ b[Len(s)] = e
      /\ \A j \in 0..Len(s) : b[j] \in Nat /\ b[j] >= 3
      /\ \A k \in 1..Len(s) : Item(s, t, b, w, k)
  BY <1>1 DEF Parsed
<1>3. /\ n \in 0..Len(s) /\ n < Len(s) /\ n \in Nat /\ n + 1 = Len(s) - 1 /\ n + 2 = Len(s)
      /\ n + 1 \in 1..Len(s) /\ n + 2 \in 1..Len(s) /\ n + 1 \in 0..Len(s)
      /\ (n + 1) - 1 = n /\ (n + 2) - 1 = n + 1
  <2>1. /\ n \in 0..Len(s) /\ n < Len(s) /\ n \in Nat
        /\ n + 1 \in 1..Len(s) /\ n + 2 \in 1..Len(s) /\ n + 1 \in 0..Len(s)
    BY <1>2
  <2>2. \A l \in Nat : l - 2 + 1 = l - 1 /\ l - 2 + 2 = l
    OBVIOUS
  <2>3. \A m \in Nat : (m + 1) - 1 = m /\ (m + 2) - 1 = m + 1
    OBVIOUS
  <2>4. n + 1 = Len(s) - 1 /\ n + 2 = Len(s)
    BY <1>2, <2>2, Zenon
  <2>5. (n + 1) - 1 = n /\ (n + 2) - 1 = n + 1
    BY <2>1, <2>3, Zenon
  <2> QED
    BY <2>1, <2>4, <2>5, Zenon
<1>4. Item(s, t, b, w, n + 1) /\ Item(s, t, b, w, n + 2)
  BY <1>2, <1>3
<1>5. w[n + 1] = "open" /\ w[n + 2] = "tree" /\ b[n + 2] = e /\ Last(s) = s[n + 2]
  BY <1>1, <1>2, <1>3 DEF Last
<1> HIDE DEF n
<1>6. /\ b[n + 1] = b[n] + 1 /\ t[b[n] + 1].op = "("
      /\ Segment(t, b[n + 1] + 1, e, s[n + 2])
  BY <1>3, <1>4, <1>5 DEF Item
<1>7. b[n] + 1 \in Nat \ {0} /\ e + 1 \in 1..Len(t) /\ (e + 1) - 1 = e /\ e + 1 \in Nat
  <2>1. Len(t) \in Nat /\ b[n] \in Nat
    BY <1>2, <1>3
  <2>2. b[n] + 1 \in Nat \ {0}
    BY <2>1
  <2> QED
    BY <2>1, <2>2
<1>8. Segment(t, b[n] + 1, e + 1, Last(s)) /\ Atom(t, b[n] + 1, e + 1)
  <2>1. Segment(t, (b[n] + 1) + 1, (e + 1) - 1, Last(s))
    BY <1>5, <1>6, <1>7
  <2> QED
    BY <1>2, <1>6, <1>7, <2>1, SegmentEnclosed
<1>9. Last(s).op # "none"
  BY <1>3, <1>5, ElementPresent
<1> DEFINE q == Append(SubSeq(s, 1, n), Last(s))
<1> DEFINE c == Bounds(b, n, e + 1)
<1> DEFINE v == Shapes(w, n, "tree")
<1>10. /\ Parsed(q, t, e + 1, c, v)
       /\ Len(q) > 0 /\ v[Len(q)] = "tree" /\ c[Len(q) - 1] = b[n]
  BY <1>1, <1>3, <1>5, <1>7, <1>8, <1>9, TreePut DEF Atom
<1> HIDE DEF c, v
<1>11. AfterTree(q, t, e + 1)
  BY <1>8, <1>10 DEF AfterTree
<1> QED
  BY <1>11 DEF n

\* A tree alone on the stack is what the tokens mean.
LEMMA AloneMeans ==
  ASSUME NEW s, NEW t, NEW e \in Nat, ReducedAll(s, t, e), Len(s) = 1
  PROVE  Segment(t, 4, e, s[1])
<1>1. PICK b, w : Parsed(s, t, e, b, w) /\ w[Len(s)] = "tree"
  BY DEF ReducedAll
<1>2. Item(s, t, b, w, 1) /\ b[0] = 3 /\ b[1] = e
  BY <1>1 DEF Parsed
<1>3. Segment(t, b[0] + 1, b[1], s[1])
  BY <1>1, <1>2 DEF Item
<1> QED
  BY <1>2, <1>3

\* More than that: a parenthesis is still open.
LEMMA OpenMeans ==
  ASSUME NEW s, NEW t, NEW e \in Nat, ReducedAll(s, t, e), Len(s) > 1
  PROVE  Depth(t, 4, e) >= 1 /\ e >= 4
<1>1. PICK b, w : Parsed(s, t, e, b, w) /\ w[Len(s) - 1] = "open"
  BY DEF ReducedAll
<1>2. /\ Len(s) \in Nat /\ b[Len(s)] = e /\ Len(s) - 1 \in 1..Len(s)
      /\ Len(s) \in Len(s) - 1..Len(s)
  BY <1>1 DEF Parsed
<1>3. Depth(t, 4, b[Len(s)]) >= 1
  BY <1>1, <1>2 DEF Parsed
<1>4. e >= 4
  <2>1. /\ Item(s, t, b, w, Len(s)) /\ b[Len(s) - 1] \in Nat /\ b[Len(s) - 1] >= 3
    BY <1>1, <1>2 DEF Parsed
  <2> QED
    BY <1>2, <2>1 DEF Item
<1> QED
  BY <1>2, <1>3, <1>4

-------------------------------------------------------------------------------
(* The parser and the meaning of texts. *)

\* Where the parser is, what the stack stands for and which token was last.
ParserInv ==
  /\ at \in {"idle", "SHOW", "source", "having", "operand", "operator", "accepted"}
  /\ at # "idle" => errors = 0
  /\ at \in {"SHOW", "source", "having"} => stack = <<>>
  /\ at \in {"operand", "operator"} => Len(text) >= 3 /\ text[3].op = "HAVING"
  /\ at = "operand" => /\ AfterOperator(stack, text, Len(text))
                       /\ Len(text) = 3 \/ text[Len(text)].op \in {"AND", "OR", "("}
  /\ at = "operator" => AfterTree(stack, text, Len(text))

\* What a step may do to the filter.
FilterStep == filter' # filter => Stopped' /\ filter' = OwnFilter' /\ OwnFilter' # None

\* The token that is read is behind the text.
LEMMA ReadsText ==
  ASSUME Present(text), NEW expected, NEW words, Reads(expected, words), "none" \notin words
  PROVE  /\ at = expected /\ Len(text) \in Nat /\ Len(text') = Len(text) + 1
         /\ text'[Len(text) + 1] = Last(text') /\ Last(text').op \in words
         /\ \A m \in 1..Len(text) : text'[m] = text[m]
<1>1. PICK t \in Tokens : t.op \in words /\ text' = Append(text, t)
  BY DEF Reads
<1>2. t.op # "none"
  BY <1>1
<1>3. Len(text) \in Nat /\ IsPut(text, text', Len(text), t)
  BY <1>1, <1>2, PutAt
<1>4. Len(text') = Len(text) + 1 /\ text'[Len(text) + 1] = t /\ \A m \in 1..Len(text) : text'[m] = text[m]
  BY <1>3 DEF IsPut
<1> QED
  BY <1>1, <1>3, <1>4, ReadsOne DEF Last

\* What is parsed of the text stays so when a token is read.
LEMMA ReadsParsed ==
  ASSUME Len(text) \in Nat, Len(text') = Len(text) + 1, \A m \in 1..Len(text) : text'[m] = text[m]
  PROVE  /\ AfterOperator(stack, text, Len(text)) => AfterOperator(stack, text', Len(text))
         /\ AfterTree(stack, text, Len(text)) => AfterTree(stack, text', Len(text))
         /\ \A s : ReducedAll(s, text, Len(text)) => ReducedAll(s, text', Len(text))
<1>1. Len(text') \in Nat /\ Len(text) <= Len(text') /\ \A m \in 1..Len(text) : text[m] = text'[m]
  OBVIOUS
<1>2. ASSUME NEW s, NEW b, NEW w, Parsed(s, text, Len(text), b, w)
      PROVE  Parsed(s, text', Len(text), b, w)
  BY <1>1, <1>2, ParsedSame
<1>3. ASSUME NEW b, NEW w, Parsed(stack, text, Len(text), b, w), Len(stack) > 0,
             Atom(text, b[Len(stack) - 1] + 1, Len(text))
      PROVE  Atom(text', b[Len(stack) - 1] + 1, Len(text))
  <2>1. Len(stack) \in Nat /\ b[Len(stack) - 1] \in Nat
    <3>1. Len(stack) \in Nat /\ \A j \in 0..Len(stack) : b[j] \in Nat
      BY <1>3 DEF Parsed
    <3>2. Len(stack) - 1 \in 0..Len(stack)
      BY <1>3, <3>1
    <3> QED
      BY <3>1, <3>2
  <2>2. b[Len(stack) - 1] + 1 \in Nat \ {0}
    BY <2>1
  <2> DEFINE i == b[Len(stack) - 1] + 1
  <2>3. \A word : Plain(word, text, i, Len(text)) => Plain(word, text', i, Len(text))
    <3>1. Len(text) \in Nat /\ Len(text) <= Len(text) /\ i \in Nat \ {0}
      BY <2>2
    <3> HIDE DEF i
    <3> QED
      BY <1>1, <3>1, SegmentSame
  <2>4. Plain("AND", text, i, Len(text)) /\ Plain("OR", text, i, Len(text))
    BY <1>3 DEF Atom
  <2> QED
    BY <2>3, <2>4 DEF Atom
<1> QED
  BY <1>2, <1>3 DEF AfterOperator, AfterTree, ReducedAll

\* The tokens before the last one, from the fourth on, are the filter of the text.
LEMMA OwnIs ==
  ASSUME Len(text) \in Nat, Len(text) >= 3, text[3].op = "HAVING",
         Len(text') = Len(text) + 1, \A m \in 1..Len(text) : text'[m] = text[m]
  PROVE  /\ OwnFilter' = Meaning(text', 4, Len(text) - 3)
         /\ OwnFilter' # None => Whole(text', 4, Len(text) - 3)
         /\ Len(text') \in Nat /\ Len(text) - 3 \in 0..Len(text') /\ Len(text') # 3
         /\ 4 + (Len(text) - 3) - 1 = Len(text)
<1>1. /\ Len(text') > 3 /\ Len(text') \in Nat /\ Len(text') - 4 = Len(text) - 3 /\ 3 \in 1..Len(text)
      /\ Len(text) - 3 \in 0..Len(text') /\ 4 \in 1..Len(text') - (Len(text) - 3) + 1
      /\ 4 + (Len(text) - 3) - 1 = Len(text) /\ Len(text') # 3
  <2>1. \A l \in Nat : l >= 3 =>
          \A m : m = l + 1 =>
            /\ m > 3 /\ m \in Nat /\ m - 4 = l - 3 /\ 3 \in 1..l
            /\ l - 3 \in 0..m /\ 4 \in 1..m - (l - 3) + 1
            /\ 4 + (l - 3) - 1 = l /\ m # 3
    OBVIOUS
  <2> QED
    BY <2>1, Zenon
<1>2. text'[3].op = "HAVING"
  BY <1>1
<1>3. OwnFilter' = Meaning(text', 4, Len(text) - 3)
  BY <1>1, <1>2 DEF OwnFilter
<1> QED
  BY <1>1, <1>3, MeaningWhole

\* A text that is refused for a filter that is not complete means nothing.
LEMMA OperandRefused ==
  ASSUME ParserInv, at = "operand", Len(text) \in Nat, Len(text') = Len(text) + 1,
         \A m \in 1..Len(text) : text'[m] = text[m]
  PROVE  OwnFilter' = None /\ Len(text') # 3
<1>1. /\ Len(text) >= 3 /\ text[3].op = "HAVING"
      /\ Len(text) = 3 \/ text[Len(text)].op \in {"AND", "OR", "("}
  BY DEF ParserInv
<1>2. /\ OwnFilter' # None => Whole(text', 4, Len(text) - 3)
      /\ 4 + (Len(text) - 3) - 1 = Len(text) /\ Len(text') # 3
  BY <1>1, OwnIs
<1>3. Len(text) - 3 > 0 => text[Len(text)].op \in {"AND", "OR", "("} /\ Len(text) \in 1..Len(text)
  <2>1. \A l \in Nat : l - 3 > 0 => l # 3 /\ l \in 1..l
    OBVIOUS
  <2> QED
    BY <1>1, <2>1, Zenon
<1>4. Whole(text', 4, Len(text) - 3) => FALSE
  BY <1>2, <1>3 DEF Whole
<1> QED
  BY <1>2, <1>4

LEMMA OperatorRefused ==
  ASSUME ParserInv, Present(stack), at = "operator", Len(text) \in Nat, Len(text') = Len(text) + 1,
         \A m \in 1..Len(text) : text'[m] = text[m], Len(Before("END", stack)) > 1
  PROVE  OwnFilter' = None /\ Len(text') # 3
<1>1. Len(text) >= 3 /\ text[3].op = "HAVING" /\ AfterTree(stack, text, Len(text))
  BY DEF ParserInv
<1>2. /\ OwnFilter' # None => Whole(text', 4, Len(text) - 3)
      /\ 4 + (Len(text) - 3) - 1 = Len(text) /\ Len(text') # 3
  BY <1>1, OwnIs
<1>3. ReducedAll(Before("END", stack), text', Len(text))
  <2>1. AfterTree(stack, text', Len(text))
    BY <1>1, ReadsParsed
  <2> QED
    BY <2>1, BeforeReduced
<1>4. Depth(text', 4, Len(text)) >= 1
  BY <1>3, OpenMeans
<1>5. Whole(text', 4, Len(text) - 3) => FALSE
  BY <1>2, <1>4 DEF Whole
<1> QED
  BY <1>2, <1>5

\* A filter that is complete is what the text means.
LEMMA OperatorCompletes ==
  ASSUME ParserInv, Present(stack), at = "operator", Len(text) \in Nat, Len(text') = Len(text) + 1,
         \A m \in 1..Len(text) : text'[m] = text[m], Len(Before("END", stack)) = 1
  PROVE  OwnFilter' = Before("END", stack)[1] /\ OwnFilter' # None
<1>1. Len(text) >= 3 /\ text[3].op = "HAVING" /\ AfterTree(stack, text, Len(text))
  BY DEF ParserInv
<1>2. OwnFilter' = Meaning(text', 4, Len(text) - 3)
  BY <1>1, OwnIs
<1>3. ReducedAll(Before("END", stack), text', Len(text))
  <2>1. AfterTree(stack, text', Len(text))
    BY <1>1, ReadsParsed
  <2> QED
    BY <2>1, BeforeReduced
<1>4. Segment(text', 4, Len(text), Before("END", stack)[1])
  BY <1>3, AloneMeans
<1>5. Len(text) - 4 + 1 = Len(text) - 3
  <2>1. \A l \in Nat : l - 4 + 1 = l - 3
    OBVIOUS
  <2> QED
    BY <2>1, Zenon
<1> QED
  BY <1>2, <1>4, <1>5 DEF Segment

\* Behind HAVING nothing is parsed yet.
LEMMA NothingParsed ==
  ASSUME NEW t, Len(t) = 3
  PROVE  AfterOperator(<<>>, t, 3)
<1> DEFINE b == [j \in {0} |-> 3]
<1>1. Len(<<>>) = 0 /\ 0..0 = {0} /\ 1..0 = {}
  BY NonePresent
<1>2. Depth(t, 4, 3) = 0
  <2>1. 4 \in Nat \ {0} /\ 4 - 1 = 3
    OBVIOUS
  <2> QED
    BY <2>1, DepthSteps
<1>3. \A j \in 0..Len(<<>>) : b[j] \in Nat /\ b[j] >= 3 /\ Depth(t, 4, b[j]) >= 0
  BY <1>1, <1>2
<1>4. b[0] = 3
  OBVIOUS
<1> HIDE DEF b
<1>5. Parsed(<<>>, t, 3, b, <<>>)
  BY <1>1, <1>3, <1>4 DEF Parsed
<1> QED
  BY <1>1, <1>5 DEF AfterOperator

\* At the start nothing was read.
LEMMA ParserStart == Init => ParserInv /\ GroupsOrFirst
BY DEF Init, ParserInv, GroupsOrFirst, Stopped

\* Every step of the parser keeps what the stack stands for, and what a text that is
\* stopped has left.
LEMMA ParserStep ==
  DriverInv /\ ParserInv /\ GroupsOrFirst /\ [Next]_vars =>
    ParserInv' /\ GroupsOrFirst' /\ FilterStep
<1> SUFFICES ASSUME DriverInv, ParserInv, GroupsOrFirst, [Next]_vars
             PROVE  ParserInv' /\ GroupsOrFirst' /\ FilterStep
  OBVIOUS
<1>1. Present(stack) /\ Present(text)
  BY DEF DriverInv
<1>2. ASSUME NEW expected, NEW words, Reads(expected, words), "none" \notin words
      PROVE  /\ at = expected /\ Len(text) \in Nat /\ Len(text') = Len(text) + 1
             /\ text'[Len(text) + 1] = Last(text') /\ Last(text').op \in words
             /\ \A m \in 1..Len(text) : text'[m] = text[m]
  BY <1>1, <1>2, ReadsText
<1>3. ASSUME at # "idle", Refuse, filter' = filter, OwnFilter' = None, Len(text') # 3
      PROVE  ParserInv' /\ GroupsOrFirst' /\ FilterStep
  <2>1. at' = "idle" /\ errors' = 1
    BY <1>3 DEF Refuse, ParserInv
  <2> QED
    BY <1>3, <2>1 DEF ParserInv, GroupsOrFirst, FilterStep
<1>4. CASE Parse
  BY <1>4 DEF Parse, ParserInv, GroupsOrFirst, Stopped, FilterStep
<1>5. CASE ReadShow
  <2>1. at = "SHOW" /\ at' = "source" /\ errors' = errors /\ filter' = filter /\ stack' = stack
    BY <1>2, <1>5 DEF ReadShow, driver
  <2> QED
    BY <2>1 DEF ParserInv, GroupsOrFirst, Stopped, FilterStep
<1>6. CASE ReadSource
  <2>1. at = "source" /\ at' = "having" /\ errors' = errors /\ filter' = filter /\ stack' = stack
    BY <1>2, <1>6 DEF ReadSource
  <2> QED
    BY <2>1 DEF ParserInv, GroupsOrFirst, Stopped, FilterStep
<1>7. CASE ReadHaving
  <2>1. at' = "operand" /\ errors' = errors /\ filter' = filter /\ stack' = stack
    BY <1>7 DEF ReadHaving, driver
  <2>2. Reads("having", {"HAVING"})
    BY <1>7 DEF ReadHaving
  <2>3. /\ at = "having" /\ Len(text') = Len(text) + 1 /\ Last(text').op = "HAVING"
        /\ text'[Len(text) + 1] = Last(text')
    BY <1>2, <2>2
  <2>4. Len(text) = 2 /\ stack = <<>> /\ errors = 0
    BY <2>3 DEF DriverInv, ParserInv
  <2>5. Len(text') = 3 /\ text'[3].op = "HAVING"
    BY <2>3, <2>4
  <2>6. AfterOperator(stack', text', Len(text'))
    BY <2>1, <2>4, <2>5, NothingParsed
  <2> QED
    BY <2>1, <2>4, <2>5, <2>6 DEF ParserInv, GroupsOrFirst, Stopped, FilterStep
<1>8. CASE ReadOperand
  <2>1. /\ stack' = Append(stack, Last(text'))
        /\ at' = IF Last(text').op = "(" THEN "operand" ELSE "operator"
        /\ errors' = errors /\ filter' = filter
        /\ Reads("operand", {"(", "compare"})
    BY <1>8 DEF ReadOperand, ReadWord, driver
  <2>2. /\ at = "operand" /\ Len(text) \in Nat /\ Len(text') = Len(text) + 1
        /\ text'[Len(text) + 1] = Last(text') /\ Last(text').op \in {"(", "compare"}
        /\ \A m \in 1..Len(text) : text'[m] = text[m]
    BY <1>2, <2>1
  <2>3. /\ errors = 0 /\ Len(text) >= 3 /\ text[3].op = "HAVING"
        /\ AfterOperator(stack, text', Len(text))
    BY <2>2, ReadsParsed DEF ParserInv
  <2>4. Len(text') >= 3 /\ text'[3].op = "HAVING"
    BY <2>2, <2>3
  <2>5. CASE Last(text').op = "("
    <3>1. AfterOperator(stack', text', Len(text'))
      BY <1>1, <2>1, <2>2, <2>3, <2>5, OpenParsed
    <3> QED
      BY <2>1, <2>2, <2>3, <2>4, <2>5, <3>1 DEF ParserInv, GroupsOrFirst, Stopped, FilterStep
  <2>6. CASE Last(text').op = "compare"
    <3>1. AfterTree(stack', text', Len(text'))
      BY <1>1, <2>1, <2>2, <2>3, <2>6, ComparisonParsed
    <3>2. at' = "operator"
      BY <2>1, <2>6
    <3> QED
      BY <2>1, <2>3, <2>4, <3>1, <3>2 DEF ParserInv, GroupsOrFirst, Stopped, FilterStep
  <2> QED
    BY <2>2, <2>5, <2>6
<1>9. CASE ReadOperator
  <2>1. /\ stack' = Append(Before(Last(text').op, stack), Last(text'))
        /\ at' = "operand" /\ errors' = errors /\ filter' = filter
        /\ Reads("operator", {"AND", "OR"})
    BY <1>9 DEF ReadOperator, ReadWord, driver
  <2>2. /\ at = "operator" /\ Len(text) \in Nat /\ Len(text') = Len(text) + 1
        /\ text'[Len(text) + 1] = Last(text') /\ Last(text').op \in {"AND", "OR"}
        /\ \A m \in 1..Len(text) : text'[m] = text[m]
    BY <1>2, <2>1
  <2>3. /\ errors = 0 /\ Len(text) >= 3 /\ text[3].op = "HAVING"
        /\ AfterTree(stack, text', Len(text))
    BY <2>2, ReadsParsed DEF ParserInv
  <2>4. Len(text') >= 3 /\ text'[3].op = "HAVING"
    BY <2>2, <2>3
  <2> DEFINE s == Before(Last(text').op, stack)
  <2>5. Present(s)
    BY <1>1, BeforePresent
  <2>6. \/ Last(text').op = "OR" /\ ReducedOr(s, text', Len(text))
        \/ Last(text').op = "AND" /\ ReducedAll(s, text', Len(text))
    BY <1>1, <2>2, <2>3, BeforeReduced
  <2> HIDE DEF s
  <2>7. AfterOperator(Append(s, text'[Len(text) + 1]), text', Len(text) + 1)
    BY <2>2, <2>5, <2>6, OperatorParsed
  <2>8. AfterOperator(stack', text', Len(text'))
    BY <2>1, <2>2, <2>7 DEF s
  <2> QED
    BY <2>1, <2>2, <2>3, <2>4, <2>8 DEF ParserInv, GroupsOrFirst, Stopped, FilterStep
<1>10. CASE CloseParenthesis
  <2> DEFINE s == Before(")", stack)
  <2>1. /\ Len(s) > 1 /\ stack' = Append(SubSeq(s, 1, Len(s) - 2), Last(s))
        /\ at' = at /\ errors' = errors /\ filter' = filter
        /\ Reads("operator", {")"})
    BY <1>10 DEF CloseParenthesis, driver
  <2>2. /\ at = "operator" /\ Len(text) \in Nat /\ Len(text') = Len(text) + 1
        /\ text'[Len(text) + 1] = Last(text') /\ Last(text').op = ")"
        /\ \A m \in 1..Len(text) : text'[m] = text[m]
    BY <1>2, <2>1
  <2>3. /\ errors = 0 /\ Len(text) >= 3 /\ text[3].op = "HAVING"
        /\ AfterTree(stack, text', Len(text))
    BY <2>2, ReadsParsed DEF ParserInv
  <2>4. Len(text') >= 3 /\ text'[3].op = "HAVING"
    BY <2>2, <2>3
  <2>5. Present(s)
    BY <1>1, BeforePresent
  <2>6. ReducedAll(s, text', Len(text))
    BY <1>1, <2>2, <2>3, BeforeReduced
  <2> HIDE DEF s
  <2>7. AfterTree(stack', text', Len(text'))
    BY <2>1, <2>2, <2>5, <2>6, CloseParsed
  <2> QED
    BY <2>1, <2>2, <2>3, <2>4, <2>7 DEF ParserInv, GroupsOrFirst, Stopped, FilterStep
<1>11. CASE Wrong
  <2>1. Refuse /\ filter' = filter
    BY <1>11 DEF Wrong
  <2>2. CASE Reads("SHOW", AnyBut({"SHOW"})) \/ Reads("source", AnyBut({"OBJECTS", "CLASSES"}))
    <3>1. /\ at \in {"SHOW", "source"} /\ Len(text') = Len(text) + 1
      BY <1>2, <2>2 DEF AnyBut, Words
    <3>2. Len(text') \in {1, 2}
      <4>1. Len(text) \in {0, 1}
        BY <3>1 DEF DriverInv
      <4>2. Len(text) = 0 => Len(text') = 1
        BY <3>1
      <4>3. Len(text) = 1 => Len(text') = 2
        BY <3>1
      <4> QED
        BY <4>1, <4>2, <4>3
    <3>3. OwnFilter' = None
      <4>1. ~(Len(text') > 3)
        <5>1. \A l \in {1, 2} : ~(l > 3)
          OBVIOUS
        <5> QED
          BY <3>2, <5>1, Zenon
      <4> QED
        BY <4>1 DEF OwnFilter
    <3> QED
      BY <1>3, <2>1, <3>1, <3>2, <3>3
  <2>3. CASE Reads("operand", AnyBut({"(", "compare"}))
    <3>1. /\ at = "operand" /\ Len(text) \in Nat /\ Len(text') = Len(text) + 1
          /\ \A m \in 1..Len(text) : text'[m] = text[m]
      BY <1>2, <2>3 DEF AnyBut, Words
    <3> QED
      BY <1>3, <2>1, <3>1, OperandRefused
  <2>4. CASE Reads("operator", AnyBut({"AND", "OR", ")"})) /\ Len(Before("END", stack)) > 1
    <3>1. /\ at = "operator" /\ Len(text) \in Nat /\ Len(text') = Len(text) + 1
          /\ \A m \in 1..Len(text) : text'[m] = text[m]
      BY <1>2, <2>4 DEF AnyBut, Words
    <3> QED
      BY <1>1, <1>3, <2>1, <2>4, <3>1, OperatorRefused
  <2> QED
    BY <1>11, <2>2, <2>3, <2>4 DEF Wrong
<1>12. CASE Complete
  <2>1. ASSUME at # "idle"
        PROVE  /\ at' \in {"idle", "accepted"} /\ Stopped'
               /\ at' = "accepted" => errors' = 0
               /\ errors' = IF Last(text').op = "END" THEN 0 ELSE 1
    <3>1. errors = 0
      BY <2>1 DEF ParserInv
    <3> QED
      BY <1>12, <3>1 DEF Complete, Refuse, ReadWord, Stopped
  <2>2. CASE Reads("having", AnyBut({"HAVING"})) /\ UNCHANGED filter
    <3>1. /\ at = "having" /\ Len(text') = Len(text) + 1
      BY <1>2, <2>2 DEF AnyBut, Words
    <3>2. Len(text') = 3
      <4>1. Len(text) = 2
        BY <3>1 DEF DriverInv
      <4> QED
        BY <3>1, <4>1
    <3>3. OwnFilter' = None
      BY <3>2 DEF OwnFilter
    <3> QED
      BY <2>1, <2>2, <3>1, <3>2, <3>3 DEF ParserInv, GroupsOrFirst, FilterStep
  <2>3. CASE /\ Reads("operator", AnyBut({"AND", "OR"}))
             /\ Len(Before("END", stack)) = 1
             /\ filter' = Before("END", stack)[1]
    <3>1. /\ at = "operator" /\ Len(text) \in Nat /\ Len(text') = Len(text) + 1
          /\ \A m \in 1..Len(text) : text'[m] = text[m]
      BY <1>2, <2>3 DEF AnyBut, Words
    <3>2. OwnFilter' = Before("END", stack)[1] /\ OwnFilter' # None
      BY <1>1, <2>3, <3>1, OperatorCompletes
    <3> QED
      BY <2>1, <2>3, <3>1, <3>2 DEF ParserInv, GroupsOrFirst, FilterStep
  <2> QED
    BY <1>12, <2>2, <2>3 DEF Complete
<1>13. CASE Jam
  BY <1>13 DEF Jam, driver, ParserInv, GroupsOrFirst, Stopped, OwnFilter, FilterStep
<1>14. CASE Run
  <2>1. at = "accepted" /\ errors = 0
    BY <1>14 DEF Run, ParserInv
  <2>2. text' = text /\ errors' = errors /\ filter' = filter /\ stack' = stack /\ at' \in {"accepted", "idle"}
    BY <1>14, <2>1 DEF Run, NoFilter, driver
  <2>3. GroupsOrFirst'
    BY <2>1, <2>2 DEF GroupsOrFirst, Stopped, OwnFilter
  <2> QED
    BY <2>1, <2>2, <2>3 DEF ParserInv, FilterStep
<1>15. CASE UNCHANGED vars
  <2>1. text' = text /\ errors' = errors /\ filter' = filter /\ stack' = stack /\ at' = at
    BY <1>15 DEF vars, driver
  <2>2. GroupsOrFirst'
    BY <2>1 DEF GroupsOrFirst, Stopped, OwnFilter
  <2> QED
    BY <2>1, <2>2 DEF ParserInv, FilterStep
<1> QED
  BY <1>4, <1>5, <1>6, <1>7, <1>8, <1>9, <1>10, <1>11, <1>12, <1>13, <1>14, <1>15 DEF Next

\* Every text that means something is accepted up to its end, and leaves what it means
\* as the filter; any other text is refused with one error -- however long the texts
\* are, however deep their parentheses, and whatever was read before.
THEOREM GroupsCorrect == Spec => []GroupsOrFirst
BY DriverStart, DriverStep, ParserStart, ParserStep, PTL DEF Spec

\* No step but that of a text whose filter is complete changes the filter, and then to
\* what this text means, whatever was read before.
THEOREM FilterKeptCorrect == Spec => FilterKept
<1>1. DriverInv /\ ParserInv /\ GroupsOrFirst /\ [Next]_vars =>
        [filter' # filter => Stopped' /\ filter' = OwnFilter' /\ OwnFilter' # None]_vars
  BY ParserStep DEF FilterStep
<1> QED
  BY <1>1, DriverStart, DriverStep, ParserStart, ParserStep, PTL DEF Spec, FilterKept

-------------------------------------------------------------------------------
(* Printing a result: ObjectPrinter. *)

\* The constants of ObjectPrinter.
LEMMA PrinterConstants ==
  /\ Ids \subseteq Nat \ {0} /\ IsFiniteSet(Ids)
  /\ MaxLevel \in Nat /\ StackRoom \in Nat /\ StackRoom > MaxLevel + Cardinality(Ids)
  /\ \A h \in Heaps : /\ DOMAIN h \subseteq Ids
                      /\ \A id \in DOMAIN h : h[id].kind \in Kinds /\ h[id].refs \in Seq(Nat)
BY IdsAssumption, LevelAssumption, RoomAssumption, HeapsAssumption

\* Who is reached on the next level.
LEMMA ReachedIs ==
  /\ Reached[0] = {root}
  /\ \A level \in 1..StackRoom :
       Reached[level] =
         UNION {RefsOf(id) : id \in {i \in Reached[level - 1] : UnfoldedAt(i, level - 1)}}
<1> DEFINE A == SUBSET ({root} \cup DOMAIN objects)
<1> DEFINE Next1(level, ids) == UNION {RefsOf(id) : id \in {i \in ids : UnfoldedAt(i, level - 1)}}
<1> DEFINE step == [p \in (1..StackRoom) \X A |-> Next1(p[1], p[2])]
<1>1. StackRoom \in Nat
  BY PrinterConstants
<1>2. step \in [(1..StackRoom) \X A -> A]
  <2>1. \A id : RefsOf(id) \subseteq DOMAIN objects
    BY DEF RefsOf
  <2> QED
    BY <2>1
<1>3. PICK f \in [0..StackRoom -> A] : f[0] = {root} /\ \A n \in 1..StackRoom : f[n] = step[<<n, f[n - 1]>>]
  <2> HIDE DEF step
  <2>1. {root} \in A
    OBVIOUS
  <2> HIDE DEF A
  <2>2. Defines(StackRoom, A, {root}, step)
    BY <1>1, <1>2, <2>1, RecursionExists
  <2> QED
    BY <2>2 DEF Defines
<1>4. \A n \in 1..StackRoom : f[n] = Next1(n, f[n - 1])
  <2> SUFFICES ASSUME NEW n \in 1..StackRoom PROVE f[n] = Next1(n, f[n - 1])
    OBVIOUS
  <2>1. n - 1 \in 0..StackRoom
    BY <1>1
  <2> HIDE DEF A
  <2>2. <<n, f[n - 1]>> \in (1..StackRoom) \X A
    BY <2>1
  <2> HIDE DEF Next1
  <2>3. step[<<n, f[n - 1]>>] = Next1(n, f[n - 1])
    BY <2>2
  <2> QED
    BY <1>3, <2>3
<1>5. f = [level \in 0..StackRoom |-> IF level = 0 THEN {root} ELSE Next1(level, f[level - 1])]
  <2>1. \A n \in 0..StackRoom : n # 0 => n \in 1..StackRoom
    BY <1>1
  <2> HIDE DEF A, Next1, step
  <2> QED
    BY <1>3, <1>4, <2>1
<1> DEFINE met == CHOOSE met : met = [level \in 0..StackRoom |-> IF level = 0 THEN {root} ELSE Next1(level, met[level - 1])]
<1>6. met = [level \in 0..StackRoom |-> IF level = 0 THEN {root} ELSE Next1(level, met[level - 1])]
  <2> HIDE DEF A, Next1, step
  <2> QED
    BY <1>5
<1>7. Reached = met
  BY DEF Reached
<1> HIDE DEF met
<1>8. met[0] = {root}
  BY <1>1, <1>6
<1>9. ASSUME NEW level \in 1..StackRoom PROVE met[level] = Next1(level, met[level - 1])
  <2>1. level \in 0..StackRoom /\ level # 0
    BY <1>1
  <2> HIDE DEF Next1
  <2> QED
    BY <1>6, <2>1
<1> QED
  BY <1>7, <1>8, <1>9

\* What an array contains, directly or through other arrays.
LEMMA BelowIs ==
  ASSUME NEW id
  PROVE  \E f : /\ ArrayCycle(id) <=> id \in Arrays /\ id \in f[Cardinality(Ids)]
                /\ f[0] = RefsOf(id) \cap Arrays
                /\ \A n \in 1..Cardinality(Ids) :
                     f[n] = f[n - 1] \cup (Elements(f[n - 1]) \cap Arrays)
<1> DEFINE N == Cardinality(Ids)
<1> DEFINE A == SUBSET Arrays
<1> DEFINE a == RefsOf(id) \cap Arrays
<1> DEFINE More(ids) == ids \cup (Elements(ids) \cap Arrays)
<1> DEFINE step == [p \in (1..N) \X A |-> More(p[2])]
<1>1. N \in Nat
  BY FS_CardinalityType, PrinterConstants
<1>2. step \in [(1..N) \X A -> A]
  OBVIOUS
<1>3. PICK f \in [0..N -> A] : f[0] = a /\ \A n \in 1..N : f[n] = step[<<n, f[n - 1]>>]
  <2> HIDE DEF step, N
  <2>1. a \in A
    OBVIOUS
  <2> HIDE DEF A, a
  <2>2. Defines(N, A, a, step)
    BY <1>1, <1>2, <2>1, RecursionExists
  <2> QED
    BY <2>2 DEF Defines
<1> HIDE DEF N
<1>4. \A n \in 1..N : f[n] = More(f[n - 1])
  <2> SUFFICES ASSUME NEW n \in 1..N PROVE f[n] = More(f[n - 1])
    OBVIOUS
  <2>1. n - 1 \in 0..N
    BY <1>1
  <2> HIDE DEF A
  <2>2. <<n, f[n - 1]>> \in (1..N) \X A
    BY <2>1
  <2> HIDE DEF More
  <2>3. step[<<n, f[n - 1]>>] = More(f[n - 1])
    BY <2>2
  <2> QED
    BY <1>3, <2>3
<1>5. f = [n \in 0..N |-> IF n = 0 THEN a ELSE More(f[n - 1])]
  <2>1. \A n \in 0..N : n # 0 => n \in 1..N
    BY <1>1
  <2> HIDE DEF A, More, step, a
  <2> QED
    BY <1>3, <1>4, <2>1
<1> DEFINE below == CHOOSE below : below = [n \in 0..N |-> IF n = 0 THEN a ELSE More(below[n - 1])]
<1>6. below = [n \in 0..N |-> IF n = 0 THEN a ELSE More(below[n - 1])]
  <2> HIDE DEF A, More, step, a
  <2> QED
    BY <1>5
<1>7. ArrayCycle(id) <=> id \in Arrays /\ id \in below[N]
  BY DEF ArrayCycle, N
<1> HIDE DEF below
<1>8. below[0] = a
  BY <1>1, <1>6
<1>9. ASSUME NEW n \in 1..N PROVE below[n] = More(below[n - 1])
  <2>1. n \in 0..N /\ n # 0
    BY <1>1
  <2> HIDE DEF More
  <2> QED
    BY <1>6, <2>1
<1> QED
  BY <1>7, <1>8, <1>9 DEF N

\* Arrays each of which is in the one before it, more of them than there are objects:
\* one is in itself.
LEMMA CycleFound ==
  ASSUME NEW i \in Nat,
         NEW g, \A n \in i..i + Cardinality(Ids) : g[n] \in Arrays /\ g[n] \in Ids,
         \A n \in i..i + Cardinality(Ids) - 1 : g[n + 1] \in RefsOf(g[n])
  PROVE  \E n \in i..i + Cardinality(Ids) : ArrayCycle(g[n])
<1> DEFINE N == Cardinality(Ids)
<1> DEFINE S == i..i + N
<1>1. N \in Nat /\ IsFiniteSet(Ids)
  BY FS_CardinalityType, PrinterConstants
<1>2. PICK x \in S, y \in S : x < y /\ g[x] = g[y]
  <2> DEFINE f == [n \in S |-> g[n]]
  <2>1. f \in [S -> Ids]
    OBVIOUS
  <2>2. IsFiniteSet(S) /\ Cardinality(S) = N + 1
    BY <1>1, FS_Interval
  <2> HIDE DEF f, S
  <2>3. \E x, y \in S : x # y /\ f[x] = f[y]
    BY <1>1, <2>1, <2>2, FS_PigeonHole
  <2>4. PICK x \in S, y \in S : x # y /\ f[x] = f[y]
    BY <2>3
  <2>5. g[x] = g[y]
    BY <2>4 DEF f
  <2>6. x < y \/ y < x
    BY <1>1, <2>4 DEF S
  <2> QED
    BY <2>5, <2>6
<1>3. PICK f : /\ ArrayCycle(g[x]) <=> g[x] \in Arrays /\ g[x] \in f[N]
               /\ f[0] = RefsOf(g[x]) \cap Arrays
               /\ \A n \in 1..N : f[n] = f[n - 1] \cup (Elements(f[n - 1]) \cap Arrays)
  BY BelowIs
<1> DEFINE M == y - x - 1
<1>4. M \in 0..N /\ x + 1 + M = y /\ x \in Nat /\ y <= i + N
  BY <1>1, <1>2
<1>5. \A k \in 0..M : g[x + 1 + k] \in f[k]
  <2> DEFINE T == {k \in 0..M : g[x + 1 + k] \in f[k]}
  <2>1. 0 \in T
    <3>1. x \in i..i + N - 1 /\ x + 1 \in i..i + N /\ x + 1 + 0 = x + 1
      BY <1>1, <1>2
    <3> QED
      BY <1>3, <1>4, <3>1
  <2>2. ASSUME NEW k \in 0..M - 1, k \in T PROVE k + 1 \in T
    <3>1. /\ x + 1 + k \in i..i + N - 1 /\ x + 1 + (k + 1) \in i..i + N
          /\ (x + 1 + k) + 1 = x + 1 + (k + 1) /\ k + 1 \in 1..N /\ (k + 1) - 1 = k /\ k + 1 \in 0..M
      BY <1>1, <1>2, <1>4
    <3>2. g[x + 1 + k] \in f[k] /\ g[x + 1 + (k + 1)] \in RefsOf(g[x + 1 + k])
      BY <2>2, <3>1
    <3>3. g[x + 1 + (k + 1)] \in Elements(f[k])
      BY <3>2 DEF Elements
    <3>4. g[x + 1 + (k + 1)] \in f[k + 1]
      BY <1>3, <3>1, <3>3
    <3> QED
      BY <3>1, <3>4
  <2> HIDE DEF T, M
  <2>3. \A k \in 0..M : k \in T
    BY <1>4, <2>1, <2>2, InductionTo
  <2> QED
    BY <2>3 DEF T
<1>6. \A k \in 0..N : M <= k => f[M] \subseteq f[k]
  <2> DEFINE T == {k \in 0..N : M <= k => f[M] \subseteq f[k]}
  <2>1. 0 \in T
    BY <1>1, <1>4
  <2>2. ASSUME NEW k \in 0..N - 1, k \in T PROVE k + 1 \in T
    <3>1. k + 1 \in 1..N /\ k + 1 \in 0..N /\ (k + 1) - 1 = k /\ (M <= k + 1 => M <= k \/ M = k + 1)
      BY <1>1, <1>4
    <3>2. f[k] \subseteq f[k + 1]
      BY <1>3, <3>1
    <3> QED
      BY <2>2, <3>1, <3>2
  <2> HIDE DEF T, M, N
  <2>3. \A k \in 0..N : k \in T
    BY <1>1, <2>1, <2>2, InductionTo
  <2> QED
    BY <2>3 DEF T
<1>7. g[y] \in f[N]
  <2>1. M \in 0..M /\ N \in 0..N /\ M <= N
    BY <1>1, <1>4
  <2>2. g[x + 1 + M] \in f[M]
    BY <1>5, <2>1
  <2>3. f[M] \subseteq f[N]
    BY <1>6, <2>1
  <2> HIDE DEF M, N
  <2> QED
    BY <1>4, <2>2, <2>3
<1>8. ArrayCycle(g[x])
  BY <1>2, <1>3, <1>7
<1> QED
  BY <1>2, <1>8

\* The frames of printing: each is of what the one before refers to, unfolded at its level,
\* and what is shown is reached.
Frame == [of : Ids, left : Seq(Nat)]
FrameFits(s, n) ==
  /\ s[n].of \in DOMAIN objects /\ s[n].of \in Reached[n - 1]
  /\ UnfoldedAt(s[n].of, n - 1)
  /\ \A i \in DOMAIN s[n].left : \E j \in DOMAIN objects[s[n].of].refs :
       s[n].left[i] = objects[s[n].of].refs[j]
FramesFit(s) ==
  /\ s \in Seq(Frame) /\ Len(s) <= StackRoom
  /\ \A n \in 1..Len(s) : FrameFits(s, n)
  /\ \A n \in 1..Len(s) - 1 : s[n + 1].of \in RefsOf(s[n].of)
FramesInv ==
  /\ objects \in Heaps /\ root \in DOMAIN objects /\ objects[root].kind \in {"object", "string"}
  /\ FramesFit(calls)
  /\ shown \subseteq All
  /\ phase \in {"called", "printing", "done", "overflow", "crashed"}
  /\ phase = "called" => calls = <<>>
  /\ phase = "done" => calls = <<>>
  /\ phase = "overflow" => \E id \in All : ArrayCycle(id)

\* P is what was printed, with the levels: what a frame refers to was printed below it or
\* is left.
Printed(P) ==
  /\ <<root, 0>> \in P
  /\ \A id, level : <<id, level>> \in P =>
       /\ id \in DOMAIN objects /\ objects[id].kind # "classless" /\ id \in shown /\ level \in Nat
       /\ UnfoldedAt(id, level) =>
            \A r \in RefsOf(id) :
              \/ <<r, level + 1>> \in P
              \/ /\ level + 1 \in 1..Len(calls) /\ calls[level + 1].of = id
                 /\ \E i \in DOMAIN calls[level + 1].left : calls[level + 1].left[i] = r
PrintedInv == phase \in {"printing", "done"} => \E P : Printed(P)

\* Printing that ended has printed what is reached.
LEMMA PrintedAll ==
  ASSUME FramesInv, phase = "done", NEW P, Printed(P)
  PROVE  /\ All \subseteq shown
         /\ \A id \in All : objects[id].kind # "classless"
<1>1. StackRoom \in Nat /\ calls = <<>> /\ Len(calls) = 0
  BY PrinterConstants DEF FramesInv
<1> DEFINE T == {level \in 0..StackRoom : \A id \in Reached[level] : <<id, level>> \in P}
<1>2. 0 \in T
  BY <1>1, ReachedIs DEF Printed
<1>3. ASSUME NEW level \in 0..StackRoom - 1, level \in T PROVE level + 1 \in T
  <2>1. level + 1 \in 1..StackRoom /\ level + 1 \in 0..StackRoom /\ (level + 1) - 1 = level
    BY <1>1
  <2>2. ASSUME NEW r \in Reached[level + 1] PROVE <<r, level + 1>> \in P
    <3>1. PICK id \in Reached[level] : UnfoldedAt(id, level) /\ r \in RefsOf(id)
      <4>1. Reached[level + 1] =
              UNION {RefsOf(id) : id \in {i \in Reached[(level + 1) - 1] : UnfoldedAt(i, (level + 1) - 1)}}
        BY <2>1, ReachedIs
      <4> QED
        BY <2>1, <2>2, <4>1
    <3>2. <<id, level>> \in P
      BY <1>3, <3>1
    <3>3. ~(level + 1 \in 1..Len(calls))
      BY <1>1
    <3> QED
      BY <3>1, <3>2, <3>3 DEF Printed
  <2> QED
    BY <2>1, <2>2
<1> HIDE DEF T
<1>4. \A level \in 0..StackRoom : level \in T
  BY <1>1, <1>2, <1>3, InductionTo
<1>5. ASSUME NEW id \in All PROVE id \in shown /\ objects[id].kind # "classless"
  <2>1. PICK level \in 0..StackRoom : id \in Reached[level]
    BY DEF All
  <2>2. <<id, level>> \in P
    BY <1>4, <2>1 DEF T
  <2> QED
    BY <2>2 DEF Printed
<1> QED
  BY <1>5

\* A stack without room has an array in itself.
LEMMA FullStack ==
  ASSUME FramesInv, Len(calls) = StackRoom
  PROVE  \E id \in All : ArrayCycle(id)
<1> DEFINE N == Cardinality(Ids)
<1> DEFINE i == MaxLevel + 1
<1> DEFINE g == [n \in 1..Len(calls) |-> calls[n].of]
<1>1. /\ N \in Nat /\ i \in Nat /\ i \in Int /\ i + N <= StackRoom /\ StackRoom \in Nat /\ MaxLevel \in Nat
  BY FS_CardinalityType, PrinterConstants
<1>2. \A n \in i..i + N : n \in 1..Len(calls) /\ g[n] = calls[n].of /\ n - 1 >= MaxLevel
  BY <1>1
<1>3. \A n \in 1..Len(calls) : /\ calls[n].of \in DOMAIN objects
                               /\ UnfoldedAt(calls[n].of, n - 1)
                               /\ calls[n].of \in Reached[n - 1]
  BY DEF FramesInv, FramesFit, FrameFits
<1>4. ASSUME NEW n \in i..i + N PROVE g[n] \in Arrays /\ g[n] \in Ids /\ g[n] \in All
  <2>1. n \in 1..Len(calls) /\ g[n] = calls[n].of /\ n - 1 >= MaxLevel
    BY <1>2
  <2>2. g[n] \in DOMAIN objects /\ objects[g[n]].kind = "array"
    BY <1>1, <1>3, <2>1 DEF UnfoldedAt
  <2>3. g[n] \in Ids
    BY <2>2, PrinterConstants DEF FramesInv, FramesFit
  <2>4. n - 1 \in 0..StackRoom
    BY <1>1, <2>1
  <2> QED
    BY <1>3, <2>1, <2>2, <2>3, <2>4 DEF Arrays, All
<1>5. ASSUME NEW n \in i..i + N - 1 PROVE g[n + 1] \in RefsOf(g[n])
  <2>1. n \in 1..Len(calls) - 1 /\ n + 1 \in 1..Len(calls) /\ n \in 1..Len(calls)
    BY <1>1
  <2>2. calls[n + 1].of \in RefsOf(calls[n].of)
    BY <2>1 DEF FramesInv, FramesFit
  <2> QED
    BY <2>1, <2>2
<1> HIDE DEF g, i
<1>6. \E n \in i..i + N : ArrayCycle(g[n])
  BY <1>1, <1>4, <1>5, CycleFound
<1> QED
  BY <1>4, <1>6

\* The heap and the root stay, so what they say does.
LEMMA HeapStays ==
  ASSUME objects' = objects, root' = root
  PROVE  /\ All' = All /\ Reached' = Reached
         /\ \A id : /\ RefsOf(id)' = RefsOf(id)
                    /\ ArrayCycle(id)' = ArrayCycle(id)
         /\ \A id, level : UnfoldedAt(id, level)' = UnfoldedAt(id, level)
<1>1. ASSUME NEW id PROVE RefsOf(id)' = RefsOf(id)
  BY DEF RefsOf
<1>2. ASSUME NEW id, NEW level PROVE UnfoldedAt(id, level)' = UnfoldedAt(id, level)
  BY DEF UnfoldedAt
<1>3. Reached' = Reached
  BY DEF Reached, RefsOf, UnfoldedAt
<1>4. All' = All
  BY <1>3 DEF All
<1>5. ASSUME NEW id PROVE ArrayCycle(id)' = ArrayCycle(id)
  BY DEF ArrayCycle, RefsOf, Arrays, Elements
<1> QED
  BY <1>1, <1>2, <1>3, <1>4, <1>5

\* What is called: the root first, then what the last frame refers to.
Callee(s, id) == \/ s = <<>> /\ id = root
                 \/ s # <<>> /\ id \in RefsOf(s[Len(s)].of)

LEMMA CalleeReached ==
  ASSUME NEW s, FramesFit(s), NEW id, Callee(s, id)
  PROVE  id \in Reached[Len(s)] /\ id \in All /\ Len(s) \in 0..StackRoom
<1>1. StackRoom \in Nat /\ Len(s) \in 0..StackRoom
  BY PrinterConstants DEF FramesFit
<1>2. CASE s = <<>> /\ id = root
  <2>1. Len(s) = 0 /\ id \in Reached[0]
    BY <1>2, ReachedIs
  <2> QED
    BY <1>1, <2>1 DEF All
<1>3. CASE s # <<>> /\ id \in RefsOf(s[Len(s)].of)
  <2>1. Len(s) \in 1..Len(s) /\ Len(s) \in 1..StackRoom
    BY <1>1, <1>3, EmptySeq DEF FramesFit
  <2>2. s[Len(s)].of \in Reached[Len(s) - 1] /\ UnfoldedAt(s[Len(s)].of, Len(s) - 1)
    BY <2>1 DEF FramesFit, FrameFits
  <2>3. id \in Reached[Len(s)]
    BY <1>3, <2>1, <2>2, ReachedIs
  <2> QED
    BY <1>1, <2>3 DEF All
<1> QED
  BY <1>2, <1>3 DEF Callee

\* A frame more.
LEMMA FramePushed ==
  ASSUME objects \in Heaps, NEW s, FramesFit(s), NEW id \in DOMAIN objects, Callee(s, id),
         UnfoldedAt(id, Len(s)), Len(s) < StackRoom
  PROVE  LET q == Append(s, [of |-> id, left |-> objects[id].refs])
         IN FramesFit(q) /\ Len(q) = Len(s) + 1 /\ (\A n \in 1..Len(s) : q[n] = s[n])
            /\ q[Len(s) + 1] = [of |-> id, left |-> objects[id].refs]
<1> DEFINE x == [of |-> id, left |-> objects[id].refs]
<1> DEFINE q == Append(s, x)
<1>1. x \in Frame /\ x.of = id /\ x.left = objects[id].refs
  BY PrinterConstants DEF Frame
<1> HIDE DEF x
<1>2. s \in Seq(Frame) /\ Len(s) \in Nat /\ StackRoom \in Nat
  BY PrinterConstants DEF FramesFit
<1>3. /\ q \in Seq(Frame) /\ Len(q) = Len(s) + 1 /\ q[Len(s) + 1] = x
      /\ \A n \in 1..Len(s) : q[n] = s[n]
  BY <1>1, <1>2, AppendProperties
<1> HIDE DEF q
<1>4. ASSUME NEW n \in 1..Len(q)
      PROVE  FrameFits(q, n)
  <2>1. CASE n \in 1..Len(s)
    <3>1. q[n] = s[n]
      BY <1>3, <2>1
    <3>2. FrameFits(s, n)
      BY <2>1 DEF FramesFit
    <3> QED
      BY <3>1, <3>2 DEF FrameFits
  <2>2. CASE n = Len(s) + 1
    <3>1. q[n].of = id /\ q[n].left = objects[id].refs /\ n - 1 = Len(s)
      BY <1>1, <1>2, <1>3, <2>2
    <3>2. id \in Reached[Len(s)]
      BY CalleeReached
    <3> QED
      BY <2>2, <3>1, <3>2 DEF FrameFits
  <2> QED
    BY <1>2, <1>3, <2>1, <2>2
<1>5. ASSUME NEW n \in 1..Len(q) - 1 PROVE q[n + 1].of \in RefsOf(q[n].of)
  <2>1. CASE n \in 1..Len(s) - 1
    <3>1. n + 1 \in 1..Len(s) /\ n \in 1..Len(s)
      BY <1>2, <2>1
    <3> QED
      BY <1>3, <2>1, <3>1 DEF FramesFit
  <2>2. CASE n = Len(s)
    <3>1. s # <<>> /\ n \in 1..Len(s)
      BY <1>2, <1>3, <2>2, EmptySeq
    <3>2. id \in RefsOf(s[Len(s)].of)
      BY <3>1 DEF Callee
    <3> QED
      BY <1>1, <1>3, <2>2, <3>1, <3>2
  <2> QED
    BY <1>2, <1>3, <2>1, <2>2
<1>6. Len(q) <= StackRoom
  BY <1>2, <1>3
<1> QED
  BY <1>3, <1>4, <1>5, <1>6 DEF FramesFit, q, x

\* The next round of the last frame.
LEMMA FrameRound ==
  ASSUME objects \in Heaps, FramesFit(calls), calls # <<>>, calls[Len(calls)].left # <<>>
  PROVE  LET top == calls[Len(calls)]
             q == [calls EXCEPT ![Len(calls)].left = Tail(top.left)]
         IN /\ FramesFit(q) /\ Len(q) = Len(calls) /\ Len(calls) \in Nat \ {0} /\ q # <<>>
            /\ \A n \in 1..Len(calls) : q[n].of = calls[n].of
            /\ \A n \in 1..Len(calls) : n # Len(calls) => q[n] = calls[n]
            /\ q[Len(calls)].left = Tail(top.left)
            /\ top.left \in Seq(Nat)
            /\ \E j \in DOMAIN objects[top.of].refs : Head(top.left) = objects[top.of].refs[j]
<1> DEFINE L == Len(calls)
<1> DEFINE top == calls[L]
<1> DEFINE rest == Tail(top.left)
<1> DEFINE q == [calls EXCEPT ![L].left = rest]
<1>1. calls \in Seq(Frame) /\ L \in Nat \ {0} /\ L <= StackRoom
  BY EmptySeq DEF FramesFit
<1>2. /\ \A n \in 1..L : calls[n] \in Frame
      /\ top \in Frame /\ top.left \in Seq(Nat) /\ top.of \in Ids /\ L \in 1..L
  <2>1. \A n \in 1..L : calls[n] \in Frame
    BY <1>1
  <2>2. L \in 1..L
    BY <1>1
  <2>3. top \in Frame
    BY <2>1, <2>2
  <2> QED
    BY <2>1, <2>2, <2>3 DEF Frame
<1>3. /\ rest \in Seq(Nat) /\ Head(top.left) = top.left[1] /\ 1 \in DOMAIN top.left
      /\ \A i \in DOMAIN rest : i + 1 \in DOMAIN top.left /\ rest[i] = top.left[i + 1]
  BY <1>2, Popped
<1> HIDE DEF rest
<1>4. /\ q \in Seq(Frame) /\ Len(q) = L
      /\ \A n \in 1..L : n # L => q[n] = calls[n]
      /\ q[L].of = top.of /\ q[L].left = rest
  <2>1. q = [n \in 1..L |-> IF n = L THEN [top EXCEPT !.left = rest] ELSE calls[n]]
    BY <1>1
  <2>2. [top EXCEPT !.left = rest] \in Frame /\ [top EXCEPT !.left = rest].of = top.of
        /\ [top EXCEPT !.left = rest].left = rest
    BY <1>2, <1>3 DEF Frame
  <2> HIDE DEF q
  <2>3. q \in [1..L -> Frame]
    BY <1>2, <2>1, <2>2
  <2>4. q \in Seq(Frame) /\ Len(q) = L
    BY <1>1, <2>3
  <2> QED
    BY <1>1, <1>2, <2>1, <2>2, <2>4
<1> HIDE DEF q
<1>5. \A n \in 1..L : q[n].of = calls[n].of
  BY <1>4
<1>6. ASSUME NEW n \in 1..L PROVE FrameFits(q, n)
  <2>1. FrameFits(calls, n)
    BY DEF FramesFit
  <2>2. CASE n # L
    <3>1. q[n] = calls[n]
      BY <1>4, <2>2
    <3> QED
      BY <2>1, <3>1 DEF FrameFits
  <2>3. CASE n = L
    <3>1. q[n].of = top.of /\ q[n].left = rest /\ calls[n] = top
      BY <1>4, <2>3
    <3>2. ASSUME NEW i \in DOMAIN rest PROVE \E j \in DOMAIN objects[top.of].refs : rest[i] = objects[top.of].refs[j]
      <4>1. i + 1 \in DOMAIN top.left /\ rest[i] = top.left[i + 1]
        BY <1>3
      <4> QED
        BY <2>1, <3>1, <4>1 DEF FrameFits
    <3> QED
      BY <2>1, <3>1, <3>2 DEF FrameFits
  <2> QED
    BY <2>2, <2>3
<1>7. FramesFit(q)
  <2>1. \A n \in 1..L - 1 : n \in 1..L /\ n + 1 \in 1..L
    BY <1>1
  <2>2. \A n \in 1..L - 1 : q[n + 1].of \in RefsOf(q[n].of)
    BY <1>5, <2>1 DEF FramesFit
  <2>3. Len(q) <= StackRoom
    BY <1>1, <1>4
  <2> QED
    BY <1>4, <1>6, <2>2, <2>3 DEF FramesFit
<1>8. \E j \in DOMAIN objects[top.of].refs : Head(top.left) = objects[top.of].refs[j]
  <2>1. FrameFits(calls, L)
    BY <1>2 DEF FramesFit
  <2> QED
    BY <1>3, <2>1 DEF FrameFits
<1>9. q # <<>>
  BY <1>1, <1>4, EmptySeq
<1> QED
  BY <1>1, <1>2, <1>4, <1>5, <1>7, <1>8, <1>9 DEF q, rest

\* Frames that fit still do.
LEMMA FitStays ==
  ASSUME objects' = objects, root' = root, FramesFit(calls')
  PROVE  FramesFit(calls)'
<1>1. ASSUME NEW n \in 1..Len(calls') PROVE FrameFits(calls, n)'
  <2>1. FrameFits(calls', n)
    BY DEF FramesFit
  <2> QED
    BY <2>1, HeapStays DEF FrameFits
<1> QED
  BY <1>1, HeapStays DEF FramesFit

\* As Printed, but for what is called now.
PrintedBut(P, s, callee) ==
  /\ <<root, 0>> \in P \/ (callee = root /\ Len(s) = 0)
  /\ \A id, level : <<id, level>> \in P =>
       /\ id \in DOMAIN objects /\ objects[id].kind # "classless" /\ id \in shown /\ level \in Nat
       /\ UnfoldedAt(id, level) =>
            \A r \in RefsOf(id) :
              \/ <<r, level + 1>> \in P
              \/ r = callee /\ level + 1 = Len(s)
              \/ /\ level + 1 \in 1..Len(s) /\ s[level + 1].of = id
                 /\ \E i \in DOMAIN s[level + 1].left : s[level + 1].left[i] = r

\* print_object of an object that is called for.
LEMMA PrintStep ==
  ASSUME FramesInv, phase # "done", objects' = objects, root' = root,
         NEW s, FramesFit(s), Len(s) = Len(calls), NEW id \in DOMAIN objects, Callee(s, id),
         NEW P, PrintedBut(P, s, id), PrintObject(id, s)
  PROVE  FramesInv' /\ PrintedInv'
<1>1. id \in All /\ Len(s) \in 0..StackRoom /\ StackRoom \in Nat
  BY CalleeReached, PrinterConstants
<1>2. /\ All' = All
      /\ \A x : ArrayCycle(x)' = ArrayCycle(x) /\ RefsOf(x)' = RefsOf(x)
      /\ \A x, level : UnfoldedAt(x, level)' = UnfoldedAt(x, level)
  BY HeapStays
<1>3. /\ objects' \in Heaps /\ root' \in DOMAIN objects' /\ objects'[root'].kind \in {"object", "string"}
      /\ shown \subseteq All /\ FramesFit(calls)
  BY DEF FramesInv
<1>4. CASE objects[id].kind = "classless"
  <2>1. phase' = "crashed" /\ calls' = calls /\ shown' = shown
    BY <1>4 DEF PrintObject
  <2>2. FramesFit(calls)'
    BY <1>3, <2>1, FitStays
  <2> QED
    BY <1>2, <1>3, <2>1, <2>2 DEF FramesInv, PrintedInv
<1>5. ASSUME objects[id].kind # "classless", shown' = shown \cup {id}, phase' = "printing",
             FramesFit(calls'), Len(calls') >= Len(s), Len(calls') \in Nat,
             \A n \in 1..Len(s) : calls'[n] = s[n],
             UnfoldedAt(id, Len(s)) =>
               /\ Len(s) + 1 \in 1..Len(calls')
               /\ calls'[Len(s) + 1].of = id /\ calls'[Len(s) + 1].left = objects[id].refs
      PROVE  FramesInv' /\ PrintedInv'
  <2>1. FramesFit(calls)'
    BY <1>5, FitStays
  <2>2. FramesInv'
    BY <1>1, <1>2, <1>3, <1>5, <2>1 DEF FramesInv
  <2> DEFINE Q == P \cup {<<id, Len(s)>>}
  <2>3. <<root', 0>> \in Q
    BY DEF PrintedBut
  <2>4. ASSUME NEW x, NEW level, <<x, level>> \in Q
        PROVE  /\ x \in DOMAIN objects' /\ objects'[x].kind # "classless" /\ x \in shown' /\ level \in Nat
               /\ UnfoldedAt(x, level)' =>
                    \A r \in RefsOf(x)' :
                      \/ <<r, level + 1>> \in Q
                      \/ /\ level + 1 \in 1..Len(calls') /\ calls'[level + 1].of = x
                         /\ \E i \in DOMAIN calls'[level + 1].left : calls'[level + 1].left[i] = r
    <3>1. CASE <<x, level>> \in P
      <4>1. x \in DOMAIN objects /\ objects[x].kind # "classless" /\ x \in shown /\ level \in Nat
        BY <3>1 DEF PrintedBut
      <4>2. ASSUME UnfoldedAt(x, level), NEW r \in RefsOf(x)
            PROVE  \/ <<r, level + 1>> \in Q
                   \/ /\ level + 1 \in 1..Len(calls') /\ calls'[level + 1].of = x
                      /\ \E i \in DOMAIN calls'[level + 1].left : calls'[level + 1].left[i] = r
        <5>1. \/ <<r, level + 1>> \in P
              \/ r = id /\ level + 1 = Len(s)
              \/ /\ level + 1 \in 1..Len(s) /\ s[level + 1].of = x
                 /\ \E i \in DOMAIN s[level + 1].left : s[level + 1].left[i] = r
          BY <3>1, <4>2 DEF PrintedBut
        <5>2. level + 1 \in 1..Len(s) => level + 1 \in 1..Len(calls') /\ calls'[level + 1] = s[level + 1]
          BY <1>1, <1>5
        <5> QED
          BY <5>1, <5>2
      <4> QED
        BY <1>2, <1>5, <4>1, <4>2
    <3>2. CASE x = id /\ level = Len(s)
      <4>1. ASSUME UnfoldedAt(id, Len(s)), NEW r \in RefsOf(id)
            PROVE  /\ Len(s) + 1 \in 1..Len(calls') /\ calls'[Len(s) + 1].of = id
                   /\ \E i \in DOMAIN calls'[Len(s) + 1].left : calls'[Len(s) + 1].left[i] = r
        <5>1. \E i \in DOMAIN objects[id].refs : objects[id].refs[i] = r
          BY <4>1 DEF RefsOf, ToSet
        <5> QED
          BY <1>5, <4>1, <5>1
      <4> QED
        BY <1>1, <1>2, <1>5, <3>2, <4>1
    <3> QED
      BY <2>4, <3>1, <3>2
  <2> HIDE DEF Q
  <2>5. Printed(Q)'
    BY <2>3, <2>4 DEF Printed
  <2> QED
    BY <2>2, <2>5 DEF PrintedInv
<1>6. CASE objects[id].kind # "classless" /\ ~Unfolds(id)
  <2>1. phase' = "printing" /\ calls' = s /\ shown' = shown \cup {id}
    BY <1>6 DEF PrintObject
  <2>2. ~UnfoldedAt(id, Len(s))
    BY <1>6 DEF Unfolds, UnfoldedAt, Level
  <2>3. FramesFit(calls') /\ Len(calls') \in Nat /\ Len(calls') >= Len(s)
    BY <1>1, <2>1
  <2> QED
    BY <1>5, <1>6, <2>1, <2>2, <2>3
<1>7. CASE objects[id].kind # "classless" /\ Unfolds(id) /\ Len(calls) = StackRoom
  <2>1. phase' = "overflow" /\ calls' = calls /\ shown' = shown \cup {id}
    BY <1>7 DEF PrintObject
  <2>2. \E x \in All : ArrayCycle(x)
    BY <1>7, FullStack
  <2>3. FramesFit(calls)'
    BY <1>3, <2>1, FitStays
  <2> QED
    BY <1>1, <1>2, <1>3, <2>1, <2>2, <2>3 DEF FramesInv, PrintedInv
<1>8. CASE objects[id].kind # "classless" /\ Unfolds(id) /\ Len(calls) # StackRoom
  <2>1. phase' = "printing" /\ shown' = shown \cup {id} /\ calls' = Append(s, [of |-> id, left |-> objects[id].refs])
    BY <1>8 DEF PrintObject
  <2>2. UnfoldedAt(id, Len(s)) /\ Len(s) < StackRoom
    <3>1. \A n \in 0..StackRoom : n # StackRoom => n < StackRoom
      BY <1>1
    <3>2. Len(s) < StackRoom
      BY <1>1, <1>8, <3>1, Zenon
    <3> QED
      BY <1>8, <3>2 DEF Unfolds, UnfoldedAt, Level
  <2>3. /\ FramesFit(calls') /\ Len(calls') = Len(s) + 1 /\ (\A n \in 1..Len(s) : calls'[n] = s[n])
        /\ calls'[Len(s) + 1] = [of |-> id, left |-> objects[id].refs]
    BY <1>3, <2>1, <2>2, FramePushed
  <2>4. Len(s) + 1 \in 1..Len(calls') /\ Len(calls') \in Nat /\ Len(calls') >= Len(s)
    BY <1>1, <2>3
  <2> QED
    BY <1>5, <1>8, <2>1, <2>2, <2>3, <2>4
<1> QED
  BY <1>4, <1>6, <1>7, <1>8

\* At the start nothing was printed.
LEMMA PrinterStart == PrinterInit => FramesInv /\ PrintedInv
<1> SUFFICES ASSUME PrinterInit PROVE FramesInv /\ PrintedInv
  OBVIOUS
<1>1. /\ objects \in Heaps /\ root \in DOMAIN objects /\ objects[root].kind \in {"object", "string"}
      /\ calls = <<>> /\ shown = {} /\ phase = "called"
  BY DEF PrinterInit
<1>2. FramesFit(<<>>)
  <2>1. <<>> \in Seq(Frame) /\ Len(<<>>) = 0 /\ StackRoom \in Nat
    BY EmptySeq, PrinterConstants
  <2> QED
    BY <2>1 DEF FramesFit
<1> QED
  BY <1>1, <1>2 DEF FramesInv, PrintedInv

\* Of a list, its first element was taken: the others are still to be visited.
LEMMA VisitTaken ==
  ASSUME NEW q \in Seq(Nat), q # <<>>
  PROVE  \A i \in DOMAIN q : \/ q[i] = Head(q)
                            \/ \E k \in DOMAIN Tail(q) : Tail(q)[k] = q[i]
<1>1. /\ Head(q) = q[1]
      /\ \A i \in DOMAIN q : i # 1 => i - 1 \in DOMAIN Tail(q) /\ Tail(q)[i - 1] = q[i]
  BY Popped
<1> QED
  BY <1>1

\* Without its last element, a sequence keeps the others.
LEMMA LastDropped ==
  ASSUME NEW S, NEW q \in Seq(S), q # <<>>
  PROVE  /\ SubSeq(q, 1, Len(q) - 1) \in Seq(S) /\ Len(SubSeq(q, 1, Len(q) - 1)) = Len(q) - 1
         /\ \A n \in 1..Len(q) - 1 : SubSeq(q, 1, Len(q) - 1)[n] = q[n]
<1>1. /\ Len(q) - 1 \in Nat /\ 1 \in Int /\ \A n \in 1..Len(q) - 1 : q[n] \in S
  BY EmptySeq
<1> DEFINE m == Len(q) - 1
<1>2. m \in Nat /\ \A n \in 1..m : q[n] \in S
  BY <1>1
<1> HIDE DEF m
<1>3. /\ SubSeq(q, 1, m) \in Seq(S)
      /\ Len(SubSeq(q, 1, m)) = IF 1 <= m THEN m - 1 + 1 ELSE 0
      /\ \A i \in 1..(m - 1 + 1) : SubSeq(q, 1, m)[i] = q[1 + i - 1]
  BY <1>1, <1>2, SubSeqProperties
<1>4. /\ Len(SubSeq(q, 1, m)) = m
      /\ \A i \in 1..m : SubSeq(q, 1, m)[i] = q[i]
  BY <1>2, <1>3
<1> QED
  BY <1>3, <1>4 DEF m

\* Every step keeps what the frames are and what was printed.
LEMMA PrinterStep ==
  ASSUME FramesInv, PrintedInv, [PrinterNext]_printerVars
  PROVE  FramesInv' /\ PrintedInv'
<1>1. FramesFit(calls) /\ objects \in Heaps
  BY DEF FramesInv
<1>2. CASE Call
  <2>1. /\ phase = "called" /\ objects' = objects /\ root' = root /\ PrintObject(root, <<>>)
        /\ calls = <<>> /\ root \in DOMAIN objects
    BY <1>2 DEF Call, FramesInv
  <2>2. Callee(<<>>, root) /\ FramesFit(<<>>) /\ Len(<<>>) = Len(calls) /\ Len(<<>>) = 0
    BY <1>1, <2>1, EmptySeq DEF Callee
  <2>3. PrintedBut({}, <<>>, root)
    BY <2>2 DEF PrintedBut
  <2> QED
    BY <2>1, <2>2, <2>3, PrintStep
<1>3. CASE PrintNext
  <2> DEFINE top == calls[Len(calls)]
  <2>1. /\ phase = "printing" /\ calls # <<>> /\ top.left # <<>> /\ objects' = objects /\ root' = root
    BY <1>3 DEF PrintNext, Round, Top, Last
  <2>2. PICK s : s = [calls EXCEPT ![Len(calls)].left = Tail(top.left)]
    OBVIOUS
  <2>3. /\ FramesFit(s) /\ Len(s) = Len(calls) /\ Len(calls) \in Nat \ {0} /\ s # <<>>
        /\ \A n \in 1..Len(calls) : s[n].of = calls[n].of
        /\ \A n \in 1..Len(calls) : n # Len(calls) => s[n] = calls[n]
        /\ s[Len(calls)].left = Tail(top.left)
        /\ top.left \in Seq(Nat)
        /\ \E j \in DOMAIN objects[top.of].refs : Head(top.left) = objects[top.of].refs[j]
    BY <1>1, <2>1, <2>2, FrameRound
  <2>4. PICK P : Printed(P)
    BY <2>1 DEF PrintedInv
  <2>5. ASSUME NEW level \in Nat, level + 1 \in 1..Len(calls), NEW i \in DOMAIN calls[level + 1].left
        PROVE  \/ calls[level + 1].left[i] = Head(top.left) /\ level + 1 = Len(s)
               \/ \E k \in DOMAIN s[level + 1].left : s[level + 1].left[k] = calls[level + 1].left[i]
    <3>1. CASE level + 1 # Len(calls)
      BY <2>3, <2>5, <3>1
    <3>2. CASE level + 1 = Len(calls)
      <4>1. calls[level + 1].left = top.left /\ s[level + 1].left = Tail(top.left)
        BY <2>3, <3>2
      <4>2. \A m \in DOMAIN top.left :
              \/ top.left[m] = Head(top.left)
              \/ \E k \in DOMAIN Tail(top.left) : Tail(top.left)[k] = top.left[m]
        BY <2>1, <2>3, VisitTaken
      <4> QED
        BY <2>3, <2>5, <3>2, <4>1, <4>2
    <3> QED
      BY <3>1, <3>2
  <2>6. PrintedBut(P, s, Head(top.left))
    <3>1. ASSUME NEW id, NEW level, <<id, level>> \in P, UnfoldedAt(id, level),
                 NEW r \in RefsOf(id)
          PROVE  \/ <<r, level + 1>> \in P
                 \/ r = Head(top.left) /\ level + 1 = Len(s)
                 \/ /\ level + 1 \in 1..Len(s) /\ s[level + 1].of = id
                    /\ \E i \in DOMAIN s[level + 1].left : s[level + 1].left[i] = r
      <4>1. /\ level \in Nat
            /\ \/ <<r, level + 1>> \in P
               \/ /\ level + 1 \in 1..Len(calls) /\ calls[level + 1].of = id
                  /\ \E i \in DOMAIN calls[level + 1].left : calls[level + 1].left[i] = r
        BY <2>4, <3>1 DEF Printed
      <4>2. CASE <<r, level + 1>> \in P
        BY <4>2
      <4>3. CASE level + 1 \in 1..Len(calls) /\ calls[level + 1].of = id
        <5>1. s[level + 1].of = id /\ level + 1 \in 1..Len(s)
          BY <2>3, <4>3
        <5>2. <<r, level + 1>> \in P \/ \E i \in DOMAIN calls[level + 1].left : calls[level + 1].left[i] = r
          BY <4>1
        <5>3. \A i \in DOMAIN calls[level + 1].left :
                \/ calls[level + 1].left[i] = Head(top.left) /\ level + 1 = Len(s)
                \/ \E k \in DOMAIN s[level + 1].left : s[level + 1].left[k] = calls[level + 1].left[i]
          BY <2>5, <4>1, <4>3
        <5> QED
          BY <5>1, <5>2, <5>3
      <4> QED
        BY <4>1, <4>2, <4>3
    <3> QED
      BY <2>4, <3>1 DEF Printed, PrintedBut
  <2>7. CASE Head(top.left) \in DOMAIN objects
    <3>1. PrintObject(Head(top.left), s)
      BY <1>3, <2>2, <2>7 DEF PrintNext, Round, Top, Last
    <3>2. Callee(s, Head(top.left))
      <4>1. Len(calls) \in 1..Len(calls)
        BY <2>3
      <4>2. s[Len(s)].of = top.of /\ top.of \in DOMAIN objects
        BY <1>1, <2>3, <4>1 DEF FramesFit, FrameFits
      <4>3. Head(top.left) \in RefsOf(top.of)
        BY <2>3, <2>7, <4>2 DEF RefsOf, ToSet
      <4> QED
        BY <2>3, <4>2, <4>3 DEF Callee
    <3>3. PICK id : id = Head(top.left)
      OBVIOUS
    <3> QED
      BY <2>1, <2>3, <2>6, <2>7, <3>1, <3>2, <3>3, PrintStep
  <2>8. CASE Head(top.left) \notin DOMAIN objects
    <3>1. calls' = s /\ phase' = phase /\ shown' = shown
      BY <1>3, <2>2, <2>8 DEF PrintNext, Round, Top, Last
    <3>2. FramesFit(calls)'
      BY <2>1, <2>3, <3>1, FitStays
    <3>3. FramesInv'
      BY <2>1, <3>1, <3>2, HeapStays DEF FramesInv
    <3>4. Printed(P)'
      <4>1. ASSUME NEW id, NEW level, <<id, level>> \in P, UnfoldedAt(id, level),
                   NEW r \in RefsOf(id)
            PROVE  \/ <<r, level + 1>> \in P
                   \/ /\ level + 1 \in 1..Len(s) /\ s[level + 1].of = id
                      /\ \E i \in DOMAIN s[level + 1].left : s[level + 1].left[i] = r
        <5>1. r # Head(top.left)
          BY <2>8 DEF RefsOf
        <5> QED
          BY <2>6, <4>1, <5>1 DEF PrintedBut
      <4> QED
        BY <2>1, <2>4, <3>1, <4>1, HeapStays DEF Printed
    <3> QED
      BY <3>3, <3>4 DEF PrintedInv
  <2> QED
    BY <2>7, <2>8
<1>4. CASE Return
  <2>1. /\ phase = "printing" /\ calls # <<>> /\ calls[Len(calls)].left = <<>>
        /\ calls' = SubSeq(calls, 1, Len(calls) - 1)
        /\ objects' = objects /\ root' = root /\ phase' = phase /\ shown' = shown
    BY <1>4 DEF Return, Top, Last, Front
  <2> DEFINE L == Len(calls)
  <2>2. /\ calls \in Seq(Frame) /\ L \in Nat \ {0} /\ L <= StackRoom /\ StackRoom \in Nat
    BY <1>1, <2>1, EmptySeq, PrinterConstants DEF FramesFit
  <2>3. /\ calls' \in Seq(Frame) /\ Len(calls') = L - 1 /\ \A n \in 1..L - 1 : calls'[n] = calls[n]
    BY <2>1, <2>2, LastDropped
  <2>4. FramesFit(calls')
    <3>1. \A n \in 1..L - 1 : n \in 1..L /\ FrameFits(calls', n)
      <4>1. ASSUME NEW n \in 1..L - 1 PROVE n \in 1..L /\ FrameFits(calls', n)
        <5>1. n \in 1..L /\ FrameFits(calls, n)
          BY <1>1, <2>2 DEF FramesFit
        <5> QED
          BY <2>3, <5>1 DEF FrameFits
      <4> QED
        BY <4>1
    <3>2. \A n \in 1..(L - 1) - 1 : calls'[n + 1].of \in RefsOf(calls'[n].of)
      <4>1. \A n \in 1..(L - 1) - 1 : n \in 1..L - 1 /\ n + 1 \in 1..L - 1
        BY <2>2
      <4> QED
        BY <1>1, <2>3, <4>1 DEF FramesFit
    <3>3. L - 1 <= StackRoom
      BY <2>2
    <3> QED
      BY <2>3, <3>1, <3>2, <3>3 DEF FramesFit
  <2>5. FramesFit(calls)'
    BY <2>1, <2>4, FitStays
  <2>6. FramesInv'
    BY <2>1, <2>5, HeapStays DEF FramesInv
  <2>7. PICK P : Printed(P)
    BY <2>1 DEF PrintedInv
  <2>8. ASSUME NEW id, NEW level, <<id, level>> \in P, UnfoldedAt(id, level),
               NEW r \in RefsOf(id)
        PROVE  \/ <<r, level + 1>> \in P
               \/ /\ level + 1 \in 1..Len(calls') /\ calls'[level + 1].of = id
                  /\ \E i \in DOMAIN calls'[level + 1].left : calls'[level + 1].left[i] = r
    <3>1. /\ level \in Nat
          /\ \/ <<r, level + 1>> \in P
             \/ /\ level + 1 \in 1..L /\ calls[level + 1].of = id
                /\ \E i \in DOMAIN calls[level + 1].left : calls[level + 1].left[i] = r
      BY <2>7, <2>8 DEF Printed
    <3>2. DOMAIN calls[L].left = {}
      BY <2>1
    <3>3. level + 1 = L => <<r, level + 1>> \in P
      BY <3>1, <3>2
    <3>4. level + 1 \in 1..L /\ level + 1 # L => level + 1 \in 1..L - 1
      BY <2>2, <3>1
    <3> QED
      BY <2>3, <3>1, <3>3, <3>4
  <2>9. Printed(P)'
    BY <2>1, <2>7, <2>8, HeapStays DEF Printed
  <2> QED
    BY <2>6, <2>9 DEF PrintedInv
<1>5. CASE FinishPrinting
  <2>1. /\ phase = "printing" /\ calls = <<>> /\ phase' = "done"
        /\ objects' = objects /\ root' = root /\ calls' = calls /\ shown' = shown
    BY <1>5 DEF FinishPrinting
  <2>2. FramesFit(calls)'
    BY <1>1, <2>1, FitStays
  <2>3. PICK P : Printed(P)
    BY <2>1 DEF PrintedInv
  <2>4. Printed(P)'
    BY <2>1, <2>3, HeapStays DEF Printed
  <2> QED
    BY <2>1, <2>2, <2>4, HeapStays DEF FramesInv, PrintedInv
<1>6. CASE UNCHANGED printerVars
  <2>1. objects' = objects /\ root' = root /\ calls' = calls /\ shown' = shown /\ phase' = phase
    BY <1>6 DEF printerVars
  <2>2. FramesFit(calls)'
    BY <1>1, <2>1, FitStays
  <2>3. \A P : Printed(P) => Printed(P)'
    BY <2>1, HeapStays DEF Printed
  <2> QED
    BY <2>1, <2>2, <2>3, HeapStays DEF FramesInv, PrintedInv
<1> QED
  BY <1>2, <1>3, <1>4, <1>5, <1>6 DEF PrinterNext

\* For every heap and object, whatever the room of the stack, if only it is larger than
\* max_level and the number of objects together: a stack that overflows has met an array
\* within itself, and printing that ended has shown what is reached, and no object without
\* a class was.
THEOREM PrintingCorrect ==
  PrinterSpec => []ShownExactly
<1>1. FramesInv /\ PrintedInv => ShownExactly
  <2> SUFFICES ASSUME FramesInv, PrintedInv PROVE ShownExactly
    OBVIOUS
  <2>1. phase = "overflow" => \E id \in All : ArrayCycle(id)
    BY DEF FramesInv
  <2>2. ASSUME phase = "done"
        PROVE  shown = All /\ \A id \in All : objects[id].kind # "classless"
    <3>1. PICK P : Printed(P)
      BY <2>2 DEF PrintedInv
    <3>2. shown \subseteq All
      BY DEF FramesInv
    <3> QED
      BY <2>2, <3>1, <3>2, PrintedAll
  <2> QED
    BY <2>1, <2>2 DEF ShownExactly
<1> QED
  BY <1>1, PrinterStart, PrinterStep, PTL DEF PrinterSpec

-------------------------------------------------------------------------------
(* What a query selects: HeapQuery. *)

\* The constants of HeapQuery.
LEMMA QueryConstants ==
  /\ \A q \in Questions : IsHeap(q.heap) /\ IsFilter(q.filter)
  /\ Dot \in Chars /\ Upper \in [Chars -> Chars]
  /\ StringName \in Seq(Chars) /\ StringName # <<>> /\ StringName[Len(StringName)] # Dot
BY QuestionsAssumption, CharsAssumption, StringAssumption

\* The objects of the heap.
Objects == {heap.objects[id] : id \in DOMAIN heap.objects}

\* The first field of a name is the one that is found.
LEMMA FirstIs ==
  ASSUME IsHeap(heap), NEW item \in Objects \cup {Missing}, NEW name, NEW field
  PROVE  /\ First(item, name, field) <=> /\ field = FieldOf(item, name)
                                         /\ field # NoField
         /\ First(item, name, field) => field \in AllFields
<1> DEFINE Named == IF HasFields(item)
                    THEN {i \in DOMAIN item.fields : item.fields[i].name = name} ELSE {}
<1>1. CASE ~HasFields(item)
  BY <1>1 DEF First, FieldOf, NoField
<1>2. CASE HasFields(item)
  <2>1. /\ item \in Objects /\ Len(item.fields) \in Nat /\ DOMAIN item.fields = 1..Len(item.fields)
        /\ \A i \in DOMAIN item.fields : item.fields[i].type # "none"
    BY <1>2 DEF IsHeap, Objects, Missing, HasFields, IsField, NumericField,
                Integral, Floating
  <2>2. First(item, name, field) => field \in AllFields
    BY <1>2, <2>1 DEF First, AllFields, Objects
  <2>3. Named = {i \in DOMAIN item.fields : item.fields[i].name = name}
    BY <1>2
  <2>4. ASSUME First(item, name, field)
        PROVE  field = FieldOf(item, name) /\ field # NoField
    <3>1. PICK i \in DOMAIN item.fields : /\ field = item.fields[i] /\ field.name = name
                                          /\ \A j \in 1..i - 1 : item.fields[j].name # name
      BY <2>4 DEF First
    <3>2. i \in Named /\ \A j \in Named : i <= j
      BY <2>1, <2>3, <3>1
    <3>3. \A k \in Named : (\A j \in Named : k <= j) => k = i
      BY <2>1, <2>3, <3>2
    <3>4. (CHOOSE k \in Named : \A j \in Named : k <= j) = i
      <4> HIDE DEF Named
      <4> QED
        BY <3>2, <3>3
    <3>5. FieldOf(item, name) = item.fields[i]
      BY <3>2, <3>4 DEF FieldOf
    <3> QED
      BY <2>1, <3>1, <3>5 DEF NoField
  <2>5. ASSUME field = FieldOf(item, name), field # NoField
        PROVE  First(item, name, field)
    <3>1. Named # {}
      BY <2>5 DEF FieldOf
    <3>2. Named \in SUBSET Nat
      BY <2>1, <2>3
    <3>3. \E k \in Named : \A j \in Named : k <= j
      <4> HIDE DEF Named
      <4> QED
        BY <3>1, <3>2, LeastNumber
    <3>4. PICK k \in Named : /\ \A j \in Named : k <= j
                             /\ k = CHOOSE i \in Named : \A j \in Named : i <= j
      <4> HIDE DEF Named
      <4> QED
        BY <3>3
    <3>5. field = item.fields[k]
      BY <2>5, <3>1, <3>4 DEF FieldOf
    <3>6. \A j \in 1..k - 1 : item.fields[j].name # name
      BY <2>1, <2>3, <3>4
    <3> QED
      BY <1>2, <2>3, <3>4, <3>5, <3>6 DEF First
  <2> QED
    BY <2>2, <2>4, <2>5
<1> QED
  BY <1>1, <1>2

\* What a field leads to.
Led(field) == IF field.type = "object" THEN Find(heap, field.value) ELSE Missing

\* The objects along a path, from the item on, and the field that is fetched.
LEMMA AlongIs ==
  ASSUME NEW item, NEW path \in Seq(STRING), path # <<>>
  PROVE  \E along : /\ along[0] = item
                    /\ \A n \in 1..Len(path) - 1 :
                         along[n] = Led(FieldOf(along[n - 1], path[n]))
                    /\ Fetch(heap, item, path) =
                         FieldOf(along[Len(path) - 1], path[Len(path)])
<1> DEFINE N == Len(path) - 1
<1> DEFINE A == {item, Missing} \cup Objects
<1> DEFINE On(n, i) == Led(FieldOf(i, path[n]))
<1> DEFINE step == [p \in (1..N) \X A |-> On(p[1], p[2])]
<1>1. N \in Nat
  BY EmptySeq
<1>2. step \in [(1..N) \X A -> A]
  <2>1. \A n, i : On(n, i) \in A
    BY DEF Led, Find, Objects
  <2> HIDE DEF On, A
  <2> QED
    BY <2>1
<1> HIDE DEF N
<1>3. PICK f \in [0..N -> A] : f[0] = item /\ \A n \in 1..N : f[n] = step[<<n, f[n - 1]>>]
  <2> HIDE DEF step
  <2>1. item \in A
    OBVIOUS
  <2> HIDE DEF A
  <2>2. Defines(N, A, item, step)
    BY <1>1, <1>2, <2>1, RecursionExists
  <2> QED
    BY <2>2 DEF Defines
<1>4. \A n \in 1..N : f[n] = On(n, f[n - 1])
  <2> SUFFICES ASSUME NEW n \in 1..N PROVE f[n] = On(n, f[n - 1])
    OBVIOUS
  <2>1. n - 1 \in 0..N
    BY <1>1
  <2> HIDE DEF A
  <2>2. <<n, f[n - 1]>> \in (1..N) \X A
    BY <2>1
  <2> HIDE DEF On
  <2>3. step[<<n, f[n - 1]>>] = On(n, f[n - 1])
    BY <2>2
  <2> QED
    BY <1>3, <2>3
<1>5. f = [n \in 0..N |-> IF n = 0 THEN item ELSE On(n, f[n - 1])]
  <2>1. \A n \in 0..N : n # 0 => n \in 1..N
    BY <1>1
  <2> HIDE DEF A, On, step
  <2> QED
    BY <1>3, <1>4, <2>1
<1> DEFINE met == CHOOSE met : met = [n \in 0..N |-> IF n = 0 THEN item ELSE On(n, met[n - 1])]
<1>6. met = [n \in 0..N |-> IF n = 0 THEN item ELSE On(n, met[n - 1])]
  <2> HIDE DEF A, On, step
  <2> QED
    BY <1>5
<1>7. Fetch(heap, item, path) = FieldOf(met[N], path[Len(path)])
  BY DEF Fetch, Led, N
<1> HIDE DEF met
<1>8. met[0] = item
  BY <1>1, <1>6
<1>9. ASSUME NEW n \in 1..N PROVE met[n] = On(n, met[n - 1])
  <2>1. n \in 0..N /\ n # 0
    BY <1>1
  <2> HIDE DEF On
  <2> QED
    BY <1>6, <2>1
<1> QED
  BY <1>7, <1>8, <1>9 DEF N

\* One step of a way along a path.
Steps(way, i, path) ==
  \E f \in AllFields : /\ First(heap.objects[way[i]], path[i], f)
                       /\ f.type = "object" /\ f.value = way[i + 1]

\* Along a path there is one way, to the field that is fetched, or none.
LEMMA FetchIs ==
  ASSUME IsHeap(heap), NEW id \in DOMAIN heap.objects,
         NEW path \in Seq(STRING), path # <<>>, NEW field
  PROVE  /\ Leads(id, path, field) <=> /\ field = Fetch(heap, heap.objects[id], path)
                                       /\ field # NoField
         /\ Leads(id, path, field) => field \in AllFields
<1> DEFINE D == DOMAIN heap.objects
<1> DEFINE L == Len(path)
<1>1. L \in Nat \ {0} /\ L \in 1..L /\ 1 \in 1..L
  BY EmptySeq
<1>2. PICK along : /\ along[0] = heap.objects[id]
                   /\ \A n \in 1..L - 1 : along[n] = Led(FieldOf(along[n - 1], path[n]))
                   /\ Fetch(heap, heap.objects[id], path) = FieldOf(along[L - 1], path[L])
  BY AlongIs
<1> HIDE DEF L
<1>3. \A i \in D : heap.objects[i] \in Objects /\ heap.objects[i] # Missing
  BY DEF Objects, IsHeap, Missing
<1>4. \A i \in D : \A name, f : First(heap.objects[i], name, f) <=>
                              f = FieldOf(heap.objects[i], name) /\ f # NoField
  BY <1>3, FirstIs
<1>5. \A i \in D : \A name, f : First(heap.objects[i], name, f) => f \in AllFields
  BY <1>3, FirstIs
<1>6. \A name : FieldOf(Missing, name) = NoField
  BY DEF FieldOf, Missing, HasFields
<1>7. ASSUME NEW way \in [1..L -> D], way[1] = id, \A i \in 1..L - 1 : Steps(way, i, path)
      PROVE  heap.objects[way[L]] = along[L - 1]
  <2> DEFINE S == {n \in 0..L - 1 : heap.objects[way[n + 1]] = along[n]}
  <2>1. 0 \in S
    BY <1>1, <1>2, <1>7
  <2>2. ASSUME NEW n \in 0..(L - 1) - 1, n \in S PROVE n + 1 \in S
    <3>1. /\ n + 1 \in 1..L - 1 /\ n + 1 \in 1..L /\ n + 1 \in 0..L - 1 /\ (n + 1) + 1 \in 1..L
          /\ (n + 1) - 1 = n
      BY <1>1
    <3>2. way[n + 1] \in D /\ way[(n + 1) + 1] \in D
      BY <3>1
    <3>3. PICK f \in AllFields : /\ First(heap.objects[way[n + 1]], path[n + 1], f)
                                 /\ f.type = "object" /\ f.value = way[(n + 1) + 1]
      BY <1>7, <3>1 DEF Steps
    <3>4. f = FieldOf(along[n], path[n + 1])
      <4>1. f = FieldOf(heap.objects[way[n + 1]], path[n + 1])
        <5>1. First(heap.objects[way[n + 1]], path[n + 1], f)
          BY <3>3
        <5> QED
          BY <1>4, <3>2, <5>1
      <4>2. heap.objects[way[n + 1]] = along[n]
        BY <2>2
      <4> QED
        BY <4>1, <4>2
    <3>5. along[n + 1] = Led(f)
      BY <1>2, <3>1, <3>4
    <3>6. Led(f) = heap.objects[way[(n + 1) + 1]]
      BY <3>2, <3>3 DEF Led, Find
    <3> QED
      BY <3>1, <3>5, <3>6
  <2>3. L - 1 \in S
    <3> HIDE DEF S
    <3>1. L - 1 \in Nat /\ L - 1 \in 0..L - 1
      BY <1>1
    <3> QED
      BY <2>1, <2>2, <3>1, InductionTo
  <2> QED
    BY <1>1, <2>3
<1> DEFINE Walked(n) == \E way \in [1..n + 1 -> D] :
                          /\ way[1] = id /\ heap.objects[way[n + 1]] = along[n]
                          /\ \A i \in 1..n : Steps(way, i, path)
<1>8. along[L - 1] # Missing => Walked(L - 1)
  <2> DEFINE S == {n \in 0..L - 1 : along[n] # Missing => Walked(n)}
  <2>1. 0 \in S
    <3> DEFINE way == [i \in 1..0 + 1 |-> id]
    <3>1. way \in [1..0 + 1 -> D] /\ way[1] = id /\ way[0 + 1] = id
      OBVIOUS
    <3> HIDE DEF way
    <3>2. Walked(0)
      BY <1>2, <3>1
    <3> HIDE DEF Walked
    <3> QED
      BY <1>1, <3>2
  <2>2. ASSUME NEW n \in 0..(L - 1) - 1, n \in S PROVE n + 1 \in S
    <3> SUFFICES ASSUME along[n + 1] # Missing PROVE Walked(n + 1)
      <4> HIDE DEF Walked
      <4> QED
        BY <1>1
    <3>1. n + 1 \in 1..L - 1 /\ (n + 1) - 1 = n /\ n \in Nat
      BY <1>1
    <3> DEFINE f == FieldOf(along[n], path[n + 1])
    <3>2. along[n + 1] = Led(f)
      BY <1>2, <3>1
    <3>3. f.type = "object" /\ f.value \in D /\ along[n + 1] = heap.objects[f.value]
      BY <3>2 DEF Led, Find
    <3>4. f # NoField
      BY <3>3 DEF NoField
    <3>5. along[n] # Missing
      BY <1>6, <3>4
    <3>6. Walked(n)
      <4> HIDE DEF Walked
      <4> QED
        BY <2>2, <3>5
    <3>7. PICK way \in [1..n + 1 -> D] : /\ way[1] = id /\ heap.objects[way[n + 1]] = along[n]
                                         /\ \A i \in 1..n : Steps(way, i, path)
      BY <3>6
    <3> HIDE DEF f
    <3> DEFINE on == [i \in 1..(n + 1) + 1 |-> IF i = (n + 1) + 1 THEN f.value ELSE way[i]]
    <3>8. /\ on \in [1..(n + 1) + 1 -> D] /\ on[(n + 1) + 1] = f.value
          /\ \A i \in 1..n + 1 : on[i] = way[i]
      <4>1. \A i \in 1..(n + 1) + 1 : i # (n + 1) + 1 => i \in 1..n + 1
        BY <3>1
      <4>2. \A i \in 1..n + 1 : i \in 1..(n + 1) + 1 /\ i # (n + 1) + 1
        BY <3>1
      <4>3. (n + 1) + 1 \in 1..(n + 1) + 1
        BY <3>1
      <4> QED
        BY <3>3, <4>1, <4>2, <4>3
    <3> HIDE DEF on
    <3>9. ASSUME NEW i \in 1..n + 1 PROVE Steps(on, i, path)
      <4>1. CASE i = n + 1
        <5>1. way[n + 1] \in D /\ n + 1 \in 1..n + 1
          BY <3>1
        <5>2. f = FieldOf(heap.objects[way[n + 1]], path[n + 1])
          BY <3>7 DEF f
        <5>3. /\ First(heap.objects[way[n + 1]], path[n + 1], f)
              /\ f \in AllFields
          BY <1>4, <1>5, <3>4, <5>1, <5>2
        <5> QED
          BY <3>3, <3>8, <4>1, <5>1, <5>3 DEF Steps
      <4>2. CASE i # n + 1
        <5>1. i \in 1..n /\ i \in 1..n + 1 /\ i + 1 \in 1..n + 1
          BY <3>1, <4>2
        <5> QED
          BY <3>7, <3>8, <5>1 DEF Steps
      <4> QED
        BY <4>1, <4>2
    <3>10. on[1] = id /\ heap.objects[on[(n + 1) + 1]] = along[n + 1]
      <4>1. 1 \in 1..n + 1
        BY <3>1
      <4> QED
        BY <3>3, <3>7, <3>8, <4>1
    <3> QED
      BY <3>8, <3>9, <3>10
  <2>3. L - 1 \in S
    <3> HIDE DEF S
    <3>1. L - 1 \in Nat /\ L - 1 \in 0..L - 1
      BY <1>1
    <3> QED
      BY <2>1, <2>2, <3>1, InductionTo
  <2> HIDE DEF Walked
  <2> QED
    BY <2>3
<1>9. ASSUME Leads(id, path, field)
      PROVE  /\ field = Fetch(heap, heap.objects[id], path) /\ field # NoField
             /\ field \in AllFields
  <2>1. PICK way \in [1..L -> D] :
               /\ way[1] = id
               /\ \A i \in 1..L - 1 : Steps(way, i, path)
               /\ First(heap.objects[way[L]], path[L], field)
    BY <1>9 DEF Leads, Steps, L
  <2>2. way[L] \in D /\ heap.objects[way[L]] = along[L - 1]
    BY <1>1, <1>7, <2>1
  <2>3. field = FieldOf(heap.objects[way[L]], path[L]) /\ field # NoField
    BY <1>4, <2>1, <2>2
  <2>4. field \in AllFields
    BY <1>5, <2>1, <2>2
  <2> QED
    BY <1>2, <2>2, <2>3, <2>4
<1>10. ASSUME field = Fetch(heap, heap.objects[id], path), field # NoField
       PROVE  Leads(id, path, field)
  <2>1. along[L - 1] # Missing
    BY <1>2, <1>6, <1>10
  <2>2. Walked(L - 1) /\ (L - 1) + 1 = L
    <3> HIDE DEF Walked
    <3> QED
      BY <1>1, <1>8, <2>1
  <2>3. PICK way \in [1..L -> D] : /\ way[1] = id /\ heap.objects[way[L]] = along[L - 1]
                                   /\ \A i \in 1..L - 1 : Steps(way, i, path)
    BY <2>2
  <2>4. First(heap.objects[way[L]], path[L], field)
    <3>1. way[L] \in D /\ field = FieldOf(heap.objects[way[L]], path[L])
      BY <1>1, <1>2, <1>10, <2>3
    <3> QED
      BY <1>4, <1>10, <3>1
  <2> QED
    BY <2>3, <2>4 DEF Leads, Steps, L
<1> QED
  BY <1>9, <1>10

\* A heap has finitely many classes.
LEMMA ClassesCounted ==
  ASSUME IsHeap(heap)
  PROVE  Cardinality(DOMAIN heap.classes) \in Nat
BY FS_CardinalityType DEF IsHeap

\* The classes above one, in up to n steps.
LEMMA ChainIs ==
  ASSUME IsHeap(heap), NEW item, NEW name
  PROVE  \E chain : /\ chain[0] = {item.class} \cap DOMAIN heap.classes
                    /\ \A n \in 1..Cardinality(DOMAIN heap.classes) :
                         chain[n] = chain[n - 1] \cup ({heap.classes[c].super : c \in chain[n - 1]}
                                                       \cap DOMAIN heap.classes)
                    /\ InstanceOf(heap, item, name) <=>
                         /\ HasFields(item)
                         /\ \E c \in chain[Cardinality(DOMAIN heap.classes)] :
                              heap.classes[c].name = name
<1> DEFINE C == DOMAIN heap.classes
<1> DEFINE N == Cardinality(C)
<1> DEFINE A == SUBSET C
<1> DEFINE a == {item.class} \cap C
<1> DEFINE Up(s) == s \cup ({heap.classes[c].super : c \in s} \cap C)
<1> DEFINE step == [p \in (1..N) \X A |-> Up(p[2])]
<1>1. N \in Nat
  BY ClassesCounted
<1>2. step \in [(1..N) \X A -> A]
  OBVIOUS
<1>3. PICK f \in [0..N -> A] : f[0] = a /\ \A n \in 1..N : f[n] = step[<<n, f[n - 1]>>]
  <2> HIDE DEF step, N
  <2>1. a \in A
    OBVIOUS
  <2> HIDE DEF A, a
  <2>2. Defines(N, A, a, step)
    BY <1>1, <1>2, <2>1, RecursionExists
  <2> QED
    BY <2>2 DEF Defines
<1> HIDE DEF N
<1>4. \A n \in 1..N : f[n] = Up(f[n - 1])
  <2> SUFFICES ASSUME NEW n \in 1..N PROVE f[n] = Up(f[n - 1])
    OBVIOUS
  <2>1. n - 1 \in 0..N
    BY <1>1
  <2> HIDE DEF A
  <2>2. <<n, f[n - 1]>> \in (1..N) \X A
    BY <2>1
  <2> HIDE DEF Up
  <2>3. step[<<n, f[n - 1]>>] = Up(f[n - 1])
    BY <2>2
  <2> QED
    BY <1>3, <2>3
<1>5. f = [n \in 0..N |-> IF n = 0 THEN a ELSE Up(f[n - 1])]
  <2>1. \A n \in 0..N : n # 0 => n \in 1..N
    BY <1>1
  <2> HIDE DEF A, Up, step, a
  <2> QED
    BY <1>3, <1>4, <2>1
<1> DEFINE met == CHOOSE met : met = [n \in 0..N |-> IF n = 0 THEN a ELSE Up(met[n - 1])]
<1>6. met = [n \in 0..N |-> IF n = 0 THEN a ELSE Up(met[n - 1])]
  <2> HIDE DEF A, Up, step, a
  <2> QED
    BY <1>5
<1>7. InstanceOf(heap, item, name) <=>
        HasFields(item) /\ \E c \in met[N] : heap.classes[c].name = name
  BY DEF InstanceOf, N
<1> HIDE DEF met
<1>8. met[0] = a
  BY <1>1, <1>6
<1>9. ASSUME NEW n \in 1..N PROVE met[n] = Up(met[n - 1])
  <2>1. n \in 0..N /\ n # 0
    BY <1>1
  <2> HIDE DEF Up, a
  <2> QED
    BY <1>6, <2>1
<1> QED
  BY <1>7, <1>8, <1>9 DEF N

\* A way up from a class to another, in n steps.
GoesUp(class, n, c) ==
  \E up \in [0..n -> DOMAIN heap.classes] :
    /\ up[0] = class /\ up[n] = c
    /\ \A i \in 1..n : up[i] = heap.classes[up[i - 1]].super

\* An item is an instance of what there is a way up to.
LEMMA InstanceIs ==
  ASSUME IsHeap(heap), NEW item, NEW name
  PROVE  InstanceOf(heap, item, name) <=>
           HasFields(item) /\ Below(item.class, name)
<1> DEFINE C == DOMAIN heap.classes
<1> DEFINE N == Cardinality(C)
<1>1. N \in Nat
  BY ClassesCounted
<1>2. PICK chain : /\ chain[0] = {item.class} \cap C
                   /\ \A n \in 1..N : chain[n] = chain[n - 1] \cup ({heap.classes[c].super : c \in chain[n - 1]} \cap C)
                   /\ InstanceOf(heap, item, name) <=>
                        HasFields(item) /\ \E c \in chain[N] : heap.classes[c].name = name
  BY ChainIs
<1>3. Below(item.class, name) <=>
        \E n \in 0..N : \E c : GoesUp(item.class, n, c) /\ heap.classes[c].name = name
  BY DEF Below, GoesUp
<1> HIDE DEF N
<1> DEFINE UpTo(n) == \A c : c \in chain[n] <=> \E m \in 0..n : GoesUp(item.class, m, c)
<1> DEFINE S == {n \in 0..N : UpTo(n)}
<1>4. 0 \in S
  <2>1. ASSUME NEW c, c \in chain[0] PROVE GoesUp(item.class, 0, c)
    <3> DEFINE up == [i \in 0..0 |-> c]
    <3>1. up \in [0..0 -> C] /\ up[0] = c /\ c = item.class
      BY <1>2, <2>1
    <3> HIDE DEF up
    <3> QED
      BY <3>1 DEF GoesUp
  <2>2. ASSUME NEW c, GoesUp(item.class, 0, c) PROVE c \in chain[0]
    BY <1>2, <2>2 DEF GoesUp
  <2>3. \A m \in 0..0 : m = 0
    OBVIOUS
  <2> QED
    BY <1>1, <2>1, <2>2, <2>3
<1>5. ASSUME NEW n \in 0..N - 1, n \in S PROVE n + 1 \in S
  <2>1. n + 1 \in 1..N /\ (n + 1) - 1 = n /\ n \in 0..N /\ n + 1 \in 0..N /\ n \in Nat
    BY <1>1
  <2>2. chain[n + 1] = chain[n] \cup ({heap.classes[c].super : c \in chain[n]} \cap C)
    BY <1>2, <2>1
  <2>3. UpTo(n)
    BY <1>5
  <2>4. ASSUME NEW c, c \in chain[n + 1] PROVE \E m \in 0..n + 1 : GoesUp(item.class, m, c)
    <3>1. CASE c \in chain[n]
      BY <2>1, <2>3, <3>1
    <3>2. CASE c \notin chain[n]
      <4>1. PICK d \in chain[n] : c = heap.classes[d].super /\ c \in C
        BY <2>2, <2>4, <3>2
      <4>2. PICK m \in 0..n : GoesUp(item.class, m, d)
        BY <2>3
      <4>3. PICK up \in [0..m -> C] : /\ up[0] = item.class /\ up[m] = d
                                      /\ \A i \in 1..m : up[i] = heap.classes[up[i - 1]].super
        BY <4>2 DEF GoesUp
      <4> DEFINE on == [i \in 0..m + 1 |-> IF i = m + 1 THEN c ELSE up[i]]
      <4>4. on \in [0..m + 1 -> C] /\ on[m + 1] = c /\ \A i \in 0..m : on[i] = up[i]
        <5>1. m \in Nat /\ m + 1 \in 0..m + 1
          BY <2>1
        <5>2. \A i \in 0..m + 1 : i # m + 1 => i \in 0..m
          BY <5>1
        <5>3. \A i \in 0..m : i \in 0..m + 1 /\ i # m + 1
          BY <5>1
        <5> QED
          BY <4>1, <5>1, <5>2, <5>3
      <4> HIDE DEF on
      <4>5. ASSUME NEW i \in 1..m + 1 PROVE on[i] = heap.classes[on[i - 1]].super
        <5>1. m \in Nat /\ i - 1 \in 0..m
          BY <2>1
        <5>2. CASE i = m + 1
          <6>1. i - 1 = m /\ m \in 0..m
            BY <5>1, <5>2
          <6> QED
            BY <4>1, <4>3, <4>4, <5>2, <6>1
        <5>3. CASE i # m + 1
          <6>1. i \in 1..m /\ i \in 0..m
            BY <5>1, <5>3
          <6> QED
            BY <4>3, <4>4, <5>1, <6>1
        <5> QED
          BY <5>2, <5>3
      <4>6. on[0] = item.class /\ m + 1 \in 0..n + 1
        BY <2>1, <4>3, <4>4
      <4>7. GoesUp(item.class, m + 1, c)
        BY <4>4, <4>5, <4>6 DEF GoesUp
      <4> QED
        BY <4>6, <4>7
    <3> QED
      BY <3>1, <3>2
  <2>5. ASSUME NEW c, NEW m \in 0..n + 1, GoesUp(item.class, m, c) PROVE c \in chain[n + 1]
    <3>1. CASE m \in 0..n
      BY <2>2, <2>3, <2>5, <3>1
    <3>2. CASE m = n + 1
      <4>1. PICK up \in [0..n + 1 -> C] :
                   /\ up[0] = item.class /\ up[n + 1] = c
                   /\ \A i \in 1..n + 1 : up[i] = heap.classes[up[i - 1]].super
        BY <2>5, <3>2 DEF GoesUp
      <4> DEFINE down == [i \in 0..n |-> up[i]]
      <4>2. \A i \in 0..n : i \in 0..n + 1 /\ down[i] = up[i]
        BY <2>1
      <4>3. down \in [0..n -> C]
        BY <4>2
      <4> HIDE DEF down
      <4>4. ASSUME NEW i \in 1..n PROVE down[i] = heap.classes[down[i - 1]].super
        <5>1. i \in 1..n + 1 /\ i \in 0..n /\ i - 1 \in 0..n
          BY <2>1
        <5> QED
          BY <4>1, <4>2, <5>1
      <4>5. 0 \in 0..n /\ n \in 0..n /\ n + 1 \in 1..n + 1 /\ n + 1 \in 0..n + 1
        BY <2>1
      <4>6. GoesUp(item.class, n, down[n])
        BY <4>1, <4>2, <4>3, <4>4, <4>5 DEF GoesUp
      <4>7. down[n] \in chain[n] /\ c \in C /\ c = heap.classes[down[n]].super
        BY <2>1, <2>3, <4>1, <4>2, <4>5, <4>6
      <4> QED
        BY <2>2, <4>7
    <3> QED
      BY <2>1, <3>1, <3>2
  <2> QED
    BY <2>1, <2>4, <2>5
<1>6. UpTo(N)
  <2> HIDE DEF S
  <2>1. N \in S
    BY <1>1, <1>4, <1>5, InductionTo
  <2> QED
    BY <2>1 DEF S
<1> QED
  BY <1>2, <1>3, <1>6

\* What is not in the heap is an instance of nothing.
LEMMA IsAIs ==
  ASSUME IsHeap(heap), NEW id, NEW name
  PROVE  /\ IsA(id, name) <=> InstanceOf(heap, Find(heap, id), name)
<1>1. CASE id \in DOMAIN heap.objects
  BY <1>1, InstanceIs DEF IsA, Find
<1>2. CASE id \notin DOMAIN heap.objects
  BY <1>2 DEF IsA, Find, InstanceOf, Missing, HasFields
<1> QED
  BY <1>1, <1>2

\* The answers of a filter, node by node.
LEMMA AnswersAre ==
  ASSUME NEW f, IsFilter(f), NEW item
  PROVE  \E answers : /\ answers[0] = <<>>
                      /\ \A n \in 0..Len(f) : answers[n] \in Seq(Results)
                      /\ \A n \in 1..Len(f) :
                           answers[n] = Append(answers[n - 1], Answer(heap, item, f[n], answers[n - 1]))
                      /\ Apply(heap, f, item) = answers[Len(f)][Len(f)]
<1> DEFINE N == Len(f)
<1> DEFINE A == Seq(Results)
<1> DEFINE On(n, s) == Append(s, Answer(heap, item, f[n], s))
<1> DEFINE step == [p \in (1..N) \X A |-> On(p[1], p[2])]
<1>1. N \in Nat /\ DOMAIN f = 1..N
  BY DEF IsFilter
<1>2. \A n \in 1..N, s \in A : On(n, s) \in A
  <2> SUFFICES ASSUME NEW n \in 1..N, NEW s \in A PROVE Answer(heap, item, f[n], s) \in Results
    BY AppendProperties
  <2>1. f[n].op \in {"and", "or", "instanceof", "compare", "classname"}
    BY <1>1 DEF IsFilter
  <2>2. \A p, q : And(p, q) \in Results /\ Or(p, q) \in Results
    BY DEF And, Or, Results
  <2>3. \A b : IfMatch(b) \in Results
    BY DEF IfMatch, Results
  <2> QED
    BY <2>1, <2>2, <2>3 DEF Answer
<1>3. step \in [(1..N) \X A -> A]
  <2> HIDE DEF On, A
  <2> QED
    BY <1>2
<1> HIDE DEF N
<1>4. PICK g \in [0..N -> A] : g[0] = <<>> /\ \A n \in 1..N : g[n] = step[<<n, g[n - 1]>>]
  <2> HIDE DEF step
  <2>1. <<>> \in A
    OBVIOUS
  <2> HIDE DEF A
  <2>2. Defines(N, A, <<>>, step)
    BY <1>1, <1>3, <2>1, RecursionExists
  <2> QED
    BY <2>2 DEF Defines
<1>5. \A n \in 1..N : g[n] = On(n, g[n - 1])
  <2> SUFFICES ASSUME NEW n \in 1..N PROVE g[n] = On(n, g[n - 1])
    OBVIOUS
  <2>1. n - 1 \in 0..N
    BY <1>1
  <2> HIDE DEF A
  <2>2. <<n, g[n - 1]>> \in (1..N) \X A
    BY <2>1
  <2> HIDE DEF On
  <2>3. step[<<n, g[n - 1]>>] = On(n, g[n - 1])
    BY <2>2
  <2> QED
    BY <1>4, <2>3
<1>6. g = [n \in 0..N |-> IF n = 0 THEN <<>> ELSE On(n, g[n - 1])]
  <2>1. \A n \in 0..N : n # 0 => n \in 1..N
    BY <1>1
  <2> HIDE DEF A, On, step
  <2> QED
    BY <1>4, <1>5, <2>1
<1> DEFINE met == CHOOSE met : met = [n \in 0..N |-> IF n = 0 THEN <<>> ELSE On(n, met[n - 1])]
<1>7. met = [n \in 0..N |-> IF n = 0 THEN <<>> ELSE On(n, met[n - 1])]
  <2> HIDE DEF A, On, step
  <2> QED
    BY <1>6
<1>8. Apply(heap, f, item) = met[N][N]
  BY DEF Apply, N
<1> HIDE DEF met
<1>9. met[0] = <<>>
  BY <1>1, <1>7
<1>10. ASSUME NEW n \in 1..N PROVE met[n] = On(n, met[n - 1])
  <2>1. n \in 0..N /\ n # 0
    BY <1>1
  <2> HIDE DEF On
  <2> QED
    BY <1>7, <2>1
<1>11. \A n \in 0..N : met[n] \in A
  <2> DEFINE S == {n \in 0..N : met[n] \in A}
  <2>1. 0 \in S
    <3>1. <<>> \in Seq(Results) /\ 0 \in 0..N
      BY <1>1
    <3> QED
      BY <1>9, <3>1
  <2>2. ASSUME NEW n \in 0..N - 1, n \in S PROVE n + 1 \in S
    <3>1. n + 1 \in 1..N /\ (n + 1) - 1 = n /\ n + 1 \in 0..N /\ met[n] \in A
      BY <1>1, <2>2
    <3> HIDE DEF A, On
    <3> QED
      BY <1>2, <1>10, <3>1
  <2>3. \A n \in 0..N : n \in S
    <3> HIDE DEF S
    <3> QED
      BY <1>1, <2>1, <2>2, InductionTo
  <2> QED
    BY <2>3
<1> QED
  BY <1>8, <1>9, <1>10, <1>11 DEF N

\* The answers of the nodes are known when each follows from those before it.
LEMMA NodesAnswer ==
  ASSUME NEW f, IsFilter(f), NEW item, NEW T,
         \A n \in 1..Len(f) : \A before :
           (\A j \in 1..n - 1 : before[j] = IF j \in T THEN "Match" ELSE "NoMatch") =>
             Answer(heap, item, f[n], before) = IF n \in T THEN "Match" ELSE "NoMatch"
  PROVE  Apply(heap, f, item) = IF Len(f) \in T THEN "Match" ELSE "NoMatch"
<1> DEFINE N == Len(f)
<1> DEFINE Of(j) == IF j \in T THEN "Match" ELSE "NoMatch"
<1>1. N \in Nat /\ N # 0
  BY DEF IsFilter
<1>2. PICK answers : /\ answers[0] = <<>>
                     /\ \A n \in 0..N : answers[n] \in Seq(Results)
                     /\ \A n \in 1..N :
                          answers[n] = Append(answers[n - 1], Answer(heap, item, f[n], answers[n - 1]))
                     /\ Apply(heap, f, item) = answers[N][N]
  BY AnswersAre
<1> HIDE DEF N
<1> DEFINE S == {n \in 0..N : Len(answers[n]) = n /\ \A j \in 1..n : answers[n][j] = Of(j)}
<1>3. 0 \in S
  BY <1>1, <1>2
<1>4. ASSUME NEW n \in 0..N - 1, n \in S PROVE n + 1 \in S
  <2>1. n + 1 \in 1..N /\ (n + 1) - 1 = n /\ n + 1 \in 0..N /\ n \in 0..N /\ n \in Nat
    BY <1>1
  <2>2. Len(answers[n]) = n /\ (\A j \in 1..n : answers[n][j] = Of(j)) /\ answers[n] \in Seq(Results)
    BY <1>2, <1>4, <2>1
  <2>3. PICK e : e = Answer(heap, item, f[n + 1], answers[n])
    OBVIOUS
  <2>4. e = Of(n + 1)
    BY <2>1, <2>2, <2>3 DEF N
  <2>5. answers[n + 1] = Append(answers[n], e) /\ e \in Results
    BY <1>2, <2>1, <2>3, <2>4 DEF Results
  <2> HIDE DEF Of
  <2>6. Len(answers[n + 1]) = n + 1
    BY <2>2, <2>5, AppendProperties
  <2>7. ASSUME NEW j \in 1..n + 1 PROVE answers[n + 1][j] = Of(j)
    <3>1. CASE j = n + 1
      BY <2>2, <2>4, <2>5, <3>1, AppendProperties
    <3>2. CASE j # n + 1
      <4>1. j \in 1..n
        BY <2>1, <3>2
      <4> QED
        BY <2>2, <2>5, <4>1, AppendProperties
    <3> QED
      BY <3>1, <3>2
  <2> QED
    BY <2>1, <2>6, <2>7
<1>5. N \in S
  <2> HIDE DEF S
  <2>1. N \in 0..N
    BY <1>1
  <2> QED
    BY <1>1, <1>3, <1>4, <2>1, InductionTo
<1>6. answers[N][N] = Of(N)
  BY <1>1, <1>5
<1> QED
  BY <1>2, <1>6 DEF N

\* The nodes of a filter that hold for an object, each told from those before it.
LEMMA HoldingAre ==
  ASSUME NEW f, IsFilter(f), Root(f).op # "classname", NEW id
  PROVE  \E T : /\ \A n \in 1..Len(f) : n \in T <=> Says(f[n], id, T)
                /\ Selected(f, id) <=> Len(f) \in T
<1> DEFINE N == Len(f)
<1> DEFINE A == SUBSET (1..N)
<1> DEFINE On(n, s) == s \cup {m \in {n} : Says(f[n], id, s)}
<1> DEFINE step == [p \in (1..N) \X A |-> On(p[1], p[2])]
<1>1. N \in Nat \ {0} /\ DOMAIN f = 1..N
  BY DEF IsFilter
<1>2. step \in [(1..N) \X A -> A]
  <2>1. \A n \in 1..N, s \in A : On(n, s) \in A
    OBVIOUS
  <2> HIDE DEF On, A
  <2> QED
    BY <2>1
<1> HIDE DEF N
<1>3. PICK g \in [0..N -> A] : g[0] = {} /\ \A n \in 1..N : g[n] = step[<<n, g[n - 1]>>]
  <2> HIDE DEF step
  <2>1. {} \in A
    OBVIOUS
  <2> HIDE DEF A
  <2>2. Defines(N, A, {}, step)
    BY <1>1, <1>2, <2>1, RecursionExists
  <2> QED
    BY <2>2 DEF Defines
<1>4. \A n \in 1..N : g[n] = On(n, g[n - 1])
  <2> SUFFICES ASSUME NEW n \in 1..N PROVE g[n] = On(n, g[n - 1])
    OBVIOUS
  <2>1. n - 1 \in 0..N
    BY <1>1
  <2> HIDE DEF A
  <2>2. <<n, g[n - 1]>> \in (1..N) \X A
    BY <2>1
  <2> HIDE DEF On
  <2>3. step[<<n, g[n - 1]>>] = On(n, g[n - 1])
    BY <2>2
  <2> QED
    BY <1>3, <2>3
<1>5. g = [n \in 0..N |-> IF n = 0 THEN {} ELSE On(n, g[n - 1])]
  <2>1. \A n \in 0..N : n # 0 => n \in 1..N
    BY <1>1
  <2> HIDE DEF A, On, step
  <2> QED
    BY <1>3, <1>4, <2>1
<1> DEFINE met == CHOOSE met : met = [n \in 0..N |-> IF n = 0 THEN {} ELSE On(n, met[n - 1])]
<1>6. met = [n \in 0..N |-> IF n = 0 THEN {} ELSE On(n, met[n - 1])]
  <2> HIDE DEF A, On, step
  <2> QED
    BY <1>5
<1>7. Selected(f, id) <=> N \in met[N]
  BY DEF Selected, N
<1> HIDE DEF met
<1>8. met[0] = {}
  BY <1>1, <1>6
<1>9. ASSUME NEW n \in 1..N PROVE met[n] = On(n, met[n - 1])
  <2>1. n \in 0..N /\ n # 0
    BY <1>1
  <2> HIDE DEF On
  <2> QED
    BY <1>6, <2>1
<1> DEFINE T == {j \in 1..N : j \in met[j]}
<1> DEFINE S == {n \in 0..N : met[n] = {j \in T : j <= n}}
<1>10. \A n \in 0..N : n \in S
  <2>1. 0 \in S
    <3>1. {j \in T : j <= 0} = {}
      BY <1>1
    <3> HIDE DEF T
    <3> QED
      BY <1>1, <1>8, <3>1
  <2>2. ASSUME NEW n \in 0..N - 1, n \in S PROVE n + 1 \in S
    <3>1. n + 1 \in 1..N /\ (n + 1) - 1 = n /\ n + 1 \in 0..N /\ n \in Nat
      BY <1>1
    <3>2. met[n] = {j \in T : j <= n}
      BY <2>2
    <3>3. met[n + 1] = On(n + 1, met[n])
      BY <1>9, <3>1
    <3>4. n + 1 \in T <=> n + 1 \in met[n + 1]
      BY <3>1
    <3>5. \A j \in T : j \in Nat
      OBVIOUS
    <3> HIDE DEF T
    <3>6. \A j : j \in met[n + 1] <=> j \in met[n] \/ (j = n + 1 /\ n + 1 \in met[n + 1])
      BY <3>3
    <3>7. \A j \in T : j <= n + 1 <=> j <= n \/ j = n + 1
      BY <3>1, <3>5
    <3>8. \A j : j \in met[n + 1] <=> j \in T /\ j <= n + 1
      BY <3>1, <3>2, <3>4, <3>6, <3>7
    <3> QED
      BY <3>1, <3>8
  <2> HIDE DEF S
  <2> QED
    BY <1>1, <2>1, <2>2, InductionTo
<1>11. ASSUME NEW n \in 1..N PROVE n \in T <=> Says(f[n], id, T)
  <2>1. n - 1 \in 0..N /\ n \in Nat
    BY <1>1
  <2>2. met[n - 1] = {j \in T : j <= n - 1}
    BY <1>10, <2>1
  <2>3. n \in T <=> n \in met[n]
    OBVIOUS
  <2>4. n \notin met[n - 1]
    BY <2>1, <2>2
  <2>5. n \in met[n] <=> Says(f[n], id, met[n - 1])
    BY <1>9, <2>4
  <2>6. \A j \in 1..n - 1 : j \in met[n - 1] <=> j \in T
    BY <2>1, <2>2
  <2> HIDE DEF T
  <2>7. Says(f[n], id, met[n - 1]) <=> Says(f[n], id, T)
    <3>1. f[n].op \in {"and", "or"} => f[n].left \in 1..n - 1 /\ f[n].right \in 1..n - 1
      BY <1>1 DEF IsFilter
    <3>2. CASE f[n].op = "and"
      BY <2>6, <3>1, <3>2 DEF Says
    <3>3. CASE f[n].op = "or"
      BY <2>6, <3>1, <3>3 DEF Says
    <3>4. CASE f[n].op = "instanceof"
      BY <3>4 DEF Says
    <3>5. CASE f[n].op = "compare"
      BY <3>5 DEF Says
    <3>6. f[n].op # "classname"
      BY <1>1 DEF IsFilter, Root, N
    <3> QED
      BY <1>1, <3>2, <3>3, <3>4, <3>5, <3>6 DEF IsFilter
  <2> QED
    BY <2>3, <2>5, <2>7
<1>12. N \in T <=> N \in met[N]
  BY <1>1
<1> QED
  BY <1>7, <1>11, <1>12 DEF N

\* What a node answers for an object, if those before it answer what they say.
LEMMA NodeExact ==
  ASSUME IsHeap(heap), NEW f, IsFilter(f), NEW n \in 1..Len(f), f[n].op # "classname",
         NEW id \in DOMAIN heap.objects, NEW T, NEW before,
         \A j \in 1..n - 1 : before[j] = IF j \in T THEN "Match" ELSE "NoMatch"
  PROVE  Answer(heap, heap.objects[id], f[n], before) =
           IF Says(f[n], id, T) THEN "Match" ELSE "NoMatch"
<1> DEFINE item == heap.objects[id]
<1>1. /\ f[n].op \in {"and", "or", "instanceof", "compare"}
      /\ f[n].op \in {"and", "or"} => f[n].left \in 1..n - 1 /\ f[n].right \in 1..n - 1
      /\ f[n].op \in {"instanceof", "compare"} => f[n].path \in Seq(STRING)
      /\ f[n].op = "compare" => f[n].path # <<>>
  <2>1. n \in DOMAIN f
    BY DEF IsFilter
  <2> QED
    BY <2>1 DEF IsFilter
<1>2. CASE f[n].op = "and"
  BY <1>1, <1>2 DEF Answer, Says, And
<1>3. CASE f[n].op = "or"
  BY <1>1, <1>3 DEF Answer, Says, Or
<1>4. CASE f[n].op = "instanceof"
  <2>1. CASE f[n].path = <<>>
    <3>1. Find(heap, id) = item
      BY DEF Find
    <3>2. IsA(id, f[n].class) <=> InstanceOf(heap, item, f[n].class)
      BY <3>1, IsAIs
    <3>3. Says(f[n], id, T) <=> IsA(id, f[n].class)
      BY <1>4, <2>1 DEF Says
    <3>4. Answer(heap, item, f[n], before) = IfMatch(InstanceOf(heap, item, f[n].class))
      BY <1>4, <2>1 DEF Answer
    <3> QED
      BY <3>2, <3>3, <3>4 DEF IfMatch
  <2>2. CASE f[n].path # <<>>
    <3> DEFINE field == Fetch(heap, item, f[n].path)
    <3>1. Answer(heap, item, f[n], before) =
            IfMatch(field.type = "object" /\ InstanceOf(heap, Find(heap, field.value), f[n].class))
      BY <1>4, <2>2 DEF Answer
    <3>2. Says(f[n], id, T) <=>
            \E g \in AllFields : Leads(id, f[n].path, g) /\ g.type = "object" /\ IsA(g.value, f[n].class)
      BY <1>4, <2>2 DEF Says
    <3>3. \A g : Leads(id, f[n].path, g) <=> g = field /\ g # NoField
      BY <1>1, <1>4, <2>2, FetchIs
    <3>4. \A g : Leads(id, f[n].path, g) => g \in AllFields
      BY <1>1, <1>4, <2>2, FetchIs
    <3>5. field.type = "object" => field # NoField
      BY DEF NoField
    <3>6. IsA(field.value, f[n].class) <=>
            InstanceOf(heap, Find(heap, field.value), f[n].class)
      BY IsAIs
    <3> HIDE DEF field
    <3>7. Says(f[n], id, T) <=> field.type = "object" /\ IsA(field.value, f[n].class)
      BY <3>2, <3>3, <3>4, <3>5
    <3> QED
      BY <3>1, <3>6, <3>7 DEF IfMatch
  <2> QED
    BY <2>1, <2>2
<1>5. CASE f[n].op = "compare"
  <2> DEFINE field == Fetch(heap, item, f[n].path)
  <2> DEFINE Holds(g) == Compare(f[n].operation, g, f[n].literal, TextOf(heap, g))
  <2>1. Answer(heap, item, f[n], before) = IfMatch(field # NoField /\ Holds(field))
    BY <1>5 DEF Answer
  <2>2. Says(f[n], id, T) <=>
          \E g \in AllFields : Leads(id, f[n].path, g) /\ Holds(g)
    BY <1>5 DEF Says
  <2>3. \A g : Leads(id, f[n].path, g) <=> g = field /\ g # NoField
    BY <1>1, <1>5, FetchIs
  <2>4. \A g : Leads(id, f[n].path, g) => g \in AllFields
    BY <1>1, <1>5, FetchIs
  <2> HIDE DEF field, Holds
  <2>5. Says(f[n], id, T) <=> field # NoField /\ Holds(field)
    BY <2>2, <2>3, <2>4
  <2> QED
    BY <2>1, <2>5 DEF IfMatch
<1> QED
  BY <1>1, <1>2, <1>3, <1>4, <1>5

\* A filter matches the objects that it describes.
LEMMA MatchIsSelection ==
  ASSUME IsHeap(heap), NEW f, IsFilter(f), Root(f).op # "classname",
         NEW id \in DOMAIN heap.objects
  PROVE  Apply(heap, f, heap.objects[id]) = "Match" <=> Selected(f, id)
<1>1. PICK T : /\ \A n \in 1..Len(f) : n \in T <=> Says(f[n], id, T)
               /\ Selected(f, id) <=> Len(f) \in T
  BY HoldingAre
<1>2. \A n \in 1..Len(f) : f[n].op # "classname"
  BY DEF IsFilter, Root
<1>3. ASSUME NEW n \in 1..Len(f), NEW before,
             \A j \in 1..n - 1 : before[j] = IF j \in T THEN "Match" ELSE "NoMatch"
      PROVE  Answer(heap, heap.objects[id], f[n], before) = IF n \in T THEN "Match" ELSE "NoMatch"
  <2>1. Answer(heap, heap.objects[id], f[n], before) =
          IF Says(f[n], id, T) THEN "Match" ELSE "NoMatch"
    BY <1>2, <1>3, NodeExact
  <2> QED
    BY <1>1, <2>1
<1>4. Apply(heap, f, heap.objects[id]) = IF Len(f) \in T THEN "Match" ELSE "NoMatch"
  BY <1>3, NodesAnswer
<1> QED
  BY <1>1, <1>4

\* An item without fields that is of no class in the dump.
Bare(item) ==
  HasFields(item) => item.fields = <<>> /\ item.class \notin DOMAIN heap.classes

\* No path leads anywhere from there.
LEMMA NothingFetched ==
  ASSUME NEW item, Bare(item), NEW path \in Seq(STRING), path # <<>>
  PROVE  Fetch(heap, item, path) = NoField
<1> DEFINE L == Len(path)
<1>1. L \in Nat \ {0}
  BY EmptySeq
<1>2. PICK along : /\ along[0] = item
                   /\ \A n \in 1..L - 1 : along[n] = Led(FieldOf(along[n - 1], path[n]))
                   /\ Fetch(heap, item, path) = FieldOf(along[L - 1], path[L])
  BY AlongIs
<1> HIDE DEF L
<1>3. \A i \in {item, Missing} : \A name : FieldOf(i, name) = NoField
  <2> SUFFICES ASSUME NEW i \in {item, Missing}, NEW name
               PROVE  FieldOf(i, name) = NoField
    OBVIOUS
  <2>1. CASE ~HasFields(i)
    BY <2>1 DEF FieldOf
  <2>2. CASE HasFields(i)
    <3>1. i = item /\ DOMAIN item.fields = {}
      BY <2>2 DEF Bare, HasFields, Missing
    <3> QED
      BY <2>2, <3>1 DEF FieldOf
  <2> QED
    BY <2>1, <2>2
<1> DEFINE S == {n \in 0..L - 1 : along[n] \in {item, Missing}}
<1>4. 0 \in S
  BY <1>1, <1>2
<1>5. ASSUME NEW n \in 0..(L - 1) - 1, n \in S PROVE n + 1 \in S
  <2>1. n + 1 \in 1..L - 1 /\ (n + 1) - 1 = n /\ n + 1 \in 0..L - 1
    BY <1>1
  <2>2. FieldOf(along[n], path[n + 1]) = NoField
    BY <1>3, <1>5
  <2>3. Led(NoField) = Missing
    BY DEF Led, NoField
  <2>4. along[n + 1] = Missing
    BY <1>2, <2>1, <2>2, <2>3
  <2> QED
    BY <2>1, <2>4
<1>6. L - 1 \in S
  <2> HIDE DEF S
  <2>1. L - 1 \in Nat /\ L - 1 \in 0..L - 1
    BY <1>1
  <2> QED
    BY <1>4, <1>5, <2>1, InductionTo
<1> QED
  BY <1>2, <1>3, <1>6

\* No filter of the query language matches it.
LEMMA BareUnmatched ==
  ASSUME IsHeap(heap), NEW f, IsFilter(f), NEW item, Bare(item),
         \/ Root(f).op # "classname"
         \/ item.kind = "object"
  PROVE  Apply(heap, f, item) = "NoMatch"
<1>1. ASSUME NEW n \in 1..Len(f), NEW before, \A j \in 1..n - 1 : before[j] = "NoMatch"
      PROVE  Answer(heap, item, f[n], before) = "NoMatch"
  <2>1. /\ f[n].op \in {"and", "or", "instanceof", "compare", "classname"}
        /\ f[n].op \in {"and", "or"} => f[n].left \in 1..n - 1 /\ f[n].right \in 1..n - 1
        /\ f[n].op \in {"instanceof", "compare"} => f[n].path \in Seq(STRING)
        /\ f[n].op = "compare" => f[n].path # <<>>
    <3>1. n \in DOMAIN f
      BY DEF IsFilter
    <3> QED
      BY <3>1 DEF IsFilter
  <2>2. CASE f[n].op = "and"
    BY <1>1, <2>1, <2>2 DEF Answer, And
  <2>3. CASE f[n].op = "or"
    BY <1>1, <2>1, <2>3 DEF Answer, Or
  <2>4. CASE f[n].op = "instanceof"
    <3>1. \A name : ~InstanceOf(heap, item, name)
      BY InstanceIs DEF Below, Bare
    <3>2. f[n].path # <<>> => Fetch(heap, item, f[n].path) = NoField
      BY <2>1, <2>4, NothingFetched
    <3> QED
      BY <2>4, <3>1, <3>2 DEF Answer, IfMatch, NoField
  <2>5. CASE f[n].op = "compare"
    <3>1. Fetch(heap, item, f[n].path) = NoField
      BY <2>1, <2>5, NothingFetched
    <3> QED
      BY <2>5, <3>1 DEF Answer, IfMatch
  <2>6. CASE f[n].op = "classname"
    <3>1. Root(f) = f[n]
      BY <2>6 DEF IsFilter, Root
    <3>2. item.kind = "object"
      BY <2>6, <3>1
    <3>3. ~Classname(heap, item, f[n].text)
      BY <3>2 DEF Classname, Bare, HasFields
    <3> QED
      BY <2>6, <3>3 DEF Answer, IfMatch
  <2> QED
    BY <2>1, <2>2, <2>3, <2>4, <2>5, <2>6
<1> DEFINE T == {}
<1>2. \A n \in 1..Len(f) : \A before :
        (\A j \in 1..n - 1 : before[j] = IF j \in T THEN "Match" ELSE "NoMatch") =>
          Answer(heap, item, f[n], before) = IF n \in T THEN "Match" ELSE "NoMatch"
  <2>1. \A n : n \notin T
    OBVIOUS
  <2> HIDE DEF T
  <2> QED
    BY <1>1, <2>1
<1> HIDE DEF T
<1>3. Apply(heap, f, item) = IF Len(f) \in T THEN "Match" ELSE "NoMatch"
  BY <1>2, NodesAnswer
<1> QED
  BY <1>3 DEF T

-------------------------------------------------------------------------------
\* What the loop goes through.
Offered == IF searched = "objects" THEN DOMAIN heap.objects ELSE DOMAIN heap.classes

\* Of what the loop has come to, the result has what the filter matches.
SelectionInv ==
  /\ IsHeap(heap) /\ IsFilter(asked)
  /\ searched \in {"objects", "classes"} /\ left \subseteq Offered
  /\ result = {id \in Offered \ left : Apply(heap, asked, ItemAt(id)) = "Match"}
  /\ state = "done" => left = {}

LEMMA SelectionStart == QueryInit => SelectionInv
BY QueryConstants DEF QueryInit, SelectionInv, Offered

LEMMA SelectionStep == SelectionInv /\ [QueryNext]_queryVars => SelectionInv'
<1> SUFFICES ASSUME SelectionInv, [QueryNext]_queryVars PROVE SelectionInv'
  OBVIOUS
<1>1. CASE UNCHANGED queryVars
  BY <1>1 DEF SelectionInv, Offered, queryVars, ItemAt
<1>2. CASE Visit
  <2>1. PICK id \in left :
          LET answer == Apply(heap, asked, ItemAt(id)) IN
            /\ left' = left \ {id}
            /\ result' = IF answer = "Match" THEN result \cup {id} ELSE result
            /\ state' = IF answer = "Fail" THEN "failed" ELSE "running"
    BY <1>2 DEF Visit
  <2>2. heap' = heap /\ searched' = searched /\ asked' = asked
    BY <1>2 DEF Visit
  <2>3. Offered' = Offered /\ \A i : ItemAt(i)' = ItemAt(i)
    BY <2>2 DEF Offered, ItemAt
  <2> DEFINE Passes(i) == Apply(heap, asked, ItemAt(i)) = "Match"
  <2>4. result' = {i \in Offered \ left' : Passes(i)}
    <3>1. result' = IF Passes(id) THEN result \cup {id} ELSE result
      BY <2>1
    <3>2. result = {i \in Offered \ left : Passes(i)} /\ id \in Offered /\ id \in left
      BY DEF SelectionInv
    <3>3. left' = left \ {id}
      BY <2>1
    <3> HIDE DEF Passes
    <3> QED
      BY <3>1, <3>2, <3>3
  <2>5. state' # "done" /\ left' \subseteq Offered
    BY <2>1 DEF SelectionInv
  <2> QED
    BY <2>2, <2>3, <2>4, <2>5 DEF SelectionInv
<1>3. CASE Finish
  BY <1>3 DEF Finish, SelectionInv, Offered, ItemAt
<1> QED
  BY <1>1, <1>2, <1>3 DEF QueryNext

\* A query over objects returns those that its filter describes, one over classes
\* nothing, whatever the heap and the filter are: heap_profile_impl_t::query with any
\* filter that the parser makes.
THEOREM SelectionCorrect == QuerySpec => []QueryExact
<1>1. SelectionInv => QueryExact
  <2> SUFFICES ASSUME SelectionInv, state = "done", Root(asked).op # "classname"
               PROVE  result = IF searched = "classes" THEN {}
                               ELSE {id \in DOMAIN heap.objects : Selected(asked, id)}
    BY DEF QueryExact
  <2>1. /\ IsHeap(heap) /\ IsFilter(asked) /\ searched \in {"objects", "classes"}
        /\ result = {id \in Offered : Apply(heap, asked, ItemAt(id)) = "Match"}
    BY DEF SelectionInv
  <2>2. CASE searched = "classes"
    <3>1. ASSUME NEW id PROVE Apply(heap, asked, ItemAt(id)) = "NoMatch"
      <4>1. Bare(ItemAt(id))
        BY <2>2 DEF Bare, ItemAt, HasFields
      <4> QED
        BY <2>1, <4>1, BareUnmatched
    <3> QED
      BY <2>1, <2>2, <3>1
  <2>3. CASE searched = "objects"
    <3>1. \A id \in DOMAIN heap.objects :
            Apply(heap, asked, heap.objects[id]) = "Match" <=> Selected(asked, id)
      BY <2>1, MatchIsSelection
    <3> QED
      BY <2>1, <2>3, <3>1 DEF Offered, ItemAt
  <2> QED
    BY <2>1, <2>2, <2>3
<1> QED
  BY <1>1, SelectionStart, SelectionStep, PTL DEF QuerySpec

\* No filter matches an object whose class is not in the dump: what the window and the
\* command line tool take from the objects of a result is there.
THEOREM ClassesPresent == QuerySpec => []ClasslessNeverSelected
<1>1. SelectionInv => ClasslessNeverSelected
  <2> SUFFICES ASSUME SelectionInv, searched = "objects", NEW id \in result,
                      heap.objects[id].kind = "object",
                      heap.objects[id].class \notin DOMAIN heap.classes
               PROVE  FALSE
    BY DEF ClasslessNeverSelected
  <2>1. /\ IsHeap(heap) /\ IsFilter(asked) /\ id \in DOMAIN heap.objects
        /\ Apply(heap, asked, heap.objects[id]) = "Match"
    BY DEF SelectionInv, Offered, ItemAt
  <2>2. Bare(heap.objects[id])
    BY <2>1 DEF Bare, IsHeap
  <2> QED
    BY <2>1, <2>2, BareUnmatched
<1> QED
  BY <1>1, SelectionStart, SelectionStep, PTL DEF QuerySpec

\* The comparisons of HeapQuery are those of FieldCompare.
LEMMA SameComparisons ==
  /\ \A f, l : Trichotomy(f, l) <=> Trichotomy(f, l)
  /\ \A f, l, content : Complement(f, l, content) <=> Complement(f, l, content)
<1>1. Integral = Integral /\ Floating = Floating
  BY DEF Integral, Integral, Floating, Floating
<1>2. \A l : IsNumber(l) <=> IsNumber(l)
  BY DEF IsNumber, IsNumber
<1>3. \A f, l : AsOperand(f, l) = AsOperand(f, l)
  BY <1>1 DEF AsOperand, AsOperand, Truncated, Truncated
<1>4. \A o, f, l : CompareNumber(o, f, l) <=> CompareNumber(o, f, l)
  BY <1>2, <1>3 DEF CompareNumber, CompareNumber
<1>5. \A f, l, content : CanCompare(f, l, content) <=> CanCompare(f, l, content)
  BY DEF CanCompare, CanCompare
<1>6. \A f, l, content : /\ MatchEquals(f, l, content) <=> MatchEquals(f, l, content)
                         /\ MatchNotEquals(f, l, content) <=> MatchNotEquals(f, l, content)
  BY <1>1, <1>4, <1>5 DEF MatchEquals, MatchEquals, MatchNotEquals, MatchNotEquals
<1>7. \A f, l, content : /\ Compare("=", f, l, content) <=> Compare("=", f, l, content)
                         /\ Compare("!=", f, l, content) <=> Compare("!=", f, l, content)
  BY <1>6 DEF Compare, Compare
<1>8. \A f, l : Trichotomy(f, l) <=> Trichotomy(f, l)
  BY <1>1, <1>2, <1>4 DEF Trichotomy, Trichotomy
<1>9. \A f, l, content : Complement(f, l, content) <=> Complement(f, l, content)
  BY <1>1, <1>2, <1>7 DEF Complement, Complement
<1> QED
  BY <1>8, <1>9

\* Every comparison that a query comes to relates to the other five as Trichotomy and
\* Complement say: the fields that a path leads to in any heap, and any literal.
THEOREM ComparisonsCorrect == QuerySpec => []ComparisonsRelate
<1>1. SelectionInv => ComparisonsRelate
  <2> DEFINE node == Root(asked)
  <2> SUFFICES ASSUME SelectionInv, state = "done", node.op = "compare",
                      NEW f \in ComparedFields
               PROVE  /\ Trichotomy(f, node.literal)
                      /\ Complement(f, node.literal, TextOf(heap, f))
    BY DEF ComparisonsRelate
  <2>1. IsHeap(heap) /\ IsFilter(asked)
    BY DEF SelectionInv
  <2>2. /\ node.path \in Seq(STRING) /\ node.path # <<>>
        /\ IsNumber(node.literal) => NumericLiteral(node.literal)
    <3>1. Len(asked) \in DOMAIN asked
      BY <2>1 DEF IsFilter
    <3> QED
      BY <2>1, <3>1 DEF IsFilter, Root
  <2>3. PICK id \in DOMAIN heap.objects :
               f = Fetch(heap, heap.objects[id], node.path) /\ f # NoField
    BY DEF ComparedFields
  <2> HIDE DEF node
  <2>4. IsField(f)
    <3>1. f \in AllFields
      BY <2>1, <2>2, <2>3, FetchIs
    <3>2. PICK o \in Objects : HasFields(o) /\ \E i \in DOMAIN o.fields : f = o.fields[i]
      BY <3>1 DEF AllFields, Objects
    <3> QED
      BY <2>1, <3>2 DEF IsHeap, Objects
  <2>5. Trichotomy(f, node.literal)
    <3>1. CASE NumericField(f) /\ NumericLiteral(node.literal)
      BY <3>1, TrichotomyCorrect
    <3>2. CASE ~NumericField(f)
      <4>1. f.type \notin Integral \cup Floating
        BY <2>4, <3>2 DEF IsField, NumericField, NumericField, Integral, Integral,
                          Floating, Floating
      <4> QED
        BY <4>1 DEF Trichotomy
    <3>3. CASE ~NumericLiteral(node.literal)
      <4>1. ~IsNumber(node.literal)
        BY <2>2, <3>3 DEF NumericLiteral, NumericLiteral, IsNumber, IsNumber
      <4> QED
        BY <4>1 DEF Trichotomy
    <3> QED
      BY <3>1, <3>2, <3>3
  <2>6. Complement(f, node.literal, TextOf(heap, f))
    BY ComplementCorrect
  <2> QED
    BY <2>5, <2>6, SameComparisons
<1> QED
  BY <1>1, SelectionStart, SelectionStep, PTL DEF QuerySpec

-------------------------------------------------------------------------------
(* The tokens of a class name. *)

\* The end of a token: the first place at which a dot follows, from the dot in front of
\* the token on, or the end of the text.
LEMMA EndIs ==
  ASSUME NEW word \in Seq(Chars), NEW from \in 0..Len(word), from # Len(word)
  PROVE  LET to == EndOf(word, from) IN
           /\ to \in from..Len(word) /\ to > 0
           /\ to = Len(word) \/ word[to + 1] = Dot
           /\ \A i \in from..to - 1 : i > 0 => word[i + 1] # Dot
<1> DEFINE L == Len(word)
<1> DEFINE a == IF from = 0 THEN 0 ELSE from - 1
<1> DEFINE stops == {i \in a + 1..L : i = L \/ word[i + 1] = Dot}
<1>1. L \in Nat /\ from \in Nat /\ from < L /\ a \in Nat /\ a < L /\ a + 1 >= from
  OBVIOUS
<1>2. L \in stops /\ stops \in SUBSET Nat
  BY <1>1
<1>3. PICK n \in stops : \A m \in stops : n <= m
  <2> HIDE DEF stops
  <2> QED
    BY <1>2, LeastNumber
<1>4. (CHOOSE i \in stops : \A j \in stops : i <= j) = n
  <2>1. \A i \in stops : (\A j \in stops : i <= j) => i = n
    BY <1>2, <1>3
  <2> HIDE DEF stops
  <2> QED
    BY <1>3, <2>1
<1>5. EndOf(word, from) = n
  <2>1. EndOf(word, from) = NextTokenStart(word, a)
    BY DEF EndOf
  <2>2. stops # {}
    BY <1>2
  <2> QED
    BY <1>4, <2>1, <2>2 DEF NextTokenStart
<1>6. n \in a + 1..L /\ (n = L \/ word[n + 1] = Dot)
  BY <1>3
<1>7. ASSUME NEW i \in from..n - 1, i > 0 PROVE word[i + 1] # Dot
  <2>1. i \in Nat /\ i < n /\ n \in Nat /\ n <= L
    BY <1>1, <1>6
  <2>2. i >= a + 1
    BY <1>1, <1>7, <2>1
  <2>3. i \in a + 1..L
    BY <1>1, <2>1, <2>2
  <2> QED
    BY <1>3, <1>6, <2>1, <2>3
<1> QED
  BY <1>1, <1>5, <1>6, <1>7

\* One element before a sequence.
LEMMA Prepended ==
  ASSUME NEW S, NEW e \in S, NEW s \in Seq(S)
  PROVE  /\ <<e>> \o s \in Seq(S) /\ Len(<<e>> \o s) = Len(s) + 1 /\ Len(s) \in Nat
         /\ (<<e>> \o s)[1] = e /\ \A i \in 1..Len(s) : (<<e>> \o s)[i + 1] = s[i]
<1>1. <<e>> \in Seq(S) /\ Len(<<e>>) = 1 /\ <<e>>[1] = e /\ Len(s) \in Nat
  OBVIOUS
<1>2. /\ <<e>> \o s \in Seq(S) /\ Len(<<e>> \o s) = Len(<<e>>) + Len(s)
      /\ \A i \in 1..Len(<<e>>) + Len(s) :
           (<<e>> \o s)[i] = IF i <= Len(<<e>>) THEN <<e>>[i] ELSE s[i - Len(<<e>>)]
  BY <1>1, ConcatProperties
<1>3. \A i \in 1..1 + Len(s) : (<<e>> \o s)[i] = IF i <= 1 THEN <<e>>[i] ELSE s[i - 1]
  BY <1>1, <1>2
<1>4. ASSUME NEW i \in 1..Len(s) PROVE (<<e>> \o s)[i + 1] = s[i]
  <2>1. i + 1 \in 1..1 + Len(s) /\ ~(i + 1 <= 1) /\ (i + 1) - 1 = i
    BY <1>1
  <2> QED
    BY <1>3, <2>1
<1>5. 1 \in 1..1 + Len(s) /\ 1 <= 1
  BY <1>1
<1> QED
  BY <1>1, <1>2, <1>3, <1>4, <1>5

\* The tokens of a text from a place on, where those behind are cut[...].
TokenAt(word, from) == SubSeq(word, from + 1, EndOf(word, from))
Behind(word, cut, from) ==
  IF from = Len(word) THEN <<>>
  ELSE <<TokenAt(word, from)>> \o (IF EndOf(word, from) = Len(word) THEN <<>>
                                 ELSE cut[EndOf(word, from) + 1])
IsCut(word, cut, n) ==
  /\ cut \in [n..Len(word) -> Seq(Seq(Chars))]
  /\ \A from \in n..Len(word) : cut[from] = Behind(word, cut, from)

LEMMA TokenIs ==
  ASSUME NEW word \in Seq(Chars), NEW from \in 0..Len(word), from # Len(word)
  PROVE  /\ TokenAt(word, from) \in Seq(Chars)
         /\ Len(TokenAt(word, from)) = EndOf(word, from) - from
         /\ \A i \in 1..EndOf(word, from) - from : TokenAt(word, from)[i] = word[from + i]
<1> DEFINE to == EndOf(word, from)
<1>1. to \in from..Len(word) /\ Len(word) \in Nat /\ from \in Nat
  BY EndIs
<1> HIDE DEF to
<1>2. \A i \in from + 1..to : word[i] \in Chars
  BY <1>1
<1>3. from + 1 \in Int /\ to \in Int
  BY <1>1
<1>4. /\ SubSeq(word, from + 1, to) \in Seq(Chars)
      /\ Len(SubSeq(word, from + 1, to)) = IF from + 1 <= to THEN to - (from + 1) + 1 ELSE 0
      /\ \A i \in 1..to - (from + 1) + 1 : SubSeq(word, from + 1, to)[i] = word[from + 1 + i - 1]
  BY <1>2, <1>3, SubSeqProperties
<1>5. (IF from + 1 <= to THEN to - (from + 1) + 1 ELSE 0) = to - from /\ to - (from + 1) + 1 = to - from
  BY <1>1
<1>6. \A i \in 1..to - from : from + 1 + i - 1 = from + i
  BY <1>1
<1>7. TokenAt(word, from) = SubSeq(word, from + 1, to)
  BY DEF TokenAt, to
<1> QED
  BY <1>4, <1>5, <1>6, <1>7 DEF to

LEMMA BehindIsTokens ==
  ASSUME NEW word \in Seq(Chars), NEW n \in 0..Len(word),
         NEW cut \in [n + 1..Len(word) -> Seq(Seq(Chars))]
  PROVE  Behind(word, cut, n) \in Seq(Seq(Chars))
<1>1. CASE n = Len(word)
  BY <1>1 DEF Behind
<1>2. CASE n # Len(word)
  <2> DEFINE to == EndOf(word, n)
  <2> DEFINE rest == IF to = Len(word) THEN <<>> ELSE cut[to + 1]
  <2>1. to \in n..Len(word) /\ Len(word) \in Nat /\ TokenAt(word, n) \in Seq(Chars)
    BY <1>2, EndIs, TokenIs
  <2>2. to # Len(word) => to + 1 \in n + 1..Len(word)
    BY <2>1
  <2>3. rest \in Seq(Seq(Chars))
    BY <2>2
  <2> HIDE DEF rest
  <2>4. <<TokenAt(word, n)>> \o rest \in Seq(Seq(Chars))
    BY <2>1, <2>3, Prepended
  <2> QED
    BY <1>2, <2>4 DEF Behind, rest
<1> QED
  BY <1>1, <1>2

\* The tokens of a text are cut place by place.
LEMMA TokensAre ==
  ASSUME NEW word \in Seq(Chars)
  PROVE  \E cut : IsCut(word, cut, 0) /\ TokensOf(word) = cut[0]
<1> DEFINE L == Len(word)
<1> DEFINE Q == Seq(Seq(Chars))
<1> DEFINE S == {j \in 0..L : \E cut : IsCut(word, cut, L - j)}
<1>1. L \in Nat
  OBVIOUS
<1>2. 0 \in S
  <2> DEFINE c == [i \in L..L |-> <<>>]
  <2>1. c \in [L..L -> Q]
    OBVIOUS
  <2>2. \A from \in L..L : from = L /\ c[from] = <<>>
    BY <1>1
  <2> HIDE DEF c
  <2>3. IsCut(word, c, L)
    BY <2>1, <2>2 DEF IsCut, Behind
  <2>4. L - 0 = L /\ 0 \in 0..L
    BY <1>1
  <2> QED
    BY <2>3, <2>4
<1>3. ASSUME NEW j \in 0..L - 1, j \in S PROVE j + 1 \in S
  <2>1. PICK c : IsCut(word, c, L - j)
    BY <1>3
  <2> DEFINE n == L - (j + 1)
  <2>2. n \in 0..L /\ n + 1 = L - j /\ j + 1 \in 0..L /\ n \in Nat /\ n < L
    BY <1>1
  <2> HIDE DEF n
  <2>3. c \in [n + 1..L -> Q] /\ \A from \in n + 1..L : c[from] = Behind(word, c, from)
    BY <2>1, <2>2 DEF IsCut
  <2> DEFINE g == [i \in n..L |-> IF i = n THEN Behind(word, c, n) ELSE c[i]]
  <2>4. Behind(word, c, n) \in Q
    BY <2>2, <2>3, BehindIsTokens
  <2>5. \A i \in n..L : i # n => i \in n + 1..L
    BY <1>1, <2>2
  <2>6. g \in [n..L -> Q]
    BY <2>3, <2>4, <2>5
  <2>7. g[n] = Behind(word, c, n) /\ \A i \in n + 1..L : g[i] = c[i]
    BY <1>1, <2>2
  <2> HIDE DEF g
  <2>8. ASSUME NEW from \in n..L PROVE Behind(word, g, from) = Behind(word, c, from)
    <3>1. CASE from = L
      BY <3>1 DEF Behind
    <3>2. CASE from # L
      <4> DEFINE to == EndOf(word, from)
      <4>1. from \in 0..L
        BY <1>1, <2>2
      <4>2. to \in from..L
        BY <3>2, <4>1, EndIs
      <4>3. to # L => to + 1 \in n + 1..L
        BY <1>1, <2>2, <4>1, <4>2
      <4>4. to # L => g[to + 1] = c[to + 1]
        BY <2>7, <4>3
      <4> QED
        BY <3>2, <4>4 DEF Behind
    <3> QED
      BY <3>1, <3>2
  <2>9. \A from \in n..L : g[from] = Behind(word, g, from)
    BY <2>3, <2>5, <2>7, <2>8
  <2>10. IsCut(word, g, n)
    BY <2>6, <2>9 DEF IsCut
  <2> QED
    BY <2>2, <2>10 DEF n
<1>4. L \in S
  <2> HIDE DEF S
  <2>1. L \in 0..L
    BY <1>1
  <2> QED
    BY <1>1, <1>2, <1>3, <2>1, InductionTo
<1>5. PICK c : IsCut(word, c, 0)
  <2>1. L - L = 0
    BY <1>1
  <2> QED
    BY <1>4, <2>1
<1> DEFINE met == CHOOSE met : met = [from \in 0..L |-> Behind(word, met, from)]
<1>6. c = [from \in 0..L |-> Behind(word, c, from)]
  BY <1>5 DEF IsCut
<1>7. met = [from \in 0..L |-> Behind(word, met, from)]
  BY <1>6
<1>8. TokensOf(word) = met[0]
  BY DEF TokensOf, Behind, TokenAt
<1> HIDE DEF met
<1>9. \A from \in 0..L : met[from] = Behind(word, met, from) /\ c[from] = Behind(word, c, from)
  <2>1. \A from \in 0..L : met[from] = Behind(word, met, from)
    <3> DEFINE F == [from \in 0..L |-> Behind(word, met, from)]
    <3>1. \A from \in 0..L : F[from] = Behind(word, met, from)
      OBVIOUS
    <3>2. met = F
      BY <1>7
    <3> HIDE DEF F
    <3> QED
      BY <3>1, <3>2
  <2> QED
    BY <1>5, <2>1 DEF IsCut
<1> DEFINE R == {j \in 0..L : \A from \in L - j..L : met[from] = c[from]}
<1>10. 0 \in R
  <2>1. \A from \in L - 0..L : from = L /\ from \in 0..L
    BY <1>1
  <2>2. \A from \in L - 0..L : met[from] = <<>> /\ c[from] = <<>>
    BY <1>9, <2>1 DEF Behind
  <2> QED
    BY <1>1, <2>2
<1>11. ASSUME NEW j \in 0..L - 1, j \in R PROVE j + 1 \in R
  <2>1. j + 1 \in 0..L /\ L - (j + 1) \in 0..L /\ \A from \in L - (j + 1)..L : from \in 0..L
    BY <1>1
  <2>2. ASSUME NEW from \in L - (j + 1)..L PROVE met[from] = c[from]
    <3>1. CASE from = L
      BY <1>9, <2>1, <3>1 DEF Behind
    <3>2. CASE from # L
      <4> DEFINE to == EndOf(word, from)
      <4>1. to \in from..L
        BY <2>1, <3>2, EndIs
      <4>2. to # L => to + 1 \in L - j..L
        BY <1>1, <2>1, <4>1
      <4>3. to # L => met[to + 1] = c[to + 1]
        BY <1>11, <4>2
      <4>4. Behind(word, met, from) = Behind(word, c, from)
        BY <3>2, <4>3 DEF Behind
      <4> QED
        BY <1>9, <2>1, <4>4
    <3> QED
      BY <3>1, <3>2
  <2> QED
    BY <2>1, <2>2
<1>12. met[0] = c[0]
  <2> HIDE DEF R
  <2>1. L \in R
    <3>1. L \in 0..L
      BY <1>1
    <3> QED
      BY <1>1, <1>10, <1>11, <3>1, InductionTo
  <2>2. 0 \in L - L..L
    BY <1>1
  <2> QED
    BY <2>1, <2>2 DEF R
<1> QED
  BY <1>5, <1>8, <1>12

\* The dots behind a place at which a token starts, and the cut of the text there: where
\* its pieces end, and that the tokens are the pieces.
DotsFrom(word, from) == {i \in (IF from = 0 THEN 2 ELSE from + 1)..Len(word) : word[i] = Dot}
Ends(word, from, n, e) ==
  /\ n \in Nat /\ e \in [0..n -> 0..Len(word)] /\ e[0] = from
  /\ \A i \in 1..n : e[i - 1] < e[i]
  /\ \A d : d \in DotsFrom(word, from) <=> \E i \in 1..n : e[i] = d
Piece(word, n, e, i) == SubSeq(word, e[i - 1] + 1, IF i > n THEN Len(word) ELSE e[i] - 1)
Pieces(word, tokens, n, e) ==
  /\ Len(tokens) = IF e[n] = Len(word) THEN n ELSE n + 1
  /\ \A i \in 1..Len(tokens) : tokens[i] = Piece(word, n, e, i)

\* No dot is within a token; one follows it.
LEMMA DotsBehind ==
  ASSUME NEW word \in Seq(Chars), NEW from \in 0..Len(word), from # Len(word)
  PROVE  LET to == EndOf(word, from) IN
           /\ to = Len(word) => DotsFrom(word, from) = {}
           /\ to # Len(word) => /\ to + 1 \in 1..Len(word) /\ to + 1 \in 0..Len(word) /\ from < to + 1
                                /\ DotsFrom(word, from) = {to + 1} \cup DotsFrom(word, to + 1)
<1> DEFINE to == EndOf(word, from)
<1> DEFINE start == IF from = 0 THEN 2 ELSE from + 1
<1>1. /\ to \in from..Len(word) /\ to > 0 /\ Len(word) \in Nat /\ from \in Nat
      /\ to = Len(word) \/ word[to + 1] = Dot
      /\ \A i \in from..to - 1 : i > 0 => word[i + 1] # Dot
  BY EndIs
<1> HIDE DEF to
<1>2. ASSUME NEW d \in DotsFrom(word, from)
      PROVE  d > to /\ d \in Nat /\ d <= Len(word) /\ word[d] = Dot
  <2>1. d \in start..Len(word) /\ word[d] = Dot
    BY <1>2 DEF DotsFrom
  <2>2. d \in Nat /\ d >= from + 1 /\ d >= 2 /\ d <= Len(word)
    BY <1>1, <2>1
  <2>3. d - 1 >= from /\ d - 1 > 0 /\ (d - 1) + 1 = d
    BY <1>1, <2>2
  <2>4. ~(d - 1 \in from..to - 1)
    BY <1>1, <2>1, <2>3
  <2> QED
    BY <1>1, <2>1, <2>2, <2>3, <2>4
<1>3. CASE to = Len(word)
  BY <1>1, <1>2, <1>3 DEF to
<1>4. CASE to # Len(word)
  <2>1. /\ to + 1 \in 1..Len(word) /\ to + 1 \in 0..Len(word) /\ from < to + 1 /\ to + 1 # 0
        /\ word[to + 1] = Dot
    BY <1>1, <1>4
  <2>2. to + 1 \in DotsFrom(word, from)
    BY <1>1, <2>1 DEF DotsFrom
  <2>3. \A d : d \in DotsFrom(word, to + 1) <=> d \in to + 2..Len(word) /\ word[d] = Dot
    <3>1. to + 1 + 1 = to + 2
      BY <1>1
    <3> QED
      BY <2>1, <3>1 DEF DotsFrom
  <2>4. ASSUME NEW d \in DotsFrom(word, to + 1) PROVE d \in DotsFrom(word, from)
    BY <1>1, <2>3, <2>4 DEF DotsFrom
  <2>5. ASSUME NEW d \in DotsFrom(word, from), d # to + 1 PROVE d \in DotsFrom(word, to + 1)
    BY <1>1, <1>2, <2>3, <2>5
  <2> QED
    BY <2>1, <2>2, <2>4, <2>5, <1>4 DEF to
<1> QED
  BY <1>3, <1>4

\* A cut behind a token is one from that token on.
LEMMA EndsPrepended ==
  ASSUME NEW word \in Seq(Chars), NEW from \in 0..Len(word), from # Len(word),
         EndOf(word, from) # Len(word), NEW n, NEW e,
         Ends(word, EndOf(word, from) + 1, n, e),
         NEW g, g = [i \in 0..n + 1 |-> IF i = 0 THEN from ELSE e[i - 1]]
  PROVE  Ends(word, from, n + 1, g)
<1> DEFINE to == EndOf(word, from)
<1>1. /\ to + 1 \in 0..Len(word) /\ from < to + 1 /\ to \in Nat
      /\ DotsFrom(word, from) = {to + 1} \cup DotsFrom(word, to + 1)
  BY DotsBehind, EndIs
<1>2. /\ n \in Nat /\ e \in [0..n -> 0..Len(word)] /\ e[0] = to + 1
      /\ \A i \in 1..n : e[i - 1] < e[i]
      /\ \A d : d \in DotsFrom(word, to + 1) <=> \E i \in 1..n : e[i] = d
  BY DEF Ends
<1> HIDE DEF to
<1>3. g[0] = from /\ \A i \in 1..n + 1 : g[i] = e[i - 1] /\ i - 1 \in 0..n
  BY <1>2
<1>4. g \in [0..n + 1 -> 0..Len(word)]
  <2>1. \A i \in 0..n + 1 : i # 0 => i - 1 \in 0..n
    BY <1>2
  <2> QED
    BY <1>2, <2>1
<1>5. ASSUME NEW i \in 1..n + 1 PROVE g[i - 1] < g[i]
  <2>1. CASE i = 1
    BY <1>1, <1>2, <1>3, <2>1
  <2>2. CASE i # 1
    <3>1. i - 1 \in 1..n /\ i - 1 \in 1..n + 1 /\ i - 1 - 1 = (i - 1) - 1
      BY <1>2, <2>2
    <3> QED
      BY <1>2, <1>3, <3>1
  <2> QED
    BY <2>1, <2>2
<1>6. ASSUME NEW d \in DotsFrom(word, from) PROVE \E i \in 1..n + 1 : g[i] = d
  <2>1. CASE d = to + 1
    <3>1. 1 \in 1..n + 1 /\ 1 - 1 = 0
      BY <1>2
    <3> QED
      BY <1>2, <1>3, <2>1, <3>1
  <2>2. CASE d # to + 1
    <3>1. PICK i \in 1..n : e[i] = d
      BY <1>1, <1>2, <1>6, <2>2
    <3>2. i + 1 \in 1..n + 1 /\ (i + 1) - 1 = i
      BY <1>2
    <3> QED
      BY <1>3, <3>1, <3>2
  <2> QED
    BY <2>1, <2>2
<1>7. ASSUME NEW i \in 1..n + 1 PROVE g[i] \in DotsFrom(word, from)
  <2>1. CASE i = 1
    BY <1>1, <1>2, <1>3, <2>1
  <2>2. CASE i # 1
    <3>1. i - 1 \in 1..n
      BY <1>2, <2>2
    <3> QED
      BY <1>1, <1>2, <1>3, <3>1
  <2> QED
    BY <2>1, <2>2
<1>8. n + 1 \in Nat
  BY <1>2
<1> QED
  BY <1>3, <1>4, <1>5, <1>6, <1>7, <1>8 DEF Ends

\* What rises step by step rises.
LEMMA Rises ==
  ASSUME NEW n \in Nat, NEW M \in Nat, NEW e \in [0..n -> 0..M], \A i \in 1..n : e[i - 1] < e[i]
  PROVE  \A i, j \in 1..n : i < j => e[i] < e[j]
<1> SUFFICES ASSUME NEW i \in 1..n PROVE \A j \in 1..n : i < j => e[i] < e[j]
  OBVIOUS
<1> DEFINE S == {k \in 0..n - i : k > 0 => e[i] < e[i + k]}
<1>1. n - i \in Nat /\ i \in Nat
  OBVIOUS
<1>2. 0 \in S
  BY <1>1
<1>3. ASSUME NEW k \in 0..n - i - 1, k \in S PROVE k + 1 \in S
  <2>1. /\ k + 1 \in 0..n - i /\ i + (k + 1) \in 1..n /\ i + (k + 1) - 1 = i + k /\ i + k \in 0..n
        /\ i + (k + 1) \in 0..n /\ i \in 0..n
    BY <1>1
  <2>2. e[i + k] < e[i + (k + 1)]
    BY <2>1
  <2>3. e[i] \in Nat /\ e[i + k] \in Nat /\ e[i + (k + 1)] \in Nat
    BY <2>1
  <2>4. e[i] <= e[i + k]
    <3>1. CASE k = 0
      <4>1. i + k = i
        BY <1>1, <3>1
      <4> QED
        BY <2>3, <4>1
    <3>2. CASE k # 0
      <4>1. k > 0
        BY <3>2
      <4>2. e[i] < e[i + k]
        BY <1>3, <4>1
      <4> QED
        BY <2>3, <4>2
    <3> QED
      BY <3>1, <3>2
  <2> QED
    BY <2>1, <2>2, <2>3, <2>4
<1>4. \A k \in 0..n - i : k \in S
  <2> HIDE DEF S
  <2> QED
    BY <1>1, <1>2, <1>3, InductionTo
<1>5. ASSUME NEW j \in 1..n, i < j PROVE e[i] < e[j]
  <2>1. j - i \in 0..n - i /\ j - i > 0 /\ i + (j - i) = j
    BY <1>1, <1>5
  <2> QED
    BY <1>4, <2>1
<1> QED
  BY <1>5

LEMMA PiecesPrepended ==
  ASSUME NEW word \in Seq(Chars), NEW from \in 0..Len(word), from # Len(word),
         EndOf(word, from) # Len(word), NEW n, NEW e,
         Ends(word, EndOf(word, from) + 1, n, e),
         NEW rest \in Seq(Seq(Chars)), Pieces(word, rest, n, e),
         NEW g, g = [i \in 0..n + 1 |-> IF i = 0 THEN from ELSE e[i - 1]]
  PROVE  Pieces(word, <<TokenAt(word, from)>> \o rest, n + 1, g)
<1> DEFINE to == EndOf(word, from)
<1> DEFINE tokens == <<TokenAt(word, from)>> \o rest
<1>1. /\ n \in Nat /\ e \in [0..n -> 0..Len(word)] /\ e[0] = to + 1 /\ to \in Nat
  BY EndIs DEF Ends
<1>2. /\ Len(rest) = IF e[n] = Len(word) THEN n ELSE n + 1
      /\ \A i \in 1..Len(rest) : rest[i] = Piece(word, n, e, i)
  BY DEF Pieces
<1>3. g[0] = from /\ \A i \in 1..n + 1 : g[i] = e[i - 1]
  BY <1>1
<1>4. /\ tokens \in Seq(Seq(Chars)) /\ Len(tokens) = Len(rest) + 1 /\ Len(rest) \in Nat
      /\ tokens[1] = TokenAt(word, from) /\ \A i \in 1..Len(rest) : tokens[i + 1] = rest[i]
  BY TokenIs, Prepended
<1>5. TokenAt(word, from) = SubSeq(word, from + 1, to)
  BY DEF TokenAt
<1> HIDE DEF tokens, to
<1>6. Len(tokens) = IF g[n + 1] = Len(word) THEN n + 1 ELSE (n + 1) + 1
  <2>1. n + 1 \in 1..n + 1 /\ (n + 1) - 1 = n
    BY <1>1
  <2>2. g[n + 1] = e[n]
    BY <1>3, <2>1
  <2>3. (IF e[n] = Len(word) THEN n ELSE n + 1) + 1 = IF e[n] = Len(word) THEN n + 1 ELSE (n + 1) + 1
    OBVIOUS
  <2> QED
    BY <1>2, <1>4, <2>2, <2>3, Zenon
<1>7. Piece(word, n + 1, g, 1) = TokenAt(word, from)
  <2>1. ~(1 > n + 1) /\ 1 \in 1..n + 1 /\ 1 - 1 = 0 /\ (to + 1) - 1 = to
    BY <1>1
  <2>2. g[1] = to + 1
    BY <1>1, <1>3, <2>1
  <2> QED
    BY <1>3, <1>5, <2>1, <2>2 DEF Piece
<1>8. ASSUME NEW i \in 1..Len(rest) PROVE Piece(word, n + 1, g, i + 1) = Piece(word, n, e, i)
  <2>1. i \in 1..n + 1 /\ i \in Nat /\ (i + 1) - 1 = i /\ (i + 1 > n + 1 <=> i > n)
    <3>1. Len(rest) <= n + 1
      BY <1>1, <1>2
    <3> QED
      BY <1>1, <1>4, <3>1
  <2>2. g[i] = e[i - 1]
    BY <1>3, <2>1
  <2>3. CASE i > n
    BY <2>1, <2>2, <2>3 DEF Piece
  <2>4. CASE ~(i > n)
    <3>1. i + 1 \in 1..n + 1
      BY <1>1, <2>1, <2>4
    <3>2. g[i + 1] = e[i]
      BY <1>3, <2>1, <3>1
    <3>3. ~(i + 1 > n + 1)
      BY <2>1, <2>4
    <3>4. Piece(word, n + 1, g, i + 1) = SubSeq(word, g[i] + 1, g[i + 1] - 1)
      BY <2>1, <3>3, Zenon DEF Piece
    <3>5. Piece(word, n, e, i) = SubSeq(word, e[i - 1] + 1, e[i] - 1)
      BY <2>4, Zenon DEF Piece
    <3> QED
      BY <2>2, <3>2, <3>4, <3>5, Zenon
  <2> QED
    BY <2>3, <2>4
<1>9. \A i \in 1..Len(tokens) : tokens[i] = Piece(word, n + 1, g, i)
  <2> SUFFICES ASSUME NEW i \in 1..Len(tokens) PROVE tokens[i] = Piece(word, n + 1, g, i)
    OBVIOUS
  <2>1. CASE i = 1
    BY <1>4, <1>7, <2>1
  <2>2. CASE i # 1
    <3>1. i - 1 \in 1..Len(rest) /\ (i - 1) + 1 = i
      BY <1>4, <2>2
    <3>2. /\ tokens[i] = rest[i - 1] /\ rest[i - 1] = Piece(word, n, e, i - 1)
          /\ Piece(word, n + 1, g, i) = Piece(word, n, e, i - 1)
      BY <1>2, <1>4, <1>8, <3>1
    <3> QED
      BY <3>2
  <2> QED
    BY <2>1, <2>2
<1>10. Pieces(word, tokens, n + 1, g)
  BY <1>6, <1>9 DEF Pieces
<1> QED
  BY <1>10 DEF tokens

\* From every place at which a token starts the text is cut at its dots.
LEMMA CutFrom ==
  ASSUME NEW word \in Seq(Chars), NEW cut, IsCut(word, cut, 0)
  PROVE  \E n, e : Ends(word, 0, n, e) /\ Pieces(word, cut[0], n, e)
<1> DEFINE L == Len(word)
<1> DEFINE S == {j \in 0..L : \A from \in L - j..L : \E n, e : Ends(word, from, n, e) /\ Pieces(word, cut[from], n, e)}
<1>1. /\ L \in Nat /\ cut \in [0..L -> Seq(Seq(Chars))]
      /\ \A from \in 0..L : cut[from] = Behind(word, cut, from)
  BY DEF IsCut
<1>2. \E n, e : Ends(word, L, n, e) /\ Pieces(word, cut[L], n, e)
  <2> DEFINE e == [i \in 0..0 |-> L]
  <2>1. DotsFrom(word, L) = {}
    BY <1>1 DEF DotsFrom
  <2>2. e \in [0..0 -> 0..L] /\ e[0] = L
    BY <1>1
  <2>3. cut[L] = <<>>
    <3>1. L \in 0..L
      BY <1>1
    <3> QED
      BY <1>1, <3>1 DEF Behind
  <2> HIDE DEF e
  <2>4. Ends(word, L, 0, e)
    BY <2>1, <2>2 DEF Ends
  <2>5. Len(cut[L]) = 0 /\ \A i \in 1..Len(cut[L]) : FALSE
    BY <2>3
  <2>6. Pieces(word, cut[L], 0, e)
    BY <2>2, <2>5 DEF Pieces
  <2> QED
    BY <2>4, <2>6
<1>3. 0 \in S
  <2>1. \A from \in L - 0..L : from = L
    BY <1>1
  <2>2. 0 \in 0..L
    BY <1>1
  <2> QED
    BY <1>2, <2>1, <2>2
<1>4. ASSUME NEW j \in 0..L - 1, j \in S PROVE j + 1 \in S
  <2>1. j + 1 \in 0..L /\ \A from \in L - (j + 1)..L : from \in 0..L
    BY <1>1
  <2>2. ASSUME NEW from \in L - (j + 1)..L
        PROVE  \E n, e : Ends(word, from, n, e) /\ Pieces(word, cut[from], n, e)
    <3> DEFINE to == EndOf(word, from)
    <3>1. from \in 0..L
      BY <2>1
    <3>2. CASE from = L
      BY <1>2, <3>2
    <3>3. CASE from # L /\ to = L
      <4> DEFINE e == [i \in 0..0 |-> from]
      <4>1. DotsFrom(word, from) = {}
        BY <3>1, <3>3, DotsBehind
      <4>2. e \in [0..0 -> 0..L] /\ e[0] = from
        BY <3>1
      <4>3. cut[from] = <<SubSeq(word, from + 1, L)>>
        <5>1. cut[from] = <<TokenAt(word, from)>> \o <<>> /\ TokenAt(word, from) \in Seq(Chars)
          BY <1>1, <3>1, <3>3, TokenIs DEF Behind
        <5>2. cut[from] = <<TokenAt(word, from)>>
          <6>1. <<TokenAt(word, from)>> \in Seq(Seq(Chars))
            BY <5>1
          <6> QED
            BY <5>1, <6>1, ConcatEmptySeq
        <5> QED
          BY <3>3, <5>2 DEF TokenAt
      <4> HIDE DEF e
      <4>4. Ends(word, from, 0, e)
        BY <4>1, <4>2 DEF Ends
      <4>5. Len(cut[from]) = 1 /\ \A i \in 1..Len(cut[from]) : i = 1 /\ cut[from][i] = SubSeq(word, from + 1, L)
        BY <4>3
      <4>6. 1 > 0 /\ 1 - 1 = 0 /\ 0 + 1 = 1
        OBVIOUS
      <4>7. Piece(word, 0, e, 1) = SubSeq(word, from + 1, L)
        BY <4>2, <4>6 DEF Piece
      <4>8. Pieces(word, cut[from], 0, e)
        BY <3>3, <4>2, <4>5, <4>6, <4>7, Zenon DEF Pieces
      <4> QED
        BY <4>4, <4>8
    <3>4. CASE from # L /\ to # L
      <4>1. to + 1 \in L - j..L /\ to + 1 \in 0..L
        BY <1>1, <3>1, <3>4, EndIs
      <4>2. PICK n, e : Ends(word, to + 1, n, e) /\ Pieces(word, cut[to + 1], n, e)
        BY <1>4, <4>1
      <4> DEFINE g == [i \in 0..n + 1 |-> IF i = 0 THEN from ELSE e[i - 1]]
      <4>3. cut[from] = <<TokenAt(word, from)>> \o cut[to + 1] /\ cut[to + 1] \in Seq(Seq(Chars))
        BY <1>1, <3>1, <3>4, <4>1 DEF Behind
      <4>4. Ends(word, from, n + 1, g)
        BY <3>1, <3>4, <4>2, EndsPrepended
      <4>5. Pieces(word, cut[from], n + 1, g)
        BY <3>1, <3>4, <4>2, <4>3, PiecesPrepended
      <4> HIDE DEF g
      <4> QED
        BY <4>4, <4>5
    <3> QED
      BY <3>2, <3>3, <3>4
  <2> QED
    BY <2>1, <2>2
<1>5. 0 \in L - L..L /\ L \in 0..L
  BY <1>1
<1>6. L \in S
  <2> HIDE DEF S
  <2> QED
    BY <1>1, <1>3, <1>4, <1>5, InductionTo
<1> QED
  BY <1>5, <1>6

\* The tokens of any text are its pieces between the dots.
LEMMA CutTokens ==
  ASSUME NEW word \in Seq(Chars)
  PROVE  CutAtDots(word, TokensOf(word))
<1> DEFINE dots == {i \in 2..Len(word) : word[i] = Dot}
<1>1. PICK cut : IsCut(word, cut, 0) /\ TokensOf(word) = cut[0]
  BY TokensAre
<1>2. PICK n, e : Ends(word, 0, n, e) /\ Pieces(word, cut[0], n, e)
  BY <1>1, CutFrom
<1>3. /\ n \in Nat /\ e \in [0..n -> 0..Len(word)] /\ e[0] = 0
      /\ \A i \in 1..n : e[i - 1] < e[i]
      /\ \A d : d \in dots <=> \E i \in 1..n : e[i] = d
  BY <1>2 DEF Ends, DotsFrom
<1> HIDE DEF dots
<1>4. \A i, j \in 1..n : i < j => e[i] < e[j]
  <2>1. Len(word) \in Nat
    OBVIOUS
  <2> QED
    BY <1>3, <2>1, Rises
<1>5. Cardinality(dots) = n
  <2> DEFINE b == [i \in 1..n |-> e[i]]
  <2>1. b \in [1..n -> dots]
    BY <1>3
  <2>2. \A i, j \in 1..n : b[i] = b[j] => i = j
    <3> SUFFICES ASSUME NEW i \in 1..n, NEW j \in 1..n, i # j PROVE b[i] # b[j]
      OBVIOUS
    <3>1. i \in Nat /\ j \in Nat /\ e[i] \in 0..Len(word) /\ e[j] \in 0..Len(word)
      BY <1>3
    <3>2. i < j \/ j < i
      BY <3>1
    <3>3. e[i] < e[j] \/ e[j] < e[i]
      BY <1>4, <3>2
    <3> QED
      BY <3>1, <3>3
  <2>3. \A d \in dots : \E i \in 1..n : b[i] = d
    BY <1>3
  <2> HIDE DEF b
  <2>4. b \in Bijection(1..n, dots)
    BY <2>1, <2>2, <2>3 DEF Bijection, Injection, Surjection, IsInjective
  <2>5. IsFiniteSet(1..n) /\ Cardinality(1..n) = n
    BY <1>3, FS_Interval
  <2> QED
    BY <2>4, <2>5, FS_Bijection DEF ExistsBijection
<1>6. e \in [0..n -> {0} \cup dots]
  <2>1. \A i \in 0..n : e[i] \in {0} \cup dots
    BY <1>3
  <2> QED
    BY <1>3, <2>1
<1>7. /\ Len(cut[0]) = IF e[n] = Len(word) THEN n ELSE n + 1
      /\ \A i \in 1..Len(cut[0]) : cut[0][i] = SubSeq(word, e[i - 1] + 1, IF i > n THEN Len(word) ELSE e[i] - 1)
  BY <1>2 DEF Pieces, Piece
<1>8. \A i \in 1..n : e[i - 1] < e[i]
  BY <1>3
<1>9. TokensOf(word) = cut[0] /\ e[0] = 0
  BY <1>1, <1>3
<1> DEFINE CutBy(tokens, m, ends) ==
      /\ ends[0] = 0 /\ \A i \in 1..m : ends[i - 1] < ends[i]
      /\ Len(tokens) = IF ends[m] = Len(word) THEN m ELSE m + 1
      /\ \A i \in 1..Len(tokens) :
           tokens[i] = SubSeq(word, ends[i - 1] + 1, IF i > m THEN Len(word) ELSE ends[i] - 1)
<1>10. CutBy(TokensOf(word), n, e)
  BY <1>7, <1>8, <1>9, Zenon
<1>11. CutAtDots(word, TokensOf(word))
         <=> \E ends \in [0..Cardinality(dots) -> {0} \cup dots] :
               CutBy(TokensOf(word), Cardinality(dots), ends)
  BY Zenon DEF CutAtDots, dots
<1> HIDE DEF CutBy
<1> QED
  BY <1>5, <1>6, <1>10, <1>11, Zenon

-------------------------------------------------------------------------------
(* The match of class names. *)

Begins(part, whole) == Len(part) <= Len(whole) /\ \A i \in 1..Len(part) : part[i] = whole[i]
EachBegins(parts, wholes) == /\ Len(parts) <= Len(wholes)
                             /\ \A i \in 1..Len(parts) : Begins(parts[i], wholes[i])

\* What is known of what is cut: the tokens from a place on.
LEMMA CutIs ==
  ASSUME NEW word \in Seq(Chars), NEW cut, IsCut(word, cut, 0), NEW from \in 0..Len(word)
  PROVE  /\ cut[from] \in Seq(Seq(Chars)) /\ Len(cut[from]) \in Nat
         /\ from = Len(word) => Len(cut[from]) = 0
         /\ from # Len(word) =>
              LET to == EndOf(word, from) IN
                /\ Len(cut[from]) >= 1 /\ cut[from][1] = TokenAt(word, from)
                /\ to = Len(word) => Len(cut[from]) = 1
                /\ to # Len(word) =>
                     /\ to + 1 \in 0..Len(word) /\ to + 1 > from
                     /\ Len(cut[from]) = Len(cut[to + 1]) + 1
                     /\ \A i \in 1..Len(cut[to + 1]) : cut[from][i + 1] = cut[to + 1][i]
<1>1. /\ cut \in [0..Len(word) -> Seq(Seq(Chars))] /\ cut[from] = Behind(word, cut, from)
  BY DEF IsCut
<1>2. cut[from] \in Seq(Seq(Chars)) /\ Len(cut[from]) \in Nat
  BY <1>1, LenProperties
<1>3. CASE from = Len(word)
  <2>1. cut[from] = <<>>
    BY <1>1, <1>3 DEF Behind
  <2> QED
    BY <1>2, <1>3, <2>1
<1>4. CASE from # Len(word)
  <2> DEFINE to == EndOf(word, from)
  <2> DEFINE rest == IF to = Len(word) THEN <<>> ELSE cut[to + 1]
  <2>1. /\ to \in from..Len(word) /\ Len(word) \in Nat /\ from \in Nat
        /\ TokenAt(word, from) \in Seq(Chars)
    BY <1>4, EndIs, TokenIs
  <2>2. to # Len(word) => to + 1 \in 0..Len(word) /\ to + 1 > from
    BY <2>1
  <2>3. rest \in Seq(Seq(Chars))
    BY <1>1, <2>2
  <2>4. cut[from] = <<TokenAt(word, from)>> \o rest
    BY <1>1, <1>4 DEF Behind
  <2>5. /\ Len(cut[from]) = Len(rest) + 1 /\ Len(rest) \in Nat
        /\ cut[from][1] = TokenAt(word, from) /\ \A i \in 1..Len(rest) : cut[from][i + 1] = rest[i]
    <3> HIDE DEF rest
    <3> QED
      BY <2>1, <2>3, <2>4, Prepended
  <2>6. CASE to = Len(word)
    <3>1. rest = <<>>
      BY <2>6
    <3>2. Len(rest) = 0
      BY <3>1
    <3>3. Len(cut[from]) >= 1
      BY <2>5
    <3>4. \A l \in Nat : l = 0 => l + 1 = 1
      OBVIOUS
    <3>5. Len(cut[from]) = 1
      BY <2>5, <3>2, <3>4, Zenon
    <3> QED
      BY <1>2, <1>4, <2>5, <2>6, <3>3, <3>5, Zenon
  <2>7. CASE to # Len(word)
    <3>1. rest = cut[to + 1]
      BY <2>7
    <3>2. Len(cut[from]) >= 1
      BY <2>5
    <3> HIDE DEF rest, to
    <3>3. /\ to + 1 \in 0..Len(word) /\ to + 1 > from
          /\ Len(cut[from]) = Len(cut[to + 1]) + 1
          /\ \A i \in 1..Len(cut[to + 1]) : cut[from][i + 1] = cut[to + 1][i]
      BY <2>2, <2>5, <2>7, <3>1, Zenon
    <3> QED
      BY <1>2, <1>4, <2>5, <2>7, <3>2, <3>3, Zenon DEF to
  <2> QED
    BY <2>6, <2>7
<1> QED
  BY <1>3, <1>4

\* A token of the beginning of a text is the token of the text, or the beginning of
\* it where the text goes on.
LEMMA EndOfPart ==
  ASSUME NEW word \in Seq(Chars), NEW part \in Seq(Chars), Begins(part, word),
         NEW from \in 0..Len(part), from # Len(part)
  PROVE  LET a == EndOf(part, from)
             b == EndOf(word, from) IN
           /\ from \in 0..Len(word) /\ from # Len(word)
           /\ Begins(TokenAt(part, from), TokenAt(word, from))
           /\ a # Len(part) => a = b /\ b # Len(word)
<1> DEFINE a == EndOf(part, from)
<1> DEFINE b == EndOf(word, from)
<1> DEFINE l == Len(part)
<1> DEFINE m == Len(word)
<1>1. /\ l \in Nat /\ m \in Nat /\ l <= m /\ \A i \in 1..l : part[i] = word[i]
      /\ from \in 0..m /\ from # m /\ from \in Nat
  BY LenProperties DEF Begins
<1>2. /\ a \in from..l /\ a > 0 /\ (a = l \/ part[a + 1] = Dot)
      /\ \A i \in from..a - 1 : i > 0 => part[i + 1] # Dot
  BY EndIs
<1>3. /\ b \in from..m /\ b > 0 /\ (b = m \/ word[b + 1] = Dot)
      /\ \A i \in from..b - 1 : i > 0 => word[i + 1] # Dot
  BY <1>1, EndIs
<1>4. /\ TokenAt(part, from) \in Seq(Chars) /\ Len(TokenAt(part, from)) = a - from
      /\ \A i \in 1..a - from : TokenAt(part, from)[i] = part[from + i]
      /\ TokenAt(word, from) \in Seq(Chars) /\ Len(TokenAt(word, from)) = b - from
      /\ \A i \in 1..b - from : TokenAt(word, from)[i] = word[from + i]
  BY <1>1, TokenIs
<1> HIDE DEF a, b, l, m
<1>5. ~(b < a)
  <2> SUFFICES ASSUME b < a PROVE FALSE
    OBVIOUS
  <2>1. b \in from..a - 1 /\ b + 1 \in 1..l /\ b # m
    BY <1>1, <1>2, <1>3
  <2> QED
    BY <1>1, <1>2, <1>3, <2>1
<1>6. a < b => a = l
  <2> SUFFICES ASSUME a < b, a # l PROVE FALSE
    OBVIOUS
  <2>1. a \in from..b - 1 /\ a + 1 \in 1..l
    BY <1>1, <1>2, <1>3
  <2> QED
    BY <1>1, <1>2, <1>3, <2>1
<1>7. a <= b /\ (a # l => a = b /\ b # m)
  BY <1>1, <1>2, <1>3, <1>5, <1>6
<1>8. Begins(TokenAt(part, from), TokenAt(word, from))
  <2>1. Len(TokenAt(part, from)) <= Len(TokenAt(word, from))
    BY <1>2, <1>3, <1>4, <1>7
  <2>2. ASSUME NEW i \in 1..Len(TokenAt(part, from))
        PROVE  TokenAt(part, from)[i] = TokenAt(word, from)[i]
    <3>1. i \in 1..a - from /\ i \in 1..b - from /\ from + i \in 1..l
      BY <1>1, <1>2, <1>3, <1>4, <1>7
    <3> QED
      BY <1>1, <1>4, <3>1
  <2> QED
    BY <2>1, <2>2 DEF Begins
<1> QED
  BY <1>1, <1>7, <1>8 DEF a, b, l, m

\* Where a token ends at a dot the tokens after it are those of the rest.
LEMMA CutNext ==
  ASSUME NEW word \in Seq(Chars), NEW cut, IsCut(word, cut, 0),
         NEW f \in 0..Len(word), f # Len(word), EndOf(word, f) # Len(word)
  PROVE  /\ Len(cut[f]) = Len(cut[EndOf(word, f) + 1]) + 1
         /\ \A i \in 1..Len(cut[EndOf(word, f) + 1]) :
              cut[f][i + 1] = cut[EndOf(word, f) + 1][i]
  BY CutIs

\* The tokens of the beginning of a text begin those of the text.
LEMMA TokensBegin ==
  ASSUME NEW word \in Seq(Chars), NEW part \in Seq(Chars), Begins(part, word),
         NEW whole, IsCut(word, whole, 0), NEW cut, IsCut(part, cut, 0)
  PROVE  EachBegins(cut[0], whole[0])
<1> DEFINE L == Len(part)
<1> DEFINE S == {j \in 0..L : \A from \in L - j..L : EachBegins(cut[from], whole[from])}
<1>1. L \in Nat /\ L <= Len(word) /\ Len(word) \in Nat /\ \A from \in 0..L : from \in 0..Len(word)
  BY LenProperties DEF Begins
<1>2. EachBegins(cut[L], whole[L])
  <2>1. Len(cut[L]) = 0 /\ Len(whole[L]) \in Nat
    <3>1. L \in 0..L /\ L \in 0..Len(word)
      BY <1>1
    <3> QED
      BY <3>1, CutIs
  <2>2. Len(cut[L]) <= Len(whole[L]) /\ \A i \in 1..Len(cut[L]) : FALSE
    BY <2>1
  <2> QED
    BY <2>2 DEF EachBegins
<1>3. 0 \in S
  <2>1. 0 \in 0..L /\ \A from \in L - 0..L : from = L
    BY <1>1
  <2> QED
    BY <1>2, <2>1
<1>4. ASSUME NEW j \in 0..L - 1, j \in S PROVE j + 1 \in S
  <2>1. j + 1 \in 0..L /\ \A from \in L - (j + 1)..L : from \in 0..L
    BY <1>1
  <2>2. ASSUME NEW from \in L - (j + 1)..L PROVE EachBegins(cut[from], whole[from])
    <3> DEFINE a == EndOf(part, from)
    <3> DEFINE b == EndOf(word, from)
    <3>1. from \in 0..L /\ from \in 0..Len(word)
      BY <1>1, <2>1
    <3>2. CASE from = L
      BY <1>2, <3>2
    <3>3. CASE from # L
      <4>1. /\ from # Len(word) /\ Begins(TokenAt(part, from), TokenAt(word, from))
            /\ a # L => a = b /\ b # Len(word)
        BY <3>1, <3>3, EndOfPart
      <4>2. /\ Len(cut[from]) \in Nat /\ Len(whole[from]) \in Nat /\ Len(whole[from]) >= 1
            /\ cut[from][1] = TokenAt(part, from) /\ whole[from][1] = TokenAt(word, from)
            /\ a = L => Len(cut[from]) = 1
        BY <3>1, <3>3, <4>1, CutIs
      <4>3. CASE a = L
        <5>1. Len(cut[from]) <= Len(whole[from]) /\ \A i \in 1..Len(cut[from]) : i = 1
          <6>1. Len(cut[from]) = 1
            BY <4>2, <4>3, Zenon
          <6>2. \A k, n : k = 1 /\ n >= 1 => k <= n /\ \A i \in 1..k : i = 1
            OBVIOUS
          <6> QED
            BY <4>2, <6>1, <6>2, Zenon
        <5> QED
          BY <4>1, <4>2, <5>1 DEF EachBegins
      <4>4. CASE a # L
        <5>1. /\ a + 1 \in 0..L /\ a + 1 > from /\ Len(cut[from]) = Len(cut[a + 1]) + 1
              /\ \A i \in 1..Len(cut[a + 1]) : cut[from][i + 1] = cut[a + 1][i]
          <6>1. a \in from..L
            BY <3>1, <3>3, EndIs
          <6>2. a + 1 \in 0..L /\ a + 1 > from
            BY <1>1, <3>1, <4>4, <6>1
          <6>3. /\ Len(cut[from]) = Len(cut[EndOf(part, from) + 1]) + 1
                /\ \A i \in 1..Len(cut[EndOf(part, from) + 1]) :
                     cut[from][i + 1] = cut[EndOf(part, from) + 1][i]
            BY <3>1, <3>3, <4>4, CutNext
          <6> QED
            BY <6>2, <6>3
        <5>2. /\ Len(whole[from]) = Len(whole[a + 1]) + 1
              /\ \A i \in 1..Len(whole[a + 1]) : whole[from][i + 1] = whole[a + 1][i]
          <6>1. a = b /\ b # Len(word) /\ from # Len(word)
            BY <4>1, <4>4
          <6>2. /\ Len(whole[from]) = Len(whole[b + 1]) + 1
                /\ \A i \in 1..Len(whole[b + 1]) : whole[from][i + 1] = whole[b + 1][i]
            <7>1. from \in 0..Len(word) /\ from # Len(word) /\ EndOf(word, from) # Len(word)
              BY <3>1, <6>1
            <7>2. /\ Len(whole[from]) = Len(whole[EndOf(word, from) + 1]) + 1
                  /\ \A i \in 1..Len(whole[EndOf(word, from) + 1]) :
                       whole[from][i + 1] = whole[EndOf(word, from) + 1][i]
              <8> HIDE DEF a, b, L, S
              <8> QED
                BY <7>1, CutNext
            <7> QED
              BY <7>2
          <6> QED
            BY <6>1, <6>2, Zenon
        <5>3. Len(cut[a + 1]) \in Nat /\ Len(whole[a + 1]) \in Nat
          BY <1>1, <5>1, CutIs
        <5> HIDE DEF a
        <5>4. a + 1 \in L - j..L
          BY <1>1, <3>1, <5>1
        <5>5. /\ Len(cut[a + 1]) <= Len(whole[a + 1])
              /\ \A i \in 1..Len(cut[a + 1]) : Begins(cut[a + 1][i], whole[a + 1][i])
          BY <1>4, <5>4 DEF EachBegins
        <5>6. Len(cut[from]) <= Len(whole[from])
          <6>1. \A k, n \in Nat : k <= n => k + 1 <= n + 1
            OBVIOUS
          <6> QED
            BY <5>1, <5>2, <5>3, <5>5, <6>1, Zenon
        <5>7. ASSUME NEW i \in 1..Len(cut[from]) PROVE Begins(cut[from][i], whole[from][i])
          <6>1. CASE i = 1
            BY <4>1, <4>2, <6>1
          <6>2. CASE i # 1
            <7>1. i - 1 \in 1..Len(cut[a + 1]) /\ (i - 1) + 1 = i
              BY <5>1, <5>3, <6>2
            <7>2. i - 1 \in 1..Len(whole[a + 1])
              BY <5>3, <5>5, <7>1
            <7>3. cut[from][i] = cut[a + 1][i - 1] /\ whole[from][i] = whole[a + 1][i - 1]
              BY <5>1, <5>2, <7>1, <7>2
            <7> QED
              BY <5>5, <7>1, <7>3
          <6> QED
            BY <6>1, <6>2
        <5> QED
          BY <5>6, <5>7 DEF EachBegins
      <4> QED
        BY <4>3, <4>4
    <3> QED
      BY <3>2, <3>3
  <2> QED
    BY <2>1, <2>2
<1>5. 0 \in L - L..L /\ L \in 0..L
  BY <1>1
<1>6. L \in S
  <2> HIDE DEF S
  <2> QED
    BY <1>1, <1>3, <1>4, <1>5, InductionTo
<1> QED
  BY <1>5, <1>6

\* A text whose tokens are no longer than those of another is no longer, if no dot ends it.
EachFits(parts, wholes) == /\ Len(parts) <= Len(wholes)
                           /\ \A i \in 1..Len(parts) : Len(parts[i]) <= Len(wholes[i])

LEMMA EachFitsRest ==
  ASSUME NEW word \in Seq(Chars), NEW word2 \in Seq(Chars),
         NEW cut, IsCut(word, cut, 0), NEW cut2, IsCut(word2, cut2, 0),
         NEW f \in 0..Len(word), f # Len(word), NEW g \in 0..Len(word2), g # Len(word2),
         EachFits(cut[f], cut2[g]),
         EndOf(word, f) # Len(word), EndOf(word2, g) # Len(word2)
  PROVE  EachFits(cut[EndOf(word, f) + 1], cut2[EndOf(word2, g) + 1])
<1> DEFINE c == cut[EndOf(word, f) + 1]
<1> DEFINE c2 == cut2[EndOf(word2, g) + 1]
<1>1. Len(cut[f]) = Len(c) + 1 /\ \A i \in 1..Len(c) : cut[f][i + 1] = c[i]
  BY CutIs
<1>2. Len(cut2[g]) = Len(c2) + 1 /\ \A i \in 1..Len(c2) : cut2[g][i + 1] = c2[i]
  BY CutIs
<1>3. Len(c) \in Nat /\ Len(c2) \in Nat
  <2>1. EndOf(word, f) + 1 \in 0..Len(word) /\ EndOf(word2, g) + 1 \in 0..Len(word2)
    BY CutIs
  <2> QED
    BY <2>1, CutIs
<1> HIDE DEF c, c2
<1>4. Len(cut[f]) <= Len(cut2[g]) /\ \A i \in 1..Len(cut[f]) : Len(cut[f][i]) <= Len(cut2[g][i])
  BY DEF EachFits
<1>5. Len(c) <= Len(c2)
  <2>1. \A k, n \in Nat : k + 1 <= n + 1 => k <= n
    OBVIOUS
  <2> QED
    BY <1>1, <1>2, <1>3, <1>4, <2>1, Zenon
<1>6. ASSUME NEW i \in 1..Len(c) PROVE Len(c[i]) <= Len(c2[i])
  <2>1. i \in 1..Len(c2) /\ i + 1 \in 1..Len(c) + 1
    BY <1>3, <1>5
  <2>2. i + 1 \in 1..Len(cut[f])
    BY <1>1, <2>1, Zenon
  <2>3. Len(cut[f][i + 1]) <= Len(cut2[g][i + 1])
    BY <1>4, <2>2
  <2> QED
    BY <1>1, <1>2, <2>1, <2>3, Zenon
<1> QED
  BY <1>5, <1>6 DEF EachFits, c, c2

LEMMA FittingIsShorter ==
  ASSUME NEW word \in Seq(Chars), NEW word2 \in Seq(Chars), word # <<>>, word[Len(word)] # Dot,
         NEW cut, IsCut(word, cut, 0), NEW cut2, IsCut(word2, cut2, 0), EachFits(cut[0], cut2[0])
  PROVE  Len(word) <= Len(word2)
<1> DEFINE L == Len(word)
<1> DEFINE M == Len(word2)
<1> DEFINE CutBy(f) == \A g \in 0..M : EachFits(cut[f], cut2[g]) => L - f <= M - g
<1> DEFINE S == {j \in 0..L : \A f \in L - j..L : CutBy(f)}
<1>1. L \in Nat /\ M \in Nat
  BY LenProperties
<1>2. 0 \in S
  <2>1. 0 \in 0..L /\ \A f \in L - 0..L : f = L
    BY <1>1
  <2>2. \A g \in 0..M : L - L <= M - g
    BY <1>1
  <2> QED
    BY <2>1, <2>2
<1>3. ASSUME NEW j \in 0..L - 1, j \in S PROVE j + 1 \in S
  <2>1. j + 1 \in 0..L /\ \A f \in L - (j + 1)..L : f \in 0..L
    BY <1>1
  <2>2. ASSUME NEW f \in L - (j + 1)..L, NEW g \in 0..M, EachFits(cut[f], cut2[g])
        PROVE  L - f <= M - g
    <3> DEFINE a == EndOf(word, f)
    <3> DEFINE b == EndOf(word2, g)
    <3>1. f \in 0..L
      BY <2>1
    <3>2. CASE f = L
      BY <1>1, <3>2
    <3>3. CASE f # L
      <4>1. /\ Len(cut[f]) >= 1 /\ Len(cut[f]) \in Nat /\ cut[f][1] = TokenAt(word, f)
        BY <3>1, <3>3, CutIs
      <4>2. /\ Len(cut2[g]) \in Nat /\ Len(cut[f]) <= Len(cut2[g])
            /\ \A i \in 1..Len(cut[f]) : Len(cut[f][i]) <= Len(cut2[g][i])
        BY <2>2, CutIs DEF EachFits
      <4>3. g # M
        <5>1. g = M => Len(cut2[g]) = 0
          BY CutIs
        <5>2. \A k, n \in Nat : k >= 1 /\ k <= n => n # 0
          OBVIOUS
        <5> QED
          BY <4>1, <4>2, <5>1, <5>2, Zenon
      <4>4. cut2[g][1] = TokenAt(word2, g)
        BY <4>3, CutIs
      <4>5. a \in f..L /\ (a = L \/ word[a + 1] = Dot) /\ b \in g..M
        BY <3>1, <3>3, <4>3, EndIs
      <4>6. a - f <= b - g
        <5>1. Len(TokenAt(word, f)) = a - f /\ Len(TokenAt(word2, g)) = b - g
          BY <3>1, <3>3, <4>3, TokenIs
        <5>2. 1 \in 1..Len(cut[f])
          BY <4>1
        <5>3. Len(TokenAt(word, f)) <= Len(TokenAt(word2, g))
          BY <4>1, <4>2, <4>4, <5>2
        <5> QED
          BY <5>1, <5>3, Zenon
      <4>7. CASE a = L
        BY <1>1, <3>1, <4>5, <4>6, <4>7
      <4>8. CASE a # L
        <5>1. a + 1 \in 0..L /\ a + 1 # L
          BY <1>1, <3>1, <4>5, <4>8
        <5>2. Len(cut[f]) = Len(cut[a + 1]) + 1
          BY <3>1, <3>3, <4>8, CutIs
        <5>3. Len(cut[a + 1]) >= 1 /\ Len(cut[a + 1]) \in Nat
          BY <5>1, CutIs
        <5>4. b # M
          <6>1. b = M => Len(cut2[g]) = 1
            BY <4>3, CutIs
          <6>2. \A k, m, n \in Nat : m = k + 1 /\ k >= 1 /\ m <= n => n # 1
            OBVIOUS
          <6> QED
            BY <4>1, <4>2, <5>2, <5>3, <6>1, <6>2, Zenon
        <5>5. EachFits(cut[a + 1], cut2[b + 1])
          BY <2>2, <3>1, <3>3, <4>3, <4>8, <5>4, EachFitsRest
        <5> HIDE DEF a, b
        <5>6. a + 1 \in L - j..L /\ b + 1 \in 0..M
          BY <1>1, <3>1, <4>5, <5>1, <5>4
        <5>7. L - (a + 1) <= M - (b + 1)
          BY <1>3, <5>5, <5>6
        <5> QED
          BY <1>1, <3>1, <4>5, <4>6, <5>7
      <4> QED
        BY <4>7, <4>8
    <3> QED
      BY <3>2, <3>3
  <2> QED
    BY <2>1, <2>2
<1>4. 0 \in L - L..L /\ L \in 0..L /\ 0 \in 0..M
  BY <1>1
<1>5. L \in S
  <2> HIDE DEF S
  <2> QED
    BY <1>1, <1>2, <1>3, <1>4, InductionTo
<1>6. L - 0 <= M - 0
  BY <1>4, <1>5
<1> QED
  BY <1>1, <1>6

\* A token that begins with another begins with the beginning of that one.
LEMMA StartsNarrower ==
  ASSUME NEW token \in Seq(Chars), NEW whole \in Seq(Chars), NEW part \in Seq(Chars),
         Begins(part, whole), StartsWith(token, whole)
  PROVE  StartsWith(token, part)
<1>1. /\ Len(part) \in Nat /\ Len(whole) \in Nat /\ Len(token) \in Nat
      /\ DOMAIN part = 1..Len(part) /\ DOMAIN whole = 1..Len(whole)
  BY LenProperties
<1>2. Len(part) <= Len(whole) /\ \A i \in 1..Len(part) : part[i] = whole[i]
  BY DEF Begins
<1>3. Len(whole) <= Len(token) /\ \A i \in DOMAIN whole : Upper[whole[i]] = Upper[token[i]]
  BY DEF StartsWith
<1>4. Len(part) <= Len(token)
  BY <1>1, <1>2, <1>3
<1>5. \A i \in DOMAIN part : Upper[part[i]] = Upper[token[i]]
  BY <1>1, <1>2, <1>3
<1> QED
  BY <1>4, <1>5 DEF StartsWith

\* The tokens of a text are sequences; a text with characters has one.
LEMMA TokensKnown ==
  ASSUME NEW word \in Seq(Chars)
  PROVE  /\ TokensOf(word) \in Seq(Seq(Chars)) /\ Len(TokensOf(word)) \in Nat
         /\ DOMAIN TokensOf(word) = 1..Len(TokensOf(word))
         /\ Len(word) > 0 => Len(TokensOf(word)) >= 1
<1>1. PICK cut : IsCut(word, cut, 0) /\ TokensOf(word) = cut[0]
  BY TokensAre
<1>2. 0 \in 0..Len(word) /\ (Len(word) > 0 => 0 # Len(word))
  BY LenProperties
<1>3. /\ cut[0] \in Seq(Seq(Chars)) /\ Len(cut[0]) \in Nat
      /\ 0 # Len(word) => Len(cut[0]) >= 1
  BY <1>1, <1>2, CutIs
<1>4. DOMAIN cut[0] = 1..Len(cut[0])
  BY <1>3, LenProperties
<1> QED
  BY <1>1, <1>2, <1>3, <1>4, Zenon

\* What matches a filter matches one whose tokens begin the filter's.
LEMMA MatchNarrower ==
  ASSUME NEW name \in Seq(Seq(Chars)), NEW wholes \in Seq(Seq(Chars)),
         NEW parts \in Seq(Seq(Chars)),
         Len(parts) >= 1, EachBegins(parts, wholes), Match(name, wholes)
  PROVE  Match(name, parts)
<1>1. /\ Len(name) \in Nat /\ DOMAIN name = 1..Len(name)
      /\ Len(wholes) \in Nat /\ DOMAIN wholes = 1..Len(wholes)
      /\ Len(parts) \in Nat /\ DOMAIN parts = 1..Len(parts)
  BY LenProperties
<1>2. Len(parts) <= Len(wholes) /\ \A i \in 1..Len(parts) : Begins(parts[i], wholes[i])
  BY DEF EachBegins
<1>3. /\ 1 \in 1..Len(parts) /\ 1 \in 1..Len(wholes)
      /\ \A i \in 1..Len(parts) : i \in 1..Len(wholes) /\ parts[i] \in Seq(Chars)
      /\ \A i \in 1..Len(wholes) : wholes[i] \in Seq(Chars)
      /\ \A i \in 1..Len(name) : name[i] \in Seq(Chars)
  BY <1>1, <1>2
<1>4. CASE Len(wholes) = 1
  <2>1. Len(parts) = 1
    <3>1. \A k \in Nat : k >= 1 /\ k <= 1 => k = 1
      OBVIOUS
    <3> QED
      BY <1>1, <1>2, <1>4, <3>1, Zenon
  <2>2. PICK i \in DOMAIN name : StartsWith(name[i], wholes[1])
    BY <1>4, Zenon DEF Match
  <2>3. StartsWith(name[i], parts[1])
    BY <1>1, <1>2, <1>3, <2>2, StartsNarrower
  <2> QED
    BY <2>1, <2>3, Zenon DEF Match
<1>5. CASE Len(wholes) # 1
  <2>1. /\ Len(name) > 1 /\ Len(name) >= Len(wholes)
        /\ \A i \in DOMAIN wholes : StartsWith(name[i], wholes[i])
    BY <1>5, Zenon DEF Match
  <2>2. ASSUME NEW i \in 1..Len(parts)
        PROVE  i \in 1..Len(name) /\ StartsWith(name[i], parts[i])
    <3>1. i \in 1..Len(wholes) /\ i \in 1..Len(name)
      BY <1>1, <1>3, <2>1
    <3>2. /\ name[i] \in Seq(Chars) /\ wholes[i] \in Seq(Chars) /\ parts[i] \in Seq(Chars)
          /\ Begins(parts[i], wholes[i])
      BY <1>2, <1>3, <3>1
    <3>3. StartsWith(name[i], wholes[i])
      BY <1>1, <2>1, <3>1, Zenon
    <3> QED
      BY <3>1, <3>2, <3>3, StartsNarrower
  <2>3. Len(name) >= Len(parts)
    BY <1>1, <1>2, <2>1
  <2>4. CASE Len(parts) = 1
    <3>1. \E i \in DOMAIN name : StartsWith(name[i], parts[1])
      BY <1>1, <1>3, <2>2
    <3> QED
      BY <2>4, <3>1, Zenon DEF Match
  <2>5. CASE Len(parts) # 1
    <3>1. \A i \in DOMAIN parts : StartsWith(name[i], parts[i])
      BY <1>1, <2>2
    <3> QED
      BY <2>1, <2>3, <2>5, <3>1, Zenon DEF Match
  <2> QED
    BY <2>4, <2>5
<1> QED
  BY <1>4, <1>5

LEMMA BeginningMatched ==
  ASSUME NEW name \in Seq(Chars), NEW word \in Seq(Chars), NEW n \in 1..Len(word),
         Match(TokensOf(name), TokensOf(word))
  PROVE  Match(TokensOf(name), TokensOf(SubSeq(word, 1, n)))
<1> DEFINE part == SubSeq(word, 1, n)
<1>1. part \in Seq(Chars) /\ Len(part) = n /\ \A i \in 1..n : part[i] = word[i]
  <2>1. /\ 1 \in 1..Len(word) + 1 /\ n \in 1 - 1..Len(word) /\ n - 1 + 1 = n
        /\ \A i \in 1..n : 1 + i - 1 = i
    BY LenProperties
  <2>2. /\ \A i \in 1..n : word[i] \in Chars
        /\ 1 \in Int /\ n \in Int /\ 1 <= n /\ n - 1 + 1 = n
    BY LenProperties
  <2>3. /\ part \in Seq(Chars)
        /\ Len(part) = IF 1 <= n THEN n - 1 + 1 ELSE 0
        /\ \A i \in 1..n - 1 + 1 : part[i] = word[1 + i - 1]
    BY <2>2, SubSeqProperties
  <2> HIDE DEF part
  <2> QED
    BY <2>1, <2>2, <2>3
<1> HIDE DEF part
<1>2. Begins(part, word) /\ Len(part) > 0
  <2>1. n \in Nat /\ n > 0 /\ n <= Len(word) /\ Len(word) \in Nat
    BY LenProperties
  <2>2. Len(part) <= Len(word) /\ Len(part) > 0
    BY <1>1, <2>1
  <2> QED
    BY <1>1, <2>2, Zenon DEF Begins
<1>3. PICK cut : IsCut(part, cut, 0) /\ TokensOf(part) = cut[0]
  BY <1>1, TokensAre
<1>4. PICK whole : IsCut(word, whole, 0) /\ TokensOf(word) = whole[0]
  BY TokensAre
<1>5. EachBegins(TokensOf(part), TokensOf(word))
  <2>1. EachBegins(cut[0], whole[0])
    BY <1>1, <1>2, <1>3, <1>4, TokensBegin
  <2> QED
    BY <1>3, <1>4, <2>1
<1>6. /\ TokensOf(part) \in Seq(Seq(Chars)) /\ TokensOf(word) \in Seq(Seq(Chars))
      /\ TokensOf(name) \in Seq(Seq(Chars)) /\ Len(TokensOf(part)) >= 1
  BY <1>1, <1>2, TokensKnown
<1> QED
  BY <1>5, <1>6, MatchNarrower DEF part

\* No token is longer than its text.
LEMMA TokenShort ==
  ASSUME NEW word \in Seq(Chars), NEW i \in 1..Len(TokensOf(word))
  PROVE  Len(TokensOf(word)[i]) <= Len(word)
<1>1. PICK cut : IsCut(word, cut, 0) /\ TokensOf(word) = cut[0]
  BY TokensAre
<1>2. PICK n, e : Ends(word, 0, n, e) /\ Pieces(word, cut[0], n, e)
  BY <1>1, CutFrom
<1>3. n \in Nat /\ e \in [0..n -> 0..Len(word)] /\ Len(word) \in Nat
  BY <1>2, LenProperties DEF Ends
<1> DEFINE from == e[i - 1] + 1
<1> DEFINE to == IF i > n THEN Len(word) ELSE e[i] - 1
<1>4. TokensOf(word)[i] = SubSeq(word, from, to)
  BY <1>1, <1>2, Zenon DEF Pieces, Piece
<1>5. i \in Nat \ {0} /\ i <= n + 1
  <2>1. Len(cut[0]) <= n + 1 /\ Len(cut[0]) \in Nat
    <3>1. \A l : l = n \/ l = n + 1 => l <= n + 1 /\ l \in Nat
      BY <1>3
    <3> QED
      BY <1>2, <3>1, Zenon DEF Pieces
  <2> QED
    BY <1>1, <1>3, <2>1
<1>6. e[i - 1] \in 0..Len(word)
  <2>1. i - 1 \in 0..n
    BY <1>3, <1>5
  <2> QED
    BY <1>3, <2>1
<1>7. to \in Int /\ to <= Len(word)
  <2>1. ~(i > n) => i \in 0..n
    BY <1>3, <1>5
  <2>2. ~(i > n) => e[i] \in 0..Len(word)
    BY <1>3, <2>1
  <2> QED
    BY <1>3, <2>2
<1> HIDE DEF to
<1>8. from \in Int /\ from >= 1
  BY <1>3, <1>6
<1> HIDE DEF from
<1>9. \A k \in from..to : word[k] \in Chars
  BY <1>3, <1>7, <1>8
<1>10. Len(SubSeq(word, from, to)) = IF from <= to THEN to - from + 1 ELSE 0
  BY <1>7, <1>8, <1>9, SubSeqProperties
<1>11. (IF from <= to THEN to - from + 1 ELSE 0) <= Len(word)
  BY <1>3, <1>7, <1>8
<1> QED
  BY <1>4, <1>10, <1>11, Zenon

\* A text that the name of the class of strings begins token by token is as long.
LEMMA StringsMatched ==
  ASSUME NEW word \in Seq(Chars),
         Match(TokensOf(word), TokensOf(StringName))
  PROVE  Len(word) >= Len(StringName)
<1>1. /\ StringName \in Seq(Chars) /\ StringName # <<>> /\ StringName[Len(StringName)] # Dot
  BY QueryConstants
<1>2. /\ Len(StringName) > 0 /\ Len(StringName) \in Nat /\ Len(word) \in Nat
      /\ 0 \in 0..Len(StringName) /\ 0 # Len(StringName)
  BY <1>1, LenProperties, EmptySeq
<1>3. PICK cut : IsCut(StringName, cut, 0) /\ TokensOf(StringName) = cut[0]
  BY <1>1, TokensAre
<1>4. PICK cut2 : IsCut(word, cut2, 0) /\ TokensOf(word) = cut2[0]
  BY TokensAre
<1> DEFINE S == TokensOf(StringName)
<1> DEFINE T == TokensOf(word)
<1>5. /\ Len(S) \in Nat /\ DOMAIN S = 1..Len(S) /\ Len(S) >= 1
      /\ Len(T) \in Nat /\ DOMAIN T = 1..Len(T)
  BY <1>1, <1>2, TokensKnown
<1>6. CASE Len(S) = 1
  <2> DEFINE to == EndOf(StringName, 0)
  <2>1. PICK i \in DOMAIN T : StartsWith(T[i], S[1])
    BY <1>6, Zenon DEF Match
  <2>2. Len(S[1]) <= Len(T[i]) /\ Len(T[i]) <= Len(word)
    BY <1>5, <2>1, TokenShort DEF StartsWith
  <2>3. to = Len(StringName)
    <3> SUFFICES ASSUME to # Len(StringName) PROVE FALSE
      OBVIOUS
    <3>1. to \in 0..Len(StringName) /\ (to = Len(StringName) \/ StringName[to + 1] = Dot)
      BY <1>1, <1>2, EndIs
    <3>2. to + 1 \in 0..Len(StringName) /\ Len(cut[0]) = Len(cut[to + 1]) + 1
      BY <1>1, <1>2, <1>3, CutIs
    <3>3. to + 1 # Len(StringName)
      BY <1>1, <3>1
    <3>4. Len(cut[to + 1]) >= 1 /\ Len(cut[to + 1]) \in Nat
      BY <1>1, <1>3, <3>2, <3>3, CutIs
    <3>5. \A k, m : k \in Nat /\ k >= 1 /\ m = k + 1 => m # 1
      OBVIOUS
    <3> QED
      BY <1>3, <1>6, <3>2, <3>4, <3>5, Zenon
  <2>4. S[1] = TokenAt(StringName, 0) /\ Len(TokenAt(StringName, 0)) = to - 0
    BY <1>1, <1>2, <1>3, CutIs, TokenIs
  <2>5. Len(S[1]) = Len(StringName)
    <3>1. \A k, m : k \in Nat /\ m = k - 0 => m = k
      OBVIOUS
    <3> QED
      BY <1>2, <2>3, <2>4, <3>1, Zenon
  <2>6. Len(StringName) <= Len(T[i]) /\ Len(T[i]) \in Nat
    <3>1. T[i] \in Seq(Chars)
      BY <1>5, <2>1, TokensKnown
    <3> QED
      BY <2>2, <2>5, <3>1, LenProperties
  <2> QED
    BY <1>2, <2>2, <2>6
<1>7. CASE Len(S) # 1
  <2>1. /\ Len(T) >= Len(S) /\ \A i \in DOMAIN S : StartsWith(T[i], S[i])
    BY <1>7, Zenon DEF Match
  <2>2. Len(S) <= Len(T) /\ \A i \in 1..Len(S) : Len(S[i]) <= Len(T[i])
    BY <1>5, <2>1 DEF StartsWith
  <2>3. EachFits(cut[0], cut2[0])
    BY <1>3, <1>4, <2>2 DEF EachFits
  <2>4. Len(StringName) <= Len(word)
    BY <1>1, <1>3, <1>4, <2>3, FittingIsShorter
  <2> QED
    BY <1>2, <2>4
<1> QED
  BY <1>6, <1>7

-------------------------------------------------------------------------------
\* A filter by class name answers what the match does.
LEMMA ClassnameAnswers ==
  ASSUME IsFilter(asked), Root(asked).op = "classname", NEW item,
         Apply(heap, asked, item) = "Match"
  PROVE  Classname(heap, item, Root(asked).text)
<1> DEFINE holds == Classname(heap, item, Root(asked).text)
<1> DEFINE T == IF holds THEN {1} ELSE {}
<1>1. /\ Len(asked) = 1 /\ Len(asked) \in Nat /\ asked[1] = Root(asked)
  <2>1. Len(asked) \in DOMAIN asked /\ Len(asked) \in Nat
    BY DEF IsFilter
  <2>2. asked[Len(asked)].op = "classname"
    BY DEF Root
  <2>3. Len(asked) = 1
    BY <2>1, <2>2, Zenon DEF IsFilter
  <2> QED
    BY <2>1, <2>3, Zenon DEF Root
<1>2. \A n \in 1..Len(asked) : \A before :
        (\A j \in 1..n - 1 : before[j] = IF j \in T THEN "Match" ELSE "NoMatch") =>
          Answer(heap, item, asked[n], before) = IF n \in T THEN "Match" ELSE "NoMatch"
  <2> SUFFICES ASSUME NEW n \in 1..Len(asked), NEW before
               PROVE  Answer(heap, item, asked[n], before) = IF n \in T THEN "Match" ELSE "NoMatch"
    OBVIOUS
  <2>1. n = 1
    <3>1. \A l : l = 1 => \A m \in 1..l : m = 1
      OBVIOUS
    <3> QED
      BY <1>1, <3>1, Zenon
  <2>2. Answer(heap, item, asked[1], before) = IfMatch(holds)
    BY <1>1 DEF Answer
  <2>3. 1 \in T <=> holds
    OBVIOUS
  <2> HIDE DEF T, holds
  <2> QED
    BY <2>1, <2>2, <2>3 DEF IfMatch
<1>3. 1 \in T <=> holds
  OBVIOUS
<1> HIDE DEF T, holds
<1>4. Apply(heap, asked, item) = IF Len(asked) \in T THEN "Match" ELSE "NoMatch"
  BY <1>2, NodesAnswer
<1>5. 1 \in T
  BY <1>1, <1>4, Zenon
<1> QED
  BY <1>3, <1>5 DEF holds

\* What is known of a filter by class name and of the names.
LEMMA NamesKnown ==
  ASSUME SelectionInv, ByName
  PROVE  /\ Root(asked).text \in Seq(Chars)
         /\ \A c \in DOMAIN heap.classes : heap.classes[c].name \in Seq(Chars)
<1>1. IsFilter(asked) /\ IsHeap(heap) /\ asked[Len(asked)].op = "classname"
  BY DEF SelectionInv, ByName, Root
<1>2. Len(asked) \in DOMAIN asked
  BY <1>1 DEF IsFilter
<1> QED
  BY <1>1, <1>2 DEF IsFilter, IsHeap, Root

\* The tokenizer cuts the filter and every class name at their dots, whatever they are.
THEOREM TokensCorrect == QuerySpec => []TokensExact
<1>1. SelectionInv => TokensExact
  BY NamesKnown, CutTokens DEF TokensExact
<1> QED
  BY <1>1, SelectionStart, SelectionStep, PTL DEF QuerySpec

\* What a filter by class name finds each beginning of it finds, and a string is found
\* by no shorter text than the name of its class: filter_classname_t and
\* name_tokens::match, for any names and any text.
THEOREM SearchNarrows == QuerySpec => []BeginningsFind
<1>1. SelectionInv => BeginningsFind
  <2> DEFINE word == Root(asked).text
  <2> SUFFICES ASSUME SelectionInv, ByName, NEW id \in result
               PROVE  IF ItemAt(id).kind = "string" THEN Len(word) >= Len(StringName)
                      ELSE \A n \in 1..Len(word) : id \in Matches(SubSeq(word, 1, n))
    BY DEF BeginningsFind
  <2> DEFINE item == ItemAt(id)
  <2>1. /\ word \in Seq(Chars) /\ \A c \in DOMAIN heap.classes : heap.classes[c].name \in Seq(Chars)
        /\ id \in Offered /\ Classname(heap, item, word)
    <3>1. /\ id \in Offered /\ Apply(heap, asked, item) = "Match" /\ IsFilter(asked)
      BY DEF SelectionInv
    <3> HIDE DEF item
    <3> QED
      BY <3>1, NamesKnown, ClassnameAnswers DEF ByName
  <2> HIDE DEF word
  <2>2. CASE item.kind = "string"
    <3>1. Match(TokensOf(word), TokensOf(StringName))
      BY <2>1, <2>2 DEF Classname
    <3> QED
      BY <2>1, <2>2, <3>1, StringsMatched
  <2>3. CASE item.kind # "string"
    <3> SUFFICES ASSUME NEW n \in 1..Len(word) PROVE Classname(heap, item, SubSeq(word, 1, n))
      BY <2>1, <2>3 DEF Matches, Offered
    <3>1. CASE item.kind = "object"
      <4>1. /\ item.class \in DOMAIN heap.classes
            /\ Match(TokensOf(heap.classes[item.class].name), TokensOf(word))
        BY <2>1, <3>1 DEF Classname
      <4>2. Match(TokensOf(heap.classes[item.class].name), TokensOf(SubSeq(word, 1, n)))
        BY <2>1, <4>1, BeginningMatched
      <4> QED
        BY <3>1, <4>1, <4>2 DEF Classname
    <3>2. CASE item.kind = "class"
      <4>1. item.id \in DOMAIN heap.classes
        BY <2>1, <3>2 DEF SelectionInv, IsHeap, Offered, ItemAt
      <4>2. Match(TokensOf(heap.classes[item.id].name), TokensOf(word))
        BY <2>1, <3>2 DEF Classname
      <4>3. Match(TokensOf(heap.classes[item.id].name), TokensOf(SubSeq(word, 1, n)))
        BY <2>1, <4>1, <4>2, BeginningMatched
      <4> QED
        BY <3>2, <4>3 DEF Classname
    <3>3. CASE item.kind \notin {"object", "class"}
      BY <2>1, <2>3, <3>3 DEF Classname
    <3> QED
      BY <3>1, <3>2, <3>3
  <2> QED
    BY <2>2, <2>3
<1> QED
  BY <1>1, SelectionStart, SelectionStep, PTL DEF QuerySpec

-------------------------------------------------------------------------------
(* What is read of an object: HeapValues. *)

\* The constants of HeapValues.
LEMMA ValuesConstants ==
  /\ Base \in Nat /\ Base > 1 /\ Base % 2 = 0
  /\ IdWidth \in Nat /\ IdSizes \subseteq 1..IdWidth
  /\ "object" \notin DOMAIN Sizes
  /\ \A t \in DOMAIN Sizes : Sizes[t] \in 1..IdWidth
  /\ Signed \subseteq DOMAIN Sizes
  /\ MaxItems \in Nat /\ MaxFields \in Nat
BY BaseAssumption, WidthAssumption, SizesAssumption

\* A byte more makes Base times as many numbers.
LEMMA PowerIs ==
  /\ Power[0] = 1
  /\ \A n \in 0..IdWidth : Power[n] \in Nat \ {0}
  /\ \A n \in 1..IdWidth : Power[n] = Base * Power[n - 1]
<1> DEFINE N == IdWidth
<1> DEFINE A == Nat \ {0}
<1> DEFINE On(p) == Base * p
<1> DEFINE step == [p \in (1..N) \X A |-> On(p[2])]
<1>1. N \in Nat /\ Base \in Nat \ {0}
  BY ValuesConstants
<1>2. step \in [(1..N) \X A -> A]
  <2>1. \A p \in A : On(p) \in A
    BY <1>1
  <2> HIDE DEF On, A
  <2> QED
    BY <2>1
<1>3. PICK f \in [0..N -> A] : f[0] = 1 /\ \A n \in 1..N : f[n] = step[<<n, f[n - 1]>>]
  <2> HIDE DEF step, N
  <2>1. 1 \in A
    OBVIOUS
  <2> HIDE DEF A
  <2>2. Defines(N, A, 1, step)
    BY <1>1, <1>2, <2>1, RecursionExists
  <2> QED
    BY <2>2 DEF Defines
<1> HIDE DEF N
<1>4. \A n \in 1..N : f[n] = On(f[n - 1])
  <2> SUFFICES ASSUME NEW n \in 1..N PROVE f[n] = On(f[n - 1])
    OBVIOUS
  <2>1. n - 1 \in 0..N
    BY <1>1
  <2> HIDE DEF A
  <2>2. <<n, f[n - 1]>> \in (1..N) \X A
    BY <2>1
  <2> HIDE DEF On
  <2>3. step[<<n, f[n - 1]>>] = On(f[n - 1])
    BY <2>2
  <2> QED
    BY <1>3, <2>3
<1>5. f = [n \in 0..N |-> IF n = 0 THEN 1 ELSE On(f[n - 1])]
  <2>1. \A n \in 0..N : n # 0 => n \in 1..N
    BY <1>1
  <2> HIDE DEF A, On, step
  <2> QED
    BY <1>3, <1>4, <2>1
<1> DEFINE met == CHOOSE met : met = [n \in 0..N |-> IF n = 0 THEN 1 ELSE On(met[n - 1])]
<1>6. met = [n \in 0..N |-> IF n = 0 THEN 1 ELSE On(met[n - 1])]
  <2> HIDE DEF A, On, step
  <2> QED
    BY <1>5
<1>7. Power = met
  BY DEF Power, N
<1> HIDE DEF met
<1>8. met[0] = 1
  BY <1>1, <1>6
<1>9. ASSUME NEW n \in 1..N PROVE met[n] = On(met[n - 1])
  <2>1. n \in 0..N /\ n # 0
    BY <1>1
  <2> HIDE DEF On
  <2> QED
    BY <1>6, <2>1
<1>10. \A n \in 0..N : met[n] \in A
  <2> DEFINE S == {n \in 0..N : met[n] \in A}
  <2>1. 0 \in S
    BY <1>1, <1>8
  <2>2. ASSUME NEW n \in 0..N - 1, n \in S PROVE n + 1 \in S
    <3>1. n + 1 \in 1..N /\ (n + 1) - 1 = n /\ n + 1 \in 0..N /\ met[n] \in A
      BY <1>1, <2>2
    <3>2. met[n + 1] = Base * met[n]
      BY <1>9, <3>1
    <3>3. met[n + 1] \in A
      BY <1>1, <3>1, <3>2
    <3> QED
      BY <3>1, <3>3
  <2>3. \A n \in 0..N : n \in S
    <3> HIDE DEF S
    <3> QED
      BY <1>1, <2>1, <2>2, InductionTo
  <2> QED
    BY <2>3
<1> QED
  BY <1>7, <1>8, <1>9, <1>10 DEF N

\* The number that the first bytes are, byte by byte.
Counts(number, bytes, s) ==
  /\ \A n \in 0..s : number[n] \in Nat
  /\ number[0] = 0
  /\ \A n \in 1..s : number[n] = number[n - 1] * Base + bytes[n]

LEMMA NumberIs ==
  ASSUME NEW s \in Nat, NEW bytes \in [1..s -> Digits]
  PROVE  \E number : Counts(number, bytes, s) /\ Number(bytes) = number[s]
<1> DEFINE On(n, p) == p * Base + bytes[n]
<1> DEFINE step == [p \in (1..s) \X Nat |-> On(p[1], p[2])]
<1>1. Base \in Nat /\ (\A n \in 1..s : bytes[n] \in Nat) /\ Len(bytes) = s
  BY ValuesConstants DEF Digits
<1>2. \A n \in 1..s, p \in Nat : On(n, p) \in Nat
  BY <1>1
<1>3. step \in [(1..s) \X Nat -> Nat]
  <2> HIDE DEF On
  <2> QED
    BY <1>2
<1>4. PICK f \in [0..s -> Nat] : f[0] = 0 /\ \A n \in 1..s : f[n] = step[<<n, f[n - 1]>>]
  <2> HIDE DEF step
  <2>1. Defines(s, Nat, 0, step)
    BY <1>3, RecursionExists
  <2> QED
    BY <2>1 DEF Defines
<1>5. \A n \in 1..s : f[n] = On(n, f[n - 1])
  <2> SUFFICES ASSUME NEW n \in 1..s PROVE f[n] = On(n, f[n - 1])
    OBVIOUS
  <2>1. n - 1 \in 0..s
    OBVIOUS
  <2>2. <<n, f[n - 1]>> \in (1..s) \X Nat
    BY <2>1
  <2> HIDE DEF On
  <2>3. step[<<n, f[n - 1]>>] = On(n, f[n - 1])
    BY <2>2
  <2> QED
    BY <1>4, <2>3
<1>6. f = [n \in 0..s |-> IF n = 0 THEN 0 ELSE On(n, f[n - 1])]
  <2>1. \A n \in 0..s : n # 0 => n \in 1..s
    OBVIOUS
  <2> HIDE DEF On, step
  <2> QED
    BY <1>4, <1>5, <2>1
<1> DEFINE met == CHOOSE met : met = [n \in 0..s |-> IF n = 0 THEN 0 ELSE On(n, met[n - 1])]
<1>7. met = [n \in 0..s |-> IF n = 0 THEN 0 ELSE On(n, met[n - 1])]
  <2> HIDE DEF On, step
  <2> QED
    BY <1>6
<1>8. Number(bytes) = met[s]
  BY <1>1 DEF Number
<1> HIDE DEF met
<1>9. met[0] = 0
  BY <1>7
<1>10. ASSUME NEW n \in 1..s PROVE met[n] = On(n, met[n - 1])
  <2>1. n \in 0..s /\ n # 0
    OBVIOUS
  <2> HIDE DEF On
  <2> QED
    BY <1>7, <2>1
<1>11. \A n \in 0..s : met[n] \in Nat
  <2> DEFINE S == {n \in 0..s : met[n] \in Nat}
  <2>1. 0 \in S
    BY <1>9
  <2>2. ASSUME NEW n \in 0..s - 1, n \in S PROVE n + 1 \in S
    <3>1. n + 1 \in 1..s /\ (n + 1) - 1 = n /\ n + 1 \in 0..s /\ met[n] \in Nat
      BY <2>2
    <3> HIDE DEF On
    <3>2. met[n + 1] \in Nat
      BY <1>2, <1>10, <3>1
    <3> QED
      BY <3>1, <3>2
  <2>3. \A n \in 0..s : n \in S
    <3> HIDE DEF S
    <3> QED
      BY <2>1, <2>2, InductionTo
  <2> QED
    BY <2>3
<1> QED
  BY <1>8, <1>9, <1>10, <1>11 DEF Counts

\* A byte behind a number of bytes.
Added(b, p, a, r, d) ==
  /\ (a * p + r) * b + d = a * (b * p) + (r * b + d)
  /\ r * b + d \in 0..b * p - 1
LEMMA ByteAdded ==
  ASSUME NEW b \in Nat \ {0}, NEW p \in Nat \ {0}, NEW a \in Nat, NEW r \in 0..p - 1, NEW d \in 0..b - 1
  PROVE  Added(b, p, a, r, d)
<1>1. r \in Nat /\ r <= p - 1 /\ d \in Nat /\ d <= b - 1
  OBVIOUS
<1>2. (a * p + r) * b = a * (b * p) + r * b
  BY <1>1
<1>3. r * b <= (p - 1) * b
  BY <1>1
<1>4. (p - 1) * b = b * p - b
  OBVIOUS
<1>5. r * b \in Nat /\ b * p \in Nat /\ a * (b * p) \in Nat
  BY <1>1
<1>6. PICK x \in Nat, y \in Nat, z \in Nat : x = r * b /\ y = b * p /\ z = a * (b * p)
  BY <1>5
<1>7. x <= y - b
  BY <1>3, <1>4, <1>6
<1>8. x + d \in 0..y - 1
  BY <1>1, <1>6, <1>7
<1>9. (a * p + r) * b + d = z + (x + d)
  BY <1>1, <1>2, <1>6
<1> QED
  BY <1>6, <1>8, <1>9 DEF Added

\* A number of bytes with another one above its highest place.
ShiftedBy(b, p, a, c, e, d, r) ==
  ((a * b + d) * p + r) + e * (c * b * p) = ((a + e * c) * b + d) * p + r
LEMMA ByteShifted ==
  ASSUME NEW b \in Nat \ {0}, NEW p \in Nat \ {0}, NEW a \in Nat, NEW c \in Nat, NEW e \in Int,
         NEW d \in 0..b - 1, NEW r \in 0..p - 1
  PROVE  ShiftedBy(b, p, a, c, e, d, r)
<1>1. e * (c * b * p) = ((e * c) * b) * p
  OBVIOUS
<1>2. PICK g \in Int : g = e * c
  OBVIOUS
<1>3. (a + g) * b = a * b + g * b
  OBVIOUS
<1>4. PICK h \in Int, m \in Int : h = g * b /\ m = a * b + d
  OBVIOUS
<1>5. (m + h) * p = m * p + h * p
  OBVIOUS
<1>6. (a + g) * b + d = m + h
  <2>1. a * b \in Int /\ d \in Int
    OBVIOUS
  <2> QED
    BY <1>3, <1>4, <2>1
<1>7. m * p \in Int /\ h * p \in Int /\ r \in Int
  OBVIOUS
<1> QED
  BY <1>1, <1>2, <1>4, <1>5, <1>6, <1>7 DEF ShiftedBy

\* The bytes behind the first k add less than the lowest of those does.
LEMMA BytesBehind ==
  ASSUME NEW s \in 0..IdWidth, NEW bytes \in [1..s -> Digits],
         NEW number, Counts(number, bytes, s), NEW k \in 0..s
  PROVE  \A j \in 0..s - k : \E r \in 0..Power[j] - 1 :
           number[k + j] = number[k] * Power[j] + r
<1> DEFINE P(j) == Power[j]
<1> DEFINE S == {j \in 0..s - k : \E r \in 0..P(j) - 1 : number[k + j] = number[k] * P(j) + r}
<1>1. /\ s \in Nat /\ k \in Nat /\ s - k \in Nat /\ IdWidth \in Nat /\ s <= IdWidth
      /\ Base \in Nat \ {0} /\ number[k] \in Nat
      /\ \A n \in 1..s : bytes[n] \in 0..Base - 1
  BY ValuesConstants DEF Counts, Digits
<1>2. 0 \in S
  <2>1. P(0) = 1
    BY PowerIs
  <2>2. number[k + 0] = number[k] * 1 + 0
    BY <1>1
  <2> QED
    BY <1>1, <2>1, <2>2
<1>3. ASSUME NEW j \in 0..(s - k) - 1, j \in S PROVE j + 1 \in S
  <2>1. /\ k + j \in 0..s /\ k + (j + 1) \in 1..s /\ (k + (j + 1)) - 1 = k + j /\ j + 1 \in 0..s - k
        /\ j + 1 \in 1..IdWidth /\ (j + 1) - 1 = j /\ j \in 0..IdWidth
    BY <1>1
  <2>2. PICK r \in 0..P(j) - 1 : number[k + j] = number[k] * P(j) + r
    BY <1>3
  <2>3. P(j) \in Nat \ {0} /\ P(j + 1) = Base * P(j)
    BY <2>1, PowerIs
  <2>4. PICK p \in Nat \ {0}, b \in 0..Base - 1, a \in Nat :
          p = P(j) /\ b = bytes[k + (j + 1)] /\ a = number[k]
    BY <1>1, <2>1, <2>3
  <2>5. number[k + (j + 1)] = (a * p + r) * Base + b
    BY <2>1, <2>2, <2>4 DEF Counts
  <2>6. /\ (a * p + r) * Base + b = a * (Base * p) + (r * Base + b)
        /\ r * Base + b \in 0..Base * p - 1
    <3>1. Base \in Nat \ {0} /\ p \in Nat \ {0} /\ a \in Nat /\ r \in 0..p - 1 /\ b \in 0..Base - 1
      BY <1>1, <2>2, <2>4
    <3>2. Added(Base, p, a, r, b)
      BY <3>1, ByteAdded
    <3> QED
      BY <3>2 DEF Added
  <2> QED
    BY <2>1, <2>3, <2>4, <2>5, <2>6
<1>4. \A j \in 0..s - k : j \in S
  <2> HIDE DEF S
  <2> QED
    BY <1>1, <1>2, <1>3, InductionTo
<1> QED
  BY <1>4

\* So many bytes are one of as many numbers.
LEMMA NumberBounded ==
  ASSUME NEW s \in 0..IdWidth, NEW bytes \in [1..s -> Digits]
  PROVE  Number(bytes) \in 0..Power[s] - 1
<1>1. s \in Nat /\ IdWidth \in Nat
  BY ValuesConstants
<1>2. PICK number : Counts(number, bytes, s) /\ Number(bytes) = number[s]
  BY <1>1, NumberIs
<1>3. 0 \in 0..s /\ s \in 0..s - 0
  BY <1>1
<1>4. PICK r \in 0..Power[s] - 1 : number[0 + s] = number[0] * Power[s] + r
  BY <1>2, <1>3, BytesBehind
<1>5. Power[s] \in Nat /\ number[0] = 0 /\ 0 + s = s
  BY <1>1, <1>2, PowerIs DEF Counts
<1>6. 0 * Power[s] + r = r
  BY <1>5
<1> QED
  BY <1>2, <1>4, <1>5, <1>6

\* A place of a number, with another number above its highest place or without.
PlaceIs(b, p, q, d, r) == ((((q * b) + d) * p + r) \div p) % b = d
LEMMA PlaceOfNumber ==
  ASSUME NEW b \in Nat \ {0}, NEW p \in Nat \ {0}, NEW q \in Int, NEW d \in 0..b - 1, NEW r \in 0..p - 1
  PROVE  PlaceIs(b, p, q, d, r)
<1>1. PICK m \in Int : m = q * b + d
  OBVIOUS
<1>2. (m * p + r) \div p = m
  OBVIOUS
<1>3. m % b = d
  BY <1>1
<1> QED
  BY <1>1, <1>2, <1>3 DEF PlaceIs

\* The bytes of a number, or of its two's complement, are what it was made from.
LEMMA BytesOfNumber ==
  ASSUME NEW s \in 0..IdWidth, NEW bytes \in [1..s -> Digits], NEW e \in Int,
         NEW k \in 1..s
  PROVE  ((Number(bytes) + e * Power[s]) \div Power[s - k]) % Base = bytes[k]
<1> DEFINE P(j) == Power[j]
<1>1. /\ s \in Nat /\ IdWidth \in Nat /\ Base \in Nat \ {0} /\ bytes[k] \in 0..Base - 1
      /\ k - 1 \in 0..s /\ k \in 0..s /\ s - k \in 0..s - k /\ k + (s - k) = s
      /\ s - k \in 0..IdWidth
  BY ValuesConstants DEF Digits
<1>2. PICK number : Counts(number, bytes, s) /\ Number(bytes) = number[s]
  BY <1>1, NumberIs
<1>3. PICK r \in 0..P(s - k) - 1 : number[s] = number[k] * P(s - k) + r
  <2>1. \A j \in 0..s - k : \E r \in 0..P(j) - 1 : number[k + j] = number[k] * P(j) + r
    <3>1. k \in 0..s
      BY <1>1
    <3> QED
      BY <1>2, <3>1, BytesBehind
  <2>2. \E r \in 0..P(s - k) - 1 : number[k + (s - k)] = number[k] * P(s - k) + r
    BY <1>1, <2>1
  <2> QED
    BY <1>1, <2>2
<1>4. number[k] = number[k - 1] * Base + bytes[k] /\ number[k - 1] \in Nat
  BY <1>1, <1>2 DEF Counts
<1>5. P(s - k) \in Nat \ {0} /\ P(k - 1) \in Nat \ {0} /\ P(s) = P(k - 1) * Base * P(s - k)
  <2> DEFINE S == {j \in 0..s - k : P(k + j) = P(k - 1) * Base * P(j)}
  <2>0. P(k - 1) \in Nat \ {0} /\ P(s - k) \in Nat \ {0}
    <3>1. k - 1 \in 0..IdWidth
      BY <1>1
    <3> QED
      BY <1>1, <3>1, PowerIs
  <2>1. 0 \in S
    <3>1. k \in 1..IdWidth /\ k + 0 = k /\ 0 \in 0..s - k
      BY <1>1
    <3>2. P(k) = Base * P(k - 1) /\ P(0) = 1
      BY <3>1, PowerIs
    <3>3. Base * P(k - 1) = P(k - 1) * Base * 1
      BY <1>1, <2>0
    <3> QED
      BY <3>1, <3>2, <3>3
  <2>2. ASSUME NEW j \in 0..(s - k) - 1, j \in S PROVE j + 1 \in S
    <3>1. /\ k + (j + 1) \in 1..IdWidth /\ (k + (j + 1)) - 1 = k + j /\ j + 1 \in 0..s - k
          /\ j + 1 \in 1..IdWidth /\ (j + 1) - 1 = j /\ j \in 0..IdWidth
      BY <1>1
    <3>2. P(k + (j + 1)) = Base * P(k + j) /\ P(j + 1) = Base * P(j) /\ P(j) \in Nat
      BY <3>1, PowerIs
    <3>3. P(k + j) = P(k - 1) * Base * P(j)
      BY <2>2
    <3>4. PICK a \in Nat, c \in Nat : a = P(k - 1) /\ c = P(j)
      BY <2>0, <3>2
    <3>5. Base * (a * Base * c) = a * Base * (Base * c)
      BY <1>1, <3>4
    <3> QED
      BY <3>1, <3>2, <3>3, <3>4, <3>5
  <2>3. s - k \in S
    <3> HIDE DEF S
    <3>1. s - k \in Nat
      BY <1>1
    <3> QED
      BY <1>1, <2>1, <2>2, <3>1, InductionTo
  <2>4. P(k + (s - k)) = P(k - 1) * Base * P(s - k)
    BY <2>3
  <2> QED
    BY <1>1, <2>0, <2>4
<1>6. PICK a \in Nat, p \in Nat \ {0}, c \in Nat, d \in 0..Base - 1 :
        a = number[k - 1] /\ p = P(s - k) /\ c = P(k - 1) /\ d = bytes[k]
  BY <1>1, <1>4, <1>5
<1>7. Number(bytes) = (a * Base + d) * p + r /\ P(s) = c * Base * p /\ r \in 0..p - 1
  BY <1>2, <1>3, <1>4, <1>5, <1>6
<1>8. ((a * Base + d) * p + r) + e * (c * Base * p) = ((a + e * c) * Base + d) * p + r
  <2>1. /\ Base \in Nat \ {0} /\ p \in Nat \ {0} /\ a \in Nat /\ c \in Nat
        /\ d \in 0..Base - 1 /\ r \in 0..p - 1
    BY <1>1, <1>6, <1>7
  <2>2. ShiftedBy(Base, p, a, c, e, d, r)
    BY <2>1, ByteShifted
  <2> QED
    BY <2>2 DEF ShiftedBy
<1>9. ((((a + e * c) * Base + d) * p + r) \div p) % Base = d
  <2>1. PICK q \in Int : q = a + e * c
    BY <1>6
  <2>2. Base \in Nat \ {0} /\ p \in Nat \ {0} /\ d \in 0..Base - 1 /\ r \in 0..p - 1
    BY <1>1, <1>6, <1>7
  <2>3. ((((q * Base) + d) * p + r) \div p) % Base = d
    <3>1. PlaceIs(Base, p, q, d, r)
      BY <2>2, PlaceOfNumber
    <3> QED
      BY <3>1 DEF PlaceIs
  <2> QED
    BY <2>1, <2>3
<1> QED
  BY <1>6, <1>7, <1>8, <1>9

\* The size of a value.
LEMMA SizeIs ==
  ASSUME idSize \in IdSizes, NEW t \in Types
  PROVE  Size(t) \in 1..IdWidth /\ Size(t) \in 0..IdWidth
BY ValuesConstants DEF Types, Size

\* What is written is what is read: the bytes of a value give it back.
LEMMA DecodesWritten ==
  ASSUME idSize \in IdSizes, NEW t \in Types, NEW v \in Values(t)
  PROVE  /\ Encode(t, v) \in [1..Size(t) -> Digits]
         /\ ReadValue(t, Encode(t, v)) = v
<1> DEFINE s == Size(t)
<1>1. s \in 0..IdWidth
  BY SizeIs
<1>2. PICK bytes \in [1..s -> Digits] : v = ReadValue(t, bytes)
  BY DEF Values
<1>3. s \in Nat /\ Len(bytes) = s
  BY <1>1, ValuesConstants
<1> HIDE DEF s
<1>4. Number(bytes) \in Int /\ Power[s] \in Int
  BY <1>1, NumberBounded, PowerIs
<1>5. \E e \in Int : v = Number(bytes) + e * Power[s]
  <2>1. \/ v = Number(bytes) \/ v = Number(bytes) - Power[s]
    BY <1>2, <1>3 DEF ReadValue, AsSigned
  <2>2. Number(bytes) = Number(bytes) + 0 * Power[s]
    BY <1>4
  <2>3. Number(bytes) - Power[s] = Number(bytes) + (-1) * Power[s]
    BY <1>4
  <2> QED
    BY <2>1, <2>2, <2>3
<1>6. PICK e \in Int : v = Number(bytes) + e * Power[s]
  BY <1>5
<1>7. \A k \in 1..s : (v \div Power[s - k]) % Base = bytes[k]
  BY <1>1, <1>6, BytesOfNumber
<1>8. Encode(t, v) = bytes
  <2>1. Encode(t, v) = [k \in 1..s |-> (v \div Power[s - k]) % Base]
    BY DEF Encode, s
  <2> QED
    BY <1>7, <2>1
<1> QED
  BY <1>2, <1>8 DEF s

-------------------------------------------------------------------------------
\* The values of an object lie one behind the other.
LayoutFits == idSize \in IdSizes /\ layout \in Seq(Types)

LEMMA SizesAre ==
  ASSUME LayoutFits
  PROVE  /\ Length = Len(layout) /\ Length \in Nat
         /\ \A n \in 1..Length : /\ layout[n] \in Types
                                 /\ Size(layout[n]) \in 1..IdWidth
                                 /\ Size(layout[n]) \in Nat \ {0}
<1>1. IdWidth \in Nat
  BY ValuesConstants DEF LayoutFits
<1>2. Length = Len(layout) /\ Length \in Nat /\ \A n \in 1..Len(layout) : layout[n] \in Types
  BY DEF LayoutFits, Length
<1>3. \A t \in Types : Size(t) \in 1..IdWidth
  BY SizeIs DEF LayoutFits
<1>4. \A m \in 1..IdWidth : m \in Nat \ {0}
  BY <1>1
<1> QED
  BY <1>2, <1>3, <1>4

LEMMA PlacesAre ==
  ASSUME LayoutFits
  PROVE  /\ Places[0] = 0
         /\ \A n \in 0..Length : Places[n] \in Nat
         /\ \A n \in 1..Length : Places[n] = Places[n - 1] + Size(layout[n])
<1> DEFINE N == Length
<1> DEFINE On(n, p) == p + Size(layout[n])
<1> DEFINE step == [p \in (1..N) \X Nat |-> On(p[1], p[2])]
<1>1. N \in Nat
  BY SizesAre
<1>2. \A n \in 1..N, p \in Nat : On(n, p) \in Nat
  BY SizesAre
<1> HIDE DEF N
<1>3. step \in [(1..N) \X Nat -> Nat]
  <2> HIDE DEF On
  <2> QED
    BY <1>2
<1>4. PICK f \in [0..N -> Nat] : f[0] = 0 /\ \A n \in 1..N : f[n] = step[<<n, f[n - 1]>>]
  <2> HIDE DEF step
  <2>1. Defines(N, Nat, 0, step)
    BY <1>1, <1>3, RecursionExists
  <2> QED
    BY <2>1 DEF Defines
<1>5. \A n \in 1..N : f[n] = On(n, f[n - 1])
  <2> SUFFICES ASSUME NEW n \in 1..N PROVE f[n] = On(n, f[n - 1])
    OBVIOUS
  <2>1. n - 1 \in 0..N
    BY <1>1
  <2>2. <<n, f[n - 1]>> \in (1..N) \X Nat
    BY <2>1
  <2> HIDE DEF On
  <2>3. step[<<n, f[n - 1]>>] = On(n, f[n - 1])
    BY <2>2
  <2> QED
    BY <1>4, <2>3
<1>6. f = [n \in 0..N |-> IF n = 0 THEN 0 ELSE On(n, f[n - 1])]
  <2>1. \A n \in 0..N : n # 0 => n \in 1..N
    BY <1>1
  <2> HIDE DEF On, step
  <2> QED
    BY <1>4, <1>5, <2>1
<1> DEFINE met == CHOOSE met : met = [n \in 0..N |-> IF n = 0 THEN 0 ELSE On(n, met[n - 1])]
<1>7. met = [n \in 0..N |-> IF n = 0 THEN 0 ELSE On(n, met[n - 1])]
  <2> HIDE DEF On, step
  <2> QED
    BY <1>6
<1>8. Places = met
  BY DEF Places, N
<1> HIDE DEF met
<1>9. met[0] = 0
  BY <1>1, <1>7
<1>10. ASSUME NEW n \in 1..N PROVE met[n] = On(n, met[n - 1])
  <2>1. n \in 0..N /\ n # 0
    BY <1>1
  <2> HIDE DEF On
  <2> QED
    BY <1>7, <2>1
<1>11. \A n \in 0..N : met[n] \in Nat
  <2> DEFINE S == {n \in 0..N : met[n] \in Nat}
  <2>1. 0 \in S
    BY <1>1, <1>9
  <2>2. ASSUME NEW n \in 0..N - 1, n \in S PROVE n + 1 \in S
    <3>1. n + 1 \in 1..N /\ (n + 1) - 1 = n /\ n + 1 \in 0..N /\ met[n] \in Nat
      BY <1>1, <2>2
    <3> HIDE DEF On
    <3>2. met[n + 1] \in Nat
      BY <1>2, <1>10, <3>1
    <3> QED
      BY <3>1, <3>2
  <2>3. \A n \in 0..N : n \in S
    <3> HIDE DEF S
    <3> QED
      BY <1>1, <2>1, <2>2, InductionTo
  <2> QED
    BY <2>3
<1> QED
  BY <1>8, <1>9, <1>10, <1>11 DEF N

\* A place further on is not before another, and lies behind what is at the other.
LEMMA PlacesRise ==
  ASSUME LayoutFits, NEW j \in 0..Length
  PROVE  /\ \A i \in 0..j : Places[i] <= Places[j]
         /\ \A i \in 1..j : Places[i - 1] + Size(layout[i]) <= Places[j]
         /\ \A i \in 0..j : i # j => Places[i] < Places[j]
<1> DEFINE S == {n \in 0..j : \A i \in 0..n : /\ Places[i] <= Places[n]
                                              /\ i # n => Places[i] < Places[n]}
<1>1. j \in Nat /\ Length \in Nat /\ \A n \in 0..j : n \in 0..Length
  BY SizesAre
<1>2. 0 \in S
  BY <1>1, PlacesAre
<1>3. ASSUME NEW n \in 0..j - 1, n \in S PROVE n + 1 \in S
  <2>1. n + 1 \in 1..Length /\ (n + 1) - 1 = n /\ n + 1 \in 0..j /\ n \in 0..Length /\ n \in Nat
    BY <1>1
  <2>2. /\ Places[n + 1] = Places[n] + Size(layout[n + 1])
        /\ Size(layout[n + 1]) \in Nat \ {0}
    BY <2>1, PlacesAre, SizesAre
  <2>3. ASSUME NEW i \in 0..n + 1
        PROVE  /\ Places[i] <= Places[n + 1]
               /\ i # n + 1 => Places[i] < Places[n + 1]
    <3>1. i \in 0..Length /\ Places[i] \in Nat /\ Places[n] \in Nat
          /\ Places[n + 1] \in Nat
      BY <1>1, <2>1, PlacesAre
    <3>2. i # n + 1 => i \in 0..n
      BY <2>1
    <3> QED
      BY <1>3, <2>2, <3>1, <3>2
  <2> QED
    BY <2>1, <2>3
<1>4. j \in S
  <2> HIDE DEF S
  <2>1. j \in 0..j
    BY <1>1
  <2> QED
    BY <1>1, <1>2, <1>3, <2>1, InductionTo
<1>5. ASSUME NEW i \in 1..j PROVE Places[i - 1] + Size(layout[i]) <= Places[j]
  <2>1. i \in 1..Length /\ i \in 0..j
    BY <1>1
  <2> QED
    BY <1>4, <2>1, PlacesAre
<1> QED
  BY <1>4, <1>5

\* Where all values are of one size, a place is told by a product.
LEMMA PlacesOfItems ==
  ASSUME LayoutFits, NEW s \in Nat, \A i \in 1..Length : Size(layout[i]) = s
  PROVE  \A n \in 0..Length : Places[n] = s * n
<1> DEFINE S == {n \in 0..Length : Places[n] = s * n}
<1>1. Length \in Nat
  BY SizesAre
<1>2. 0 \in S
  BY <1>1, PlacesAre
<1>3. ASSUME NEW n \in 0..Length - 1, n \in S PROVE n + 1 \in S
  <2>1. n + 1 \in 1..Length /\ (n + 1) - 1 = n /\ n + 1 \in 0..Length /\ n \in Nat
    BY <1>1
  <2>2. Places[n + 1] = Places[n] + s /\ Places[n] = s * n
    BY <1>3, <2>1, PlacesAre
  <2>3. s * n + s = s * (n + 1)
    BY <2>1
  <2> QED
    BY <2>1, <2>2, <2>3
<1>4. \A n \in 0..Length : n \in S
  <2> HIDE DEF S
  <2> QED
    BY <1>1, <1>2, <1>3, InductionTo
<1> QED
  BY <1>4

\* The bytes of the first n values, each at its place.
Encodes(bytes, n) ==
  /\ bytes \in Seq(Digits) /\ Len(bytes) = Places[n]
  /\ \A i \in 1..n : \A k \in 1..Size(layout[i]) :
       bytes[Places[i - 1] + k] = Encode(layout[i], written[i])[k]

WrittenFits == LayoutFits /\ \A i \in 1..Length : written[i] \in Values(layout[i])

\* A value is written behind those before it.
LEMMA ValueWritten ==
  ASSUME WrittenFits, NEW n \in 0..Length - 1, NEW bytes, Encodes(bytes, n)
  PROVE  Encodes(bytes \o Encode(layout[n + 1], written[n + 1]), n + 1)
<1>1. LayoutFits
  BY DEF WrittenFits
<1>2. /\ n + 1 \in 1..Length /\ n \in 0..Length /\ n + 1 \in 0..Length
      /\ (n + 1) - 1 = n /\ n \in Nat /\ Length \in Nat
  BY <1>1, SizesAre
<1> DEFINE t == layout[n + 1]
<1> DEFINE e == Encode(t, written[n + 1])
<1> DEFINE s == Size(t)
<1>3. t \in Types /\ s \in Nat \ {0}
  BY <1>1, <1>2, SizesAre
<1>4. e \in [1..s -> Digits]
  BY <1>1, <1>2, <1>3, DecodesWritten DEF WrittenFits, LayoutFits
<1> HIDE DEF e, s
<1>5. e \in Seq(Digits) /\ Len(e) = s
  BY <1>3, <1>4
<1> DEFINE b == bytes \o e
<1>6. /\ bytes \in Seq(Digits) /\ Len(bytes) = Places[n] /\ Places[n] \in Nat
  BY <1>1, <1>2, PlacesAre DEF Encodes
<1>7. /\ b \in Seq(Digits) /\ Len(b) = Places[n] + s
      /\ \A i \in 1..Places[n] + s :
           b[i] = IF i <= Places[n] THEN bytes[i] ELSE e[i - Places[n]]
  <2>1. /\ bytes \o e \in Seq(Digits) /\ Len(bytes \o e) = Len(bytes) + Len(e)
        /\ \A i \in 1..Len(bytes) + Len(e) :
             (bytes \o e)[i] = IF i <= Len(bytes) THEN bytes[i] ELSE e[i - Len(bytes)]
    BY <1>5, <1>6, ConcatProperties
  <2> QED
    BY <1>5, <1>6, <2>1
<1> HIDE DEF b
<1>8. Len(b) = Places[n + 1]
  BY <1>1, <1>2, <1>7, PlacesAre DEF s
<1>9. ASSUME NEW i \in 1..n + 1, NEW k \in 1..Size(layout[i])
      PROVE  b[Places[i - 1] + k] = Encode(layout[i], written[i])[k]
  <2>1. CASE i = n + 1
    <3>1. Places[i - 1] = Places[n] /\ k \in 1..s
      BY <1>2, <2>1 DEF s
    <3>2. /\ Places[n] + k \in 1..Places[n] + s /\ ~(Places[n] + k <= Places[n])
          /\ (Places[n] + k) - Places[n] = k
      BY <1>3, <1>6, <3>1 DEF s
    <3>3. b[Places[n] + k] = e[k]
      BY <1>7, <3>2
    <3> QED
      BY <2>1, <3>1, <3>3 DEF e
  <2>2. CASE i # n + 1
    <3>1. i \in 1..n /\ i \in 1..Length /\ i - 1 \in 0..Length
      BY <1>2, <2>2
    <3>2. /\ Places[i - 1] + Size(layout[i]) <= Places[n]
          /\ Places[i - 1] \in Nat /\ Size(layout[i]) \in Nat
      BY <1>1, <1>2, <3>1, PlacesRise, PlacesAre, SizesAre
    <3>3. /\ Places[i - 1] + k \in 1..Places[n] + s
          /\ Places[i - 1] + k <= Places[n]
      BY <1>3, <1>6, <3>2 DEF s
    <3>4. b[Places[i - 1] + k] = bytes[Places[i - 1] + k]
      BY <1>7, <3>3
    <3> QED
      BY <3>1, <3>4 DEF Encodes
  <2> QED
    BY <2>1, <2>2
<1> QED
  BY <1>7, <1>8, <1>9 DEF Encodes, b, e

\* All values are written, each at its place.
LEMMA AllWritten ==
  ASSUME WrittenFits
  PROVE  Encodes(EncodeAll, Length)
<1> DEFINE N == Length
<1> DEFINE A == Seq(Digits)
<1> DEFINE On(n, s) == s \o Encode(layout[n], written[n])
<1> DEFINE step == [p \in (1..N) \X A |-> On(p[1], p[2])]
<1>1. N \in Nat /\ LayoutFits
  BY SizesAre DEF WrittenFits
<1>2. ASSUME NEW n \in 1..N, NEW s \in A PROVE On(n, s) \in A
  <2>1. layout[n] \in Types /\ Size(layout[n]) \in Nat
    BY <1>1, SizesAre
  <2>2. Encode(layout[n], written[n]) \in [1..Size(layout[n]) -> Digits]
    BY <1>1, <2>1, DecodesWritten DEF WrittenFits, LayoutFits
  <2>3. Encode(layout[n], written[n]) \in Seq(Digits)
    BY <2>1, <2>2
  <2> QED
    BY <2>3, ConcatProperties
<1> HIDE DEF N
<1>3. step \in [(1..N) \X A -> A]
  <2> HIDE DEF On, A
  <2> QED
    BY <1>2
<1>4. PICK f \in [0..N -> A] : f[0] = <<>> /\ \A n \in 1..N : f[n] = step[<<n, f[n - 1]>>]
  <2> HIDE DEF step
  <2>1. <<>> \in A
    OBVIOUS
  <2> HIDE DEF A
  <2>2. Defines(N, A, <<>>, step)
    BY <1>1, <1>3, <2>1, RecursionExists
  <2> QED
    BY <2>2 DEF Defines
<1>5. \A n \in 1..N : f[n] = On(n, f[n - 1])
  <2> SUFFICES ASSUME NEW n \in 1..N PROVE f[n] = On(n, f[n - 1])
    OBVIOUS
  <2>1. n - 1 \in 0..N
    BY <1>1
  <2> HIDE DEF A
  <2>2. <<n, f[n - 1]>> \in (1..N) \X A
    BY <2>1
  <2> HIDE DEF On
  <2>3. step[<<n, f[n - 1]>>] = On(n, f[n - 1])
    BY <2>2
  <2> QED
    BY <1>4, <2>3
<1>6. f = [n \in 0..N |-> IF n = 0 THEN <<>> ELSE On(n, f[n - 1])]
  <2>1. \A n \in 0..N : n # 0 => n \in 1..N
    BY <1>1
  <2> HIDE DEF A, On, step
  <2> QED
    BY <1>4, <1>5, <2>1
<1> DEFINE met == CHOOSE met : met = [n \in 0..N |-> IF n = 0 THEN <<>> ELSE On(n, met[n - 1])]
<1>7. met = [n \in 0..N |-> IF n = 0 THEN <<>> ELSE On(n, met[n - 1])]
  <2> HIDE DEF A, On, step
  <2> QED
    BY <1>6
<1>8. EncodeAll = met[N]
  BY DEF EncodeAll, N
<1> HIDE DEF met
<1>9. met[0] = <<>>
  BY <1>1, <1>7
<1>10. ASSUME NEW n \in 1..N PROVE met[n] = On(n, met[n - 1])
  <2>1. n \in 0..N /\ n # 0
    BY <1>1
  <2> HIDE DEF On
  <2> QED
    BY <1>7, <2>1
<1> DEFINE S == {n \in 0..N : Encodes(met[n], n)}
<1>11. 0 \in S
  <2>1. Places[0] = 0
    BY <1>1, PlacesAre
  <2>2. Encodes(<<>>, 0)
    BY <2>1 DEF Encodes
  <2> QED
    BY <1>1, <1>9, <2>2
<1>12. ASSUME NEW n \in 0..N - 1, n \in S PROVE n + 1 \in S
  <2>1. n + 1 \in 1..N /\ (n + 1) - 1 = n /\ n + 1 \in 0..N
    BY <1>1
  <2>2. met[n + 1] = met[n] \o Encode(layout[n + 1], written[n + 1])
    BY <1>10, <2>1
  <2>3. Encodes(met[n] \o Encode(layout[n + 1], written[n + 1]), n + 1)
    BY <1>12, ValueWritten DEF N
  <2> QED
    BY <2>1, <2>2, <2>3
<1>13. N \in S
  <2> HIDE DEF S
  <2>1. N \in 0..N
    BY <1>1
  <2> QED
    BY <1>1, <1>11, <1>12, <2>1, InductionTo
<1> QED
  BY <1>8, <1>13 DEF N

-------------------------------------------------------------------------------
\* The values of one kind of object, and what the dump has of them.
DumpFits ==
  /\ WrittenFits
  /\ kind \in {"objects", "primitives", "instance"} /\ index \in Nat
  /\ kind = "objects" => \A i \in 1..Length : layout[i] = "object"
  /\ kind = "primitives" => \A i \in 1..Length : layout[i] = layout[1]
  /\ Len(data) \in Nat /\ DOMAIN data = 1..Len(data)
  /\ kind # "instance" => Len(data) = Places[Length]
  /\ \A i \in 1..Length : \A k \in 1..Size(layout[i]) :
       Places[i - 1] + k \in DOMAIN data =>
         data[Places[i - 1] + k] = Encode(layout[i], written[i])[k]

\* The first value of the loop, and the one it has come to.
Begun == IF index < Length THEN index ELSE Length
Now == IF loop = "increment" THEN Begun + Len(taken) - 1 ELSE Begun + Len(taken)

\* Where the iterator is.
Placed ==
  /\ kind = "objects" => /\ place = Places[Now] /\ limit = Places[Length]
                         /\ current = <<place, IF Now < Length THEN idSize ELSE 0>>
  /\ kind = "primitives" => /\ place = Places[Begun] /\ offset \in Nat
                            /\ limit = Places[Length] - place
                            /\ place + offset = Places[Now]
                            /\ Now < Length => current = <<place + offset, ItemSize>>
  /\ kind = "instance" => place = Now

\* What the loop took are the values that were written.
TakenWritten ==
  /\ taken \in Seq(Int)
  /\ \A i \in Begun + 1..Begun + Len(taken) :
       Places[i] <= Len(data) => taken[i - Begun] = written[i]

ReadingInv ==
  /\ DumpFits
  /\ loop \in {"start", "compare", "increment", "done"}
  /\ loop = "start" => taken = <<>> /\ offset = 0
  /\ loop # "start" => Now \in Begun..Length /\ Placed
  /\ loop = "increment" => Now < Length
  /\ loop = "done" => Now = Length
  /\ TakenWritten
  /\ touched \subseteq 1..Places[Length]

\* The dump is made of what was written.
LEMMA DumpStart ==
  ASSUME ValuesInit
  PROVE  DumpFits
<1>1. PICK n \in Nat :
        /\ layout \in CASE kind = "objects" -> {[i \in 1..n |-> "object"]}
                        [] kind = "primitives" -> {[i \in 1..n |-> t] : t \in DOMAIN Sizes}
                        [] kind = "instance" -> [1..n -> Types]
        /\ written \in {w \in [1..n -> UNION {Values(t) : t \in Types}] :
                          \A i \in 1..n : w[i] \in Values(layout[i])}
        /\ index \in 0..n + 1
  <2>1. MaxItems \in Nat /\ MaxFields \in Nat
    BY ValuesConstants
  <2> QED
    BY <2>1 DEF ValuesInit
<1>2. idSize \in IdSizes /\ kind \in {"objects", "primitives", "instance"}
  BY DEF ValuesInit
<1>3. /\ layout \in [1..n -> Types]
      /\ kind = "objects" => \A i \in 1..n : layout[i] = "object"
      /\ kind = "primitives" => \A i \in 1..n : layout[i] = layout[1]
  BY <1>1, <1>2 DEF Types
<1>4. layout \in Seq(Types) /\ Len(layout) = n /\ Length = n
  BY <1>3 DEF Length
<1>5. WrittenFits
  BY <1>1, <1>2, <1>4 DEF WrittenFits, LayoutFits
<1> DEFINE L == Length
<1> DEFINE all == EncodeAll
<1>6. Encodes(all, L) /\ LayoutFits /\ Places[L] \in Nat /\ L \in Nat
  BY <1>4, <1>5, AllWritten, PlacesAre DEF WrittenFits
<1>7. 0 \in Digits
  BY ValuesConstants DEF Digits
<1>8. PICK m \in Nat : /\ m <= Places[L] + 1 /\ data = SubSeq(all \o <<0>>, 1, m)
                       /\ kind # "instance" => m = Places[L]
  <2>1. PICK m \in DataSizes : data = SubSeq(all \o <<0>>, 1, m)
    BY DEF ValuesInit
  <2>2. m \in Nat /\ m <= Places[L] + 1
    BY <1>6, <2>1 DEF DataSizes
  <2>3. kind # "instance" => m = Places[L]
    BY <2>1 DEF DataSizes
  <2> QED
    BY <2>1, <2>2, <2>3
<1> DEFINE b == all \o <<0>>
<1>9. /\ b \in Seq(Digits) /\ Len(b) = Places[L] + 1
      /\ \A i \in 1..Places[L] : b[i] = all[i]
  <2>1. all \in Seq(Digits) /\ Len(all) = Places[L] /\ <<0>> \in Seq(Digits)
    BY <1>6, <1>7 DEF Encodes
  <2> HIDE DEF all, L
  <2>2. /\ all \o <<0>> \in Seq(Digits) /\ Len(all \o <<0>>) = Len(all) + Len(<<0>>)
        /\ \A i \in 1..Len(all) + Len(<<0>>) :
             (all \o <<0>>)[i] = IF i <= Len(all) THEN all[i] ELSE <<0>>[i - Len(all)]
    BY <2>1, ConcatProperties
  <2> QED
    BY <1>6, <2>1, <2>2
<1> HIDE DEF b
<1>10. Len(data) = m /\ DOMAIN data = 1..m /\ \A i \in 1..m : data[i] = b[i]
  <2>1. 1 \in Int /\ m \in Int /\ \A i \in 1..m : b[i] \in Digits
    BY <1>6, <1>8, <1>9
  <2>2. /\ SubSeq(b, 1, m) \in Seq(Digits)
        /\ Len(SubSeq(b, 1, m)) = IF 1 <= m THEN m - 1 + 1 ELSE 0
        /\ \A i \in 1..m - 1 + 1 : SubSeq(b, 1, m)[i] = b[1 + i - 1]
    BY <2>1, SubSeqProperties
  <2>3. data = SubSeq(b, 1, m)
    BY <1>8 DEF b
  <2>4. /\ data \in Seq(Digits)
        /\ Len(data) = m
        /\ \A i \in 1..m : data[i] = b[i]
    BY <2>2, <2>3
  <2> QED
    BY <2>4
<1>11. ASSUME NEW i \in 1..L, NEW k \in 1..Size(layout[i]), Places[i - 1] + k \in DOMAIN data
       PROVE  data[Places[i - 1] + k] = Encode(layout[i], written[i])[k]
  <2>1. /\ Places[i - 1] + Size(layout[i]) <= Places[L]
        /\ Places[i - 1] \in Nat /\ Size(layout[i]) \in Nat
    <3>1. L \in 0..L /\ i - 1 \in 0..L
      BY <1>6
    <3> QED
      BY <1>6, <3>1, PlacesRise, PlacesAre, SizesAre
  <2>2. Places[i - 1] + k \in 1..Places[L]
    BY <1>6, <2>1
  <2>3. data[Places[i - 1] + k] = all[Places[i - 1] + k]
    BY <1>9, <1>10, <1>11, <2>2
  <2> QED
    BY <1>6, <2>3 DEF Encodes
<1>12. index \in Nat
  BY <1>1
<1> QED
  BY <1>2, <1>3, <1>4, <1>5, <1>8, <1>10, <1>11, <1>12 DEF DumpFits

-------------------------------------------------------------------------------
\* The dump stays, and with it what was written and where.
LEMMA DumpStays ==
  ASSUME ReadingInv, UNCHANGED dump
  PROVE  /\ DumpFits' /\ Places' = Places /\ Length' = Length
         /\ ItemSize' = ItemSize /\ Begun' = Begun
<1>1. Length' = Length
  BY DEF dump, Length
<1>2. \A t : Size(t)' = Size(t)
  BY DEF dump, Size
<1>3. Places' = Places
  BY DEF dump, Places, Length, Size
<1>4. ItemSize' = ItemSize
  BY DEF dump, ItemSize, Size
<1>5. Begun' = Begun
  BY <1>1 DEF dump, Begun
<1>6. DumpFits'
  <2>1. WrittenFits' = WrittenFits
    <3>1. LayoutFits' = LayoutFits
      BY ValuesConstants DEF dump, LayoutFits, Types
    <3>2. \A t : Values(t)' = Values(t)
      BY <1>2 DEF Values, dump, Size
    <3> QED
      BY <1>1, <3>1, <3>2 DEF WrittenFits, dump, Values, Size
  <2>2. \A t, v : Encode(t, v)' = Encode(t, v)
    BY <1>2 DEF Encode, dump, Size
  <2>3. \A i \in 1..Length' : \A k \in 1..Size(layout[i])' :
          Places[i - 1]' + k \in DOMAIN data' =>
            data'[Places[i - 1]' + k] = Encode(layout[i], written[i])'[k]
    BY <1>1, <1>2, <1>3, <2>2 DEF ReadingInv, dump, DumpFits
  <2>4. /\ kind' = kind /\ index' = index /\ layout' = layout /\ Len(data') = Len(data) /\ data' = data
        /\ DOMAIN data' = DOMAIN data
    BY DEF dump
  <2> QED
    BY <1>1, <1>3, <2>1, <2>3, <2>4 DEF ReadingInv, DumpFits
<1> QED
  BY <1>1, <1>3, <1>4, <1>5, <1>6

\* Where the items of an array are.
LEMMA ItemsPlaced ==
  ASSUME DumpFits
  PROVE  /\ kind = "objects" => /\ \A n \in 0..Length : Places[n] = idSize * n
                                /\ \A n \in 1..Length : Size(layout[n]) = idSize
         /\ kind = "primitives" =>
              /\ \A n \in 0..Length : Places[n] = ItemSize * n
              /\ \A n \in 1..Length : /\ Size(layout[n]) = ItemSize
                                      /\ layout[n] = layout[1]
         /\ idSize \in Nat \ {0} /\ ItemSize \in Nat \ {0}
<1>1. LayoutFits /\ idSize \in Nat \ {0}
  BY ValuesConstants DEF DumpFits, WrittenFits, LayoutFits
<1>2. ItemSize \in Nat \ {0}
  <2>1. CASE layout = <<>>
    BY <2>1 DEF ItemSize
  <2>2. CASE layout # <<>>
    <3>1. 1 \in 1..Length
      BY <1>1, <2>2, SizesAre DEF LayoutFits, Length
    <3> QED
      BY <1>1, <2>2, <3>1, SizesAre DEF ItemSize
  <2> QED
    BY <2>1, <2>2
<1>3. ASSUME kind = "objects", NEW n \in 1..Length PROVE Size(layout[n]) = idSize
  BY <1>3 DEF DumpFits, Size
<1>4. ASSUME kind = "primitives", NEW n \in 1..Length
      PROVE  Size(layout[n]) = ItemSize /\ layout[n] = layout[1]
  <2>1. layout # <<>>
    BY <1>1, SizesAre DEF LayoutFits, Length
  <2>2. layout[n] = layout[1]
    BY <1>4 DEF DumpFits
  <2> QED
    BY <2>1, <2>2 DEF ItemSize
<1>5. kind = "objects" => \A n \in 0..Length : Places[n] = idSize * n
  BY <1>1, <1>3, PlacesOfItems
<1>6. kind = "primitives" => \A n \in 0..Length : Places[n] = ItemSize * n
  BY <1>1, <1>2, <1>4, PlacesOfItems
<1> QED
  BY <1>1, <1>2, <1>3, <1>4, <1>5, <1>6

\* A value that is read is a number.
LEMMA ValueIsNumber ==
  ASSUME NEW t, NEW s \in 0..IdWidth, NEW bytes \in [1..s -> Digits]
  PROVE  ReadValue(t, bytes) \in Int
<1>1. Power[s] \in Int /\ Number(bytes) \in Int /\ Len(bytes) = s
  BY NumberBounded, PowerIs, ValuesConstants
<1> QED
  BY <1>1 DEF ReadValue, AsSigned

\* A loop begins before anything is read.
LEMMA ReadingStart ==
  ASSUME ValuesInit
  PROVE  ReadingInv
<1>1. DumpFits
  BY DumpStart
<1>2. loop = "start" /\ taken = <<>> /\ offset = 0 /\ touched = {}
  BY DEF ValuesInit
<1>3. Begun \in Nat
  <2>1. Length \in Nat
    BY <1>1, SizesAre DEF DumpFits, WrittenFits
  <2> QED
    BY <1>1, <2>1 DEF DumpFits, Begun
<1>4. TakenWritten
  <2>1. Begun + 1..Begun + Len(taken) = {}
    BY <1>2, <1>3
  <2> QED
    BY <1>2, <2>1 DEF TakenWritten
<1> QED
  BY <1>1, <1>2, <1>4 DEF ReadingInv

\* What is known at every step of a loop.
LoopReads ==
  /\ LayoutFits /\ Length \in Nat /\ Begun \in 0..Length /\ Len(taken) \in Nat
  /\ \A n \in 0..Length : Places[n] \in Nat
  /\ \A n \in 0..Length : /\ Places[n] <= Places[Length]
                          /\ n # Length => Places[n] < Places[Length]
  /\ \A n \in 1..Length : /\ Places[n] = Places[n - 1] + Size(layout[n])
                          /\ Size(layout[n]) \in Nat \ {0}

LEMMA ReadingKnown ==
  ASSUME ReadingInv
  PROVE  LoopReads
<1>1. LayoutFits /\ index \in Nat /\ taken \in Seq(Int)
  BY DEF ReadingInv, DumpFits, WrittenFits, TakenWritten
<1>2. Length \in Nat
  BY <1>1, SizesAre
<1>3. Begun \in 0..Length /\ Len(taken) \in Nat
  BY <1>1, <1>2 DEF Begun
<1>4. \A n \in 0..Length : /\ Places[n] <= Places[Length]
                           /\ n # Length => Places[n] < Places[Length]
  <2>1. Length \in 0..Length
    BY <1>2
  <2> QED
    BY <1>1, <2>1, PlacesRise
<1> QED
  BY <1>1, <1>2, <1>3, <1>4, PlacesAre, SizesAre DEF LoopReads

\* An iterator over objects, come to item n.
LEMMA ObjectFetched ==
  ASSUME ReadingInv, kind = "objects", NEW n \in 0..Length,
         FetchCurrent(Places[n], Places[Length])
  PROVE  /\ current' = <<Places[n], IF n < Length THEN idSize ELSE 0>>
         /\ touched' \subseteq 1..Places[Length]
<1>1. LoopReads /\ DumpFits
  BY ReadingKnown DEF ReadingInv
<1>2. idSize \in Nat \ {0}
  BY <1>1, ItemsPlaced
<1> DEFINE p == Places[n]
<1> DEFINE e == Places[Length]
<1> DEFINE s == IF p + idSize < e THEN idSize ELSE e - p
<1>3. p \in Nat /\ e \in Nat /\ p <= e
  BY <1>1 DEF LoopReads
<1>4. s = IF n < Length THEN idSize ELSE 0
  <2>1. CASE n < Length
    <3>1. n + 1 \in 1..Length /\ (n + 1) - 1 = n /\ n + 1 \in 0..Length
      BY <1>1, <2>1 DEF LoopReads
    <3>2. Places[n + 1] = p + idSize /\ Places[n + 1] <= e
      BY <1>1, <3>1, ItemsPlaced DEF LoopReads
    <3> QED
      BY <1>2, <1>3, <2>1, <3>2
  <2>2. CASE ~(n < Length)
    <3>1. n = Length
      BY <1>1, <2>2 DEF LoopReads
    <3> QED
      BY <1>2, <1>3, <3>1
  <2> QED
    BY <2>1, <2>2
<1>5. current' = <<p, s>> /\ touched' = touched \cup Cells(current')
  BY DEF FetchCurrent
<1>6. p + s <= e /\ s \in Nat
  BY <1>2, <1>3
<1> HIDE DEF p, s, e
<1>7. Cells(current') = p + 1..p + s
  BY <1>5 DEF Cells
<1>8. touched \subseteq 1..e
  BY DEF ReadingInv, e
<1>9. touched' \subseteq 1..e
  <2>1. p + 1..p + s \subseteq 1..e
    BY <1>3, <1>6
  <2> QED
    BY <1>5, <1>7, <1>8, <2>1
<1> QED
  BY <1>4, <1>5, <1>9 DEF p, e

\* Begin at the item asked for, or behind the last one.
LEMMA LoopBegins ==
  ASSUME ReadingInv, BeginObjects \/ BeginPrimitives \/ BeginFields
  PROVE  ReadingInv'
<1>1. LoopReads /\ DumpFits
  BY ReadingKnown DEF ReadingInv
<1>2. loop = "start" /\ loop' = "compare" /\ UNCHANGED <<dump, taken>>
  BY DEF BeginObjects, BeginPrimitives, BeginFields
<1>3. taken = <<>> /\ offset = 0
  BY <1>2 DEF ReadingInv
<1>4. UNCHANGED dump
  BY <1>2
<1>5. /\ DumpFits' /\ Places' = Places /\ Length' = Length
      /\ ItemSize' = ItemSize /\ Begun' = Begun
  BY <1>4, DumpStays
<1>6. UNCHANGED <<idSize, kind, layout, written, data, index>>
  BY <1>4 DEF dump
<1>7. Len(taken) = 0 /\ Len(taken') = 0
  BY <1>2, <1>3
<1>8. Now' = Begun
  BY <1>1, <1>2, <1>5, <1>7 DEF Now, LoopReads
<1>9. Now' \in Begun'..Length'
  BY <1>1, <1>5, <1>8 DEF LoopReads
<1>10. TakenWritten'
  BY <1>2, <1>5, <1>6 DEF ReadingInv, TakenWritten
<1>11. Begun \in 0..Length
  BY <1>1 DEF LoopReads
<1>12. Placed' /\ touched' \subseteq 1..Places[Length]
  <2>1. CASE BeginObjects
    <3>1. kind = "objects"
      BY <2>1 DEF BeginObjects
    <3>2. place' = idSize * Begun /\ limit' = idSize * Length /\ FetchCurrent(place', limit')
      BY <2>1 DEF BeginObjects, Begun
    <3>3. place' = Places[Begun] /\ limit' = Places[Length]
      <4>1. Length \in 0..Length
        BY <1>1 DEF LoopReads
      <4> QED
        BY <1>1, <1>11, <3>1, <3>2, <4>1, ItemsPlaced
    <3>4. FetchCurrent(Places[Begun], Places[Length])
      BY <3>2, <3>3
    <3>5. /\ current' = <<Places[Begun], IF Begun < Length THEN idSize ELSE 0>>
          /\ touched' \subseteq 1..Places[Length]
      BY <1>11, <3>1, <3>4, ObjectFetched
    <3> QED
      BY <1>5, <1>6, <1>8, <3>1, <3>3, <3>5 DEF Placed
  <2>2. CASE BeginPrimitives
    <3>1. kind = "primitives" /\ offset' = 0 /\ touched' = touched
      BY <1>3, <2>2 DEF BeginPrimitives
    <3>2. place' = ItemSize * Begun /\ limit' = Len(data) - place' /\ current' = <<place', ItemSize>>
      BY <2>2 DEF BeginPrimitives, Begun
    <3>3. place' = Places[Begun] /\ Len(data) = Places[Length]
      BY <1>1, <1>11, <3>1, <3>2, ItemsPlaced DEF DumpFits
    <3>4. place' \in Nat /\ place' + 0 = place'
      BY <1>1, <1>11, <3>3 DEF LoopReads
    <3> QED
      BY <1>5, <1>6, <1>8, <3>1, <3>2, <3>3, <3>4 DEF Placed, ReadingInv
  <2>3. CASE BeginFields
    <3>1. kind = "instance" /\ place' = Begun /\ touched' = touched
      BY <2>3 DEF BeginFields, Begun
    <3> QED
      BY <1>6, <1>8, <3>1 DEF Placed, ReadingInv
  <2> QED
    BY <2>1, <2>2, <2>3
<1> QED
  BY <1>2, <1>5, <1>9, <1>10, <1>12 DEF ReadingInv

\* The iterator goes to the next item.
LEMMA LoopGoesOn ==
  ASSUME ReadingInv, NextObject \/ NextPrimitive \/ NextField
  PROVE  ReadingInv'
<1>1. LoopReads /\ DumpFits
  BY ReadingKnown DEF ReadingInv
<1>2. loop = "increment" /\ loop' = "compare" /\ UNCHANGED <<dump, taken>>
  BY DEF NextObject, NextPrimitive, NextField
<1>3. UNCHANGED dump
  BY <1>2
<1>4. /\ DumpFits' /\ Places' = Places /\ Length' = Length
      /\ ItemSize' = ItemSize /\ Begun' = Begun
  BY <1>3, DumpStays
<1>5. UNCHANGED <<idSize, kind, layout, written, data, index>>
  BY <1>3 DEF dump
<1>6. Now \in Begun..Length /\ Placed /\ Now < Length
  BY <1>2 DEF ReadingInv
<1> DEFINE n == Now + 1
<1>7. /\ n \in 1..Length /\ n \in 0..Length /\ n - 1 = Now /\ Now \in 0..Length
      /\ n \in Begun..Length
  BY <1>1, <1>6 DEF LoopReads
<1>8. Now' = n
  <2>1. Now = Begun + Len(taken) - 1 /\ Now' = Begun + Len(taken)
    BY <1>2, <1>4 DEF Now
  <2> QED
    BY <1>1, <2>1 DEF LoopReads
<1>9. TakenWritten'
  BY <1>2, <1>4, <1>5 DEF ReadingInv, TakenWritten
<1>10. /\ Places[n] = Places[Now] + Size(layout[n])
       /\ Places[Now] \in Nat /\ Places[n] \in Nat /\ Places[Length] \in Nat
       /\ n < Length => Places[n] < Places[Length]
  <2>1. Length \in 0..Length /\ (n < Length => n # Length)
    BY <1>1 DEF LoopReads
  <2> QED
    BY <1>1, <1>7, <2>1 DEF LoopReads
<1> HIDE DEF n
<1>11. Placed' /\ touched' \subseteq 1..Places[Length]
  <2>1. CASE NextObject
    <3>1. kind = "objects" /\ place' = place + idSize /\ limit' = limit /\ FetchCurrent(place', limit)
      BY <2>1 DEF NextObject
    <3>2. place = Places[Now] /\ limit = Places[Length]
      BY <1>6, <3>1 DEF Placed
    <3>3. place' = Places[n]
      BY <1>1, <1>7, <1>10, <3>1, <3>2, ItemsPlaced
    <3>4. FetchCurrent(Places[n], Places[Length])
      BY <3>1, <3>2, <3>3
    <3>5. /\ current' = <<Places[n], IF n < Length THEN idSize ELSE 0>>
          /\ touched' \subseteq 1..Places[Length]
      BY <1>7, <3>1, <3>4, ObjectFetched
    <3> QED
      BY <1>4, <1>5, <1>8, <3>1, <3>2, <3>3, <3>5 DEF Placed
  <2>2. CASE NextPrimitive
    <3>1. kind = "primitives" /\ place' = place /\ limit' = limit /\ touched' = touched
      BY <2>2 DEF NextPrimitive
    <3>2. /\ place = Places[Begun] /\ offset \in Nat
          /\ limit = Places[Length] - place /\ place + offset = Places[Now]
      BY <1>6, <3>1 DEF Placed
    <3>3. place \in Nat /\ ItemSize \in Nat /\ Size(layout[n]) = ItemSize
      BY <1>1, <1>7, <3>1, <3>2, ItemsPlaced DEF LoopReads
    <3>4. Places[Now] < Places[Length]
      BY <1>1, <1>6, <1>7 DEF LoopReads
    <3>5. offset # limit
      BY <1>10, <3>2, <3>3, <3>4
    <3>6. /\ offset' = offset + ItemSize
          /\ current' = IF offset' >= limit THEN <<0, 0>> ELSE <<place + offset', ItemSize>>
      BY <2>2, <3>5 DEF NextPrimitive
    <3>7. offset' \in Nat /\ place + offset' = Places[n]
      BY <1>10, <3>2, <3>3, <3>6
    <3>8. n < Length => ~(offset' >= limit)
      BY <1>10, <3>2, <3>3, <3>7
    <3>9. n < Length => current' = <<place + offset', ItemSize>>
      BY <3>6, <3>8
    <3> QED
      BY <1>4, <1>5, <1>8, <3>1, <3>2, <3>7, <3>9 DEF Placed, ReadingInv
  <2>3. CASE NextField
    <3>1. kind = "instance" /\ place' = place + 1 /\ touched' = touched
      BY <2>3 DEF NextField
    <3>2. place = Now
      BY <1>6, <3>1 DEF Placed
    <3> QED
      BY <1>5, <1>8, <3>1, <3>2 DEF Placed, ReadingInv, n
  <2> QED
    BY <2>1, <2>2, <2>3
<1>12. Now' \in Begun'..Length'
  BY <1>4, <1>7, <1>8
<1> QED
  BY <1>2, <1>4, <1>9, <1>11, <1>12 DEF ReadingInv

\* The iterator is at the end exactly when it has come behind the last item.
LEMMA EndReached ==
  ASSUME ReadingInv, loop = "compare"
  PROVE  AtEnd <=> Now = Length
<1>1. LoopReads /\ DumpFits /\ Placed /\ Now \in Begun..Length
  BY ReadingKnown DEF ReadingInv
<1>2. Now \in 0..Length /\ Length \in 0..Length
  BY <1>1 DEF LoopReads
<1>3. Places[Now] = Places[Length] <=> Now = Length
  BY <1>1, <1>2 DEF LoopReads
<1>4. kind \in {"objects", "primitives", "instance"}
  BY <1>1 DEF DumpFits
<1>5. CASE kind = "objects"
  <2>1. AtEnd <=> place = idSize * Length
    BY <1>5 DEF AtEnd
  <2> QED
    BY <1>1, <1>2, <1>3, <1>5, <2>1, ItemsPlaced DEF Placed
<1>6. CASE kind = "primitives"
  <2>1. AtEnd <=> place + offset = ItemSize * Length
    BY <1>6 DEF AtEnd
  <2> QED
    BY <1>1, <1>2, <1>3, <1>6, <2>1, ItemsPlaced DEF Placed
<1>7. CASE kind = "instance"
  BY <1>1, <1>7 DEF AtEnd, Placed
<1> QED
  BY <1>4, <1>5, <1>6, <1>7

\* What Take takes is the value the iterator has come to.
LEMMA ValueTaken ==
  ASSUME ReadingInv, Take
  PROVE  /\ Now \in Begun..Length - 1
         /\ \E bytes \in [1..Size(layout[Now + 1]) -> Digits] :
              /\ taken' = Append(taken, ReadValue(layout[Now + 1], bytes))
              /\ \A k \in DOMAIN bytes :
                   Places[Now] + k \in DOMAIN data => bytes[k] = data[Places[Now] + k]
         /\ current' = <<Places[Now], Size(layout[Now + 1])>>
         /\ kind # "instance" => current' = current
<1>1. LoopReads /\ DumpFits /\ Placed /\ loop = "compare" /\ ~AtEnd /\ Now \in Begun..Length
  BY ReadingKnown DEF ReadingInv, Take
<1>2. Now \in Begun..Length - 1
  BY <1>1, EndReached DEF LoopReads
<1> DEFINE n == Now + 1
<1>3. n \in 1..Length /\ n - 1 = Now /\ Now < Length
  BY <1>1, <1>2 DEF LoopReads
<1> DEFINE t == IF kind = "instance" THEN layout[place + 1] ELSE layout[1]
<1>4. kind \in {"objects", "primitives", "instance"}
  BY <1>1 DEF DumpFits
<1>5. current' = <<Places[Now], Size(layout[n])>> /\ t = layout[n]
      /\ (kind # "instance" => current' = current)
  <2>1. CASE kind = "objects"
    <3>1. current' = current /\ t = layout[1]
      BY <2>1 DEF Take
    <3>2. layout[1] = "object" /\ layout[n] = "object" /\ Size(layout[n]) = idSize
      <4>1. 1 \in 1..Length
        BY <1>1, <1>3 DEF LoopReads
      <4> QED
        BY <1>1, <1>3, <2>1, <4>1, ItemsPlaced DEF DumpFits
    <3> QED
      BY <1>1, <1>3, <2>1, <3>1, <3>2 DEF Placed
  <2>2. CASE kind = "primitives"
    <3>1. current' = current /\ t = layout[1]
      BY <2>2 DEF Take
    <3>2. layout[n] = layout[1] /\ Size(layout[n]) = ItemSize
      BY <1>1, <1>3, <2>2, ItemsPlaced
    <3> QED
      BY <1>1, <1>3, <2>2, <3>1, <3>2 DEF Placed
  <2>3. CASE kind = "instance"
    <3>1. current' = <<Place(place + 1), Size(layout[place + 1])>> /\ t = layout[place + 1]
      BY <2>3 DEF Take
    <3>2. place + 1 = n
      BY <1>1, <2>3 DEF Placed
    <3> QED
      BY <1>3, <2>3, <3>1, <3>2 DEF Place
  <2> QED
    BY <1>4, <2>1, <2>2, <2>3
<1>6. PICK bytes \in [1..current'[2] -> Digits] :
        /\ \A k \in DOMAIN bytes :
             current'[1] + k \in DOMAIN data => bytes[k] = data[current'[1] + k]
        /\ taken' = Append(taken, ReadValue(t, bytes))
  BY DEF Take
<1> HIDE DEF n, t
<1>7. current'[1] = Places[Now] /\ current'[2] = Size(layout[n])
  BY <1>5
<1>8. /\ bytes \in [1..Size(layout[n]) -> Digits]
      /\ taken' = Append(taken, ReadValue(layout[n], bytes))
      /\ \A k \in DOMAIN bytes :
           Places[Now] + k \in DOMAIN data => bytes[k] = data[Places[Now] + k]
  BY <1>5, <1>6, <1>7
<1> QED
  BY <1>2, <1>5, <1>8 DEF n

\* The bytes are those of the dump at value n, as far as it has them.
FromDump(bytes, n) ==
  \A k \in DOMAIN bytes :
    Places[n - 1] + k \in DOMAIN data => bytes[k] = data[Places[n - 1] + k]

\* A value that the dump has is taken as it was written.
LEMMA ValueExact ==
  ASSUME DumpFits, NEW n \in 1..Length, Places[n] <= Len(data),
         NEW bytes \in [1..Size(layout[n]) -> Digits],
         FromDump(bytes, n)
  PROVE  ReadValue(layout[n], bytes) = written[n]
<1>1. WrittenFits /\ LayoutFits /\ idSize \in IdSizes
  BY DEF DumpFits, WrittenFits, LayoutFits
<1> DEFINE t == layout[n]
<1> DEFINE s == Size(t)
<1> DEFINE e == Encode(t, written[n])
<1>2. t \in Types /\ written[n] \in Values(t) /\ s \in Nat
  BY <1>1, SizesAre DEF WrittenFits
<1>3. e \in [1..s -> Digits] /\ ReadValue(t, e) = written[n]
  BY <1>1, <1>2, DecodesWritten
<1>4. Places[n - 1] \in Nat /\ Places[n - 1] + s <= Len(data)
  <2>1. n - 1 \in 0..Length
    BY <1>1, SizesAre
  <2> QED
    BY <1>1, <2>1, PlacesAre
<1> HIDE DEF e, s, t
<1>5. ASSUME NEW k \in 1..s PROVE bytes[k] = e[k]
  <2>1. Places[n - 1] + k \in DOMAIN data
    BY <1>2, <1>4 DEF DumpFits
  <2>2. bytes[k] = data[Places[n - 1] + k]
    BY <2>1 DEF s, t, FromDump
  <2>3. data[Places[n - 1] + k] = e[k]
    BY <2>1 DEF DumpFits, s, t, e
  <2> QED
    BY <2>2, <2>3
<1>6. bytes = e
  <2> DEFINE K == 1..s
  <2>1. bytes \in [K -> Digits] /\ e \in [K -> Digits]
    BY <1>3 DEF s, t
  <2>2. \A k \in K : bytes[k] = e[k]
    BY <1>5
  <2> HIDE DEF K
  <2>3. bytes = [k \in K |-> bytes[k]] /\ e = [k \in K |-> e[k]]
    BY <2>1
  <2>4. [k \in K |-> bytes[k]] = [k \in K |-> e[k]]
    BY <2>2
  <2> QED
    BY <2>3, <2>4
<1> QED
  BY <1>3, <1>6 DEF t

\* What the loop takes is what was written, and lies within the object.
LEMMA LoopTakes ==
  ASSUME ReadingInv, Take
  PROVE  ReadingInv'
<1>1. LoopReads /\ DumpFits
  BY ReadingKnown DEF ReadingInv, DumpFits, WrittenFits, LayoutFits
<1>2. loop = "compare" /\ loop' = "increment" /\ UNCHANGED <<dump, place, offset, limit>>
  BY DEF Take
<1>3. UNCHANGED dump
  BY <1>2
<1>4. /\ DumpFits' /\ Places' = Places /\ Length' = Length
      /\ ItemSize' = ItemSize /\ Begun' = Begun
  BY <1>3, DumpStays
<1>5. UNCHANGED <<idSize, kind, layout, written, data, index>>
  BY <1>3 DEF dump
<1> DEFINE n == Now + 1
<1>6. Placed /\ TakenWritten /\ Now = Begun + Len(taken)
  BY <1>2 DEF ReadingInv, Now
<1>7. /\ Now \in Begun..Length - 1
      /\ current' = <<Places[Now], Size(layout[n])>>
      /\ kind # "instance" => current' = current
  BY ValueTaken
<1>8. PICK bytes \in [1..Size(layout[n]) -> Digits] :
        /\ taken' = Append(taken, ReadValue(layout[n], bytes))
        /\ \A k \in DOMAIN bytes :
             Places[Now] + k \in DOMAIN data => bytes[k] = data[Places[Now] + k]
  BY ValueTaken
<1>9. n \in 1..Length /\ n - 1 = Now /\ Now \in 0..Length /\ Length \in 0..Length
  BY <1>1, <1>7 DEF LoopReads
<1> HIDE DEF n
<1> DEFINE v == ReadValue(layout[n], bytes)
<1>10. v \in Int
  <2>1. layout[n] \in Types /\ idSize \in IdSizes
    BY <1>1, <1>9, SizesAre DEF DumpFits, WrittenFits, LayoutFits
  <2>2. Size(layout[n]) \in 0..IdWidth
    BY <1>1, <2>1, SizeIs
  <2> QED
    BY <1>1, <2>2, ValueIsNumber
<1>11. Places[n] <= Len(data) => v = written[n]
  BY <1>1, <1>8, <1>9, ValueExact DEF FromDump
<1> HIDE DEF v
<1>12. /\ taken' \in Seq(Int) /\ Len(taken') = Len(taken) + 1
       /\ \A i \in 1..Len(taken) : taken'[i] = taken[i]
       /\ taken'[Len(taken) + 1] = v
  <2>1. taken \in Seq(Int) /\ taken' = Append(taken, v)
    BY <1>6, <1>8 DEF TakenWritten, v
  <2> QED
    BY <1>10, <2>1
<1>13. /\ Begun \in Nat /\ Len(taken) \in Nat /\ n = Begun + Len(taken) + 1
  BY <1>1, <1>6 DEF LoopReads, n
<1>14. ASSUME NEW i \in Begun + 1..Begun + Len(taken'), Places[i] <= Len(data)
       PROVE  taken'[i - Begun] = written[i]
  <2>1. CASE i = n
    <3>1. i - Begun = Len(taken) + 1
      BY <1>13, <2>1
    <3> QED
      BY <1>11, <1>12, <1>14, <2>1, <3>1
  <2>2. CASE i # n
    <3>1. i \in Begun + 1..Begun + Len(taken) /\ i - Begun \in 1..Len(taken)
      BY <1>12, <1>13, <2>2
    <3>2. taken[i - Begun] = written[i]
      BY <1>6, <1>14, <3>1 DEF TakenWritten
    <3> QED
      BY <1>12, <3>1, <3>2
  <2> QED
    BY <2>1, <2>2
<1>15. TakenWritten'
  BY <1>4, <1>5, <1>12, <1>14 DEF TakenWritten
<1>16. Now' = Now
  <2>1. Now' = Begun + (Len(taken) + 1) - 1
    BY <1>2, <1>4, <1>12 DEF Now
  <2> QED
    BY <1>6, <1>13, <2>1
<1>17. Placed'
  <2>1. UNCHANGED <<place, offset, limit>>
    BY <1>2
  <2> QED
    BY <1>4, <1>5, <1>6, <1>7, <1>16, <2>1 DEF Placed
<1>18. touched' \subseteq 1..Places[Length]
  <2>1. /\ Places[n] = Places[Now] + Size(layout[n]) /\ Size(layout[n]) \in Nat
        /\ Places[Now] \in Nat /\ Places[n] <= Places[Length]
        /\ Places[n] \in Nat /\ Places[Length] \in Nat
    <3>1. n \in 0..Length
      BY <1>1, <1>9 DEF LoopReads
    <3> QED
      BY <1>1, <1>9, <3>1 DEF LoopReads
  <2>2. touched' = touched \cup Cells(current')
    BY DEF Take
  <2>3. Cells(current') = Places[Now] + 1..Places[n]
    BY <1>7, <2>1 DEF Cells
  <2>4. Places[Now] + 1..Places[n] \subseteq 1..Places[Length]
    BY <2>1
  <2> QED
    BY <2>2, <2>3, <2>4 DEF ReadingInv
<1>19. Now' \in Begun'..Length' /\ Now' < Length'
  BY <1>1, <1>4, <1>7, <1>16 DEF LoopReads
<1> QED
  BY <1>2, <1>4, <1>15, <1>17, <1>18, <1>19 DEF ReadingInv

\* The loop ends behind the last item.
LEMMA LoopEnds ==
  ASSUME ReadingInv, End
  PROVE  ReadingInv'
<1>1. loop = "compare" /\ AtEnd /\ loop' = "done" /\ UNCHANGED <<dump, iterator, taken, touched>>
  BY DEF End
<1>2. UNCHANGED dump
  BY <1>1
<1>3. /\ DumpFits' /\ Places' = Places /\ Length' = Length
      /\ ItemSize' = ItemSize /\ Begun' = Begun
  BY <1>2, DumpStays
<1>4. UNCHANGED <<idSize, kind, layout, written, data, index, place, offset, limit, current, taken, touched>>
  BY <1>1 DEF dump, iterator
<1>5. Now = Length /\ Placed /\ Now \in Begun..Length
  BY <1>1, EndReached DEF ReadingInv
<1>6. Now' = Now
  BY <1>1, <1>3, <1>4 DEF Now
<1>7. Placed'
  BY <1>3, <1>4, <1>5, <1>6 DEF Placed
<1>8. TakenWritten'
  BY <1>3, <1>4 DEF ReadingInv, TakenWritten
<1> QED
  BY <1>1, <1>3, <1>4, <1>5, <1>6, <1>7, <1>8 DEF ReadingInv

LEMMA ReadingStays ==
  ASSUME ReadingInv, UNCHANGED valuesVars
  PROVE  ReadingInv'
<1>1. UNCHANGED <<dump, loop, iterator, taken, touched>>
  BY DEF valuesVars
<1>2. UNCHANGED dump
  BY <1>1
<1>3. /\ DumpFits' /\ Places' = Places /\ Length' = Length
      /\ ItemSize' = ItemSize /\ Begun' = Begun
  BY <1>2, DumpStays
<1>4. UNCHANGED <<idSize, kind, layout, written, data, index, place, offset, limit, current, taken, touched, loop>>
  BY <1>1 DEF dump, iterator
<1>5. Now' = Now
  BY <1>3, <1>4 DEF Now
<1>6. Placed' = Placed
  BY <1>3, <1>4, <1>5 DEF Placed
<1>7. TakenWritten'
  BY <1>3, <1>4 DEF ReadingInv, TakenWritten
<1> QED
  BY <1>3, <1>4, <1>5, <1>6, <1>7 DEF ReadingInv

\* Every step keeps to it.
LEMMA ReadingStep ==
  ASSUME ReadingInv, [ValuesNext]_valuesVars
  PROVE  ReadingInv'
<1>1. CASE BeginObjects \/ BeginPrimitives \/ BeginFields
  BY <1>1, LoopBegins
<1>2. CASE NextObject \/ NextPrimitive \/ NextField
  BY <1>2, LoopGoesOn
<1>3. CASE Take
  BY <1>3, LoopTakes
<1>4. CASE End
  BY <1>4, LoopEnds
<1>5. CASE Ended \/ UNCHANGED valuesVars
  BY <1>5, ReadingStays DEF Ended
<1> QED
  BY <1>1, <1>2, <1>3, <1>4, <1>5 DEF ValuesNext

\* A loop over an array or over the fields of an instance, from any index, gives every
\* item behind it once and in order, as it was written to the dump, of an instance
\* those that lie within it (operator[], ++ and the decoding of value_reader.h).
THEOREM ValuesCorrect ==
  ValuesSpec => []ItemsAsWritten
<1>1. ValuesInit => ReadingInv
  BY ReadingStart
<1>2. ReadingInv /\ [ValuesNext]_valuesVars => ReadingInv'
  BY ReadingStep
<1>3. ASSUME ReadingInv PROVE ItemsAsWritten
  <2>1. SUFFICES ASSUME loop = "done"
                 PROVE  /\ Len(taken) = Length - Begun
                        /\ \A i \in Begun + 1..Length :
                             Place(i) + Size(layout[i]) <= Len(data) => taken[i - Begun] = written[i]
    BY DEF ItemsAsWritten, Begun
  <2>2. LoopReads /\ TakenWritten /\ Now = Length /\ Now = Begun + Len(taken)
    BY <1>3, <2>1, ReadingKnown DEF ReadingInv, Now
  <2>3. Len(taken) = Length - Begun /\ Begun + Len(taken) = Length
    <3>1. Length \in Nat /\ Begun \in Nat /\ Len(taken) \in Nat
      BY <2>2 DEF LoopReads
    <3>2. \A l, m, n \in Nat : l = m + n => n = l - m /\ m + n = l
      OBVIOUS
    <3>3. Length = Begun + Len(taken)
      BY <2>2, Zenon
    <3> QED
      BY <3>1, <3>2, <3>3, Zenon
  <2>4. ASSUME NEW i \in Begun + 1..Length, Place(i) + Size(layout[i]) <= Len(data)
        PROVE  taken[i - Begun] = written[i]
    <3>1. i \in 1..Length
      BY <2>2 DEF LoopReads
    <3>2. Places[i] = Places[i - 1] + Size(layout[i])
      BY <2>2, <3>1 DEF LoopReads
    <3>3. Places[i] <= Len(data)
      BY <2>4, <3>2 DEF Place
    <3> QED
      BY <2>2, <2>3, <3>3 DEF TakenWritten
  <2> QED
    BY <2>3, <2>4
<1> QED
  BY <1>1, <1>2, <1>3, PTL DEF ValuesSpec

\* No byte behind an array is ever read, and of an instance only those of fields that
\* its class has and its data do not (instance.cxx:31).
THEOREM ReadWithin ==
  ValuesSpec => []PastEndOnlyIfShort
<1>1. ValuesInit => ReadingInv
  BY ReadingStart
<1>2. ReadingInv /\ [ValuesNext]_valuesVars => ReadingInv'
  BY ReadingStep
<1>3. ReadingInv => PastEndOnlyIfShort
  BY DEF ReadingInv, DumpFits, PastEndOnlyIfShort
<1> QED
  BY <1>1, <1>2, <1>3, PTL DEF ValuesSpec

-------------------------------------------------------------------------------
\* There are at least twice as many numbers of a byte more, and of more bytes.
LEMMA PowerRises ==
  ASSUME NEW s \in 0..IdWidth - 1
  PROVE  2 * Power[s] <= Power[IdWidth]
<1> DEFINE P(n) == Power[n]
<1> DEFINE N == IdWidth - 1 - s
<1> DEFINE S == {j \in 0..N : 2 * P(s) <= P(s + 1 + j)}
<1>1. /\ IdWidth \in Nat /\ s \in Nat /\ N \in Nat /\ s + 1 \in 1..IdWidth /\ (s + 1) - 1 = s
      /\ Base \in Nat /\ Base >= 2 /\ P(s) \in Nat \ {0}
  BY PowerIs, ValuesConstants
<1> DEFINE Doubled(p, b) == 2 * p <= b * p
<1>2. ASSUME NEW p \in Nat PROVE Doubled(p, Base)
  <2>1. (Base - 2) * p >= 0
    BY <1>1
  <2>2. (Base - 2) * p = Base * p - 2 * p
    BY <1>1
  <2> QED
    BY <1>1, <2>1, <2>2
<1>3. 0 \in S
  <2>1. P(s + 1) = Base * P(s)
    BY <1>1, PowerIs
  <2>2. 2 * P(s) <= Base * P(s)
    BY <1>1, <1>2
  <2> QED
    BY <1>1, <2>1, <2>2
<1>4. ASSUME NEW j \in 0..N - 1, j \in S PROVE j + 1 \in S
  <2>1. /\ s + 1 + (j + 1) \in 1..IdWidth /\ (s + 1 + (j + 1)) - 1 = s + 1 + j /\ j + 1 \in 0..N
        /\ s + 1 + j \in 0..IdWidth
    BY <1>1
  <2>2. P(s + 1 + (j + 1)) = Base * P(s + 1 + j) /\ P(s + 1 + j) \in Nat
    BY <2>1, PowerIs
  <2>3. 2 * P(s + 1 + j) <= Base * P(s + 1 + j)
    BY <1>2, <2>2
  <2>4. Base * P(s + 1 + j) \in Nat
    BY <1>1, <2>2
  <2> QED
    BY <1>1, <1>4, <2>1, <2>2, <2>3, <2>4
<1>5. N \in S
  <2> HIDE DEF S
  <2>1. N \in 0..N
    BY <1>1
  <2> HIDE DEF N
  <2> QED
    BY <1>1, <1>3, <1>4, <2>1, InductionTo
<1>6. s + 1 + N = IdWidth
  BY <1>1
<1> QED
  BY <1>5, <1>6

\* What is left of a number, and of the number less all there are.
LEMMA Remainders ==
  ASSUME NEW p \in Nat \ {0}, NEW n \in Int
  PROVE  /\ n \in 0..p - 1 => n % p = n
         /\ n + p \in 0..p - 1 => n % p = n + p
<1>1. ASSUME NEW q \in Int, NEW r \in 0..p - 1 PROVE (q * p + r) % p = r
  OBVIOUS
<1>2. ASSUME n \in 0..p - 1 PROVE n % p = n
  <2>1. 0 * p + n = n
    OBVIOUS
  <2> QED
    BY <1>1, <1>2, <2>1
<1>3. ASSUME n + p \in 0..p - 1 PROVE n % p = n + p
  <2>1. (-1) * p + (n + p) = n
    OBVIOUS
  <2> QED
    BY <1>1, <1>3, <2>1
<1> QED
  BY <1>2, <1>3

\* The top bit of a number is that of its first byte.
LEMMA TopBit ==
  ASSUME NEW s \in 1..IdWidth, NEW bytes \in [1..s -> Digits]
  PROVE  Number(bytes) < Power[s] \div 2 <=> bytes[1] < Base \div 2
<1>1. /\ IdWidth \in Nat /\ s \in Nat \ {0} /\ s \in 0..IdWidth /\ 1 \in 0..s /\ s - 1 \in 0..s - 1
      /\ 1 + (s - 1) = s /\ 1 \in 1..s /\ s - 1 \in 0..IdWidth
      /\ Base \in Nat /\ Base % 2 = 0 /\ bytes[1] \in 0..Base - 1
  BY ValuesConstants DEF Digits
<1>2. PICK number : Counts(number, bytes, s) /\ Number(bytes) = number[s]
  BY <1>1, NumberIs
<1> DEFINE P(n) == Power[n]
<1>3. PICK r \in 0..P(s - 1) - 1 : number[1 + (s - 1)] = number[1] * P(s - 1) + r
  BY <1>1, <1>2, BytesBehind
<1>4. number[1] = bytes[1]
  <2>1. number[0] = 0 /\ number[1] = number[1 - 1] * Base + bytes[1]
    BY <1>1, <1>2 DEF Counts
  <2> QED
    BY <1>1, <2>1
<1>5. P(s) = Base * P(s - 1) /\ P(s - 1) \in Nat \ {0}
  BY <1>1, PowerIs
<1>6. PICK h \in Nat : Base = 2 * h /\ Base \div 2 = h
  BY <1>1
<1>7. PICK p \in Nat \ {0}, a \in Nat : p = P(s - 1) /\ a = bytes[1]
  BY <1>1, <1>5
<1>8. P(s) \div 2 = h * p
  <2>1. P(s) = 2 * (h * p) /\ h * p \in Nat
    BY <1>5, <1>6, <1>7
  <2> QED
    BY <2>1
<1>9. Number(bytes) = a * p + r /\ r \in 0..p - 1
  BY <1>1, <1>2, <1>3, <1>4, <1>7
<1>10. a * p + r < h * p <=> a < h
  <2>1. CASE a < h
    <3>1. (h - a - 1) * p >= 0
      BY <1>7, <2>1
    <3>2. (h - a - 1) * p = h * p - a * p - p
      OBVIOUS
    <3>3. a * p \in Int /\ h * p \in Int
      OBVIOUS
    <3> QED
      BY <1>9, <2>1, <3>1, <3>2, <3>3
  <2>2. CASE ~(a < h)
    <3>1. (a - h) * p >= 0
      BY <1>7, <2>2
    <3>2. (a - h) * p = a * p - h * p
      OBVIOUS
    <3>3. a * p \in Int /\ h * p \in Int
      OBVIOUS
    <3> QED
      BY <1>9, <2>2, <3>1, <3>2, <3>3
  <2> QED
    BY <2>1, <2>2
<1> QED
  BY <1>6, <1>7, <1>8, <1>9, <1>10

\* An id that read_id reads is a number below another exactly if it is the one with
\* its bytes and stays unsigned.
LEMMA IdNames ==
  ASSUME idSize \in IdSizes, NEW id \in [1..idSize -> Digits],
         NEW w \in 0..Power[idSize] - 1
  PROVE  w = ReadId(id) <=> /\ Number(id) = w
                            /\ idSize = IdWidth \/ id[1] < Base \div 2
<1> DEFINE P(n) == Power[n]
<1> DEFINE N == Number(id)
<1>1. /\ idSize \in 1..IdWidth /\ idSize \in 0..IdWidth /\ IdWidth \in Nat /\ Len(id) = idSize
      /\ IdWidth \in 0..IdWidth
  BY ValuesConstants
<1>2. N \in 0..P(idSize) - 1 /\ P(idSize) \in Nat \ {0} /\ P(IdWidth) \in Nat \ {0}
  BY <1>1, NumberBounded, PowerIs
<1>3. N < P(idSize) \div 2 <=> id[1] < Base \div 2
  BY <1>1, TopBit
<1> DEFINE v == IF N < P(idSize) \div 2 THEN N ELSE N - P(idSize)
<1>4. ReadId(id) = v % P(IdWidth)
  BY <1>1 DEF ReadId, AsSigned
<1> HIDE DEF N, P
<1>5. CASE idSize = IdWidth
  <2>1. v % P(IdWidth) = N
    <3>1. CASE N < P(idSize) \div 2
      BY <1>2, <1>5, <3>1, Remainders
    <3>2. CASE ~(N < P(idSize) \div 2)
      <4>1. N - P(idSize) \in Int /\ (N - P(idSize)) + P(IdWidth) = N /\ N \in 0..P(IdWidth) - 1
        BY <1>2, <1>5
      <4> QED
        BY <1>2, <3>2, <4>1, Remainders
    <3> QED
      BY <3>1, <3>2
  <2> QED
    BY <1>4, <1>5, <2>1 DEF N
<1>6. CASE idSize # IdWidth
  <2>1. 2 * P(idSize) <= P(IdWidth)
    <3>1. idSize \in 0..IdWidth - 1
      BY <1>1, <1>6
    <3> QED
      BY <3>1, PowerRises DEF P
  <2>2. CASE N < P(idSize) \div 2
    <3>1. N \in 0..P(IdWidth) - 1
      BY <1>2, <2>1
    <3>2. v % P(IdWidth) = N
      BY <1>2, <2>2, <3>1, Remainders
    <3> QED
      BY <1>3, <1>4, <2>2, <3>2 DEF N
  <2>3. CASE ~(N < P(idSize) \div 2)
    <3>1. N - P(idSize) \in Int /\ (N - P(idSize)) + P(IdWidth) \in 0..P(IdWidth) - 1
      BY <1>2, <2>1
    <3>2. v % P(IdWidth) = (N - P(idSize)) + P(IdWidth)
      BY <1>2, <2>3, <3>1, Remainders
    <3>3. w \in 0..P(idSize) - 1
      BY DEF P
    <3>4. w # (N - P(idSize)) + P(IdWidth)
      BY <1>2, <2>1, <3>3
    <3> QED
      BY <1>3, <1>4, <1>6, <2>3, <3>2, <3>4
  <2> QED
    BY <2>2, <2>3
<1> QED
  BY <1>5, <1>6

\* A reference that was taken names the object with its bytes as its id, and none if
\* those are fewer than jvm_id_t has and the first of them has its top bit set (read_id
\* of data_reader_v103.h extends the sign).
THEOREM ReferencesCorrect ==
  ValuesSpec => []ReferencesFound
<1>1. ValuesInit => ReadingInv
  BY ReadingStart
<1>2. ReadingInv /\ [ValuesNext]_valuesVars => ReadingInv'
  BY ReadingStep
<1>3. ASSUME ReadingInv PROVE ReferencesFound
  <2>1. SUFFICES ASSUME loop = "done", kind = "objects", NEW i \in DOMAIN taken,
                        NEW id \in [1..idSize -> Digits]
                 PROVE  taken[i] = ReadId(id) <=>
                          /\ Number(id) = written[Length - Len(taken) + i]
                          /\ idSize = IdWidth \/ id[1] < Base \div 2
    BY DEF ReferencesFound
  <2>2. LoopReads /\ TakenWritten /\ DumpFits /\ Now = Length /\ Now = Begun + Len(taken)
    BY <1>3, <2>1, ReadingKnown DEF ReadingInv, Now
  <2> DEFINE n == Begun + i
  <2>3. /\ n \in Begun + 1..Begun + Len(taken) /\ n \in 1..Length /\ n - Begun = i
        /\ Length - Len(taken) + i = n /\ n \in 0..Length
    <3>1. i \in 1..Len(taken)
      BY <2>2 DEF TakenWritten
    <3> QED
      BY <2>2, <3>1 DEF LoopReads
  <2> HIDE DEF n
  <2>4. taken[i] = written[n]
    <3>1. Places[n] <= Len(data)
      BY <2>1, <2>2, <2>3 DEF LoopReads, DumpFits
    <3> QED
      BY <2>2, <2>3, <3>1 DEF TakenWritten
  <2>5. idSize \in IdSizes /\ written[n] \in Values(layout[n]) /\ layout[n] = "object"
    BY <2>1, <2>2, <2>3 DEF DumpFits, WrittenFits, LayoutFits
  <2>6. "object" \notin Signed /\ Size("object") = idSize /\ idSize \in 0..IdWidth
    <3>1. "object" \notin Signed /\ idSize \in 0..IdWidth
      BY <2>5, ValuesConstants
    <3>2. Size("object") = idSize
      BY DEF Size
    <3> QED
      BY <3>1, <3>2
  <2>7. PICK bytes \in [1..idSize -> Digits] : written[n] = Number(bytes)
    BY <2>5, <2>6 DEF Values, ReadValue
  <2>8. written[n] \in 0..Power[idSize] - 1
    BY <2>5, <2>6, <2>7, NumberBounded
  <2>9. written[n] = ReadId(id) <=> /\ Number(id) = written[n]
                                    /\ idSize = IdWidth \/ id[1] < Base \div 2
    BY <2>5, <2>8, IdNames
  <2> QED
    BY <2>3, <2>4, <2>9
<1> QED
  BY <1>1, <1>2, <1>3, PTL DEF ValuesSpec
===============================================================================
