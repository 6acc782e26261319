----------------------------- MODULE SequenceFacts -----------------------------
(***************************************************************************)
(* What is known of the elements of a sequence, place by place, after       *)
(* something was pushed on it or popped from it, or after two were joined:  *)
(* the facts about queues that the proofs about the threads and the window  *)
(* rest on.  And induction and recursion over numbers, for the functions    *)
(* that the models define recursively.                                      *)
(***************************************************************************)
EXTENDS Integers, Sequences, SequenceTheorems, WellFoundedInduction, TLAPS

\* What is pushed on a queue is its last element, the others stay where they are.
LEMMA Pushed ==
  ASSUME NEW S, NEW s \in Seq(S), NEW e \in S
  PROVE  /\ DOMAIN Append(s, e) = DOMAIN s \cup {Len(s) + 1}
         /\ Append(s, e)[Len(s) + 1] = e
         /\ \A i \in DOMAIN s : i \in Nat /\ i < Len(s) + 1 /\ Append(s, e)[i] = s[i]
         /\ Len(s) \in Nat
<1>1. Append(s, e) \in Seq(S) /\ Len(Append(s, e)) = Len(s) + 1
  BY AppendProperties
<1>2. DOMAIN s = 1..Len(s) /\ Len(s) \in Nat /\ DOMAIN Append(s, e) = 1..(Len(s) + 1)
  BY <1>1, LenProperties
<1> QED
  BY <1>2, AppendProperties

\* What is popped from a queue is its first element, the others move up by one.
LEMMA Popped ==
  ASSUME NEW S, NEW s \in Seq(S), s # <<>>
  PROVE  /\ 1 \in DOMAIN s /\ Head(s) = s[1] /\ DOMAIN s \subseteq Nat \ {0}
         /\ \A i \in DOMAIN Tail(s) : i \in Nat /\ i + 1 \in DOMAIN s /\ Tail(s)[i] = s[i + 1]
         /\ \A i \in DOMAIN s : i # 1 => i - 1 \in DOMAIN Tail(s) /\ Tail(s)[i - 1] = s[i]
<1>1. Tail(s) \in Seq(S) /\ Len(Tail(s)) = Len(s) - 1
  BY HeadTailProperties
<1>2. /\ DOMAIN s = 1..Len(s) /\ Len(s) \in Nat \ {0}
      /\ DOMAIN Tail(s) = 1..(Len(s) - 1)
  BY <1>1, LenProperties, EmptySeq
<1>3. \A i \in 1..(Len(s) - 1) : Tail(s)[i] = s[i + 1]
  BY <1>1, HeadTailProperties
<1>4. Head(s) = s[1]
  OBVIOUS
<1> QED
  BY <1>2, <1>3, <1>4

(* The same about the new sequence t, for proofs that are not to see how it was *)
(* made.                                                                        *)

\* t is s with e behind it.
IsPushed(s, t, e) ==
  /\ t # <<>> /\ Len(t) \in Nat \ {0}
  /\ DOMAIN t = DOMAIN s \cup {Len(t)} /\ t[Len(t)] = e
  /\ \A i \in DOMAIN s : i \in Nat \ {0} /\ i < Len(t) /\ t[i] = s[i]

\* t is s without its first element.
IsPopped(s, t) ==
  /\ s # <<>> /\ 1 \in DOMAIN s
  /\ \A i \in DOMAIN s : i \in Nat \ {0}
  /\ \A i \in DOMAIN t : i \in Nat \ {0} /\ i + 1 \in DOMAIN s /\ t[i] = s[i + 1]
  /\ \A i \in DOMAIN s : i # 1 => i - 1 \in DOMAIN t /\ t[i - 1] = s[i]
  /\ Len(s) = Len(t) + 1 /\ Len(t) \in Nat
  /\ t # <<>> => Len(t) \in DOMAIN t
  /\ t = <<>> => Len(s) = 1

\* u is s with r behind it.
IsJoined(s, r, u) ==
  /\ Len(s) \in Nat /\ Len(r) \in Nat /\ Len(u) = Len(s) + Len(r)
  /\ \A i \in DOMAIN s : i \in Nat \ {0} /\ i <= Len(s) /\ i \in DOMAIN u /\ u[i] = s[i]
  /\ \A i \in DOMAIN r : i \in Nat \ {0} /\ Len(s) + i \in DOMAIN u /\ u[Len(s) + i] = r[i]
  /\ \A i \in DOMAIN u : \/ i \in DOMAIN s
                         \/ i \in Nat /\ i > Len(s) /\ i - Len(s) \in DOMAIN r

\* Append pushes.
LEMMA AppendPushes ==
  ASSUME NEW S, NEW s \in Seq(S), NEW e \in S
  PROVE  IsPushed(s, Append(s, e), e)
<1>1. Append(s, e) \in Seq(S) /\ Len(Append(s, e)) = Len(s) + 1
  BY AppendProperties
<1>2. /\ DOMAIN s = 1..Len(s) /\ Len(s) \in Nat
      /\ DOMAIN Append(s, e) = 1..(Len(s) + 1) /\ Append(s, e) # <<>>
  BY <1>1, LenProperties, EmptySeq
<1> QED
  BY <1>1, <1>2, AppendProperties DEF IsPushed

\* Tail pops.
LEMMA TailPops ==
  ASSUME NEW S, NEW s \in Seq(S), s # <<>>
  PROVE  IsPopped(s, Tail(s)) /\ Head(s) = s[1]
<1>1. /\ Tail(s) \in Seq(S) /\ Len(Tail(s)) = Len(s) - 1
      /\ Len(s) \in Nat \ {0} /\ DOMAIN s = 1..Len(s)
  BY HeadTailProperties, LenProperties, EmptySeq
<1>2. DOMAIN Tail(s) = 1..(Len(s) - 1) /\ (Tail(s) # <<>> => Len(Tail(s)) \in Nat \ {0})
  BY <1>1, LenProperties, EmptySeq
<1>3. Tail(s) = <<>> => Len(Tail(s)) = 0
  BY EmptySeq
<1> QED
  BY <1>1, <1>2, <1>3, Popped DEF IsPopped

\* Concatenation joins.
LEMMA ConcatJoins ==
  ASSUME NEW S, NEW s \in Seq(S), NEW r \in Seq(S)
  PROVE  IsJoined(s, r, s \o r)
<1>1. /\ s \o r \in Seq(S) /\ Len(s \o r) = Len(s) + Len(r)
      /\ \A i \in 1..Len(s) + Len(r) : (s \o r)[i] = IF i <= Len(s) THEN s[i] ELSE r[i - Len(s)]
  BY ConcatProperties
<1>2. /\ DOMAIN s = 1..Len(s) /\ DOMAIN r = 1..Len(r) /\ DOMAIN (s \o r) = 1..Len(s) + Len(r)
      /\ Len(s) \in Nat /\ Len(r) \in Nat
  BY <1>1, LenProperties
<1> QED
  BY <1>1, <1>2 DEF IsJoined

(* A queue in two parts. *)

\* Popping from two sequences joined pops from the first.
LEMMA TailOfConcat ==
  ASSUME NEW S, NEW s \in Seq(S), NEW t \in Seq(S), s # <<>>
  PROVE  s \o t # <<>> /\ s \o t \in Seq(S) /\ Tail(s \o t) = Tail(s) \o t /\ (s \o t)[1] = s[1]
<1>1. /\ Tail(s) \in Seq(S) /\ Len(Tail(s)) = Len(s) - 1 /\ Len(s) \in Nat \ {0} /\ Len(t) \in Nat
      /\ \A i \in 1..Len(s) - 1 : Tail(s)[i] = s[i + 1]
  BY HeadTailProperties, LenProperties, EmptySeq
<1>2. /\ s \o t \in Seq(S) /\ Len(s \o t) = Len(s) + Len(t)
      /\ \A i \in 1..Len(s) + Len(t) : (s \o t)[i] = IF i <= Len(s) THEN s[i] ELSE t[i - Len(s)]
  BY ConcatProperties
<1>3. s \o t # <<>>
  BY <1>1, <1>2, EmptySeq
<1>4. /\ Tail(s \o t) \in Seq(S) /\ Len(Tail(s \o t)) = Len(s) + Len(t) - 1
      /\ \A i \in 1..Len(s) + Len(t) - 1 : Tail(s \o t)[i] = (s \o t)[i + 1]
  BY <1>2, <1>3, HeadTailProperties
<1>5. /\ Tail(s) \o t \in Seq(S) /\ Len(Tail(s) \o t) = Len(s) + Len(t) - 1
      /\ \A i \in 1..Len(s) + Len(t) - 1 :
           (Tail(s) \o t)[i] = IF i <= Len(s) - 1 THEN Tail(s)[i] ELSE t[i - (Len(s) - 1)]
  <2>1. Len(s) - 1 + Len(t) = Len(s) + Len(t) - 1
    BY <1>1
  <2> QED
    BY <1>1, <2>1, ConcatProperties
<1>6. \A i \in 1..Len(s) + Len(t) - 1 : Tail(s \o t)[i] = (Tail(s) \o t)[i]
  <2> SUFFICES ASSUME NEW i \in 1..Len(s) + Len(t) - 1
               PROVE  Tail(s \o t)[i] = (Tail(s) \o t)[i]
    OBVIOUS
  <2>1. i \in Nat /\ i + 1 \in 1..Len(s) + Len(t) /\ i + 1 - Len(s) = i - (Len(s) - 1)
    BY <1>1
  <2>2. CASE i <= Len(s) - 1
    BY <1>1, <1>2, <1>4, <1>5, <2>1, <2>2
  <2>3. CASE ~(i <= Len(s) - 1)
    BY <1>1, <1>2, <1>4, <1>5, <2>1, <2>3
  <2> QED
    BY <2>2, <2>3
<1> QED
  BY <1>1, <1>2, <1>3, <1>4, <1>5, <1>6, SeqEqual

\* Two sequences joined are the same when the first of the one goes to the end of
\* the other.
LEMMA HeadMoved ==
  ASSUME NEW S, NEW s \in Seq(S), NEW t \in Seq(S), t # <<>>
  PROVE  Append(s, Head(t)) \o Tail(t) = s \o t
<1>1. /\ Tail(t) \in Seq(S) /\ Head(t) \in S /\ Len(Tail(t)) = Len(t) - 1 /\ Head(t) = t[1]
      /\ Len(t) \in Nat \ {0} /\ Len(s) \in Nat
      /\ \A i \in 1..Len(t) - 1 : Tail(t)[i] = t[i + 1]
  BY HeadTailProperties, LenProperties, EmptySeq
<1> SUFFICES ASSUME NEW a, NEW r, a = Append(s, Head(t)), r = Tail(t)
             PROVE  a \o r = s \o t
  OBVIOUS
<1>2. /\ a \in Seq(S) /\ Len(a) = Len(s) + 1 /\ a[Len(s) + 1] = t[1]
      /\ \A i \in 1..Len(s) : a[i] = s[i]
  BY <1>1, AppendProperties
<1>3. /\ r \in Seq(S) /\ Len(r) = Len(t) - 1
      /\ \A i \in 1..Len(t) - 1 : r[i] = t[i + 1]
  BY <1>1
<1>4. Len(s) \in Nat /\ Len(t) \in Nat \ {0} /\ Len(a) + Len(r) = Len(s) + Len(t)
  BY <1>1, <1>2, <1>3
<1>5. /\ a \o r \in Seq(S) /\ Len(a \o r) = Len(s) + Len(t)
      /\ \A i \in 1..Len(s) + Len(t) : (a \o r)[i] = IF i <= Len(a) THEN a[i] ELSE r[i - Len(a)]
  <2>1. /\ a \o r \in Seq(S) /\ Len(a \o r) = Len(a) + Len(r)
        /\ \A i \in 1..Len(a) + Len(r) : (a \o r)[i] = IF i <= Len(a) THEN a[i] ELSE r[i - Len(a)]
    BY <1>2, <1>3, ConcatProperties
  <2> QED
    BY <1>4, <2>1
<1>6. /\ s \o t \in Seq(S) /\ Len(s \o t) = Len(s) + Len(t)
      /\ \A i \in 1..Len(s) + Len(t) : (s \o t)[i] = IF i <= Len(s) THEN s[i] ELSE t[i - Len(s)]
  BY ConcatProperties
<1>7. ASSUME NEW i \in 1..Len(s) + Len(t) PROVE (a \o r)[i] = (s \o t)[i]
  <2>1. CASE i <= Len(s)
    BY <1>2, <1>4, <1>5, <1>6, <2>1
  <2>2. CASE i = Len(s) + 1
    BY <1>2, <1>4, <1>5, <1>6, <2>2
  <2>3. CASE i > Len(s) + 1
    <3>1. /\ i - Len(a) \in 1..Len(t) - 1 /\ i - Len(a) + 1 = i - Len(s)
          /\ ~(i <= Len(a)) /\ ~(i <= Len(s))
      BY <1>2, <1>4, <2>3
    <3> QED
      BY <1>3, <1>5, <1>6, <3>1
  <2> QED
    BY <1>4, <2>1, <2>2, <2>3
<1> QED
  BY <1>4, <1>5, <1>6, <1>7, SeqEqual

-------------------------------------------------------------------------------
(* Induction and recursion over numbers. *)

\* A set of natural numbers has a least element.
LEMMA LeastNumber ==
  ASSUME NEW T \in SUBSET Nat, T # {}
  PROVE  \E n \in T : \A m \in T : n <= m
<1> DEFINE R == OpToRel(<, Nat)
<1>1. IsWellFoundedOn(R, Nat)
  BY NatLessThanWellFounded
<1>2. PICK n \in T : \A y \in T : <<y, n>> \notin R
  <2> HIDE DEF R
  <2> QED
    BY <1>1, WFMin
<1>3. \A y \in T : ~(y < n)
  BY <1>2 DEF OpToRel
<1>4. \A y \in T : y \in Nat /\ n \in Nat
  OBVIOUS
<1> HIDE DEF R
<1> QED
  BY <1>3, <1>4

\* Induction up to a bound: S stands for the numbers that have the property.
LEMMA InductionTo ==
  ASSUME NEW N \in Nat, NEW S, 0 \in S, \A n \in 0..(N - 1) : n \in S => n + 1 \in S
  PROVE  \A n \in 0..N : n \in S
<1> DEFINE T == {n \in 0..N : n \notin S}
<1> SUFFICES ASSUME T # {} PROVE FALSE
  OBVIOUS
<1>1. PICK n \in T : \A m \in T : n <= m
  <2>1. T \in SUBSET Nat
    OBVIOUS
  <2> HIDE DEF T
  <2> QED
    BY <2>1, LeastNumber
<1>2. n \in 1..N /\ n \notin S
  <2>1. n # 0
    OBVIOUS
  <2> QED
    BY <2>1
<1>3. n - 1 \in 0..(N - 1) /\ (n - 1) + 1 = n
  BY <1>2
<1>4. n - 1 \in S
  <2> SUFFICES ASSUME n - 1 \notin S PROVE FALSE
    OBVIOUS
  <2>1. n - 1 \in T
    BY <1>3
  <2> HIDE DEF T
  <2> QED
    BY <1>1, <1>2, <1>3, <2>1
<1> QED
  BY <1>2, <1>3, <1>4

\* A function on 0..N begins with a and goes on by the rule step.
Defines(N, A, a, step) ==
  \E f \in [0..N -> A] : f[0] = a /\ \A n \in 1..N : f[n] = step[<<n, f[n - 1]>>]

\* What a recursive definition over numbers defines exists.
LEMMA RecursionExists ==
  \A N, A, a, step : N \in Nat /\ a \in A /\ step \in [(1..N) \X A -> A] => Defines(N, A, a, step)
<1> SUFFICES ASSUME NEW N \in Nat, NEW A, NEW a \in A, NEW step \in [(1..N) \X A -> A]
             PROVE  Defines(N, A, a, step)
  OBVIOUS
<1> DEFINE Upto(m, f) == f[0] = a /\ \A n \in 1..m : f[n] = step[<<n, f[n - 1]>>]
<1> DEFINE S == {m \in 0..N : \E f \in [0..m -> A] : Upto(m, f)}
<1>1. 0 \in S
  <2> DEFINE g == [n \in 0..0 |-> a]
  <2>1. g \in [0..0 -> A] /\ Upto(0, g) /\ 0 \in 0..N
    OBVIOUS
  <2> HIDE DEF g, Upto
  <2> QED
    BY <2>1
<1>2. ASSUME NEW m \in 0..(N - 1), m \in S PROVE m + 1 \in S
  <2>1. PICK f \in [0..m -> A] : Upto(m, f)
    BY <1>2
  <2>2. m \in 0..m /\ m + 1 \in 1..N /\ f[m] \in A /\ m + 1 \in 0..N
    OBVIOUS
  <2> DEFINE b == step[<<m + 1, f[m]>>]
  <2>3. b \in A
    <3>1. <<m + 1, f[m]>> \in (1..N) \X A
      BY <2>2
    <3> QED
      BY <3>1
  <2> DEFINE g == [n \in 0..(m + 1) |-> IF n = m + 1 THEN b ELSE f[n]]
  <2>4. g \in [0..(m + 1) -> A]
    <3>1. \A n \in 0..(m + 1) : n # m + 1 => n \in 0..m
      OBVIOUS
    <3> HIDE DEF b
    <3> QED
      BY <2>3, <3>1
  <2>5. g[0] = a
    BY <2>1
  <2>6. ASSUME NEW n \in 1..(m + 1) PROVE g[n] = step[<<n, g[n - 1]>>]
    <3>1. n - 1 \in 0..m /\ n \in 0..(m + 1) /\ n - 1 # m + 1 /\ n - 1 \in 0..(m + 1)
      OBVIOUS
    <3>2. g[n - 1] = f[n - 1]
      BY <3>1
    <3>3. CASE n = m + 1
      <4>1. g[n] = b /\ n - 1 = m
        BY <3>1, <3>3
      <4> HIDE DEF g
      <4> QED
        BY <3>2, <3>3, <4>1
    <3>4. CASE n # m + 1
      <4>1. g[n] = f[n] /\ n \in 1..m
        BY <3>1, <3>4
      <4> HIDE DEF g
      <4> QED
        BY <2>1, <3>2, <4>1
    <3> QED
      BY <3>3, <3>4
  <2>7. Upto(m + 1, g)
    <3> HIDE DEF g
    <3> QED
      BY <2>5, <2>6
  <2> HIDE DEF g, Upto
  <2> QED
    BY <2>2, <2>4, <2>7
<1>3. N \in S
  <2> HIDE DEF S
  <2> QED
    BY <1>1, <1>2, InductionTo
<1> QED
  BY <1>3 DEF Defines
===============================================================================
