--------------------------- MODULE DumpReaderProofs ---------------------------
(* Theorems about the reader of a dump, for any files of any size, and any cut. *)
EXTENDS DumpReader, SequenceFacts, FiniteSetTheorems

-------------------------------------------------------------------------------
(* Sums, and what goes step by step. *)

\* Two functions that begin alike and go on alike end alike.
LEMMA SameEnd ==
  ASSUME NEW n \in Nat, NEW f, NEW g, f[0] = g[0],
         \A k \in 1..n : f[k - 1] = g[k - 1] => f[k] = g[k]
  PROVE  f[n] = g[n]
<1> DEFINE S == {k \in 0..n : f[k] = g[k]}
<1>1. 0 \in S
  OBVIOUS
<1>2. ASSUME NEW k \in 0..(n - 1), k \in S PROVE k + 1 \in S
  <2>1. k + 1 \in 1..n /\ (k + 1) - 1 = k
    OBVIOUS
  <2> QED
    BY <1>2, <2>1
<1>3. \A k \in 0..n : k \in S
  <2> HIDE DEF S
  <2> QED
    BY <1>1, <1>2, InductionTo
<1> QED
  BY <1>3

\* The sum of some numbers grows by each.
LEMMA AddedSteps ==
  ASSUME NEW N \in Nat, NEW numbers, \A k \in 1..N : numbers[k] \in Nat
  PROVE  /\ Added(numbers, 0) = 0
         /\ \A n \in 0..N : Added(numbers, n) \in Nat
         /\ \A n \in 1..N : Added(numbers, n) = Added(numbers, n - 1) + numbers[n]
<1> DEFINE step == [p \in (1..N) \X Nat |-> p[2] + numbers[p[1]]]
<1>1. step \in [(1..N) \X Nat -> Nat]
  OBVIOUS
<1>2. PICK f \in [0..N -> Nat] : f[0] = 0 /\ \A n \in 1..N : f[n] = step[<<n, f[n - 1]>>]
  <2> HIDE DEF step
  <2>1. Defines(N, Nat, 0, step)
    BY <1>1, RecursionExists
  <2> QED
    BY <2>1 DEF Defines
<1>3. ASSUME NEW n \in 1..N PROVE f[n] = f[n - 1] + numbers[n] /\ f[n - 1] \in Nat
  <2>1. n - 1 \in 0..N
    OBVIOUS
  <2>2. f[n - 1] \in Nat /\ <<n, f[n - 1]>> \in (1..N) \X Nat
    BY <2>1
  <2>3. step[<<n, f[n - 1]>>] = f[n - 1] + numbers[n]
    BY <2>2
  <2> QED
    BY <1>2, <2>2, <2>3
<1>4. ASSUME NEW n \in 0..N PROVE Added(numbers, n) = f[n]
  <2> DEFINE Is(sum) == sum = [k \in 0..n |-> IF k = 0 THEN 0 ELSE sum[k - 1] + numbers[k]]
  <2> DEFINE g == [k \in 0..n |-> f[k]]
  <2> DEFINE h == CHOOSE sum : Is(sum)
  <2>1. ASSUME NEW k \in 0..n PROVE g[k] = IF k = 0 THEN 0 ELSE g[k - 1] + numbers[k]
    <3>1. k # 0 => k - 1 \in 0..n /\ k \in 1..N
      OBVIOUS
    <3> QED
      BY <1>2, <1>3, <3>1
  <2>2. Is(g)
    <3> SUFFICES g = [k \in 0..n |-> IF k = 0 THEN 0 ELSE g[k - 1] + numbers[k]]
      OBVIOUS
    <3> HIDE DEF g
    <3>1. DOMAIN g = 0..n /\ g = [k \in 0..n |-> g[k]]
      BY DEF g
    <3> QED
      BY <2>1, <3>1
  <2>3. Is(h)
    <3> HIDE DEF Is, g
    <3> QED
      BY <2>2
  <2>4. h[0] = f[0]
    <3> HIDE DEF h
    <3> QED
      BY <1>2, <2>3
  <2>5. ASSUME NEW k \in 1..n, h[k - 1] = f[k - 1] PROVE h[k] = f[k]
    <3>1. h[k] = h[k - 1] + numbers[k]
      <4> HIDE DEF h
      <4> QED
        BY <2>3
    <3> HIDE DEF h
    <3> QED
      BY <1>3, <2>5, <3>1
  <2>6. h[n] = f[n]
    <3> HIDE DEF h
    <3>1. n \in Nat /\ \A k \in 1..n : h[k - 1] = f[k - 1] => h[k] = f[k]
      BY <2>5
    <3> QED
      BY <2>4, <3>1, SameEnd
  <2> QED
    BY <2>6 DEF Added
<1> HIDE DEF step
<1>5. ASSUME NEW n \in 1..N PROVE Added(numbers, n) = Added(numbers, n - 1) + numbers[n]
  <2>1. n - 1 \in 0..N /\ n \in 0..N
    OBVIOUS
  <2> QED
    BY <1>3, <1>4, <2>1
<1> QED
  BY <1>2, <1>4, <1>5

\* It never shrinks.
LEMMA AddedGrows ==
  ASSUME NEW N \in Nat, NEW numbers, \A k \in 1..N : numbers[k] \in Nat,
         NEW m \in 0..N, NEW n \in 0..N, m <= n
  PROVE  Added(numbers, m) <= Added(numbers, n)
<1> DEFINE S == {k \in 0..N : m <= k => Added(numbers, m) <= Added(numbers, k)}
<1>1. /\ \A k \in 0..N : Added(numbers, k) \in Nat
      /\ \A k \in 1..N : Added(numbers, k) = Added(numbers, k - 1) + numbers[k]
  BY AddedSteps
<1>2. 0 \in S
  <2>1. m <= 0 => m = 0
    OBVIOUS
  <2>2. Added(numbers, m) <= Added(numbers, m)
    BY <1>1
  <2> QED
    BY <2>1, <2>2
<1>3. ASSUME NEW k \in 0..(N - 1), k \in S PROVE k + 1 \in S
  <2>1. k + 1 \in 1..N /\ (k + 1) - 1 = k /\ k + 1 \in 0..N
    OBVIOUS
  <2>2. Added(numbers, k + 1) = Added(numbers, k) + numbers[k + 1]
    BY <1>1, <2>1
  <2>3. Added(numbers, m) \in Nat /\ Added(numbers, k) \in Nat /\ numbers[k + 1] \in Nat
    BY <1>1, <2>1
  <2>4. m <= k + 1 => m <= k \/ m = k + 1
    OBVIOUS
  <2> QED
    BY <1>3, <2>1, <2>2, <2>3, <2>4
<1>4. \A k \in 0..N : k \in S
  <2> HIDE DEF S
  <2> QED
    BY <1>2, <1>3, InductionTo
<1> QED
  BY <1>4

\* The sum of n times the same number.
LEMMA AddedSame ==
  ASSUME NEW N \in Nat, NEW b \in Nat, NEW numbers, \A k \in 1..N : numbers[k] = b
  PROVE  \A n \in 0..N : Added(numbers, n) = n * b
<1> DEFINE S == {k \in 0..N : Added(numbers, k) = k * b}
<1>1. /\ Added(numbers, 0) = 0
      /\ \A k \in 1..N : Added(numbers, k) = Added(numbers, k - 1) + numbers[k]
  BY AddedSteps
<1>2. 0 \in S
  BY <1>1
<1>3. ASSUME NEW k \in 0..(N - 1), k \in S PROVE k + 1 \in S
  <2>1. k + 1 \in 1..N /\ (k + 1) - 1 = k /\ k + 1 \in 0..N
    OBVIOUS
  <2>2. Added(numbers, k + 1) = Added(numbers, k) + b
    BY <1>1, <2>1
  <2>3. (k + 1) * b = k * b + b
    OBVIOUS
  <2> QED
    BY <1>3, <2>1, <2>2, <2>3
<1>4. \A k \in 0..N : k \in S
  <2> HIDE DEF S
  <2> QED
    BY <1>2, <1>3, InductionTo
<1> QED
  BY <1>4

-------------------------------------------------------------------------------
(* What reads do to the cursor. *)

Cursor == [pos : Int, left : Int, err : BOOLEAN]
Ops == {"id", "int", "short", "byte"}
OpBytes(op) == CASE op = "id" -> idSize [] op = "int" -> 4 [] op = "short" -> 2 [] op = "byte" -> 1

\* d is c after reads of n bytes, of which an error may have stopped some: what is left
\* of the section ends where it did, and without an error the cursor moved by n.
Moved(c, d, n) ==
  /\ d \in Cursor
  /\ d.pos + d.left = c.pos + c.left
  /\ c.pos <= d.pos /\ d.pos <= c.pos + n
  /\ c.err => d.err
  /\ ~d.err => d.pos = c.pos + n
  /\ d.err /\ ~c.err => d.pos < c.pos + n
  /\ ~c.err /\ c.left >= n => ~d.err

\* No reads.
LEMMA NotMoved == ASSUME NEW c \in Cursor PROVE Moved(c, c, 0)
BY DEF Moved, Cursor

\* Reads and further reads.
LEMMA MovedOn ==
  ASSUME NEW c \in Cursor, NEW d, NEW e, NEW n \in Nat, NEW m \in Nat, Moved(c, d, n), Moved(d, e, m)
  PROVE  Moved(c, e, n + m)
<1>1. c \in Cursor /\ d \in Cursor /\ e \in Cursor
  BY DEF Moved
<1> QED
  BY <1>1 DEF Moved, Cursor

\* A read of an integer or a byte.
LEMMA FixedMoves ==
  ASSUME NEW c \in Cursor, NEW n \in Nat \ {0}
  PROVE  Moved(c, Fixed(c, n), n)
<1>1. CASE c.left \in 0..(n - 1)
  <2>1. Fixed(c, n) = [pos |-> c.pos, left |-> c.left, err |-> TRUE]
    BY <1>1 DEF Fixed, Cursor
  <2> QED
    BY <1>1, <2>1 DEF Moved, Cursor
<1>2. CASE c.left \notin 0..(n - 1)
  <2>1. Fixed(c, n) = [pos |-> c.pos + n, left |-> c.left - n, err |-> c.err]
    BY <1>2 DEF Fixed, Cursor
  <2> QED
    BY <1>2, <2>1 DEF Moved, Cursor
<1> QED
  BY <1>1, <1>2

\* Any read.
LEMMA ReadMoves ==
  ASSUME NEW c \in Cursor, NEW op \in Ops, idSize \in Nat \ {0}
  PROVE  Moved(c, Read(c, op), OpBytes(op)) /\ OpBytes(op) \in Nat \ {0}
<1>1. CASE op = "id"
  <2>1. Read(c, op) = [pos |-> c.pos + idSize, left |-> c.left - idSize, err |-> c.err]
    BY <1>1 DEF Read, Cursor
  <2>2. OpBytes(op) = idSize
    BY <1>1 DEF OpBytes
  <2> QED
    BY <2>1, <2>2 DEF Moved, Cursor
<1>2. CASE op = "int"
  BY <1>2, FixedMoves DEF Read, OpBytes
<1>3. CASE op = "short"
  BY <1>3, FixedMoves DEF Read, OpBytes
<1>4. CASE op = "byte"
  BY <1>4, FixedMoves DEF Read, OpBytes
<1> QED
  BY <1>1, <1>2, <1>3, <1>4 DEF Ops

\* Bytes are there, or the cursor is behind the end of the file.
LEMMA BytesMove ==
  ASSUME NEW c \in Cursor, NEW n \in Nat, cut \in Int
  PROVE  /\ n = 0 \/ c.pos + n <= cut => Moved(c, Bytes(c, n), n) /\ Bytes(c, n).err = c.err
         /\ n # 0 /\ c.pos + n > cut => /\ Bytes(c, n) \in Cursor /\ Bytes(c, n).err
                                       /\ Bytes(c, n).pos = c.pos + n /\ Bytes(c, n).left = c.left
<1>0. c.pos \in Int /\ c.left \in Int /\ c.err \in BOOLEAN /\ c = [pos |-> c.pos, left |-> c.left, err |-> c.err]
  BY DEF Cursor
<1>1. CASE n = 0
  BY <1>1, NotMoved DEF Bytes
<1>2. CASE n # 0 /\ c.pos + n <= cut
  <2>1. Bytes(c, n) = [pos |-> c.pos + n, left |-> c.left - n, err |-> c.err]
    <3>1. ~(c.pos + n > cut)
      BY <1>0, <1>2
    <3> QED
      BY <1>0, <1>2, <3>1 DEF Bytes
  <2> QED
    BY <1>2, <2>1 DEF Moved, Cursor
<1>3. CASE n # 0 /\ c.pos + n > cut
  <2>1. Bytes(c, n) = [pos |-> c.pos + n, left |-> c.left, err |-> TRUE]
    BY <1>3 DEF Bytes, Cursor
  <2> QED
    <3>1. ~(n = 0 \/ c.pos + n <= cut)
      BY <1>0, <1>3
    <3>2. Bytes(c, n) \in Cursor
      BY <1>0, <2>1 DEF Cursor
    <3>3. Bytes(c, n).err /\ Bytes(c, n).pos = c.pos + n /\ Bytes(c, n).left = c.left
      BY <2>1
    <3> QED
      BY <3>1, <3>2, <3>3
<1> QED
  BY <1>0, <1>1, <1>2, <1>3

\* Some reads go on by one read each.
LEMMA AfterSteps ==
  ASSUME NEW c \in Cursor, NEW ops \in Seq(Ops), idSize \in Nat \ {0}
  PROVE  /\ After(c, ops, 0) = c
         /\ \A n \in 0..Len(ops) : After(c, ops, n) \in Cursor
         /\ \A n \in 1..Len(ops) : After(c, ops, n) = Read(After(c, ops, n - 1), ops[n])
<1> DEFINE N == Len(ops)
<1> DEFINE step == [p \in (1..N) \X Cursor |-> Read(p[2], ops[p[1]])]
<1>0. N \in Nat /\ \A n \in 1..N : ops[n] \in Ops
  OBVIOUS
<1>1. ASSUME NEW n \in 1..N, NEW d \in Cursor PROVE Read(d, ops[n]) \in Cursor
  BY <1>0, ReadMoves DEF Moved
<1> HIDE DEF N
<1>2. step \in [(1..N) \X Cursor -> Cursor]
  BY <1>1
<1>3. PICK f \in [0..N -> Cursor] : f[0] = c /\ \A n \in 1..N : f[n] = step[<<n, f[n - 1]>>]
  <2> HIDE DEF step, Cursor
  <2>1. Defines(N, Cursor, c, step)
    BY <1>0, <1>2, RecursionExists
  <2> QED
    BY <2>1 DEF Defines
<1>4. ASSUME NEW n \in 1..N PROVE f[n] = Read(f[n - 1], ops[n]) /\ f[n - 1] \in Cursor
  <2>1. n - 1 \in 0..N
    BY <1>0
  <2>2. f[n - 1] \in Cursor /\ <<n, f[n - 1]>> \in (1..N) \X Cursor
    BY <2>1
  <2>3. step[<<n, f[n - 1]>>] = Read(f[n - 1], ops[n])
    BY <2>2
  <2> QED
    BY <1>3, <2>2, <2>3
<1>5. ASSUME NEW n \in 0..N PROVE After(c, ops, n) = f[n]
  <2> DEFINE Is(read) == read = [k \in 0..n |-> IF k = 0 THEN c ELSE Read(read[k - 1], ops[k])]
  <2> DEFINE g == [k \in 0..n |-> f[k]]
  <2> DEFINE h == CHOOSE read : Is(read)
  <2>1. ASSUME NEW k \in 0..n PROVE g[k] = IF k = 0 THEN c ELSE Read(g[k - 1], ops[k])
    <3>1. k # 0 => k - 1 \in 0..n /\ k \in 1..N
      BY <1>0
    <3>2. g[k] = f[k] /\ (k # 0 => g[k - 1] = f[k - 1])
      BY <3>1
    <3> HIDE DEF g
    <3> QED
      BY <1>3, <1>4, <3>1, <3>2
  <2>2. Is(g)
    <3> SUFFICES g = [k \in 0..n |-> IF k = 0 THEN c ELSE Read(g[k - 1], ops[k])]
      OBVIOUS
    <3> HIDE DEF g
    <3>1. DOMAIN g = 0..n /\ g = [k \in 0..n |-> g[k]]
      BY DEF g
    <3> QED
      BY <2>1, <3>1
  <2>3. Is(h)
    <3> HIDE DEF Is, g
    <3> QED
      BY <2>2
  <2>4. h[0] = f[0]
    <3>1. 0 \in 0..n
      BY <1>0
    <3> HIDE DEF h
    <3> QED
      BY <1>3, <2>3, <3>1
  <2>5. ASSUME NEW k \in 1..n, h[k - 1] = f[k - 1] PROVE h[k] = f[k]
    <3>0. k \in 0..n /\ k # 0 /\ k \in 1..N
      BY <1>0
    <3>1. h[k] = Read(h[k - 1], ops[k])
      <4> HIDE DEF h
      <4> QED
        BY <2>3, <3>0
    <3> HIDE DEF h
    <3> QED
      BY <1>4, <2>5, <3>0, <3>1
  <2>6. h[n] = f[n]
    <3> HIDE DEF h
    <3>1. n \in Nat /\ \A k \in 1..n : h[k - 1] = f[k - 1] => h[k] = f[k]
      BY <1>0, <2>5
    <3> QED
      BY <2>4, <3>1, SameEnd
  <2> QED
    BY <2>6 DEF After
<1> HIDE DEF step
<1>6. ASSUME NEW n \in 1..N PROVE After(c, ops, n) = Read(After(c, ops, n - 1), ops[n])
  <2>1. n - 1 \in 0..N /\ n \in 0..N
    BY <1>0
  <2> QED
    BY <1>4, <1>5, <2>1
<1>7. 0 \in 0..N
  BY <1>0
<1>8. After(c, ops, 0) = c /\ \A n \in 0..N : After(c, ops, n) \in Cursor
  BY <1>3, <1>5, <1>7
<1> QED
  BY <1>6, <1>8 DEF N

OpSizes(ops) == [k \in 1..Len(ops) |-> OpBytes(ops[k])]

\* They are the sums of their sizes.
LEMMA OpSizesNat ==
  ASSUME NEW ops \in Seq(Ops), idSize \in Nat \ {0}
  PROVE  /\ Len(ops) \in Nat
         /\ \A k \in 1..Len(ops) : OpSizes(ops)[k] = OpBytes(ops[k]) /\ OpBytes(ops[k]) \in Nat \ {0}
                                /\ ops[k] \in Ops
<1>1. Len(ops) \in Nat /\ \A k \in 1..Len(ops) : ops[k] \in Ops
  OBVIOUS
<1>2. \A op \in Ops : OpBytes(op) \in Nat \ {0}
  BY DEF Ops, OpBytes
<1> QED
  BY <1>1, <1>2 DEF OpSizes

\* Some reads move the cursor by what they read together, and keep an error.
LEMMA AfterMoves ==
  ASSUME NEW c \in Cursor, NEW ops \in Seq(Ops), idSize \in Nat \ {0}
  PROVE  \A n \in 0..Len(ops) : /\ Moved(c, After(c, ops, n), Added(OpSizes(ops), n))
                                /\ Added(OpSizes(ops), n) \in Nat
<1> DEFINE N == Len(ops)
<1> DEFINE size(n) == Added(OpSizes(ops), n)
<1>0. /\ N \in Nat
      /\ \A k \in 1..N : OpSizes(ops)[k] = OpBytes(ops[k]) /\ OpBytes(ops[k]) \in Nat \ {0} /\ ops[k] \in Ops
  BY OpSizesNat
<1>1. /\ size(0) = 0 /\ \A n \in 0..N : size(n) \in Nat
      /\ \A n \in 1..N : size(n) = size(n - 1) + OpBytes(ops[n])
  <2>1. \A k \in 1..N : OpSizes(ops)[k] \in Nat
    BY <1>0
  <2>2. /\ size(0) = 0 /\ \A n \in 0..N : size(n) \in Nat
        /\ \A n \in 1..N : size(n) = size(n - 1) + OpSizes(ops)[n]
    <3> HIDE DEF N
    <3> QED
      BY <1>0, <2>1, AddedSteps
  <2> HIDE DEF N, size
  <2> QED
    BY <1>0, <2>2
<1>2. /\ After(c, ops, 0) = c
      /\ \A n \in 0..N : After(c, ops, n) \in Cursor
      /\ \A n \in 1..N : After(c, ops, n) = Read(After(c, ops, n - 1), ops[n])
  BY AfterSteps
<1> HIDE DEF N, size
<1> DEFINE S == {n \in 0..N : Moved(c, After(c, ops, n), size(n))}
<1>3. 0 \in S
  <2>1. 0 \in 0..N /\ Moved(c, After(c, ops, 0), size(0))
    BY <1>0, <1>1, <1>2, NotMoved
  <2> QED
    BY <2>1
<1>4. ASSUME NEW n \in 0..(N - 1), n \in S PROVE n + 1 \in S
  <2>1. n + 1 \in 1..N /\ (n + 1) - 1 = n /\ n \in 0..N /\ n + 1 \in 0..N
    BY <1>0
  <2>2. /\ After(c, ops, n + 1) = Read(After(c, ops, n), ops[n + 1])
        /\ size(n + 1) = size(n) + OpBytes(ops[n + 1])
        /\ After(c, ops, n) \in Cursor /\ size(n) \in Nat
    BY <1>1, <1>2, <2>1
  <2>3. /\ Moved(After(c, ops, n), Read(After(c, ops, n), ops[n + 1]), OpBytes(ops[n + 1]))
        /\ OpBytes(ops[n + 1]) \in Nat
    BY <1>0, <2>1, <2>2, ReadMoves
  <2>4. Moved(c, After(c, ops, n), size(n))
    BY <1>4
  <2>5. Moved(c, After(c, ops, n + 1), size(n + 1))
    BY <2>2, <2>3, <2>4, MovedOn
  <2> QED
    BY <2>1, <2>5
<1>5. \A n \in 0..N : n \in S
  <2> HIDE DEF S
  <2> QED
    BY <1>0, <1>3, <1>4, InductionTo
<1> QED
  BY <1>1, <1>5 DEF N, size

\* Where no error came up, none came up before.
LEMMA NoErrorBefore ==
  ASSUME NEW c \in Cursor, NEW ops \in Seq(Ops), idSize \in Nat \ {0}, ~Reads(c, ops).err
  PROVE  \A n \in 0..Len(ops) : ~After(c, ops, n).err
<1> DEFINE N == Len(ops)
<1>0. N \in Nat /\ \A k \in 1..N : ops[k] \in Ops
  OBVIOUS
<1>1. /\ \A n \in 0..N : After(c, ops, n) \in Cursor
      /\ \A n \in 1..N : After(c, ops, n) = Read(After(c, ops, n - 1), ops[n])
  BY AfterSteps
<1>2. ASSUME NEW n \in 1..N, ~After(c, ops, n).err PROVE ~After(c, ops, n - 1).err
  <2>1. n - 1 \in 0..N
    BY <1>0
  <2>2. After(c, ops, n - 1) \in Cursor /\ After(c, ops, n) = Read(After(c, ops, n - 1), ops[n]) /\ ops[n] \in Ops
    BY <1>0, <1>1, <2>1
  <2>3. Moved(After(c, ops, n - 1), After(c, ops, n), OpBytes(ops[n]))
    BY <2>2, ReadMoves
  <2> QED
    BY <1>2, <2>3 DEF Moved
<1>3. ~After(c, ops, N).err
  BY DEF Reads
<1> HIDE DEF N
<1> DEFINE S == {n \in 0..N : ~After(c, ops, N - n).err}
<1>4. 0 \in S
  BY <1>0, <1>3
<1>5. ASSUME NEW n \in 0..(N - 1), n \in S PROVE n + 1 \in S
  <2>1. N - n \in 1..N /\ (N - n) - 1 = N - (n + 1) /\ n + 1 \in 0..N
    BY <1>0
  <2> QED
    BY <1>2, <1>5, <2>1
<1>6. \A n \in 0..N : n \in S
  <2> HIDE DEF S
  <2> QED
    BY <1>0, <1>4, <1>5, InductionTo
<1>7. ASSUME NEW n \in 0..N PROVE ~After(c, ops, n).err
  <2>1. N - n \in 0..N /\ N - (N - n) = n
    BY <1>0
  <2> QED
    BY <1>6, <2>1
<1> QED
  BY <1>7 DEF N

\* Values that are before the cut are as they were written, values across it are 0.
LEMMA ValuesRead ==
  ASSUME NEW c \in Cursor, NEW ops \in Seq(Ops), idSize \in Nat \ {0}, ~Reads(c, ops).err, cut \in Int,
         NEW n \in 1..Len(ops), NEW v
  PROVE  ValueAt(c, ops, n, v) = IF c.pos + Added(OpSizes(ops), n) <= cut THEN v ELSE 0
<1>0. Len(ops) \in Nat /\ n \in 0..Len(ops) /\ n - 1 \in 0..Len(ops)
  BY LenProperties
<1>1. ~After(c, ops, n).err /\ ~After(c, ops, n - 1).err
  BY <1>0, NoErrorBefore
<1>2. /\ Moved(c, After(c, ops, n), Added(OpSizes(ops), n)) /\ Added(OpSizes(ops), n) \in Nat
      /\ Moved(c, After(c, ops, n - 1), Added(OpSizes(ops), n - 1)) /\ Added(OpSizes(ops), n - 1) \in Nat
  BY <1>0, AfterMoves
<1>3. After(c, ops, n).pos = c.pos + Added(OpSizes(ops), n)
  BY <1>1, <1>2 DEF Moved
<1>4. After(c, ops, n - 1).pos = c.pos + Added(OpSizes(ops), n - 1)
  BY <1>1, <1>2 DEF Moved
<1>5. Added(OpSizes(ops), n) = Added(OpSizes(ops), n - 1) + OpBytes(ops[n]) /\ OpBytes(ops[n]) \in Nat \ {0}
  <2>1. \A k \in 1..Len(ops) : OpSizes(ops)[k] = OpBytes(ops[k]) /\ OpBytes(ops[k]) \in Nat \ {0}
    BY OpSizesNat
  <2>2. \A k \in 1..Len(ops) : OpSizes(ops)[k] \in Nat
    BY <2>1
  <2>3. Added(OpSizes(ops), n) = Added(OpSizes(ops), n - 1) + OpSizes(ops)[n]
    BY <1>0, <2>2, AddedSteps
  <2> QED
    BY <2>1, <2>3
<1>6. c.pos \in Int
  BY DEF Cursor
<1>7. After(c, ops, n).pos \in (After(c, ops, n - 1).pos + 1)..cut <=> c.pos + Added(OpSizes(ops), n) <= cut
  <2> DEFINE a == Added(OpSizes(ops), n - 1)
  <2> DEFINE b == OpBytes(ops[n])
  <2>1. a \in Nat /\ b \in Nat \ {0}
    BY <1>2, <1>5
  <2>2. After(c, ops, n).pos = c.pos + (a + b) /\ After(c, ops, n - 1).pos = c.pos + a /\ Added(OpSizes(ops), n) = a + b
    BY <1>3, <1>4, <1>5
  <2> HIDE DEF a, b
  <2>3. c.pos + (a + b) \in (c.pos + a + 1)..cut <=> c.pos + (a + b) <= cut
    BY <1>6, <2>1
  <2> QED
    BY <2>2, <2>3
<1> QED
  BY <1>7 DEF ValueAt, Got

\* What is read whole is as it was written.
LEMMA WholeValues ==
  ASSUME NEW c \in Cursor, NEW ops \in Seq(Ops), idSize \in Nat \ {0}, cut \in Int,
         ~Reads(c, ops).err, Reads(c, ops).pos <= cut, NEW n \in 1..Len(ops), NEW v
  PROVE  ValueAt(c, ops, n, v) = v
<1>0. Len(ops) \in Nat /\ n \in 0..Len(ops) /\ Len(ops) \in 0..Len(ops) /\ n <= Len(ops) /\ c.pos \in Int
  BY LenProperties DEF Cursor
<1>1. \A k \in 1..Len(ops) : OpSizes(ops)[k] \in Nat
  BY OpSizesNat
<1>2. /\ Added(OpSizes(ops), n) <= Added(OpSizes(ops), Len(ops))
      /\ Added(OpSizes(ops), n) \in Nat /\ Added(OpSizes(ops), Len(ops)) \in Nat
  BY <1>0, <1>1, AddedGrows, AddedSteps
<1>3. Reads(c, ops).pos = c.pos + Added(OpSizes(ops), Len(ops))
  BY <1>0, AfterMoves DEF Reads, Moved
<1>4. c.pos + Added(OpSizes(ops), n) <= cut
  BY <1>0, <1>2, <1>3
<1> QED
  BY <1>4, ValuesRead

\* The sizes of reads are added one by one.
LEMMA OpsAdded ==
  ASSUME NEW ops \in Seq(Ops), idSize \in Nat \ {0}
  PROVE  /\ Added(OpSizes(ops), 0) = 0
         /\ \A n \in 1..Len(ops) : Added(OpSizes(ops), n) = Added(OpSizes(ops), n - 1) + OpBytes(ops[n])
<1>1. /\ Len(ops) \in Nat
      /\ \A k \in 1..Len(ops) : OpSizes(ops)[k] = OpBytes(ops[k]) /\ OpSizes(ops)[k] \in Nat
  BY OpSizesNat
<1>2. /\ Added(OpSizes(ops), 0) = 0
      /\ \A n \in 1..Len(ops) : Added(OpSizes(ops), n) = Added(OpSizes(ops), n - 1) + OpSizes(ops)[n]
  BY <1>1, AddedSteps
<1> QED
  BY <1>1, <1>2

\* One to four reads.
LEMMA FewOps ==
  ASSUME NEW ops \in Seq(Ops), idSize \in Nat \ {0}
  PROVE  /\ Len(ops) = 0 => Added(OpSizes(ops), 0) = 0
         /\ Len(ops) = 1 => Added(OpSizes(ops), 1) = OpBytes(ops[1])
         /\ Len(ops) = 2 => Added(OpSizes(ops), 2) = OpBytes(ops[1]) + OpBytes(ops[2])
         /\ Len(ops) = 3 => Added(OpSizes(ops), 3) = OpBytes(ops[1]) + OpBytes(ops[2]) + OpBytes(ops[3])
         /\ Len(ops) = 4 =>
              Added(OpSizes(ops), 4) = OpBytes(ops[1]) + OpBytes(ops[2]) + OpBytes(ops[3]) + OpBytes(ops[4])
<1> DEFINE size(n) == Added(OpSizes(ops), n)
<1>1. size(0) = 0 /\ \A n \in 1..Len(ops) : size(n) = size(n - 1) + OpBytes(ops[n])
  BY OpsAdded
<1>2. \A n \in 1..Len(ops) : OpBytes(ops[n]) \in Nat
  BY OpSizesNat
<1> HIDE DEF size
<1>3. /\ Len(ops) >= 1 => 1 \in 1..Len(ops)
      /\ Len(ops) >= 2 => 2 \in 1..Len(ops)
      /\ Len(ops) >= 3 => 3 \in 1..Len(ops)
      /\ Len(ops) >= 4 => 4 \in 1..Len(ops)
      /\ Len(ops) \in Nat
  BY LenProperties
<1>4. Len(ops) >= 1 => size(1) = OpBytes(ops[1]) /\ OpBytes(ops[1]) \in Nat
  BY <1>1, <1>2, <1>3
<1>5. Len(ops) >= 2 => size(2) = OpBytes(ops[1]) + OpBytes(ops[2]) /\ OpBytes(ops[2]) \in Nat
  BY <1>1, <1>2, <1>3, <1>4
<1>6. Len(ops) >= 3 => size(3) = OpBytes(ops[1]) + OpBytes(ops[2]) + OpBytes(ops[3]) /\ OpBytes(ops[3]) \in Nat
  BY <1>1, <1>2, <1>3, <1>5
<1>7. Len(ops) >= 4 => size(4) = OpBytes(ops[1]) + OpBytes(ops[2]) + OpBytes(ops[3]) + OpBytes(ops[4])
  BY <1>1, <1>2, <1>3, <1>6
<1> QED
  BY <1>1, <1>3, <1>4, <1>5, <1>6, <1>7 DEF size

\* The reads ops from c on are n bytes in all.
AreBytes(ops, n) == ops \in Seq(Ops) /\ n \in Nat /\ Added(OpSizes(ops), Len(ops)) = n

\* The bytes of the fixed parts of records and items.
LEMMA FixedParts ==
  ASSUME idSize \in Nat \ {0}
  PROVE  /\ AreBytes(LoadClassOps, 2 * idSize + 8) /\ Len(LoadClassOps) = 4
         /\ AreBytes(StackTraceOps, 12) /\ Len(StackTraceOps) = 3
         /\ AreBytes(InstanceOps, 2 * idSize + 8) /\ Len(InstanceOps) = 4
         /\ AreBytes(ObjectsOps, 2 * idSize + 8) /\ Len(ObjectsOps) = 4
         /\ AreBytes(PrimitivesOps, idSize + 9) /\ Len(PrimitivesOps) = 4
         /\ AreBytes(InfoOps, idSize + 4) /\ Len(InfoOps) = 2
         /\ AreBytes(<<"id", "byte">>, idSize + 1)
<1>1. /\ LoadClassOps \in Seq(Ops) /\ Len(LoadClassOps) = 4
      /\ OpBytes(LoadClassOps[1]) + OpBytes(LoadClassOps[2]) + OpBytes(LoadClassOps[3]) + OpBytes(LoadClassOps[4])
           = 2 * idSize + 8
  BY DEF LoadClassOps, Ops, OpBytes
<1>2. /\ StackTraceOps \in Seq(Ops) /\ Len(StackTraceOps) = 3
      /\ OpBytes(StackTraceOps[1]) + OpBytes(StackTraceOps[2]) + OpBytes(StackTraceOps[3]) = 12
  BY DEF StackTraceOps, Ops, OpBytes
<1>3. /\ InstanceOps \in Seq(Ops) /\ Len(InstanceOps) = 4
      /\ OpBytes(InstanceOps[1]) + OpBytes(InstanceOps[2]) + OpBytes(InstanceOps[3]) + OpBytes(InstanceOps[4])
           = 2 * idSize + 8
  BY DEF InstanceOps, Ops, OpBytes
<1>4. /\ ObjectsOps \in Seq(Ops) /\ Len(ObjectsOps) = 4
      /\ OpBytes(ObjectsOps[1]) + OpBytes(ObjectsOps[2]) + OpBytes(ObjectsOps[3]) + OpBytes(ObjectsOps[4])
           = 2 * idSize + 8
  BY DEF ObjectsOps, Ops, OpBytes
<1>5. /\ PrimitivesOps \in Seq(Ops) /\ Len(PrimitivesOps) = 4
      /\ OpBytes(PrimitivesOps[1]) + OpBytes(PrimitivesOps[2]) + OpBytes(PrimitivesOps[3]) + OpBytes(PrimitivesOps[4])
           = idSize + 9
  BY DEF PrimitivesOps, Ops, OpBytes
<1>6. /\ InfoOps \in Seq(Ops) /\ Len(InfoOps) = 2
      /\ OpBytes(InfoOps[1]) + OpBytes(InfoOps[2]) = idSize + 4
  BY DEF InfoOps, Ops, OpBytes
<1>7. /\ <<"id", "byte">> \in Seq(Ops) /\ Len(<<"id", "byte">>) = 2
      /\ OpBytes(<<"id", "byte">>[1]) + OpBytes(<<"id", "byte">>[2]) = idSize + 1
  BY DEF Ops, OpBytes
<1>8. 2 * idSize + 8 \in Nat /\ idSize + 9 \in Nat /\ idSize + 4 \in Nat /\ idSize + 1 \in Nat
  OBVIOUS
<1>11. AreBytes(LoadClassOps, 2 * idSize + 8)
  BY <1>1, <1>8, FewOps DEF AreBytes
<1>12. AreBytes(StackTraceOps, 12)
  BY <1>2, FewOps DEF AreBytes
<1>13. AreBytes(InstanceOps, 2 * idSize + 8)
  BY <1>3, <1>8, FewOps DEF AreBytes
<1>14. AreBytes(ObjectsOps, 2 * idSize + 8)
  BY <1>4, <1>8, FewOps DEF AreBytes
<1>15. AreBytes(PrimitivesOps, idSize + 9)
  BY <1>5, <1>8, FewOps DEF AreBytes
<1>16. AreBytes(InfoOps, idSize + 4)
  BY <1>6, <1>8, FewOps DEF AreBytes
<1>17. AreBytes(<<"id", "byte">>, idSize + 1)
  BY <1>7, <1>8, FewOps DEF AreBytes
<1> QED
  BY <1>1, <1>2, <1>3, <1>4, <1>5, <1>6, <1>11, <1>12, <1>13, <1>14, <1>15, <1>16, <1>17

\* The bytes of the fixed part of a class.
LEMMA ClassPart ==
  ASSUME idSize \in Nat \ {0}
  PROVE  AreBytes(ClassOps, 7 * idSize + 10) /\ Len(ClassOps) = 10
<1> DEFINE size(n) == Added(OpSizes(ClassOps), n)
<1>1. /\ ClassOps \in Seq(Ops) /\ Len(ClassOps) = 10
      /\ ClassOps[1] = "id" /\ ClassOps[2] = "int" /\ ClassOps[3] = "id" /\ ClassOps[4] = "id"
      /\ ClassOps[5] = "id" /\ ClassOps[6] = "id" /\ ClassOps[7] = "id" /\ ClassOps[8] = "id"
      /\ ClassOps[9] = "int" /\ ClassOps[10] = "short"
  BY DEF ClassOps, Ops
<1>2. OpBytes("id") = idSize /\ OpBytes("int") = 4 /\ OpBytes("short") = 2
  BY DEF OpBytes
<1>3. size(0) = 0 /\ \A n \in 1..10 : size(n) = size(n - 1) + OpBytes(ClassOps[n])
  BY <1>1, OpsAdded
<1> HIDE DEF size
<1>4. size(1) = idSize /\ size(2) = size(1) + 4 /\ size(3) = size(2) + idSize /\ size(4) = size(3) + idSize
  BY <1>1, <1>2, <1>3
<1>5. size(5) = size(4) + idSize /\ size(6) = size(5) + idSize /\ size(7) = size(6) + idSize
  BY <1>1, <1>2, <1>3
<1>6. size(8) = size(7) + idSize /\ size(9) = size(8) + 4 /\ size(10) = size(9) + 2
  BY <1>1, <1>2, <1>3
<1>7. size(10) = 7 * idSize + 10
  BY <1>4, <1>5, <1>6
<1> QED
  BY <1>1, <1>7 DEF AreBytes, size

\* The bytes of a root.
LEMMA RootPart ==
  ASSUME idSize \in Nat \ {0}, NEW kind \in DOMAIN RootInts
  PROVE  AreBytes(<<"id">> \o [k \in 1..RootInts[kind] |-> "int"], idSize + 4 * RootInts[kind])
<1> DEFINE m == RootInts[kind]
<1> DEFINE ops == <<"id">> \o [k \in 1..m |-> "int"]
<1>1. m \in {0, 1, 2}
  BY DEF RootInts
<1> HIDE DEF m
<1>2. <<"id">> \in Seq(Ops) /\ [k \in 1..m |-> "int"] \in Seq(Ops)
  BY <1>1 DEF Ops
<1>3. /\ ops \in Seq(Ops) /\ Len(ops) = m + 1 /\ ops[1] = "id"
      /\ \A k \in 1..m : ops[k + 1] = "int"
  BY <1>1, <1>2
<1> HIDE DEF ops
<1>4. OpBytes("id") = idSize /\ OpBytes("int") = 4
  BY DEF OpBytes
<1>5. CASE m = 0
  <2>1. Added(OpSizes(ops), 1) = OpBytes(ops[1])
    BY <1>3, <1>5, FewOps
  <2> QED
    BY <1>3, <1>4, <1>5, <2>1 DEF AreBytes, ops, m
<1>6. CASE m = 1
  <2>1. Added(OpSizes(ops), 2) = OpBytes(ops[1]) + OpBytes(ops[2])
    BY <1>3, <1>6, FewOps
  <2>2. ops[2] = "int"
    BY <1>3, <1>6
  <2> QED
    BY <1>3, <1>4, <1>6, <2>1, <2>2 DEF AreBytes, ops, m
<1>7. CASE m = 2
  <2>1. Added(OpSizes(ops), 3) = OpBytes(ops[1]) + OpBytes(ops[2]) + OpBytes(ops[3])
    BY <1>3, <1>7, FewOps
  <2>2. ops[2] = "int" /\ ops[3] = "int"
    BY <1>3, <1>7
  <2> QED
    BY <1>3, <1>4, <1>7, <2>1, <2>2 DEF AreBytes, ops, m
<1> QED
  BY <1>1, <1>5, <1>6, <1>7

\* What some reads of n bytes do.
LEMMA PartRead ==
  ASSUME NEW c \in Cursor, NEW ops, NEW n, AreBytes(ops, n), idSize \in Nat \ {0}, cut \in Int
  PROVE  /\ Moved(c, Reads(c, ops), n) /\ n \in Nat /\ Reads(c, ops) \in Cursor
         /\ ~Reads(c, ops).err /\ Reads(c, ops).pos <= cut =>
              \A k \in 1..Len(ops) : \A v : ValueAt(c, ops, k, v) = v
<1>1. ops \in Seq(Ops) /\ n \in Nat /\ Added(OpSizes(ops), Len(ops)) = n
  BY DEF AreBytes
<1>2. Len(ops) \in Nat /\ Len(ops) \in 0..Len(ops)
  BY <1>1, LenProperties
<1>3. Moved(c, Reads(c, ops), n)
  BY <1>1, <1>2, AfterMoves DEF Reads
<1>4. ASSUME ~Reads(c, ops).err, Reads(c, ops).pos <= cut, NEW k \in 1..Len(ops), NEW v
      PROVE  ValueAt(c, ops, k, v) = v
  BY <1>1, <1>4, WholeValues
<1> QED
  BY <1>1, <1>3, <1>4 DEF Moved

-------------------------------------------------------------------------------
(* The layout of files. *)

\* A product of numbers that are not negative is none.
LEMMA Product == \A a, b \in Nat : a * b \in Nat
OBVIOUS

\* Nor 0, when none of them is.
LEMMA NoProduct == \A a \in Nat, b \in Nat \ {0} : a * b = 0 => a = 0
OBVIOUS

\* Numbers are not negative.
LEMMA Numbers == \A n \in Number : n \in Nat
BY SMT DEF Number

\* Fields have sizes.
LEMMA FieldSizes == ASSUME NEW t \in Types, NEW w \in Nat PROVE FieldSize(t, w) \in Nat
BY DEF Types, FieldSize

\* So have items.
LEMMA ItemSize ==
  ASSUME NEW it \in ItemShape, NEW w \in Nat
  PROVE  /\ ItemBytes(it, w) \in Nat \ {0}
         /\ Len(it.statics) \in Nat /\ Len(it.fields) \in Nat
         /\ \A k \in 1..Len(it.statics) : StaticBytes(it, w)[k] = w + 1 + FieldSize(it.statics[k].type, w)
                                       /\ StaticBytes(it, w)[k] \in Nat /\ it.statics[k] \in FieldShape
         /\ \A k \in 1..Len(it.fields) : it.fields[k] \in FieldShape
         /\ it.len \in Nat /\ it.type \in Types
<1>1. /\ it.statics \in Seq(FieldShape) /\ it.fields \in Seq(FieldShape)
      /\ it.len \in Nat /\ it.type \in Types
  BY Numbers DEF ItemShape
<1>2. /\ Len(it.statics) \in Nat /\ Len(it.fields) \in Nat
      /\ \A k \in 1..Len(it.statics) : it.statics[k] \in FieldShape
      /\ \A k \in 1..Len(it.fields) : it.fields[k] \in FieldShape
      /\ DOMAIN it.statics = 1..Len(it.statics)
  BY <1>1
<1>3. \A k \in 1..Len(it.statics) : StaticBytes(it, w)[k] = w + 1 + FieldSize(it.statics[k].type, w)
                                 /\ StaticBytes(it, w)[k] \in Nat
  <2> TAKE k \in 1..Len(it.statics)
  <2>1. it.statics[k].type \in Types
    BY <1>2 DEF FieldShape
  <2>2. FieldSize(it.statics[k].type, w) \in Nat
    BY <2>1, FieldSizes
  <2>3. StaticBytes(it, w)[k] = w + 1 + FieldSize(it.statics[k].type, w)
    BY <1>2 DEF StaticBytes
  <2> QED
    BY <2>2, <2>3
<1>4. Added(StaticBytes(it, w), Len(it.statics)) \in Nat
  <2>1. Len(it.statics) \in 0..Len(it.statics) /\ \A k \in 1..Len(it.statics) : StaticBytes(it, w)[k] \in Nat
    BY <1>2, <1>3
  <2> QED
    BY <1>2, <2>1, AddedSteps
<1>5. /\ Len(it.fields) * (w + 1) \in Nat /\ it.len * w \in Nat
      /\ it.len * FieldSize(it.type, w) \in Nat
  <2>1. w + 1 \in Nat /\ FieldSize(it.type, w) \in Nat
    BY <1>1, FieldSizes
  <2> QED
    BY <1>1, <1>2, <2>1, Product
<1>6. \A kind \in DOMAIN RootInts : RootInts[kind] \in Nat
  BY DEF RootInts
<1>7. ItemBytes(it, w) \in Nat \ {0}
  <2> DEFINE a == Added(StaticBytes(it, w), Len(it.statics))
  <2> DEFINE b == Len(it.fields) * (w + 1)
  <2> DEFINE l == it.len * w
  <2> DEFINE p == it.len * FieldSize(it.type, w)
  <2>1. a \in Nat /\ b \in Nat /\ l \in Nat /\ p \in Nat
    BY <1>4, <1>5
  <2>2. ItemBytes(it, w) =
          1 + CASE it.kind = "class" -> 7 * w + 14 + a + b
                [] it.kind = "instance" -> 2 * w + 8 + it.len
                [] it.kind = "objects" -> 2 * w + 8 + l
                [] it.kind = "primitives" -> w + 9 + p
                [] it.kind = "nodata" -> w + 5
                [] it.kind = "info" -> w + 4
                [] it.kind \in DOMAIN RootInts -> w + 4 * RootInts[it.kind]
                [] OTHER -> 0
    BY DEF ItemBytes
  <2> HIDE DEF a, b, l, p
  <2>3. CASE it.kind \in DOMAIN RootInts
    <3>1. RootInts[it.kind] \in Nat
      BY <1>6, <2>3
    <3>2. it.kind \notin {"class", "instance", "objects", "primitives", "nodata", "info"}
      BY <2>3 DEF RootInts
    <3>3. ItemBytes(it, w) = 1 + (w + 4 * RootInts[it.kind])
      BY <2>2, <2>3, <3>2
    <3> QED
      BY <3>1, <3>3
  <2>4. CASE it.kind \notin DOMAIN RootInts
    <3>1. CASE it.kind = "class"
      BY <2>1, <2>2, <2>4, <3>1
    <3>2. CASE it.kind = "instance"
      BY <1>1, <2>2, <2>4, <3>2
    <3>3. CASE it.kind = "objects"
      BY <2>1, <2>2, <2>4, <3>3
    <3>4. CASE it.kind = "primitives"
      BY <2>1, <2>2, <2>4, <3>4
    <3>5. CASE it.kind = "nodata" \/ it.kind = "info"
      BY <2>2, <2>4, <3>5
    <3>6. CASE it.kind \notin {"class", "instance", "objects", "primitives", "nodata", "info"}
      BY <2>2, <2>4, <3>6
    <3> QED
      BY <3>1, <3>2, <3>3, <3>4, <3>5, <3>6
  <2> QED
    BY <2>3, <2>4
<1> QED
  BY <1>1, <1>2, <1>3, <1>7

\* And records.
LEMMA BodySize ==
  ASSUME NEW r \in RecordShape, NEW w \in Nat
  PROVE  /\ BodyBytes(r, w) \in Nat
         /\ Len(r.items) \in Nat /\ DOMAIN r.items = 1..Len(r.items) /\ r.len \in Nat /\ r.lie \in Int
         /\ \A k \in 1..Len(r.items) : /\ r.items[k] \in ItemShape
                                       /\ ItemSizes(r, w)[k] = ItemBytes(r.items[k], w)
                                       /\ ItemSizes(r, w)[k] \in Nat
<1>1. r.items \in Seq(ItemShape) /\ r.len \in Nat /\ r.lie \in Int
  BY Numbers DEF RecordShape
<1>2. /\ Len(r.items) \in Nat /\ DOMAIN r.items = 1..Len(r.items)
      /\ \A k \in 1..Len(r.items) : r.items[k] \in ItemShape
  BY <1>1
<1>3. \A k \in 1..Len(r.items) : /\ ItemSizes(r, w)[k] = ItemBytes(r.items[k], w)
                                 /\ ItemSizes(r, w)[k] \in Nat
  BY <1>2, ItemSize DEF ItemSizes
<1>4. Added(ItemSizes(r, w), Len(r.items)) \in Nat
  <2>1. Len(r.items) \in 0..Len(r.items) /\ \A k \in 1..Len(r.items) : ItemSizes(r, w)[k] \in Nat
    BY <1>2, <1>3
  <2> QED
    BY <1>2, <2>1, AddedSteps
<1>5. BodyBytes(r, w) \in Nat
  <2> DEFINE a == Added(ItemSizes(r, w), Len(r.items))
  <2>1. BodyBytes(r, w) = CASE r.tag = "UTF8_STRING" -> w + r.len
                            [] r.tag = "LOAD_CLASS" -> 2 * w + 8
                            [] r.tag = "STACK_TRACE" -> 12 + 4 * r.len
                            [] r.tag = "HEAP_DUMP_SEGMENT" -> a
                            [] OTHER -> r.len
    BY DEF BodyBytes
  <2> HIDE DEF a
  <2>2. a \in Nat
    BY <1>4 DEF a
  <2> QED
    BY <1>1, <2>1, <2>2
<1> QED
  BY <1>1, <1>2, <1>3, <1>5

\* What a file is.
LEMMA FileShape ==
  ASSUME NEW f \in Files
  PROVE  /\ f.idSize \in Nat /\ f.idSize <= 256
         /\ Len(f.records) \in Nat /\ DOMAIN f.records = 1..Len(f.records)
         /\ \A n \in 1..Len(f.records) :
              /\ f.records[n] \in RecordShape
              /\ f.records[n].tag = "UTF8_STRING" => f.records[n].len + f.records[n].lie >= 0
<1>1. f \in [idSize : 0..256, records : Seq(RecordShape)]
  BY FilesAssumption DEF WellFormed
<1>2. /\ Len(f.records) \in Nat /\ DOMAIN f.records = 1..Len(f.records)
      /\ \A n \in 1..Len(f.records) : f.records[n] \in RecordShape
  BY <1>1
<1>3. \A n \in DOMAIN f.records : Sized(f.records[n], f.idSize)
  BY FilesAssumption DEF WellFormed
<1>4. f.idSize \in Nat /\ f.idSize <= 256
  <2>1. f.idSize \in 0..256
    BY <1>1
  <2> QED
    BY <2>1
<1>5. ASSUME NEW n \in 1..Len(f.records), f.records[n].tag = "UTF8_STRING"
      PROVE  f.records[n].len + f.records[n].lie >= 0
  <2>1. Sized(f.records[n], f.idSize)
    BY <1>2, <1>3
  <2> DEFINE r == f.records[n]
  <2>2. Sized(r, f.idSize) /\ r.tag = "UTF8_STRING"
    BY <1>5, <2>1
  <2> HIDE DEF r
  <2>3. r.len + r.lie >= 0
    BY <2>2 DEF Sized
  <2> QED
    BY <2>3 DEF r
<1> QED
  BY <1>2, <1>4, <1>5

\* Records follow each other.
LEMMA RecordsTiled ==
  ASSUME NEW f \in Files
  PROVE  /\ RecordStart(f, 1) = 12
         /\ \A n \in 1..(Len(f.records) + 1) : RecordStart(f, n) \in Nat /\ RecordStart(f, n) >= 12
         /\ \A n \in 1..Len(f.records) :
              /\ BodyBytes(f.records[n], f.idSize) \in Nat
              /\ RecordStart(f, n + 1) = RecordStart(f, n) + 9 + BodyBytes(f.records[n], f.idSize)
         /\ \A n, m \in 1..(Len(f.records) + 1) : n <= m => RecordStart(f, n) <= RecordStart(f, m)
         /\ FileBytes(f) = RecordStart(f, Len(f.records) + 1)
<1> DEFINE N == Len(f.records)
<1> DEFINE size(n) == Added(RecordSizes(f), n)
<1>1. /\ N \in Nat /\ DOMAIN f.records = 1..N /\ f.idSize \in Nat
      /\ \A n \in 1..N : f.records[n] \in RecordShape
  BY FileShape
<1> HIDE DEF N
<1>2. \A n \in 1..N : BodyBytes(f.records[n], f.idSize) \in Nat
  BY <1>1, BodySize
<1>3. \A n \in 1..N : /\ RecordSizes(f)[n] = 9 + BodyBytes(f.records[n], f.idSize)
                      /\ RecordSizes(f)[n] \in Nat
  BY <1>1, <1>2 DEF RecordSizes
<1>4. /\ size(0) = 0 /\ \A n \in 0..N : size(n) \in Nat
      /\ \A n \in 1..N : size(n) = size(n - 1) + RecordSizes(f)[n]
  BY <1>1, <1>3, AddedSteps
<1>5. \A n, m \in 0..N : n <= m => size(n) <= size(m)
  BY <1>1, <1>3, AddedGrows
<1>6. \A n : RecordStart(f, n) = 12 + size(n - 1)
  BY DEF RecordStart
<1> HIDE DEF size
<1>7. RecordStart(f, 1) = 12
  BY <1>4, <1>6
<1>8. ASSUME NEW n \in 1..(N + 1) PROVE RecordStart(f, n) \in Nat /\ RecordStart(f, n) >= 12
  <2>1. n - 1 \in 0..N
    BY <1>1
  <2>2. size(n - 1) \in Nat
    BY <1>4, <2>1
  <2> QED
    BY <1>6, <2>2
<1>9. ASSUME NEW n \in 1..N
      PROVE RecordStart(f, n + 1) = RecordStart(f, n) + 9 + BodyBytes(f.records[n], f.idSize)
  <2>1. n \in 1..N /\ (n + 1) - 1 = n /\ n - 1 \in 0..N
    BY <1>1
  <2>2. size(n) = size(n - 1) + (9 + BodyBytes(f.records[n], f.idSize)) /\ size(n - 1) \in Nat
    BY <1>3, <1>4, <2>1
  <2>3. RecordStart(f, n + 1) = 12 + size(n) /\ RecordStart(f, n) = 12 + size(n - 1)
    BY <1>6, <2>1
  <2> QED
    BY <1>2, <2>2, <2>3
<1>10. ASSUME NEW n \in 1..(N + 1), NEW m \in 1..(N + 1), n <= m
       PROVE RecordStart(f, n) <= RecordStart(f, m)
  <2>1. n - 1 \in 0..N /\ m - 1 \in 0..N /\ n - 1 <= m - 1
    BY <1>1, <1>10
  <2>2. size(n - 1) <= size(m - 1) /\ size(n - 1) \in Nat /\ size(m - 1) \in Nat
    BY <1>4, <1>5, <2>1
  <2> QED
    BY <1>6, <2>2
<1> QED
  BY <1>2, <1>7, <1>8, <1>9, <1>10 DEF FileBytes, N

\* Items follow each other, from the header of their segment to the next record.
LEMMA ItemsTiled ==
  ASSUME NEW f \in Files, NEW n \in 1..Len(f.records)
  PROVE  LET items == f.records[n].items IN
         /\ Len(items) \in Nat /\ DOMAIN items = 1..Len(items)
         /\ \A k \in 1..Len(items) : items[k] \in ItemShape
         /\ ItemStart(f, n, 1) = RecordStart(f, n) + 9
         /\ \A k \in 1..(Len(items) + 1) : ItemStart(f, n, k) \in Nat
         /\ \A k \in 1..Len(items) :
              /\ ItemBytes(items[k], f.idSize) \in Nat \ {0}
              /\ ItemStart(f, n, k + 1) = ItemStart(f, n, k) + ItemBytes(items[k], f.idSize)
         /\ \A k, m \in 1..(Len(items) + 1) : k <= m => ItemStart(f, n, k) <= ItemStart(f, n, m)
         /\ f.records[n].tag = "HEAP_DUMP_SEGMENT" =>
              ItemStart(f, n, Len(items) + 1) = RecordStart(f, n + 1)
<1> DEFINE r == f.records[n]
<1> DEFINE K == Len(r.items)
<1> DEFINE w == f.idSize
<1> DEFINE size(k) == Added(ItemSizes(r, w), k)
<1> DEFINE start == RecordStart(f, n) + 9
<1>0. r \in RecordShape /\ w \in Nat /\ n \in 1..(Len(f.records) + 1) /\ Len(f.records) \in Nat
  BY FileShape
<1>1. /\ K \in Nat /\ DOMAIN r.items = 1..K
      /\ \A k \in 1..K : /\ r.items[k] \in ItemShape
                         /\ ItemSizes(r, w)[k] = ItemBytes(r.items[k], w)
                         /\ ItemSizes(r, w)[k] \in Nat
  <2> HIDE DEF r, w
  <2> QED
    BY <1>0, BodySize
<1>2. start \in Nat
  BY <1>0, RecordsTiled
<1>3. \A k : ItemStart(f, n, k) = start + size(k - 1)
  BY DEF ItemStart
<1>4. r.tag = "HEAP_DUMP_SEGMENT" => RecordStart(f, n + 1) = start + size(K)
  <2>1. RecordStart(f, n + 1) = start + BodyBytes(r, w) /\ BodyBytes(r, w) \in Nat
    BY RecordsTiled
  <2>2. r.tag = "HEAP_DUMP_SEGMENT" => BodyBytes(r, w) = size(K)
    <3> HIDE DEF r, w
    <3> QED
      BY DEF BodyBytes
  <2> QED
    BY <2>1, <2>2
<1>5. \A k \in 1..K : ItemBytes(r.items[k], w) \in Nat \ {0}
  <2> HIDE DEF r, w
  <2> QED
    BY <1>0, <1>1, ItemSize
<1> HIDE DEF r, K, w, start
<1>6. /\ size(0) = 0 /\ \A k \in 0..K : size(k) \in Nat
      /\ \A k \in 1..K : size(k) = size(k - 1) + ItemSizes(r, w)[k]
  BY <1>1, AddedSteps
<1>7. \A k, m \in 0..K : k <= m => size(k) <= size(m)
  BY <1>1, AddedGrows
<1> HIDE DEF size
<1>8. ItemStart(f, n, 1) = start
  BY <1>2, <1>3, <1>6
<1>9. ASSUME NEW k \in 1..(K + 1) PROVE ItemStart(f, n, k) \in Nat
  <2>1. k - 1 \in 0..K
    BY <1>1
  <2>2. size(k - 1) \in Nat
    BY <1>6, <2>1
  <2> QED
    BY <1>2, <1>3, <2>2
<1>10. ASSUME NEW k \in 1..K PROVE ItemStart(f, n, k + 1) = ItemStart(f, n, k) + ItemBytes(r.items[k], w)
  <2>1. (k + 1) - 1 = k /\ k - 1 \in 0..K
    BY <1>1
  <2>2. size(k) = size(k - 1) + ItemBytes(r.items[k], w) /\ size(k - 1) \in Nat
    BY <1>1, <1>6, <2>1
  <2>3. ItemStart(f, n, k + 1) = start + size(k) /\ ItemStart(f, n, k) = start + size(k - 1)
    BY <1>3, <2>1
  <2> QED
    BY <1>2, <1>5, <2>2, <2>3
<1>11. ASSUME NEW k \in 1..(K + 1), NEW m \in 1..(K + 1), k <= m
       PROVE ItemStart(f, n, k) <= ItemStart(f, n, m)
  <2>1. k - 1 \in 0..K /\ m - 1 \in 0..K /\ k - 1 <= m - 1
    BY <1>1, <1>11
  <2>2. size(k - 1) <= size(m - 1) /\ size(k - 1) \in Nat /\ size(m - 1) \in Nat
    BY <1>6, <1>7, <2>1
  <2> QED
    BY <1>2, <1>3, <2>2
<1>12. r.tag = "HEAP_DUMP_SEGMENT" => ItemStart(f, n, K + 1) = RecordStart(f, n + 1)
  <2>1. (K + 1) - 1 = K
    BY <1>1
  <2> QED
    BY <1>3, <1>4, <2>1
<1> QED
  BY <1>1, <1>5, <1>8, <1>9, <1>10, <1>11, <1>12 DEF r, K, w, start

-------------------------------------------------------------------------------
(* The fields of a class. *)

SpecSet == {FieldSpec(f, offset) : f \in FieldShape, offset \in Nat}
Acc == [c : Cursor, out : {"ok", "abort", "fail"}, offset : Nat, specs : Seq(SpecSet)]

\* d is where a read of bytes ended behind the cut, n or fewer bytes behind c.
Overrun(c, d, n) == d \in Cursor /\ d.err /\ d.pos > cut /\ c.pos <= d.pos /\ d.pos <= c.pos + n

\* The environment of the lemmas: ids have a width, the file an end.
Widths == idSize \in Nat \ {0} /\ cut \in Int

\* What collects a field.
LEMMA Collecting ==
  ASSUME Widths, NEW acc \in Acc, NEW f \in FieldShape, NEW c \in Cursor
  PROVE  /\ Collect(acc, f, c) \in Acc
         /\ Collect(acc, f, c).c = c /\ Collect(acc, f, c).out = "ok"
         /\ Collect(acc, f, c).offset = acc.offset + FieldSize(f.type, idSize)
         /\ Collect(acc, f, c).specs = Append(acc.specs, FieldSpec(f, acc.offset))
<1>1. acc.offset \in Nat /\ acc.specs \in Seq(SpecSet)
  BY DEF Acc
<1>2. FieldSize(f.type, idSize) \in Nat
  BY FieldSizes DEF FieldShape, Widths
<1>3. FieldSpec(f, acc.offset) \in SpecSet
  BY <1>1 DEF SpecSet
<1>4. Append(acc.specs, FieldSpec(f, acc.offset)) \in Seq(SpecSet)
  BY <1>1, <1>3, AppendProperties
<1> QED
  BY <1>1, <1>2, <1>4 DEF Collect, Acc

\* r is acc after the read of a field of n bytes.  Only a static field has data to run
\* over the end of the file with.
FieldRead(acc, r, f, n, static) ==
  /\ r \in Acc /\ n \in Nat
  /\ acc.out # "ok" => r = acc
  /\ acc.out = "ok" /\ r.out = "ok" =>
       /\ Moved(acc.c, r.c, n) /\ ~r.c.err /\ r.c.pos <= cut
       /\ r.offset = acc.offset + FieldSize(f.type, idSize)
       /\ r.specs = Append(acc.specs, FieldSpec(f, acc.offset))
  /\ acc.out = "ok" /\ r.out = "fail" =>
       IF static THEN Overrun(acc.c, r.c, n) ELSE Moved(acc.c, r.c, n) /\ r.c.err
  /\ acc.out = "ok" /\ ~acc.c.err /\ acc.c.left >= n /\ acc.c.pos + n <= cut => r.out = "ok"
  /\ static => r.offset <= acc.offset + n

\* One static field.
LEMMA StaticFieldRead ==
  ASSUME Widths, NEW acc \in Acc, NEW f \in FieldShape, NEW n, n = idSize + 1 + FieldSize(f.type, idSize)
  PROVE  FieldRead(acc, StaticField(acc, f), f, n, TRUE)
<1> DEFINE size == FieldSize(f.type, idSize)
<1> DEFINE typed == Reads(acc.c, <<"id", "byte">>)
<1> DEFINE valued == Bytes(typed, size)
<1> DEFINE r == StaticField(acc, f)
<1>1. idSize \in Nat \ {0} /\ cut \in Int
  BY DEF Widths
<1>2. /\ acc.c \in Cursor /\ acc.out \in {"ok", "abort", "fail"} /\ acc.offset \in Nat /\ acc.specs \in Seq(SpecSet)
      /\ acc = [c |-> acc.c, out |-> acc.out, offset |-> acc.offset, specs |-> acc.specs]
  BY DEF Acc
<1>3. size \in Nat /\ n \in Nat /\ n = idSize + 1 + size
  BY <1>1, FieldSizes DEF FieldShape
<1>4. Moved(acc.c, typed, idSize + 1) /\ typed \in Cursor
  <2>1. AreBytes(<<"id", "byte">>, idSize + 1)
    BY <1>1, FixedParts
  <2> QED
    BY <1>1, <1>2, <2>1, PartRead
<1>5. typed.pos \in Int /\ typed.left \in Int /\ typed.err \in BOOLEAN /\ acc.c.pos \in Int /\ acc.c.left \in Int
  BY <1>2, <1>4 DEF Cursor
<1>6. /\ size = 0 \/ typed.pos + size <= cut => Moved(typed, valued, size) /\ valued.err = typed.err
      /\ size # 0 /\ typed.pos + size > cut => /\ valued \in Cursor /\ valued.err
                                               /\ valued.pos = typed.pos + size /\ valued.left = typed.left
  BY <1>1, <1>3, <1>4, BytesMove
<1>7. valued \in Cursor
  BY <1>1, <1>3, <1>5, <1>6 DEF Moved
<1>8. /\ acc.out # "ok" => r = acc
      /\ acc.out = "ok" /\ (typed.err \/ typed.pos > cut) => r = [acc EXCEPT !.out = "abort"]
      /\ acc.out = "ok" /\ ~typed.err /\ typed.pos <= cut /\ valued.err =>
           r = [acc EXCEPT !.out = "fail", !.c = valued, !.offset = @ + (cut - typed.pos)]
      /\ acc.out = "ok" /\ ~typed.err /\ typed.pos <= cut /\ ~valued.err => r = Collect(acc, f, valued)
  <2> HIDE DEF typed
  <2>1. typed.pos <= cut => ~(typed.pos > cut)
    BY <1>1, <1>5
  <2>2. r = CASE acc.out # "ok" -> acc
              [] acc.out = "ok" /\ (typed.err \/ typed.pos > cut) -> [acc EXCEPT !.out = "abort"]
              [] acc.out = "ok" /\ ~typed.err /\ typed.pos <= cut /\ valued.err
                   -> [acc EXCEPT !.out = "fail", !.c = valued, !.offset = @ + (cut - typed.pos)]
              [] OTHER -> Collect(acc, f, valued)
    BY DEF StaticField, typed
  <2> HIDE DEF r, valued, size
  <2> QED
    BY <2>1, <2>2
<1> HIDE DEF typed, valued, size, r
<1>9. CASE acc.out # "ok"
  <2>1. r = acc /\ acc.offset <= acc.offset + n
    BY <1>2, <1>3, <1>8, <1>9
  <2> QED
    BY <1>3, <1>9, <2>1 DEF r, FieldRead
<1>10. CASE acc.out = "ok" /\ (typed.err \/ typed.pos > cut)
  <2>1. r = [c |-> acc.c, out |-> "abort", offset |-> acc.offset, specs |-> acc.specs]
    BY <1>2, <1>8, <1>10
  <2>2. r \in Acc /\ r.out = "abort" /\ r.offset = acc.offset /\ r.offset <= acc.offset + n
    BY <1>2, <1>3, <2>1 DEF Acc
  <2>3. ~(~acc.c.err /\ acc.c.left >= n /\ acc.c.pos + n <= cut)
    <3>1. typed.pos <= acc.c.pos + (idSize + 1)
      BY <1>4 DEF Moved
    <3>2. ~acc.c.err /\ acc.c.left >= idSize + 1 => ~typed.err
      BY <1>4 DEF Moved
    <3> QED
      BY <1>1, <1>3, <1>5, <1>10, <3>1, <3>2
  <2> QED
    BY <1>3, <1>10, <2>2, <2>3 DEF r, FieldRead
<1>11. CASE acc.out = "ok" /\ ~typed.err /\ typed.pos <= cut /\ valued.err
  <2> DEFINE part == cut - typed.pos
  <2>1. r = [c |-> valued, out |-> "fail", offset |-> acc.offset + part, specs |-> acc.specs]
    BY <1>2, <1>8, <1>11
  <2>a. part \in Nat /\ acc.offset + part \in Nat
    BY <1>1, <1>2, <1>5, <1>11
  <2>2. r \in Acc /\ r.out = "fail" /\ r.c = valued /\ r.offset = acc.offset + part
    <3> HIDE DEF part
    <3> QED
      BY <1>2, <1>7, <2>1, <2>a DEF Acc
  <2>3. size # 0 /\ typed.pos + size > cut /\ valued.pos = typed.pos + size
    <3>1. ~(size = 0 \/ typed.pos + size <= cut)
      BY <1>6, <1>11
    <3> QED
      BY <1>1, <1>3, <1>5, <1>6, <3>1
  <2>4. typed.pos = acc.c.pos + (idSize + 1)
    BY <1>4, <1>11 DEF Moved
  <2>5. Overrun(acc.c, r.c, n)
    BY <1>1, <1>3, <1>5, <1>7, <1>11, <2>2, <2>3, <2>4 DEF Overrun
  <2>6. ~(acc.c.pos + n <= cut)
    BY <1>1, <1>3, <1>5, <2>3, <2>4
  <2>7. r.offset <= acc.offset + n
    <3>1. part <= size
      BY <1>1, <1>3, <1>5, <2>3
    <3> HIDE DEF part
    <3> QED
      BY <1>1, <1>2, <1>3, <2>2, <2>a, <3>1
  <2> HIDE DEF part
  <2> QED
    BY <1>3, <1>11, <2>2, <2>5, <2>6, <2>7 DEF r, FieldRead
<1>12. CASE acc.out = "ok" /\ ~typed.err /\ typed.pos <= cut /\ ~valued.err
  <2>1. r = Collect(acc, f, valued)
    BY <1>8, <1>12
  <2>2. Moved(typed, valued, size)
    BY <1>1, <1>3, <1>5, <1>6, <1>12
  <2>3. Moved(acc.c, valued, (idSize + 1) + size)
    BY <1>1, <1>2, <1>3, <1>4, <2>2, MovedOn
  <2>4. /\ r \in Acc /\ r.c = valued /\ r.out = "ok"
        /\ r.offset = acc.offset + size /\ r.specs = Append(acc.specs, FieldSpec(f, acc.offset))
    BY <1>7, <2>1, Collecting DEF size
  <2>5. valued.pos <= cut
    <3>1. size = 0 \/ typed.pos + size <= cut
      BY <1>1, <1>3, <1>5, <1>6, <1>12
    <3>2. valued.pos = typed.pos + size
      BY <1>12, <2>2 DEF Moved
    <3> QED
      BY <1>1, <1>3, <1>5, <1>12, <3>1, <3>2
  <2>6. r.offset <= acc.offset + n
    BY <1>1, <1>2, <1>3, <2>4
  <2> QED
    BY <1>3, <1>12, <2>3, <2>4, <2>5, <2>6 DEF r, size, FieldRead
<1>13. typed.pos > cut \/ typed.pos <= cut
  BY <1>1, <1>5
<1> QED
  BY <1>9, <1>10, <1>11, <1>12, <1>13

\* One field of the instances.
LEMMA InstanceFieldRead ==
  ASSUME Widths, NEW acc \in Acc, NEW f \in FieldShape, NEW n, n = idSize + 1
  PROVE  FieldRead(acc, InstanceField(acc, f), f, n, FALSE)
<1> DEFINE typed == Reads(acc.c, <<"id", "byte">>)
<1> DEFINE r == InstanceField(acc, f)
<1>1. idSize \in Nat \ {0} /\ cut \in Int
  BY DEF Widths
<1>2. /\ acc.c \in Cursor /\ acc.out \in {"ok", "abort", "fail"} /\ acc.offset \in Nat /\ acc.specs \in Seq(SpecSet)
      /\ acc = [c |-> acc.c, out |-> acc.out, offset |-> acc.offset, specs |-> acc.specs]
  BY DEF Acc
<1>3. n \in Nat
  BY <1>1
<1>4. Moved(acc.c, typed, n) /\ typed \in Cursor
  <2>1. AreBytes(<<"id", "byte">>, idSize + 1)
    BY <1>1, FixedParts
  <2> QED
    BY <1>1, <1>2, <2>1, PartRead
<1>5. typed.pos \in Int /\ typed.left \in Int /\ typed.err \in BOOLEAN /\ acc.c.pos \in Int /\ acc.c.left \in Int
  BY <1>2, <1>4 DEF Cursor
<1>8. /\ acc.out # "ok" => r = acc
      /\ acc.out = "ok" /\ typed.err => r = [acc EXCEPT !.out = "fail", !.c = typed]
      /\ acc.out = "ok" /\ ~typed.err /\ typed.pos > cut => r = [acc EXCEPT !.out = "abort"]
      /\ acc.out = "ok" /\ ~typed.err /\ ~(typed.pos > cut) => r = Collect(acc, f, typed)
  <2> HIDE DEF typed
  <2>2. r = CASE acc.out # "ok" -> acc
              [] acc.out = "ok" /\ typed.err -> [acc EXCEPT !.out = "fail", !.c = typed]
              [] acc.out = "ok" /\ ~typed.err /\ typed.pos > cut -> [acc EXCEPT !.out = "abort"]
              [] OTHER -> Collect(acc, f, typed)
    BY DEF InstanceField, typed
  <2> HIDE DEF r, FieldRead
  <2> QED
    BY <2>2
<1> HIDE DEF typed, r
<1>9. CASE acc.out # "ok"
  BY <1>3, <1>8, <1>9 DEF r, FieldRead
<1>10. CASE acc.out = "ok" /\ ~typed.err /\ typed.pos > cut
  <2>1. r = [c |-> acc.c, out |-> "abort", offset |-> acc.offset, specs |-> acc.specs]
    BY <1>2, <1>8, <1>10
  <2>2. r \in Acc /\ r.out = "abort"
    BY <1>2, <2>1 DEF Acc
  <2>3. ~(acc.c.pos + n <= cut)
    <3>1. typed.pos <= acc.c.pos + n
      BY <1>4 DEF Moved
    <3> QED
      BY <1>1, <1>3, <1>5, <1>10, <3>1
  <2> QED
    BY <1>3, <1>10, <2>2, <2>3 DEF r, FieldRead
<1>11. CASE acc.out = "ok" /\ typed.err
  <2>1. r = [c |-> typed, out |-> "fail", offset |-> acc.offset, specs |-> acc.specs]
    BY <1>2, <1>8, <1>11
  <2>2. r \in Acc /\ r.out = "fail" /\ r.c = typed
    BY <1>2, <1>4, <2>1 DEF Acc
  <2>3. ~(~acc.c.err /\ acc.c.left >= n)
    BY <1>4, <1>11 DEF Moved
  <2> QED
    BY <1>3, <1>4, <1>11, <2>2, <2>3 DEF r, FieldRead
<1>12. CASE acc.out = "ok" /\ ~typed.err /\ ~(typed.pos > cut)
  <2>1. r = Collect(acc, f, typed)
    BY <1>8, <1>12
  <2>4. /\ r \in Acc /\ r.c = typed /\ r.out = "ok"
        /\ r.offset = acc.offset + FieldSize(f.type, idSize)
        /\ r.specs = Append(acc.specs, FieldSpec(f, acc.offset))
    BY <1>4, <2>1, Collecting
  <2>5. typed.pos <= cut
    BY <1>1, <1>5, <1>12
  <2> QED
    BY <1>3, <1>4, <1>12, <2>4, <2>5 DEF r, FieldRead
<1> QED
  BY <1>9, <1>10, <1>11, <1>12

FieldSizesOf(fs) == [m \in DOMAIN fs |-> FieldSize(fs[m].type, idSize)]
SpecsTo(fs, n) == [k \in 1..n |-> FieldSpec(fs[k], Added(FieldSizesOf(fs), k - 1))]

\* r is what was read of the first n fields from c on, which have size bytes.
FieldsRead(c, fs, n, r, size, static) ==
  /\ r \in Acc /\ size \in Nat
  /\ r.out = "ok" => /\ Moved(c, r.c, size) /\ (IF n = 0 THEN r.c = c ELSE ~r.c.err /\ r.c.pos <= cut)
                     /\ r.offset = Added(FieldSizesOf(fs), n)
                     /\ r.specs = SpecsTo(fs, n)
  /\ r.out = "fail" => IF static THEN Overrun(c, r.c, size) ELSE Moved(c, r.c, size) /\ r.c.err
  /\ ~c.err /\ c.left >= size /\ c.pos + size <= cut => r.out = "ok"
  /\ static => r.offset <= size

\* One more element of a sequence that is told element by element.
LEMMA OneMore ==
  ASSUME NEW n \in Nat, NEW F, NEW s, s = [k \in 1..n |-> F[k]], NEW e, e = F[n + 1]
  PROVE  Append(s, e) = [k \in 1..(n + 1) |-> F[k]]
<1> DEFINE S == {F[k] : k \in 1..(n + 1)}
<1>1. s \in Seq(S) /\ e \in S /\ Len(s) = n
  <2>1. \A k \in 1..n : k \in 1..(n + 1)
    OBVIOUS
  <2> QED
    BY <2>1
<1> HIDE DEF S
<1>2. /\ Append(s, e) \in Seq(S) /\ Len(Append(s, e)) = n + 1
      /\ Append(s, e)[n + 1] = e /\ \A k \in 1..n : Append(s, e)[k] = s[k]
  BY <1>1, AppendProperties
<1>3. DOMAIN Append(s, e) = 1..(n + 1)
  BY <1>2
<1>4. ASSUME NEW k \in 1..(n + 1) PROVE Append(s, e)[k] = F[k]
  <2>1. k = n + 1 \/ k \in 1..n
    OBVIOUS
  <2>2. \A j \in 1..n : s[j] = F[j]
    OBVIOUS
  <2> QED
    BY <1>2, <2>1, <2>2
<1>5. Append(s, e) = [k \in DOMAIN Append(s, e) |-> Append(s, e)[k]]
  BY <1>2
<1> QED
  BY <1>3, <1>4, <1>5

\* What is left when the cursor moves by s.
LEMMA Shift ==
  ASSUME NEW c, NEW d, NEW s \in Int, c.pos \in Int, c.left \in Int, d.pos \in Int, d.left \in Int,
         d.pos = c.pos + s, d.pos + d.left = c.pos + c.left
  PROVE  d.left = c.left - s
OBVIOUS

\* What was read of some fields and of one more.
LEMMA FieldsGoOn ==
  ASSUME Widths, NEW c \in Cursor, NEW fs \in Seq(FieldShape), NEW static,
         NEW n \in Nat, n + 1 <= Len(fs), NEW acc, NEW r, NEW size, NEW b,
         FieldsRead(c, fs, n, acc, size, static), FieldRead(acc, r, fs[n + 1], b, static)
  PROVE  FieldsRead(c, fs, n + 1, r, size + b, static)
<1>1. /\ acc \in Acc /\ size \in Nat /\ r \in Acc /\ b \in Nat /\ size + b \in Nat
      /\ acc.c \in Cursor /\ acc.out \in {"ok", "abort", "fail"}
      /\ r.c \in Cursor /\ r.out \in {"ok", "abort", "fail"}
  BY DEF FieldsRead, FieldRead, Acc
<1>2. /\ c.pos \in Int /\ c.left \in Int /\ c.err \in BOOLEAN
      /\ acc.c.pos \in Int /\ acc.c.left \in Int /\ acc.c.err \in BOOLEAN /\ cut \in Int
      /\ r.c.pos \in Int /\ r.c.left \in Int /\ r.c.err \in BOOLEAN
  BY <1>1 DEF Cursor, Widths
<1>a. static => r.offset <= size + b
  <2>1. acc.offset \in Nat /\ r.offset \in Nat
    BY <1>1 DEF Acc
  <2>2. static => acc.offset <= size /\ r.offset <= acc.offset + b
    BY DEF FieldsRead, FieldRead
  <2> QED
    BY <1>1, <2>1, <2>2
<1>3. CASE acc.out # "ok"
  <2>1. r = acc
    BY <1>3 DEF FieldRead
  <2>2. acc.out = "fail" /\ static => Overrun(c, r.c, size + b)
    <3>1. acc.out = "fail" /\ static => Overrun(c, r.c, size)
      BY <2>1 DEF FieldsRead
    <3> QED
      BY <1>1, <1>2, <3>1 DEF Overrun
  <2>3. acc.out = "fail" /\ ~static => Moved(c, r.c, size + b) /\ r.c.err
    <3>1. acc.out = "fail" /\ ~static => Moved(c, r.c, size) /\ r.c.err
      BY <2>1 DEF FieldsRead
    <3> SUFFICES ASSUME acc.out = "fail", ~static PROVE Moved(c, r.c, size + b) /\ r.c.err
      OBVIOUS
    <3>2. ~(~c.err /\ c.left >= size) /\ c.pos <= r.c.pos /\ r.c.pos <= c.pos + size
      BY <3>1 DEF Moved
    <3>3. r.c.pos <= c.pos + (size + b)
      BY <1>1, <1>2, <3>2
    <3>4. ~(~c.err /\ c.left >= size + b)
      BY <1>1, <1>2, <3>2
    <3>5. ~c.err => r.c.pos < c.pos + (size + b)
      <4>1. ~c.err => r.c.pos < c.pos + size
        BY <3>1 DEF Moved
      <4> QED
        BY <1>1, <1>2, <4>1
    <3>6. r.c \in Cursor /\ r.c.pos + r.c.left = c.pos + c.left
      BY <3>1 DEF Moved
    <3> QED
      BY <3>1, <3>2, <3>3, <3>4, <3>5, <3>6 DEF Moved
  <2>4. ~(~c.err /\ c.left >= size + b /\ c.pos + (size + b) <= cut)
    <3>1. ~(~c.err /\ c.left >= size /\ c.pos + size <= cut)
      BY <1>3 DEF FieldsRead
    <3> QED
      BY <1>1, <1>2, <3>1
  <2> QED
    BY <1>1, <1>a, <1>3, <2>1, <2>2, <2>3, <2>4 DEF FieldsRead
<1>4. CASE acc.out = "ok"
  <2>1. /\ Moved(c, acc.c, size)
        /\ acc.offset = Added(FieldSizesOf(fs), n) /\ acc.specs = SpecsTo(fs, n)
    BY <1>4 DEF FieldsRead
  <2>2. c.pos <= acc.c.pos /\ acc.c.pos <= c.pos + size
    BY <2>1 DEF Moved
  <2>3. r.out = "ok" => /\ Moved(c, r.c, size + b) /\ ~r.c.err /\ r.c.pos <= cut
                        /\ r.offset = Added(FieldSizesOf(fs), n + 1) /\ r.specs = SpecsTo(fs, n + 1)
    <3> SUFFICES ASSUME r.out = "ok"
                 PROVE  /\ Moved(c, r.c, size + b) /\ ~r.c.err /\ r.c.pos <= cut
                        /\ r.offset = Added(FieldSizesOf(fs), n + 1) /\ r.specs = SpecsTo(fs, n + 1)
      OBVIOUS
    <3>1. /\ Moved(acc.c, r.c, b) /\ ~r.c.err /\ r.c.pos <= cut
          /\ r.offset = acc.offset + FieldSize(fs[n + 1].type, idSize)
          /\ r.specs = Append(acc.specs, FieldSpec(fs[n + 1], acc.offset))
      BY <1>4 DEF FieldRead
    <3>2. Moved(c, r.c, size + b)
      BY <1>1, <2>1, <3>1, MovedOn
    <3>3. Added(FieldSizesOf(fs), n + 1) = Added(FieldSizesOf(fs), n) + FieldSize(fs[n + 1].type, idSize)
      <4>1. Len(fs) \in Nat /\ DOMAIN fs = 1..Len(fs) /\ \A k \in 1..Len(fs) : fs[k] \in FieldShape
        OBVIOUS
      <4>2. idSize \in Nat
        BY DEF Widths
      <4>3. \A k \in 1..Len(fs) : FieldSizesOf(fs)[k] = FieldSize(fs[k].type, idSize) /\ FieldSizesOf(fs)[k] \in Nat
        BY <4>1, <4>2, FieldSizes DEF FieldShape, FieldSizesOf
      <4>4. \A k \in 1..Len(fs) : Added(FieldSizesOf(fs), k) = Added(FieldSizesOf(fs), k - 1) + FieldSizesOf(fs)[k]
        BY <4>1, <4>3, AddedSteps
      <4>5. n + 1 \in 1..Len(fs) /\ (n + 1) - 1 = n
        BY <4>1
      <4> QED
        BY <4>3, <4>4, <4>5
    <3>4. r.specs = SpecsTo(fs, n + 1)
      <4> DEFINE F == [k \in 1..(n + 1) |-> FieldSpec(fs[k], Added(FieldSizesOf(fs), k - 1))]
      <4>1. SpecsTo(fs, n) = [k \in 1..n |-> F[k]]
        <5>1. \A k \in 1..n : k \in 1..(n + 1)
          OBVIOUS
        <5> QED
          BY <5>1 DEF SpecsTo
      <4>2. SpecsTo(fs, n + 1) = [k \in 1..(n + 1) |-> F[k]]
        BY DEF SpecsTo
      <4>3. F[n + 1] = FieldSpec(fs[n + 1], acc.offset)
        <5>1. n + 1 \in 1..(n + 1) /\ (n + 1) - 1 = n
          OBVIOUS
        <5> QED
          BY <2>1, <5>1
      <4> HIDE DEF F
      <4>4. Append(SpecsTo(fs, n), FieldSpec(fs[n + 1], acc.offset)) = [k \in 1..(n + 1) |-> F[k]]
        BY <4>1, <4>3, OneMore
      <4> QED
        BY <2>1, <3>1, <4>2, <4>4
    <3> QED
      BY <2>1, <3>1, <3>2, <3>3, <3>4
  <2>4. r.out = "fail" /\ static => Overrun(c, r.c, size + b)
    <3>1. r.out = "fail" /\ static => Overrun(acc.c, r.c, b)
      BY <1>4 DEF FieldRead
    <3> QED
      BY <1>1, <1>2, <2>2, <3>1 DEF Overrun
  <2>5. r.out = "fail" /\ ~static => Moved(c, r.c, size + b) /\ r.c.err
    <3>1. r.out = "fail" /\ ~static => Moved(acc.c, r.c, b) /\ r.c.err
      BY <1>4 DEF FieldRead
    <3> QED
      BY <1>1, <2>1, <3>1, MovedOn
  <2>6. ~c.err /\ c.left >= size + b /\ c.pos + (size + b) <= cut => r.out = "ok"
    <3> SUFFICES ASSUME ~c.err, c.left >= size + b, c.pos + (size + b) <= cut PROVE r.out = "ok"
      OBVIOUS
    <3>a. c.left >= size
      BY <1>1, <1>2
    <3>1. ~acc.c.err
      BY <2>1, <3>a DEF Moved
    <3>2. acc.c.pos = c.pos + size /\ acc.c.pos + acc.c.left = c.pos + c.left
      BY <2>1, <3>1 DEF Moved
    <3>b. acc.c.left = c.left - size
      <4>1. size \in Int
        BY <1>1
      <4> QED
        BY <1>2, <3>2, <4>1, Shift, Zenon
    <3>c. acc.c.left >= b
      BY <1>1, <1>2, <3>b
    <3>3. acc.c.left >= b /\ acc.c.pos + b <= cut
      BY <1>1, <1>2, <3>2, <3>c
    <3> QED
      BY <1>4, <3>1, <3>3 DEF FieldRead
  <2>7. n + 1 # 0
    OBVIOUS
  <2> QED
    BY <1>1, <1>a, <2>3, <2>4, <2>5, <2>6, <2>7 DEF FieldsRead
<1> QED
  BY <1>3, <1>4

\* What was read of no fields.
LEMMA NoFieldsRead ==
  ASSUME Widths, NEW c \in Cursor, NEW fs, NEW static
  PROVE  FieldsRead(c, fs, 0, Collected(c), 0, static) /\ Collected(c) \in Acc
<1>1. Collected(c) = [c |-> c, out |-> "ok", offset |-> 0, specs |-> <<>>]
  BY DEF Collected
<1>2. <<>> \in Seq(SpecSet)
  BY EmptySeq
<1>3. Collected(c) \in Acc /\ Collected(c).out = "ok" /\ Collected(c).c = c /\ Collected(c).offset = 0
  BY <1>1, <1>2 DEF Acc
<1>4. Added(FieldSizesOf(fs), 0) = 0
  <2>1. \A k \in 1..0 : FieldSizesOf(fs)[k] \in Nat
    OBVIOUS
  <2> QED
    BY <2>1, AddedSteps
<1>5. SpecsTo(fs, 0) = <<>>
  BY DEF SpecsTo
<1> QED
  BY <1>1, <1>3, <1>4, <1>5, NotMoved DEF FieldsRead

\* Static fields are read one by one.
LEMMA StaticsSteps ==
  ASSUME Widths, NEW c \in Cursor, NEW fs \in Seq(FieldShape)
  PROVE  /\ Statics(c, fs, 0) = Collected(c)
         /\ \A n \in 0..Len(fs) : Statics(c, fs, n) \in Acc
         /\ \A n \in 1..Len(fs) : Statics(c, fs, n) = StaticField(Statics(c, fs, n - 1), fs[n])
<1> DEFINE N == Len(fs)
<1> DEFINE step == [p \in (1..N) \X Acc |-> StaticField(p[2], fs[p[1]])]
<1>0. N \in Nat /\ \A n \in 1..N : fs[n] \in FieldShape
  OBVIOUS
<1>1. ASSUME NEW n \in 1..N, NEW d \in Acc PROVE StaticField(d, fs[n]) \in Acc
  BY <1>0, StaticFieldRead DEF FieldRead
<1> HIDE DEF N
<1>2. step \in [(1..N) \X Acc -> Acc]
  BY <1>1
<1>3. PICK f \in [0..N -> Acc] : f[0] = Collected(c) /\ \A n \in 1..N : f[n] = step[<<n, f[n - 1]>>]
  <2> HIDE DEF step, Acc
  <2>1. Defines(N, Acc, Collected(c), step)
    BY <1>0, <1>2, NoFieldsRead, RecursionExists
  <2> QED
    BY <2>1 DEF Defines
<1>4. ASSUME NEW n \in 1..N PROVE f[n] = StaticField(f[n - 1], fs[n]) /\ f[n - 1] \in Acc
  <2>1. n - 1 \in 0..N
    BY <1>0
  <2>2. f[n - 1] \in Acc /\ <<n, f[n - 1]>> \in (1..N) \X Acc
    BY <2>1
  <2>3. step[<<n, f[n - 1]>>] = StaticField(f[n - 1], fs[n])
    BY <2>2
  <2> QED
    BY <1>3, <2>2, <2>3
<1>5. ASSUME NEW n \in 0..N PROVE Statics(c, fs, n) = f[n]
  <2> DEFINE Is(read) == read = [k \in 0..n |-> IF k = 0 THEN Collected(c) ELSE StaticField(read[k - 1], fs[k])]
  <2> DEFINE g == [k \in 0..n |-> f[k]]
  <2> DEFINE h == CHOOSE read : Is(read)
  <2>1. ASSUME NEW k \in 0..n PROVE g[k] = IF k = 0 THEN Collected(c) ELSE StaticField(g[k - 1], fs[k])
    <3>1. k # 0 => k - 1 \in 0..n /\ k \in 1..N
      BY <1>0
    <3>2. g[k] = f[k] /\ (k # 0 => g[k - 1] = f[k - 1])
      BY <3>1
    <3> HIDE DEF g
    <3> QED
      BY <1>3, <1>4, <3>1, <3>2
  <2>2. Is(g)
    <3> SUFFICES g = [k \in 0..n |-> IF k = 0 THEN Collected(c) ELSE StaticField(g[k - 1], fs[k])]
      OBVIOUS
    <3> HIDE DEF g
    <3>1. DOMAIN g = 0..n /\ g = [k \in 0..n |-> g[k]]
      BY DEF g
    <3> QED
      BY <2>1, <3>1
  <2>3. Is(h)
    <3> HIDE DEF Is, g
    <3> QED
      BY <2>2
  <2>4. h[0] = f[0]
    <3>1. 0 \in 0..n
      BY <1>0
    <3> HIDE DEF h
    <3> QED
      BY <1>3, <2>3, <3>1
  <2>5. ASSUME NEW k \in 1..n, h[k - 1] = f[k - 1] PROVE h[k] = f[k]
    <3>0. k \in 0..n /\ k # 0 /\ k \in 1..N
      BY <1>0
    <3>1. h[k] = StaticField(h[k - 1], fs[k])
      <4> HIDE DEF h
      <4> QED
        BY <2>3, <3>0
    <3> HIDE DEF h
    <3> QED
      BY <1>4, <2>5, <3>0, <3>1
  <2>6. h[n] = f[n]
    <3> HIDE DEF h
    <3>1. n \in Nat /\ \A k \in 1..n : h[k - 1] = f[k - 1] => h[k] = f[k]
      BY <1>0, <2>5
    <3> QED
      BY <2>4, <3>1, SameEnd
  <2> QED
    BY <2>6 DEF Statics
<1> HIDE DEF step
<1>6. ASSUME NEW n \in 1..N PROVE Statics(c, fs, n) = StaticField(Statics(c, fs, n - 1), fs[n])
  <2>1. n - 1 \in 0..N /\ n \in 0..N
    BY <1>0
  <2> QED
    BY <1>4, <1>5, <2>1
<1>7. 0 \in 0..N
  BY <1>0
<1>8. Statics(c, fs, 0) = Collected(c) /\ \A n \in 0..N : Statics(c, fs, n) \in Acc
  BY <1>3, <1>5, <1>7
<1> QED
  BY <1>6, <1>8 DEF N

\* And the fields of the instances.
LEMMA FieldsSteps ==
  ASSUME Widths, NEW c \in Cursor, NEW fs \in Seq(FieldShape)
  PROVE  /\ Fields(c, fs, 0) = Collected(c)
         /\ \A n \in 0..Len(fs) : Fields(c, fs, n) \in Acc
         /\ \A n \in 1..Len(fs) : Fields(c, fs, n) = InstanceField(Fields(c, fs, n - 1), fs[n])
<1> DEFINE N == Len(fs)
<1> DEFINE step == [p \in (1..N) \X Acc |-> InstanceField(p[2], fs[p[1]])]
<1>0. N \in Nat /\ \A n \in 1..N : fs[n] \in FieldShape
  OBVIOUS
<1>1. ASSUME NEW n \in 1..N, NEW d \in Acc PROVE InstanceField(d, fs[n]) \in Acc
  BY <1>0, InstanceFieldRead DEF FieldRead
<1> HIDE DEF N
<1>2. step \in [(1..N) \X Acc -> Acc]
  BY <1>1
<1>3. PICK f \in [0..N -> Acc] : f[0] = Collected(c) /\ \A n \in 1..N : f[n] = step[<<n, f[n - 1]>>]
  <2> HIDE DEF step, Acc
  <2>1. Defines(N, Acc, Collected(c), step)
    BY <1>0, <1>2, NoFieldsRead, RecursionExists
  <2> QED
    BY <2>1 DEF Defines
<1>4. ASSUME NEW n \in 1..N PROVE f[n] = InstanceField(f[n - 1], fs[n]) /\ f[n - 1] \in Acc
  <2>1. n - 1 \in 0..N
    BY <1>0
  <2>2. f[n - 1] \in Acc /\ <<n, f[n - 1]>> \in (1..N) \X Acc
    BY <2>1
  <2>3. step[<<n, f[n - 1]>>] = InstanceField(f[n - 1], fs[n])
    BY <2>2
  <2> QED
    BY <1>3, <2>2, <2>3
<1>5. ASSUME NEW n \in 0..N PROVE Fields(c, fs, n) = f[n]
  <2> DEFINE Is(read) == read = [k \in 0..n |-> IF k = 0 THEN Collected(c) ELSE InstanceField(read[k - 1], fs[k])]
  <2> DEFINE g == [k \in 0..n |-> f[k]]
  <2> DEFINE h == CHOOSE read : Is(read)
  <2>1. ASSUME NEW k \in 0..n PROVE g[k] = IF k = 0 THEN Collected(c) ELSE InstanceField(g[k - 1], fs[k])
    <3>1. k # 0 => k - 1 \in 0..n /\ k \in 1..N
      BY <1>0
    <3>2. g[k] = f[k] /\ (k # 0 => g[k - 1] = f[k - 1])
      BY <3>1
    <3> HIDE DEF g
    <3> QED
      BY <1>3, <1>4, <3>1, <3>2
  <2>2. Is(g)
    <3> SUFFICES g = [k \in 0..n |-> IF k = 0 THEN Collected(c) ELSE InstanceField(g[k - 1], fs[k])]
      OBVIOUS
    <3> HIDE DEF g
    <3>1. DOMAIN g = 0..n /\ g = [k \in 0..n |-> g[k]]
      BY DEF g
    <3> QED
      BY <2>1, <3>1
  <2>3. Is(h)
    <3> HIDE DEF Is, g
    <3> QED
      BY <2>2
  <2>4. h[0] = f[0]
    <3>1. 0 \in 0..n
      BY <1>0
    <3> HIDE DEF h
    <3> QED
      BY <1>3, <2>3, <3>1
  <2>5. ASSUME NEW k \in 1..n, h[k - 1] = f[k - 1] PROVE h[k] = f[k]
    <3>0. k \in 0..n /\ k # 0 /\ k \in 1..N
      BY <1>0
    <3>1. h[k] = InstanceField(h[k - 1], fs[k])
      <4> HIDE DEF h
      <4> QED
        BY <2>3, <3>0
    <3> HIDE DEF h
    <3> QED
      BY <1>4, <2>5, <3>0, <3>1
  <2>6. h[n] = f[n]
    <3> HIDE DEF h
    <3>1. n \in Nat /\ \A k \in 1..n : h[k - 1] = f[k - 1] => h[k] = f[k]
      BY <1>0, <2>5
    <3> QED
      BY <2>4, <3>1, SameEnd
  <2> QED
    BY <2>6 DEF Fields
<1> HIDE DEF step
<1>6. ASSUME NEW n \in 1..N PROVE Fields(c, fs, n) = InstanceField(Fields(c, fs, n - 1), fs[n])
  <2>1. n - 1 \in 0..N /\ n \in 0..N
    BY <1>0
  <2> QED
    BY <1>4, <1>5, <2>1
<1>7. 0 \in 0..N
  BY <1>0
<1>8. Fields(c, fs, 0) = Collected(c) /\ \A n \in 0..N : Fields(c, fs, n) \in Acc
  BY <1>3, <1>5, <1>7
<1> QED
  BY <1>6, <1>8 DEF N


\* What is read of the first n static fields of a class.
LEMMA StaticsRead ==
  ASSUME Widths, NEW c \in Cursor, NEW it \in ItemShape
  PROVE  \A n \in 0..Len(it.statics) :
           FieldsRead(c, it.statics, n, Statics(c, it.statics, n), Added(StaticBytes(it, idSize), n), TRUE)
<1> DEFINE fs == it.statics
<1> DEFINE N == Len(fs)
<1> DEFINE size(n) == Added(StaticBytes(it, idSize), n)
<1>0. idSize \in Nat
  BY DEF Widths
<1>1. /\ N \in Nat /\ fs \in Seq(FieldShape)
      /\ \A k \in 1..N : /\ StaticBytes(it, idSize)[k] = idSize + 1 + FieldSize(fs[k].type, idSize)
                         /\ StaticBytes(it, idSize)[k] \in Nat /\ fs[k] \in FieldShape
  BY <1>0, ItemSize DEF ItemShape
<1>2. /\ Statics(c, fs, 0) = Collected(c)
      /\ \A n \in 0..N : Statics(c, fs, n) \in Acc
      /\ \A n \in 1..N : Statics(c, fs, n) = StaticField(Statics(c, fs, n - 1), fs[n])
  <2> HIDE DEF fs
  <2> QED
    BY <1>1, StaticsSteps
<1> HIDE DEF N, fs
<1>3. /\ size(0) = 0
      /\ \A n \in 1..N : size(n) = size(n - 1) + (idSize + 1 + FieldSize(fs[n].type, idSize))
  <2>1. \A k \in 1..N : StaticBytes(it, idSize)[k] \in Nat
    BY <1>1
  <2>2. /\ size(0) = 0
        /\ \A n \in 1..N : size(n) = size(n - 1) + StaticBytes(it, idSize)[n]
    BY <1>1, <2>1, AddedSteps
  <2> QED
    BY <1>1, <2>2
<1> HIDE DEF size
<1> DEFINE S == {n \in 0..N : FieldsRead(c, fs, n, Statics(c, fs, n), size(n), TRUE)}
<1>4. 0 \in S
  <2>1. FieldsRead(c, fs, 0, Statics(c, fs, 0), size(0), TRUE)
    <3>1. FieldsRead(c, fs, 0, Collected(c), 0, TRUE)
      BY NoFieldsRead
    <3> QED
      BY <1>2, <1>3, <3>1
  <2>2. 0 \in 0..N
    BY <1>1
  <2> QED
    BY <2>1, <2>2
<1>5. ASSUME NEW n \in 0..(N - 1), n \in S PROVE n + 1 \in S
  <2>1. n + 1 \in 1..N /\ (n + 1) - 1 = n /\ n \in 0..N /\ n + 1 \in 0..N /\ n \in Nat /\ n + 1 <= N
    BY <1>1
  <2> DEFINE b == idSize + 1 + FieldSize(fs[n + 1].type, idSize)
  <2> DEFINE acc == Statics(c, fs, n)
  <2> DEFINE r == Statics(c, fs, n + 1)
  <2>2. r = StaticField(acc, fs[n + 1]) /\ acc \in Acc /\ size(n + 1) = size(n) + b /\ fs[n + 1] \in FieldShape
    BY <1>1, <1>2, <1>3, <2>1
  <2>3. FieldRead(acc, StaticField(acc, fs[n + 1]), fs[n + 1], b, TRUE)
    <3> HIDE DEF acc
    <3> QED
      BY <2>2, StaticFieldRead
  <2>4. FieldsRead(c, fs, n, acc, size(n), TRUE)
    BY <1>5
  <2> HIDE DEF acc, r, b
  <2>5. FieldsRead(c, fs, n + 1, r, size(n) + b, TRUE)
    BY <1>1, <2>1, <2>2, <2>3, <2>4, FieldsGoOn DEF N
  <2> QED
    BY <2>1, <2>2, <2>5 DEF r
<1>6. \A n \in 0..N : n \in S
  <2> HIDE DEF S
  <2> QED
    BY <1>1, <1>4, <1>5, InductionTo
<1> QED
  BY <1>6 DEF N, fs, size

\* What is read of the first n fields of its instances.
LEMMA InstanceFieldsRead ==
  ASSUME Widths, NEW c \in Cursor, NEW it \in ItemShape
  PROVE  \A n \in 0..Len(it.fields) :
           FieldsRead(c, it.fields, n, Fields(c, it.fields, n), n * (idSize + 1), FALSE)
<1> DEFINE fs == it.fields
<1> DEFINE N == Len(fs)
<1> DEFINE size(n) == n * (idSize + 1)
<1> DEFINE b == idSize + 1
<1>0. idSize \in Nat
  BY DEF Widths
<1>1. N \in Nat /\ fs \in Seq(FieldShape) /\ \A k \in 1..N : fs[k] \in FieldShape
  BY <1>0, ItemSize DEF ItemShape
<1>2. /\ Fields(c, fs, 0) = Collected(c)
      /\ \A n \in 0..N : Fields(c, fs, n) \in Acc
      /\ \A n \in 1..N : Fields(c, fs, n) = InstanceField(Fields(c, fs, n - 1), fs[n])
  <2> HIDE DEF fs
  <2> QED
    BY <1>1, FieldsSteps
<1> HIDE DEF N, fs
<1>3. size(0) = 0 /\ \A n \in 0..N : size(n + 1) = size(n) + b
  BY <1>0, <1>1
<1> HIDE DEF size
<1> DEFINE S == {n \in 0..N : FieldsRead(c, fs, n, Fields(c, fs, n), size(n), FALSE)}
<1>4. 0 \in S
  <2>1. FieldsRead(c, fs, 0, Fields(c, fs, 0), size(0), FALSE)
    <3>1. FieldsRead(c, fs, 0, Collected(c), 0, FALSE)
      BY NoFieldsRead
    <3> QED
      BY <1>2, <1>3, <3>1
  <2>2. 0 \in 0..N
    BY <1>1
  <2> QED
    BY <2>1, <2>2
<1>5. ASSUME NEW n \in 0..(N - 1), n \in S PROVE n + 1 \in S
  <2>1. n + 1 \in 1..N /\ (n + 1) - 1 = n /\ n \in 0..N /\ n + 1 \in 0..N /\ n \in Nat /\ n + 1 <= N
    BY <1>1
  <2> DEFINE acc == Fields(c, fs, n)
  <2> DEFINE r == Fields(c, fs, n + 1)
  <2>2. r = InstanceField(acc, fs[n + 1]) /\ acc \in Acc /\ size(n + 1) = size(n) + b /\ fs[n + 1] \in FieldShape
    BY <1>1, <1>2, <1>3, <2>1
  <2>3. FieldRead(acc, InstanceField(acc, fs[n + 1]), fs[n + 1], b, FALSE)
    <3> HIDE DEF acc
    <3> QED
      BY <2>2, InstanceFieldRead
  <2>4. FieldsRead(c, fs, n, acc, size(n), FALSE)
    BY <1>5
  <2> HIDE DEF acc, r, b
  <2>5. FieldsRead(c, fs, n + 1, r, size(n) + b, FALSE)
    BY <1>1, <2>1, <2>2, <2>3, <2>4, FieldsGoOn DEF N
  <2> QED
    BY <2>1, <2>2, <2>5 DEF r
<1>6. \A n \in 0..N : n \in S
  <2> HIDE DEF S
  <2> QED
    BY <1>1, <1>4, <1>5, InductionTo
<1> QED
  BY <1>6 DEF N, fs, size

-------------------------------------------------------------------------------
(* One item. *)

\* d is c after an item of n bytes: behind it, or where the section's bytes or the file's
\* ended within it.
Passed(c, d, n) ==
  /\ d \in Cursor
  /\ \/ Moved(c, d, n)
     \/ d.pos > cut /\ c.pos <= d.pos /\ d.pos <= c.pos + n

\* The item's reads ended in d, with right saying that values were read as written, and
\* late that the item may be the last one of a file cut within it.
ItemRead(c, n, ok, d, right, late) ==
  /\ ok => /\ Passed(c, d, n)
           /\ ~d.err /\ d.pos <= cut => right
           /\ d.pos > cut /\ d.left = 0 /\ c.left >= n => late /\ c.left = n
  /\ c.left >= n /\ c.pos + n <= cut => ok

\* The bytes of an item of each kind.
LEMMA KindSizes ==
  ASSUME NEW it, NEW w
  PROVE  /\ it.kind = "class" => ItemBytes(it, w) = 1 + (7 * w + 14 + Added(StaticBytes(it, w), Len(it.statics))
                                                           + Len(it.fields) * (w + 1))
         /\ it.kind = "instance" => ItemBytes(it, w) = 1 + (2 * w + 8 + it.len)
         /\ it.kind = "objects" => ItemBytes(it, w) = 1 + (2 * w + 8 + it.len * w)
         /\ it.kind = "primitives" => ItemBytes(it, w) = 1 + (w + 9 + it.len * FieldSize(it.type, w))
         /\ it.kind = "nodata" => ItemBytes(it, w) = 1 + (w + 5)
         /\ it.kind = "info" => ItemBytes(it, w) = 1 + (w + 4)
         /\ it.kind \in DOMAIN RootInts => ItemBytes(it, w) = 1 + (w + 4 * RootInts[it.kind])
         /\ it.kind \in BareRoots => ItemBytes(it, w) = 1 + 0
<1> DEFINE a == Added(StaticBytes(it, w), Len(it.statics))
<1> DEFINE b == Len(it.fields) * (w + 1)
<1> DEFINE l == it.len * w
<1> DEFINE p == it.len * FieldSize(it.type, w)
<1>1. ItemBytes(it, w) =
        1 + CASE it.kind = "class" -> 7 * w + 14 + a + b
              [] it.kind = "instance" -> 2 * w + 8 + it.len
              [] it.kind = "objects" -> 2 * w + 8 + l
              [] it.kind = "primitives" -> w + 9 + p
              [] it.kind = "nodata" -> w + 5
              [] it.kind = "info" -> w + 4
              [] it.kind \in DOMAIN RootInts -> w + 4 * RootInts[it.kind]
              [] OTHER -> 0
  BY DEF ItemBytes
<1>2. it.kind \in DOMAIN RootInts => it.kind \notin {"class", "instance", "objects", "primitives", "nodata", "info"}
  BY DEF RootInts
<1>3. it.kind \in BareRoots =>
        it.kind \notin {"class", "instance", "objects", "primitives", "nodata", "info"} \cup DOMAIN RootInts
  BY DEF RootInts, BareRoots
<1> HIDE DEF a, b, l, p
<1>4. it.kind \in {"class", "instance", "objects", "primitives", "nodata", "info"} => it.kind \notin DOMAIN RootInts
  BY <1>2
<1>5. it.kind = "class" => ItemBytes(it, w) = 1 + (7 * w + 14 + a + b)
  BY <1>1, <1>4
<1>6. it.kind = "instance" => ItemBytes(it, w) = 1 + (2 * w + 8 + it.len)
  BY <1>1, <1>4
<1>7. it.kind = "objects" => ItemBytes(it, w) = 1 + (2 * w + 8 + l)
  BY <1>1, <1>4
<1>8. it.kind = "primitives" => ItemBytes(it, w) = 1 + (w + 9 + p)
  BY <1>1, <1>4
<1>9. it.kind = "nodata" => ItemBytes(it, w) = 1 + (w + 5)
  BY <1>1, <1>4
<1>10. it.kind = "info" => ItemBytes(it, w) = 1 + (w + 4)
  BY <1>1, <1>4
<1>11. it.kind \in DOMAIN RootInts => ItemBytes(it, w) = 1 + (w + 4 * RootInts[it.kind])
  BY <1>1, <1>2
<1>12. it.kind \in BareRoots => ItemBytes(it, w) = 1 + 0
  BY <1>1, <1>3
<1> QED
  BY <1>5, <1>6, <1>7, <1>8, <1>9, <1>10, <1>11, <1>12 DEF a, b, l, p

\* When nothing is left behind n bytes, there were n.
LEMMA NoneLeft ==
  ASSUME NEW c \in Cursor, NEW d, NEW n \in Nat, Moved(c, d, n), ~c.err, d.left = 0, c.left >= n
  PROVE  c.left = n
<1>1. d.pos = c.pos + n /\ d.pos + 0 = c.pos + c.left
  BY DEF Moved
<1> QED
  BY <1>1 DEF Cursor

\* The state in which an item is read.
Reading == Widths /\ cur \in Cursor /\ ~cur.err /\ cur.left # 0

\* Its subtype.
LEMMA SubtypeRead ==
  ASSUME Reading
  PROVE  Moved(cur, Sub, 1) /\ Sub \in Cursor /\ ~Sub.err
<1>1. idSize \in Nat \ {0} /\ "byte" \in Ops /\ OpBytes("byte") = 1
  BY DEF Reading, Widths, Ops, OpBytes
<1>2. Moved(cur, Sub, 1)
  BY <1>1, ReadMoves DEF Sub, Reading
<1>3. Sub = Fixed(cur, 1)
  BY DEF Sub, Read
<1>4. cur.left \notin 0..(1 - 1)
  BY DEF Reading, Cursor
<1>5. Sub = [pos |-> cur.pos + 1, left |-> cur.left - 1, err |-> cur.err]
  BY <1>3, <1>4 DEF Fixed, Reading, Cursor
<1> QED
  BY <1>2, <1>5 DEF Moved, Reading

\* The fixed part of an item whose size bytes are read behind the subtype.
LEMMA HeadRead ==
  ASSUME Reading, NEW ops, NEW n, AreBytes(ops, n)
  PROVE  LET head == Reads(Sub, ops) IN
         /\ n \in Nat /\ head \in Cursor /\ Moved(cur, head, 1 + n)
         /\ ~head.err /\ head.pos <= cut => \A k \in 1..Len(ops) : \A v : ValueAt(Sub, ops, k, v) = v
         /\ ~head.err => head.pos = cur.pos + (1 + n)
         /\ cur.left >= 1 + n => ~head.err
<1> DEFINE head == Reads(Sub, ops)
<1>1. idSize \in Nat \ {0} /\ cut \in Int /\ cur \in Cursor /\ ~cur.err
  BY DEF Reading, Widths
<1>2. Moved(cur, Sub, 1) /\ Sub \in Cursor
  BY SubtypeRead
<1>3. /\ Moved(Sub, head, n) /\ n \in Nat /\ head \in Cursor
      /\ ~head.err /\ head.pos <= cut => \A k \in 1..Len(ops) : \A v : ValueAt(Sub, ops, k, v) = v
  BY <1>1, <1>2, PartRead
<1> HIDE DEF head
<1>4. Moved(cur, head, 1 + n)
  BY <1>1, <1>2, <1>3, MovedOn
<1>5. (~head.err => head.pos = cur.pos + (1 + n)) /\ (cur.left >= 1 + n => ~head.err)
  BY <1>1, <1>4 DEF Moved
<1> QED
  BY <1>3, <1>4, <1>5 DEF head

DataFacts(ops, n, j, len, unit, head, v, read, size) ==
  /\ v \in {0, len} /\ size \in Nat
  /\ ~head.err /\ ~read.err =>
       /\ Passed(cur, read, size)
       /\ read.pos <= cut => \A k \in 1..Len(ops) : \A x : ValueAt(Sub, ops, k, x) = x
       /\ read.pos > cut /\ read.left = 0 /\ cur.left >= size =>
            head.pos > cut /\ cur.left = size /\ len * unit = 0
  /\ cur.left >= size /\ cur.pos + size <= cut =>
       ~head.err /\ head.pos <= cut /\ ~read.err /\ v = len /\ head.left >= len * unit

\* The fixed part of an item and the data behind it, of as many units as its number j
\* of the fixed part says.
LEMMA DataRead ==
  ASSUME Reading, NEW ops, NEW n, AreBytes(ops, n), NEW j \in 1..Len(ops), NEW len \in Nat, NEW unit \in Nat,
         NEW head, head = Reads(Sub, ops), NEW v, v = ValueAt(Sub, ops, j, len),
         NEW read, read = Bytes(head, v * unit), NEW size, size = 1 + n + len * unit
  PROVE  DataFacts(ops, n, j, len, unit, head, v, read, size)
<1>1. cut \in Int /\ cur \in Cursor /\ ~cur.err /\ cur.pos \in Int /\ cur.left \in Int
  BY DEF Reading, Widths, Cursor
<1>2. /\ n \in Nat /\ head \in Cursor /\ Moved(cur, head, 1 + n)
      /\ ~head.err /\ head.pos <= cut => \A k \in 1..Len(ops) : \A x : ValueAt(Sub, ops, k, x) = x
      /\ ~head.err => head.pos = cur.pos + (1 + n)
      /\ cur.left >= 1 + n => ~head.err
  BY HeadRead
<1>3. head.pos \in Int /\ head.left \in Int /\ head.err \in BOOLEAN
  BY <1>2 DEF Cursor
<1>4. v \in {0, len}
  BY DEF ValueAt, Got
<1>5. len * unit \in Nat /\ v * unit \in Nat
  BY <1>4, Product
<1> DEFINE m == v * unit
<1> DEFINE whole == len * unit
<1>6. m \in Nat /\ whole \in Nat /\ (v = len => m = whole) /\ read = Bytes(head, m) /\ size = 1 + n + whole
  BY <1>5
<1> HIDE DEF m, whole
<1>7. size \in Nat
  BY <1>2, <1>6
<1>8. /\ m = 0 \/ head.pos + m <= cut => Moved(head, read, m) /\ read.err = head.err
      /\ m # 0 /\ head.pos + m > cut => /\ read \in Cursor /\ read.err
                                        /\ read.pos = head.pos + m /\ read.left = head.left
  BY <1>1, <1>2, <1>6, BytesMove
<1>9. ASSUME ~head.err, ~read.err
      PROVE  /\ Passed(cur, read, size)
             /\ read.pos <= cut => \A k \in 1..Len(ops) : \A x : ValueAt(Sub, ops, k, x) = x
             /\ read.pos > cut /\ read.left = 0 /\ cur.left >= size =>
                  head.pos > cut /\ cur.left = size /\ whole = 0
  <2>1. m = 0 \/ head.pos + m <= cut
    BY <1>1, <1>3, <1>6, <1>8, <1>9
  <2>2. Moved(head, read, m) /\ Moved(cur, read, (1 + n) + m)
    <3>1. Moved(head, read, m)
      BY <1>8, <2>1
    <3>2. 1 + n \in Nat
      BY <1>2
    <3> QED
      BY <1>1, <1>2, <1>6, <3>1, <3>2, MovedOn
  <2>3. read \in Cursor /\ read.pos = head.pos + m /\ read.pos \in Int
    BY <1>9, <2>2 DEF Moved, Cursor
  <2>4. ASSUME read.pos > cut, read.left = 0, cur.left >= size
        PROVE  head.pos > cut /\ cur.left = size /\ whole = 0
    <3>1. m = 0 /\ read.pos = head.pos /\ head.pos > cut
      BY <1>1, <1>3, <1>6, <2>1, <2>3, <2>4
    <3>2. read.pos + 0 = cur.pos + cur.left
      BY <2>2, <2>4 DEF Moved
    <3>3. read.pos = cur.pos + (1 + n)
      BY <1>2, <1>9, <3>1
    <3>4. cur.left = 1 + n
      BY <1>1, <1>2, <2>3, <3>2, <3>3
    <3>5. whole = 0
      BY <1>2, <1>6, <2>4, <3>4
    <3> QED
      BY <1>2, <1>6, <3>1, <3>4, <3>5
  <2>5. CASE head.pos <= cut
    <3>1. v = len
      BY <1>2, <1>9, <2>5
    <3>2. (1 + n) + m = size
      BY <1>2, <1>6, <3>1
    <3>3. Moved(cur, read, size)
      BY <2>2, <3>2
    <3> QED
      BY <1>2, <1>9, <2>3, <2>4, <2>5, <3>3 DEF Passed
  <2>6. CASE head.pos > cut
    <3>1. m = 0
      BY <1>1, <1>3, <1>6, <2>1, <2>6
    <3>2. read.pos = head.pos
      BY <1>3, <2>3, <3>1
    <3>3. cur.pos <= head.pos /\ head.pos <= cur.pos + size
      BY <1>1, <1>2, <1>3, <1>6, <1>9
    <3>4. ~(read.pos <= cut)
      BY <1>1, <1>3, <2>6, <3>2
    <3> QED
      BY <2>3, <2>4, <2>6, <3>2, <3>3, <3>4 DEF Passed
  <2> QED
    BY <1>1, <1>3, <2>5, <2>6
<1>10. ASSUME cur.left >= size, cur.pos + size <= cut
       PROVE  ~head.err /\ head.pos <= cut /\ ~read.err /\ v = len /\ head.left >= whole
  <2>1. cur.left >= 1 + n
    BY <1>1, <1>2, <1>6, <1>10
  <2>2. ~head.err /\ head.pos = cur.pos + (1 + n)
    BY <1>2, <2>1
  <2>3. head.pos <= cut
    BY <1>1, <1>2, <1>6, <1>10, <2>2
  <2>4. v = len
    BY <1>2, <2>2, <2>3
  <2>5. head.pos + m <= cut
    BY <1>1, <1>2, <1>6, <1>10, <2>2, <2>4
  <2>6. ~read.err
    BY <1>8, <2>2, <2>5
  <2>7. head.pos + head.left = cur.pos + cur.left
    BY <1>2 DEF Moved
  <2>8. head.left >= whole
    <3>1. 1 + n \in Int /\ n \in Nat
      BY <1>2
    <3>2. head.left = cur.left - (1 + n)
      BY <1>1, <1>3, <2>2, <2>7, <3>1, Shift, Zenon
    <3> QED
      BY <1>1, <1>3, <1>6, <1>10, <3>1, <3>2
  <2> QED
    BY <2>2, <2>3, <2>4, <2>6, <2>8
<1> QED
  BY <1>4, <1>7, <1>9, <1>10 DEF whole, DataFacts

InstanceOk(head, size, read) == ~(head.err \/ head.left \in 0..(size - 1) \/ read.err)

\* An instance.
LEMMA InstanceRead ==
  ASSUME Reading, NEW it \in ItemShape, it.kind = "instance",
         NEW head, head = Reads(Sub, InstanceOps), NEW size, size = ValueAt(Sub, InstanceOps, 4, it.len),
         NEW read, read = Bytes(head, size)
  PROVE  ItemRead(cur, ItemBytes(it, idSize), InstanceOk(head, size, read), read,
                  /\ ValueAt(Sub, InstanceOps, 1, it.id) = it.id
                  /\ ValueAt(Sub, InstanceOps, 3, it.ref) = it.ref /\ size = it.len,
                  it.len = 0)
<1>1. idSize \in Nat \ {0} /\ it.len \in Nat
  BY Numbers DEF Reading, Widths, ItemShape
<1> DEFINE n == 2 * idSize + 8
<1>2. AreBytes(InstanceOps, n) /\ Len(InstanceOps) = 4 /\ n \in Nat
  BY <1>1, FixedParts
<1> DEFINE all == ItemBytes(it, idSize)
<1>3. all = 1 + (n + it.len)
  BY KindSizes
<1> HIDE DEF n, all
<1>4. size \in {0, it.len}
  BY DEF ValueAt, Got
<1>5. read = Bytes(head, size * 1) /\ all = 1 + n + it.len * 1
  BY <1>1, <1>2, <1>3, <1>4
<1>6. /\ ~head.err /\ ~read.err =>
           /\ Passed(cur, read, all)
           /\ read.pos <= cut => \A k \in 1..Len(InstanceOps) : \A x : ValueAt(Sub, InstanceOps, k, x) = x
           /\ read.pos > cut /\ read.left = 0 /\ cur.left >= all => cur.left = all /\ it.len * 1 = 0
      /\ cur.left >= all /\ cur.pos + all <= cut =>
           ~head.err /\ head.pos <= cut /\ ~read.err /\ size = it.len /\ head.left >= it.len * 1
  <2>1. 4 \in 1..Len(InstanceOps) /\ 1 \in Nat
    BY <1>2
  <2>2. DataFacts(InstanceOps, n, 4, it.len, 1, head, size, read, all)
    BY <1>1, <1>2, <1>5, <2>1, DataRead
  <2> QED
    BY <2>2 DEF DataFacts
<1>7. cur.left >= all /\ cur.pos + all <= cut => InstanceOk(head, size, read)
  BY <1>1, <1>6 DEF InstanceOk
<1>8. InstanceOk(head, size, read) =>
        /\ Passed(cur, read, all)
        /\ ~read.err /\ read.pos <= cut =>
             /\ ValueAt(Sub, InstanceOps, 1, it.id) = it.id
             /\ ValueAt(Sub, InstanceOps, 3, it.ref) = it.ref /\ size = it.len
        /\ read.pos > cut /\ read.left = 0 /\ cur.left >= all => it.len = 0 /\ cur.left = all
  <2>1. 1 \in 1..Len(InstanceOps) /\ 3 \in 1..Len(InstanceOps) /\ 4 \in 1..Len(InstanceOps)
    BY <1>2
  <2>2. it.len * 1 = 0 => it.len = 0
    BY <1>1
  <2> QED
    BY <1>6, <2>1, <2>2 DEF InstanceOk
<1> QED
  BY <1>7, <1>8 DEF ItemRead, all

\* An array of references.
LEMMA ObjectsRead ==
  ASSUME Reading, NEW it \in ItemShape, it.kind = "objects",
         NEW head, head = Reads(Sub, ObjectsOps), NEW length, length = ValueAt(Sub, ObjectsOps, 3, it.len),
         NEW read, read = Bytes(head, length * idSize)
  PROVE  ItemRead(cur, ItemBytes(it, idSize), ~(head.err \/ read.err), read,
                  /\ ValueAt(Sub, ObjectsOps, 1, it.id) = it.id
                  /\ ValueAt(Sub, ObjectsOps, 4, it.ref) = it.ref /\ length = it.len,
                  it.len = 0)
<1>1. idSize \in Nat \ {0} /\ it.len \in Nat
  BY Numbers DEF Reading, Widths, ItemShape
<1> DEFINE n == 2 * idSize + 8
<1>2. AreBytes(ObjectsOps, n) /\ Len(ObjectsOps) = 4 /\ n \in Nat
  BY <1>1, FixedParts
<1> DEFINE all == ItemBytes(it, idSize)
<1>3. all = 1 + (n + it.len * idSize)
  BY KindSizes
<1> HIDE DEF n, all
<1>4. it.len * idSize \in Nat
  BY <1>1, Product
<1>5. all = 1 + n + it.len * idSize
  BY <1>2, <1>3, <1>4
<1>6. /\ ~head.err /\ ~read.err =>
           /\ Passed(cur, read, all)
           /\ read.pos <= cut => \A k \in 1..Len(ObjectsOps) : \A x : ValueAt(Sub, ObjectsOps, k, x) = x
           /\ read.pos > cut /\ read.left = 0 /\ cur.left >= all => cur.left = all /\ it.len * idSize = 0
      /\ cur.left >= all /\ cur.pos + all <= cut => ~head.err /\ ~read.err
  <2>1. 3 \in 1..Len(ObjectsOps) /\ idSize \in Nat
    BY <1>1, <1>2
  <2>2. DataFacts(ObjectsOps, n, 3, it.len, idSize, head, length, read, all)
    BY <1>1, <1>2, <1>5, <2>1, DataRead
  <2> QED
    BY <2>2 DEF DataFacts
<1>8. ~(head.err \/ read.err) =>
        /\ Passed(cur, read, all)
        /\ ~read.err /\ read.pos <= cut =>
             /\ ValueAt(Sub, ObjectsOps, 1, it.id) = it.id
             /\ ValueAt(Sub, ObjectsOps, 4, it.ref) = it.ref /\ length = it.len
        /\ read.pos > cut /\ read.left = 0 /\ cur.left >= all => it.len = 0 /\ cur.left = all
  <2>1. 1 \in 1..Len(ObjectsOps) /\ 3 \in 1..Len(ObjectsOps) /\ 4 \in 1..Len(ObjectsOps)
    BY <1>2
  <2>2. it.len * idSize = 0 => it.len = 0
    BY <1>1, NoProduct
  <2> QED
    BY <1>6, <2>1, <2>2
<1> QED
  BY <1>6, <1>8 DEF ItemRead, all

\* An array of numbers.
LEMMA PrimitivesRead ==
  ASSUME Reading, NEW it \in ItemShape, it.kind = "primitives",
         NEW head, head = Reads(Sub, PrimitivesOps), NEW length, length = ValueAt(Sub, PrimitivesOps, 3, it.len),
         NEW read, read = Bytes(head, length * FieldSize(it.type, idSize))
  PROVE  ItemRead(cur, ItemBytes(it, idSize), ~head.err /\ head.pos <= cut /\ ~read.err, read,
                  ValueAt(Sub, PrimitivesOps, 1, it.id) = it.id /\ length = it.len, FALSE)
<1>1. idSize \in Nat \ {0} /\ it.len \in Nat /\ FieldSize(it.type, idSize) \in Nat
  <2>1. idSize \in Nat \ {0} /\ it.len \in Nat /\ it.type \in Types
    BY Numbers DEF Reading, Widths, ItemShape
  <2> QED
    BY <2>1, FieldSizes
<1> DEFINE n == idSize + 9
<1> DEFINE unit == FieldSize(it.type, idSize)
<1>2. AreBytes(PrimitivesOps, n) /\ Len(PrimitivesOps) = 4 /\ n \in Nat
  BY <1>1, FixedParts
<1> DEFINE all == ItemBytes(it, idSize)
<1>3. all = 1 + (n + it.len * unit)
  BY KindSizes
<1> HIDE DEF n, all, unit
<1>4. unit \in Nat /\ it.len * unit \in Nat
  BY <1>1, Product DEF unit
<1>5. all = 1 + n + it.len * unit /\ read = Bytes(head, length * unit)
  BY <1>2, <1>3, <1>4 DEF unit
<1>6. /\ ~head.err /\ ~read.err =>
           /\ Passed(cur, read, all)
           /\ read.pos <= cut => \A k \in 1..Len(PrimitivesOps) : \A x : ValueAt(Sub, PrimitivesOps, k, x) = x
           /\ read.pos > cut /\ read.left = 0 /\ cur.left >= all => head.pos > cut
      /\ cur.left >= all /\ cur.pos + all <= cut => ~head.err /\ head.pos <= cut /\ ~read.err
  <2>1. 3 \in 1..Len(PrimitivesOps)
    BY <1>2
  <2>2. DataFacts(PrimitivesOps, n, 3, it.len, unit, head, length, read, all)
    BY <1>1, <1>2, <1>4, <1>5, <2>1, DataRead
  <2> QED
    BY <2>2 DEF DataFacts
<1>8. ~head.err /\ head.pos <= cut /\ ~read.err =>
        /\ Passed(cur, read, all)
        /\ ~read.err /\ read.pos <= cut => ValueAt(Sub, PrimitivesOps, 1, it.id) = it.id /\ length = it.len
        /\ ~(read.pos > cut /\ read.left = 0 /\ cur.left >= all)
  <2>1. 1 \in 1..Len(PrimitivesOps) /\ 3 \in 1..Len(PrimitivesOps)
    BY <1>2
  <2>2. head.pos <= cut => ~(head.pos > cut)
    <3>1. head.pos \in Int /\ cut \in Int
      BY <1>2, HeadRead DEF Cursor, Reading, Widths
    <3> QED
      BY <3>1
  <2> QED
    BY <1>6, <2>1, <2>2
<1> QED
  BY <1>6, <1>8 DEF ItemRead, all

\* Elements that are skipped.
LEMMA NoDataRead ==
  ASSUME Reading, NEW it \in ItemShape, it.kind = "nodata", NEW read, read = Bytes(Read(Sub, "id"), 5)
  PROVE  ItemRead(cur, ItemBytes(it, idSize), TRUE, read, TRUE, FALSE)
<1>1. idSize \in Nat \ {0} /\ cut \in Int /\ "id" \in Ops /\ OpBytes("id") = idSize
  BY DEF Reading, Widths, Ops, OpBytes
<1>2. ItemBytes(it, idSize) = 1 + (idSize + 5)
  BY KindSizes
<1> DEFINE named == Read(Sub, "id")
<1>3. cur \in Cursor /\ Sub \in Cursor /\ Moved(cur, Sub, 1) /\ Moved(Sub, named, idSize) /\ named \in Cursor
  <2>1. Sub \in Cursor /\ Moved(cur, Sub, 1)
    BY SubtypeRead
  <2>2. Moved(Sub, named, idSize)
    BY <1>1, <2>1, ReadMoves
  <2> QED
    BY <2>1, <2>2 DEF Moved, Reading
<1>4. read = Bytes(named, 5)
  OBVIOUS
<1> HIDE DEF named
<1>5. Moved(cur, named, 1 + idSize) /\ 1 + idSize \in Nat
  BY <1>1, <1>3, MovedOn
<1>6. /\ cur.pos \in Int /\ cur.left \in Int /\ cur.err \in BOOLEAN
      /\ named.pos \in Int /\ named.left \in Int /\ named.err \in BOOLEAN
  BY <1>3 DEF Cursor
<1>7. /\ named.pos + 5 <= cut => Moved(named, read, 5)
      /\ named.pos + 5 > cut => read \in Cursor /\ read.pos = named.pos + 5 /\ read.left = named.left
  BY <1>1, <1>3, <1>4, BytesMove
<1>8. Passed(cur, read, 1 + (idSize + 5))
  <2>1. CASE named.pos + 5 <= cut
    <3>1. Moved(cur, read, (1 + idSize) + 5)
      BY <1>3, <1>5, <1>7, <2>1, MovedOn
    <3>2. (1 + idSize) + 5 = 1 + (idSize + 5)
      BY <1>1
    <3> QED
      BY <3>1, <3>2 DEF Passed, Moved
  <2>2. CASE named.pos + 5 > cut
    <3>1. cur.pos <= named.pos /\ named.pos <= cur.pos + (1 + idSize)
      BY <1>5 DEF Moved
    <3>2. read.pos > cut /\ cur.pos <= read.pos /\ read.pos <= cur.pos + (1 + (idSize + 5))
      BY <1>1, <1>6, <1>7, <2>2, <3>1
    <3> QED
      BY <1>7, <2>2, <3>2 DEF Passed
  <2> QED
    BY <1>1, <1>6, <2>1, <2>2
<1>9. ~(read.pos > cut /\ read.left = 0 /\ cur.left >= 1 + (idSize + 5))
  <2> SUFFICES ASSUME read.pos > cut, read.left = 0, cur.left >= 1 + (idSize + 5) PROVE FALSE
    OBVIOUS
  <2>1. ~named.err /\ named.pos = cur.pos + (1 + idSize) /\ named.pos + named.left = cur.pos + cur.left
    <3>1. cur.left >= 1 + idSize /\ ~cur.err
      BY <1>1, <1>6 DEF Reading
    <3> QED
      BY <1>5, <3>1 DEF Moved
  <2>2. named.left >= 5
    <3>1. named.left = cur.left - (1 + idSize)
      BY <1>1, <1>6, <2>1
    <3> QED
      BY <1>1, <1>6, <3>1
  <2>3. CASE named.pos + 5 > cut
    BY <1>7, <2>2, <2>3
  <2>4. CASE named.pos + 5 <= cut
    <3>1. read.pos <= named.pos + 5 /\ read.pos \in Int
      BY <1>7, <2>4 DEF Moved, Cursor
    <3> QED
      BY <1>1, <1>6, <2>4, <3>1
  <2> QED
    BY <1>1, <1>6, <2>3, <2>4
<1> QED
  BY <1>2, <1>8, <1>9 DEF ItemRead

\* A heap type.
LEMMA InfoRead ==
  ASSUME Reading, NEW it \in ItemShape, it.kind = "info", NEW read, read = Reads(Sub, InfoOps)
  PROVE  ItemRead(cur, ItemBytes(it, idSize), TRUE, read, ValueAt(Sub, InfoOps, 1, it.len) = it.len, TRUE)
<1>1. idSize \in Nat \ {0}
  BY DEF Reading, Widths
<1>2. AreBytes(InfoOps, idSize + 4) /\ 1 \in 1..Len(InfoOps) /\ idSize + 4 \in Nat
  <2>1. AreBytes(InfoOps, idSize + 4) /\ Len(InfoOps) = 2
    BY <1>1, FixedParts
  <2> QED
    BY <1>1, <2>1
<1>3. ItemBytes(it, idSize) = 1 + (idSize + 4)
  BY KindSizes
<1>4. /\ read \in Cursor /\ Moved(cur, read, 1 + (idSize + 4))
      /\ ~read.err /\ read.pos <= cut => \A k \in 1..Len(InfoOps) : \A v : ValueAt(Sub, InfoOps, k, v) = v
  BY <1>2, HeadRead
<1>5. read.pos > cut /\ read.left = 0 /\ cur.left >= 1 + (idSize + 4) => cur.left = 1 + (idSize + 4)
  BY <1>1, <1>4, NoneLeft DEF Reading
<1> QED
  BY <1>2, <1>3, <1>4, <1>5 DEF ItemRead, Passed

\* A root.
LEMMA GcRootRead ==
  ASSUME Reading, NEW it \in ItemShape, it.kind \in DOMAIN RootInts \cup BareRoots,
         NEW ops, ops = RootOps(it.kind), NEW read, read = Reads(Sub, ops)
  PROVE  ItemRead(cur, ItemBytes(it, idSize), ~read.err, read,
                  (IF ops = <<>> THEN 0 ELSE ValueAt(Sub, ops, 1, it.id))
                    = (IF it.kind \in BareRoots THEN 0 ELSE it.id), TRUE)
<1>1. idSize \in Nat \ {0}
  BY DEF Reading, Widths
<1>2. PICK n : /\ AreBytes(ops, n) /\ ItemBytes(it, idSize) = 1 + n
               /\ IF it.kind \in BareRoots THEN ops = <<>> ELSE ops # <<>> /\ 1 \in 1..Len(ops)
  <2>1. CASE it.kind \in BareRoots
    <3>1. ops = <<>>
      BY <2>1 DEF RootOps
    <3>2. AreBytes(<<>>, 0)
      <4>1. <<>> \in Seq(Ops) /\ Len(<<>>) = 0
        BY EmptySeq
      <4>2. Added(OpSizes(<<>>), 0) = 0
        BY <1>1, <4>1, OpsAdded
      <4> QED
        BY <4>1, <4>2 DEF AreBytes
    <3> QED
      BY <2>1, <3>1, <3>2, KindSizes
  <2>2. CASE it.kind \notin BareRoots
    <3>1. it.kind \in DOMAIN RootInts
      BY <2>2
    <3>2. ops = <<"id">> \o [k \in 1..RootInts[it.kind] |-> "int"]
      BY <2>2 DEF RootOps
    <3>3. AreBytes(ops, idSize + 4 * RootInts[it.kind])
      BY <1>1, <3>1, <3>2, RootPart
    <3>4. ops # <<>> /\ 1 \in 1..Len(ops)
      <4>1. RootInts[it.kind] \in Nat
        BY <3>1 DEF RootInts
      <4>2. Len(ops) = 1 + RootInts[it.kind]
        BY <3>2, <4>1
      <4> QED
        BY <4>1, <4>2
    <3> QED
      BY <2>2, <3>1, <3>3, <3>4, KindSizes
  <2> QED
    BY <2>1, <2>2
<1>3. /\ read \in Cursor /\ Moved(cur, read, 1 + n)
      /\ ~read.err /\ read.pos <= cut => \A k \in 1..Len(ops) : \A v : ValueAt(Sub, ops, k, v) = v
      /\ cur.left >= 1 + n => ~read.err
  BY <1>2, HeadRead
<1>4. ~read.err /\ read.pos <= cut =>
        (IF ops = <<>> THEN 0 ELSE ValueAt(Sub, ops, 1, it.id)) = (IF it.kind \in BareRoots THEN 0 ELSE it.id)
  BY <1>2, <1>3
<1>5. read.pos > cut /\ read.left = 0 /\ cur.left >= 1 + n => cur.left = 1 + n
  <2>1. 1 + n \in Nat
    BY <1>2 DEF AreBytes
  <2> QED
    BY <1>3, <2>1, NoneLeft DEF Reading
<1> QED
  BY <1>2, <1>3, <1>4, <1>5 DEF ItemRead, Passed

\* A count behind what was read so far: 0, where it is not there.
LEMMA CountRead ==
  ASSUME NEW c \in Cursor, ~c.err, cut \in Int, NEW v, NEW r, r = Read(c, "short")
  PROVE  /\ Moved(c, r, 2) /\ r \in Cursor
         /\ r.err => Got(c, r, v) = 0 /\ r.left \in 0..1
         /\ ~r.err /\ r.pos > cut => Got(c, r, v) = 0
         /\ ~r.err /\ r.pos <= cut => Got(c, r, v) = v
<1>1. r = Fixed(c, 2)
  BY DEF Read
<1>2. Moved(c, r, 2)
  BY <1>1, FixedMoves
<1>3. c.pos \in Int /\ c.left \in Int /\ r \in Cursor /\ r.pos \in Int
  BY <1>2 DEF Moved, Cursor
<1>4. CASE c.left \in 0..(2 - 1)
  <2>1. r = [pos |-> c.pos, left |-> c.left, err |-> TRUE]
    BY <1>1, <1>4 DEF Fixed, Cursor
  <2>2. r.pos \notin (c.pos + 1)..cut
    BY <1>3, <2>1
  <2>3. r.err /\ r.left \in 0..1
    BY <1>4, <2>1
  <2>4. Got(c, r, v) = 0
    BY <2>2 DEF Got
  <2> QED
    BY <1>2, <1>3, <2>3, <2>4
<1>5. CASE c.left \notin 0..(2 - 1)
  <2>1. r = [pos |-> c.pos + 2, left |-> c.left - 2, err |-> c.err]
    BY <1>1, <1>5 DEF Fixed, Cursor
  <2>2. r.pos \in (c.pos + 1)..cut <=> r.pos <= cut
    BY <1>3, <2>1
  <2>3. r.pos > cut => ~(r.pos <= cut)
    BY <1>3
  <2> QED
    BY <1>2, <1>3, <2>1, <2>2, <2>3 DEF Got
<1> QED
  BY <1>4, <1>5

\* Nor is one where less than its bytes are left.
LEMMA NoCount ==
  ASSUME NEW c \in Cursor, c.left \in 0..1, NEW v, NEW r, r = Read(c, "short")
  PROVE  Moved(c, r, 2) /\ r \in Cursor /\ r.err /\ Got(c, r, v) = 0
<1>1. c.left \in 0..(2 - 1) /\ c.pos \in Int
  BY DEF Cursor
<1>2. r = [pos |-> c.pos, left |-> c.left, err |-> TRUE]
  BY <1>1 DEF Read, Fixed, Cursor
<1>3. r.pos \notin (c.pos + 1)..cut
  BY <1>1, <1>2
<1>4. r = Fixed(c, 2)
  BY DEF Read
<1>5. Moved(c, r, 2)
  BY <1>4, FixedMoves
<1> QED
  BY <1>2, <1>3, <1>5 DEF Got, Moved

\* What was collected of nothing.
LEMMA NothingCollected ==
  ASSUME Widths, NEW c \in Cursor, NEW fs \in Seq(FieldShape)
  PROVE  /\ Statics(c, fs, 0).out = "ok" /\ Statics(c, fs, 0).c = c /\ Statics(c, fs, 0).offset = 0
         /\ Fields(c, fs, 0).out = "ok" /\ Fields(c, fs, 0).c = c
<1>1. Statics(c, fs, 0) = Collected(c) /\ Fields(c, fs, 0) = Collected(c)
  BY StaticsSteps, FieldsSteps
<1> QED
  BY <1>1 DEF Collected

\* Reads that an error stopped, of an item with more bytes.
LEMMA MovedShort ==
  ASSUME NEW c \in Cursor, ~c.err, NEW d, NEW n \in Nat, NEW m \in Nat, n <= m, Moved(c, d, n), d.err
  PROVE  Moved(c, d, m)
<1>1. d \in Cursor
  BY DEF Moved
<1>2. c.pos \in Int /\ c.left \in Int /\ d.pos \in Int
  BY <1>1 DEF Cursor
<1>3. ~(c.left >= n) /\ d.pos < c.pos + n
  BY DEF Moved
<1>4. ~(c.left >= m) /\ d.pos < c.pos + m /\ d.pos <= c.pos + m
  BY <1>2, <1>3
<1> QED
  BY <1>4 DEF Moved

\* The three ends of an item that is not read whole, and that of one that is.
LEMMA Stopped ==
  ASSUME NEW c \in Cursor, ~c.err, NEW d, NEW n, NEW ok, NEW right, NEW late, Moved(c, d, n), d.err
  PROVE  ItemRead(c, n, ok, d, right, late) /\ Passed(c, d, n)
BY DEF ItemRead, Passed, Moved

\* Behind the end of the file.
LEMMA Behind ==
  ASSUME NEW c \in Cursor, ~c.err, cut \in Int, NEW d, NEW n \in Nat, NEW m \in Nat, n <= m, Moved(c, d, n), d.pos > cut,
         NEW ok, NEW right, NEW late, n = m => late
  PROVE  ItemRead(c, m, ok, d, right, late) /\ Passed(c, d, m)
<1>1. d \in Cursor /\ c.pos <= d.pos /\ d.pos <= c.pos + n
  BY DEF Moved
<1>2. c.pos \in Int /\ c.left \in Int /\ d.pos \in Int
  BY <1>1 DEF Cursor
<1>3. Passed(c, d, m)
  <2>1. d.pos <= c.pos + m
    BY <1>1, <1>2
  <2> QED
    BY <1>1, <2>1 DEF Passed
<1>4. ~(d.pos <= cut) /\ ~(c.pos + m <= cut)
  BY <1>1, <1>2
<1>5. ASSUME d.left = 0, c.left >= m PROVE late /\ c.left = m
  <2>1. c.left >= n
    BY <1>2, <1>5
  <2>2. c.left = n
    BY <1>5, <2>1, NoneLeft
  <2>3. n = m
    BY <1>2, <1>5, <2>2
  <2> QED
    BY <2>2, <2>3
<1> QED
  BY <1>3, <1>4, <1>5 DEF ItemRead

\* When bytes are left and before the cut, those behind the first m are.
LEMMA Rest ==
  ASSUME NEW c, NEW d, NEW m \in Int, NEW n \in Nat, c.pos \in Int, c.left \in Int, cut \in Int,
         d.pos = c.pos + m, d.left = c.left - m, c.left >= m + n, c.pos + (m + n) <= cut
  PROVE  d.left >= n /\ d.pos + n <= cut
OBVIOUS

\* The class that is written.
ClassOf(it) == Object(it.id, it.ref, it.len, SpecsTo(it.statics, Len(it.statics)), SpecsTo(it.fields, Len(it.fields)))

ClassFacts(it, dump, size) ==
  /\ dump.out \in {"ok", "fail", "abort"}
  /\ ItemRead(cur, size, dump.out = "ok", dump.c, dump.class = ClassOf(it), it.fields = <<>>)
  /\ dump.out = "fail" => /\ Passed(cur, dump.c, size) /\ dump.c.err
                          /\ cur.left >= size => dump.c.pos > cut /\ it.statics # <<>>
  /\ dump.copied # "inside" => ~(cur.left >= size)

\* What the parts of a class dump make of it.
ClassParts(it, head, counted, statics, fields) ==
  LET class == Object(ValueAt(Sub, ClassOps, 1, it.id), ValueAt(Sub, ClassOps, 3, it.ref),
                      ValueAt(Sub, ClassOps, 9, it.len), statics.specs, fields.specs)
      copied == Copied(counted.left, statics.offset)
  IN CASE head.err -> [out |-> "fail", c |-> head, copied |-> "inside", class |-> class]
       [] ~head.err /\ statics.out # "ok" -> [out |-> statics.out, c |-> statics.c, copied |-> copied, class |-> class]
       [] OTHER -> [out |-> fields.out, c |-> fields.c, copied |-> copied, class |-> class]

\* Of which the first that did not end well decides.
LEMMA PartsDecide ==
  ASSUME NEW it, NEW head, NEW counted, NEW statics, NEW fields, NEW dump,
         dump = ClassParts(it, head, counted, statics, fields),
         head.err \in BOOLEAN
  PROVE  /\ head.err => dump.out = "fail" /\ dump.c = head
         /\ ~head.err /\ statics.out # "ok" => dump.out = statics.out /\ dump.c = statics.c
         /\ ~head.err /\ statics.out = "ok" =>
              /\ dump.out = fields.out /\ dump.c = fields.c
              /\ dump.class = Object(ValueAt(Sub, ClassOps, 1, it.id), ValueAt(Sub, ClassOps, 3, it.ref),
                                     ValueAt(Sub, ClassOps, 9, it.len), statics.specs, fields.specs)
         /\ dump.copied # "inside" => ~head.err /\ Copied(counted.left, statics.offset) # "inside"
<1> DEFINE class == Object(ValueAt(Sub, ClassOps, 1, it.id), ValueAt(Sub, ClassOps, 3, it.ref),
                           ValueAt(Sub, ClassOps, 9, it.len), statics.specs, fields.specs)
<1> DEFINE copied == Copied(counted.left, statics.offset)
<1>1. dump = CASE head.err -> [out |-> "fail", c |-> head, copied |-> "inside", class |-> class]
              [] ~head.err /\ statics.out # "ok"
                   -> [out |-> statics.out, c |-> statics.c, copied |-> copied, class |-> class]
              [] OTHER -> [out |-> fields.out, c |-> fields.c, copied |-> copied, class |-> class]
  BY DEF ClassParts
<1> HIDE DEF class, copied
<1>2. CASE head.err
  <2>1. dump = [out |-> "fail", c |-> head, copied |-> "inside", class |-> class]
    BY <1>1, <1>2
  <2> QED
    BY <1>2, <2>1
<1>3. CASE ~head.err /\ statics.out # "ok"
  <2>1. dump = [out |-> statics.out, c |-> statics.c, copied |-> copied, class |-> class]
    BY <1>1, <1>3
  <2> QED
    BY <1>3, <2>1 DEF copied
<1>4. CASE ~head.err /\ statics.out = "ok"
  <2>1. dump = [out |-> fields.out, c |-> fields.c, copied |-> copied, class |-> class]
    BY <1>1, <1>4
  <2>2. dump.out = fields.out /\ dump.c = fields.c /\ dump.copied = copied /\ dump.class = class
    BY <2>1
  <2> QED
    BY <1>4, <2>2 DEF class, copied
<1> QED
  BY <1>2, <1>3, <1>4

\* The dump of a class, its static fields and those of its instances.
LEMMA ClassRead ==
  ASSUME Reading, NEW it \in ItemShape, it.kind = "class"
  PROVE  ClassFacts(it, ClassDump(it), ItemBytes(it, idSize))
<1> DEFINE head == Reads(Sub, ClassOps)
<1> DEFINE sc == Read(head, "short")
<1> DEFINE scount == Got(head, sc, Len(it.statics))
<1> DEFINE st == Statics(sc, it.statics, scount)
<1> DEFINE ct == Read(st.c, "short")
<1> DEFINE cnt == Got(st.c, ct, Len(it.fields))
<1> DEFINE fl == Fields(ct, it.fields, cnt)
<1> DEFINE dump == ClassDump(it)
<1> DEFINE a == Added(StaticBytes(it, idSize), Len(it.statics))
<1> DEFINE b == Len(it.fields) * (idSize + 1)
<1> DEFINE p == 1 + (7 * idSize + 10)
<1> DEFINE size == ItemBytes(it, idSize)
<1>1. idSize \in Nat \ {0} /\ cut \in Int /\ cur \in Cursor /\ ~cur.err /\ Widths
  BY DEF Reading, Widths
<1>2. /\ Len(it.statics) \in Nat /\ Len(it.fields) \in Nat
      /\ \A k \in 1..Len(it.statics) : StaticBytes(it, idSize)[k] \in Nat
      /\ it.statics \in Seq(FieldShape) /\ it.fields \in Seq(FieldShape)
  BY <1>1, ItemSize DEF ItemShape
<1>3. a \in Nat /\ b \in Nat /\ p \in Nat /\ size = p + 2 + a + 2 + b /\ (b = 0 => it.fields = <<>>)
  <2>1. a \in Nat
    <3>1. Len(it.statics) \in 0..Len(it.statics)
      BY <1>2
    <3> QED
      BY <1>2, <3>1, AddedSteps
  <2>2. b \in Nat /\ (b = 0 => Len(it.fields) = 0)
    <3>1. idSize + 1 \in Nat \ {0} /\ idSize + 1 \in Nat
      BY <1>1
    <3> QED
      BY <1>2, <3>1, Product, NoProduct
  <2>3. size = 1 + (7 * idSize + 14 + a + b)
    BY KindSizes
  <2>4. Len(it.fields) = 0 => it.fields = <<>>
    BY <1>2
  <2> HIDE DEF a, b, size
  <2> QED
    BY <1>1, <2>1, <2>2, <2>3, <2>4
<1>4. dump = ClassParts(it, head, sc, st, fl)
  BY DEF ClassDump, ClassParts
<1>5. /\ head \in Cursor /\ Moved(cur, head, p)
      /\ ~head.err /\ head.pos <= cut => \A k \in 1..Len(ClassOps) : \A v : ValueAt(Sub, ClassOps, k, v) = v
      /\ Len(ClassOps) = 10
  BY <1>1, HeadRead, ClassPart
<1> HIDE DEF head, dump, a, b, p, size
<1>6. head.err \in BOOLEAN /\ cur.pos \in Int /\ cur.left \in Int /\ head.pos \in Int
  BY <1>1, <1>5 DEF Cursor
<1>7. /\ head.err => dump.out = "fail" /\ dump.c = head
      /\ ~head.err /\ st.out # "ok" => dump.out = st.out /\ dump.c = st.c
      /\ ~head.err /\ st.out = "ok" =>
           /\ dump.out = fl.out /\ dump.c = fl.c
           /\ dump.class = Object(ValueAt(Sub, ClassOps, 1, it.id), ValueAt(Sub, ClassOps, 3, it.ref),
                                  ValueAt(Sub, ClassOps, 9, it.len), st.specs, fl.specs)
      /\ dump.copied # "inside" => ~head.err /\ Copied(sc.left, st.offset) # "inside"
  <2> HIDE DEF st, fl
  <2> QED
    BY <1>4, <1>6, PartsDecide
<1>8. CASE head.err
  <2>1. Moved(cur, head, size)
    <3>1. size \in Nat /\ p <= size
      BY <1>3
    <3> QED
      BY <1>1, <1>3, <1>5, <1>8, <3>1, MovedShort
  <2>2. dump.out = "fail" /\ dump.c = head
    BY <1>7, <1>8
  <2>3. ItemRead(cur, size, dump.out = "ok", dump.c, dump.class = ClassOf(it), it.fields = <<>>) /\ Passed(cur, dump.c, size)
    BY <1>1, <1>8, <2>1, <2>2, Stopped
  <2>4. ~(cur.left >= size)
    BY <1>1, <1>8, <2>1 DEF Moved
  <2> QED
    BY <1>8, <2>2, <2>3, <2>4 DEF ClassFacts, dump, size
<1>9. /\ Moved(head, sc, 2) /\ sc \in Cursor /\ sc.pos \in Int /\ sc.left \in Int
      /\ ~head.err => /\ sc.err => scount = 0 /\ sc.left \in 0..1
                      /\ ~sc.err /\ sc.pos > cut => scount = 0
                      /\ ~sc.err /\ sc.pos <= cut => scount = Len(it.statics)
  <2>1. Moved(head, sc, 2) /\ sc \in Cursor
    BY <1>5, FixedMoves DEF Read, Moved
  <2>2. ~head.err => /\ sc.err => scount = 0 /\ sc.left \in 0..1
                     /\ ~sc.err /\ sc.pos > cut => scount = 0
                     /\ ~sc.err /\ sc.pos <= cut => scount = Len(it.statics)
    BY <1>1, <1>5, CountRead
  <2> QED
    BY <2>1, <2>2 DEF Cursor
<1>10. Moved(cur, sc, p + 2) /\ p + 2 \in Nat
  BY <1>1, <1>3, <1>5, <1>9, MovedOn
<1> HIDE DEF sc, scount
<1>11. scount = 0 => st.out = "ok" /\ st.c = sc /\ st.offset = 0
  BY <1>1, <1>2, <1>9, NothingCollected
<1>12. CASE ~head.err /\ (sc.err \/ sc.pos > cut)
  <2>1. st.out = "ok" /\ st.c = sc /\ dump.copied = "inside"
    <3>1. st.out = "ok" /\ st.c = sc /\ st.offset = 0
      BY <1>6, <1>9, <1>11, <1>12
    <3> QED
      BY <1>7, <3>1 DEF Copied
  <2>2. ct \in Cursor /\ Moved(sc, ct, 2) /\ cnt = 0 /\ (ct.err \/ ct.pos > cut)
    <3>1. ct = Read(sc, "short") /\ cnt = Got(sc, ct, Len(it.fields))
      BY <2>1
    <3>2. CASE sc.err
      BY <1>9, <1>12, <3>1, <3>2, NoCount
    <3>3. CASE ~sc.err
      <4>1. /\ Moved(sc, ct, 2) /\ ct \in Cursor
            /\ ct.err => cnt = 0
            /\ ~ct.err /\ ct.pos > cut => cnt = 0
        BY <1>1, <1>9, <3>1, <3>3, CountRead
      <4>2. ct.pos > cut
        <5>1. sc.pos > cut /\ sc.pos <= ct.pos /\ ct.pos \in Int
          BY <1>12, <3>3, <4>1 DEF Moved, Cursor
        <5> QED
          BY <1>1, <1>9, <5>1
      <4> QED
        BY <4>1, <4>2
    <3> QED
      BY <3>2, <3>3
  <2>3. fl.out = "ok" /\ fl.c = ct
    <3>1. fl = Fields(ct, it.fields, 0)
      BY <2>2
    <3> QED
      BY <1>1, <1>2, <2>2, <3>1, NothingCollected
  <2> HIDE DEF st, ct, cnt, fl
  <2>4. dump.out = "ok" /\ dump.c = ct
    BY <1>7, <1>12, <2>1, <2>3
  <2>5. Moved(cur, ct, (p + 2) + 2)
    BY <1>1, <1>9, <1>10, <2>2, MovedOn
  <2>6. (p + 2) + 2 \in Nat /\ size \in Nat /\ (p + 2) + 2 <= size
        /\ ((p + 2) + 2 = size => it.fields = <<>>)
    BY <1>3
  <2>7. CASE ct.err
    <3>1. Moved(cur, ct, size)
      BY <1>1, <2>5, <2>6, <2>7, MovedShort
    <3>2. ItemRead(cur, size, dump.out = "ok", dump.c, dump.class = ClassOf(it), it.fields = <<>>)
      BY <1>1, <2>4, <2>7, <3>1, Stopped
    <3> QED
      BY <2>1, <2>4, <3>2 DEF ClassFacts, dump, size
  <2>8. CASE ct.pos > cut
    <3>1. ItemRead(cur, size, dump.out = "ok", dump.c, dump.class = ClassOf(it), it.fields = <<>>)
      BY <1>1, <2>4, <2>5, <2>6, <2>8, Behind
    <3> QED
      BY <2>1, <2>4, <3>1 DEF ClassFacts, dump, size
  <2> QED
    BY <2>2, <2>7, <2>8
<1>13. CASE ~head.err /\ ~sc.err /\ sc.pos <= cut
  <2>1. scount = Len(it.statics)
    BY <1>9, <1>13
  <2>2. FieldsRead(sc, it.statics, Len(it.statics), st, a, TRUE)
    <3>1. Len(it.statics) \in 0..Len(it.statics)
      BY <1>2
    <3> QED
      BY <1>1, <1>9, <2>1, <3>1, StaticsRead DEF a
  <2> HIDE DEF st
  <2>3. /\ st \in Acc /\ st.out \in {"ok", "abort", "fail"} /\ st.c \in Cursor
        /\ st.out = "ok" => /\ Moved(sc, st.c, a) /\ ~st.c.err
                            /\ st.specs = SpecsTo(it.statics, Len(it.statics))
        /\ st.out = "fail" => Overrun(sc, st.c, a)
        /\ sc.left >= a /\ sc.pos + a <= cut => st.out = "ok"
    <3>1. st \in Acc /\ st.out \in {"ok", "abort", "fail"} /\ st.c \in Cursor
      BY <2>2 DEF FieldsRead, Acc
    <3> QED
      BY <1>13, <2>2, <3>1 DEF FieldsRead
  <2>a. sc.pos = cur.pos + (p + 2) /\ sc.pos + sc.left = cur.pos + cur.left
    BY <1>10, <1>13 DEF Moved
  <2>b. sc.left = cur.left - (p + 2)
    <3>1. p + 2 \in Int
      BY <1>3
    <3> QED
      BY <1>6, <1>9, <2>a, <3>1, Shift, Zenon
  <2>c. dump.copied # "inside" => ~(cur.left >= size)
    <3> SUFFICES ASSUME cur.left >= size PROVE dump.copied = "inside"
      OBVIOUS
    <3>1. sc.left >= a
      BY <1>3, <1>6, <1>9, <2>b
    <3>2. st.offset \in Nat /\ st.offset <= a
      BY <2>2 DEF FieldsRead, Acc
    <3>3. st.offset <= sc.left
      BY <1>3, <1>9, <3>1, <3>2
    <3> QED
      BY <1>7, <3>3 DEF Copied
  <2>4. st.out # "ok" => ~(cur.left >= size /\ cur.pos + size <= cut)
    <3> SUFFICES ASSUME cur.left >= size, cur.pos + size <= cut PROVE sc.left >= a /\ sc.pos + a <= cut
      BY <2>3
    <3>3. p + 2 \in Int /\ a \in Nat /\ cur.left >= (p + 2) + a /\ cur.pos + ((p + 2) + a) <= cut
      BY <1>1, <1>3, <1>6
    <3> QED
      BY <1>1, <1>6, <1>9, <2>a, <2>b, <3>3, Rest
  <2>5. CASE st.out = "abort"
    <3>1. dump.out = "abort"
      BY <1>7, <1>13, <2>5
    <3> QED
      BY <2>c, <2>4, <2>5, <3>1 DEF ClassFacts, ItemRead, dump, size
  <2>6. CASE st.out = "fail"
    <3>1. dump.out = "fail" /\ dump.c = st.c
      BY <1>7, <1>13, <2>6
    <3>2. st.c \in Cursor /\ st.c.err /\ st.c.pos > cut /\ sc.pos <= st.c.pos /\ st.c.pos <= sc.pos + a
      BY <2>3, <2>6 DEF Overrun
    <3>3. cur.pos <= sc.pos /\ sc.pos <= cur.pos + (p + 2)
      BY <1>10 DEF Moved
    <3>4. cur.pos <= st.c.pos /\ st.c.pos <= cur.pos + size
      <4>1. st.c.pos \in Int
        BY <2>3 DEF Cursor
      <4> QED
        BY <1>3, <1>6, <1>9, <3>2, <3>3, <4>1
    <3>5. Passed(cur, st.c, size)
      BY <3>2, <3>4 DEF Passed
    <3>6. it.statics # <<>>
      <4> SUFFICES ASSUME it.statics = <<>> PROVE FALSE
        OBVIOUS
      <4>1. scount = 0
        BY <2>1
      <4> QED
        BY <1>11, <2>6, <4>1 DEF st
    <3> QED
      BY <2>c, <2>4, <2>6, <3>1, <3>2, <3>5, <3>6 DEF ClassFacts, ItemRead, dump, size
  <2>7. CASE st.out = "ok"
    <3>1. Moved(cur, st.c, (p + 2) + a) /\ (p + 2) + a \in Nat
      BY <1>1, <1>3, <1>9, <1>10, <2>3, <2>7, MovedOn
    <3>2. /\ Moved(st.c, ct, 2) /\ ct \in Cursor
          /\ ct.err => cnt = 0
          /\ ~ct.err /\ ct.pos > cut => cnt = 0
          /\ ~ct.err /\ ct.pos <= cut => cnt = Len(it.fields)
      BY <1>1, <2>3, <2>7, CountRead
    <3> HIDE DEF ct, cnt
    <3> DEFINE q == ((p + 2) + a) + 2
    <3>3. Moved(cur, ct, q) /\ q \in Nat
      BY <1>1, <2>3, <3>1, <3>2, MovedOn
    <3>4. size = q + b /\ size \in Nat /\ q <= size /\ (q = size => it.fields = <<>>)
      BY <1>3
    <3> HIDE DEF q
    <3>5. ct.pos \in Int /\ ct.left \in Int /\ ct.err \in BOOLEAN
      BY <3>2 DEF Cursor
    <3>6. cnt = 0 => fl.out = "ok" /\ fl.c = ct
      BY <1>1, <1>2, <3>2, NothingCollected
    <3>7. CASE ct.err
      <4> HIDE DEF fl
      <4>1. dump.out = "ok" /\ dump.c = ct
        BY <1>7, <1>13, <2>7, <3>2, <3>6, <3>7
      <4>2. Moved(cur, ct, size)
        BY <1>1, <3>3, <3>4, <3>7, MovedShort
      <4>3. ItemRead(cur, size, dump.out = "ok", dump.c, dump.class = ClassOf(it), it.fields = <<>>)
        BY <1>1, <3>7, <4>1, <4>2, Stopped
      <4> QED
        BY <2>c, <4>1, <4>3 DEF ClassFacts, dump, size
    <3>8. CASE ~ct.err /\ ct.pos > cut
      <4> HIDE DEF fl
      <4>1. dump.out = "ok" /\ dump.c = ct
        BY <1>7, <1>13, <2>7, <3>2, <3>6, <3>8
      <4>2. ItemRead(cur, size, dump.out = "ok", dump.c, dump.class = ClassOf(it), it.fields = <<>>)
        BY <1>1, <3>3, <3>4, <3>8, <4>1, Behind
      <4> QED
        BY <2>c, <4>1, <4>2 DEF ClassFacts, dump, size
    <3>9. CASE ~ct.err /\ ct.pos <= cut
      <4>1. FieldsRead(ct, it.fields, Len(it.fields), fl, b, FALSE)
        <5>1. Len(it.fields) \in 0..Len(it.fields) /\ cnt = Len(it.fields)
          BY <1>2, <3>2, <3>9
        <5> QED
          BY <1>1, <3>2, <5>1, InstanceFieldsRead DEF b
      <4> HIDE DEF fl
      <4>2. /\ fl.out \in {"ok", "abort", "fail"}
            /\ fl.out = "ok" => /\ Moved(ct, fl.c, b) /\ fl.c.pos <= cut
                                /\ fl.specs = SpecsTo(it.fields, Len(it.fields))
            /\ fl.out = "fail" => Moved(ct, fl.c, b) /\ fl.c.err
            /\ ct.left >= b /\ ct.pos + b <= cut => fl.out = "ok"
        <5>1. fl \in Acc /\ fl.out \in {"ok", "abort", "fail"}
          BY <4>1 DEF FieldsRead, Acc
        <5> QED
          BY <3>9, <4>1, <5>1 DEF FieldsRead
      <4>3. dump.out = fl.out /\ dump.c = fl.c
            /\ dump.class = Object(ValueAt(Sub, ClassOps, 1, it.id), ValueAt(Sub, ClassOps, 3, it.ref),
                                   ValueAt(Sub, ClassOps, 9, it.len), st.specs, fl.specs)
        BY <1>7, <1>13, <2>7
      <4>4. fl.out # "ok" => ~(cur.left >= size /\ cur.pos + size <= cut)
        <5> SUFFICES ASSUME cur.left >= size, cur.pos + size <= cut PROVE ct.left >= b /\ ct.pos + b <= cut
          BY <4>2
        <5>1. ct.pos = cur.pos + q /\ ct.pos + ct.left = cur.pos + cur.left
          BY <3>3, <3>9 DEF Moved
        <5>2. ct.left = cur.left - q
          <6>1. q \in Int
            BY <3>3
          <6> QED
            BY <1>6, <3>5, <5>1, <6>1, Shift, Zenon
        <5>3. q \in Int /\ b \in Nat /\ cur.left >= q + b /\ cur.pos + (q + b) <= cut
          BY <1>3, <3>3, <3>4
        <5> QED
          BY <1>1, <1>6, <3>5, <5>1, <5>2, <5>3, Rest
      <4>5. CASE fl.out = "abort"
        BY <2>c, <4>3, <4>4, <4>5 DEF ClassFacts, ItemRead, dump, size
      <4>6. fl.out # "abort" => Moved(cur, fl.c, q + b)
        BY <1>1, <1>3, <3>2, <3>3, <4>2, MovedOn
      <4>7. CASE fl.out = "fail"
        <5>1. ItemRead(cur, size, dump.out = "ok", dump.c, dump.class = ClassOf(it), it.fields = <<>>)
              /\ Passed(cur, dump.c, size)
          BY <1>1, <3>4, <4>2, <4>3, <4>6, <4>7, Stopped
        <5>2. ~(cur.left >= size)
          BY <1>1, <3>4, <4>2, <4>6, <4>7 DEF Moved
        <5> QED
          BY <2>c, <4>2, <4>3, <4>7, <5>1, <5>2 DEF ClassFacts, dump, size
      <4>8. CASE fl.out = "ok"
        <5>1. Passed(cur, dump.c, size) /\ fl.c.pos \in Int
          BY <3>4, <4>2, <4>3, <4>6, <4>8 DEF Passed, Moved, Cursor
        <5>2. ~(fl.c.pos > cut)
          BY <1>1, <4>2, <4>8, <5>1
        <5>3. dump.class = ClassOf(it)
          <6>1. head.pos <= cut
            <7>1. head.pos <= sc.pos
              BY <1>9 DEF Moved
            <7> QED
              BY <1>1, <1>6, <1>9, <1>13, <7>1
          <6>2. 1 \in 1..Len(ClassOps) /\ 3 \in 1..Len(ClassOps) /\ 9 \in 1..Len(ClassOps)
            BY <1>5
          <6>3. /\ ValueAt(Sub, ClassOps, 1, it.id) = it.id /\ ValueAt(Sub, ClassOps, 3, it.ref) = it.ref
                /\ ValueAt(Sub, ClassOps, 9, it.len) = it.len
            BY <1>5, <1>13, <6>1, <6>2
          <6> QED
            BY <2>3, <2>7, <4>2, <4>3, <4>8, <6>3 DEF ClassOf
        <5> QED
          BY <2>c, <4>3, <4>8, <5>1, <5>2, <5>3 DEF ClassFacts, ItemRead, dump, size
      <4> QED
        BY <4>2, <4>5, <4>7, <4>8
    <3> QED
      BY <1>1, <3>5, <3>7, <3>8, <3>9
  <2> QED
    BY <2>3, <2>5, <2>6, <2>7
<1> QED
  BY <1>1, <1>6, <1>8, <1>9, <1>12, <1>13

-------------------------------------------------------------------------------
(* Where the cursor is, between the records and in them.  Nothing here is about what *)
(* was read; it holds for any declared sizes and any cut.                            *)

Count == Len(file.records)
Start == RecordStart(file, rec)
NextStart == RecordStart(file, rec + 1)

\* The file is whole, its declared sizes are right, its records are known.
Intact == Complete /\ Truthful /\ Supported

\* The segments before record n have the size they declare.
SegmentsTrue(n) == \A m \in Indices("HEAP_DUMP_SEGMENT") : m < n => file.records[m].lie = 0

\* The file may end here and be accepted.
MayEnd == Complete \/ AcceptedCut

\* Before a header: that of record n, or it is the middle of something, or the file has
\* ended.
HeaderPlaced(n, c) ==
  \/ c.pos = RecordStart(file, n) /\ c.pos <= cut /\ SegmentsTrue(n)
  \/ c.pos < cut /\ (n > Count \/ c.pos # RecordStart(file, n)) /\ ~Intact
  \/ c.pos >= cut /\ SegmentsTrue(n) /\ ~Intact /\ MayEnd

\* Behind the header of record n.
BodyPlaced(n, c) ==
  /\ n <= Count /\ SegmentsTrue(n) /\ ~c.err
  /\ c.pos = RecordStart(file, n) + 9 /\ c.pos <= cut
  /\ c.left = BodyBytes(file.records[n], file.idSize) + file.records[n].lie

\* What is left of section n ends where its header says.
Ends(n, c) == c.pos + c.left = RecordStart(file, n + 1) + file.records[n].lie

\* In the heap dump segment n, before its item k; or where less was left than an item
\* has; or behind the end of the file.
SegmentPlaced(n, k, c) ==
  /\ n <= Count /\ SegmentsTrue(n) /\ file.records[n].tag = "HEAP_DUMP_SEGMENT"
  /\ k \in 1..(Len(file.records[n].items) + 1)
  /\ \/ ~c.err /\ c.pos = ItemStart(file, n, k) /\ c.pos <= cut /\ Ends(n, c)
     \/ /\ c.err /\ RecordStart(file, n) < c.pos /\ c.pos < RecordStart(file, n + 1) /\ Ends(n, c)
        /\ file.records[n].lie # 0
     \/ c.pos > cut /\ c.pos <= RecordStart(file, n + 1) /\ (c.left = 0 => AcceptedCut)

\* What seg is made of.
SegShape == seg = [item |-> seg.item, heapType |-> seg.heapType, mark |-> seg.mark]

Given ==
  /\ file \in Files /\ cut \in Nat /\ cut <= FileBytes(file) /\ (Truthful \/ Complete)
  /\ cur \in Cursor /\ rec \in 1..(Count + 1)
  /\ stage = "start" => rec = 1 /\ cur.pos = 0 /\ cur.left = 0 /\ cur.err = FALSE
  /\ stage \in {"header", "body", "segment", "loaded"} => idSize = file.idSize /\ idSize \in Nat \ {0}

PlaceInv ==
  /\ Given
  /\ stage = "header" => HeaderPlaced(rec, cur)
  /\ stage = "body" => BodyPlaced(rec, cur)
  /\ stage = "segment" => SegmentPlaced(rec, seg.item, cur) /\ SegShape
  /\ stage = "loaded" => SegmentsTrue(rec) /\ MayEnd /\ (Intact => rec = Count + 1)
  /\ stage \in {"error", "aborted", "astray"} => ~Intact

\* The record that is being read.
LEMMA InRecord ==
  ASSUME Given, rec <= Count
  PROVE  /\ file \in Files /\ rec \in 1..Count /\ rec + 1 \in 1..(Count + 1) /\ Count \in Nat
         /\ Record \in RecordShape /\ file.idSize \in Nat
         /\ Record.lie \in Int /\ Record.len \in Nat /\ Record.items \in Seq(ItemShape)
         /\ Start \in Nat /\ NextStart \in Nat /\ BodyBytes(Record, file.idSize) \in Nat
         /\ NextStart = Start + 9 + BodyBytes(Record, file.idSize)
         /\ cut \in Nat /\ cut <= FileBytes(file) /\ NextStart <= FileBytes(file)
         /\ Complete => NextStart <= cut
         /\ Truthful => Record.lie = 0
         /\ Record.tag = "UTF8_STRING" => Record.len + Record.lie >= 0
<1>1. /\ file \in Files /\ rec \in 1..(Count + 1) /\ cut \in Nat /\ cut <= FileBytes(file)
  BY DEF Given
<1>2. /\ Count \in Nat /\ DOMAIN file.records = 1..Count /\ file.idSize \in Nat
      /\ \A n \in 1..Count : /\ file.records[n] \in RecordShape
                             /\ file.records[n].tag = "UTF8_STRING" => file.records[n].len + file.records[n].lie >= 0
  BY <1>1, FileShape DEF Count
<1>3. rec \in 1..Count /\ rec + 1 \in 1..(Count + 1) /\ rec \in 1..(Count + 1) /\ Count + 1 \in 1..(Count + 1)
      /\ rec + 1 <= Count + 1
  BY <1>1, <1>2
<1>4. Record \in RecordShape /\ (Record.tag = "UTF8_STRING" => Record.len + Record.lie >= 0)
  BY <1>2, <1>3 DEF Record
<1>5. Record.lie \in Int /\ Record.len \in Nat /\ Record.items \in Seq(ItemShape)
  BY <1>4, Numbers DEF RecordShape
<1>6. /\ \A n \in 1..(Count + 1) : RecordStart(file, n) \in Nat
      /\ \A n \in 1..Count :
           /\ BodyBytes(file.records[n], file.idSize) \in Nat
           /\ RecordStart(file, n + 1) = RecordStart(file, n) + 9 + BodyBytes(file.records[n], file.idSize)
      /\ \A n, m \in 1..(Count + 1) : n <= m => RecordStart(file, n) <= RecordStart(file, m)
      /\ FileBytes(file) = RecordStart(file, Count + 1)
  BY <1>1, RecordsTiled DEF Count
<1>7. Start \in Nat /\ NextStart \in Nat /\ BodyBytes(Record, file.idSize) \in Nat
      /\ NextStart = Start + 9 + BodyBytes(Record, file.idSize)
  BY <1>3, <1>6 DEF Start, NextStart, Record
<1>8. NextStart <= FileBytes(file)
  BY <1>3, <1>6 DEF NextStart
<1>9. Complete => NextStart <= cut
  BY <1>8 DEF Complete
<1>10. Truthful => Record.lie = 0
  BY <1>2, <1>3 DEF Truthful, Record
<1> QED
  BY <1>1, <1>2, <1>3, <1>4, <1>5, <1>7, <1>8, <1>9, <1>10

\* Records before the next one.
LEMMA SegmentsBefore ==
  ASSUME Given, rec <= Count, SegmentsTrue(rec), Record.tag = "HEAP_DUMP_SEGMENT" => Record.lie = 0
  PROVE  SegmentsTrue(rec + 1)
<1>1. rec \in Nat /\ \A m \in DOMAIN file.records : m \in Nat
  <2>1. file \in Files /\ rec \in 1..Count
    BY InRecord
  <2>2. DOMAIN file.records = 1..Len(file.records) /\ Len(file.records) \in Nat
    BY <2>1, FileShape
  <2> QED
    BY <2>1, <2>2 DEF Count
<1>2. \A m \in DOMAIN file.records : m < rec + 1 => m < rec \/ m = rec
  BY <1>1
<1> QED
  BY <1>2 DEF SegmentsTrue, Indices, Record

\* What is said of the file stays true of it.
LEMMA SameFile ==
  ASSUME UNCHANGED input
  PROVE  /\ Intact' = Intact /\ MayEnd' = MayEnd /\ AcceptedCut' = AcceptedCut
         /\ Truthful' = Truthful /\ Complete' = Complete /\ Count' = Count
         /\ file' = file /\ cut' = cut
<1>1. file' = file /\ cut' = cut
  BY DEF input
<1>2. Complete' = Complete /\ Truthful' = Truthful /\ Count' = Count
  BY <1>1 DEF Complete, Truthful, Count
<1>3. Supported' = Supported
  BY <1>1 DEF Supported
<1>4. AcceptedCut' = AcceptedCut
  BY <1>1 DEF AcceptedCut, Indices, CutIn
<1> QED
  BY <1>1, <1>2, <1>3, <1>4 DEF Intact, MayEnd

\* The next states, by the stage they are in.
LEMMA ToHeader ==
  ASSUME Given, UNCHANGED input, stage' = "header", idSize' = file.idSize, idSize' \in Nat \ {0},
         rec' \in 1..(Count + 1), cur' \in Cursor, HeaderPlaced(rec', cur')
  PROVE  PlaceInv'
<1>1. /\ Intact' = Intact /\ MayEnd' = MayEnd /\ AcceptedCut' = AcceptedCut
      /\ Truthful' = Truthful /\ Complete' = Complete /\ Count' = Count
      /\ file' = file /\ cut' = cut
  BY SameFile
<1>2. Given'
  BY <1>1 DEF Given
<1>3. HeaderPlaced(rec, cur)'
  BY <1>1 DEF HeaderPlaced, SegmentsTrue, Indices
<1> QED
  BY <1>2, <1>3 DEF PlaceInv

\* A record is read next.
LEMMA ToBody ==
  ASSUME Given, UNCHANGED input, stage' = "body", idSize' = file.idSize, idSize' \in Nat \ {0},
         rec' \in 1..(Count + 1), cur' \in Cursor, BodyPlaced(rec', cur')
  PROVE  PlaceInv'
<1>1. /\ Intact' = Intact /\ MayEnd' = MayEnd /\ AcceptedCut' = AcceptedCut
      /\ Truthful' = Truthful /\ Complete' = Complete /\ Count' = Count
      /\ file' = file /\ cut' = cut
  BY SameFile
<1>2. Given'
  BY <1>1 DEF Given
<1>3. BodyPlaced(rec, cur)'
  BY <1>1 DEF BodyPlaced, SegmentsTrue, Indices
<1> QED
  BY <1>2, <1>3 DEF PlaceInv

\* An item is read next.
LEMMA ToSegment ==
  ASSUME Given, UNCHANGED input, stage' = "segment", idSize' = file.idSize, idSize' \in Nat \ {0},
         rec' \in 1..(Count + 1), cur' \in Cursor, SegmentPlaced(rec', seg'.item, cur'), SegShape'
  PROVE  PlaceInv'
<1>1. /\ Intact' = Intact /\ MayEnd' = MayEnd /\ AcceptedCut' = AcceptedCut
      /\ Truthful' = Truthful /\ Complete' = Complete /\ Count' = Count
      /\ file' = file /\ cut' = cut
  BY SameFile
<1>2. Given'
  BY <1>1 DEF Given
<1>3. SegmentPlaced(rec, seg.item, cur)'
  BY <1>1 DEF SegmentPlaced, SegmentsTrue, Indices, Ends
<1> QED
  BY <1>2, <1>3 DEF PlaceInv

\* The reader has stopped.
LEMMA ToEnd ==
  ASSUME Given, UNCHANGED <<input, rec, cur>>, stage' \in {"error", "aborted", "astray"}, ~Intact
  PROVE  PlaceInv'
<1>1. /\ Intact' = Intact /\ Truthful' = Truthful /\ Complete' = Complete /\ Count' = Count
      /\ file' = file /\ cut' = cut /\ rec' = rec /\ cur' = cur
  BY SameFile
<1>2. Given'
  BY <1>1 DEF Given
<1> QED
  BY <1>1, <1>2 DEF PlaceInv

\* Where a record was read whole, or ended behind the end of the file.
LEMMA RecordPassed ==
  ASSUME Given, rec <= Count, SegmentsTrue(rec), Record.tag = "HEAP_DUMP_SEGMENT" => Record.lie = 0,
         NEW d \in Cursor,
         \/ d.pos = NextStart
         \/ cut < d.pos /\ d.pos <= NextStart /\ AcceptedCut,
         d.pos = NextStart /\ d.pos > cut => AcceptedCut
  PROVE  HeaderPlaced(rec + 1, d)
<1>1. SegmentsTrue(rec + 1)
  BY SegmentsBefore
<1>2. cut \in Nat /\ NextStart \in Nat /\ d.pos \in Int /\ (Complete => NextStart <= cut)
  BY InRecord DEF Cursor
<1>3. CASE d.pos <= cut
  <2>1. d.pos = NextStart
    BY <1>2, <1>3
  <2> QED
    BY <1>1, <1>3, <2>1 DEF HeaderPlaced, NextStart
<1>4. CASE d.pos > cut
  <2>1. ~Complete /\ d.pos >= cut /\ AcceptedCut
    BY <1>2, <1>4
  <2> QED
    BY <1>1, <2>1 DEF HeaderPlaced, Intact, MayEnd
<1> QED
  BY <1>2, <1>3, <1>4

\* Where the reader leaves a record that does not end where its header says.
LEMMA RecordLeft ==
  ASSUME Given, rec <= Count, SegmentsTrue(rec), NEW d \in Cursor, d.pos < cut, d.pos # NextStart, ~Intact
  PROVE  HeaderPlaced(rec + 1, d)
BY DEF HeaderPlaced, NextStart

\* What an intact file has at the record that is being read.
LEMMA IntactRecord ==
  ASSUME Given, rec <= Count, Intact
  PROVE  /\ Record.lie = 0 /\ NextStart <= cut /\ file.idSize \in {4, 8}
         /\ Record.tag \in {"UTF8_STRING", "LOAD_CLASS", "STACK_FRAME", "STACK_TRACE",
                            "HEAP_DUMP_SEGMENT", "HEAP_DUMP_END"}
         /\ Record.tag = "UTF8_STRING" => Record.id # 0 /\ Record.len > 0
         /\ Record.tag = "HEAP_DUMP_END" => Record.len = 0
         /\ \A k \in DOMAIN Record.items :
              Record.items[k].kind \in ObjectKinds \cup BareRoots \cup DOMAIN RootInts \cup {"nodata", "info"}
<1>1. rec \in DOMAIN file.records
  <2>1. DOMAIN file.records = 1..Count
    BY FileShape DEF Given, Count
  <2> QED
    BY <2>1, InRecord
<1> QED
  BY <1>1, InRecord DEF Intact, Supported, Record

\* A record that ends where its header says, whether that is where it ends or not.
LEMMA DeclaredEnd ==
  ASSUME Given, rec <= Count, SegmentsTrue(rec), Record.tag # "HEAP_DUMP_SEGMENT",
         NEW d \in Cursor, d.pos = NextStart + Record.lie, d.pos <= cut
  PROVE  HeaderPlaced(rec + 1, d)
<1>1. cut \in Nat /\ NextStart \in Nat /\ d.pos \in Int /\ Record.lie \in Int
  BY InRecord DEF Cursor
<1>2. CASE Record.lie = 0
  <2>1. d.pos = NextStart /\ ~(d.pos > cut)
    BY <1>1, <1>2
  <2> QED
    BY <2>1, RecordPassed
<1>3. CASE Record.lie # 0
  <2>1. ~Truthful /\ ~Intact /\ d.pos # NextStart
    <3>1. ~Truthful
      BY <1>3, InRecord
    <3>2. NextStart + Record.lie # NextStart
      BY <1>1, <1>3
    <3> QED
      BY <3>1, <3>2 DEF Intact
  <2>2. CASE d.pos < cut
    BY <2>1, <2>2, RecordLeft
  <2>3. CASE d.pos = cut
    <3>1. Complete /\ SegmentsTrue(rec + 1) /\ d.pos >= cut
      BY <1>1, <2>1, <2>3, SegmentsBefore DEF Given
    <3> QED
      BY <2>1, <3>1 DEF HeaderPlaced, MayEnd
  <2> QED
    BY <1>1, <2>2, <2>3
<1> QED
  BY <1>2, <1>3

\* Behind a header.
LEMMA InBody ==
  ASSUME PlaceInv, stage = "body"
  PROVE  /\ Given /\ rec <= Count /\ SegmentsTrue(rec) /\ cur \in Cursor /\ ~cur.err
         /\ cur.pos = Start + 9 /\ cur.pos <= cut /\ cur.left = BodyBytes(Record, idSize) + Record.lie
         /\ cur.pos \in Nat /\ cur.left \in Int /\ idSize \in Nat \ {0} /\ idSize = file.idSize /\ cut \in Nat
         /\ NextStart = cur.pos + BodyBytes(Record, idSize) /\ BodyBytes(Record, idSize) \in Nat
         /\ cur.pos + cur.left = NextStart + Record.lie
         /\ rec + 1 \in 1..(Count + 1)
<1>1. Given /\ BodyPlaced(rec, cur) /\ cur \in Cursor /\ idSize = file.idSize /\ idSize \in Nat \ {0}
  BY DEF PlaceInv, Given
<1>2. /\ rec <= Count /\ SegmentsTrue(rec) /\ ~cur.err
      /\ cur.pos = Start + 9 /\ cur.pos <= cut /\ cur.left = BodyBytes(Record, idSize) + Record.lie
  BY <1>1 DEF BodyPlaced, Start, Record
<1>3. /\ Start \in Nat /\ NextStart = Start + 9 + BodyBytes(Record, idSize) /\ BodyBytes(Record, idSize) \in Nat
      /\ Record.lie \in Int /\ cut \in Nat /\ rec + 1 \in 1..(Count + 1)
  BY <1>1, <1>2, InRecord
<1>4. cur.pos \in Nat /\ cur.left \in Int
  BY <1>2, <1>3
<1>5. NextStart = cur.pos + BodyBytes(Record, idSize)
  BY <1>2, <1>3
<1>6. cur.pos + cur.left = NextStart + Record.lie
  BY <1>2, <1>3, <1>5
<1> QED
  BY <1>1, <1>2, <1>3, <1>4, <1>5, <1>6

\* The step of a handler that succeeded.
LEMMA ProcessedPlaced ==
  ASSUME PlaceInv, stage \in {"body", "segment"}, rec <= Count, NEW d \in Cursor, Processed(d), HeaderPlaced(rec + 1, d)
  PROVE  PlaceInv'
<1>1. Given /\ idSize = file.idSize /\ idSize \in Nat \ {0}
  BY DEF PlaceInv, Given
<1>2. rec + 1 \in 1..(Count + 1)
  BY <1>1, InRecord
<1> QED
  BY <1>1, <1>2, ToHeader DEF Processed, input

\* And of one that failed.
LEMMA FailedPlaced ==
  ASSUME PlaceInv, Failed \/ Aborted \/ Astray, ~Intact
  PROVE  PlaceInv'
BY ToEnd DEF Failed, Aborted, Astray, PlaceInv, input

-------------------------------------------------------------------------------
(* Each record outside a segment leaves the reader in its place. *)

\* A string: its id and the text, which is what the section has left.
LEMMA Utf8Placed == PlaceInv /\ ReadUtf8String => PlaceInv'
<1> SUFFICES ASSUME PlaceInv, ReadUtf8String PROVE PlaceInv'
  OBVIOUS
<1> DEFINE named == Read(cur, "id")
<1> DEFINE id == Got(cur, named, Record.id)
<1> DEFINE text == Bytes(named, named.left)
<1>1. stage = "body" /\ Record.tag = "UTF8_STRING"
  BY DEF ReadUtf8String, Body
<1>2. /\ Given /\ rec <= Count /\ SegmentsTrue(rec) /\ cur \in Cursor /\ ~cur.err
      /\ cur.left = BodyBytes(Record, idSize) + Record.lie
      /\ cur.pos \in Nat /\ cur.left \in Int /\ idSize \in Nat \ {0} /\ idSize = file.idSize /\ cut \in Nat
      /\ NextStart = cur.pos + BodyBytes(Record, idSize) /\ cur.pos + cur.left = NextStart + Record.lie
  BY <1>1, InBody
<1>3. BodyBytes(Record, idSize) = idSize + Record.len
  BY <1>1 DEF BodyBytes
<1>4. Record.len \in Nat /\ Record.lie \in Int /\ Record.len + Record.lie >= 0
  BY <1>1, <1>2, InRecord
<1>5. named = [pos |-> cur.pos + idSize, left |-> cur.left - idSize, err |-> cur.err]
  BY <1>2 DEF Read, Cursor
<1>6. /\ named \in Cursor /\ named.pos = cur.pos + idSize /\ named.left = Record.len + Record.lie
      /\ named.left \in Nat /\ ~named.err
  <2>1. named.left = cur.left - idSize /\ named.pos = cur.pos + idSize /\ named.err = cur.err
    BY <1>5
  <2>2. named.left = Record.len + Record.lie
    BY <1>2, <1>3, <1>4, <2>1
  <2>3. named.pos \in Int /\ named.left \in Int /\ cur.err \in BOOLEAN
    BY <1>2, <1>4, <2>1, <2>2 DEF Cursor
  <2> QED
    BY <1>2, <1>4, <1>5, <2>1, <2>2, <2>3 DEF Cursor
<1> HIDE DEF named
<1>7. /\ named.left = 0 \/ named.pos + named.left <= cut => Moved(named, text, named.left) /\ text.err = named.err
      /\ named.left # 0 /\ named.pos + named.left > cut => text.err
  BY <1>2, <1>6, BytesMove
<1>8. named.pos + named.left = NextStart + Record.lie /\ NextStart \in Nat /\ named.pos \in Nat
  BY <1>2, <1>3, <1>4, <1>6
<1> HIDE DEF text
<1>9. CASE id = 0 \/ named.left = 0 \/ text.err
  <2>1. Failed
    BY <1>9 DEF ReadUtf8String, named, text
  <2>2. ~Intact
    <3> SUFFICES ASSUME Intact PROVE FALSE
      OBVIOUS
    <3>1. Record.lie = 0 /\ NextStart <= cut /\ Record.id # 0 /\ Record.len > 0
      BY <1>1, <1>2, IntactRecord
    <3>2. named.left # 0 /\ named.pos + named.left <= cut /\ named.pos <= cut
      BY <1>2, <1>4, <1>6, <1>8, <3>1
    <3>3. ~text.err
      BY <1>6, <1>7, <3>2
    <3>4. named.pos \in (cur.pos + 1)..cut
      BY <1>2, <1>6, <3>2
    <3> QED
      BY <1>9, <3>1, <3>2, <3>3, <3>4 DEF Got
  <2> QED
    BY <2>1, <2>2, FailedPlaced
<1>10. CASE ~(id = 0 \/ named.left = 0 \/ text.err)
  <2>1. Processed(text)
    BY <1>10 DEF ReadUtf8String, named, text
  <2>2. named.pos + named.left <= cut
    BY <1>2, <1>6, <1>7, <1>8, <1>10
  <2>3. Moved(named, text, named.left) /\ ~text.err
    BY <1>7, <1>10, <2>2
  <2>4. text \in Cursor /\ text.pos = NextStart + Record.lie /\ text.pos <= cut
    BY <1>8, <2>2, <2>3 DEF Moved
  <2>5. HeaderPlaced(rec + 1, text)
    BY <1>1, <1>2, <2>4, DeclaredEnd
  <2> QED
    BY <1>1, <1>2, <2>1, <2>4, <2>5, ProcessedPlaced
<1> QED
  BY <1>9, <1>10

\* A loaded class: four reads.
LEMMA LoadClassPlaced == PlaceInv /\ ReadLoadClass => PlaceInv'
<1> SUFFICES ASSUME PlaceInv, ReadLoadClass PROVE PlaceInv'
  OBVIOUS
<1> DEFINE read == Reads(cur, LoadClassOps)
<1>1. stage = "body" /\ Record.tag = "LOAD_CLASS"
  BY DEF ReadLoadClass, Body
<1>2. /\ Given /\ rec <= Count /\ SegmentsTrue(rec) /\ cur \in Cursor /\ ~cur.err
      /\ cur.pos = Start + 9 /\ cur.pos <= cut
      /\ cur.left = BodyBytes(Record, idSize) + Record.lie
      /\ cur.pos \in Nat /\ cur.left \in Int /\ idSize \in Nat \ {0} /\ cut \in Nat
      /\ NextStart = cur.pos + BodyBytes(Record, idSize)
  BY <1>1, InBody
<1> DEFINE n == 2 * idSize + 8
<1>3. BodyBytes(Record, idSize) = n
  BY <1>1 DEF BodyBytes
<1>4. Moved(cur, read, n) /\ n \in Nat /\ read \in Cursor
  BY <1>2, FixedParts, PartRead
<1> HIDE DEF read, n
<1>5. CASE read.err
  <2>1. Failed
    BY <1>5 DEF ReadLoadClass, read
  <2>2. ~Intact
    <3> SUFFICES ASSUME Intact PROVE FALSE
      OBVIOUS
    <3>1. cur.left >= n
      BY <1>2, <1>3, <1>4, IntactRecord
    <3> QED
      BY <1>2, <1>4, <1>5, <3>1 DEF Moved
  <2> QED
    BY <2>1, <2>2, FailedPlaced
<1>6. CASE ~read.err
  <2>1. Processed(read)
    BY <1>6 DEF ReadLoadClass, read
  <2>2. read.pos = NextStart
    BY <1>2, <1>3, <1>4, <1>6 DEF Moved
  <2>3. read.pos > cut => AcceptedCut
    <3> SUFFICES ASSUME NextStart > cut PROVE AcceptedCut
      BY <2>2
    <3>1. rec \in Indices("LOAD_CLASS")
      <4>1. DOMAIN file.records = 1..Count /\ rec \in 1..Count
        BY <1>2, InRecord, FileShape DEF Given, Count
      <4> QED
        BY <1>1, <4>1 DEF Indices, Record
    <3>2. cut \in (RecordStart(file, rec) + 9)..(RecordStart(file, rec + 1) - 1)
      <4>1. Start \in Nat /\ NextStart \in Nat
        BY <1>2, InRecord
      <4>2. cut \in (Start + 9)..(NextStart - 1)
        BY <1>2, <4>1
      <4> QED
        BY <4>2 DEF Start, NextStart
    <3> QED
      BY <3>1, <3>2 DEF AcceptedCut
  <2>4. HeaderPlaced(rec + 1, read)
    BY <1>1, <1>2, <1>4, <2>2, <2>3, RecordPassed
  <2> QED
    BY <1>1, <1>2, <1>4, <2>1, <2>4, ProcessedPlaced
<1> QED
  BY <1>5, <1>6

\* A stack frame: skipped.
LEMMA StackFramePlaced == PlaceInv /\ ReadStackFrame => PlaceInv'
<1> SUFFICES ASSUME PlaceInv, ReadStackFrame PROVE PlaceInv'
  OBVIOUS
<1> DEFINE d == [cur EXCEPT !.pos = @ + cur.left]
<1>1. stage = "body" /\ Record.tag = "STACK_FRAME"
  BY DEF ReadStackFrame, Body
<1>2. /\ Given /\ rec <= Count /\ SegmentsTrue(rec) /\ cur \in Cursor
      /\ cur.pos \in Nat /\ cur.left \in Int /\ cut \in Nat
      /\ cur.left = BodyBytes(Record, idSize) + Record.lie /\ BodyBytes(Record, idSize) \in Nat
      /\ cur.pos + cur.left = NextStart + Record.lie
  BY <1>1, InBody
<1>3. CASE cur.left < 0 \/ cur.pos + cur.left > cut
  <2>1. Failed
    BY <1>3 DEF ReadStackFrame
  <2>2. ~Intact
    <3> SUFFICES ASSUME Intact PROVE FALSE
      OBVIOUS
    <3>1. Record.lie = 0 /\ NextStart <= cut /\ NextStart \in Nat
      BY <1>2, IntactRecord, InRecord
    <3> QED
      BY <1>2, <1>3, <3>1
  <2> QED
    BY <2>1, <2>2, FailedPlaced
<1>4. CASE ~(cur.left < 0 \/ cur.pos + cur.left > cut)
  <2>1. Processed(d)
    BY <1>4 DEF ReadStackFrame
  <2>2. d = [pos |-> cur.pos + cur.left, left |-> cur.left, err |-> cur.err]
    BY <1>2 DEF Cursor
  <2>3. d \in Cursor /\ d.pos = NextStart + Record.lie /\ d.pos <= cut
    BY <1>2, <1>4, <2>2 DEF Cursor
  <2> HIDE DEF d
  <2>4. HeaderPlaced(rec + 1, d)
    BY <1>1, <1>2, <2>3, DeclaredEnd
  <2> QED
    BY <1>1, <1>2, <2>1, <2>3, <2>4, ProcessedPlaced
<1> QED
  BY <1>3, <1>4

\* As many int reads as a stack trace is deep.
LEMMA IntsRead ==
  ASSUME NEW n \in Nat, idSize \in Nat \ {0}
  PROVE  AreBytes([k \in 1..n |-> "int"], 4 * n)
<1> DEFINE ops == [k \in 1..n |-> "int"]
<1> DEFINE size(k) == Added(OpSizes(ops), k)
<1>1. ops \in Seq(Ops) /\ Len(ops) = n /\ \A k \in 1..n : ops[k] = "int"
  BY DEF Ops
<1>2. OpBytes("int") = 4
  BY DEF OpBytes
<1> HIDE DEF ops
<1>3. size(0) = 0 /\ \A k \in 1..n : size(k) = size(k - 1) + OpBytes(ops[k])
  BY <1>1, OpsAdded
<1> HIDE DEF size
<1> DEFINE S == {k \in 0..n : size(k) = 4 * k}
<1>4. 0 \in S
  BY <1>3
<1>5. ASSUME NEW k \in 0..(n - 1), k \in S PROVE k + 1 \in S
  <2>1. k + 1 \in 1..n /\ k + 1 \in 0..n /\ (k + 1) - 1 = k
    OBVIOUS
  <2>2. size(k + 1) = size(k) + 4
    BY <1>1, <1>2, <1>3, <2>1
  <2>3. size(k) = 4 * k
    BY <1>5
  <2> QED
    BY <2>1, <2>2, <2>3
<1>6. \A k \in 0..n : k \in S
  <2> HIDE DEF S
  <2> QED
    BY <1>4, <1>5, InductionTo
<1>7. size(n) = 4 * n
  <2>1. n \in 0..n
    OBVIOUS
  <2> QED
    BY <1>6, <2>1
<1> QED
  BY <1>1, <1>7 DEF AreBytes, ops, size

\* A stack trace: a depth, and as many reads as it says.
LEMMA StackTracePlaced == PlaceInv /\ ReadStackTrace => PlaceInv'
<1> SUFFICES ASSUME PlaceInv, ReadStackTrace PROVE PlaceInv'
  OBVIOUS
<1> DEFINE depth == ValueAt(cur, StackTraceOps, 3, Record.len)
<1> DEFINE head == Reads(cur, StackTraceOps)
<1> DEFINE read == Reads(head, [k \in 1..depth |-> "int"])
<1>1. stage = "body" /\ Record.tag = "STACK_TRACE"
  BY DEF ReadStackTrace, Body
<1>2. /\ Given /\ rec <= Count /\ SegmentsTrue(rec) /\ cur \in Cursor /\ ~cur.err
      /\ cur.pos = Start + 9 /\ cur.pos <= cut
      /\ cur.left = BodyBytes(Record, idSize) + Record.lie
      /\ cur.pos \in Nat /\ cur.left \in Int /\ idSize \in Nat \ {0} /\ cut \in Nat
      /\ NextStart = cur.pos + BodyBytes(Record, idSize)
  BY <1>1, InBody
<1>3. Record.len \in Nat /\ Start \in Nat /\ NextStart \in Nat
  BY <1>2, InRecord
<1>4. BodyBytes(Record, idSize) = 12 + 4 * Record.len
  BY <1>1 DEF BodyBytes
<1>5. depth \in {0, Record.len} /\ depth \in Nat
  BY <1>3 DEF ValueAt, Got
<1>6. StackTraceOps \in Seq(Ops) /\ AreBytes(StackTraceOps, 12) /\ Len(StackTraceOps) = 3
      /\ 3 \in 1..Len(StackTraceOps) /\ Added(OpSizes(StackTraceOps), 3) = 12
  <2>1. AreBytes(StackTraceOps, 12) /\ Len(StackTraceOps) = 3
    BY <1>2, FixedParts
  <2>2. StackTraceOps \in Seq(Ops) /\ Added(OpSizes(StackTraceOps), Len(StackTraceOps)) = 12
    BY <2>1 DEF AreBytes
  <2> QED
    BY <2>1, <2>2
<1>7. head \in Cursor /\ Moved(cur, head, 12)
  BY <1>2, <1>6, PartRead
<1>8. depth # Record.len /\ ~head.err => cur.pos + 12 > cut
  <2> SUFFICES ASSUME depth # Record.len, ~Reads(cur, StackTraceOps).err PROVE cur.pos + 12 > cut
    OBVIOUS
  <2>1. cut \in Int
    BY <1>2
  <2>2. depth = IF cur.pos + Added(OpSizes(StackTraceOps), 3) <= cut THEN Record.len ELSE 0
    BY <1>2, <1>6, <2>1, ValuesRead
  <2>3. ~(cur.pos + 12 <= cut)
    BY <1>6, <2>2
  <2> QED
    BY <1>2, <2>3
<1>9. Moved(head, read, 4 * depth) /\ 4 * depth \in Nat /\ read \in Cursor
  <2> HIDE DEF depth, head
  <2>1. AreBytes([k \in 1..depth |-> "int"], 4 * depth)
    BY <1>2, <1>5, IntsRead
  <2> QED
    BY <1>2, <1>7, <2>1, PartRead
<1>10. ReadStackTrace => IF read.err THEN Failed ELSE Processed(read)
  BY DEF ReadStackTrace
<1> HIDE DEF depth, head, read
<1>11. Moved(cur, read, 12 + 4 * depth)
  BY <1>2, <1>7, <1>9, MovedOn
<1>12. CASE read.err
  <2>1. ~Intact
    <3> SUFFICES ASSUME Intact PROVE FALSE
      OBVIOUS
    <3>1. Record.lie = 0
      BY <1>2, IntactRecord
    <3>2. cur.left >= 12 + 4 * depth
      BY <1>2, <1>3, <1>4, <1>5, <3>1
    <3> QED
      BY <1>2, <1>11, <1>12, <3>2 DEF Moved
  <2> QED
    BY <1>10, <1>12, <2>1, FailedPlaced
<1>13. CASE ~read.err
  <2>1. read.pos = cur.pos + (12 + 4 * depth) /\ ~head.err
    <3>1. ~head.err
      BY <1>9, <1>13 DEF Moved
    <3> QED
      BY <1>11, <1>13, <3>1 DEF Moved
  <2>2. depth = Record.len => read.pos = NextStart
    BY <1>2, <1>3, <1>4, <2>1
  <2>3. depth # Record.len => read.pos > cut /\ read.pos <= NextStart
    <3> SUFFICES ASSUME depth # Record.len PROVE read.pos > cut /\ read.pos <= NextStart
      OBVIOUS
    <3>1. depth = 0 /\ cur.pos + 12 > cut
      BY <1>5, <1>8, <2>1
    <3>2. read.pos = cur.pos + 12
      BY <1>2, <2>1, <3>1
    <3> QED
      BY <1>2, <1>3, <1>4, <3>1, <3>2
  <2>4. read.pos > cut => AcceptedCut
    <3> SUFFICES ASSUME read.pos > cut PROVE AcceptedCut
      OBVIOUS
    <3>1. rec \in Indices("STACK_TRACE")
      <4>1. DOMAIN file.records = 1..Count /\ rec \in 1..Count
        BY <1>2, InRecord, FileShape DEF Given, Count
      <4> QED
        BY <1>1, <4>1 DEF Indices, Record
    <3>2. cut \in (RecordStart(file, rec) + 9)..(RecordStart(file, rec + 1) - 1)
      <4>1. read.pos <= NextStart /\ read.pos \in Int
        BY <1>3, <1>9, <2>2, <2>3 DEF Cursor
      <4>2. cut < NextStart
        BY <1>2, <1>3, <4>1
      <4>3. cut \in (Start + 9)..(NextStart - 1)
        BY <1>2, <1>3, <4>2
      <4> QED
        BY <4>3 DEF Start, NextStart
    <3> QED
      BY <3>1, <3>2 DEF AcceptedCut
  <2>5. \/ read.pos = NextStart
        \/ cut < read.pos /\ read.pos <= NextStart /\ AcceptedCut
    <3>1. CASE depth = Record.len
      BY <2>2, <3>1
    <3>2. CASE depth # Record.len
      <4>1. read.pos > cut /\ read.pos <= NextStart
        BY <2>3, <3>2
      <4>2. cut < read.pos
        BY <1>2, <1>9, <4>1 DEF Cursor
      <4> QED
        BY <2>4, <4>1, <4>2
    <3> QED
      BY <3>1, <3>2
  <2>6. HeaderPlaced(rec + 1, read)
    BY <1>1, <1>2, <1>9, <2>4, <2>5, RecordPassed
  <2> QED
    BY <1>1, <1>2, <1>9, <1>10, <1>13, <2>6, ProcessedPlaced
<1> QED
  BY <1>12, <1>13

\* The end record: nothing is read, whatever there may be.
LEMMA EndRecordPlaced == PlaceInv /\ HeapDumpEnd => PlaceInv'
<1> SUFFICES ASSUME PlaceInv, HeapDumpEnd PROVE PlaceInv'
  OBVIOUS
<1>1. stage = "body" /\ Record.tag = "HEAP_DUMP_END" /\ Processed(cur)
  BY DEF HeapDumpEnd, Body
<1>2. /\ Given /\ rec <= Count /\ SegmentsTrue(rec) /\ cur \in Cursor
      /\ cur.pos = Start + 9 /\ cur.pos <= cut /\ cur.pos \in Nat /\ cut \in Nat
      /\ NextStart = cur.pos + BodyBytes(Record, idSize)
  BY <1>1, InBody
<1>3. Record.len \in Nat /\ BodyBytes(Record, idSize) = Record.len
  BY <1>1, <1>2, InRecord DEF BodyBytes
<1>4. HeaderPlaced(rec + 1, cur)
  <2>1. CASE Record.len = 0
    <3>1. cur.pos = NextStart /\ ~(cur.pos > cut)
      BY <1>2, <1>3, <2>1
    <3> QED
      BY <1>1, <1>2, <3>1, RecordPassed
  <2>2. CASE Record.len # 0
    <3>1. ~Intact
      BY <1>1, <1>2, <2>2, IntactRecord
    <3>2. cur.pos # NextStart
      BY <1>2, <1>3, <2>2
    <3>3. CASE cur.pos < cut
      BY <1>2, <3>1, <3>2, <3>3, RecordLeft
    <3>4. CASE cur.pos = cut
      <4>1. SegmentsTrue(rec + 1)
        BY <1>1, <1>2, SegmentsBefore
      <4>2. rec \in Indices("HEAP_DUMP_END")
        <5>1. DOMAIN file.records = 1..Count /\ rec \in 1..Count
          BY <1>2, InRecord, FileShape DEF Given, Count
        <5> QED
          BY <1>1, <5>1 DEF Indices, Record
      <4>3. AcceptedCut
        BY <1>2, <3>4, <4>2 DEF AcceptedCut, Start
      <4>4. cur.pos >= cut
        BY <1>2, <3>4
      <4> QED
        BY <3>1, <4>1, <4>3, <4>4 DEF HeaderPlaced, MayEnd
    <3> QED
      BY <1>2, <3>3, <3>4
  <2> QED
    BY <2>1, <2>2
<1> QED
  BY <1>1, <1>2, <1>4, ProcessedPlaced

\* A tag that is none of the six.
LEMMA UnsupportedPlaced == PlaceInv /\ UnsupportedTag => PlaceInv'
<1> SUFFICES ASSUME PlaceInv, UnsupportedTag PROVE PlaceInv'
  OBVIOUS
<1>1. Given /\ rec <= Count
  BY InBody DEF UnsupportedTag
<1>2. ~Intact
  BY <1>1, IntactRecord DEF UnsupportedTag
<1> QED
  BY <1>2, FailedPlaced DEF UnsupportedTag

\* A heap dump segment begins with its first item.
LEMMA EnterPlaced == PlaceInv /\ EnterSegment => PlaceInv'
<1> SUFFICES ASSUME PlaceInv, EnterSegment PROVE PlaceInv'
  OBVIOUS
<1>1. stage = "body" /\ Record.tag = "HEAP_DUMP_SEGMENT" /\ rec' = rec /\ cur' = cur /\ seg'.item = 1
      /\ UNCHANGED input /\ stage' = "segment" /\ idSize' = idSize
  BY DEF EnterSegment, Body, input
<1>2. /\ Given /\ rec <= Count /\ SegmentsTrue(rec) /\ cur \in Cursor /\ ~cur.err
      /\ cur.pos = Start + 9 /\ cur.pos <= cut /\ idSize \in Nat \ {0} /\ idSize = file.idSize
      /\ cur.pos + cur.left = NextStart + Record.lie
  BY <1>1, InBody
<1>3. rec \in 1..Len(file.records) /\ rec \in 1..(Count + 1) /\ file \in Files
  BY <1>2, InRecord DEF Count, Given
<1>4. Len(file.records[rec].items) \in Nat /\ ItemStart(file, rec, 1) = RecordStart(file, rec) + 9
  BY <1>3, ItemsTiled
<1>5. 1 \in 1..(Len(file.records[rec].items) + 1)
  BY <1>4
<1>6. SegmentPlaced(rec, 1, cur)
  BY <1>1, <1>2, <1>4, <1>5 DEF SegmentPlaced, Ends, Start, NextStart, Record
<1>7. SegShape'
  BY DEF EnterSegment, SegShape
<1> QED
  BY <1>1, <1>2, <1>3, <1>6, <1>7, ToSegment

\* An id of no known width.
LEMMA UnreadablePlaced == PlaceInv /\ UnreadableId => PlaceInv'
<1> SUFFICES ASSUME PlaceInv, UnreadableId PROVE PlaceInv'
  OBVIOUS
<1>1. stage \in {"body", "segment"}
  BY DEF UnreadableId, Body, AtItem, MoreData
<1>2. idSize = file.idSize /\ idSize \notin {4, 8}
  BY <1>1 DEF UnreadableId, IdsReadable, PlaceInv, Given
<1>3. ~Intact
  BY <1>2 DEF Intact, Supported
<1> QED
  BY <1>3, FailedPlaced DEF UnreadableId

\* The file's own header.
LEMMA FileHeaderPlaced == PlaceInv /\ ReadFileHeader => PlaceInv'
<1> SUFFICES ASSUME PlaceInv, ReadFileHeader PROVE PlaceInv'
  OBVIOUS
<1>1. stage = "start" /\ Given /\ rec = 1 /\ cur \in Cursor /\ file \in Files /\ cut \in Nat
  BY DEF ReadFileHeader, PlaceInv, Given
<1>2. file.idSize \in Nat /\ file.idSize <= 256 /\ Count \in Nat
  BY <1>1, FileShape DEF Count
<1>3. RecordStart(file, 1) = 12 /\ RecordStart(file, 1) <= FileBytes(file)
  <2>1. /\ RecordStart(file, 1) = 12 /\ FileBytes(file) = RecordStart(file, Len(file.records) + 1)
        /\ \A n \in 1..(Len(file.records) + 1) : RecordStart(file, n) \in Nat /\ RecordStart(file, n) >= 12
    BY <1>1, RecordsTiled
  <2>2. Len(file.records) + 1 \in 1..(Len(file.records) + 1)
    BY <1>2 DEF Count
  <2> QED
    BY <2>1, <2>2
<1>4. CASE cut < 12 \/ file.idSize % 256 = 0
  <2>1. Failed
    BY <1>4 DEF ReadFileHeader
  <2>2. ~Intact
    <3> SUFFICES ASSUME Intact PROVE FALSE
      OBVIOUS
    <3>1. file.idSize \in {4, 8} /\ cut = FileBytes(file)
      BY DEF Intact, Supported, Complete
    <3>2. ~(cut < 12)
      BY <1>1, <1>3, <3>1
    <3>3. file.idSize % 256 # 0
      BY <3>1
    <3> QED
      BY <1>4, <3>2, <3>3
  <2> QED
    BY <2>1, <2>2, FailedPlaced
<1>5. CASE ~(cut < 12 \/ file.idSize % 256 = 0)
  <2>1. /\ idSize' = file.idSize % 256 /\ stage' = "header" /\ cur' = [cur EXCEPT !.pos = 12]
        /\ UNCHANGED input /\ rec' = rec
    BY <1>5 DEF ReadFileHeader, input
  <2>2. file.idSize % 256 = file.idSize /\ file.idSize \in Nat \ {0}
    <3>1. file.idSize # 256
      BY <1>5
    <3>2. file.idSize \in 0..255
      BY <1>2, <3>1
    <3>3. file.idSize % 256 = file.idSize
      BY <3>2
    <3> QED
      BY <1>2, <1>5, <3>3
  <2>3. cur' = [pos |-> 12, left |-> cur.left, err |-> cur.err]
    BY <1>1, <2>1 DEF Cursor
  <2>4. cur' \in Cursor /\ cur'.pos = 12
    BY <1>1, <2>3 DEF Cursor
  <2>5. rec' = 1 /\ rec' \in 1..(Count + 1)
    BY <1>1, <1>2, <2>1
  <2>6. SegmentsTrue(1)
    <3>1. \A m \in DOMAIN file.records : ~(m < 1)
      BY <1>1, FileShape
    <3> QED
      BY <3>1 DEF SegmentsTrue, Indices
  <2>7. cur'.pos <= cut
    BY <1>1, <1>5, <2>4
  <2>8. HeaderPlaced(rec', cur')
    BY <1>3, <2>4, <2>5, <2>6, <2>7 DEF HeaderPlaced
  <2> QED
    BY <1>1, <2>1, <2>2, <2>4, <2>5, <2>8, ToHeader
<1> QED
  BY <1>4, <1>5

\* Before a header.
LEMMA AtHeader ==
  ASSUME PlaceInv, stage = "header"
  PROVE  /\ Given /\ HeaderPlaced(rec, cur) /\ cur \in Cursor /\ cur.pos \in Int /\ cut \in Nat /\ rec \in 1..(Count + 1)
         /\ Count \in Nat /\ idSize = file.idSize /\ idSize \in Nat \ {0}
         /\ Start \in Nat /\ (rec <= Count => Start + 9 <= FileBytes(file)) /\ (rec > Count => Start = FileBytes(file))
<1>1. /\ Given /\ HeaderPlaced(rec, cur) /\ cur \in Cursor /\ cut \in Nat /\ rec \in 1..(Count + 1)
      /\ file \in Files /\ idSize = file.idSize /\ idSize \in Nat \ {0}
  BY DEF PlaceInv, Given
<1>2. Count \in Nat
  BY <1>1, FileShape DEF Count
<1>3. Start \in Nat /\ FileBytes(file) = RecordStart(file, Count + 1)
  BY <1>1, RecordsTiled DEF Start, Count
<1>4. ASSUME rec <= Count PROVE Start + 9 <= FileBytes(file)
  <2>1. /\ NextStart = Start + 9 + BodyBytes(Record, file.idSize) /\ BodyBytes(Record, file.idSize) \in Nat
        /\ NextStart <= FileBytes(file)
    BY <1>1, <1>4, InRecord
  <2>2. FileBytes(file) \in Nat
    BY <1>1, <1>2, <1>3, RecordsTiled DEF Count
  <2> QED
    BY <1>3, <2>1, <2>2
<1>5. ASSUME rec > Count PROVE Start = FileBytes(file)
  <2>1. rec = Count + 1
    BY <1>1, <1>2, <1>5
  <2> QED
    BY <1>3, <2>1 DEF Start
<1> QED
  BY <1>1, <1>2, <1>3, <1>4, <1>5 DEF Cursor

\* No bytes follow.
LEMMA NoMorePlaced == PlaceInv /\ NoMoreRecords => PlaceInv'
<1> SUFFICES ASSUME PlaceInv, NoMoreRecords PROVE PlaceInv'
  OBVIOUS
<1>1. stage = "header" /\ cur.pos >= cut /\ stage' = "loaded" /\ UNCHANGED <<input, idSize, rec, seg, cur, data>>
  BY DEF NoMoreRecords
<1>2. /\ Given /\ HeaderPlaced(rec, cur) /\ cur.pos \in Int /\ cut \in Nat /\ rec \in 1..(Count + 1)
      /\ Count \in Nat /\ idSize = file.idSize /\ idSize \in Nat \ {0} /\ Start \in Nat
      /\ (rec <= Count => Start + 9 <= FileBytes(file)) /\ (rec > Count => Start = FileBytes(file))
  BY <1>1, AtHeader
<1>3. SegmentsTrue(rec) /\ MayEnd /\ (Intact => rec = Count + 1)
  <2>1. CASE cur.pos = RecordStart(file, rec) /\ cur.pos <= cut /\ SegmentsTrue(rec)
    <3>1. Start = cut
      BY <1>1, <1>2, <2>1 DEF Start
    <3>2. CASE rec <= Count
      <4>1. rec \in DOMAIN file.records
        <5>1. DOMAIN file.records = 1..Count
          BY <1>2, FileShape DEF Given, Count
        <5> QED
          BY <1>2, <3>2, <5>1
      <4>2. AcceptedCut
        BY <3>1, <4>1 DEF AcceptedCut, Start
      <4>3. ~Complete
        BY <1>2, <3>1, <3>2 DEF Complete
      <4> QED
        BY <2>1, <4>2, <4>3 DEF MayEnd, Intact
    <3>3. CASE ~(rec <= Count)
      <4>1. rec = Count + 1 /\ rec > Count
        BY <1>2, <3>3
      <4>2. Complete
        BY <1>2, <3>1, <4>1 DEF Complete
      <4> QED
        BY <2>1, <4>1, <4>2 DEF MayEnd
    <3> QED
      BY <3>2, <3>3
  <2>2. CASE cur.pos >= cut /\ SegmentsTrue(rec) /\ ~Intact /\ MayEnd
    BY <2>2
  <2> QED
    BY <1>1, <1>2, <2>1, <2>2 DEF HeaderPlaced
<1>4. /\ Intact' = Intact /\ MayEnd' = MayEnd /\ Truthful' = Truthful /\ Complete' = Complete /\ Count' = Count
      /\ file' = file /\ cut' = cut /\ rec' = rec /\ cur' = cur /\ idSize' = idSize
  BY <1>1, SameFile
<1>5. Given'
  BY <1>1, <1>2, <1>4 DEF Given
<1>6. SegmentsTrue(rec)' = SegmentsTrue(rec)
  BY <1>4 DEF SegmentsTrue, Indices
<1> QED
  BY <1>1, <1>3, <1>4, <1>5, <1>6 DEF PlaceInv

\* Too few bytes follow.
LEMMA TruncatedPlaced == PlaceInv /\ HeaderTruncated => PlaceInv'
<1> SUFFICES ASSUME PlaceInv, HeaderTruncated PROVE PlaceInv'
  OBVIOUS
<1>1. stage = "header" /\ cut \in (cur.pos + 1)..(cur.pos + 8) /\ Failed
  BY DEF HeaderTruncated
<1>2. /\ HeaderPlaced(rec, cur) /\ cur.pos \in Int /\ cut \in Nat /\ rec \in 1..(Count + 1)
      /\ Count \in Nat /\ Start \in Nat
      /\ (rec <= Count => Start + 9 <= FileBytes(file)) /\ (rec > Count => Start = FileBytes(file))
  BY <1>1, AtHeader
<1>3. ~(cur.pos >= cut)
  BY <1>1, <1>2
<1>4. ~Intact
  <2>1. CASE cur.pos = RecordStart(file, rec)
    <3>1. cur.pos = Start
      BY <2>1 DEF Start
    <3>2. cut # FileBytes(file)
      BY <1>1, <1>2, <3>1
    <3> QED
      BY <3>2 DEF Intact, Complete
  <2>2. CASE cur.pos # RecordStart(file, rec)
    BY <1>2, <1>3, <2>2 DEF HeaderPlaced
  <2> QED
    BY <2>1, <2>2
<1> QED
  BY <1>1, <1>4, FailedPlaced

\* A header is read.
LEMMA NextPlaced == PlaceInv /\ NextRecord => PlaceInv'
<1> SUFFICES ASSUME PlaceInv, NextRecord PROVE PlaceInv'
  OBVIOUS
<1>1. /\ stage = "header" /\ cur.pos + 9 <= cut /\ rec <= Len(file.records) /\ cur.pos = RecordStart(file, rec)
      /\ stage' = "body" /\ UNCHANGED input /\ rec' = rec /\ idSize' = idSize
      /\ cur' = [pos |-> cur.pos + 9, err |-> FALSE, left |-> BodyBytes(Record, file.idSize) + Record.lie]
  BY DEF NextRecord, input
<1>2. /\ Given /\ HeaderPlaced(rec, cur) /\ cur.pos \in Int /\ cut \in Nat /\ rec \in 1..(Count + 1)
      /\ Count \in Nat /\ idSize = file.idSize /\ idSize \in Nat \ {0}
  BY <1>1, AtHeader
<1>3. ~(cur.pos >= cut) /\ rec <= Count /\ ~(rec > Count)
  BY <1>1, <1>2 DEF Count
<1>4. SegmentsTrue(rec)
  BY <1>1, <1>2, <1>3 DEF HeaderPlaced
<1>5. BodyBytes(Record, file.idSize) \in Nat /\ Record.lie \in Int
  BY <1>2, <1>3, InRecord
<1>6. cur' \in Cursor
  BY <1>1, <1>2, <1>5 DEF Cursor
<1>7. cur'.pos = RecordStart(file, rec) + 9 /\ cur'.pos <= cut /\ ~cur'.err
      /\ cur'.left = BodyBytes(file.records[rec], file.idSize) + file.records[rec].lie
  BY <1>1 DEF Record
<1>8. BodyPlaced(rec', cur')
  BY <1>1, <1>3, <1>4, <1>7 DEF BodyPlaced
<1> QED
  BY <1>1, <1>2, <1>6, <1>8, ToBody

\* Something else is read as a header.
LEMMA AstrayPlaced == PlaceInv /\ HeaderAstray => PlaceInv'
<1> SUFFICES ASSUME PlaceInv, HeaderAstray PROVE PlaceInv'
  OBVIOUS
<1>1. /\ stage = "header" /\ cur.pos + 9 <= cut /\ Astray
      /\ rec > Len(file.records) \/ cur.pos # RecordStart(file, rec)
  BY DEF HeaderAstray
<1>2. /\ HeaderPlaced(rec, cur) /\ cur.pos \in Int /\ cut \in Nat /\ cut <= FileBytes(file)
      /\ Start \in Nat /\ (rec > Count => Start = FileBytes(file))
  BY <1>1, AtHeader DEF Given
<1>3. ~(cur.pos >= cut) /\ (rec > Count => cur.pos # Start)
  BY <1>1, <1>2
<1>4. ~Intact
  BY <1>1, <1>2, <1>3 DEF HeaderPlaced, Start, Count
<1> QED
  BY <1>1, <1>4, FailedPlaced

-------------------------------------------------------------------------------
(* Each item leaves the reader in its place. *)

Size == ItemBytes(Item, idSize)

\* What holds before an item.
ItemPlace ==
  /\ Given /\ rec <= Count /\ SegmentsTrue(rec) /\ Record.tag = "HEAP_DUMP_SEGMENT"
  /\ cut \in Nat /\ cur.pos < cut /\ cur.pos \in Nat /\ cur.left \in Int /\ cur.pos = ItemStart(file, rec, seg.item)
  /\ cur.pos + cur.left = NextStart + Record.lie
  /\ Size \in Nat \ {0} /\ cur.pos + Size = ItemStart(file, rec, seg.item + 1) /\ cur.pos + Size <= NextStart
  /\ seg.item \in 1..Len(Record.items) /\ seg.item + 1 \in 1..(Len(Record.items) + 1)
  /\ Len(Record.items) \in Nat /\ Start < cur.pos
  /\ cur.pos + Size = NextStart => seg.item = Len(Record.items)

\* A segment that is being read.
LEMMA InSegment ==
  ASSUME PlaceInv, stage = "segment"
  PROVE  /\ Given /\ rec <= Count /\ SegmentsTrue(rec) /\ Record.tag = "HEAP_DUMP_SEGMENT"
         /\ SegmentPlaced(rec, seg.item, cur) /\ cur \in Cursor /\ cur.pos \in Int /\ cur.left \in Int
         /\ cut \in Nat /\ NextStart \in Nat /\ Record.lie \in Int
         /\ idSize = file.idSize /\ idSize \in Nat \ {0} /\ rec \in 1..Len(file.records)
         /\ seg.item \in 1..(Len(Record.items) + 1) /\ Len(Record.items) \in Nat
         /\ ItemStart(file, rec, seg.item) <= NextStart
         /\ (Complete => NextStart <= cut) /\ (Record.lie # 0 => Complete)
<1>1. /\ Given /\ SegmentPlaced(rec, seg.item, cur) /\ cur \in Cursor /\ file \in Files /\ cut \in Nat
      /\ (Truthful \/ Complete) /\ idSize = file.idSize /\ idSize \in Nat \ {0}
  BY DEF PlaceInv, Given
<1>2. rec <= Count /\ SegmentsTrue(rec) /\ Record.tag = "HEAP_DUMP_SEGMENT" /\ seg.item \in 1..(Len(Record.items) + 1)
  BY <1>1 DEF SegmentPlaced, Record
<1>3. /\ rec \in 1..Len(file.records) /\ NextStart \in Nat /\ Record.lie \in Int
      /\ (Truthful => Record.lie = 0) /\ (Complete => NextStart <= cut)
  BY <1>1, <1>2, InRecord DEF Count
<1>4. /\ Len(Record.items) \in Nat
      /\ \A k \in 1..(Len(Record.items) + 1) : ItemStart(file, rec, k) \in Nat
      /\ \A k, m \in 1..(Len(Record.items) + 1) : k <= m => ItemStart(file, rec, k) <= ItemStart(file, rec, m)
      /\ ItemStart(file, rec, Len(Record.items) + 1) = NextStart
  BY <1>1, <1>2, <1>3, ItemsTiled DEF Record, NextStart
<1>5. Len(Record.items) + 1 \in 1..(Len(Record.items) + 1) /\ seg.item <= Len(Record.items) + 1
  BY <1>2, <1>4
<1>6. ItemStart(file, rec, seg.item) <= NextStart
  BY <1>2, <1>4, <1>5
<1> QED
  BY <1>1, <1>2, <1>3, <1>4, <1>6 DEF Cursor

\* An item of it.
LEMMA InItem ==
  ASSUME PlaceInv, MoreData, ~cur.err, cur.pos < cut, InStep
  PROVE  ItemPlace /\ Reading /\ Item \in ItemShape
<1>1. /\ Given /\ rec <= Count /\ SegmentsTrue(rec) /\ Record.tag = "HEAP_DUMP_SEGMENT"
      /\ SegmentPlaced(rec, seg.item, cur) /\ cur \in Cursor /\ cur.pos \in Int /\ cur.left \in Int
      /\ cut \in Nat /\ NextStart \in Nat
      /\ idSize = file.idSize /\ idSize \in Nat \ {0} /\ rec \in 1..Len(file.records)
      /\ seg.item \in 1..(Len(Record.items) + 1) /\ Len(Record.items) \in Nat
  BY InSegment DEF MoreData
<1>2. seg.item \in 1..Len(Record.items) /\ seg.item + 1 \in 1..(Len(Record.items) + 1) /\ seg.item \in 1..(Len(Record.items) + 1)
      /\ cur.pos = ItemStart(file, rec, seg.item)
  BY <1>1 DEF InStep
<1>3. ~(cur.pos > cut)
  BY <1>1
<1>4. cur.pos + cur.left = NextStart + Record.lie
  BY <1>1, <1>3 DEF SegmentPlaced, Ends, NextStart, Record
<1>5. file \in Files
  BY <1>1 DEF Given
<1>6. /\ \A k \in 1..Len(Record.items) : Record.items[k] \in ItemShape
      /\ ItemStart(file, rec, 1) = Start + 9
      /\ \A k \in 1..(Len(Record.items) + 1) : ItemStart(file, rec, k) \in Nat
      /\ \A k \in 1..Len(Record.items) :
           /\ ItemBytes(Record.items[k], file.idSize) \in Nat \ {0}
           /\ ItemStart(file, rec, k + 1) = ItemStart(file, rec, k) + ItemBytes(Record.items[k], file.idSize)
      /\ \A k, m \in 1..(Len(Record.items) + 1) : k <= m => ItemStart(file, rec, k) <= ItemStart(file, rec, m)
      /\ ItemStart(file, rec, Len(Record.items) + 1) = NextStart
  BY <1>1, <1>5, ItemsTiled DEF Record, Start, NextStart
<1>7. Item \in ItemShape /\ Size \in Nat \ {0} /\ cur.pos + Size = ItemStart(file, rec, seg.item + 1) /\ cur.pos \in Nat
  BY <1>1, <1>2, <1>6 DEF Item, Size
<1>8. cur.pos + Size <= NextStart
  <2>1. seg.item + 1 <= Len(Record.items) + 1 /\ Len(Record.items) + 1 \in 1..(Len(Record.items) + 1)
    BY <1>1, <1>2
  <2> QED
    BY <1>2, <1>6, <1>7, <2>1
<1>9. Start < cur.pos
  <2>1. 1 \in 1..(Len(Record.items) + 1) /\ 1 <= seg.item
    BY <1>1, <1>2
  <2>2. ItemStart(file, rec, 1) <= cur.pos
    BY <1>2, <1>6, <2>1
  <2>3. Start \in Nat
    BY <1>1, InRecord
  <2> QED
    BY <1>6, <1>7, <2>2, <2>3
<1>10. ASSUME cur.pos + Size = NextStart PROVE seg.item = Len(Record.items)
  <2> SUFFICES ASSUME seg.item # Len(Record.items) PROVE FALSE
    OBVIOUS
  <2>1. seg.item + 1 \in 1..Len(Record.items)
    BY <1>1, <1>2
  <2>2. /\ ItemStart(file, rec, (seg.item + 1) + 1) = ItemStart(file, rec, seg.item + 1) + ItemBytes(Record.items[seg.item + 1], file.idSize)
        /\ ItemBytes(Record.items[seg.item + 1], file.idSize) \in Nat \ {0}
    BY <1>6, <2>1
  <2>3. (seg.item + 1) + 1 \in 1..(Len(Record.items) + 1) /\ (seg.item + 1) + 1 <= Len(Record.items) + 1
        /\ Len(Record.items) + 1 \in 1..(Len(Record.items) + 1)
    BY <1>1, <2>1
  <2>4. ItemStart(file, rec, (seg.item + 1) + 1) <= NextStart
    BY <1>6, <2>3
  <2>5. ItemStart(file, rec, seg.item + 1) = NextStart
    BY <1>7, <1>10
  <2> QED
    BY <1>1, <2>2, <2>4, <2>5
<1>11. ItemPlace
  BY <1>1, <1>2, <1>4, <1>7, <1>8, <1>9, <1>10 DEF ItemPlace
<1>12. Reading
  <2>1. cut \in Int
    BY <1>1
  <2> QED
    BY <1>1, <2>1 DEF Reading, Widths, MoreData
<1> QED
  BY <1>7, <1>11, <1>12

\* Where less is left than the item has, the section's size is wrong, and the file is
\* whole; where the file ends within the item, the section's size is right.
LEMMA SizeOrCut ==
  ASSUME ItemPlace
  PROVE  /\ cur.left < Size => Record.lie # 0 /\ Complete /\ NextStart <= cut
         /\ cut < cur.pos + Size => Record.lie = 0 /\ ~Complete /\ cur.left >= Size
         /\ cut < NextStart => Record.lie = 0 /\ ~Complete
<1>1. /\ cut \in Nat /\ NextStart \in Nat /\ Record.lie \in Int /\ (Truthful => Record.lie = 0)
      /\ (Complete => NextStart <= cut) /\ (Truthful \/ Complete)
      /\ cur.pos \in Nat /\ cur.left \in Int /\ Size \in Nat /\ cur.pos + Size <= NextStart
      /\ cur.pos + cur.left = NextStart + Record.lie
  BY InRecord DEF ItemPlace, Given
<1>2. cur.left < Size => Record.lie # 0
  BY <1>1
<1>3. cut < NextStart => Record.lie = 0 /\ ~Complete
  BY <1>1
<1>4. cut < cur.pos + Size => cut < NextStart
  BY <1>1
<1>5. cur.left < Size => Complete /\ NextStart <= cut
  BY <1>1, <1>2
<1>6. Record.lie = 0 => cur.left >= Size
  BY <1>1
<1> QED
  BY <1>2, <1>3, <1>4, <1>5, <1>6

\* An item that was passed leaves the reader before the next one, or in the places
\* SegmentPlaced tells.
LEMMA ItemPassed ==
  ASSUME ItemPlace, ~cur.err, NEW d, NEW right, NEW late, ItemRead(cur, Size, TRUE, d, right, late), late => MayBeLast(Item)
  PROVE  SegmentPlaced(rec, seg.item + 1, d)
<1>1. /\ rec <= Count /\ SegmentsTrue(rec) /\ Record.tag = "HEAP_DUMP_SEGMENT"
      /\ cut \in Nat /\ cur.pos < cut /\ cur.pos \in Nat /\ cur.left \in Int /\ cur.pos = ItemStart(file, rec, seg.item)
      /\ cur.pos + cur.left = NextStart + Record.lie
      /\ Size \in Nat \ {0} /\ cur.pos + Size = ItemStart(file, rec, seg.item + 1) /\ cur.pos + Size <= NextStart
      /\ seg.item \in 1..Len(Record.items) /\ seg.item + 1 \in 1..(Len(Record.items) + 1)
      /\ Start < cur.pos /\ Given
      /\ cur.pos + Size = NextStart => seg.item = Len(Record.items)
  BY DEF ItemPlace
<1>2. Passed(cur, d, Size) /\ (d.pos > cut /\ d.left = 0 /\ cur.left >= Size => late /\ cur.left = Size)
  BY DEF ItemRead
<1>3. /\ NextStart \in Nat /\ Start \in Nat /\ Record.lie \in Int /\ d \in Cursor
      /\ d.pos \in Int /\ d.left \in Int /\ d.err \in BOOLEAN /\ rec \in 1..Count
  BY <1>1, <1>2, InRecord DEF Passed, Cursor
<1>4. /\ cur.left < Size => Record.lie # 0 /\ Complete /\ NextStart <= cut
      /\ cut < cur.pos + Size => Record.lie = 0 /\ ~Complete /\ cur.left >= Size
  BY SizeOrCut
<1>5. d.pos <= cur.pos + Size /\ cur.pos <= d.pos
  BY <1>1, <1>2, <1>3 DEF Passed, Moved
<1>6. CASE d.pos > cut
  <2>1. cut < cur.pos + Size /\ d.pos <= NextStart
    BY <1>1, <1>3, <1>5, <1>6
  <2>2. ASSUME d.left = 0 PROVE AcceptedCut
    <3>1. late /\ cur.left = Size /\ Record.lie = 0
      BY <1>2, <1>4, <1>6, <2>1, <2>2
    <3>2. cur.pos + Size = NextStart
      BY <1>1, <1>3, <3>1
    <3>3. seg.item = Len(Record.items) /\ MayBeLast(Item)
      BY <1>1, <3>1, <3>2
    <3>4. cut \in (cur.pos + 1)..((cur.pos + Size) - 1)
      BY <1>1, <2>1
    <3>5. CutIn(rec, seg.item)
      BY <1>1, <3>4 DEF CutIn
    <3>6. rec \in Indices("HEAP_DUMP_SEGMENT") /\ seg.item \in DOMAIN file.records[rec].items
      <4>1. file \in Files /\ Count = Len(file.records)
        BY <1>1 DEF Given, Count
      <4>2. DOMAIN file.records = 1..Len(file.records) /\ DOMAIN file.records[rec].items = 1..Len(file.records[rec].items)
        BY <1>3, <4>1, FileShape, ItemsTiled
      <4> QED
        BY <1>1, <1>3, <4>1, <4>2 DEF Indices, Record
    <3> QED
      BY <3>3, <3>5, <3>6 DEF AcceptedCut, Item, Record
  <2> QED
    BY <1>1, <1>6, <2>1, <2>2 DEF SegmentPlaced, Record, NextStart
<1>7. CASE ~(d.pos > cut)
  <2>1. Moved(cur, d, Size) /\ d.pos <= cut
    BY <1>1, <1>2, <1>3, <1>7 DEF Passed
  <2>2. d.pos + d.left = NextStart + Record.lie
    BY <1>1, <2>1 DEF Moved
  <2>3. CASE d.err
    <3>1. d.pos < cur.pos + Size /\ cur.left < Size
      BY <1>1, <1>3, <2>1, <2>3 DEF Moved
    <3>2. Record.lie # 0 /\ d.pos < NextStart /\ Start < d.pos
      <4>1. Record.lie # 0
        BY <1>4, <3>1
      <4>2. d.pos < NextStart
        BY <1>1, <1>3, <3>1
      <4>3. Start < d.pos
        BY <1>1, <1>3, <1>5
      <4> QED
        BY <4>1, <4>2, <4>3
    <3> QED
      BY <1>1, <2>2, <2>3, <3>2 DEF SegmentPlaced, Ends, Record, NextStart, Start
  <2>4. CASE ~d.err
    <3>1. d.pos = ItemStart(file, rec, seg.item + 1)
      BY <1>1, <2>1, <2>4 DEF Moved
    <3> QED
      BY <1>1, <2>1, <2>2, <2>4, <3>1 DEF SegmentPlaced, Ends, Record, NextStart
  <2> QED
    BY <1>3, <2>3, <2>4
<1> QED
  BY <1>6, <1>7

\* An item that was refused is not one of an intact file.
LEMMA ItemRefused ==
  ASSUME ItemPlace, NEW d, NEW right, NEW late, ItemRead(cur, Size, FALSE, d, right, late)
  PROVE  ~Intact
<1> SUFFICES ASSUME Intact PROVE FALSE
  OBVIOUS
<1>1. Record.lie = 0 /\ Complete /\ Given /\ rec <= Count
  BY IntactRecord DEF Intact, ItemPlace
<1>2. NextStart <= cut /\ cut \in Nat /\ NextStart \in Nat
  BY <1>1, InRecord
<1>3. cur.pos + Size <= NextStart /\ cur.pos \in Nat /\ Size \in Nat /\ cur.left \in Int /\ cur.pos + cur.left = NextStart + Record.lie
  BY DEF ItemPlace
<1>4. cur.pos + Size <= cut /\ cur.left >= Size
  BY <1>1, <1>2, <1>3
<1> QED
  BY <1>4 DEF ItemRead

\* The step of an item.
LEMMA NextItemPlaced ==
  ASSUME PlaceInv, stage = "segment", NEW d \in Cursor, NextItem(d), SegmentPlaced(rec, seg.item + 1, d),
         NEW heapType, seg' = [seg EXCEPT !.item = @ + 1, !.heapType = heapType]
  PROVE  PlaceInv'
<1>1. Given /\ idSize = file.idSize /\ idSize \in Nat \ {0} /\ rec \in 1..(Count + 1)
  BY DEF PlaceInv, Given
<1>2. UNCHANGED input /\ stage' = "segment" /\ idSize' = idSize /\ rec' = rec /\ cur' = d
  BY DEF NextItem, input
<1>3. seg' = [item |-> seg.item + 1, heapType |-> heapType, mark |-> seg.mark]
  BY DEF PlaceInv, SegShape
<1>4. seg'.item = seg.item + 1 /\ SegShape'
  BY <1>3 DEF SegShape
<1> QED
  BY <1>1, <1>2, <1>4, ToSegment

\* Most items leave the heap type alone.
LEMMA PlainItemPlaced ==
  ASSUME PlaceInv, stage = "segment", NEW d \in Cursor, NextItem(d), SegmentPlaced(rec, seg.item + 1, d),
         seg' = [seg EXCEPT !.item = @ + 1]
  PROVE  PlaceInv'
<1>1. seg' = [seg EXCEPT !.item = @ + 1, !.heapType = seg.heapType]
  BY DEF PlaceInv, SegShape
<1> QED
  BY <1>1, NextItemPlaced

\* The step of a handler that goes on or gives up.
LEMMA ItemHandled ==
  ASSUME PlaceInv, MoreData, ~cur.err, cur.pos < cut, InStep,
         NEW ok \in BOOLEAN, NEW d, NEW right, NEW late, ItemRead(cur, Size, ok, d, right, late), late => MayBeLast(Item),
         IF ok THEN NextItem(d) /\ seg' = [seg EXCEPT !.item = @ + 1] ELSE Failed \/ Aborted
  PROVE  PlaceInv'
<1>1. ItemPlace /\ stage = "segment"
  BY InItem DEF MoreData
<1>2. CASE ok
  <2>1. ItemRead(cur, Size, TRUE, d, right, late)
    BY <1>2 DEF ItemRead
  <2>2. SegmentPlaced(rec, seg.item + 1, d) /\ d \in Cursor
    BY <1>1, <2>1, ItemPassed DEF ItemRead, Passed
  <2> QED
    BY <1>1, <1>2, <2>2, PlainItemPlaced
<1>3. CASE ~ok
  <2>1. ItemRead(cur, Size, FALSE, d, right, late)
    BY <1>3 DEF ItemRead
  <2>2. ~Intact
    BY <1>1, <2>1, ItemRefused
  <2> QED
    BY <1>3, <2>2, FailedPlaced
<1> QED
  BY <1>2, <1>3

\* An instance.
LEMMA InstancePlaced == PlaceInv /\ ReadInstanceDump => PlaceInv'
<1> SUFFICES ASSUME PlaceInv, ReadInstanceDump PROVE PlaceInv'
  OBVIOUS
<1> DEFINE head == Reads(Sub, InstanceOps)
<1> DEFINE size == ValueAt(Sub, InstanceOps, 4, Item.len)
<1> DEFINE read == Bytes(head, size)
<1> DEFINE ok == InstanceOk(head, size, read)
<1> DEFINE right == /\ ValueAt(Sub, InstanceOps, 1, Item.id) = Item.id
                    /\ ValueAt(Sub, InstanceOps, 3, Item.ref) = Item.ref /\ size = Item.len
<1>1. MoreData /\ ~cur.err /\ cur.pos < cut /\ InStep /\ Item.kind = "instance"
  BY DEF ReadInstanceDump, AtItem
<1>2. Reading /\ Item \in ItemShape
  BY <1>1, InItem
<1>3. ItemRead(cur, Size, ok, read, right, Item.len = 0)
  BY <1>1, <1>2, InstanceRead DEF Size
<1>4. IF ok THEN NextItem(read) /\ seg' = [seg EXCEPT !.item = @ + 1] ELSE Failed
  BY DEF ReadInstanceDump, InstanceOk, Loads
<1>5. (Item.len = 0 => MayBeLast(Item)) /\ ok \in BOOLEAN
  BY <1>1 DEF MayBeLast, InstanceOk
<1> HIDE DEF ok, right, read, size, head
<1> QED
  BY <1>1, <1>3, <1>4, <1>5, ItemHandled

\* An array of objects.
LEMMA ObjectsPlaced == PlaceInv /\ ReadObjectsArrayDump => PlaceInv'
<1> SUFFICES ASSUME PlaceInv, ReadObjectsArrayDump PROVE PlaceInv'
  OBVIOUS
<1> DEFINE head == Reads(Sub, ObjectsOps)
<1> DEFINE length == ValueAt(Sub, ObjectsOps, 3, Item.len)
<1> DEFINE read == Bytes(head, length * idSize)
<1> DEFINE ok == ~(head.err \/ read.err)
<1> DEFINE right == /\ ValueAt(Sub, ObjectsOps, 1, Item.id) = Item.id
                    /\ ValueAt(Sub, ObjectsOps, 4, Item.ref) = Item.ref /\ length = Item.len
<1>1. MoreData /\ ~cur.err /\ cur.pos < cut /\ InStep /\ Item.kind = "objects"
  BY DEF ReadObjectsArrayDump, AtItem
<1>2. Reading /\ Item \in ItemShape
  BY <1>1, InItem
<1>3. ItemRead(cur, Size, ok, read, right, Item.len = 0)
  BY <1>1, <1>2, ObjectsRead DEF Size
<1>4. IF ok THEN NextItem(read) /\ seg' = [seg EXCEPT !.item = @ + 1] ELSE Failed
  BY DEF ReadObjectsArrayDump, Loads
<1>5. (Item.len = 0 => MayBeLast(Item)) /\ ok \in BOOLEAN
  BY <1>1 DEF MayBeLast
<1> HIDE DEF ok, right, read, length, head
<1> QED
  BY <1>1, <1>3, <1>4, <1>5, ItemHandled

\* An array of numbers.
LEMMA PrimitivesPlaced == PlaceInv /\ ReadPrimitivesArrayDump => PlaceInv'
<1> SUFFICES ASSUME PlaceInv, ReadPrimitivesArrayDump PROVE PlaceInv'
  OBVIOUS
<1> DEFINE head == Reads(Sub, PrimitivesOps)
<1> DEFINE length == ValueAt(Sub, PrimitivesOps, 3, Item.len)
<1> DEFINE read == Bytes(head, length * FieldSize(Item.type, idSize))
<1> DEFINE ok == ~head.err /\ head.pos <= cut /\ ~read.err
<1> DEFINE right == ValueAt(Sub, PrimitivesOps, 1, Item.id) = Item.id /\ length = Item.len
<1>1. MoreData /\ ~cur.err /\ cur.pos < cut /\ InStep /\ Item.kind = "primitives"
  BY DEF ReadPrimitivesArrayDump, AtItem
<1>2. Reading /\ Item \in ItemShape
  BY <1>1, InItem
<1>3. ItemRead(cur, Size, ok, read, right, FALSE)
  BY <1>1, <1>2, PrimitivesRead DEF Size
<1>4. IF ok THEN NextItem(read) /\ seg' = [seg EXCEPT !.item = @ + 1] ELSE Failed \/ Aborted
  <2>1. /\ head \in Cursor /\ cut \in Int
    <3>1. idSize \in Nat \ {0} /\ cut \in Int
      BY <1>2 DEF Reading, Widths
    <3>2. Sub \in Cursor /\ AreBytes(PrimitivesOps, idSize + 9)
      BY <1>2, <3>1, SubtypeRead, FixedParts
    <3> QED
      BY <3>1, <3>2, PartRead
  <2>2. head.pos > cut => ~(head.pos <= cut)
    BY <2>1 DEF Cursor
  <2> QED
    BY <2>2 DEF ReadPrimitivesArrayDump, Loads
<1>5. ok \in BOOLEAN
  OBVIOUS
<1> HIDE DEF ok, right, read, length, head
<1> QED
  BY <1>1, <1>3, <1>4, <1>5, ItemHandled

\* An array without data.
LEMMA NoDataPlaced == PlaceInv /\ SkipNoDataArray => PlaceInv'
<1> SUFFICES ASSUME PlaceInv, SkipNoDataArray PROVE PlaceInv'
  OBVIOUS
<1> DEFINE read == Bytes(Read(Sub, "id"), 5)
<1>1. MoreData /\ ~cur.err /\ cur.pos < cut /\ InStep /\ Item.kind = "nodata"
  BY DEF SkipNoDataArray, AtItem
<1>2. Reading /\ Item \in ItemShape
  BY <1>1, InItem
<1>3. ItemRead(cur, Size, TRUE, read, TRUE, FALSE)
  BY <1>1, <1>2, NoDataRead DEF Size
<1>4. NextItem(read) /\ seg' = [seg EXCEPT !.item = @ + 1]
  BY DEF SkipNoDataArray
<1> HIDE DEF read
<1> QED
  BY <1>1, <1>3, <1>4, ItemHandled

\* The heap type.
LEMMA InfoPlaced == PlaceInv /\ ReadHeapDumpInfo => PlaceInv'
<1> SUFFICES ASSUME PlaceInv, ReadHeapDumpInfo PROVE PlaceInv'
  OBVIOUS
<1> DEFINE read == Reads(Sub, InfoOps)
<1> DEFINE heapType == ValueAt(Sub, InfoOps, 1, Item.len)
<1>1. MoreData /\ ~cur.err /\ cur.pos < cut /\ InStep /\ Item.kind = "info"
  BY DEF ReadHeapDumpInfo, AtItem
<1>2. Reading /\ Item \in ItemShape /\ ItemPlace /\ stage = "segment"
  BY <1>1, InItem DEF MoreData
<1>3. ItemRead(cur, Size, TRUE, read, heapType = Item.len, TRUE)
  BY <1>1, <1>2, InfoRead DEF Size
<1>4. NextItem(read) /\ seg' = [seg EXCEPT !.item = @ + 1, !.heapType = heapType]
  BY DEF ReadHeapDumpInfo
<1>5. TRUE => MayBeLast(Item)
  BY <1>1 DEF MayBeLast
<1> HIDE DEF read, heapType
<1>6. SegmentPlaced(rec, seg.item + 1, read) /\ read \in Cursor
  BY <1>1, <1>2, <1>3, <1>5, ItemPassed DEF ItemRead, Passed
<1> QED
  BY <1>2, <1>4, <1>6, NextItemPlaced

\* A root.
LEMMA RootPlaced == PlaceInv /\ ReadGcRoot => PlaceInv'
<1> SUFFICES ASSUME PlaceInv, ReadGcRoot PROVE PlaceInv'
  OBVIOUS
<1> DEFINE ops == RootOps(Item.kind)
<1> DEFINE read == Reads(Sub, ops)
<1> DEFINE right == (IF ops = <<>> THEN 0 ELSE ValueAt(Sub, ops, 1, Item.id))
                      = (IF Item.kind \in BareRoots THEN 0 ELSE Item.id)
<1>1. MoreData /\ ~cur.err /\ cur.pos < cut /\ InStep /\ Item.kind \in DOMAIN RootInts \cup BareRoots
  BY DEF ReadGcRoot, AtItem
<1>2. Reading /\ Item \in ItemShape
  BY <1>1, InItem
<1>3. ItemRead(cur, Size, ~read.err, read, right, TRUE)
  BY <1>1, <1>2, GcRootRead DEF Size
<1>4. IF ~read.err THEN NextItem(read) /\ seg' = [seg EXCEPT !.item = @ + 1] ELSE Failed
  BY DEF ReadGcRoot
<1>5. TRUE => MayBeLast(Item)
  BY <1>1 DEF MayBeLast, RootInts, BareRoots
<1> DEFINE ok == ~read.err
<1>6. ok \in BOOLEAN /\ ItemRead(cur, Size, ok, read, right, TRUE)
      /\ IF ok THEN NextItem(read) /\ seg' = [seg EXCEPT !.item = @ + 1] ELSE Failed
  BY <1>3, <1>4
<1> HIDE DEF ok, right, read, ops
<1> QED
  BY <1>1, <1>5, <1>6, ItemHandled

\* A class, read or the end of the process.
LEMMA ClassPlaced == PlaceInv /\ (ReadClassDump \/ ClassDumpAborted) => PlaceInv'
<1> SUFFICES ASSUME PlaceInv, ReadClassDump \/ ClassDumpAborted PROVE PlaceInv'
  OBVIOUS
<1> DEFINE dump == ClassDump(Item)
<1> DEFINE read == dump.c
<1> DEFINE right == dump.class = ClassOf(Item)
<1> DEFINE late == Item.fields = <<>>
<1>1. MoreData /\ ~cur.err /\ cur.pos < cut /\ InStep /\ Item.kind = "class"
  BY DEF ReadClassDump, ClassDumpAborted, AtItem
<1>2. Reading /\ Item \in ItemShape
  BY <1>1, InItem
<1>3. ClassFacts(Item, dump, ItemBytes(Item, idSize))
  BY <1>1, <1>2, ClassRead
<1>4. /\ ReadClassDump => dump.out = "ok" /\ NextItem(read) /\ seg' = [seg EXCEPT !.item = @ + 1]
      /\ ClassDumpAborted => (dump.out = "abort" \/ dump.copied # "inside") /\ Aborted
  BY DEF ReadClassDump, ClassDumpAborted, Loads
<1> HIDE DEF dump
<1>5. /\ ItemRead(cur, Size, dump.out = "ok", read, right, late)
      /\ dump.copied # "inside" => ~(cur.left >= Size)
  BY <1>3 DEF ClassFacts, Size
<1>6. late => MayBeLast(Item)
  BY <1>1 DEF MayBeLast
<1> HIDE DEF right, read, late
<1>7. CASE ReadClassDump
  <2>1. ItemRead(cur, Size, TRUE, read, right, late)
    BY <1>4, <1>5, <1>7 DEF ItemRead
  <2> QED
    BY <1>1, <1>4, <1>6, <1>7, <2>1, ItemHandled
<1>8. CASE ClassDumpAborted
  <2>1. ItemRead(cur, Size, FALSE, read, right, late)
    BY <1>4, <1>5, <1>8 DEF ItemRead
  <2> QED
    BY <1>1, <1>4, <1>6, <1>8, <2>1, ItemHandled
<1> QED
  BY <1>7, <1>8

\* A class dump that failed: the next header is looked for where it stopped, which is
\* behind the end of the file, or within the section.
LEMMA ClassFailedPlaced == PlaceInv /\ ClassDumpFailed => PlaceInv'
<1> SUFFICES ASSUME PlaceInv, ClassDumpFailed PROVE PlaceInv'
  OBVIOUS
<1> DEFINE d == ClassDump(Item).c
<1>1. MoreData /\ ~cur.err /\ cur.pos < cut /\ InStep /\ Item.kind = "class" /\ ClassDump(Item).out = "fail"
      /\ Processed(d)
  BY DEF ClassDumpFailed, ClassDumpFails, AtItem
<1>2. Reading /\ Item \in ItemShape /\ ItemPlace /\ stage = "segment"
  BY <1>1, InItem DEF MoreData
<1>3. ClassFacts(Item, ClassDump(Item), Size)
  BY <1>1, <1>2, ClassRead DEF Size
<1>4. /\ Passed(cur, d, Size) /\ d.err
      /\ cur.left >= Size => d.pos > cut /\ Item.statics # <<>>
  BY <1>1, <1>3 DEF ClassFacts
<1> HIDE DEF d
<1>5. /\ rec <= Count /\ SegmentsTrue(rec) /\ cut \in Nat /\ cur.pos < cut /\ cur.pos \in Nat /\ cur.left \in Int
      /\ cur.pos = ItemStart(file, rec, seg.item)
      /\ Size \in Nat \ {0} /\ cur.pos + Size = ItemStart(file, rec, seg.item + 1) /\ cur.pos + Size <= NextStart
      /\ seg.item \in 1..Len(Record.items) /\ Given
  BY <1>2 DEF ItemPlace
<1>6. NextStart \in Nat /\ rec \in 1..Count /\ d \in Cursor /\ d.pos \in Int
  BY <1>4, <1>5, InRecord DEF Passed, Cursor
<1>7. /\ cur.left < Size => Record.lie # 0 /\ Complete /\ NextStart <= cut
      /\ cut < cur.pos + Size => Record.lie = 0 /\ ~Complete
  BY <1>2, SizeOrCut
<1>8. CASE cur.left >= Size
  <2>1. d.pos > cut /\ Item.statics # <<>> /\ d.pos <= cur.pos + Size
    BY <1>4, <1>5, <1>6, <1>8 DEF Passed, Moved
  <2>2. cut < cur.pos + Size
    BY <1>5, <1>6, <2>1
  <2>3. Record.lie = 0 /\ ~Complete /\ d.pos <= NextStart
    BY <1>5, <1>6, <1>7, <2>1, <2>2
  <2>4. cut \in (cur.pos + 1)..((cur.pos + Size) - 1)
    BY <1>5, <2>2
  <2>5. CutIn(rec, seg.item)
    BY <1>5, <2>4 DEF CutIn
  <2>6. rec \in Indices("HEAP_DUMP_SEGMENT") /\ seg.item \in DOMAIN file.records[rec].items
    <3>1. file \in Files /\ Count = Len(file.records) /\ Record.tag = "HEAP_DUMP_SEGMENT"
      BY <1>2 DEF Given, Count, ItemPlace
    <3>2. DOMAIN file.records = 1..Len(file.records) /\ DOMAIN file.records[rec].items = 1..Len(file.records[rec].items)
      BY <1>6, <3>1, FileShape, ItemsTiled
    <3> QED
      BY <1>5, <1>6, <3>1, <3>2 DEF Indices, Record
  <2>7. AcceptedCut
    BY <1>1, <2>1, <2>5, <2>6 DEF AcceptedCut, Item, Record
  <2>8. cut < d.pos
    BY <1>5, <1>6, <2>1
  <2>9. HeaderPlaced(rec + 1, d)
    BY <1>5, <1>6, <2>3, <2>7, <2>8, RecordPassed
  <2> QED
    BY <1>1, <1>2, <1>5, <1>6, <2>9, ProcessedPlaced
<1>9. CASE ~(cur.left >= Size)
  <2>1. Record.lie # 0 /\ Complete /\ NextStart <= cut
    BY <1>5, <1>7, <1>9
  <2>2. ~(d.pos > cut)
    <3>1. d.pos <= cur.pos + Size
      BY <1>4, <1>5, <1>6 DEF Passed, Moved
    <3> QED
      BY <1>5, <1>6, <2>1, <3>1
  <2>3. d.pos < cur.pos + Size
    BY <1>1, <1>4, <2>2 DEF Passed, Moved
  <2>4. d.pos < cut /\ d.pos # NextStart
    BY <1>5, <1>6, <2>1, <2>3
  <2>5. ~Intact
    BY <1>5, <2>1, IntactRecord
  <2>6. HeaderPlaced(rec + 1, d)
    BY <1>5, <1>6, <2>4, <2>5, RecordLeft
  <2> QED
    BY <1>1, <1>2, <1>5, <1>6, <2>6, ProcessedPlaced
<1> QED
  BY <1>8, <1>9

\* The end of a segment, where nothing is left of it.
LEMMA EndSegmentPlaced == PlaceInv /\ EndSegment => PlaceInv'
<1> SUFFICES ASSUME PlaceInv, EndSegment PROVE PlaceInv'
  OBVIOUS
<1>1. stage = "segment" /\ cur.left = 0 /\ Processed(cur)
  BY DEF EndSegment
<1>2. /\ Given /\ rec <= Count /\ SegmentsTrue(rec) /\ Record.tag = "HEAP_DUMP_SEGMENT"
      /\ SegmentPlaced(rec, seg.item, cur) /\ cur \in Cursor /\ cur.pos \in Int
      /\ cut \in Nat /\ NextStart \in Nat /\ Record.lie \in Int
      /\ ItemStart(file, rec, seg.item) <= NextStart
      /\ (Complete => NextStart <= cut) /\ (Record.lie # 0 => Complete)
  BY <1>1, InSegment
<1>3. CASE Record.lie # 0
  <2>1. Complete /\ NextStart <= cut /\ ~Intact
    BY <1>2, <1>3, IntactRecord
  <2>2. cur.pos < NextStart
    <3>1. CASE cur.pos = ItemStart(file, rec, seg.item) /\ Ends(rec, cur)
      <4>1. cur.pos + 0 = NextStart + Record.lie
        BY <1>1, <3>1 DEF Ends, NextStart, Record
      <4> QED
        BY <1>2, <1>3, <3>1, <4>1
    <3>2. CASE cur.pos < RecordStart(file, rec + 1)
      BY <3>2 DEF NextStart
    <3>3. CASE cur.pos > cut /\ cur.pos <= RecordStart(file, rec + 1)
      <4>1. cur.pos > cut /\ cur.pos <= NextStart
        BY <3>3 DEF NextStart
      <4> QED
        BY <1>2, <2>1, <4>1
    <3> QED
      BY <1>2, <3>1, <3>2, <3>3 DEF SegmentPlaced
  <2>3. cur.pos < cut /\ cur.pos # NextStart
    BY <1>2, <2>1, <2>2
  <2>4. HeaderPlaced(rec + 1, cur)
    BY <1>2, <2>1, <2>3, RecordLeft
  <2> QED
    BY <1>1, <1>2, <2>4, ProcessedPlaced
<1>4. CASE Record.lie = 0
  <2>1. /\ \/ cur.pos = NextStart
           \/ cut < cur.pos /\ cur.pos <= NextStart /\ AcceptedCut
        /\ cur.pos = NextStart /\ cur.pos > cut => AcceptedCut
    <3>1. CASE cur.pos <= cut /\ Ends(rec, cur)
      <4>1. cur.pos + 0 = NextStart + 0
        BY <1>1, <1>4, <3>1 DEF Ends, NextStart, Record
      <4>2. cur.pos = NextStart /\ ~(cur.pos > cut)
        BY <1>2, <3>1, <4>1
      <4> QED
        BY <4>2
    <3>2. CASE cur.pos > cut /\ cur.pos <= RecordStart(file, rec + 1) /\ (cur.left = 0 => AcceptedCut)
      <4>1. cut < cur.pos /\ cur.pos <= NextStart /\ AcceptedCut
        BY <1>1, <1>2, <3>2 DEF NextStart
      <4> QED
        BY <4>1
    <3> QED
      BY <1>2, <1>4, <3>1, <3>2 DEF SegmentPlaced, Record
  <2>2. HeaderPlaced(rec + 1, cur)
    BY <1>2, <1>4, <2>1, RecordPassed
  <2> QED
    BY <1>1, <1>2, <2>2, ProcessedPlaced
<1> QED
  BY <1>3, <1>4

\* In an intact file the reader is before an item, or at the end with nothing left.
LEMMA IntactSegment ==
  ASSUME PlaceInv, MoreData, Intact
  PROVE  ~cur.err /\ cur.pos < cut /\ InStep
<1>1. /\ Given /\ rec <= Count /\ SegmentPlaced(rec, seg.item, cur) /\ cur \in Cursor /\ cur.pos \in Int /\ cur.left \in Int
      /\ cut \in Nat /\ NextStart \in Nat /\ cur.left # 0
      /\ seg.item \in 1..(Len(Record.items) + 1) /\ Len(Record.items) \in Nat
      /\ ItemStart(file, rec, seg.item) <= NextStart /\ Record.tag = "HEAP_DUMP_SEGMENT"
      /\ rec \in 1..Len(file.records)
  BY InSegment DEF MoreData
<1>2. Record.lie = 0 /\ NextStart <= cut
  BY <1>1, IntactRecord
<1>3. ~(cur.pos > cut /\ cur.pos <= RecordStart(file, rec + 1))
  <2>1. ~(cur.pos > cut /\ cur.pos <= NextStart)
    BY <1>1, <1>2
  <2> QED
    BY <2>1 DEF NextStart
<1>4. ~cur.err /\ cur.pos = ItemStart(file, rec, seg.item) /\ Ends(rec, cur)
  BY <1>1, <1>2, <1>3 DEF SegmentPlaced, Record
<1>5. cur.pos + cur.left = NextStart + 0
  BY <1>2, <1>4 DEF Ends, NextStart, Record
<1>6. cur.pos < NextStart /\ cur.pos < cut
  BY <1>1, <1>2, <1>4, <1>5
<1>7. seg.item # Len(Record.items) + 1
  <2>1. file \in Files
    BY <1>1 DEF Given
  <2>2. ItemStart(file, rec, Len(Record.items) + 1) = NextStart
    BY <1>1, <2>1, ItemsTiled DEF Record, NextStart
  <2> QED
    BY <1>1, <1>4, <1>6, <2>2
<1>8. seg.item <= Len(Record.items)
  BY <1>1, <1>7
<1> QED
  BY <1>4, <1>6, <1>8 DEF InStep

\* Where the segment is given up.
LEMMA GivenUpPlaced == PlaceInv /\ (SubtypeLost \/ SegmentAstray \/ UnknownSubtype) => PlaceInv'
<1> SUFFICES ASSUME PlaceInv, SubtypeLost \/ SegmentAstray \/ UnknownSubtype PROVE PlaceInv'
  OBVIOUS
<1>1. MoreData /\ (Failed \/ Astray) /\ stage = "segment"
  BY DEF SubtypeLost, SegmentAstray, UnknownSubtype, MoreData
<1>2. ~Intact
  <2> SUFFICES ASSUME Intact PROVE FALSE
    OBVIOUS
  <2>1. ~cur.err /\ cur.pos < cut /\ InStep
    BY <1>1, IntactSegment
  <2>2. cur.pos \in Int /\ cut \in Nat /\ Given /\ rec <= Count
    BY <1>1, InSegment
  <2>3. ~(cur.pos >= cut)
    BY <2>1, <2>2
  <2>4. UnknownSubtype
    BY <2>1, <2>3 DEF SubtypeLost, SegmentAstray
  <2>5. seg.item \in DOMAIN Record.items
    <3>1. seg.item \in 1..(Len(Record.items) + 1) /\ seg.item <= Len(Record.items) /\ Len(Record.items) \in Nat
      BY <1>1, <2>1, InSegment DEF InStep
    <3>2. seg.item \in 1..Len(Record.items)
      BY <3>1
    <3>3. file \in Files /\ rec \in 1..Len(file.records)
      BY <2>2, InRecord DEF Count
    <3> QED
      BY <3>2, <3>3, ItemsTiled DEF Record
  <2>6. Item.kind \in ObjectKinds \cup BareRoots \cup DOMAIN RootInts \cup {"nodata", "info"}
    BY <2>2, <2>5, IntactRecord DEF Item
  <2> QED
    BY <2>4, <2>6 DEF UnknownSubtype
<1> QED
  BY <1>1, <1>2, FailedPlaced

\* What has ended stays, and so does what takes no step.
LEMMA StayPlaced == PlaceInv /\ (Ended \/ UNCHANGED vars) => PlaceInv'
<1> SUFFICES ASSUME PlaceInv, Ended \/ UNCHANGED vars PROVE PlaceInv'
  OBVIOUS
<1>1. UNCHANGED vars /\ UNCHANGED input
  BY DEF Ended, vars, input
<1>2. /\ Intact' = Intact /\ MayEnd' = MayEnd /\ AcceptedCut' = AcceptedCut /\ Truthful' = Truthful /\ Complete' = Complete
      /\ Count' = Count /\ file' = file /\ cut' = cut
  BY <1>1, SameFile
<1>3. /\ stage' = stage /\ rec' = rec /\ cur' = cur /\ seg' = seg /\ idSize' = idSize
  BY <1>1 DEF vars
<1>4. SegmentsTrue(rec)' = SegmentsTrue(rec)
  BY <1>2, <1>3 DEF SegmentsTrue, Indices
<1>5. HeaderPlaced(rec, cur)' = HeaderPlaced(rec, cur)
  BY <1>2, <1>3, <1>4 DEF HeaderPlaced
<1>6. BodyPlaced(rec, cur)' = BodyPlaced(rec, cur)
  BY <1>2, <1>3, <1>4 DEF BodyPlaced
<1>7. SegmentPlaced(rec, seg.item, cur)' = SegmentPlaced(rec, seg.item, cur)
  BY <1>2, <1>3, <1>4 DEF SegmentPlaced, Ends
<1>8. Given' = Given
  BY <1>2, <1>3 DEF Given
<1> QED
  BY <1>2, <1>3, <1>4, <1>5, <1>6, <1>7, <1>8 DEF PlaceInv, SegShape

\* The start.
LEMMA InitPlaced == Init => PlaceInv
<1> SUFFICES ASSUME Init PROVE PlaceInv
  OBVIOUS
<1>1. /\ file \in Files /\ cut \in 0..FileBytes(file) /\ stage = "start" /\ rec = 1
      /\ cur = [pos |-> 0, left |-> 0, err |-> FALSE]
      /\ (\E n \in 1..Len(file.records) : file.records[n].lie # 0) => cut = FileBytes(file)
  BY DEF Init
<1>2. Count \in Nat /\ DOMAIN file.records = 1..Len(file.records)
  BY <1>1, FileShape DEF Count
<1>3. FileBytes(file) \in Nat
  BY <1>1, <1>2, RecordsTiled DEF Count
<1>4. cut \in Nat /\ cut <= FileBytes(file)
  BY <1>1, <1>3
<1>5. Truthful \/ Complete
  BY <1>1, <1>2 DEF Truthful, Complete
<1>6. cur \in Cursor /\ rec \in 1..(Count + 1)
  BY <1>1, <1>2 DEF Cursor
<1> QED
  BY <1>1, <1>4, <1>5, <1>6 DEF PlaceInv, Given

\* Every step.
LEMMA PlaceSteps == PlaceInv /\ [Next]_vars => PlaceInv'
BY Utf8Placed, LoadClassPlaced, StackFramePlaced, StackTracePlaced, EndRecordPlaced, UnsupportedPlaced, EnterPlaced,
   UnreadablePlaced, FileHeaderPlaced, NoMorePlaced, TruncatedPlaced, NextPlaced, AstrayPlaced, InstancePlaced,
   ObjectsPlaced, PrimitivesPlaced, NoDataPlaced, InfoPlaced, RootPlaced, ClassPlaced, ClassFailedPlaced,
   EndSegmentPlaced, GivenUpPlaced, StayPlaced, Zenon DEF Next

\* The reader is where PlaceInv says.
THEOREM Placed == Spec => []PlaceInv
BY InitPlaced, PlaceSteps, PTL DEF Spec

\* SegmentSizeChecked: a segment that declares another size than its items have is never
\* part of an accepted complete file.
THEOREM SizesChecked == Spec => []SegmentSizeChecked
<1>1. PlaceInv => SegmentSizeChecked
  BY DEF PlaceInv, SegmentSizeChecked, SegmentsTrue
<1> QED
  BY <1>1, Placed, PTL

\* AcceptedTruncations: only the cuts it lists are accepted.
THEOREM TruncationsAccepted == Spec => []AcceptedTruncations
<1>1. PlaceInv => AcceptedTruncations
  BY DEF PlaceInv, AcceptedTruncations, MayEnd
<1> QED
  BY <1>1, Placed, PTL

\* The first half of CompleteFileLoads, proved without the content: no complete file of supported records, with the
\* sizes it declares, is refused, and none is left before its last record.
IntactAccepted == Intact => /\ stage \notin {"error", "aborted", "astray"}
                            /\ stage = "loaded" => rec = Count + 1

\* It holds of every state the reader comes to.
THEOREM IntactNotRefused == Spec => []IntactAccepted
<1>1. PlaceInv => IntactAccepted
  BY DEF PlaceInv, IntactAccepted
<1> QED
  BY <1>1, Placed, PTL

-------------------------------------------------------------------------------
(* Sequences joined one behind the other. *)

\* Some sequences are joined one by one.
LEMMA JoinedSteps ==
  ASSUME NEW N \in Nat, NEW S, NEW parts, \A k \in 1..N : parts[k] \in Seq(S)
  PROVE  /\ Joined(parts, 0) = <<>>
         /\ \A n \in 0..N : Joined(parts, n) \in Seq(S)
         /\ \A n \in 1..N : Joined(parts, n) = Joined(parts, n - 1) \o parts[n]
<1> DEFINE A == Seq(S)
<1> DEFINE Cat(s, t) == s \o t
<1> DEFINE step == [p \in (1..N) \X A |-> Cat(p[2], parts[p[1]])]
<1>0. <<>> \in A /\ (\A s, t \in A : Cat(s, t) \in A) /\ \A k \in 1..N : parts[k] \in A
  BY EmptySeq, ConcatProperties
<1> HIDE DEF A, Cat
<1>1. step \in [(1..N) \X A -> A]
  BY <1>0 DEF A
<1>2. PICK f \in [0..N -> A] : f[0] = <<>> /\ \A n \in 1..N : f[n] = step[<<n, f[n - 1]>>]
  <2> HIDE DEF step
  <2>1. Defines(N, A, <<>>, step)
    BY <1>0, <1>1, RecursionExists
  <2> QED
    BY <2>1 DEF Defines
<1>3. ASSUME NEW n \in 1..N PROVE f[n] = Cat(f[n - 1], parts[n]) /\ f[n - 1] \in A
  <2>1. n - 1 \in 0..N
    OBVIOUS
  <2>2. f[n - 1] \in A /\ <<n, f[n - 1]>> \in (1..N) \X A
    BY <2>1
  <2>3. step[<<n, f[n - 1]>>] = Cat(f[n - 1], parts[n])
    BY <2>2
  <2> QED
    BY <1>2, <2>2, <2>3
<1>4. ASSUME NEW n \in 0..N PROVE Joined(parts, n) = f[n]
  <2> DEFINE Is(joined) == joined = [k \in 0..n |-> IF k = 0 THEN <<>> ELSE Cat(joined[k - 1], parts[k])]
  <2> DEFINE g == [k \in 0..n |-> f[k]]
  <2> DEFINE h == CHOOSE joined : Is(joined)
  <2>1. ASSUME NEW k \in 0..n PROVE g[k] = IF k = 0 THEN <<>> ELSE Cat(g[k - 1], parts[k])
    <3>1. k # 0 => k - 1 \in 0..n /\ k \in 1..N
      OBVIOUS
    <3> QED
      BY <1>2, <1>3, <3>1
  <2>2. Is(g)
    <3> SUFFICES g = [k \in 0..n |-> IF k = 0 THEN <<>> ELSE Cat(g[k - 1], parts[k])]
      OBVIOUS
    <3> HIDE DEF g
    <3>1. DOMAIN g = 0..n /\ g = [k \in 0..n |-> g[k]]
      BY DEF g
    <3> QED
      BY <2>1, <3>1
  <2>3. Is(h)
    <3> HIDE DEF Is, g
    <3> QED
      BY <2>2
  <2>4. h[0] = f[0]
    <3> HIDE DEF h
    <3> QED
      BY <1>2, <2>3
  <2>5. ASSUME NEW k \in 1..n, h[k - 1] = f[k - 1] PROVE h[k] = f[k]
    <3>1. h[k] = Cat(h[k - 1], parts[k])
      <4> HIDE DEF h
      <4> QED
        BY <2>3
    <3> HIDE DEF h
    <3> QED
      BY <1>3, <2>5, <3>1
  <2>6. h[n] = f[n]
    <3> HIDE DEF h
    <3>1. n \in Nat /\ \A k \in 1..n : h[k - 1] = f[k - 1] => h[k] = f[k]
      BY <2>5
    <3> QED
      BY <2>4, <3>1, SameEnd
  <2> QED
    BY <2>6 DEF Joined, Cat
<1> HIDE DEF step
<1>5. ASSUME NEW n \in 1..N PROVE Joined(parts, n) = Cat(Joined(parts, n - 1), parts[n])
  <2>1. n - 1 \in 0..N /\ n \in 0..N
    OBVIOUS
  <2> QED
    BY <1>3, <1>4, <2>1
<1>6. \A n \in 0..N : Joined(parts, n) \in A
  BY <1>2, <1>4
<1>7. Joined(parts, 0) = <<>>
  BY <1>2, <1>4
<1> QED
  BY <1>5, <1>6, <1>7 DEF A, Cat

\* Nothing is joined after the last that is not empty.
LEMMA JoinedEnds ==
  ASSUME NEW N \in Nat, NEW S, NEW parts, \A k \in 1..N : parts[k] \in Seq(S),
         NEW m \in 0..N, \A k \in (m + 1)..N : parts[k] = <<>>
  PROVE  \A n \in m..N : Joined(parts, n) = Joined(parts, m)
<1> DEFINE T == {k \in 0..(N - m) : Joined(parts, m + k) = Joined(parts, m)}
<1>1. /\ \A n \in 0..N : Joined(parts, n) \in Seq(S)
      /\ \A n \in 1..N : Joined(parts, n) = Joined(parts, n - 1) \o parts[n]
  BY JoinedSteps
<1>2. 0 \in T
  OBVIOUS
<1>3. ASSUME NEW k \in 0..((N - m) - 1), k \in T PROVE k + 1 \in T
  <2>1. m + (k + 1) \in 1..N /\ m + (k + 1) \in (m + 1)..N /\ (m + (k + 1)) - 1 = m + k /\ m + k \in 0..N
        /\ k + 1 \in 0..(N - m)
    OBVIOUS
  <2>2. Joined(parts, m + (k + 1)) = Joined(parts, m + k) \o <<>>
    BY <1>1, <2>1
  <2>3. Joined(parts, m + k) \in Seq(S)
    BY <1>1, <2>1
  <2>4. Joined(parts, m + k) \o <<>> = Joined(parts, m + k)
    BY <2>3, ConcatEmptySeq
  <2> QED
    BY <1>3, <2>1, <2>2, <2>4
<1>4. N - m \in Nat
  OBVIOUS
<1>5. \A k \in 0..(N - m) : k \in T
  <2> HIDE DEF T
  <2> QED
    BY <1>2, <1>3, <1>4, InductionTo
<1>6. ASSUME NEW n \in m..N PROVE Joined(parts, n) = Joined(parts, m)
  <2>1. n - m \in 0..(N - m) /\ m + (n - m) = n
    OBVIOUS
  <2> QED
    BY <1>5, <2>1
<1> QED
  BY <1>6

\* A prefix, place by place.
LEMMA Prefix ==
  ASSUME NEW S, NEW s \in Seq(S), NEW T, NEW t \in Seq(T)
  PROVE  IsPrefix(s, t) <=> Len(s) <= Len(t) /\ \A i \in 1..Len(s) : s[i] = t[i]
<1>1. Len(s) \in Nat /\ Len(t) \in Nat
  OBVIOUS
<1> DEFINE a == SubSeq(s, 1, Len(s))
<1> DEFINE b == SubSeq(t, 1, Len(s))
<1>2. a = s
  BY SubSeqFull
<1>3. ASSUME Len(s) <= Len(t)
      PROVE  b \in Seq(T) /\ Len(b) = Len(s) /\ \A i \in 1..Len(s) : b[i] = t[i]
  <2>1. \A i \in 1..Len(s) : t[i] \in T
    BY <1>1, <1>3, ElementOfSeq
  <2>2. b \in Seq(T) /\ Len(b) = (IF 1 <= Len(s) THEN Len(s) - 1 + 1 ELSE 0)
        /\ \A i \in 1..(Len(s) - 1 + 1) : b[i] = t[1 + i - 1]
    <3> DEFINE m == Len(s)
    <3>1. m \in Int /\ 1 \in Int /\ \A i \in 1..m : t[i] \in T
      BY <1>1, <2>1
    <3> HIDE DEF m
    <3>2. /\ SubSeq(t, 1, m) \in Seq(T) /\ Len(SubSeq(t, 1, m)) = IF 1 <= m THEN m - 1 + 1 ELSE 0
          /\ \A i \in 1..(m - 1 + 1) : SubSeq(t, 1, m)[i] = t[1 + i - 1]
      BY <3>1, SubSeqProperties
    <3> QED
      BY <3>2 DEF m
  <2> HIDE DEF b
  <2>3. Len(b) = Len(s)
    BY <1>1, <2>2
  <2>4. ASSUME NEW i \in 1..Len(s) PROVE b[i] = t[i]
    <3>1. i \in 1..(Len(s) - 1 + 1) /\ 1 + i - 1 = i
      BY <1>1
    <3> QED
      BY <2>2, <3>1
  <2> QED
    BY <2>2, <2>3, <2>4
<1>4. IsPrefix(s, t) <=> Len(s) <= Len(t) /\ a = b
  BY DEF IsPrefix
<1> HIDE DEF a, b
<1>5. ASSUME Len(s) <= Len(t), \A i \in 1..Len(s) : s[i] = t[i] PROVE a = b
  <2>1. s \in Seq(S \cup T) /\ b \in Seq(S \cup T)
    BY <1>3, <1>5, SeqMonotonic
  <2>2. Len(s) = Len(b) /\ \A i \in 1..Len(s) : s[i] = b[i]
    BY <1>3, <1>5
  <2> QED
    BY <1>2, <2>1, <2>2, SeqEqual
<1>6. ASSUME Len(s) <= Len(t), a = b PROVE \A i \in 1..Len(s) : s[i] = t[i]
  BY <1>2, <1>3, <1>6
<1> QED
  BY <1>4, <1>5, <1>6

-------------------------------------------------------------------------------
(* What is whole of a file, and what that makes. *)

\* Things from the items of the records.
Parted(parts, S) == \A n \in 1..Count : \A k \in 1..Len(file.records[n].items) : parts[n][k] \in Seq(S)

\* Those numbers are an interval that begins with 1.
LEMMA BeginningCounted ==
  ASSUME NEW N \in Nat, NEW m \in 0..N, NEW T, T \subseteq 1..N, \A k \in 1..N : k \in T <=> k <= m
  PROVE  Cardinality(T) = m
<1>1. T = 1..m
  <2>1. ASSUME NEW k \in T PROVE k \in 1..m
    OBVIOUS
  <2>2. ASSUME NEW k \in 1..m PROVE k \in T
    OBVIOUS
  <2> QED
    BY <2>1, <2>2
<1>2. Cardinality(1..m) = IF 1 > m THEN 0 ELSE m - 1 + 1
  BY FS_Interval
<1>3. Cardinality(1..m) = m
  BY <1>2
<1> QED
  BY <1>1, <1>3

\* The first m items are whole.
LEMMA WholeItemsAre ==
  ASSUME file \in Files, cut \in Int, NEW n \in 1..Count, NEW m \in 0..Len(file.records[n].items),
         m # 0 => ItemStart(file, n, m + 1) <= cut,
         m # Len(file.records[n].items) => cut < ItemStart(file, n, m + 2)
  PROVE  WholeItems(n) = m
<1> DEFINE N == Len(file.records[n].items)
<1> DEFINE T == {k \in DOMAIN file.records[n].items : ItemStart(file, n, k + 1) <= cut}
<1>1. /\ N \in Nat /\ DOMAIN file.records[n].items = 1..N
      /\ \A k \in 1..(N + 1) : ItemStart(file, n, k) \in Nat
      /\ \A k, j \in 1..(N + 1) : k <= j => ItemStart(file, n, k) <= ItemStart(file, n, j)
  BY ItemsTiled DEF Count
<1>2. ASSUME NEW k \in 1..N PROVE k \in T <=> k <= m
  <2>1. k + 1 \in 1..(N + 1) /\ m \in Nat
    BY <1>1
  <2>2. CASE k <= m
    <3>1. m + 1 \in 1..(N + 1) /\ m # 0 /\ k + 1 <= m + 1
      BY <2>1, <2>2
    <3>2. ItemStart(file, n, k + 1) <= ItemStart(file, n, m + 1)
      BY <1>1, <2>1, <3>1
    <3>3. ItemStart(file, n, k + 1) \in Nat /\ ItemStart(file, n, m + 1) \in Nat
      BY <1>1, <2>1, <3>1
    <3>4. ItemStart(file, n, k + 1) <= cut
      BY <3>1, <3>2, <3>3
    <3> QED
      BY <1>1, <2>2, <3>4
  <2>3. CASE ~(k <= m)
    <3>1. m + 2 \in 1..(N + 1) /\ m # N /\ m + 2 <= k + 1
      BY <1>1, <2>1, <2>3
    <3>2. ItemStart(file, n, m + 2) <= ItemStart(file, n, k + 1)
      BY <1>1, <2>1, <3>1
    <3>3. ItemStart(file, n, k + 1) \in Nat /\ ItemStart(file, n, m + 2) \in Nat
      BY <1>1, <2>1, <3>1
    <3>4. ~(ItemStart(file, n, k + 1) <= cut)
      BY <3>1, <3>2, <3>3
    <3> QED
      BY <2>3, <3>4
  <2> QED
    BY <2>2, <2>3
<1>3. T \subseteq 1..N
  BY <1>1
<1>4. WholeItems(n) = Cardinality(T)
  BY DEF WholeItems
<1> HIDE DEF T
<1> QED
  BY <1>1, <1>2, <1>3, <1>4, BeginningCounted

\* The first m records are whole.
LEMMA WholeRecordsAre ==
  ASSUME file \in Files, cut \in Int, NEW m \in 0..Count,
         m # 0 => RecordStart(file, m + 1) <= cut,
         m # Count => cut < RecordStart(file, m + 2)
  PROVE  WholeRecords = m
<1> DEFINE T == {n \in DOMAIN file.records : RecordStart(file, n + 1) <= cut}
<1>1. /\ Count \in Nat /\ DOMAIN file.records = 1..Count
      /\ \A k \in 1..(Count + 1) : RecordStart(file, k) \in Nat
      /\ \A k, j \in 1..(Count + 1) : k <= j => RecordStart(file, k) <= RecordStart(file, j)
  BY RecordsTiled, FileShape DEF Count
<1>2. ASSUME NEW k \in 1..Count PROVE k \in T <=> k <= m
  <2>1. k + 1 \in 1..(Count + 1) /\ m \in Nat
    BY <1>1
  <2>2. CASE k <= m
    <3>1. m + 1 \in 1..(Count + 1) /\ m # 0 /\ k + 1 <= m + 1
      BY <1>1, <2>1, <2>2
    <3>2. RecordStart(file, k + 1) <= RecordStart(file, m + 1)
      BY <1>1, <2>1, <3>1
    <3>3. RecordStart(file, k + 1) \in Nat /\ RecordStart(file, m + 1) \in Nat
      BY <1>1, <2>1, <3>1
    <3>4. RecordStart(file, k + 1) <= cut
      BY <3>1, <3>2, <3>3
    <3> QED
      BY <1>1, <2>2, <3>4
  <2>3. CASE ~(k <= m)
    <3>1. m + 2 \in 1..(Count + 1) /\ m # Count /\ m + 2 <= k + 1
      BY <1>1, <2>1, <2>3
    <3>2. RecordStart(file, m + 2) <= RecordStart(file, k + 1)
      BY <1>1, <2>1, <3>1
    <3>3. RecordStart(file, k + 1) \in Nat /\ RecordStart(file, m + 2) \in Nat
      BY <1>1, <2>1, <3>1
    <3>4. ~(RecordStart(file, k + 1) <= cut)
      BY <3>1, <3>2, <3>3
    <3> QED
      BY <2>3, <3>4
  <2> QED
    BY <2>2, <2>3
<1>3. T \subseteq 1..Count
  BY <1>1
<1>4. WholeRecords = Cardinality(T)
  BY DEF WholeRecords
<1> HIDE DEF T
<1> QED
  BY <1>1, <1>2, <1>3, <1>4, BeginningCounted

\* What the whole items make, record by record.
LEMMA UpToSteps ==
  ASSUME file \in Files, NEW parts, NEW S, Parted(parts, S)
  PROVE  /\ Count \in Nat /\ DOMAIN file.records = 1..Count
         /\ UpTo(parts, 0) = <<>>
         /\ \A n \in 0..Count : UpTo(parts, n) \in Seq(S)
         /\ \A n \in 1..Count : /\ WholeParts(parts)[n] \in Seq(S)
                                /\ UpTo(parts, n) = UpTo(parts, n - 1) \o WholeParts(parts)[n]
                                /\ \A m \in 0..Len(file.records[n].items) : Joined(parts[n], m) \in Seq(S)
                                /\ WholeParts(parts)[n] = IF file.records[n].tag = "HEAP_DUMP_SEGMENT"
                                                          THEN Joined(parts[n], WholeItems(n)) ELSE <<>>
<1>1. Count \in Nat /\ DOMAIN file.records = 1..Count
  BY FileShape DEF Count
<1>2. ASSUME NEW n \in 1..Count
      PROVE  /\ \A m \in 0..Len(file.records[n].items) : Joined(parts[n], m) \in Seq(S)
             /\ WholeParts(parts)[n] = IF file.records[n].tag = "HEAP_DUMP_SEGMENT"
                                       THEN Joined(parts[n], WholeItems(n)) ELSE <<>>
             /\ WholeParts(parts)[n] \in Seq(S)
  <2> DEFINE N == Len(file.records[n].items)
  <2> DEFINE T == {k \in DOMAIN file.records[n].items : ItemStart(file, n, k + 1) <= cut}
  <2>1. N \in Nat /\ DOMAIN file.records[n].items = 1..N
    BY ItemsTiled, Zenon DEF Count
  <2>2. \A k \in 1..N : parts[n][k] \in Seq(S)
    BY DEF Parted
  <2>3. \A m \in 0..N : Joined(parts[n], m) \in Seq(S)
    <3> DEFINE q == parts[n]
    <3>1. \A k \in 1..N : q[k] \in Seq(S)
      BY <2>2
    <3> HIDE DEF q, N
    <3>2. \A m \in 0..N : Joined(q, m) \in Seq(S)
      BY <2>1, <3>1, JoinedSteps
    <3> QED
      BY <3>2 DEF q
  <2>4. WholeItems(n) \in 0..N
    <3>1. T \subseteq 1..N
      BY <2>1
    <3>2. IsFiniteSet(1..N) /\ Cardinality(1..N) = N
      BY <2>1, FS_Interval
    <3>3. WholeItems(n) = Cardinality(T)
      BY DEF WholeItems
    <3> HIDE DEF T
    <3>4. IsFiniteSet(T) /\ Cardinality(T) <= N
      BY <3>1, <3>2, FS_Subset
    <3>5. Cardinality(T) \in Nat
      BY <3>4, FS_CardinalityType
    <3> QED
      BY <2>1, <3>3, <3>4, <3>5
  <2>5. WholeParts(parts)[n] = IF file.records[n].tag = "HEAP_DUMP_SEGMENT"
                               THEN Joined(parts[n], WholeItems(n)) ELSE <<>>
    BY <1>1 DEF WholeParts, Indices
  <2>6. <<>> \in Seq(S)
    BY EmptySeq
  <2> QED
    BY <2>3, <2>4, <2>5, <2>6
<1>3. /\ UpTo(parts, 0) = <<>>
      /\ \A n \in 0..Count : UpTo(parts, n) \in Seq(S)
      /\ \A n \in 1..Count : UpTo(parts, n) = UpTo(parts, n - 1) \o WholeParts(parts)[n]
  <2> DEFINE q == WholeParts(parts)
  <2>1. \A k \in 1..Count : q[k] \in Seq(S)
    BY <1>2
  <2> HIDE DEF q
  <2>2. /\ Joined(q, 0) = <<>>
        /\ \A n \in 0..Count : Joined(q, n) \in Seq(S)
        /\ \A n \in 1..Count : Joined(q, n) = Joined(q, n - 1) \o q[n]
    BY <1>1, <2>1, JoinedSteps
  <2> QED
    BY <2>2 DEF UpTo, q
<1> QED
  BY <1>1, <1>2, <1>3

\* Nothing comes from records none of whose items is whole.
LEMMA NothingBehind ==
  ASSUME file \in Files, NEW parts, NEW S, Parted(parts, S), NEW m \in 0..Count,
         \A n \in (m + 1)..Count : file.records[n].tag = "HEAP_DUMP_SEGMENT" => WholeItems(n) = 0
  PROVE  UpTo(parts, Count) = UpTo(parts, m)
<1> DEFINE q == WholeParts(parts)
<1>1. /\ Count \in Nat
      /\ \A n \in 1..Count : q[n] \in Seq(S)
  BY UpToSteps
<1>2. \A n \in (m + 1)..Count : q[n] = <<>>
  <2> TAKE n \in (m + 1)..Count
  <2>1. n \in 1..Count
    BY <1>1
  <2>2. \A k \in 1..Len(file.records[n].items) : parts[n][k] \in Seq(S)
    BY <2>1 DEF Parted
  <2>3. Joined(parts[n], 0) = <<>>
    <3> DEFINE N == Len(file.records[n].items)
    <3> DEFINE p == parts[n]
    <3>1. N \in Nat /\ \A k \in 1..N : p[k] \in Seq(S)
      BY <2>1, <2>2, ItemsTiled
    <3> HIDE DEF N, p
    <3>2. Joined(p, 0) = <<>>
      BY <3>1, JoinedSteps
    <3> QED
      BY <3>2 DEF p
  <2>4. q[n] = IF file.records[n].tag = "HEAP_DUMP_SEGMENT" THEN Joined(parts[n], WholeItems(n)) ELSE <<>>
    BY <2>1, UpToSteps
  <2> QED
    BY <2>3, <2>4
<1> HIDE DEF q
<1>3. \A n \in m..Count : Joined(q, n) = Joined(q, m)
  BY <1>1, <1>2, JoinedEnds
<1>4. Count \in m..Count
  BY <1>1
<1>5. Joined(q, Count) = Joined(q, m)
  BY <1>3, <1>4
<1> QED
  BY <1>5 DEF UpTo, q

\* No item is whole of a record that begins behind the cut, or not nine bytes before it.
LEMMA NoItems ==
  ASSUME file \in Files, cut \in Int, NEW n \in 1..Count, cut <= RecordStart(file, n) + 9
  PROVE  WholeItems(n) = 0
<1> DEFINE N == Len(file.records[n].items)
<1>1. /\ N \in Nat
      /\ ItemStart(file, n, 1) = RecordStart(file, n) + 9
      /\ \A k \in 1..(N + 1) : ItemStart(file, n, k) \in Nat
      /\ \A k \in 1..N : /\ ItemBytes(file.records[n].items[k], file.idSize) \in Nat \ {0}
                         /\ ItemStart(file, n, k + 1) = ItemStart(file, n, k) + ItemBytes(file.records[n].items[k], file.idSize)
  BY ItemsTiled DEF Count
<1>2. 0 \in 0..N
  BY <1>1
<1>3. ASSUME 0 # N PROVE cut < ItemStart(file, n, 0 + 2)
  <2>1. 1 \in 1..N
    BY <1>1, <1>3
  <2>2. PICK b \in Nat \ {0} : ItemStart(file, n, 1 + 1) = ItemStart(file, n, 1) + b
    BY <1>1, <2>1
  <2>3. ItemStart(file, n, 1) \in Nat
    BY <1>1, <2>1
  <2>4. ItemStart(file, n, 2) = ItemStart(file, n, 1) + b /\ cut <= ItemStart(file, n, 1)
    BY <1>1, <2>2
  <2> QED
    BY <2>3, <2>4
<1> QED
  BY <1>2, <1>3, WholeItemsAre

\* Where the cut is in a record, those behind it have none.
LEMMA NoItemsBehind ==
  ASSUME file \in Files, cut \in Int, NEW n \in 1..Count, cut < RecordStart(file, n + 1), NEW m \in (n + 1)..Count
  PROVE  WholeItems(m) = 0
<1>1. /\ Count \in Nat
      /\ \A k \in 1..(Count + 1) : RecordStart(file, k) \in Nat
      /\ \A k, j \in 1..(Count + 1) : k <= j => RecordStart(file, k) <= RecordStart(file, j)
  BY RecordsTiled, FileShape DEF Count
<1>2. m \in 1..Count /\ n + 1 \in 1..(Count + 1) /\ m \in 1..(Count + 1) /\ n + 1 <= m
  BY <1>1
<1>3. RecordStart(file, n + 1) <= RecordStart(file, m) /\ RecordStart(file, m) \in Nat /\ RecordStart(file, n + 1) \in Nat
  BY <1>1, <1>2
<1>4. cut <= RecordStart(file, m) + 9
  BY <1>3
<1> QED
  BY <1>2, <1>4, NoItems

\* The cut is before a record, or in one that has no items.
LEMMA RecordCut ==
  ASSUME file \in Files, cut \in Int, NEW parts, NEW S, Parted(parts, S), NEW n \in 1..(Count + 1),
         RecordStart(file, n) <= cut,
         n <= Count => /\ cut < RecordStart(file, n + 1)
                       /\ file.records[n].tag = "HEAP_DUMP_SEGMENT" => cut = RecordStart(file, n)
  PROVE  WholeRecords = n - 1 /\ UpTo(parts, Count) = UpTo(parts, n - 1)
<1>1. Count \in Nat /\ \A k \in 1..(Count + 1) : RecordStart(file, k) \in Nat
  BY RecordsTiled, FileShape DEF Count
<1>2. WholeRecords = n - 1
  <2> DEFINE m == n - 1
  <2>1. m \in 0..Count /\ m + 1 = n /\ m + 2 = n + 1 /\ (m # Count => n <= Count)
    BY <1>1
  <2> HIDE DEF m
  <2>2. m # 0 => RecordStart(file, m + 1) <= cut
    BY <2>1
  <2>3. m # Count => cut < RecordStart(file, m + 2)
    BY <2>1
  <2>4. WholeRecords = m
    BY <2>1, <2>2, <2>3, WholeRecordsAre
  <2> QED
    BY <2>4 DEF m
<1>3. ASSUME NEW k \in ((n - 1) + 1)..Count, file.records[k].tag = "HEAP_DUMP_SEGMENT" PROVE WholeItems(k) = 0
  <2>1. k \in 1..Count /\ n \in 1..Count
    BY <1>1
  <2>2. CASE k = n
    <3>1. cut = RecordStart(file, n) /\ RecordStart(file, n) \in Nat
      BY <1>1, <1>3, <2>1, <2>2
    <3>2. cut <= RecordStart(file, n) + 9
      BY <3>1
    <3> QED
      BY <2>1, <2>2, <3>2, NoItems
  <2>3. CASE k # n
    <3>1. k \in (n + 1)..Count /\ cut < RecordStart(file, n + 1)
      BY <1>1, <2>1, <2>3
    <3> QED
      BY <2>1, <3>1, NoItemsBehind
  <2> QED
    BY <2>2, <2>3
<1>4. n - 1 \in 0..Count
  BY <1>1
<1>5. UpTo(parts, Count) = UpTo(parts, n - 1)
  BY <1>3, <1>4, NothingBehind
<1> QED
  BY <1>2, <1>5

\* The cut is in an item, or before it.
LEMMA ItemCut ==
  ASSUME file \in Files, cut \in Int, NEW parts, NEW S, Parted(parts, S), NEW n \in 1..Count,
         file.records[n].tag = "HEAP_DUMP_SEGMENT", NEW k \in 1..Len(file.records[n].items),
         ItemStart(file, n, k) <= cut, cut < ItemStart(file, n, k + 1)
  PROVE  WholeRecords = n - 1 /\ UpTo(parts, Count) = UpTo(parts, n - 1) \o Joined(parts[n], k - 1)
<1> DEFINE N == Len(file.records[n].items)
<1>1. /\ N \in Nat
      /\ \A i \in 1..(N + 1) : ItemStart(file, n, i) \in Nat
      /\ \A i, j \in 1..(N + 1) : i <= j => ItemStart(file, n, i) <= ItemStart(file, n, j)
      /\ ItemStart(file, n, 1) = RecordStart(file, n) + 9
      /\ ItemStart(file, n, N + 1) = RecordStart(file, n + 1)
  BY ItemsTiled DEF Count
<1>2. Count \in Nat /\ \A i \in 1..(Count + 1) : RecordStart(file, i) \in Nat
  BY RecordsTiled, FileShape DEF Count
<1>3. k \in 1..(N + 1) /\ k + 1 \in 1..(N + 1) /\ N + 1 \in 1..(N + 1) /\ 1 \in 1..(N + 1) /\ 1 <= k /\ k + 1 <= N + 1
  <2>1. N \in Nat /\ k \in 1..N
    BY <1>1
  <2> HIDE DEF N
  <2> QED
    BY <2>1
<1>4. /\ ItemStart(file, n, 1) <= ItemStart(file, n, k) /\ ItemStart(file, n, k + 1) <= ItemStart(file, n, N + 1)
      /\ ItemStart(file, n, 1) \in Nat /\ ItemStart(file, n, k) \in Nat
      /\ ItemStart(file, n, k + 1) \in Nat /\ ItemStart(file, n, N + 1) \in Nat
  BY <1>1, <1>3
<1>5. RecordStart(file, n) \in Nat
  BY <1>2
<1>6. RecordStart(file, n) <= cut /\ cut < RecordStart(file, n + 1)
  BY <1>1, <1>4, <1>5
<1>7. WholeItems(n) = k - 1
  <2> DEFINE m == k - 1
  <2>1. m \in 0..N /\ m + 1 = k /\ m + 2 = k + 1
    BY <1>1
  <2> HIDE DEF m
  <2>2. WholeItems(n) = m
    BY <2>1, WholeItemsAre
  <2> QED
    BY <2>2 DEF m
<1>8. WholeRecords = n - 1
  <2> DEFINE m == n - 1
  <2>1. m \in 0..Count /\ m + 1 = n /\ m + 2 = n + 1
    BY <1>2
  <2> HIDE DEF m
  <2>2. WholeRecords = m
    BY <1>6, <2>1, WholeRecordsAre
  <2> QED
    BY <2>2 DEF m
<1>9. \A m \in (n + 1)..Count : file.records[m].tag = "HEAP_DUMP_SEGMENT" => WholeItems(m) = 0
  BY <1>6, NoItemsBehind
<1>10. n \in 0..Count
  BY <1>2
<1>11. UpTo(parts, Count) = UpTo(parts, n)
  BY <1>9, <1>10, NothingBehind
<1>12. UpTo(parts, n) = UpTo(parts, n - 1) \o WholeParts(parts)[n] /\ WholeParts(parts)[n] = Joined(parts[n], WholeItems(n))
  BY UpToSteps
<1> QED
  BY <1>7, <1>8, <1>11, <1>12

\* A record that is whole.
LEMMA RecordWhole ==
  ASSUME file \in Files, cut \in Int, NEW parts, NEW S, Parted(parts, S), NEW n \in 1..Count
  PROVE  /\ file.records[n].tag # "HEAP_DUMP_SEGMENT" => UpTo(parts, n) = UpTo(parts, n - 1)
         /\ file.records[n].tag = "HEAP_DUMP_SEGMENT" /\ RecordStart(file, n + 1) <= cut =>
              UpTo(parts, n) = UpTo(parts, n - 1) \o Joined(parts[n], Len(file.records[n].items))
<1>1. /\ Count \in Nat /\ n - 1 \in 0..Count
      /\ UpTo(parts, n - 1) \in Seq(S)
      /\ UpTo(parts, n) = UpTo(parts, n - 1) \o WholeParts(parts)[n]
      /\ WholeParts(parts)[n] = IF file.records[n].tag = "HEAP_DUMP_SEGMENT"
                                THEN Joined(parts[n], WholeItems(n)) ELSE <<>>
  <2>1. Count \in Nat
    BY UpToSteps
  <2>2. n - 1 \in 0..Count
    BY <2>1
  <2> QED
    BY <2>1, <2>2, UpToSteps
<1>2. UpTo(parts, n - 1) \o <<>> = UpTo(parts, n - 1)
  BY <1>1, ConcatEmptySeq
<1>3. ASSUME file.records[n].tag = "HEAP_DUMP_SEGMENT", RecordStart(file, n + 1) <= cut
      PROVE  WholeItems(n) = Len(file.records[n].items)
  <2> DEFINE N == Len(file.records[n].items)
  <2>1. N \in Nat /\ ItemStart(file, n, N + 1) = RecordStart(file, n + 1)
    BY <1>3, ItemsTiled DEF Count
  <2>2. N \in 0..N
    BY <2>1
  <2> QED
    BY <1>3, <2>1, <2>2, WholeItemsAre
<1> QED
  BY <1>1, <1>2, <1>3

-------------------------------------------------------------------------------
(* Objects and their heap types. *)
Free(o) == [o EXCEPT !.heap = 0]
In(o, h) == [o EXCEPT !.heap = h]
Freed(S) == {Free(o) : o \in S}

\* A sequence of objects, each of which has a place for its heap type.
HasHeap(o) == "heap" \in DOMAIN o
Heaped(S) == \A o \in S : HasHeap(o)

\* The heap type of an object is all that changes of it.
LEMMA HeapChanges ==
  ASSUME NEW o, HasHeap(o), NEW h
  PROVE  /\ In(o, h).heap = h /\ HasHeap(In(o, h)) /\ Free(In(o, h)) = Free(o)
         /\ Free(o).heap = 0 /\ HasHeap(Free(o)) /\ Free(Free(o)) = Free(o)
BY DEF Free, In, HasHeap

Shaped(a, b, c, d, e, f, g, h) ==
  [kind |-> a, id |-> b, ref |-> c, len |-> d, type |-> e, statics |-> f, fields |-> g, heap |-> h]

\* So it is of a record of the shape that objects have.
LEMMA ShapedHeap ==
  ASSUME NEW a, NEW b, NEW c, NEW d, NEW e, NEW f, NEW g, NEW h
  PROVE  /\ HasHeap(Shaped(a, b, c, d, e, f, g, h)) /\ Shaped(a, b, c, d, e, f, g, h).heap = h
         /\ Free(Shaped(a, b, c, d, e, f, g, h)) = Shaped(a, b, c, d, e, f, g, 0)
         /\ In(Shaped(a, b, c, d, e, f, g, 0), h) = Shaped(a, b, c, d, e, f, g, h)
<1>1. HasHeap(Shaped(a, b, c, d, e, f, g, h)) /\ Shaped(a, b, c, d, e, f, g, h).heap = h
  BY DEF Shaped, HasHeap
<1>2. Free(Shaped(a, b, c, d, e, f, g, h)) = Shaped(a, b, c, d, e, f, g, 0)
  BY DEF Shaped, Free
<1>3. In(Shaped(a, b, c, d, e, f, g, 0), h) = Shaped(a, b, c, d, e, f, g, h)
  BY DEF Shaped, In
<1> QED
  BY <1>1, <1>2, <1>3

\* What was free of a heap type gets it back.
LEMMA HeapBack ==
  ASSUME NEW it, NEW n
  PROVE  /\ HasHeap(ObjectOf(it, n)) /\ ObjectOf(it, n).heap = HeapOf(n)
         /\ In(Free(ObjectOf(it, n)), HeapOf(n)) = ObjectOf(it, n)
         /\ Free(ObjectOf(it, n)) = Shaped(it.kind, it.id, it.ref, it.len, it.type, Specs(it.statics, n), Specs(it.fields, n), 0)
<1>1. ObjectOf(it, n) = Shaped(it.kind, it.id, it.ref, it.len, it.type, Specs(it.statics, n), Specs(it.fields, n), HeapOf(n))
  BY DEF ObjectOf, Shaped
<1> QED
  BY <1>1, ShapedHeap

\* Objects without their heap types.
LEMMA FreeSeq ==
  ASSUME NEW S, NEW s \in Seq(S)
  PROVE  /\ HeapFree(s) \in Seq(Freed(S)) /\ Len(HeapFree(s)) = Len(s) /\ Len(s) \in Nat
         /\ \A i \in 1..Len(s) : HeapFree(s)[i] = Free(s[i])
<1>1. Len(s) \in Nat /\ DOMAIN s = 1..Len(s)
  BY LenProperties
<1>2. HeapFree(s) = [k \in 1..Len(s) |-> Free(s[k])]
  BY <1>1 DEF HeapFree, Free
<1>3. \A k \in 1..Len(s) : Free(s[k]) \in Freed(S)
  BY <1>1, ElementOfSeq DEF Freed
<1> DEFINE N == Len(s)
<1> HIDE DEF N
<1>4. ASSUME NEW t, t = [k \in 1..N |-> Free(s[k])], N \in Nat, \A k \in 1..N : Free(s[k]) \in Freed(S)
      PROVE  t \in Seq(Freed(S)) /\ Len(t) = N /\ \A i \in 1..N : t[i] = Free(s[i])
  <2>1. t \in [1..N -> Freed(S)]
    BY <1>4
  <2>2. t \in Seq(Freed(S))
    BY <1>4, <2>1, SeqDef
  <2>3. Len(t) = N
    BY <1>4, <2>1, <2>2, LenProperties
  <2> QED
    BY <1>4, <2>2, <2>3
<1> QED
  BY <1>1, <1>2, <1>3, <1>4 DEF N

\* Joined before or after.
LEMMA FreeConcat ==
  ASSUME NEW S, NEW s \in Seq(S), NEW t \in Seq(S)
  PROVE  HeapFree(s \o t) = HeapFree(s) \o HeapFree(t)
<1>1. s \o t \in Seq(S) /\ Len(s \o t) = Len(s) + Len(t) /\ Len(s) \in Nat /\ Len(t) \in Nat
      /\ \A i \in 1..(Len(s) + Len(t)) : (s \o t)[i] = IF i <= Len(s) THEN s[i] ELSE t[i - Len(s)]
  BY ConcatProperties, LenProperties
<1> DEFINE a == HeapFree(s \o t)
<1> DEFINE b == HeapFree(s)
<1> DEFINE c == HeapFree(t)
<1>2. a \in Seq(Freed(S)) /\ Len(a) = Len(s) + Len(t) /\ \A i \in 1..(Len(s) + Len(t)) : a[i] = Free((s \o t)[i])
  BY <1>1, FreeSeq
<1>3. b \in Seq(Freed(S)) /\ Len(b) = Len(s) /\ \A i \in 1..Len(s) : b[i] = Free(s[i])
  BY FreeSeq
<1>4. c \in Seq(Freed(S)) /\ Len(c) = Len(t) /\ \A i \in 1..Len(t) : c[i] = Free(t[i])
  BY FreeSeq
<1> HIDE DEF a, b, c
<1>5. b \o c \in Seq(Freed(S)) /\ Len(b \o c) = Len(b) + Len(c)
       /\ \A i \in 1..(Len(b) + Len(c)) : (b \o c)[i] = IF i <= Len(b) THEN b[i] ELSE c[i - Len(b)]
  <2> DEFINE T == Freed(S)
  <2>1. b \in Seq(T) /\ c \in Seq(T)
    BY <1>3, <1>4
  <2> HIDE DEF T
  <2>2. b \o c \in Seq(T) /\ Len(b \o c) = Len(b) + Len(c)
        /\ \A i \in 1..(Len(b) + Len(c)) : (b \o c)[i] = IF i <= Len(b) THEN b[i] ELSE c[i - Len(b)]
    BY <2>1, ConcatProperties
  <2> QED
    BY <2>2 DEF T
<1>6. ASSUME NEW i \in 1..(Len(s) + Len(t)) PROVE a[i] = (b \o c)[i]
  <2>1. CASE i <= Len(s)
    <3>1. i \in 1..Len(s)
      BY <1>1, <2>1
    <3> QED
      BY <1>1, <1>2, <1>3, <1>4, <1>5, <2>1, <3>1
  <2>2. CASE ~(i <= Len(s))
    <3>1. i - Len(s) \in 1..Len(t)
      BY <1>1, <2>2
    <3> QED
      BY <1>1, <1>2, <1>3, <1>4, <1>5, <2>2, <3>1
  <2> QED
    BY <2>1, <2>2
<1>7. a = b \o c
  <2> DEFINE d == b \o c
  <2>1. d \in Seq(Freed(S)) /\ Len(d) = Len(a) /\ \A i \in 1..Len(a) : a[i] = d[i]
    BY <1>2, <1>3, <1>4, <1>5, <1>6
  <2> HIDE DEF d
  <2>2. a = d
    BY <1>2, <2>1, SeqEqual
  <2> QED
    BY <2>2 DEF d
<1> QED
  BY <1>7 DEF a, b, c

\* Once is enough.
LEMMA FreeTwice ==
  ASSUME NEW S, Heaped(S), NEW s \in Seq(S)
  PROVE  HeapFree(HeapFree(s)) = HeapFree(s)
<1> DEFINE a == HeapFree(s)
<1>1. a \in Seq(Freed(S)) /\ Len(a) = Len(s) /\ Len(s) \in Nat /\ \A i \in 1..Len(s) : a[i] = Free(s[i])
  BY FreeSeq
<1>2. \A i \in 1..Len(s) : HasHeap(s[i])
  BY ElementOfSeq DEF Heaped
<1> HIDE DEF a
<1> DEFINE b == HeapFree(a)
<1>3. b \in Seq(Freed(Freed(S))) /\ Len(b) = Len(a) /\ \A i \in 1..Len(a) : b[i] = Free(a[i])
  BY <1>1, FreeSeq
<1> HIDE DEF b
<1>4. \A i \in 1..Len(a) : b[i] = a[i]
  BY <1>1, <1>2, <1>3, HeapChanges
<1>5. b = a
  <2>1. a \in Seq(Freed(S) \cup Freed(Freed(S))) /\ b \in Seq(Freed(S) \cup Freed(Freed(S)))
    BY <1>1, <1>3, SeqMonotonic
  <2> QED
    BY <1>3, <1>4, <2>1, SeqEqual
<1> QED
  BY <1>5 DEF a, b

\* Three sequences may be joined from either end.
JoinsFromEither(s, t, u) == (s \o t) \o u = s \o (t \o u)

\* And they are.
LEMMA Associative == ASSUME NEW S, NEW s \in Seq(S), NEW t \in Seq(S), NEW u \in Seq(S) PROVE JoinsFromEither(s, t, u)
BY ConcatAssociative DEF JoinsFromEither

\* The beginning of two sequences that are joined.
LEMMA PrefixOfConcat ==
  ASSUME NEW S, NEW s \in Seq(S), NEW t \in Seq(S)
  PROVE  IsPrefix(s, s \o t)
<1>1. s \o t \in Seq(S) /\ Len(s \o t) = Len(s) + Len(t) /\ Len(s) \in Nat /\ Len(t) \in Nat
      /\ \A i \in 1..(Len(s) + Len(t)) : (s \o t)[i] = IF i <= Len(s) THEN s[i] ELSE t[i - Len(s)]
  BY ConcatProperties, LenProperties
<1> DEFINE u == s \o t
<1>2. u \in Seq(S) /\ Len(s) <= Len(u) /\ \A i \in 1..Len(s) : s[i] = u[i]
  BY <1>1
<1> HIDE DEF u
<1>3. IsPrefix(s, u)
  BY <1>2, Prefix
<1> QED
  BY <1>3 DEF u

-------------------------------------------------------------------------------
(* What has been loaded of a file whose declared sizes are right: everything before  *)
(* the cursor while the reader is in step, and behind a cut what the properties say. *)
Objs == {ObjectOf(it, n) : it \in ItemShape, n \in Nat}
Roots == [kind : STRING, id : Nat]

\* The texts or classes that records before n define.
Names(tag, n) == [id \in {file.records[m].id : m \in {k \in Indices(tag) : k < n}} |-> RefOf(tag, n, id)]

\* The heap type given last before item k of segment n.
InfosBefore(n, k) == {m \in DOMAIN file.records[n].items : m < k /\ file.records[n].items[m].kind = "info"}
HeapBefore(n, k) == IF InfosBefore(n, k) = {} THEN 0 ELSE file.records[n].items[Max(InfosBefore(n, k))].len

NamesLoaded(n) == data.strings = Names("UTF8_STRING", n) /\ data.loaded = Names("LOAD_CLASS", n)

\* The records before n.
Loaded(n) == data.objects = ObjectsUpTo(n - 1) /\ data.roots = RootsUpTo(n - 1) /\ NamesLoaded(n)

\* And the items before item k of segment n.
SegmentLoaded(n, k) ==
  /\ data.objects = ObjectsUpTo(n - 1) \o HeapFree(Joined(ObjectParts[n], k - 1))
  /\ data.roots = RootsUpTo(n - 1) \o Joined(RootParts[n], k - 1)
  /\ seg.heapType = HeapBefore(n, k) /\ NamesLoaded(n)

\* What is loaded of a file that ends within a record.
Kept(objects, roots) ==
  /\ \E T : objects \in Seq(T) /\ Heaped(T)
  /\ IsPrefix(HeapFree(WholeObjects), HeapFree(objects))
  /\ IsPrefix(WholeRoots, roots)
  /\ Len(objects) + Len(roots) <= Len(WholeObjects) + Len(WholeRoots) + 1
  /\ IsPrefix(ObjectsUpTo(WholeRecords), objects)
  /\ \A k, m \in (Len(ObjectsUpTo(WholeRecords)) + 1)..Len(objects) : objects[k].heap = objects[m].heap

DataShape == data = [strings |-> data.strings, loaded |-> data.loaded, objects |-> data.objects, roots |-> data.roots]

\* A sequence that is as kept, and one more at the end.
LEMMA KeptFrom ==
  ASSUME NEW U \in Seq(Objs), NEW J \in Seq(Objs), WholeObjects = U \o J, ObjectsUpTo(WholeRecords) = U,
         NEW R \in Seq(Roots), WholeRoots = R,
         NEW T, NEW E \in Seq(T), \A o \in T : HasHeap(o) /\ o.heap = 0,
         NEW Q, NEW F \in Seq(Q), Len(E) + Len(F) <= 1
  PROVE  Kept((U \o HeapFree(J)) \o E, R \o F)
<1> DEFINE X == HeapFree(J)
<1> DEFINE V == (Objs \cup Freed(Objs)) \cup T
<1>1. Heaped(Objs) /\ Heaped(Freed(Objs)) /\ Heaped(V)
  <2>1. Heaped(Objs)
    BY HeapBack DEF Objs, Heaped
  <2>2. Heaped(Freed(Objs))
    BY <2>1, HeapChanges DEF Heaped, Freed
  <2> QED
    BY <2>1, <2>2 DEF Heaped
<1>2. /\ X \in Seq(Freed(Objs)) /\ Len(X) = Len(J) /\ Len(J) \in Nat
      /\ \A i \in 1..Len(X) : X[i] = Free(J[i])
  BY FreeSeq
<1>3. \A i \in 1..Len(X) : X[i].heap = 0
  <2>1. \A i \in 1..Len(J) : HasHeap(J[i])
    BY <1>1, ElementOfSeq DEF Heaped
  <2> HIDE DEF X
  <2>2. ASSUME NEW i \in 1..Len(X) PROVE X[i].heap = 0
    <3>1. HasHeap(J[i]) /\ X[i] = Free(J[i])
      BY <1>2, <2>1
    <3>2. Free(J[i]).heap = 0
      BY <3>1, HeapChanges
    <3> QED
      BY <3>1, <3>2
  <2> QED
    BY <2>2
<1>4. U \in Seq(V) /\ J \in Seq(V) /\ X \in Seq(V) /\ E \in Seq(V)
  <2>1. Objs \subseteq V /\ Freed(Objs) \subseteq V /\ T \subseteq V
    OBVIOUS
  <2> HIDE DEF V, X
  <2> QED
    BY <1>2, <2>1, SeqMonotonic
<1>5. \A i \in 1..Len(E) : E[i].heap = 0
  BY ElementOfSeq
<1> HIDE DEF V
<1>6. HeapFree(X) = X
  BY <1>1, FreeTwice
<1> HIDE DEF X
<1> DEFINE O == (U \o X) \o E
<1>7. U \o X \in Seq(V) /\ O \in Seq(V) /\ Len(U \o X) = Len(U) + Len(X) /\ Len(O) = Len(U \o X) + Len(E)
      /\ Len(U) \in Nat /\ Len(X) \in Nat /\ Len(E) \in Nat
  BY <1>4, ConcatProperties, LenProperties
<1>8. O = U \o (X \o E) /\ X \o E \in Seq(V)
  <2>1. JoinsFromEither(U, X, E)
    BY <1>4, Associative
  <2>2. (U \o X) \o E = U \o (X \o E)
    BY <2>1 DEF JoinsFromEither
  <2>3. X \o E \in Seq(V)
    BY <1>4, ConcatProperties
  <2> QED
    BY <2>2, <2>3
<1>9. IsPrefix(HeapFree(WholeObjects), HeapFree(O))
  <2>1. HeapFree(O) = HeapFree(U \o X) \o HeapFree(E)
    BY <1>4, <1>7, FreeConcat
  <2>2. HeapFree(U \o X) = HeapFree(U) \o HeapFree(X)
    BY <1>4, FreeConcat
  <2>3. HeapFree(U \o J) = HeapFree(U) \o HeapFree(J)
    BY <1>4, FreeConcat
  <2>4. HeapFree(J) = X
    BY DEF X
  <2>5. HeapFree(O) = HeapFree(WholeObjects) \o HeapFree(E)
    BY <1>6, <2>1, <2>2, <2>3, <2>4
  <2>6. WholeObjects \in Seq(V)
    BY <1>4, ConcatProperties
  <2>7. HeapFree(WholeObjects) \in Seq(Freed(V)) /\ HeapFree(E) \in Seq(Freed(V))
    BY <1>4, <2>6, FreeSeq
  <2> QED
    BY <2>5, <2>7, PrefixOfConcat
<1>10. IsPrefix(ObjectsUpTo(WholeRecords), O)
  BY <1>4, <1>8, PrefixOfConcat
<1>11. IsPrefix(WholeRoots, R \o F)
  <2>1. R \in Seq(Roots \cup Q) /\ F \in Seq(Roots \cup Q)
    BY SeqMonotonic
  <2> QED
    BY <2>1, PrefixOfConcat
<1>12. Len(O) + Len(R \o F) <= Len(WholeObjects) + Len(WholeRoots) + 1
  <2>1. R \in Seq(Roots \cup Q) /\ F \in Seq(Roots \cup Q)
    BY SeqMonotonic
  <2>2. Len(R \o F) = Len(R) + Len(F) /\ Len(R) \in Nat /\ Len(F) \in Nat
    BY <2>1, ConcatProperties, LenProperties
  <2>3. Len(WholeObjects) = Len(U) + Len(J)
    BY <1>4, ConcatProperties
  <2> QED
    BY <1>2, <1>7, <2>2, <2>3
<1>13. \A k \in (Len(U) + 1)..Len(O) : O[k].heap = 0
  <2> TAKE k \in (Len(U) + 1)..Len(O)
  <2>1. /\ \A i \in 1..(Len(U) + Len(X)) : (U \o X)[i] = IF i <= Len(U) THEN U[i] ELSE X[i - Len(U)]
        /\ \A i \in 1..(Len(U \o X) + Len(E)) : O[i] = IF i <= Len(U \o X) THEN (U \o X)[i] ELSE E[i - Len(U \o X)]
    BY <1>4, <1>7, ConcatProperties
  <2>2. CASE k <= Len(U \o X)
    <3>1. k \in 1..(Len(U) + Len(X)) /\ k \in 1..(Len(U \o X) + Len(E)) /\ ~(k <= Len(U)) /\ k - Len(U) \in 1..Len(X)
      BY <1>7, <2>2
    <3> QED
      BY <1>3, <2>1, <2>2, <3>1
  <2>3. CASE ~(k <= Len(U \o X))
    <3>1. k \in 1..(Len(U \o X) + Len(E)) /\ k - Len(U \o X) \in 1..Len(E)
      BY <1>7, <2>3
    <3> QED
      BY <1>5, <2>1, <2>3, <3>1
  <2> QED
    BY <2>2, <2>3
<1> HIDE DEF O
<1>14. \A k, m \in (Len(ObjectsUpTo(WholeRecords)) + 1)..Len(O) : O[k].heap = O[m].heap
  BY <1>13
<1>15. Kept(O, R \o F)
  BY <1>1, <1>7, <1>9, <1>10, <1>11, <1>12, <1>14 DEF Kept
<1> QED
  BY <1>15 DEF O, X

-------------------------------------------------------------------------------
(* The content of the file, piece by piece. *)
ObjsOf(n) == {ObjectOf(it, n) : it \in ItemShape}

\* What the items are.
LEMMA PartsTyped ==
  ASSUME file \in Files
  PROVE  /\ Parted(ObjectParts, Objs) /\ Parted(RootParts, Roots) /\ Heaped(Objs)
         /\ \A n \in 1..Count : \A k \in 1..Len(file.records[n].items) :
              /\ ObjectParts[n][k] = ObjectsOf(file.records[n].items[k], n)
              /\ ObjectParts[n][k] \in Seq(ObjsOf(n))
              /\ RootParts[n][k] = RootsOf(file.records[n].items[k])
<1>1. Count \in Nat /\ DOMAIN file.records = 1..Count
  BY FileShape DEF Count
<1>2. ASSUME NEW n \in 1..Count, NEW k \in 1..Len(file.records[n].items)
      PROVE  /\ ObjectParts[n][k] = ObjectsOf(file.records[n].items[k], n)
             /\ RootParts[n][k] = RootsOf(file.records[n].items[k])
             /\ file.records[n].items[k] \in ItemShape
  <2>1. DOMAIN file.records[n].items = 1..Len(file.records[n].items) /\ file.records[n].items[k] \in ItemShape
    BY ItemsTiled DEF Count
  <2> QED
    BY <1>1, <2>1 DEF ObjectParts, RootParts
<1>3. ASSUME NEW it \in ItemShape, NEW n \in Nat
      PROVE  ObjectsOf(it, n) \in Seq(ObjsOf(n)) /\ ObjsOf(n) \subseteq Objs /\ RootsOf(it) \in Seq(Roots)
  <2>1. ObjectOf(it, n) \in ObjsOf(n) /\ ObjsOf(n) \subseteq Objs
    BY DEF ObjsOf, Objs
  <2>2. ObjectsOf(it, n) \in Seq(ObjsOf(n))
    <3> DEFINE o == ObjectOf(it, n)
    <3> DEFINE S == ObjsOf(n)
    <3>1. o \in S
      BY <2>1
    <3> HIDE DEF o, S
    <3>2. <<o>> \in Seq(S) /\ <<>> \in Seq(S)
      BY <3>1
    <3> QED
      BY <3>2 DEF ObjectsOf, o, S
  <2>3. [kind |-> it.kind, id |-> IF it.kind \in BareRoots THEN 0 ELSE it.id] \in Roots
    BY DEF ItemShape, Roots
  <2>4. RootsOf(it) \in Seq(Roots)
    <3> DEFINE r == [kind |-> it.kind, id |-> IF it.kind \in BareRoots THEN 0 ELSE it.id]
    <3>1. r \in Roots
      BY <2>3
    <3> HIDE DEF r
    <3>2. <<r>> \in Seq(Roots) /\ <<>> \in Seq(Roots)
      BY <3>1
    <3> QED
      BY <3>2 DEF RootsOf, r
  <2> QED
    BY <2>1, <2>2, <2>4
<1>4. ASSUME NEW n \in 1..Count, NEW k \in 1..Len(file.records[n].items)
      PROVE  ObjectParts[n][k] \in Seq(ObjsOf(n)) /\ ObjectParts[n][k] \in Seq(Objs) /\ RootParts[n][k] \in Seq(Roots)
  <2>1. n \in Nat
    BY <1>1
  <2>2. ObjectParts[n][k] \in Seq(ObjsOf(n)) /\ ObjsOf(n) \subseteq Objs /\ RootParts[n][k] \in Seq(Roots)
    BY <1>2, <1>3, <2>1
  <2>3. ObjectParts[n][k] \in Seq(Objs)
    BY <2>2, SeqMonotonic
  <2> QED
    BY <2>2, <2>3
<1>5. Heaped(Objs)
  BY HeapBack DEF Objs, Heaped
<1> QED
  BY <1>2, <1>4, <1>5 DEF Parted

\* What the first items of a segment make.
LEMMA SegmentParts ==
  ASSUME file \in Files, NEW n \in 1..Count
  PROVE  LET N == Len(file.records[n].items) IN
         /\ N \in Nat
         /\ Joined(ObjectParts[n], 0) = <<>> /\ Joined(RootParts[n], 0) = <<>>
         /\ \A k \in 0..N : /\ Joined(ObjectParts[n], k) \in Seq(ObjsOf(n)) /\ Joined(ObjectParts[n], k) \in Seq(Objs)
                            /\ Joined(RootParts[n], k) \in Seq(Roots)
         /\ \A k \in 1..N :
              /\ Joined(ObjectParts[n], k) = Joined(ObjectParts[n], k - 1) \o ObjectsOf(file.records[n].items[k], n)
              /\ Joined(RootParts[n], k) = Joined(RootParts[n], k - 1) \o RootsOf(file.records[n].items[k])
<1> DEFINE N == Len(file.records[n].items)
<1> DEFINE p == ObjectParts[n]
<1> DEFINE q == RootParts[n]
<1>1. N \in Nat
  BY ItemsTiled DEF Count
<1>2. /\ \A k \in 1..N : p[k] \in Seq(ObjsOf(n)) /\ p[k] = ObjectsOf(file.records[n].items[k], n)
      /\ \A k \in 1..N : q[k] \in Seq(Roots) /\ q[k] = RootsOf(file.records[n].items[k])
  BY PartsTyped DEF Parted
<1>3. ObjsOf(n) \subseteq Objs
  <2>1. n \in Nat
    BY FileShape DEF Count
  <2> QED
    BY <2>1 DEF ObjsOf, Objs
<1> HIDE DEF p, q, N
<1>4. /\ Joined(p, 0) = <<>>
      /\ \A k \in 0..N : Joined(p, k) \in Seq(ObjsOf(n))
      /\ \A k \in 1..N : Joined(p, k) = Joined(p, k - 1) \o p[k]
  BY <1>1, <1>2, JoinedSteps
<1>5. /\ Joined(q, 0) = <<>>
      /\ \A k \in 0..N : Joined(q, k) \in Seq(Roots)
      /\ \A k \in 1..N : Joined(q, k) = Joined(q, k - 1) \o q[k]
  BY <1>1, <1>2, JoinedSteps
<1>6. \A k \in 0..N : Joined(p, k) \in Seq(Objs)
  BY <1>3, <1>4, SeqMonotonic
<1>7. /\ \A k \in 1..N : Joined(p, k) = Joined(p, k - 1) \o ObjectsOf(file.records[n].items[k], n)
      /\ \A k \in 1..N : Joined(q, k) = Joined(q, k - 1) \o RootsOf(file.records[n].items[k])
  BY <1>2, <1>4, <1>5
<1> QED
  BY <1>1, <1>4, <1>5, <1>6, <1>7 DEF p, q, N

\* The least of some numbers.
LEMMA MinIs ==
  ASSUME NEW T \in SUBSET Nat, NEW m \in T, \A k \in T : m <= k
  PROVE  Min(T) = m
<1>1. \A x \in T : (\A y \in T : x <= y) => x = m
  <2>1. \A x \in T : x \in Nat
    OBVIOUS
  <2> QED
    BY <2>1
<1> QED
  BY <1>1 DEF Min

\* And the greatest.
LEMMA MaxIs ==
  ASSUME NEW T \in SUBSET Nat, NEW m \in T, \A k \in T : k <= m
  PROVE  Max(T) = m
<1>1. \A x \in T : (\A y \in T : x >= y) => x = m
  <2>1. \A x \in T : x \in Nat
    OBVIOUS
  <2> QED
    BY <2>1
<1> QED
  BY <1>1 DEF Max

\* The records of a kind before one, with an id.
FoundIn(tag, n, id) == {k \in Indices(tag) : k < n /\ file.records[k].id = id}

\* The first of them tells what the id stands for.
LEMMA FirstTells ==
  ASSUME file \in Files, NEW tag, NEW n \in Nat, NEW id
  PROVE  /\ FoundIn(tag, n, id) \in SUBSET Nat
         /\ FoundIn(tag, n, id) = {} => RefOf(tag, n, id) = NoName
         /\ FoundIn(tag, n, id) # {} => /\ Min(FoundIn(tag, n, id)) \in FoundIn(tag, n, id)
                                        /\ \A k \in FoundIn(tag, n, id) : Min(FoundIn(tag, n, id)) <= k
                                        /\ RefOf(tag, n, id) = file.records[Min(FoundIn(tag, n, id))].ref
<1> DEFINE T == FoundIn(tag, n, id)
<1>1. DOMAIN file.records = 1..Count /\ Count \in Nat
  BY FileShape DEF Count
<1>2. T \in SUBSET Nat
  BY <1>1 DEF FoundIn, Indices
<1>3. RefOf(tag, n, id) = IF T = {} THEN NoName ELSE file.records[Min(T)].ref
  BY DEF RefOf, FoundIn
<1> HIDE DEF T
<1>4. ASSUME T # {} PROVE Min(T) \in T /\ \A k \in T : Min(T) <= k
  <2>1. PICK m \in T : \A k \in T : m <= k
    BY <1>2, <1>4, LeastNumber
  <2>2. Min(T) = m
    BY <1>2, <2>1, MinIs
  <2> QED
    BY <2>1, <2>2
<1> QED
  BY <1>2, <1>3, <1>4 DEF T

\* A name is known before record n if a record before it gives it.
LEMMA NamesKnown ==
  ASSUME NEW tag, NEW n
  PROVE  /\ \A id : id \in DOMAIN Names(tag, n) <=> FoundIn(tag, n, id) # {}
         /\ \A id \in DOMAIN Names(tag, n) : Names(tag, n)[id] = RefOf(tag, n, id)
         /\ Names(tag, n) = [id \in DOMAIN Names(tag, n) |-> Names(tag, n)[id]]
BY DEF Names, FoundIn

\* Where the same names are found before two records, they stand for the same.
LEMMA SameNames ==
  ASSUME NEW tag, NEW n, NEW m, \A id : FoundIn(tag, n, id) = FoundIn(tag, m, id)
  PROVE  Names(tag, n) = Names(tag, m)
<1>1. \A id : RefOf(tag, n, id) = RefOf(tag, m, id)
  BY DEF RefOf, FoundIn
<1>2. DOMAIN Names(tag, n) = DOMAIN Names(tag, m)
  BY NamesKnown
<1> DEFINE f == Names(tag, n)
<1> DEFINE g == Names(tag, m)
<1>3. \A id \in DOMAIN f : f[id] = g[id]
  BY <1>1, <1>2, NamesKnown
<1>4. f = [id \in DOMAIN f |-> f[id]] /\ g = [id \in DOMAIN g |-> g[id]]
  BY NamesKnown
<1> HIDE DEF f, g
<1>5. f = g
  BY <1>2, <1>3, <1>4 DEF f, g
<1> QED
  BY <1>5 DEF f, g

\* A record of another kind gives no name.
LEMMA NoNameGiven ==
  ASSUME file \in Files, NEW n \in 1..Count, NEW tag, file.records[n].tag # tag
  PROVE  Names(tag, n + 1) = Names(tag, n)
<1>1. DOMAIN file.records = 1..Count /\ Count \in Nat
  BY FileShape DEF Count
<1>2. \A k \in Indices(tag) : k < n + 1 <=> k < n
  <2> TAKE k \in Indices(tag)
  <2>1. k \in Nat /\ n \in Nat /\ k # n
    BY <1>1 DEF Indices
  <2> QED
    BY <2>1
<1>3. \A id : FoundIn(tag, n + 1, id) = FoundIn(tag, n, id)
  BY <1>2 DEF FoundIn
<1> QED
  BY <1>3, SameNames

\* A record of the kind gives its name, unless it has one.
LEMMA NameGiven ==
  ASSUME file \in Files, NEW n \in 1..Count, NEW tag, file.records[n].tag = tag
  PROVE  Names(tag, n + 1) = Emplace(Names(tag, n), file.records[n].id, file.records[n].ref)
<1> DEFINE r == file.records[n]
<1> DEFINE f == Names(tag, n)
<1> DEFINE g == Names(tag, n + 1)
<1>1. DOMAIN file.records = 1..Count /\ Count \in Nat /\ n \in Nat /\ n + 1 \in Nat
  BY FileShape DEF Count
<1>2. \A id : FoundIn(tag, n + 1, id) = FoundIn(tag, n, id) \cup (IF id = r.id THEN {n} ELSE {})
  <2> TAKE id
  <2>1. ASSUME NEW k \in Indices(tag) PROVE k < n + 1 <=> (k < n \/ k = n)
    <3>1. k \in Nat
      BY <1>1 DEF Indices
    <3> QED
      BY <1>1, <3>1
  <2>2. n \in Indices(tag)
    BY <1>1 DEF Indices
  <2> QED
    BY <2>1, <2>2 DEF FoundIn
<1>3. \A id \in DOMAIN f : id \in DOMAIN g /\ g[id] = f[id]
  <2> TAKE id \in DOMAIN f
  <2> DEFINE T == FoundIn(tag, n, id)
  <2> DEFINE U == FoundIn(tag, n + 1, id)
  <2>1. T # {} /\ U = T \cup (IF id = r.id THEN {n} ELSE {}) /\ f[id] = RefOf(tag, n, id)
    BY <1>2, NamesKnown
  <2>2. T \in SUBSET Nat /\ Min(T) \in T /\ (\A k \in T : Min(T) <= k) /\ RefOf(tag, n, id) = file.records[Min(T)].ref
    BY <1>1, <2>1, FirstTells
  <2>3. Min(T) < n
    BY <2>2 DEF FoundIn
  <2>4. U \in SUBSET Nat
    BY <1>1, FirstTells
  <2>5. Min(U) = Min(T)
    <3> DEFINE m == Min(T)
    <3>1. m \in U /\ \A k \in U : m <= k
      <4>1. m \in T /\ (\A k \in T : m <= k) /\ m < n /\ m \in Nat
        BY <2>2, <2>3
      <4>2. \A k \in U : k \in T \/ k = n
        BY <2>1
      <4>3. T \subseteq U /\ n \in Nat
        BY <1>1, <2>1
      <4> HIDE DEF m, T, U
      <4> QED
        BY <4>1, <4>2, <4>3
    <3> HIDE DEF m, T, U
    <3>2. Min(U) = m
      BY <2>4, <3>1, MinIs
    <3> QED
      BY <3>2 DEF m
  <2>6. U # {}
    BY <2>1
  <2>7. RefOf(tag, n + 1, id) = file.records[Min(U)].ref
    BY <1>1, <2>6, FirstTells
  <2>8. id \in DOMAIN g /\ g[id] = RefOf(tag, n + 1, id)
    BY <2>6, NamesKnown
  <2> QED
    BY <2>1, <2>2, <2>5, <2>7, <2>8
<1>4. r.id \in DOMAIN g
  BY <1>2, NamesKnown
<1>5. ASSUME r.id \notin DOMAIN f PROVE g[r.id] = r.ref
  <2>1. FoundIn(tag, n, r.id) = {}
    BY <1>5, NamesKnown
  <2>2. FoundIn(tag, n + 1, r.id) = {n}
    BY <1>2, <2>1
  <2>3. Min({n}) = n
    <3>1. {n} \in SUBSET Nat /\ n \in {n} /\ \A k \in {n} : n <= k
      BY <1>1
    <3> QED
      BY <3>1, MinIs
  <2>4. RefOf(tag, n + 1, r.id) = file.records[n].ref
    BY <1>1, <2>2, <2>3, FirstTells
  <2> QED
    BY <1>4, <2>4, NamesKnown
<1>6. \A id \in DOMAIN g : id \in DOMAIN f \/ id = r.id
  BY <1>2, NamesKnown
<1>7. f = [id \in DOMAIN f |-> f[id]] /\ g = [id \in DOMAIN g |-> g[id]]
  BY NamesKnown
<1> HIDE DEF f, g, r
<1>8. CASE r.id \in DOMAIN f
  <2>1. DOMAIN g = DOMAIN f
    BY <1>3, <1>6, <1>8
  <2>2. g = f
    BY <1>3, <1>7, <2>1
  <2> QED
    BY <1>8, <2>2 DEF Emplace, f, g, r
<1>9. CASE r.id \notin DOMAIN f
  <2>1. DOMAIN g = DOMAIN f \cup {r.id}
    BY <1>3, <1>4, <1>6
  <2> DEFINE e == [x \in DOMAIN f \cup {r.id} |-> IF x = r.id THEN r.ref ELSE f[x]]
  <2>2. \A id \in DOMAIN g : g[id] = e[id]
    BY <1>3, <1>5, <1>6, <1>9, <2>1
  <2>3. g = e
    BY <1>7, <2>1, <2>2
  <2>4. Emplace(f, r.id, r.ref) = e
    BY <1>9 DEF Emplace
  <2> QED
    BY <2>3, <2>4 DEF f, g, r
<1> QED
  BY <1>8, <1>9

\* Before the first record there are no names.
LEMMA NoNames ==
  ASSUME file \in Files, NEW tag
  PROVE  Names(tag, 1) = <<>>
<1>1. DOMAIN file.records = 1..Count /\ Count \in Nat
  BY FileShape DEF Count
<1>2. {k \in Indices(tag) : k < 1} = {}
  BY <1>1 DEF Indices
<1>3. {file.records[m].id : m \in {k \in Indices(tag) : k < 1}} = {}
  BY <1>2
<1> DEFINE f == Names(tag, 1)
<1>4. f = [id \in {} |-> RefOf(tag, 1, id)]
  BY <1>3 DEF Names
<1> HIDE DEF f
<1>5. f \in [1..0 -> {}]
  BY <1>4
<1>6. f \in Seq({}) /\ Len(f) = 0
  BY <1>5
<1> QED
  BY <1>6, EmptySeq DEF f

\* The heap type before an item.
LEMMA HeapBeforeSteps ==
  ASSUME file \in Files, NEW n \in 1..Count
  PROVE  LET N == Len(file.records[n].items) IN
         /\ HeapBefore(n, 1) = 0
         /\ \A k \in 1..N : HeapBefore(n, k + 1) = IF file.records[n].items[k].kind = "info"
                                                   THEN file.records[n].items[k].len ELSE HeapBefore(n, k)
         /\ HeapBefore(n, N + 1) = HeapOf(n)
<1> DEFINE N == Len(file.records[n].items)
<1> DEFINE items == file.records[n].items
<1>1. N \in Nat /\ DOMAIN items = 1..N
  BY ItemsTiled DEF Count
<1>2. HeapBefore(n, 1) = 0
  <2>1. InfosBefore(n, 1) = {}
    BY <1>1 DEF InfosBefore
  <2> QED
    BY <2>1 DEF HeapBefore
<1>3. ASSUME NEW k \in 1..N
      PROVE HeapBefore(n, k + 1) = IF items[k].kind = "info" THEN items[k].len ELSE HeapBefore(n, k)
  <2>1. \A m \in 1..N : m < k + 1 <=> (m < k \/ m = k)
    BY <1>1
  <2>2. InfosBefore(n, k + 1) = InfosBefore(n, k) \cup (IF items[k].kind = "info" THEN {k} ELSE {})
    BY <1>1, <2>1 DEF InfosBefore
  <2>3. CASE items[k].kind = "info"
    <3> DEFINE T == InfosBefore(n, k + 1)
    <3>1. T \in SUBSET Nat /\ k \in T
      BY <1>1, <2>2, <2>3 DEF InfosBefore
    <3>2. \A m \in T : m <= k
      BY <1>1, <2>1 DEF InfosBefore
    <3>3. T # {}
      BY <3>1
    <3> HIDE DEF T
    <3>4. Max(T) = k
      BY <3>1, <3>2, MaxIs
    <3> QED
      BY <2>3, <3>3, <3>4 DEF HeapBefore, T
  <2>4. CASE items[k].kind # "info"
    BY <2>2, <2>4 DEF HeapBefore
  <2> QED
    BY <2>3, <2>4
<1>4. HeapBefore(n, N + 1) = HeapOf(n)
  <2>1. \A m \in 1..N : m < N + 1
    BY <1>1
  <2>2. InfosBefore(n, N + 1) = {k \in DOMAIN items : items[k].kind = "info"}
    BY <1>1, <2>1 DEF InfosBefore
  <2> QED
    BY <2>2 DEF HeapBefore, HeapOf
<1> QED
  BY <1>2, <1>3, <1>4

-------------------------------------------------------------------------------
(* The end of a segment gives its objects their heap type. *)
HeapTypesSet(s, mark, h) == [k \in DOMAIN s |-> IF k > mark THEN In(s[k], h) ELSE s[k]]

HeapsAre(new, s, mark, h) ==
  /\ \E S : new \in Seq(S) /\ Heaped(S)
  /\ Len(new) = Len(s) /\ Len(s) \in Nat
  /\ \A k \in 1..Len(s) : /\ new[k] = IF k > mark THEN In(s[k], h) ELSE s[k]
                          /\ HasHeap(s[k])

\* What it makes of a sequence.
LEMMA HeapTypes ==
  ASSUME NEW T, Heaped(T), NEW s \in Seq(T), NEW mark, NEW h, NEW new, new = HeapTypesSet(s, mark, h)
  PROVE  HeapsAre(new, s, mark, h)
<1> DEFINE N == Len(s)
<1> DEFINE S == T \cup {In(o, h) : o \in T}
<1>1. N \in Nat /\ DOMAIN s = 1..N /\ \A k \in 1..N : s[k] \in T
  BY LenProperties, ElementOfSeq
<1>2. \A k \in 1..N : HasHeap(s[k])
  BY <1>1 DEF Heaped
<1>3. Heaped(S)
  BY HeapChanges DEF Heaped
<1>4. new = [k \in 1..N |-> IF k > mark THEN In(s[k], h) ELSE s[k]]
  BY <1>1 DEF HeapTypesSet
<1>5. \A k \in 1..N : (IF k > mark THEN In(s[k], h) ELSE s[k]) \in S
  BY <1>1
<1> HIDE DEF N, S
<1>6. new \in [1..N -> S]
  BY <1>4, <1>5
<1>7. new \in Seq(S)
  BY <1>1, <1>6, SeqDef
<1>8. Len(new) = N
  BY <1>1, <1>6, <1>7, LenProperties
<1> QED
  BY <1>1, <1>2, <1>3, <1>4, <1>7, <1>8 DEF N, HeapsAre

\* The objects of the segment become what they are to be.
LEMMA SegmentGiven ==
  ASSUME NEW U \in Seq(Objs), NEW n \in Nat, NEW J \in Seq(ObjsOf(n)), NEW s, s = U \o HeapFree(J),
         NEW new, new = HeapTypesSet(s, Len(U), HeapOf(n))
  PROVE  new = U \o J
<1> DEFINE X == HeapFree(J)
<1> DEFINE T == Objs \cup Freed(Objs)
<1>1. ObjsOf(n) \subseteq Objs
  BY DEF ObjsOf, Objs
<1>2. Heaped(T)
  <2>1. Heaped(Objs)
    BY HeapBack DEF Objs, Heaped
  <2>2. Heaped(Freed(Objs))
    BY <2>1, HeapChanges DEF Heaped, Freed
  <2> QED
    BY <2>1, <2>2 DEF Heaped
<1>3. J \in Seq(Objs)
  BY <1>1, SeqMonotonic
<1>4. X \in Seq(Freed(Objs)) /\ Len(X) = Len(J) /\ Len(J) \in Nat /\ \A i \in 1..Len(J) : X[i] = Free(J[i])
  BY <1>3, FreeSeq
<1>5. U \in Seq(T) /\ X \in Seq(T) /\ J \in Seq(T)
  <2>1. Objs \subseteq T /\ Freed(Objs) \subseteq T
    OBVIOUS
  <2> HIDE DEF T, X
  <2> QED
    BY <1>3, <1>4, <2>1, SeqMonotonic
<1> HIDE DEF X, T
<1>6. s \in Seq(T) /\ Len(s) = Len(U) + Len(J) /\ Len(U) \in Nat
      /\ \A i \in 1..(Len(U) + Len(J)) : s[i] = IF i <= Len(U) THEN U[i] ELSE X[i - Len(U)]
  <2>1. s = U \o X
    BY DEF X
  <2>2. U \o X \in Seq(T) /\ Len(U \o X) = Len(U) + Len(X) /\ Len(U) \in Nat
        /\ \A i \in 1..(Len(U) + Len(X)) : (U \o X)[i] = IF i <= Len(U) THEN U[i] ELSE X[i - Len(U)]
    BY <1>5, ConcatProperties, LenProperties
  <2> QED
    BY <1>4, <2>1, <2>2
<1>0. HeapsAre(new, s, Len(U), HeapOf(n))
  <2>1. ASSUME NEW m, m = Len(U), NEW h, h = HeapOf(n) PROVE HeapsAre(new, s, m, h)
    <3>1. new = HeapTypesSet(s, m, h) /\ s \in Seq(T)
      BY <1>6, <2>1
    <3> QED
      BY <1>2, <3>1, HeapTypes
  <2> QED
    BY <2>1
<1>7. PICK S : new \in Seq(S) /\ Heaped(S)
  BY <1>0 DEF HeapsAre
<1>8. /\ Len(new) = Len(U) + Len(J)
      /\ \A k \in 1..(Len(U) + Len(J)) : new[k] = IF k > Len(U) THEN In(s[k], HeapOf(n)) ELSE s[k]
  BY <1>0, <1>6 DEF HeapsAre
<1> DEFINE w == U \o J
<1>9. w \in Seq(T) /\ Len(w) = Len(U) + Len(J)
      /\ \A i \in 1..(Len(U) + Len(J)) : w[i] = IF i <= Len(U) THEN U[i] ELSE J[i - Len(U)]
  BY <1>5, ConcatProperties
<1> HIDE DEF w
<1>10. \A i \in 1..Len(J) : In(Free(J[i]), HeapOf(n)) = J[i]
  <2> TAKE i \in 1..Len(J)
  <2>1. J[i] \in ObjsOf(n)
    BY ElementOfSeq
  <2>2. PICK it \in ItemShape : J[i] = ObjectOf(it, n)
    BY <2>1 DEF ObjsOf
  <2> QED
    BY <2>2, HeapBack
<1>11. ASSUME NEW k \in 1..(Len(U) + Len(J)) PROVE new[k] = w[k]
  <2>1. CASE k <= Len(U)
    <3>1. ~(k > Len(U))
      BY <1>6, <2>1
    <3> QED
      BY <1>6, <1>8, <1>9, <2>1, <3>1
  <2>2. CASE ~(k <= Len(U))
    <3>1. k > Len(U) /\ k - Len(U) \in 1..Len(J)
      BY <1>4, <1>6, <2>2
    <3>2. s[k] = Free(J[k - Len(U)]) /\ w[k] = J[k - Len(U)]
      BY <1>4, <1>6, <1>9, <2>2, <3>1
    <3>3. new[k] = In(s[k], HeapOf(n))
      BY <1>8, <3>1
    <3>4. In(Free(J[k - Len(U)]), HeapOf(n)) = J[k - Len(U)]
      BY <1>10, <3>1
    <3> QED
      BY <3>2, <3>3, <3>4
  <2> QED
    BY <2>1, <2>2
<1>12. new = w
  <2>1. new \in Seq(S \cup T) /\ w \in Seq(S \cup T)
    BY <1>7, <1>9, SeqMonotonic
  <2> QED
    BY <1>8, <1>9, <1>11, <2>1, SeqEqual
<1> QED
  BY <1>12 DEF w

\* And what is kept of a file that ends in it stays so.
LEMMA KeptGiven ==
  ASSUME NEW objects, NEW roots, Kept(objects, roots), NEW h, NEW new,
         NEW U \in Seq(Objs), U = ObjectsUpTo(WholeRecords), NEW W \in Seq(Objs), W = WholeObjects,
         new = HeapTypesSet(objects, Len(U), h)
  PROVE  Kept(new, roots)
<1>1. PICK T : objects \in Seq(T) /\ Heaped(T)
  BY DEF Kept
<1>0. HeapsAre(new, objects, Len(U), h)
  BY <1>1, HeapTypes
<1>2. PICK S : new \in Seq(S) /\ Heaped(S)
  BY <1>0 DEF HeapsAre
<1>3. /\ Len(new) = Len(objects) /\ Len(objects) \in Nat
      /\ \A k \in 1..Len(objects) : /\ new[k] = IF k > Len(U) THEN In(objects[k], h) ELSE objects[k]
                                    /\ HasHeap(objects[k])
  BY <1>0 DEF HeapsAre
<1>4. HeapFree(new) = HeapFree(objects)
  <2> DEFINE a == HeapFree(new)
  <2> DEFINE b == HeapFree(objects)
  <2>1. a \in Seq(Freed(S)) /\ Len(a) = Len(objects) /\ \A i \in 1..Len(objects) : a[i] = Free(new[i])
    BY <1>2, <1>3, FreeSeq
  <2>2. b \in Seq(Freed(T)) /\ Len(b) = Len(objects) /\ \A i \in 1..Len(objects) : b[i] = Free(objects[i])
    BY <1>1, FreeSeq
  <2> HIDE DEF a, b
  <2>3. ASSUME NEW i \in 1..Len(objects) PROVE a[i] = b[i]
    <3>1. HasHeap(objects[i])
      BY <1>3
    <3>2. Free(In(objects[i], h)) = Free(objects[i])
      BY <3>1, HeapChanges
    <3> QED
      BY <1>3, <2>1, <2>2, <3>2
  <2>4. a \in Seq(Freed(S) \cup Freed(T)) /\ b \in Seq(Freed(S) \cup Freed(T))
    BY <2>1, <2>2, SeqMonotonic
  <2>5. a = b
    BY <2>1, <2>2, <2>3, <2>4, SeqEqual
  <2> QED
    BY <2>5 DEF a, b
<1>5. Len(U) \in Nat
  BY LenProperties
<1>6. IsPrefix(U, objects)
  BY DEF Kept
<1>7. Len(U) <= Len(objects) /\ \A i \in 1..Len(U) : U[i] = objects[i]
  BY <1>1, <1>6, Prefix
<1>8. \A i \in 1..Len(U) : U[i] = new[i]
  <2> TAKE i \in 1..Len(U)
  <2>1. i \in 1..Len(objects) /\ ~(i > Len(U))
    BY <1>3, <1>5, <1>7
  <2> QED
    BY <1>3, <1>7, <2>1
<1>9. IsPrefix(U, new)
  BY <1>2, <1>3, <1>7, <1>8, Prefix
<1>10. \A k \in (Len(U) + 1)..Len(new) : new[k].heap = h
  <2> TAKE k \in (Len(U) + 1)..Len(new)
  <2>1. k \in 1..Len(objects) /\ k > Len(U)
    BY <1>3, <1>5
  <2>2. new[k] = In(objects[k], h) /\ HasHeap(objects[k])
    BY <1>3, <2>1
  <2>3. In(objects[k], h).heap = h
    BY <2>2, HeapChanges
  <2> QED
    BY <2>2, <2>3
<1>11. \A k, m \in (Len(U) + 1)..Len(new) : new[k].heap = new[m].heap
  BY <1>10
<1> QED
  BY <1>2, <1>3, <1>4, <1>9, <1>11 DEF Kept

-------------------------------------------------------------------------------
(* The content invariant: of a file whose declared sizes are right, what stands before *)
(* the cursor is loaded; once the cursor is behind a cut, what the properties say is.  *)
ContentInv ==
  /\ DataShape
  /\ Truthful =>
       /\ stage = "start" => Loaded(1)
       /\ stage = "header" => IF cur.pos = Start /\ cur.pos <= cut THEN Loaded(rec)
                              ELSE cur.pos >= cut => Kept(data.objects, data.roots)
       /\ stage = "body" => Loaded(rec)
       /\ stage = "segment" => /\ seg.mark = Len(ObjectsUpTo(rec - 1))
                               /\ IF cur.pos <= cut THEN SegmentLoaded(rec, seg.item)
                                  ELSE Kept(data.objects, data.roots) /\ WholeRecords = rec - 1
       /\ stage = "loaded" => Kept(data.objects, data.roots) /\ (Intact => Loaded(Count + 1))

\* What is said of the content of the file stays true of it.
LEMMA SameNamesKept ==
  ASSUME UNCHANGED input
  PROVE  /\ \A tag, n, id : RefOf(tag, n, id)' = RefOf(tag, n, id)
         /\ \A tag, n : Names(tag, n)' = Names(tag, n)
         /\ \A n, k : HeapBefore(n, k)' = HeapBefore(n, k)
         /\ \A n : HeapOf(n)' = HeapOf(n)
<1>1. file' = file /\ cut' = cut
  BY DEF input
<1>2. \A tag : Indices(tag)' = Indices(tag)
  BY <1>1 DEF Indices
<1>3. ASSUME NEW tag, NEW n, NEW id PROVE RefOf(tag, n, id)' = RefOf(tag, n, id)
  BY <1>1, <1>2 DEF RefOf
<1>4. ASSUME NEW tag, NEW n PROVE Names(tag, n)' = Names(tag, n)
  BY <1>1, <1>2, <1>3 DEF Names
<1>5. ASSUME NEW n, NEW k PROVE HeapBefore(n, k)' = HeapBefore(n, k)
  <2>1. InfosBefore(n, k)' = InfosBefore(n, k)
    BY <1>1 DEF InfosBefore
  <2> QED
    BY <1>1, <2>1 DEF HeapBefore
<1>6. ASSUME NEW n PROVE HeapOf(n)' = HeapOf(n)
  BY <1>1 DEF HeapOf
<1> QED
  BY <1>3, <1>4, <1>5, <1>6

\* So do the objects and the roots.
LEMMA SameContent ==
  ASSUME UNCHANGED input
  PROVE  /\ ObjectParts' = ObjectParts /\ RootParts' = RootParts
         /\ \A n : ObjectsUpTo(n)' = ObjectsUpTo(n)
         /\ \A n : RootsUpTo(n)' = RootsUpTo(n)
         /\ WholeObjects' = WholeObjects /\ WholeRoots' = WholeRoots /\ WholeRecords' = WholeRecords
<1>1. file' = file /\ cut' = cut
  BY DEF input
<1>2. \A tag : Indices(tag)' = Indices(tag)
  BY <1>1 DEF Indices
<1>3. ASSUME NEW fs, NEW n PROVE Specs(fs, n)' = Specs(fs, n)
  <2>1. \A id : RefOf("UTF8_STRING", n, id)' = RefOf("UTF8_STRING", n, id)
    BY SameNamesKept
  <2> QED
    BY <1>1, <2>1 DEF Specs
<1>4. ASSUME NEW it, NEW n PROVE ObjectsOf(it, n)' = ObjectsOf(it, n)
  <2>1. HeapOf(n)' = HeapOf(n)
    BY SameNamesKept
  <2> QED
    BY <1>3, <2>1 DEF ObjectsOf, ObjectOf
<1>5. ObjectParts' = ObjectParts
  BY <1>1, <1>4 DEF ObjectParts
<1>6. RootParts' = RootParts
  BY <1>1 DEF RootParts
<1>7. ASSUME NEW n PROVE WholeItems(n)' = WholeItems(n)
  BY <1>1 DEF WholeItems
<1>8. ASSUME NEW parts PROVE WholeParts(parts)' = WholeParts(parts)
  BY <1>1, <1>2, <1>7 DEF WholeParts
<1>9. ASSUME NEW parts, NEW n PROVE UpTo(parts, n)' = UpTo(parts, n)
  BY <1>8 DEF UpTo
<1>10. /\ \A n : ObjectsUpTo(n)' = ObjectsUpTo(n)
       /\ \A n : RootsUpTo(n)' = RootsUpTo(n)
  BY <1>5, <1>6, <1>9 DEF ObjectsUpTo, RootsUpTo
<1>11. WholeRecords' = WholeRecords
  BY <1>1 DEF WholeRecords
<1> QED
  BY <1>1, <1>5, <1>6, <1>10, <1>11 DEF WholeObjects, WholeRoots

-------------------------------------------------------------------------------
(* The next states, by the stage they are in. *)
Contents(n, objects, roots, strings, loaded) ==
  /\ objects = ObjectsUpTo(n - 1) /\ roots = RootsUpTo(n - 1)
  /\ strings = Names("UTF8_STRING", n) /\ loaded = Names("LOAD_CLASS", n)

\* What is kept, is kept of the same file.
LEMMA SameKept ==
  ASSUME UNCHANGED input, Kept(data'.objects, data'.roots)
  PROVE  Kept(data.objects, data.roots)'
<1>1. /\ \A n : ObjectsUpTo(n)' = ObjectsUpTo(n)
      /\ WholeObjects' = WholeObjects /\ WholeRoots' = WholeRoots /\ WholeRecords' = WholeRecords
  BY SameContent
<1>2. ObjectsUpTo(WholeRecords)' = ObjectsUpTo(WholeRecords)
  <2>1. ASSUME NEW n PROVE ObjectsUpTo(n)' = ObjectsUpTo(n)
    BY <1>1
  <2>2. \A n : n = WholeRecords => ObjectsUpTo(n)' = ObjectsUpTo(WholeRecords)
    BY <2>1
  <2> QED
    BY <1>1, <2>1 DEF ObjectsUpTo
<1>3. PICK T : data'.objects \in Seq(T) /\ Heaped(T)
  BY DEF Kept
<1> QED
  BY <1>1, <1>2, <1>3 DEF Kept

\* And what is loaded.
LEMMA SameLoaded ==
  ASSUME UNCHANGED input, NEW n
  PROVE  Loaded(n)' <=> Contents(n, data'.objects, data'.roots, data'.strings, data'.loaded)
<1>1. ObjectsUpTo(n - 1)' = ObjectsUpTo(n - 1) /\ RootsUpTo(n - 1)' = RootsUpTo(n - 1)
  BY SameContent
<1>2. Names("UTF8_STRING", n)' = Names("UTF8_STRING", n) /\ Names("LOAD_CLASS", n)' = Names("LOAD_CLASS", n)
  BY SameNamesKept
<1> QED
  BY <1>1, <1>2 DEF Loaded, NamesLoaded, Contents

\* Before a header.
LEMMA LoadedToHeader ==
  ASSUME UNCHANGED input, stage' = "header", DataShape',
         Truthful => IF cur'.pos = RecordStart(file, rec') /\ cur'.pos <= cut
                     THEN Contents(rec', data'.objects, data'.roots, data'.strings, data'.loaded)
                     ELSE cur'.pos >= cut => Kept(data'.objects, data'.roots)
  PROVE  ContentInv'
<1>1. Truthful' = Truthful /\ file' = file /\ cut' = cut
  BY SameFile
<1>2. Start' = RecordStart(file, rec')
  BY <1>1 DEF Start
<1>3. ASSUME Contents(rec', data'.objects, data'.roots, data'.strings, data'.loaded) PROVE Loaded(rec)'
  <2>1. PICK n : n = rec'
    OBVIOUS
  <2>2. Loaded(n)'
    BY <1>3, <2>1, SameLoaded
  <2> QED
    BY <2>1, <2>2 DEF Loaded, NamesLoaded
<1>4. Kept(data'.objects, data'.roots) => Kept(data.objects, data.roots)'
  BY SameKept
<1> QED
  BY <1>1, <1>2, <1>3, <1>4 DEF ContentInv

\* Behind one.
LEMMA LoadedToBody ==
  ASSUME UNCHANGED input, stage' = "body", DataShape',
         Truthful => Contents(rec', data'.objects, data'.roots, data'.strings, data'.loaded)
  PROVE  ContentInv'
<1>1. Truthful' = Truthful
  BY SameFile
<1>3. ASSUME Contents(rec', data'.objects, data'.roots, data'.strings, data'.loaded) PROVE Loaded(rec)'
  <2>1. PICK n : n = rec'
    OBVIOUS
  <2>2. Loaded(n)'
    BY <1>3, <2>1, SameLoaded
  <2> QED
    BY <2>1, <2>2 DEF Loaded, NamesLoaded
<1> QED
  BY <1>1, <1>3 DEF ContentInv

\* Item k of segment n is read next.
SegmentContents(n, k, objects, roots, strings, loaded, heapType) ==
  /\ objects = ObjectsUpTo(n - 1) \o HeapFree(Joined(ObjectParts[n], k - 1))
  /\ roots = RootsUpTo(n - 1) \o Joined(RootParts[n], k - 1)
  /\ strings = Names("UTF8_STRING", n) /\ loaded = Names("LOAD_CLASS", n)
  /\ heapType = HeapBefore(n, k)

\* Within a segment.
LEMMA LoadedToSegment ==
  ASSUME UNCHANGED input, stage' = "segment", DataShape',
         Truthful =>
           /\ seg'.mark = Len(ObjectsUpTo(rec' - 1))
           /\ IF cur'.pos <= cut
              THEN SegmentContents(rec', seg'.item, data'.objects, data'.roots, data'.strings, data'.loaded, seg'.heapType)
              ELSE Kept(data'.objects, data'.roots) /\ WholeRecords = rec' - 1
  PROVE  ContentInv'
<1>1. Truthful' = Truthful /\ file' = file /\ cut' = cut
  BY SameFile
<1>2. PICK n, k : n = rec' /\ k = seg'.item
  OBVIOUS
<1>3. /\ ObjectsUpTo(n - 1)' = ObjectsUpTo(n - 1) /\ RootsUpTo(n - 1)' = RootsUpTo(n - 1)
      /\ ObjectParts' = ObjectParts /\ RootParts' = RootParts /\ WholeRecords' = WholeRecords
  BY SameContent
<1>4. /\ Names("UTF8_STRING", n)' = Names("UTF8_STRING", n) /\ Names("LOAD_CLASS", n)' = Names("LOAD_CLASS", n)
      /\ HeapBefore(n, k)' = HeapBefore(n, k)
  BY SameNamesKept
<1>5. ASSUME SegmentContents(rec', seg'.item, data'.objects, data'.roots, data'.strings, data'.loaded, seg'.heapType)
      PROVE  SegmentLoaded(n, k)'
  BY <1>2, <1>3, <1>4, <1>5 DEF SegmentContents, SegmentLoaded, NamesLoaded
<1>6. SegmentLoaded(n, k)' => SegmentLoaded(rec, seg.item)'
  BY <1>2 DEF SegmentLoaded, NamesLoaded
<1>7. Kept(data'.objects, data'.roots) => Kept(data.objects, data.roots)'
  BY SameKept
<1>8. ASSUME Truthful PROVE (seg.mark = Len(ObjectsUpTo(rec - 1)))'
  <2>1. seg'.mark = Len(ObjectsUpTo(n - 1)')
    BY <1>2, <1>3, <1>8
  <2> QED
    BY <1>2, <2>1 DEF ObjectsUpTo
<1> QED
  BY <1>1, <1>2, <1>3, <1>5, <1>6, <1>7, <1>8 DEF ContentInv

\* The last record has been read.
LEMMA LoadedToEnd ==
  ASSUME UNCHANGED input, stage' = "loaded", DataShape',
         Truthful => /\ Kept(data'.objects, data'.roots)
                     /\ Intact => Contents(Count + 1, data'.objects, data'.roots, data'.strings, data'.loaded)
  PROVE  ContentInv'
<1>1. Truthful' = Truthful /\ Intact' = Intact /\ Count' = Count
  BY SameFile
<1>2. Kept(data'.objects, data'.roots) => Kept(data.objects, data.roots)'
  BY SameKept
<1>3. ASSUME Contents(Count + 1, data'.objects, data'.roots, data'.strings, data'.loaded) PROVE Loaded(Count + 1)'
  <2>1. PICK n : n = Count + 1
    OBVIOUS
  <2>2. Loaded(n)'
    BY <1>3, <2>1, SameLoaded
  <2> QED
    BY <1>1, <2>1, <2>2 DEF Loaded, NamesLoaded
<1> QED
  BY <1>1, <1>2, <1>3 DEF ContentInv

\* The file was refused.
LEMMA RefusedLoaded ==
  ASSUME UNCHANGED input, stage' \in {"error", "aborted", "astray"}, DataShape'
  PROVE  ContentInv'
BY DEF ContentInv

-------------------------------------------------------------------------------
(* The records outside segments. *)

\* The objects before the records that follow.
LEMMA BeforeRecord ==
  ASSUME Given, rec <= Count
  PROVE  /\ cut \in Int /\ file \in Files /\ rec \in 1..Count /\ rec - 1 \in 0..Count /\ Count \in Nat
         /\ ObjectsUpTo(rec - 1) \in Seq(Objs) /\ RootsUpTo(rec - 1) \in Seq(Roots)
         /\ WholeObjects = UpTo(ObjectParts, Count) /\ WholeRoots = UpTo(RootParts, Count)
         /\ Parted(ObjectParts, Objs) /\ Parted(RootParts, Roots)
         /\ (rec + 1) - 1 = rec
<1>1. file \in Files /\ rec \in 1..Count /\ Count \in Nat /\ cut \in Int
  BY InRecord
<1>2. rec - 1 \in 0..Count /\ (rec + 1) - 1 = rec
  BY <1>1
<1>3. Parted(ObjectParts, Objs) /\ Parted(RootParts, Roots)
  BY <1>1, PartsTyped
<1>4. ObjectsUpTo(rec - 1) \in Seq(Objs)
  BY <1>1, <1>2, <1>3, UpToSteps DEF ObjectsUpTo
<1>5. RootsUpTo(rec - 1) \in Seq(Roots)
  BY <1>1, <1>2, <1>3, UpToSteps DEF RootsUpTo
<1>6. WholeObjects = UpTo(ObjectParts, Count) /\ WholeRoots = UpTo(RootParts, Count)
  BY DEF WholeObjects, WholeRoots, ObjectsUpTo, RootsUpTo, Count
<1> QED
  BY <1>1, <1>2, <1>3, <1>4, <1>5, <1>6

\* The names that a record gives.
GivesNames(strings, loaded, newStrings, newLoaded) ==
  /\ newStrings = IF Record.tag = "UTF8_STRING" THEN Emplace(strings, Record.id, Record.ref) ELSE strings
  /\ newLoaded = IF Record.tag = "LOAD_CLASS" THEN Emplace(loaded, Record.id, Record.ref) ELSE loaded

\* A record that is there is loaded.
LEMMA RecordLoads ==
  ASSUME Given, rec <= Count, Record.tag # "HEAP_DUMP_SEGMENT",
         NEW o, NEW r, NEW s, NEW l, Contents(rec, o, r, s, l), NEW ns, NEW nl, GivesNames(s, l, ns, nl)
  PROVE  Contents(rec + 1, o, r, ns, nl)
<1>1. /\ cut \in Int /\ file \in Files /\ rec \in 1..Count
      /\ Parted(ObjectParts, Objs) /\ Parted(RootParts, Roots) /\ (rec + 1) - 1 = rec
  BY BeforeRecord
<1>2. file.records[rec].tag # "HEAP_DUMP_SEGMENT"
  BY DEF Record
<1>3. UpTo(ObjectParts, rec) = UpTo(ObjectParts, rec - 1) /\ UpTo(RootParts, rec) = UpTo(RootParts, rec - 1)
  BY <1>1, <1>2, RecordWhole
<1>4. ns = Names("UTF8_STRING", rec + 1)
  BY <1>1, NameGiven, NoNameGiven DEF Contents, GivesNames, Record
<1>5. nl = Names("LOAD_CLASS", rec + 1)
  BY <1>1, NameGiven, NoNameGiven DEF Contents, GivesNames, Record
<1> QED
  BY <1>1, <1>3, <1>4, <1>5 DEF Contents, ObjectsUpTo, RootsUpTo

\* The same, of sequences that are given.
AsKept(U, J, W, E, R, F, o, r) ==
  /\ WholeObjects = W /\ W = U \o J /\ ObjectsUpTo(WholeRecords) = U /\ WholeRoots = R
  /\ o = (U \o HeapFree(J)) \o E /\ r = R \o F /\ Len(E) + Len(F) <= 1

\* What was as kept is kept, with what is read of the item the file ends in.
LEMMA KeptAs ==
  ASSUME NEW U \in Seq(Objs), NEW J \in Seq(Objs), NEW W, NEW R \in Seq(Roots),
         NEW T, NEW E \in Seq(T), \A x \in T : HasHeap(x) /\ x.heap = 0, NEW Q, NEW F \in Seq(Q),
         NEW o, NEW r, AsKept(U, J, W, E, R, F, o, r)
  PROVE  Kept(o, r)
<1>1. Kept((U \o HeapFree(J)) \o E, R \o F)
  <2>1. WholeObjects = U \o J /\ ObjectsUpTo(WholeRecords) = U /\ WholeRoots = R /\ Len(E) + Len(F) <= 1
    BY DEF AsKept
  <2> QED
    BY <2>1, KeptFrom
<1> QED
  BY <1>1 DEF AsKept

\* No objects have no heap types.
LEMMA NoObjects == HeapFree(<<>>) = <<>>
<1> DEFINE e == <<>>
<1>1. DOMAIN e = {}
  OBVIOUS
<1>2. HeapFree(e) = [k \in {} |-> Free(e[k])]
  BY <1>1 DEF HeapFree, Free
<1>3. [k \in {} |-> Free(e[k])] \in [1..0 -> {}]
  OBVIOUS
<1>4. [k \in {} |-> Free(e[k])] \in Seq({}) /\ Len([k \in {} |-> Free(e[k])]) = 0
  BY <1>3
<1> QED
  BY <1>2, <1>4, EmptySeq

\* What is loaded is kept where it is all there is.
LEMMA KeptWhole ==
  ASSUME NEW o, NEW r, o \in Seq(Objs), r \in Seq(Roots), WholeObjects = o, WholeRoots = r, ObjectsUpTo(WholeRecords) = o
  PROVE  Kept(o, r)
<1> DEFINE e == <<>>
<1>0. PICK N : N = {}
  OBVIOUS
<1>1. e \in Seq(N) /\ Len(e) = 0
  OBVIOUS
<1>2. e \in Seq(Objs) /\ HeapFree(e) = e
  BY NoObjects
<1> HIDE DEF e
<1>3. o \o e = o /\ r \o e = r
  BY ConcatEmptySeq DEF e
<1>4. \A x \in N : HasHeap(x) /\ x.heap = 0
  BY <1>0
<1>5. AsKept(o, e, o, e, r, e, o, r)
  <2>1. (o \o HeapFree(e)) \o e = o
    BY <1>2, <1>3
  <2>2. Len(e) + Len(e) <= 1
    BY <1>1
  <2> QED
    BY <1>3, <2>1, <2>2 DEF AsKept
<1> QED
  BY <1>1, <1>2, <1>4, <1>5, KeptAs

\* Where the file ends before or within a record without items, what is loaded is kept.
LEMMA KeptAtCut ==
  ASSUME file \in Files, cut \in Int, NEW n \in 1..(Count + 1), RecordStart(file, n) <= cut,
         n <= Count => /\ cut < RecordStart(file, n + 1)
                       /\ file.records[n].tag = "HEAP_DUMP_SEGMENT" => cut = RecordStart(file, n)
  PROVE  Kept(ObjectsUpTo(n - 1), RootsUpTo(n - 1))
<1>1. Parted(ObjectParts, Objs) /\ Parted(RootParts, Roots)
  BY PartsTyped
<1>2. WholeRecords = n - 1 /\ UpTo(ObjectParts, Count) = UpTo(ObjectParts, n - 1)
  BY <1>1, RecordCut
<1>3. UpTo(RootParts, Count) = UpTo(RootParts, n - 1)
  BY <1>1, RecordCut
<1>4. Count \in Nat /\ n - 1 \in 0..Count
  <2>1. Count \in Nat
    BY FileShape DEF Count
  <2> QED
    BY <2>1
<1>5. ObjectsUpTo(n - 1) \in Seq(Objs) /\ RootsUpTo(n - 1) \in Seq(Roots)
  BY <1>1, <1>4, UpToSteps DEF ObjectsUpTo, RootsUpTo
<1>6. WholeObjects = ObjectsUpTo(n - 1) /\ WholeRoots = RootsUpTo(n - 1) /\ ObjectsUpTo(WholeRecords) = ObjectsUpTo(n - 1)
  BY <1>2, <1>3 DEF WholeObjects, WholeRoots, ObjectsUpTo, RootsUpTo, Count
<1> QED
  BY <1>5, <1>6, KeptWhole

\* A record outside the segments that was read: it is loaded, or the file ends within it.
LEMMA RecordLoaded ==
  ASSUME PlaceInv, ContentInv, stage = "body", Record.tag # "HEAP_DUMP_SEGMENT", NEW d \in Cursor, Processed(d),
         Truthful => d.pos <= NextStart,
         DataShape', data'.objects = data.objects, data'.roots = data.roots,
         Truthful /\ d.pos = NextStart /\ d.pos <= cut =>
           GivesNames(data.strings, data.loaded, data'.strings, data'.loaded)
  PROVE  ContentInv'
<1>1. /\ Given /\ rec <= Count /\ cur.pos = Start + 9 /\ cur.pos <= cut /\ cut \in Nat /\ cur.pos \in Nat
      /\ NextStart = cur.pos + BodyBytes(Record, idSize) /\ BodyBytes(Record, idSize) \in Nat
  BY InBody
<1>2. UNCHANGED input /\ stage' = "header" /\ rec' = rec + 1 /\ cur' = d
  BY DEF Processed, input
<1>3. /\ cut \in Int /\ file \in Files /\ rec \in 1..Count /\ Count \in Nat /\ rec \in 1..(Count + 1)
      /\ (rec + 1) - 1 = rec
  BY <1>1, BeforeRecord
<1>4. Start \in Nat /\ NextStart \in Nat /\ d.pos \in Int
  BY <1>1, InRecord DEF Cursor
<1> SUFFICES ASSUME Truthful
             PROVE  IF cur'.pos = RecordStart(file, rec') /\ cur'.pos <= cut
                    THEN Contents(rec', data'.objects, data'.roots, data'.strings, data'.loaded)
                    ELSE cur'.pos >= cut => Kept(data'.objects, data'.roots)
  BY <1>2, LoadedToHeader
<1>5. Contents(rec, data.objects, data.roots, data.strings, data.loaded)
  BY DEF ContentInv, Loaded, NamesLoaded, Contents
<1>6. CASE d.pos = NextStart /\ d.pos <= cut
  <2>1. GivesNames(data.strings, data.loaded, data'.strings, data'.loaded)
    BY <1>6
  <2>2. Contents(rec + 1, data.objects, data.roots, data'.strings, data'.loaded)
    BY <1>1, <1>5, <2>1, RecordLoads
  <2> QED
    BY <1>2, <1>6, <2>2 DEF NextStart
<1>7. CASE ~(d.pos = NextStart /\ d.pos <= cut)
  <2>1. ASSUME d.pos >= cut PROVE Kept(data.objects, data.roots)
    <3>1. cut < NextStart /\ Start <= cut
      BY <1>1, <1>4, <1>7, <2>1
    <3>2. Kept(ObjectsUpTo(rec - 1), RootsUpTo(rec - 1))
      BY <1>3, <3>1, KeptAtCut DEF NextStart, Start, Record
    <3> QED
      BY <1>5, <3>2 DEF Contents
  <2> QED
    BY <1>2, <1>7, <2>1 DEF NextStart
<1> QED
  BY <1>6, <1>7

\* What a handler assigns of the data.
LEMMA NewData ==
  ASSUME DataShape, NEW x
  PROVE  /\ data' = data =>
              /\ DataShape' /\ data'.objects = data.objects /\ data'.roots = data.roots
              /\ data'.strings = data.strings /\ data'.loaded = data.loaded
         /\ data' = [data EXCEPT !.strings = x] =>
              /\ DataShape' /\ data'.objects = data.objects /\ data'.roots = data.roots
              /\ data'.strings = x /\ data'.loaded = data.loaded
         /\ data' = [data EXCEPT !.loaded = x] =>
              /\ DataShape' /\ data'.objects = data.objects /\ data'.roots = data.roots
              /\ data'.strings = data.strings /\ data'.loaded = x
         /\ data' = [data EXCEPT !.objects = x] =>
              /\ DataShape' /\ data'.objects = x /\ data'.roots = data.roots
              /\ data'.strings = data.strings /\ data'.loaded = data.loaded
         /\ data' = [data EXCEPT !.roots = x] =>
              /\ DataShape' /\ data'.objects = data.objects /\ data'.roots = x
              /\ data'.strings = data.strings /\ data'.loaded = data.loaded
BY DEF DataShape

\* Refused, nothing is loaded.
LEMMA FailedLoaded ==
  ASSUME ContentInv, Failed \/ Aborted \/ Astray
  PROVE  ContentInv'
<1>1. UNCHANGED input /\ data' = data /\ stage' \in {"error", "aborted", "astray"}
  BY DEF Failed, Aborted, Astray
<1>2. DataShape'
  BY <1>1, NewData DEF ContentInv
<1> QED
  BY <1>1, <1>2, RefusedLoaded

\* A string.
LEMMA Utf8Loaded == PlaceInv /\ ContentInv /\ ReadUtf8String => ContentInv'
<1> SUFFICES ASSUME PlaceInv, ContentInv, ReadUtf8String PROVE ContentInv'
  OBVIOUS
<1> DEFINE named == Read(cur, "id")
<1> DEFINE id == Got(cur, named, Record.id)
<1> DEFINE text == Bytes(named, named.left)
<1>1. stage = "body" /\ Record.tag = "UTF8_STRING"
  BY DEF ReadUtf8String, Body
<1>2. /\ Given /\ rec <= Count /\ cur \in Cursor /\ ~cur.err
      /\ cur.left = BodyBytes(Record, idSize) + Record.lie
      /\ cur.pos \in Nat /\ cur.left \in Int /\ idSize \in Nat \ {0} /\ cut \in Nat
      /\ NextStart = cur.pos + BodyBytes(Record, idSize)
  BY <1>1, InBody
<1>3. BodyBytes(Record, idSize) = idSize + Record.len
  BY <1>1 DEF BodyBytes
<1>4. Record.len \in Nat /\ Record.lie \in Int /\ (Truthful => Record.lie = 0) /\ Record.len + Record.lie >= 0
  BY <1>1, <1>2, InRecord
<1>5. named = [pos |-> cur.pos + idSize, left |-> cur.left - idSize, err |-> cur.err]
  BY <1>2 DEF Read, Cursor
<1>6. named \in Cursor /\ named.pos = cur.pos + idSize /\ named.left = Record.len + Record.lie /\ named.left \in Nat
  <2>1. named.left = cur.left - idSize /\ named.pos = cur.pos + idSize /\ named.err = cur.err
    BY <1>5
  <2>2. named.left = Record.len + Record.lie
    BY <1>2, <1>3, <1>4, <2>1
  <2>3. named.pos \in Int /\ named.left \in Int /\ cur.err \in BOOLEAN
    BY <1>2, <1>4, <2>1, <2>2 DEF Cursor
  <2> QED
    BY <1>2, <1>4, <1>5, <2>1, <2>2, <2>3 DEF Cursor
<1> HIDE DEF named
<1>7. /\ named.left = 0 \/ named.pos + named.left <= cut => Moved(named, text, named.left)
      /\ named.left # 0 /\ named.pos + named.left > cut => text.err
  BY <1>2, <1>6, BytesMove
<1> HIDE DEF text
<1>8. CASE id = 0 \/ named.left = 0 \/ text.err
  <2>1. Failed
    BY <1>8 DEF ReadUtf8String, named, text
  <2> QED
    BY <2>1, FailedLoaded
<1>9. CASE ~(id = 0 \/ named.left = 0 \/ text.err)
  <2>1. Processed(text) /\ data' = [data EXCEPT !.strings = Emplace(data.strings, id, Record.ref)]
    BY <1>9 DEF ReadUtf8String, named, text
  <2>2. Moved(named, text, named.left) /\ text \in Cursor /\ ~text.err
    BY <1>2, <1>6, <1>7, <1>9 DEF Moved
  <2>3. text.pos = named.pos + named.left
    BY <2>2 DEF Moved
  <2>4. id = Record.id
    BY <1>9 DEF Got
  <2>5. /\ DataShape' /\ data'.objects = data.objects /\ data'.roots = data.roots
        /\ data'.strings = Emplace(data.strings, id, Record.ref) /\ data'.loaded = data.loaded
    BY <2>1, NewData DEF ContentInv
  <2>6. GivesNames(data.strings, data.loaded, data'.strings, data'.loaded)
    BY <1>1, <2>4, <2>5 DEF GivesNames
  <2>7. Truthful => text.pos <= NextStart
    BY <1>2, <1>3, <1>4, <1>6, <2>3
  <2> QED
    BY <1>1, <2>1, <2>2, <2>5, <2>6, <2>7, RecordLoaded
<1> QED
  BY <1>8, <1>9

\* A loaded class.
LEMMA LoadClassLoaded == PlaceInv /\ ContentInv /\ ReadLoadClass => ContentInv'
<1> SUFFICES ASSUME PlaceInv, ContentInv, ReadLoadClass PROVE ContentInv'
  OBVIOUS
<1> DEFINE read == Reads(cur, LoadClassOps)
<1> DEFINE classId == ValueAt(cur, LoadClassOps, 2, Record.id)
<1> DEFINE nameId == ValueAt(cur, LoadClassOps, 4, Record.ref)
<1>1. stage = "body" /\ Record.tag = "LOAD_CLASS"
  BY DEF ReadLoadClass, Body
<1>2. /\ Given /\ rec <= Count /\ cur \in Cursor /\ ~cur.err
      /\ cur.pos \in Nat /\ cur.left \in Int /\ idSize \in Nat \ {0} /\ cut \in Nat
      /\ NextStart = cur.pos + BodyBytes(Record, idSize)
  BY <1>1, InBody
<1> DEFINE n == 2 * idSize + 8
<1>3. BodyBytes(Record, idSize) = n
  BY <1>1 DEF BodyBytes
<1>4. AreBytes(LoadClassOps, n) /\ Len(LoadClassOps) = 4 /\ cut \in Int
  BY <1>2, FixedParts
<1>5. /\ Moved(cur, read, n) /\ read \in Cursor
      /\ ~read.err /\ read.pos <= cut => \A k \in 1..4 : \A v : ValueAt(cur, LoadClassOps, k, v) = v
  <2> HIDE DEF n
  <2> QED
    BY <1>2, <1>4, PartRead
<1>6. ~read.err /\ read.pos <= cut => classId = Record.id /\ nameId = Record.ref
  BY <1>5
<1>7. IF read.err THEN Failed
      ELSE Processed(read) /\ data' = [data EXCEPT !.loaded = Emplace(data.loaded, classId, nameId)]
  BY DEF ReadLoadClass
<1> HIDE DEF read, n, classId, nameId
<1>8. CASE read.err
  BY <1>7, <1>8, FailedLoaded
<1>9. CASE ~read.err
  <2>1. Processed(read) /\ data' = [data EXCEPT !.loaded = Emplace(data.loaded, classId, nameId)]
    BY <1>7, <1>9
  <2>2. /\ DataShape' /\ data'.objects = data.objects /\ data'.roots = data.roots
        /\ data'.strings = data.strings /\ data'.loaded = Emplace(data.loaded, classId, nameId)
    BY <2>1, NewData DEF ContentInv
  <2>3. read.pos <= NextStart
    BY <1>2, <1>3, <1>5, <1>9 DEF Moved
  <2>4. read.pos <= cut => GivesNames(data.strings, data.loaded, data'.strings, data'.loaded)
    BY <1>1, <1>6, <1>9, <2>2 DEF GivesNames
  <2> QED
    BY <1>1, <1>5, <2>1, <2>2, <2>3, <2>4, RecordLoaded
<1> QED
  BY <1>8, <1>9

\* Where a handler loads nothing.
LEMMA NothingLoaded ==
  ASSUME PlaceInv, ContentInv, stage = "body", Record.tag \in {"STACK_FRAME", "STACK_TRACE", "HEAP_DUMP_END"},
         NEW d \in Cursor, Processed(d), Truthful => d.pos <= NextStart, data' = data
  PROVE  ContentInv'
<1>1. /\ DataShape' /\ data'.objects = data.objects /\ data'.roots = data.roots
      /\ data'.strings = data.strings /\ data'.loaded = data.loaded
  BY NewData DEF ContentInv
<1>2. GivesNames(data.strings, data.loaded, data'.strings, data'.loaded)
  BY <1>1 DEF GivesNames
<1> QED
  BY <1>1, <1>2, RecordLoaded

\* A stack frame.
LEMMA StackFrameLoaded == PlaceInv /\ ContentInv /\ ReadStackFrame => ContentInv'
<1> SUFFICES ASSUME PlaceInv, ContentInv, ReadStackFrame PROVE ContentInv'
  OBVIOUS
<1> DEFINE d == [cur EXCEPT !.pos = @ + cur.left]
<1>1. stage = "body" /\ Record.tag = "STACK_FRAME"
  BY DEF ReadStackFrame, Body
<1>2. /\ Given /\ rec <= Count /\ cur \in Cursor /\ cur.pos \in Nat /\ cur.left \in Int
      /\ cur.pos + cur.left = NextStart + Record.lie
  BY <1>1, InBody
<1>3. Failed \/ (Processed(d) /\ data' = data)
  BY DEF ReadStackFrame
<1>4. ASSUME Processed(d), data' = data PROVE ContentInv'
  <2>1. d = [pos |-> cur.pos + cur.left, left |-> cur.left, err |-> cur.err]
    BY <1>2 DEF Cursor
  <2>2. d \in Cursor /\ d.pos = NextStart + Record.lie
    BY <1>2, <2>1 DEF Cursor
  <2>3. NextStart \in Nat /\ (Truthful => Record.lie = 0)
    BY <1>2, InRecord
  <2> HIDE DEF d
  <2>4. Truthful => d.pos <= NextStart
    BY <2>2, <2>3
  <2> QED
    BY <1>1, <1>4, <2>2, <2>4, NothingLoaded
<1> QED
  BY <1>3, <1>4, FailedLoaded

\* A stack trace.
LEMMA StackTraceLoaded == PlaceInv /\ ContentInv /\ ReadStackTrace => ContentInv'
<1> SUFFICES ASSUME PlaceInv, ContentInv, ReadStackTrace PROVE ContentInv'
  OBVIOUS
<1> DEFINE depth == ValueAt(cur, StackTraceOps, 3, Record.len)
<1> DEFINE head == Reads(cur, StackTraceOps)
<1> DEFINE read == Reads(head, [k \in 1..depth |-> "int"])
<1>1. stage = "body" /\ Record.tag = "STACK_TRACE"
  BY DEF ReadStackTrace, Body
<1>2. /\ Given /\ rec <= Count /\ cur \in Cursor /\ cur.pos \in Nat /\ idSize \in Nat \ {0} /\ cut \in Nat
      /\ NextStart = cur.pos + BodyBytes(Record, idSize)
  BY <1>1, InBody
<1>3. Record.len \in Nat /\ NextStart \in Nat
  BY <1>2, InRecord
<1>4. BodyBytes(Record, idSize) = 12 + 4 * Record.len
  BY <1>1 DEF BodyBytes
<1>5. depth \in {0, Record.len} /\ depth \in Nat
  BY <1>3 DEF ValueAt, Got
<1>6. AreBytes(StackTraceOps, 12) /\ cut \in Int
  BY <1>2, FixedParts
<1>7. head \in Cursor /\ Moved(cur, head, 12)
  BY <1>2, <1>6, PartRead
<1>8. Moved(head, read, 4 * depth) /\ 4 * depth \in Nat /\ read \in Cursor
  <2> HIDE DEF depth, head
  <2>1. AreBytes([k \in 1..depth |-> "int"], 4 * depth)
    BY <1>2, <1>5, IntsRead
  <2> QED
    BY <1>2, <1>6, <1>7, <2>1, PartRead
<1>9. IF read.err THEN Failed ELSE Processed(read) /\ data' = data
  BY DEF ReadStackTrace
<1> HIDE DEF depth, head, read
<1>10. Moved(cur, read, 12 + 4 * depth)
  BY <1>2, <1>7, <1>8, MovedOn
<1>11. read.pos <= NextStart
  BY <1>2, <1>3, <1>4, <1>5, <1>8, <1>10 DEF Moved, Cursor
<1>12. CASE read.err
  BY <1>9, <1>12, FailedLoaded
<1>13. CASE ~read.err
  BY <1>1, <1>8, <1>9, <1>11, <1>13, NothingLoaded
<1> QED
  BY <1>12, <1>13

\* The end record.
LEMMA EndRecordLoaded == PlaceInv /\ ContentInv /\ HeapDumpEnd => ContentInv'
<1> SUFFICES ASSUME PlaceInv, ContentInv, HeapDumpEnd PROVE ContentInv'
  OBVIOUS
<1>1. stage = "body" /\ Record.tag = "HEAP_DUMP_END" /\ Processed(cur) /\ data' = data
  BY DEF HeapDumpEnd, Body
<1>2. /\ cur \in Cursor /\ cur.pos \in Nat /\ BodyBytes(Record, idSize) \in Nat
      /\ NextStart = cur.pos + BodyBytes(Record, idSize)
  BY <1>1, InBody
<1>3. cur.pos <= NextStart
  BY <1>2
<1> QED
  BY <1>1, <1>2, <1>3, NothingLoaded

-------------------------------------------------------------------------------
(* Between the records. *)

\* The file's own header.
LEMMA FileHeaderLoaded == PlaceInv /\ ContentInv /\ ReadFileHeader => ContentInv'
<1> SUFFICES ASSUME PlaceInv, ContentInv, ReadFileHeader PROVE ContentInv'
  OBVIOUS
<1>1. stage = "start" /\ rec = 1 /\ cur \in Cursor /\ file \in Files /\ cut \in Nat
  BY DEF ReadFileHeader, PlaceInv, Given
<1>2. \/ Failed
      \/ /\ stage' = "header" /\ cur' = [cur EXCEPT !.pos = 12] /\ UNCHANGED input /\ rec' = rec /\ data' = data
         /\ ~(cut < 12)
  BY DEF ReadFileHeader, input
<1>3. ASSUME stage' = "header", cur' = [cur EXCEPT !.pos = 12], UNCHANGED input, rec' = rec, data' = data, ~(cut < 12)
      PROVE  ContentInv'
  <2>1. cur'.pos = 12
    BY <1>1, <1>3 DEF Cursor
  <2>2. RecordStart(file, 1) = 12
    BY <1>1, RecordsTiled
  <2>3. cur'.pos = RecordStart(file, rec') /\ cur'.pos <= cut
    BY <1>1, <1>3, <2>1, <2>2
  <2>4. Truthful => Contents(rec, data.objects, data.roots, data.strings, data.loaded)
    BY <1>1 DEF ContentInv, Loaded, NamesLoaded, Contents
  <2>5. DataShape'
    BY <1>3, NewData DEF ContentInv
  <2> QED
    BY <1>3, <2>3, <2>4, <2>5, LoadedToHeader
<1> QED
  BY <1>2, <1>3, FailedLoaded

\* No bytes follow.
LEMMA NoMoreLoaded == PlaceInv /\ ContentInv /\ NoMoreRecords => ContentInv'
<1> SUFFICES ASSUME PlaceInv, ContentInv, NoMoreRecords PROVE ContentInv'
  OBVIOUS
<1>1. stage = "header" /\ cur.pos >= cut /\ stage' = "loaded" /\ UNCHANGED input /\ data' = data /\ rec' = rec
  BY DEF NoMoreRecords
<1>2. /\ Given /\ cur.pos \in Int /\ cut \in Nat /\ rec \in 1..(Count + 1) /\ HeaderPlaced(rec, cur)
      /\ Count \in Nat /\ Start \in Nat
  BY <1>1, AtHeader
<1>3. DataShape' /\ file \in Files /\ cut \in Int
  BY <1>1, <1>2, NewData DEF ContentInv, Given
<1> SUFFICES ASSUME Truthful
             PROVE  /\ Kept(data.objects, data.roots)
                    /\ Intact => Contents(Count + 1, data.objects, data.roots, data.strings, data.loaded)
  BY <1>1, <1>3, LoadedToEnd
<1>4. CASE cur.pos = Start /\ cur.pos <= cut
  <2>1. cut = Start
    BY <1>1, <1>2, <1>4
  <2>2. Contents(rec, data.objects, data.roots, data.strings, data.loaded)
    BY <1>1, <1>4 DEF ContentInv, Loaded, NamesLoaded, Contents
  <2>3. rec <= Count => cut < RecordStart(file, rec + 1)
    <3>1. rec <= Count => NextStart = Start + 9 + BodyBytes(Record, file.idSize) /\ BodyBytes(Record, file.idSize) \in Nat
      BY <1>2, InRecord
    <3> QED
      BY <1>2, <2>1, <3>1 DEF NextStart
  <2>4. RecordStart(file, rec) <= cut /\ cut = RecordStart(file, rec)
    BY <1>2, <2>1 DEF Start
  <2>5. Kept(ObjectsUpTo(rec - 1), RootsUpTo(rec - 1))
    BY <1>2, <1>3, <2>3, <2>4, KeptAtCut
  <2>6. Intact => rec = Count + 1
    <3> SUFFICES ASSUME Intact, rec <= Count PROVE FALSE
      BY <1>2
    <3>1. NextStart <= cut /\ NextStart = Start + 9 + BodyBytes(Record, file.idSize) /\ BodyBytes(Record, file.idSize) \in Nat
      BY <1>2, IntactRecord, InRecord
    <3> QED
      BY <1>2, <2>1, <3>1
  <2> QED
    BY <2>2, <2>5, <2>6 DEF Contents
<1>5. CASE ~(cur.pos = Start /\ cur.pos <= cut)
  <2>1. Kept(data.objects, data.roots)
    BY <1>1, <1>5 DEF ContentInv
  <2>2. ~Intact
    <3>1. CASE cur.pos < cut
      BY <1>1, <1>2, <3>1
    <3>2. CASE ~(cur.pos < cut)
      BY <1>2, <1>5, <3>2 DEF HeaderPlaced, Start
    <3> QED
      BY <3>1, <3>2
  <2> QED
    BY <2>1, <2>2
<1> QED
  BY <1>4, <1>5

\* A header is read.
LEMMA NextLoaded == PlaceInv /\ ContentInv /\ NextRecord => ContentInv'
<1> SUFFICES ASSUME PlaceInv, ContentInv, NextRecord PROVE ContentInv'
  OBVIOUS
<1>1. /\ stage = "header" /\ cur.pos + 9 <= cut /\ cur.pos = RecordStart(file, rec)
      /\ stage' = "body" /\ UNCHANGED input /\ rec' = rec /\ data' = data
  BY DEF NextRecord, input
<1>2. cur.pos \in Int /\ cut \in Nat
  BY <1>1, AtHeader
<1>3. cur.pos <= cut /\ cur.pos = Start
  BY <1>1, <1>2 DEF Start
<1>4. Truthful => Contents(rec, data.objects, data.roots, data.strings, data.loaded)
  BY <1>1, <1>3 DEF ContentInv, Loaded, NamesLoaded, Contents
<1>5. DataShape'
  BY <1>1, NewData DEF ContentInv
<1> QED
  BY <1>1, <1>4, <1>5, LoadedToBody

\* Where nothing has been read, nothing is loaded.
LEMMA InitLoaded == Init => ContentInv
<1> SUFFICES ASSUME Init PROVE ContentInv
  OBVIOUS
<1>1. /\ file \in Files /\ stage = "start"
      /\ data = [strings |-> <<>>, loaded |-> <<>>, objects |-> <<>>, roots |-> <<>>]
  BY DEF Init
<1>2. DataShape
  BY <1>1 DEF DataShape
<1>3. Parted(ObjectParts, Objs) /\ Parted(RootParts, Roots)
  BY <1>1, PartsTyped
<1>4. UpTo(ObjectParts, 0) = <<>> /\ UpTo(RootParts, 0) = <<>>
  BY <1>1, <1>3, UpToSteps
<1>5. ObjectsUpTo(1 - 1) = <<>> /\ RootsUpTo(1 - 1) = <<>>
  <2>1. ASSUME NEW n, n = 0 PROVE ObjectsUpTo(n) = <<>> /\ RootsUpTo(n) = <<>>
    BY <1>4, <2>1 DEF ObjectsUpTo, RootsUpTo
  <2>2. 1 - 1 = 0
    OBVIOUS
  <2> QED
    BY <2>1, <2>2
<1>6. Names("UTF8_STRING", 1) = <<>> /\ Names("LOAD_CLASS", 1) = <<>>
  BY <1>1, NoNames
<1>7. Loaded(1)
  BY <1>1, <1>5, <1>6 DEF Loaded, NamesLoaded
<1> QED
  BY <1>1, <1>2, <1>7 DEF ContentInv

\* A segment begins.
LEMMA EnterLoaded == PlaceInv /\ ContentInv /\ EnterSegment => ContentInv'
<1> SUFFICES ASSUME PlaceInv, ContentInv, EnterSegment PROVE ContentInv'
  OBVIOUS
<1>1. stage = "body" /\ Record.tag = "HEAP_DUMP_SEGMENT" /\ rec' = rec /\ cur' = cur
      /\ seg' = [item |-> 1, heapType |-> 0, mark |-> Len(data.objects)]
      /\ UNCHANGED input /\ stage' = "segment" /\ data' = data
  BY DEF EnterSegment, Body, input
<1>2. Given /\ rec <= Count /\ cur.pos <= cut
  BY <1>1, InBody
<1>3. /\ file \in Files /\ rec \in 1..Count
      /\ ObjectsUpTo(rec - 1) \in Seq(Objs) /\ RootsUpTo(rec - 1) \in Seq(Roots)
  BY <1>2, BeforeRecord
<1>4. Truthful => Contents(rec, data.objects, data.roots, data.strings, data.loaded)
  BY <1>1 DEF ContentInv, Loaded, NamesLoaded, Contents
<1>5. DataShape'
  BY <1>1, NewData DEF ContentInv
<1>6. Joined(ObjectParts[rec], 0) = <<>> /\ Joined(RootParts[rec], 0) = <<>>
  BY <1>3, SegmentParts
<1>7. HeapBefore(rec, 1) = 0
  BY <1>3, HeapBeforeSteps
<1>8. ASSUME Truthful PROVE SegmentContents(rec, 1, data.objects, data.roots, data.strings, data.loaded, 0)
  <2>1. ASSUME NEW z, z = 0 PROVE Joined(ObjectParts[rec], z) = <<>> /\ Joined(RootParts[rec], z) = <<>>
    BY <1>6, <2>1
  <2>2. Joined(ObjectParts[rec], 1 - 1) = <<>> /\ Joined(RootParts[rec], 1 - 1) = <<>>
    BY <2>1
  <2>3. HeapFree(<<>>) = <<>>
    BY NoObjects
  <2>4. ObjectsUpTo(rec - 1) \o <<>> = ObjectsUpTo(rec - 1) /\ RootsUpTo(rec - 1) \o <<>> = RootsUpTo(rec - 1)
    BY <1>3, ConcatEmptySeq
  <2> QED
    BY <1>4, <1>7, <1>8, <2>2, <2>3, <2>4 DEF SegmentContents, Contents
<1>9. Truthful => Len(data.objects) = Len(ObjectsUpTo(rec - 1))
  BY <1>4 DEF Contents
<1>10. seg'.item = 1 /\ seg'.heapType = 0 /\ seg'.mark = Len(data.objects)
  BY <1>1
<1>11. Truthful =>
         /\ seg'.mark = Len(ObjectsUpTo(rec - 1))
         /\ SegmentContents(rec, seg'.item, data.objects, data.roots, data.strings, data.loaded, seg'.heapType)
  BY <1>8, <1>9, <1>10
<1> QED
  BY <1>1, <1>2, <1>5, <1>11, LoadedToSegment

-------------------------------------------------------------------------------
(* The items of a segment. *)

ConcatIs(s, t, new) == new = s \o t

\* One more object, or none.
LEMMA OneItemMore ==
  ASSUME NEW U \in Seq(Objs), NEW J \in Seq(Objs), NEW O \in Seq(Objs), NEW K, ConcatIs(J, O, K),
         NEW s, ConcatIs(U, HeapFree(J), s), NEW new, ConcatIs(s, HeapFree(O), new)
  PROVE  ConcatIs(U, HeapFree(K), new)
<1> DEFINE V == Objs \cup Freed(Objs)
<1> DEFINE X == HeapFree(J)
<1> DEFINE Y == HeapFree(O)
<1>1. X \in Seq(Freed(Objs)) /\ Y \in Seq(Freed(Objs))
  BY FreeSeq
<1>2. Objs \subseteq V /\ Freed(Objs) \subseteq V
  OBVIOUS
<1>3. HeapFree(K) = X \o Y
  BY FreeConcat DEF ConcatIs
<1>4. s = U \o X /\ new = s \o Y
  BY DEF ConcatIs
<1> HIDE DEF V, X, Y
<1>5. U \in Seq(V) /\ X \in Seq(V) /\ Y \in Seq(V)
  BY <1>1, <1>2, SeqMonotonic
<1>6. JoinsFromEither(U, X, Y)
  BY <1>5, Associative
<1> QED
  BY <1>3, <1>4, <1>6 DEF JoinsFromEither, ConcatIs

\* One more root, or none.
LEMMA OneRootMore ==
  ASSUME NEW U \in Seq(Roots), NEW J \in Seq(Roots), NEW O \in Seq(Roots), NEW K, ConcatIs(J, O, K),
         NEW s, ConcatIs(U, J, s), NEW new, ConcatIs(s, O, new)
  PROVE  ConcatIs(U, K, new)
<1>1. JoinsFromEither(U, J, O)
  BY Associative
<1> QED
  BY <1>1 DEF JoinsFromEither, ConcatIs

\* What an item adds to the objects and the roots.
Adds(E, F, o, r) == o = data.objects \o E /\ r = data.roots \o F /\ Len(E) + Len(F) <= 1

\* What it adds when it was read as it is written.
AddsWritten(E, F, heapType) ==
  /\ E = HeapFree(ObjectsOf(Item, rec)) /\ F = RootsOf(Item)
  /\ heapType = IF Item.kind = "info" THEN Item.len ELSE seg.heapType

\* The segment before an item.
LEMMA BeforeItem ==
  ASSUME PlaceInv, ContentInv, MoreData, ~cur.err, cur.pos < cut, InStep, Truthful
  PROVE  /\ ItemPlace /\ Given /\ rec \in 1..Count /\ file \in Files /\ cut \in Int /\ cur.left >= Size
         /\ rec <= Count /\ Item \in ItemShape /\ Reading
         /\ seg.item \in 1..Len(file.records[rec].items) /\ Item = file.records[rec].items[seg.item]
         /\ SegmentLoaded(rec, seg.item) /\ seg.mark = Len(ObjectsUpTo(rec - 1))
<1>1. ItemPlace /\ Reading /\ Item \in ItemShape /\ stage = "segment"
  BY InItem DEF MoreData
<1>2. /\ Given /\ rec <= Count /\ seg.item \in 1..Len(Record.items) /\ cut \in Nat /\ cur.pos \in Nat /\ cur.left \in Int
      /\ Size \in Nat
  BY <1>1 DEF ItemPlace
<1>3. rec \in 1..Count /\ file \in Files /\ Record.lie = 0
  BY <1>2, InRecord
<1>4. ~(cur.left < Size)
  BY <1>1, <1>3, SizeOrCut
<1>5. cur.left >= Size /\ cut \in Int /\ cur.pos <= cut
  BY <1>2, <1>4
<1>6. SegmentLoaded(rec, seg.item) /\ seg.mark = Len(ObjectsUpTo(rec - 1))
  BY <1>1, <1>5 DEF ContentInv
<1> QED
  BY <1>1, <1>2, <1>3, <1>5, <1>6 DEF Item, Record

\* Its pieces.
LEMMA ItemParts ==
  ASSUME file \in Files, cut \in Int, NEW n \in 1..Count, NEW k \in 1..Len(file.records[n].items)
  PROVE  LET J == Joined(ObjectParts[n], k - 1)
             K == Joined(ObjectParts[n], (k + 1) - 1)
             R == Joined(RootParts[n], k - 1)
             S == Joined(RootParts[n], (k + 1) - 1)
             it == file.records[n].items[k]
         IN /\ J \in Seq(Objs) /\ ObjectsOf(it, n) \in Seq(Objs) /\ K = J \o ObjectsOf(it, n)
            /\ R \in Seq(Roots) /\ RootsOf(it) \in Seq(Roots) /\ S = R \o RootsOf(it)
            /\ HeapBefore(n, k + 1) = IF it.kind = "info" THEN it.len ELSE HeapBefore(n, k)
<1> DEFINE N == Len(file.records[n].items)
<1> DEFINE it == file.records[n].items[k]
<1>1. N \in Nat
  BY SegmentParts
<1>2. k - 1 \in 0..N /\ (k + 1) - 1 = k
  BY <1>1
<1>3. /\ Joined(ObjectParts[n], k - 1) \in Seq(Objs) /\ Joined(RootParts[n], k - 1) \in Seq(Roots)
      /\ Joined(ObjectParts[n], k) = Joined(ObjectParts[n], k - 1) \o ObjectsOf(it, n)
      /\ Joined(RootParts[n], k) = Joined(RootParts[n], k - 1) \o RootsOf(it)
  BY <1>2, SegmentParts
<1>4. ObjectsOf(it, n) \in Seq(Objs) /\ RootsOf(it) \in Seq(Roots)
  BY PartsTyped DEF Parted
<1>5. HeapBefore(n, k + 1) = IF it.kind = "info" THEN it.len ELSE HeapBefore(n, k)
  BY HeapBeforeSteps
<1> QED
  BY <1>2, <1>3, <1>4, <1>5

\* An item that is there is loaded.
LEMMA ItemLoads ==
  ASSUME file \in Files, cut \in Int, rec \in 1..Count, seg.item \in 1..Len(file.records[rec].items),
         Item = file.records[rec].items[seg.item], Given, rec <= Count,
         SegmentLoaded(rec, seg.item), NEW E, NEW F, NEW o, NEW r, NEW h,
         Adds(E, F, o, r), AddsWritten(E, F, h)
  PROVE  SegmentContents(rec, seg.item + 1, o, r, data.strings, data.loaded, h)
<1> DEFINE U == ObjectsUpTo(rec - 1)
<1> DEFINE R == RootsUpTo(rec - 1)
<1> DEFINE J == Joined(ObjectParts[rec], seg.item - 1)
<1> DEFINE K == Joined(ObjectParts[rec], (seg.item + 1) - 1)
<1> DEFINE L == Joined(RootParts[rec], seg.item - 1)
<1> DEFINE M == Joined(RootParts[rec], (seg.item + 1) - 1)
<1> DEFINE O == ObjectsOf(Item, rec)
<1> DEFINE P == RootsOf(Item)
<1>1. U \in Seq(Objs) /\ R \in Seq(Roots)
  BY BeforeRecord
<1>2. /\ J \in Seq(Objs) /\ O \in Seq(Objs) /\ K = J \o O
      /\ L \in Seq(Roots) /\ P \in Seq(Roots) /\ M = L \o P
      /\ HeapBefore(rec, seg.item + 1) = IF Item.kind = "info" THEN Item.len ELSE HeapBefore(rec, seg.item)
  BY ItemParts
<1>3. data.objects = U \o HeapFree(J) /\ data.roots = R \o L /\ seg.heapType = HeapBefore(rec, seg.item)
  BY DEF SegmentLoaded
<1>4. E = HeapFree(O) /\ F = P
  BY DEF AddsWritten
<1>5. o = data.objects \o HeapFree(O) /\ r = data.roots \o P
  BY <1>4 DEF Adds
<1>6. h = HeapBefore(rec, seg.item + 1)
  BY <1>2, <1>3 DEF AddsWritten
<1>9. /\ ConcatIs(J, O, K) /\ ConcatIs(U, HeapFree(J), data.objects) /\ ConcatIs(data.objects, HeapFree(O), o)
      /\ ConcatIs(L, P, M) /\ ConcatIs(R, L, data.roots) /\ ConcatIs(data.roots, P, r)
  BY <1>2, <1>3, <1>5 DEF ConcatIs
<1> HIDE DEF U, R, J, K, L, M, O, P
<1>7. ConcatIs(U, HeapFree(K), o)
  BY <1>1, <1>2, <1>9, OneItemMore
<1>8. ConcatIs(R, M, r)
  BY <1>1, <1>2, <1>9, OneRootMore
<1> QED
  BY <1>6, <1>7, <1>8 DEF ConcatIs, SegmentContents, SegmentLoaded, NamesLoaded, U, R, K, M

\* An item the file ends in is kept, as far as it goes.
LEMMA ItemKept ==
  ASSUME file \in Files, cut \in Int, rec \in 1..Count, seg.item \in 1..Len(file.records[rec].items),
         Given, rec <= Count, file.records[rec].tag = "HEAP_DUMP_SEGMENT",
         ItemStart(file, rec, seg.item) <= cut, cut < ItemStart(file, rec, seg.item + 1),
         SegmentLoaded(rec, seg.item),
         NEW T, NEW E \in Seq(T), \A x \in T : HasHeap(x) /\ x.heap = 0, NEW Q, NEW F \in Seq(Q), NEW o, NEW r,
         Adds(E, F, o, r)
  PROVE  Kept(o, r) /\ WholeRecords = rec - 1
<1> DEFINE U == ObjectsUpTo(rec - 1)
<1> DEFINE R == RootsUpTo(rec - 1)
<1> DEFINE J == Joined(ObjectParts[rec], seg.item - 1)
<1> DEFINE L == Joined(RootParts[rec], seg.item - 1)
<1>1. U \in Seq(Objs) /\ R \in Seq(Roots) /\ Parted(ObjectParts, Objs) /\ Parted(RootParts, Roots)
      /\ WholeObjects = UpTo(ObjectParts, Count) /\ WholeRoots = UpTo(RootParts, Count)
  BY BeforeRecord
<1>2. J \in Seq(Objs) /\ L \in Seq(Roots)
  BY ItemParts
<1>3. data.objects = U \o HeapFree(J) /\ data.roots = R \o L
  BY DEF SegmentLoaded
<1>4. WholeRecords = rec - 1 /\ UpTo(ObjectParts, Count) = UpTo(ObjectParts, rec - 1) \o J
  BY <1>1, ItemCut
<1>5. UpTo(RootParts, Count) = UpTo(RootParts, rec - 1) \o L
  BY <1>1, ItemCut
<1>6. WholeObjects = U \o J /\ WholeRoots = R \o L
  BY <1>1, <1>4, <1>5 DEF ObjectsUpTo, RootsUpTo
<1>7. ObjectsUpTo(WholeRecords) = U
  BY <1>4
<1> HIDE DEF U, R, J, L
<1> DEFINE W == R \o L
<1>8. W \in Seq(Roots)
  BY <1>1, <1>2, ConcatProperties
<1>9. AsKept(U, J, WholeObjects, E, W, F, o, r)
  BY <1>3, <1>6, <1>7 DEF AsKept, Adds
<1> HIDE DEF W
<1>10. Kept(o, r)
  BY <1>1, <1>2, <1>8, <1>9, KeptAs
<1> QED
  BY <1>4, <1>10

\* Nothing is said of files whose declared sizes are wrong.
LEMMA NotTruthful ==
  ASSUME ~Truthful, UNCHANGED input, DataShape'
  PROVE  ContentInv'
<1>1. Truthful' = Truthful
  BY SameFile
<1> QED
  BY <1>1 DEF ContentInv

\* What is loaded within a segment is a sequence.
LEMMA ItemsTyped ==
  ASSUME file \in Files, cut \in Int, rec \in 1..Count, seg.item \in 1..Len(file.records[rec].items),
         Given, rec <= Count, SegmentLoaded(rec, seg.item)
  PROVE  data.objects \in Seq(Objs \cup Freed(Objs)) /\ data.roots \in Seq(Roots)
<1> DEFINE V == Objs \cup Freed(Objs)
<1> DEFINE U == ObjectsUpTo(rec - 1)
<1> DEFINE R == RootsUpTo(rec - 1)
<1> DEFINE J == Joined(ObjectParts[rec], seg.item - 1)
<1> DEFINE L == Joined(RootParts[rec], seg.item - 1)
<1> DEFINE X == HeapFree(J)
<1>1. U \in Seq(Objs) /\ R \in Seq(Roots)
  BY BeforeRecord
<1>2. J \in Seq(Objs) /\ L \in Seq(Roots)
  BY ItemParts
<1>3. data.objects = U \o X /\ data.roots = R \o L
  BY DEF SegmentLoaded
<1>4. X \in Seq(Freed(Objs))
  BY <1>2, FreeSeq
<1>5. Objs \subseteq V /\ Freed(Objs) \subseteq V
  OBVIOUS
<1> HIDE DEF U, R, J, L, X, V
<1>6. U \in Seq(V) /\ X \in Seq(V)
  BY <1>1, <1>4, <1>5, SeqMonotonic
<1>7. U \o X \in Seq(V) /\ R \o L \in Seq(Roots)
  BY <1>1, <1>2, <1>6, ConcatProperties
<1> QED
  BY <1>3, <1>7 DEF V

\* One object without its heap type.
LEMMA OneObject ==
  ASSUME NEW o
  PROVE  HeapFree(<<o>>) = <<Free(o)>>
<1> DEFINE s == <<o>>
<1> DEFINE t == <<Free(o)>>
<1>1. s \in Seq({o}) /\ Len(s) = 1 /\ s[1] = o /\ t \in Seq({Free(o)}) /\ Len(t) = 1 /\ t[1] = Free(o)
  OBVIOUS
<1> HIDE DEF s, t
<1> DEFINE u == HeapFree(s)
<1>2. u \in Seq(Freed({o})) /\ Len(u) = 1 /\ \A i \in 1..1 : u[i] = Free(s[i])
  BY <1>1, FreeSeq
<1> HIDE DEF u
<1>3. u \in Seq(Freed({o}) \cup {Free(o)}) /\ t \in Seq(Freed({o}) \cup {Free(o)})
  BY <1>1, <1>2, SeqMonotonic
<1>4. \A i \in 1..1 : u[i] = t[i]
  BY <1>1, <1>2
<1>5. u = t
  BY <1>1, <1>2, <1>3, <1>4, SeqEqual
<1> QED
  BY <1>5 DEF u, t, s

\* An item was read: it is loaded, or the file ends within it.
LEMMA ItemLoaded ==
  ASSUME PlaceInv, ContentInv, MoreData, ~cur.err, cur.pos < cut, InStep,
         NEW d, NEW right, NEW late, ItemRead(cur, Size, TRUE, d, right, late), NextItem(d),
         NEW h, seg'.item = seg.item + 1, seg'.mark = seg.mark, seg'.heapType = h,
         DataShape', data'.strings = data.strings, data'.loaded = data.loaded,
         NEW T, NEW E \in Seq(T), \A x \in T : HasHeap(x) /\ x.heap = 0, NEW Q, NEW F \in Seq(Q),
         Adds(E, F, data'.objects, data'.roots), Truthful /\ right => AddsWritten(E, F, h)
  PROVE  ContentInv'
<1>1. UNCHANGED input /\ stage' = "segment" /\ rec' = rec /\ cur' = d
  BY DEF NextItem, MoreData, input
<1> SUFFICES ASSUME Truthful
             PROVE  /\ seg'.mark = Len(ObjectsUpTo(rec' - 1))
                    /\ IF cur'.pos <= cut
                       THEN SegmentContents(rec', seg'.item, data'.objects, data'.roots, data'.strings, data'.loaded, seg'.heapType)
                       ELSE Kept(data'.objects, data'.roots) /\ WholeRecords = rec' - 1
  BY <1>1, LoadedToSegment
<1>2. /\ ItemPlace /\ Given /\ rec \in 1..Count /\ file \in Files /\ cut \in Int /\ cur.left >= Size /\ rec <= Count
      /\ seg.item \in 1..Len(file.records[rec].items) /\ Item = file.records[rec].items[seg.item]
      /\ SegmentLoaded(rec, seg.item) /\ seg.mark = Len(ObjectsUpTo(rec - 1))
  BY BeforeItem
<1>3. /\ cur.pos = ItemStart(file, rec, seg.item) /\ cur.pos + Size = ItemStart(file, rec, seg.item + 1)
      /\ cur.pos \in Nat /\ Size \in Nat /\ file.records[rec].tag = "HEAP_DUMP_SEGMENT"
  BY <1>2 DEF ItemPlace, Record
<1>4. Passed(cur, d, Size) /\ (~d.err /\ d.pos <= cut => right) /\ d \in Cursor /\ d.pos \in Int
  BY DEF ItemRead, Passed, Cursor
<1>5. CASE d.pos <= cut
  <2>1. Moved(cur, d, Size)
    BY <1>2, <1>4, <1>5 DEF Passed
  <2>2. ~d.err
    BY <1>2, <2>1 DEF Moved
  <2>3. AddsWritten(E, F, h)
    BY <1>4, <1>5, <2>2
  <2>4. SegmentContents(rec, seg.item + 1, data'.objects, data'.roots, data.strings, data.loaded, h)
    BY <1>2, <2>3, ItemLoads
  <2> QED
    BY <1>1, <1>2, <1>5, <2>4
<1>6. CASE ~(d.pos <= cut)
  <2>1. d.pos <= cur.pos + Size
    BY <1>3, <1>4 DEF Passed, Moved
  <2>2. ItemStart(file, rec, seg.item) <= cut /\ cut < ItemStart(file, rec, seg.item + 1)
    BY <1>2, <1>3, <1>4, <1>6, <2>1
  <2>3. Kept(data'.objects, data'.roots) /\ WholeRecords = rec - 1
    BY <1>2, <1>3, <2>2, ItemKept
  <2> QED
    BY <1>1, <1>2, <1>6, <2>3
<1> QED
  BY <1>5, <1>6

\* Which leaves the segment's other locals alone.
LEMMA SegNext ==
  ASSUME PlaceInv, stage = "segment", NEW h
  PROVE  /\ seg' = [seg EXCEPT !.item = @ + 1] =>
              seg'.item = seg.item + 1 /\ seg'.mark = seg.mark /\ seg'.heapType = seg.heapType
         /\ seg' = [seg EXCEPT !.item = @ + 1, !.heapType = h] =>
              seg'.item = seg.item + 1 /\ seg'.mark = seg.mark /\ seg'.heapType = h
<1>1. SegShape
  BY DEF PlaceInv
<1> QED
  BY <1>1 DEF SegShape

\* An object is loaded.
LEMMA ObjectLoaded ==
  ASSUME PlaceInv, ContentInv, MoreData, ~cur.err, cur.pos < cut, InStep, Item.kind \in ObjectKinds,
         NEW d, NEW right, NEW late, ItemRead(cur, Size, TRUE, d, right, late),
         NEW o, Loads(d, o), HasHeap(o), o.heap = 0,
         Truthful /\ right => o = Free(ObjectOf(Item, rec))
  PROVE  ContentInv'
<1>1. NextItem(d) /\ seg' = [seg EXCEPT !.item = @ + 1] /\ data' = [data EXCEPT !.objects = Append(data.objects, o)]
  BY DEF Loads
<1>2. /\ DataShape' /\ data'.objects = Append(data.objects, o) /\ data'.roots = data.roots
      /\ data'.strings = data.strings /\ data'.loaded = data.loaded
  BY <1>1, NewData DEF ContentInv
<1>3. seg'.item = seg.item + 1 /\ seg'.mark = seg.mark /\ seg'.heapType = seg.heapType
  BY <1>1, SegNext DEF MoreData
<1> DEFINE E == <<o>>
<1> DEFINE F == <<>>
<1>4. E \in Seq({o}) /\ F \in Seq({}) /\ Len(E) = 1 /\ Len(F) = 0
  OBVIOUS
<1>5. PICK T, Q : T = {o} /\ Q = {}
  OBVIOUS
<1>6. E \in Seq(T) /\ F \in Seq(Q) /\ \A x \in T : HasHeap(x) /\ x.heap = 0
  BY <1>4, <1>5
<1>7. ASSUME Truthful
      PROVE  Adds(E, F, data'.objects, data'.roots)
  <2>1. /\ SegmentLoaded(rec, seg.item) /\ Given /\ rec <= Count /\ file \in Files /\ cut \in Int /\ rec \in 1..Count
        /\ seg.item \in 1..Len(file.records[rec].items)
    BY <1>7, BeforeItem
  <2>2. data.objects \in Seq(Objs \cup Freed(Objs)) /\ data.roots \in Seq(Roots)
    BY <2>1, ItemsTyped
  <2>3. data.objects \o <<o>> = Append(data.objects, o)
    BY <2>2, AppendIsConcat
  <2>4. data.roots \o <<>> = data.roots
    BY <2>2, ConcatEmptySeq
  <2>5. Len(E) + Len(F) <= 1
    BY <1>4
  <2> QED
    BY <1>2, <2>3, <2>4, <2>5 DEF Adds
<1>8. Truthful /\ right => AddsWritten(E, F, seg.heapType)
  <2> SUFFICES ASSUME Truthful, right PROVE AddsWritten(E, F, seg.heapType)
    OBVIOUS
  <2>1. Item.kind # "info" /\ Item.kind \notin BareRoots \cup DOMAIN RootInts
    BY DEF ObjectKinds, BareRoots, RootInts
  <2>2. RootsOf(Item) = <<>>
    BY <2>1 DEF RootsOf
  <2>3. ObjectsOf(Item, rec) = <<ObjectOf(Item, rec)>>
    BY DEF ObjectsOf
  <2>4. HeapFree(<<ObjectOf(Item, rec)>>) = <<Free(ObjectOf(Item, rec))>>
    BY OneObject
  <2> QED
    BY <2>1, <2>2, <2>3, <2>4 DEF AddsWritten
<1> HIDE DEF E, F
<1>9. CASE Truthful
  BY <1>1, <1>2, <1>3, <1>6, <1>7, <1>8, <1>9, ItemLoaded
<1>10. CASE ~Truthful
  BY <1>1, <1>2, <1>10, NotTruthful DEF NextItem
<1> QED
  BY <1>9, <1>10

-------------------------------------------------------------------------------
(* The objects that the items are. *)

\* A name that is looked up while segment rec is read is the first that was given.
LEMMA FieldNames ==
  ASSUME file \in Files, rec \in Nat, NamesLoaded(rec), NEW id
  PROVE  (IF id \in DOMAIN data.strings THEN data.strings[id] ELSE NoName) = RefOf("UTF8_STRING", rec, id)
<1>1. data.strings = Names("UTF8_STRING", rec)
  BY DEF NamesLoaded
<1>2. FoundIn("UTF8_STRING", rec, id) = {} => RefOf("UTF8_STRING", rec, id) = NoName
  BY FirstTells
<1> QED
  BY <1>1, <1>2, NamesKnown

\* The fields of a class are what the file says.
LEMMA FieldsGiven ==
  ASSUME file \in Files, rec \in Nat, NamesLoaded(rec), idSize = file.idSize, NEW fs
  PROVE  SpecsTo(fs, Len(fs)) = Specs(fs, rec)
<1> DEFINE sizes == [m \in DOMAIN fs |-> FieldSize(fs[m].type, file.idSize)]
<1>1. FieldSizesOf(fs) = sizes
  BY DEF FieldSizesOf
<1>2. \A id : (IF id \in DOMAIN data.strings THEN data.strings[id] ELSE NoName) = RefOf("UTF8_STRING", rec, id)
  BY FieldNames
<1>3. ASSUME NEW k \in 1..Len(fs)
      PROVE  FieldSpec(fs[k], Added(FieldSizesOf(fs), k - 1))
               = [name |-> RefOf("UTF8_STRING", rec, fs[k].name), type |-> fs[k].type, offset |-> Added(sizes, k - 1)]
  <2> HIDE DEF sizes
  <2> QED
    BY <1>1, <1>2 DEF FieldSpec
<1>4. Specs(fs, rec) = [k \in 1..Len(fs) |->
        [name |-> RefOf("UTF8_STRING", rec, fs[k].name), type |-> fs[k].type, offset |-> Added(sizes, k - 1)]]
  BY DEF Specs
<1> HIDE DEF sizes
<1> QED
  BY <1>3, <1>4 DEF SpecsTo

\* Where an item has no fields, it gets none.
LEMMA NoFields ==
  ASSUME file \in Files, NEW n \in 1..Count, NEW k \in 1..Len(file.records[n].items),
         NEW it, it = file.records[n].items[k]
  PROVE  /\ it.kind # "class" => Specs(it.statics, n) = <<>> /\ Specs(it.fields, n) = <<>>
         /\ it.kind = "primitives" => it.ref = 0
<1>1. n \in DOMAIN file.records /\ k \in DOMAIN file.records[n].items
  <2>1. DOMAIN file.records = 1..Count
    BY FileShape DEF Count
  <2>2. DOMAIN file.records[n].items = 1..Len(file.records[n].items)
    BY ItemsTiled DEF Count
  <2> QED
    BY <2>1, <2>2
<1>2. Sized(file.records[n], file.idSize)
  BY <1>1, FilesAssumption DEF WellFormed
<1>3. /\ it.kind # "class" => it.statics = <<>> /\ it.fields = <<>>
      /\ it.kind = "primitives" => it.ref = 0
  BY <1>1, <1>2 DEF Sized
<1>4. Specs(<<>>, n) = <<>>
  BY DEF Specs
<1> QED
  BY <1>3, <1>4

\* An object of the item being read.
LEMMA ObjectShaped ==
  ASSUME NEW id, NEW ref, NEW len, NEW statics, NEW fields, NEW o, o = Object(id, ref, len, statics, fields)
  PROVE  /\ o = Shaped(Item.kind, id, ref, len, Item.type, statics, fields, 0)
         /\ HasHeap(o) /\ o.heap = 0
<1>1. o = Shaped(Item.kind, id, ref, len, Item.type, statics, fields, 0)
  BY DEF Object, Shaped
<1> QED
  BY <1>1, ShapedHeap

\* It is what the file says when its values are.
LEMMA PlainObject ==
  ASSUME PlaceInv, ContentInv, MoreData, ~cur.err, cur.pos < cut, InStep, Truthful, Item.kind # "class",
         NEW o, o = Object(Item.id, Item.ref, Item.len, <<>>, <<>>)
  PROVE  o = Free(ObjectOf(Item, rec))
<1>1. /\ rec \in 1..Count /\ file \in Files
      /\ seg.item \in 1..Len(file.records[rec].items) /\ Item = file.records[rec].items[seg.item]
  BY BeforeItem
<1>2. Specs(Item.statics, rec) = <<>> /\ Specs(Item.fields, rec) = <<>>
  BY <1>1, NoFields
<1>3. o = Shaped(Item.kind, Item.id, Item.ref, Item.len, Item.type, <<>>, <<>>, 0)
  BY ObjectShaped
<1> QED
  BY <1>2, <1>3, HeapBack

\* So is a class.
LEMMA ClassObject ==
  ASSUME PlaceInv, ContentInv, MoreData, ~cur.err, cur.pos < cut, InStep, Truthful, NEW o, o = ClassOf(Item)
  PROVE  o = Free(ObjectOf(Item, rec))
<1>1. rec \in 1..Count /\ file \in Files /\ SegmentLoaded(rec, seg.item) /\ Given
  BY BeforeItem
<1>2. rec \in Nat /\ NamesLoaded(rec) /\ idSize = file.idSize
  <2>1. Count \in Nat
    BY <1>1, FileShape DEF Count
  <2>2. rec \in Nat
    BY <1>1, <2>1
  <2> QED
    BY <1>1, <2>2 DEF SegmentLoaded, Given, MoreData
<1>3. /\ SpecsTo(Item.statics, Len(Item.statics)) = Specs(Item.statics, rec)
      /\ SpecsTo(Item.fields, Len(Item.fields)) = Specs(Item.fields, rec)
  BY <1>1, <1>2, FieldsGiven
<1>4. o = Object(Item.id, Item.ref, Item.len, Specs(Item.statics, rec), Specs(Item.fields, rec))
  BY <1>3 DEF ClassOf
<1>5. o = Shaped(Item.kind, Item.id, Item.ref, Item.len, Item.type, Specs(Item.statics, rec), Specs(Item.fields, rec), 0)
  BY <1>4, ObjectShaped
<1> QED
  BY <1>5, HeapBack

\* An instance.
LEMMA InstanceLoaded == PlaceInv /\ ContentInv /\ ReadInstanceDump => ContentInv'
<1> SUFFICES ASSUME PlaceInv, ContentInv, ReadInstanceDump PROVE ContentInv'
  OBVIOUS
<1> DEFINE head == Reads(Sub, InstanceOps)
<1> DEFINE id == ValueAt(Sub, InstanceOps, 1, Item.id)
<1> DEFINE ref == ValueAt(Sub, InstanceOps, 3, Item.ref)
<1> DEFINE size == ValueAt(Sub, InstanceOps, 4, Item.len)
<1> DEFINE read == Bytes(head, size)
<1> DEFINE ok == InstanceOk(head, size, read)
<1> DEFINE right == id = Item.id /\ ref = Item.ref /\ size = Item.len
<1> DEFINE o == Object(id, ref, size, <<>>, <<>>)
<1>1. MoreData /\ ~cur.err /\ cur.pos < cut /\ InStep /\ Item.kind = "instance"
  BY DEF ReadInstanceDump, AtItem
<1>2. Reading /\ Item \in ItemShape
  BY <1>1, InItem
<1>3. ItemRead(cur, Size, ok, read, right, Item.len = 0)
  BY <1>1, <1>2, InstanceRead DEF Size
<1>4. IF ok THEN Loads(read, o) ELSE Failed
  BY DEF ReadInstanceDump, InstanceOk
<1>5. HasHeap(o) /\ o.heap = 0
  BY ObjectShaped
<1>6. Truthful /\ right => o = Free(ObjectOf(Item, rec))
  BY <1>1, PlainObject
<1>7. Item.kind \in ObjectKinds
  BY <1>1 DEF ObjectKinds
<1> DEFINE late == Item.len = 0
<1> HIDE DEF o, ok, right, late, read, size, ref, id, head
<1>8. CASE ok
  <2>1. ItemRead(cur, Size, TRUE, read, right, late)
    BY <1>3, <1>8 DEF ItemRead, late
  <2> QED
    BY <1>1, <1>4, <1>5, <1>6, <1>7, <1>8, <2>1, ObjectLoaded
<1> QED
  BY <1>4, <1>8, FailedLoaded

\* An array of objects.
LEMMA ObjectsLoaded == PlaceInv /\ ContentInv /\ ReadObjectsArrayDump => ContentInv'
<1> SUFFICES ASSUME PlaceInv, ContentInv, ReadObjectsArrayDump PROVE ContentInv'
  OBVIOUS
<1> DEFINE head == Reads(Sub, ObjectsOps)
<1> DEFINE id == ValueAt(Sub, ObjectsOps, 1, Item.id)
<1> DEFINE ref == ValueAt(Sub, ObjectsOps, 4, Item.ref)
<1> DEFINE length == ValueAt(Sub, ObjectsOps, 3, Item.len)
<1> DEFINE read == Bytes(head, length * idSize)
<1> DEFINE ok == ~(head.err \/ read.err)
<1> DEFINE right == id = Item.id /\ ref = Item.ref /\ length = Item.len
<1> DEFINE o == Object(id, ref, length, <<>>, <<>>)
<1>1. MoreData /\ ~cur.err /\ cur.pos < cut /\ InStep /\ Item.kind = "objects"
  BY DEF ReadObjectsArrayDump, AtItem
<1>2. Reading /\ Item \in ItemShape
  BY <1>1, InItem
<1>3. ItemRead(cur, Size, ok, read, right, Item.len = 0)
  BY <1>1, <1>2, ObjectsRead DEF Size
<1>4. IF ok THEN Loads(read, o) ELSE Failed
  BY DEF ReadObjectsArrayDump
<1>5. HasHeap(o) /\ o.heap = 0
  BY ObjectShaped
<1>6. Truthful /\ right => o = Free(ObjectOf(Item, rec))
  BY <1>1, PlainObject
<1>7. Item.kind \in ObjectKinds
  BY <1>1 DEF ObjectKinds
<1> DEFINE late == Item.len = 0
<1> HIDE DEF o, ok, right, late, read, length, ref, id, head
<1>8. CASE ok
  <2>1. ItemRead(cur, Size, TRUE, read, right, late)
    BY <1>3, <1>8 DEF ItemRead, late
  <2> QED
    BY <1>1, <1>4, <1>5, <1>6, <1>7, <1>8, <2>1, ObjectLoaded
<1> QED
  BY <1>4, <1>8, FailedLoaded

\* An array of numbers, which has no class.
LEMMA PrimitivesLoaded == PlaceInv /\ ContentInv /\ ReadPrimitivesArrayDump => ContentInv'
<1> SUFFICES ASSUME PlaceInv, ContentInv, ReadPrimitivesArrayDump PROVE ContentInv'
  OBVIOUS
<1> DEFINE head == Reads(Sub, PrimitivesOps)
<1> DEFINE id == ValueAt(Sub, PrimitivesOps, 1, Item.id)
<1> DEFINE length == ValueAt(Sub, PrimitivesOps, 3, Item.len)
<1> DEFINE read == Bytes(head, length * FieldSize(Item.type, idSize))
<1> DEFINE ok == ~head.err /\ head.pos <= cut /\ ~read.err
<1> DEFINE right == id = Item.id /\ length = Item.len
<1> DEFINE o == Object(id, 0, length, <<>>, <<>>)
<1> DEFINE late == FALSE
<1>1. MoreData /\ ~cur.err /\ cur.pos < cut /\ InStep /\ Item.kind = "primitives"
  BY DEF ReadPrimitivesArrayDump, AtItem
<1>2. Reading /\ Item \in ItemShape
  BY <1>1, InItem
<1>3. ItemRead(cur, Size, ok, read, right, FALSE)
  BY <1>1, <1>2, PrimitivesRead DEF Size
<1>4. (Loads(read, o) /\ ok) \/ Failed \/ Aborted
  BY DEF ReadPrimitivesArrayDump
<1>5. HasHeap(o) /\ o.heap = 0
  BY ObjectShaped
<1>6. ASSUME Truthful, right PROVE o = Free(ObjectOf(Item, rec))
  <2>1. /\ rec \in 1..Count /\ file \in Files
        /\ seg.item \in 1..Len(file.records[rec].items) /\ Item = file.records[rec].items[seg.item]
    BY <1>1, <1>6, BeforeItem
  <2>2. Item.ref = 0
    BY <1>1, <2>1, NoFields
  <2>3. o = Object(Item.id, Item.ref, Item.len, <<>>, <<>>)
    BY <1>6, <2>2
  <2> HIDE DEF o, right
  <2> QED
    BY <1>1, <1>6, <2>3, PlainObject
<1>9. Truthful /\ right => o = Free(ObjectOf(Item, rec))
  BY <1>6
<1>7. Item.kind \in ObjectKinds
  BY <1>1 DEF ObjectKinds
<1> HIDE DEF o, ok, right, late, read, length, id, head
<1>8. CASE Loads(read, o) /\ ok
  <2>1. ItemRead(cur, Size, TRUE, read, right, late)
    BY <1>3, <1>8 DEF ItemRead, late
  <2> QED
    BY <1>1, <1>5, <1>7, <1>8, <1>9, <2>1, ObjectLoaded
<1> QED
  BY <1>4, <1>8, FailedLoaded

\* A class.
LEMMA ClassLoaded == PlaceInv /\ ContentInv /\ ReadClassDump => ContentInv'
<1> SUFFICES ASSUME PlaceInv, ContentInv, ReadClassDump PROVE ContentInv'
  OBVIOUS
<1> DEFINE dump == ClassDump(Item)
<1> DEFINE read == dump.c
<1> DEFINE o == dump.class
<1> DEFINE right == o = ClassOf(Item)
<1> DEFINE late == Item.fields = <<>>
<1>1. MoreData /\ ~cur.err /\ cur.pos < cut /\ InStep /\ Item.kind = "class" /\ dump.out = "ok" /\ Loads(read, o)
  BY DEF ReadClassDump, AtItem
<1>2. Reading /\ Item \in ItemShape
  BY <1>1, InItem
<1>3. ClassFacts(Item, dump, ItemBytes(Item, idSize))
  BY <1>1, <1>2, ClassRead
<1>4. ItemRead(cur, Size, dump.out = "ok", read, right, late)
  BY <1>3 DEF ClassFacts, Size
<1>5. ItemRead(cur, Size, TRUE, read, right, late)
  BY <1>1, <1>4 DEF ItemRead
<1>6. HasHeap(o) /\ o.heap = 0
  <2>1. \E id, ref, len, statics, fields : o = Object(id, ref, len, statics, fields)
    BY DEF ClassDump
  <2> HIDE DEF o
  <2> QED
    BY <2>1, ObjectShaped
<1>7. Truthful /\ right => o = Free(ObjectOf(Item, rec))
  BY <1>1, ClassObject
<1>8. Item.kind \in ObjectKinds
  BY <1>1 DEF ObjectKinds
<1> HIDE DEF o, right, late, read, dump
<1> QED
  BY <1>1, <1>5, <1>6, <1>7, <1>8, ObjectLoaded

\* The heap type behind an item.
HeapAfter(h) == h = IF Item.kind = "info" THEN Item.len ELSE seg.heapType

\* What holds no object and no root adds none.
LEMMA NoneAdded ==
  ASSUME PlaceInv, ContentInv, MoreData, ~cur.err, cur.pos < cut, InStep, Item.kind \in {"nodata", "info"}, Truthful
  PROVE  /\ Adds(<<>>, <<>>, data.objects, data.roots)
         /\ \A h : HeapAfter(h) => AddsWritten(<<>>, <<>>, h)
<1>1. /\ SegmentLoaded(rec, seg.item) /\ Given /\ rec <= Count /\ file \in Files /\ cut \in Int /\ rec \in 1..Count
      /\ seg.item \in 1..Len(file.records[rec].items)
  BY BeforeItem
<1>2. Adds(<<>>, <<>>, data.objects, data.roots)
  <2>2. data.objects \in Seq(Objs \cup Freed(Objs)) /\ data.roots \in Seq(Roots)
    BY <1>1, ItemsTyped
  <2>3. data.objects \o <<>> = data.objects
    BY <2>2, ConcatEmptySeq
  <2>4. data.roots \o <<>> = data.roots
    BY <2>2, ConcatEmptySeq
  <2>5. Len(<<>>) + Len(<<>>) <= 1
    OBVIOUS
  <2> QED
    BY <2>3, <2>4, <2>5 DEF Adds
<1>3. ASSUME NEW h, HeapAfter(h) PROVE AddsWritten(<<>>, <<>>, h)
  <2>1. Item.kind \notin BareRoots \cup DOMAIN RootInts /\ Item.kind \notin ObjectKinds
    BY DEF ObjectKinds, BareRoots, RootInts
  <2>2. RootsOf(Item) = <<>>
    BY <2>1 DEF RootsOf
  <2>3. ObjectsOf(Item, rec) = <<>>
    BY <2>1 DEF ObjectsOf
  <2>4. HeapFree(<<>>) = <<>>
    BY NoObjects
  <2> QED
    BY <1>3, <2>2, <2>3, <2>4 DEF AddsWritten, HeapAfter
<1> QED
  BY <1>2, <1>3

\* An array without data.
LEMMA NoDataLoaded == PlaceInv /\ ContentInv /\ SkipNoDataArray => ContentInv'
<1> SUFFICES ASSUME PlaceInv, ContentInv, SkipNoDataArray PROVE ContentInv'
  OBVIOUS
<1> DEFINE read == Bytes(Read(Sub, "id"), 5)
<1> DEFINE right == TRUE
<1> DEFINE late == FALSE
<1> DEFINE E == <<>>
<1> DEFINE F == <<>>
<1>1. MoreData /\ ~cur.err /\ cur.pos < cut /\ InStep /\ Item.kind = "nodata"
  BY DEF SkipNoDataArray, AtItem
<1>2. Reading /\ Item \in ItemShape
  BY <1>1, InItem
<1>3. ItemRead(cur, Size, TRUE, read, right, late)
  BY <1>1, <1>2, NoDataRead DEF Size
<1>4. NextItem(read) /\ seg' = [seg EXCEPT !.item = @ + 1] /\ data' = data
  BY DEF SkipNoDataArray
<1>5. Item.kind \in {"nodata", "info"}
  BY <1>1
<1>6. right => HeapAfter(seg.heapType)
  BY <1>1 DEF HeapAfter
<1> HIDE DEF late, right, read
<1>7. seg'.item = seg.item + 1 /\ seg'.mark = seg.mark /\ seg'.heapType = seg.heapType
  BY <1>1, <1>4, SegNext DEF MoreData
<1>8. /\ DataShape' /\ data'.objects = data.objects /\ data'.roots = data.roots
      /\ data'.strings = data.strings /\ data'.loaded = data.loaded
  BY <1>4, NewData DEF ContentInv
<1>9. Truthful => Adds(E, F, data'.objects, data'.roots)
  BY <1>1, <1>5, <1>8, NoneAdded
<1>10. Truthful /\ right => AddsWritten(E, F, seg.heapType)
  BY <1>1, <1>5, <1>6, NoneAdded
<1>11. E \in Seq({}) /\ F \in Seq({})
  OBVIOUS
<1>12. PICK T, Q : T = {} /\ Q = {}
  OBVIOUS
<1>13. E \in Seq(T) /\ F \in Seq(Q) /\ \A x \in T : HasHeap(x) /\ x.heap = 0
  BY <1>11, <1>12
<1> HIDE DEF E, F
<1>14. CASE Truthful
  BY <1>1, <1>3, <1>4, <1>7, <1>8, <1>9, <1>10, <1>13, <1>14, ItemLoaded
<1>15. CASE ~Truthful
  BY <1>4, <1>8, <1>15, NotTruthful DEF NextItem
<1> QED
  BY <1>14, <1>15

\* The heap type.
LEMMA InfoLoaded == PlaceInv /\ ContentInv /\ ReadHeapDumpInfo => ContentInv'
<1> SUFFICES ASSUME PlaceInv, ContentInv, ReadHeapDumpInfo PROVE ContentInv'
  OBVIOUS
<1> DEFINE read == Reads(Sub, InfoOps)
<1> DEFINE heapType == ValueAt(Sub, InfoOps, 1, Item.len)
<1> DEFINE right == heapType = Item.len
<1> DEFINE late == TRUE
<1> DEFINE E == <<>>
<1> DEFINE F == <<>>
<1>1. MoreData /\ ~cur.err /\ cur.pos < cut /\ InStep /\ Item.kind = "info"
  BY DEF ReadHeapDumpInfo, AtItem
<1>2. Reading /\ Item \in ItemShape
  BY <1>1, InItem
<1>3. ItemRead(cur, Size, TRUE, read, right, late)
  BY <1>1, <1>2, InfoRead DEF Size
<1>4. NextItem(read) /\ seg' = [seg EXCEPT !.item = @ + 1, !.heapType = heapType] /\ data' = data
  BY DEF ReadHeapDumpInfo
<1>5. Item.kind \in {"nodata", "info"}
  BY <1>1
<1>6. right => HeapAfter(heapType)
  BY <1>1 DEF HeapAfter
<1> HIDE DEF late, right, heapType, read
<1>7. seg'.item = seg.item + 1 /\ seg'.mark = seg.mark /\ seg'.heapType = heapType
  BY <1>1, <1>4, SegNext DEF MoreData
<1>8. /\ DataShape' /\ data'.objects = data.objects /\ data'.roots = data.roots
      /\ data'.strings = data.strings /\ data'.loaded = data.loaded
  BY <1>4, NewData DEF ContentInv
<1>9. Truthful => Adds(E, F, data'.objects, data'.roots)
  BY <1>1, <1>5, <1>8, NoneAdded
<1>10. Truthful /\ right => AddsWritten(E, F, heapType)
  BY <1>1, <1>5, <1>6, NoneAdded
<1>11. E \in Seq({}) /\ F \in Seq({})
  OBVIOUS
<1>12. PICK T, Q : T = {} /\ Q = {}
  OBVIOUS
<1>13. E \in Seq(T) /\ F \in Seq(Q) /\ \A x \in T : HasHeap(x) /\ x.heap = 0
  BY <1>11, <1>12
<1> HIDE DEF E, F
<1>14. CASE Truthful
  BY <1>1, <1>3, <1>4, <1>7, <1>8, <1>9, <1>10, <1>13, <1>14, ItemLoaded
<1>15. CASE ~Truthful
  BY <1>4, <1>8, <1>15, NotTruthful DEF NextItem
<1> QED
  BY <1>14, <1>15

\* A root.
LEMMA RootLoaded == PlaceInv /\ ContentInv /\ ReadGcRoot => ContentInv'
<1> SUFFICES ASSUME PlaceInv, ContentInv, ReadGcRoot PROVE ContentInv'
  OBVIOUS
<1> DEFINE ops == RootOps(Item.kind)
<1> DEFINE read == Reads(Sub, ops)
<1> DEFINE id == IF ops = <<>> THEN 0 ELSE ValueAt(Sub, ops, 1, Item.id)
<1> DEFINE right == id = (IF Item.kind \in BareRoots THEN 0 ELSE Item.id)
<1> DEFINE ok == ~read.err
<1> DEFINE late == TRUE
<1> DEFINE root == [kind |-> Item.kind, id |-> id]
<1>1. MoreData /\ ~cur.err /\ cur.pos < cut /\ InStep /\ Item.kind \in DOMAIN RootInts \cup BareRoots
  BY DEF ReadGcRoot, AtItem
<1>2. Reading /\ Item \in ItemShape
  BY <1>1, InItem
<1>3. ItemRead(cur, Size, ok, read, right, late)
  BY <1>1, <1>2, GcRootRead DEF Size
<1>4. IF ok THEN NextItem(read) /\ seg' = [seg EXCEPT !.item = @ + 1] /\ data' = [data EXCEPT !.roots = Append(data.roots, root)]
      ELSE Failed
  BY DEF ReadGcRoot
<1>5. right => RootsOf(Item) = <<root>>
  BY <1>1 DEF RootsOf
<1> DEFINE E == <<>>
<1> DEFINE F == <<root>>
<1> HIDE DEF root, ok, late, right, id, read, ops
<1>6. CASE ok
  <2>1. NextItem(read) /\ ItemRead(cur, Size, TRUE, read, right, late)
    BY <1>3, <1>4, <1>6 DEF ItemRead
  <2>2. /\ DataShape' /\ data'.objects = data.objects /\ data'.roots = Append(data.roots, root)
        /\ data'.strings = data.strings /\ data'.loaded = data.loaded
    BY <1>4, <1>6, NewData DEF ContentInv
  <2>3. seg'.item = seg.item + 1 /\ seg'.mark = seg.mark /\ seg'.heapType = seg.heapType
    BY <1>1, <1>4, <1>6, SegNext DEF MoreData
  <2>4. E \in Seq({}) /\ F \in Seq({root}) /\ Len(E) = 0 /\ Len(F) = 1
    OBVIOUS
  <2>5. PICK T, Q : T = {} /\ Q = {root}
    OBVIOUS
  <2>6. E \in Seq(T) /\ F \in Seq(Q) /\ \A x \in T : HasHeap(x) /\ x.heap = 0
    BY <2>4, <2>5
  <2>7. ASSUME Truthful
        PROVE  Adds(E, F, data'.objects, data'.roots)
    <3>1. /\ SegmentLoaded(rec, seg.item) /\ Given /\ rec <= Count /\ file \in Files /\ cut \in Int /\ rec \in 1..Count
          /\ seg.item \in 1..Len(file.records[rec].items)
      BY <1>1, <2>7, BeforeItem
    <3>2. data.objects \in Seq(Objs \cup Freed(Objs)) /\ data.roots \in Seq(Roots)
      BY <3>1, ItemsTyped
    <3>3. data.objects \o <<>> = data.objects
      BY <3>2, ConcatEmptySeq
    <3>4. data.roots \o <<root>> = Append(data.roots, root)
      BY <3>2, AppendIsConcat
    <3>5. Len(E) + Len(F) <= 1
      BY <2>4
    <3> QED
      BY <2>2, <3>3, <3>4, <3>5 DEF Adds
  <2>8. Truthful /\ right => AddsWritten(E, F, seg.heapType)
    <3> SUFFICES ASSUME Truthful, right PROVE AddsWritten(E, F, seg.heapType)
      OBVIOUS
    <3>1. Item.kind \notin ObjectKinds /\ Item.kind # "info"
      BY <1>1 DEF ObjectKinds, BareRoots, RootInts
    <3>2. ObjectsOf(Item, rec) = <<>>
      BY <3>1 DEF ObjectsOf
    <3>3. HeapFree(<<>>) = <<>>
      BY NoObjects
    <3> QED
      BY <1>5, <3>1, <3>2, <3>3 DEF AddsWritten
  <2> HIDE DEF E, F
  <2>9. CASE Truthful
    BY <1>1, <2>1, <2>2, <2>3, <2>6, <2>7, <2>8, <2>9, ItemLoaded
  <2>10. CASE ~Truthful
    BY <2>1, <2>2, <2>10, NotTruthful DEF NextItem
  <2> QED
    BY <2>9, <2>10
<1> QED
  BY <1>4, <1>6, FailedLoaded

\* Where the file or the segment is given up.
LEMMA GivenUpLoaded ==
  ASSUME ContentInv, \/ HeaderTruncated \/ HeaderAstray \/ UnsupportedTag \/ UnreadableId
                     \/ SubtypeLost \/ SegmentAstray \/ UnknownSubtype \/ ClassDumpAborted
  PROVE  ContentInv'
<1>1. Failed \/ Aborted \/ Astray
  BY DEF HeaderTruncated, HeaderAstray, UnsupportedTag, UnreadableId, SubtypeLost, SegmentAstray, UnknownSubtype, ClassDumpAborted
<1> QED
  BY <1>1, FailedLoaded

\* A class dump that failed: of a file whose declared sizes are right, it is where the
\* file ends.
LEMMA ClassFailedLoaded == PlaceInv /\ ContentInv /\ ClassDumpFailed => ContentInv'
<1> SUFFICES ASSUME PlaceInv, ContentInv, ClassDumpFailed PROVE ContentInv'
  OBVIOUS
<1> DEFINE d == ClassDump(Item).c
<1>1. MoreData /\ ~cur.err /\ cur.pos < cut /\ InStep /\ Item.kind = "class" /\ ClassDump(Item).out = "fail"
      /\ Processed(d) /\ data' = data
  BY DEF ClassDumpFailed, ClassDumpFails, AtItem
<1>2. Reading /\ Item \in ItemShape
  BY <1>1, InItem
<1>3. ClassFacts(Item, ClassDump(Item), Size)
  BY <1>1, <1>2, ClassRead DEF Size
<1>4. Passed(cur, d, Size) /\ (cur.left >= Size => d.pos > cut)
  BY <1>1, <1>3 DEF ClassFacts
<1> HIDE DEF d
<1>5. /\ DataShape' /\ data'.objects = data.objects /\ data'.roots = data.roots
      /\ data'.strings = data.strings /\ data'.loaded = data.loaded
  BY <1>1, NewData DEF ContentInv
<1>6. UNCHANGED input /\ stage' = "header" /\ rec' = rec + 1 /\ cur' = d
  BY <1>1 DEF Processed, input
<1> SUFFICES ASSUME Truthful PROVE d.pos > cut /\ Kept(data.objects, data.roots)
  <2>1. Truthful => d.pos > cut /\ Kept(data'.objects, data'.roots)
    BY <1>5
  <2>2. cut \in Int /\ d.pos \in Int
    BY <1>2, <1>4 DEF Reading, Widths, Passed, Cursor
  <2>3. d.pos > cut => ~(d.pos <= cut)
    BY <2>2
  <2> QED
    BY <1>5, <1>6, <2>1, <2>3, LoadedToHeader
<1>7. /\ ItemPlace /\ Given /\ rec \in 1..Count /\ file \in Files /\ cut \in Int /\ cur.left >= Size /\ rec <= Count
      /\ seg.item \in 1..Len(file.records[rec].items) /\ Item = file.records[rec].items[seg.item]
      /\ SegmentLoaded(rec, seg.item)
  BY <1>1, BeforeItem
<1>8. /\ cur.pos = ItemStart(file, rec, seg.item) /\ cur.pos + Size = ItemStart(file, rec, seg.item + 1)
      /\ cur.pos \in Nat /\ Size \in Nat /\ file.records[rec].tag = "HEAP_DUMP_SEGMENT"
  BY <1>7 DEF ItemPlace, Record
<1>9. d.pos > cut /\ d.pos <= cur.pos + Size /\ d.pos \in Int
  BY <1>4, <1>7 DEF Passed, Moved, Cursor
<1>10. ItemStart(file, rec, seg.item) <= cut /\ cut < ItemStart(file, rec, seg.item + 1)
  BY <1>1, <1>7, <1>8, <1>9
<1> DEFINE E == <<>>
<1>11. PICK T : T = {}
  OBVIOUS
<1>12. E \in Seq(T) /\ (\A x \in T : HasHeap(x) /\ x.heap = 0) /\ Len(E) = 0
  BY <1>11
<1>13. Adds(E, E, data.objects, data.roots)
  <2>1. data.objects \in Seq(Objs \cup Freed(Objs)) /\ data.roots \in Seq(Roots)
    BY <1>7, ItemsTyped
  <2>2. data.objects \o <<>> = data.objects
    BY <2>1, ConcatEmptySeq
  <2>3. data.roots \o <<>> = data.roots
    BY <2>1, ConcatEmptySeq
  <2>4. Len(E) + Len(E) <= 1
    BY <1>12
  <2> QED
    BY <2>2, <2>3, <2>4 DEF Adds
<1> HIDE DEF E
<1>14. Kept(data.objects, data.roots)
  BY <1>7, <1>8, <1>10, <1>12, <1>13, ItemKept
<1> QED
  BY <1>9, <1>14

\* The objects J of a segment behind the objects U get the heap type of segment n.
AreTypesSet(U, J, s, n, new) == s = U \o HeapFree(J) /\ new = HeapTypesSet(s, Len(U), HeapOf(n))

\* They become what they are to be.
LEMMA TypesSetAs ==
  ASSUME NEW U \in Seq(Objs), NEW n \in Nat, NEW J \in Seq(ObjsOf(n)), NEW s, NEW new, AreTypesSet(U, J, s, n, new)
  PROVE  new = U \o J
BY SegmentGiven DEF AreTypesSet

\* The end of a segment: its objects get their heap type, those of a whole one the last
\* the segment gives.
LEMMA EndSegmentLoaded == PlaceInv /\ ContentInv /\ EndSegment => ContentInv'
<1> SUFFICES ASSUME PlaceInv, ContentInv, EndSegment PROVE ContentInv'
  OBVIOUS
<1> DEFINE new == HeapTypesSet(data.objects, seg.mark, seg.heapType)
<1>1. stage = "segment" /\ cur.left = 0 /\ Processed(cur) /\ data' = [data EXCEPT !.objects = new]
  BY DEF EndSegment, HeapTypesSet, In
<1> HIDE DEF new
<1>2. /\ DataShape' /\ data'.objects = new /\ data'.roots = data.roots
      /\ data'.strings = data.strings /\ data'.loaded = data.loaded
  BY <1>1, NewData DEF ContentInv
<1>3. UNCHANGED input /\ stage' = "header" /\ rec' = rec + 1 /\ cur' = cur
  BY <1>1 DEF Processed, input
<1>4. /\ Given /\ rec <= Count /\ Record.tag = "HEAP_DUMP_SEGMENT"
      /\ SegmentPlaced(rec, seg.item, cur) /\ cur.pos \in Int
      /\ cut \in Nat /\ NextStart \in Nat
      /\ seg.item \in 1..(Len(Record.items) + 1) /\ Len(Record.items) \in Nat
  BY <1>1, InSegment
<1>5. /\ cut \in Int /\ file \in Files /\ rec \in 1..Count /\ rec - 1 \in 0..Count /\ Count \in Nat
      /\ ObjectsUpTo(rec - 1) \in Seq(Objs) /\ RootsUpTo(rec - 1) \in Seq(Roots)
      /\ WholeObjects = UpTo(ObjectParts, Count)
      /\ Parted(ObjectParts, Objs) /\ Parted(RootParts, Roots)
      /\ (rec + 1) - 1 = rec
  BY <1>4, BeforeRecord
<1> SUFFICES ASSUME Truthful
             PROVE  IF cur.pos = NextStart /\ cur.pos <= cut
                    THEN Contents(rec + 1, new, data.roots, data.strings, data.loaded)
                    ELSE cur.pos >= cut => Kept(new, data.roots)
  <2>1. Truthful => IF cur'.pos = RecordStart(file, rec') /\ cur'.pos <= cut
                    THEN Contents(rec', data'.objects, data'.roots, data'.strings, data'.loaded)
                    ELSE cur'.pos >= cut => Kept(data'.objects, data'.roots)
    BY <1>2, <1>3 DEF NextStart
  <2> QED
    BY <1>2, <1>3, <2>1, LoadedToHeader
<1>6. Record.lie = 0
  BY <1>4, InRecord
<1>7. seg.mark = Len(ObjectsUpTo(rec - 1))
  BY <1>1 DEF ContentInv
<1>8. CASE cur.pos <= cut
  <2> DEFINE N == Len(file.records[rec].items)
  <2>1. SegmentLoaded(rec, seg.item)
    BY <1>1, <1>8 DEF ContentInv
  <2>2. ~(cur.pos > cut)
    BY <1>4, <1>8
  <2>3. cur.pos = ItemStart(file, rec, seg.item) /\ Ends(rec, cur)
    BY <1>4, <1>6, <2>2 DEF SegmentPlaced, Record
  <2>4. cur.pos = NextStart
    <3>1. cur.pos + 0 = NextStart + 0
      BY <1>1, <1>6, <2>3 DEF Ends, NextStart, Record
    <3> QED
      BY <1>4, <3>1
  <2>5. seg.item = N + 1
    <3> SUFFICES ASSUME seg.item # N + 1 PROVE FALSE
      OBVIOUS
    <3>0. seg.item \in 1..(N + 1) /\ N \in Nat
      BY <1>4 DEF Record
    <3>1. seg.item \in 1..N /\ seg.item + 1 \in 1..(N + 1) /\ N + 1 \in 1..(N + 1) /\ seg.item + 1 <= N + 1
      <4> HIDE DEF N
      <4> QED
        BY <3>0
    <3>2. /\ \A i \in 1..(N + 1) : ItemStart(file, rec, i) \in Nat
          /\ \A i, j \in 1..(N + 1) : i <= j => ItemStart(file, rec, i) <= ItemStart(file, rec, j)
          /\ ItemStart(file, rec, N + 1) = RecordStart(file, rec + 1)
          /\ \A i \in 1..N : /\ ItemBytes(file.records[rec].items[i], file.idSize) \in Nat \ {0}
                             /\ ItemStart(file, rec, i + 1) = ItemStart(file, rec, i) + ItemBytes(file.records[rec].items[i], file.idSize)
      <4>1. file.records[rec].tag = "HEAP_DUMP_SEGMENT"
        BY <1>4 DEF Record
      <4> QED
        BY <1>5, <4>1, ItemsTiled DEF Count
    <3>3. ItemStart(file, rec, seg.item) < ItemStart(file, rec, seg.item + 1) /\ ItemStart(file, rec, seg.item) \in Nat
      BY <3>1, <3>2
    <3>4. ItemStart(file, rec, seg.item + 1) <= NextStart
      BY <3>1, <3>2 DEF NextStart
    <3> QED
      BY <1>4, <2>3, <2>4, <3>1, <3>2, <3>3, <3>4
  <2>6. N \in Nat /\ (N + 1) - 1 = N /\ N \in 0..N
    BY <1>4 DEF Record
  <2> DEFINE U == ObjectsUpTo(rec - 1)
  <2> DEFINE J == Joined(ObjectParts[rec], N)
  <2> DEFINE L == Joined(RootParts[rec], N)
  <2>7. data.objects = U \o HeapFree(J) /\ data.roots = RootsUpTo(rec - 1) \o L
    BY <2>1, <2>5, <2>6 DEF SegmentLoaded
  <2>8. J \in Seq(ObjsOf(rec))
    BY <1>5, <2>6, SegmentParts
  <2>9. seg.heapType = HeapOf(rec)
    <3>1. seg.heapType = HeapBefore(rec, N + 1)
      BY <2>1, <2>5 DEF SegmentLoaded
    <3> QED
      BY <1>5, <3>1, HeapBeforeSteps
  <2>10. new = U \o J
    <3>1. U \in Seq(Objs) /\ rec \in Nat /\ new = HeapTypesSet(data.objects, Len(U), HeapOf(rec))
      BY <1>5, <1>7, <2>9 DEF new
    <3>2. AreTypesSet(U, J, data.objects, rec, new)
      BY <2>7, <3>1 DEF AreTypesSet
    <3> HIDE DEF U, J
    <3> QED
      BY <2>8, <3>1, <3>2, TypesSetAs
  <2>11. file.records[rec].tag = "HEAP_DUMP_SEGMENT" /\ RecordStart(file, rec + 1) <= cut
    BY <1>4, <1>8, <2>4 DEF Record, NextStart
  <2>12. UpTo(ObjectParts, rec) = UpTo(ObjectParts, rec - 1) \o J
    BY <1>5, <2>11, RecordWhole
  <2>13. UpTo(RootParts, rec) = UpTo(RootParts, rec - 1) \o L
    BY <1>5, <2>11, RecordWhole
  <2>14. /\ Names("UTF8_STRING", rec + 1) = Names("UTF8_STRING", rec)
         /\ Names("LOAD_CLASS", rec + 1) = Names("LOAD_CLASS", rec)
    BY <1>5, <2>11, NoNameGiven
  <2>15. data.strings = Names("UTF8_STRING", rec) /\ data.loaded = Names("LOAD_CLASS", rec)
    BY <2>1 DEF SegmentLoaded, NamesLoaded
  <2>16. new = ObjectsUpTo((rec + 1) - 1) /\ data.roots = RootsUpTo((rec + 1) - 1)
    BY <1>5, <2>7, <2>10, <2>12, <2>13 DEF ObjectsUpTo, RootsUpTo
  <2>17. Contents(rec + 1, new, data.roots, data.strings, data.loaded)
    BY <2>14, <2>15, <2>16 DEF Contents
  <2> QED
    BY <1>8, <2>4, <2>17
<1>9. CASE ~(cur.pos <= cut)
  <2>1. Kept(data.objects, data.roots) /\ WholeRecords = rec - 1
    BY <1>1, <1>9 DEF ContentInv
  <2>2. PICK U : U = ObjectsUpTo(rec - 1)
    OBVIOUS
  <2>3. U \in Seq(Objs) /\ U = ObjectsUpTo(WholeRecords) /\ new = HeapTypesSet(data.objects, Len(U), seg.heapType)
    BY <1>5, <1>7, <2>1, <2>2 DEF new
  <2>4. PICK W : W = WholeObjects /\ W \in Seq(Objs)
    <3>1. Count \in 0..Count
      BY <1>5
    <3>2. UpTo(ObjectParts, Count) \in Seq(Objs)
      BY <1>5, <3>1, UpToSteps
    <3> QED
      BY <1>5, <3>2
  <2>5. Kept(new, data.roots)
    BY <2>1, <2>3, <2>4, KeptGiven
  <2> QED
    BY <1>9, <2>5
<1> QED
  BY <1>8, <1>9

\* What has ended stays, and so does what takes no step.
LEMMA StayLoaded == ContentInv /\ (Ended \/ UNCHANGED vars) => ContentInv'
<1> SUFFICES ASSUME ContentInv, Ended \/ UNCHANGED vars PROVE ContentInv'
  OBVIOUS
<1>1. UNCHANGED input /\ stage' = stage /\ rec' = rec /\ seg' = seg /\ cur' = cur /\ data' = data
  BY DEF Ended, vars, input
<1>2. /\ DataShape' /\ data'.objects = data.objects /\ data'.roots = data.roots
      /\ data'.strings = data.strings /\ data'.loaded = data.loaded
  BY <1>1, NewData DEF ContentInv
<1>3. ASSUME NEW n PROVE Loaded(n) <=> Contents(n, data'.objects, data'.roots, data'.strings, data'.loaded)
  BY <1>2 DEF Loaded, NamesLoaded, Contents
<1>4. CASE stage = "start"
  <2>1. PICK n : n = 1
    OBVIOUS
  <2>2. Truthful => Loaded(n)
    BY <1>4, <2>1 DEF ContentInv
  <2>3. Truthful => Loaded(n)'
    BY <1>1, <1>3, <2>2, SameLoaded
  <2>4. Truthful' = Truthful
    BY <1>1, SameFile
  <2>5. Truthful' => Loaded(1)'
    BY <2>1, <2>3, <2>4
  <2> QED
    BY <1>1, <1>2, <1>4, <2>5 DEF ContentInv
<1>5. CASE stage = "header"
  <2>1. Truthful => IF cur'.pos = RecordStart(file, rec') /\ cur'.pos <= cut
                    THEN Contents(rec', data'.objects, data'.roots, data'.strings, data'.loaded)
                    ELSE cur'.pos >= cut => Kept(data'.objects, data'.roots)
    BY <1>1, <1>2, <1>3, <1>5 DEF ContentInv, Start
  <2> QED
    BY <1>1, <1>2, <1>5, <2>1, LoadedToHeader
<1>6. CASE stage = "body"
  <2>1. Truthful => Contents(rec', data'.objects, data'.roots, data'.strings, data'.loaded)
    BY <1>1, <1>3, <1>6 DEF ContentInv
  <2> QED
    BY <1>1, <1>2, <1>6, <2>1, LoadedToBody
<1>7. CASE stage = "segment"
  <2>1. SegmentLoaded(rec, seg.item) =>
          SegmentContents(rec', seg'.item, data'.objects, data'.roots, data'.strings, data'.loaded, seg'.heapType)
    BY <1>1, <1>2 DEF SegmentLoaded, SegmentContents, NamesLoaded
  <2>2. Truthful =>
           /\ seg'.mark = Len(ObjectsUpTo(rec' - 1))
           /\ IF cur'.pos <= cut
              THEN SegmentContents(rec', seg'.item, data'.objects, data'.roots, data'.strings, data'.loaded, seg'.heapType)
              ELSE Kept(data'.objects, data'.roots) /\ WholeRecords = rec' - 1
    BY <1>1, <1>2, <1>7, <2>1 DEF ContentInv
  <2> QED
    BY <1>1, <1>2, <1>7, <2>2, LoadedToSegment
<1>8. CASE stage = "loaded"
  <2>1. Truthful => /\ Kept(data'.objects, data'.roots)
                    /\ Intact => Contents(Count + 1, data'.objects, data'.roots, data'.strings, data'.loaded)
    BY <1>2, <1>3, <1>8 DEF ContentInv
  <2> QED
    BY <1>1, <1>2, <1>8, <2>1, LoadedToEnd
<1>9. CASE stage \notin {"start", "header", "body", "segment", "loaded"}
  BY <1>1, <1>2, <1>9 DEF ContentInv
<1> QED
  BY <1>4, <1>5, <1>6, <1>7, <1>8, <1>9

\* Every step.
LEMMA ContentSteps == PlaceInv /\ ContentInv /\ [Next]_vars => ContentInv'
BY FileHeaderLoaded, NoMoreLoaded, NextLoaded, Utf8Loaded, LoadClassLoaded, StackFrameLoaded, StackTraceLoaded,
   EndRecordLoaded, EnterLoaded, GivenUpLoaded, EndSegmentLoaded, ClassLoaded, ClassFailedLoaded, InstanceLoaded,
   ObjectsLoaded, PrimitivesLoaded, NoDataLoaded, InfoLoaded, RootLoaded, StayLoaded, Zenon DEF Next

\* What stands before the reader's place is loaded.
THEOREM ContentKept == Spec => []ContentInv
BY InitLoaded, ContentSteps, Placed, PTL DEF Spec

\* CompleteFileLoads: a complete file of supported records is read to its end, and what is
\* loaded is its content.
THEOREM CompleteLoads == Spec => []CompleteFileLoads
<1>1. PlaceInv /\ ContentInv => CompleteFileLoads
  <2> SUFFICES ASSUME PlaceInv, ContentInv, Complete, Truthful, Supported
               PROVE  /\ stage \notin {"error", "aborted", "astray"}
                      /\ stage = "loaded" =>
                           /\ data.objects = WholeObjects
                           /\ data.roots = WholeRoots
                           /\ \A n \in Indices("UTF8_STRING") :
                                data.strings[file.records[n].id] = RefOf("UTF8_STRING", Len(file.records) + 1, file.records[n].id)
                           /\ \A n \in Indices("LOAD_CLASS") :
                                data.loaded[file.records[n].id] = RefOf("LOAD_CLASS", Len(file.records) + 1, file.records[n].id)
    BY DEF CompleteFileLoads
  <2>1. Intact
    BY DEF Intact
  <2>2. stage \notin {"error", "aborted", "astray"}
    BY <2>1 DEF PlaceInv
  <2> SUFFICES ASSUME stage = "loaded"
               PROVE  /\ data.objects = WholeObjects /\ data.roots = WholeRoots
                      /\ \A n \in Indices("UTF8_STRING") :
                           data.strings[file.records[n].id] = RefOf("UTF8_STRING", Count + 1, file.records[n].id)
                      /\ \A n \in Indices("LOAD_CLASS") :
                           data.loaded[file.records[n].id] = RefOf("LOAD_CLASS", Count + 1, file.records[n].id)
    BY <2>2 DEF Count
  <2>3. Loaded(Count + 1)
    BY <2>1 DEF ContentInv
  <2>4. file \in Files
    BY DEF PlaceInv, Given
  <2>5. Count \in Nat /\ DOMAIN file.records = 1..Count
    BY <2>4, FileShape DEF Count
  <2>6. (Count + 1) - 1 = Count
    BY <2>5
  <2>7. data.objects = WholeObjects /\ data.roots = WholeRoots
    BY <2>3, <2>6 DEF Loaded, WholeObjects, WholeRoots, Count
  <2>8. ASSUME NEW tag, NEW n \in Indices(tag)
        PROVE  Names(tag, Count + 1)[file.records[n].id] = RefOf(tag, Count + 1, file.records[n].id)
    <3>1. n < Count + 1
      BY <2>5 DEF Indices
    <3>2. n \in FoundIn(tag, Count + 1, file.records[n].id)
      BY <3>1 DEF FoundIn
    <3> QED
      BY <3>2, NamesKnown
  <2>9. data.strings = Names("UTF8_STRING", Count + 1) /\ data.loaded = Names("LOAD_CLASS", Count + 1)
    BY <2>3 DEF Loaded, NamesLoaded
  <2> QED
    BY <2>7, <2>8, <2>9
<1> QED
  BY <1>1, Placed, ContentKept, PTL

\* NothingWholeIsLost: of an accepted file all that is wholly there is loaded, wherever the
\* file ends, and at most one object or root more.
THEOREM WholeKept == Spec => []NothingWholeIsLost
<1>1. ContentInv => NothingWholeIsLost
  BY DEF ContentInv, NothingWholeIsLost, Kept
<1> QED
  BY <1>1, ContentKept, PTL

\* HeapTypePerSegment: the objects of whole segments have the heap type of theirs, and the
\* rest share one.
THEOREM HeapTypesKept == Spec => []HeapTypePerSegment
<1>1. ContentInv => HeapTypePerSegment
  BY DEF ContentInv, HeapTypePerSegment, Kept
<1> QED
  BY <1>1, ContentKept, PTL
===============================================================================
