------------------------- MODULE ProfileBuilderProofs -------------------------
(***************************************************************************)
(* Proofs about ProfileBuilder, for every dump.  What each loop has gone    *)
(* through is a number; the index of classes, the index of objects, the     *)
(* class of the strings and the progress are told from the dump and these   *)
(* numbers.  An action moves one of the numbers by one.  The second half is  *)
(* about the layouts: what set_class makes of a chain of super classes, by   *)
(* induction over the fields, the chain and the classes.                     *)
(***************************************************************************)
EXTENDS ProfileBuilder, FiniteSetTheorems, SequenceFacts, TLAPS

\* How many of n elements a loop has gone through.
Gone(before, loop, n) == IF stage \in before THEN 0 ELSE IF stage = loop THEN next - 1 ELSE n

Named       == Gone({"start"}, "names", Len(dump.classes))
Linked      == Gone({"start", "names"}, "supers", Len(dump.classes))
PrimsIn     == Gone({"start", "names", "supers"}, "prims", Len(dump.prims))
InstancesIn == Gone({"start", "names", "supers", "prims"}, "instances", Len(dump.instances))
ArraysIn    == Gone({"start", "names", "supers", "prims", "instances"}, "arrays", Len(dump.arrays))
LastReport       == IF stage = "done" THEN 1 ELSE 0

Stopped == stage \in {"crashed", "hung"}

\* A loop that runs has not passed its end.
Counting ==
  /\ dump \in Dumps
  /\ stage \in Stages
  /\ next \in Nat \ {0}
  /\ stage \in {"names", "supers"} => next <= Len(dump.classes) + 1
  /\ stage = "prims" => next <= Len(dump.prims) + 1
  /\ stage = "instances" => next <= Len(dump.instances) + 1
  /\ stage = "arrays" => next <= Len(dump.arrays) + 1
  /\ stage = "start" => next = 1

-------------------------------------------------------------------------------
(* The invariant. *)

IsFirst(seq, k, id) == /\ k \in Indexes(seq)
                       /\ seq[k].id = id
                       /\ \A j \in 1..(k - 1) : seq[j].id # id

IdsTo(seq, n) == {seq[k].id : k \in 1..n}

\* The classes gone through are found by their ids, the first of each.
ClassesIndexed ==
  /\ DOMAIN classes = IdsTo(dump.classes, Named)
  /\ \A id \in DOMAIN classes : IsFirst(dump.classes, classes[id], id)

\* What the index has for an id is the first object read with it.
RightEntry(item, id) ==
  \/ /\ item.kind = "primitives"
     /\ IsFirst(dump.prims, item.at, id)
  \/ /\ item.kind \in {"string", "object"}
     /\ IsFirst(dump.instances, item.at, id)
     /\ id \notin Ids(dump.prims)
  \/ /\ item.kind = "objects"
     /\ IsFirst(dump.arrays, item.at, id)
     /\ id \notin Ids(dump.prims) \cup Ids(dump.instances)

ObjectsIndexed ==
  /\ DOMAIN objects = IdsTo(dump.prims, PrimsIn) \cup IdsTo(dump.instances, InstancesIn)
                      \cup IdsTo(dump.arrays, ArraysIn)
  /\ \A id \in DOMAIN objects : RightEntry(objects[id], id)

IsStringClass(k) == ClassName(dump.classes[k]) = StringName

\* The class of the strings is the last one gone through that has the name.
StringClassKnown ==
  IF \E k \in 1..Named : IsStringClass(k)
  THEN \E k \in 1..Named : /\ IsStringClass(k)
                           /\ \A j \in (k + 1)..Named : ~IsStringClass(j)
                           /\ stringClassId = dump.classes[k].id
  ELSE stringClassId = 0

\* The char array that a string takes its text from, 0 without one.
TextFrom(o) ==
  IF /\ KnownClass(o.cls)
     /\ HasText(Layout(FirstClass(o.cls)))
     /\ o.value \in Ids(dump.prims)
     /\ dump.prims[objects[o.value].at].type = "char"
  THEN objects[o.value].at ELSE 0

\* An instance is a string if it is of the class, and then it has its text.
Decoded(id) ==
  objects[id].kind \in {"string", "object"} =>
    LET o == dump.instances[objects[id].at]
    IN /\ objects[id].kind = "string" <=> o.cls = stringClassId
       /\ objects[id].kind = "string" => objects[id].text = TextFrom(o)

InstancesDecoded == \A id \in DOMAIN objects : Decoded(id)

\* The progress is what was reported: of the classes gone through the second time
\* only those with a known super class.
Linkable(n) == {k \in 1..n : HasSuper(k)}

Progress == ready = Named + Cardinality(Linkable(Linked)) + PrimsIn + InstancesIn + ArraysIn + LastReport

IInv == /\ Counting
        /\ ready <= Total + 1
        /\ ~Stopped => ClassesIndexed /\ ObjectsIndexed /\ StringClassKnown /\ InstancesDecoded /\ Progress

-------------------------------------------------------------------------------
(* Sequences with ids, and maps that are emplaced into. *)

\* What was read is finite.
LEMMA Lengths ==
  ASSUME dump \in Dumps
  PROVE  /\ Len(dump.classes) \in Nat /\ Len(dump.prims) \in Nat
         /\ Len(dump.instances) \in Nat /\ Len(dump.arrays) \in Nat
<1>1. /\ dump.classes \in Seq([id : Nat, super : Nat, fields : Seq(Field)])
      /\ dump.prims \in Seq([id : Nat, type : STRING])
      /\ dump.instances \in Seq([id : Nat, cls : Nat, value : Nat])
      /\ dump.arrays \in Seq([id : Nat])
  BY DumpsAssumption
<1> QED
  BY <1>1

\* Nothing has no ids, one more element has one more, and all have them all.
LEMMA IdsGrow ==
  ASSUME NEW seq
  PROVE  /\ IdsTo(seq, 0) = {}
         /\ IdsTo(seq, Len(seq)) = Ids(seq)
         /\ \A n \in Nat : IdsTo(seq, n + 1) = IdsTo(seq, n) \cup {seq[n + 1].id}
         /\ \A n \in Nat : n <= Len(seq) => IdsTo(seq, n) \subseteq Ids(seq)
<1>1. IdsTo(seq, 0) = {}
  BY DEF IdsTo
<1>2. IdsTo(seq, Len(seq)) = Ids(seq)
  BY DEF IdsTo, Ids, Indexes
<1>3. ASSUME NEW n \in Nat PROVE IdsTo(seq, n + 1) = IdsTo(seq, n) \cup {seq[n + 1].id}
  <2>1. 1..(n + 1) = 1..n \cup {n + 1}
    OBVIOUS
  <2> QED
    BY <2>1 DEF IdsTo
<1> QED
  BY <1>1, <1>2, <1>3 DEF IdsTo, Ids, Indexes

\* An element with an id that none before it has is the first with it.
LEMMA NewIsFirst ==
  ASSUME NEW seq, NEW n \in Indexes(seq), Len(seq) \in Nat, seq[n].id \notin IdsTo(seq, n - 1)
  PROVE  IsFirst(seq, n, seq[n].id)
BY DEF IsFirst, IdsTo, Indexes

\* There is only one first.
LEMMA OneFirst ==
  ASSUME NEW seq, Len(seq) \in Nat, NEW id, NEW j, NEW k, IsFirst(seq, j, id), IsFirst(seq, k, id)
  PROVE  j = k
<1>1. j \in Int /\ k \in Int /\ 1 <= j /\ 1 <= k
  BY DEF IsFirst, Indexes
<1>2. ~(j < k) /\ ~(k < j)
  BY <1>1 DEF IsFirst
<1> QED
  BY <1>1, <1>2

\* The class an id stands for is the first one with it.
LEMMA FirstClassIs ==
  ASSUME dump \in Dumps, NEW id, NEW k, IsFirst(dump.classes, k, id)
  PROVE  FirstClass(id) = k
<1>1. \A j : IsFirst(dump.classes, j, id) <=> /\ j \in Indexes(dump.classes)
                                              /\ dump.classes[j].id = id
                                              /\ \A i \in 1..(j - 1) : dump.classes[i].id # id
  BY DEF IsFirst
<1>2. \A j : IsFirst(dump.classes, j, id) => j = k
  BY Lengths, OneFirst
<1>3. k \in Indexes(dump.classes) /\ IsFirst(dump.classes, k, id)
  BY DEF IsFirst
<1> QED
  BY <1>1, <1>2, <1>3 DEF FirstClass

-------------------------------------------------------------------------------
(* What an action leaves alone. *)

\* The classes, as long as their index and what has gone into it stay.
LEMMA ClassesStay ==
  ASSUME dump' = dump, classes' = classes, Named' = Named, ClassesIndexed
  PROVE  ClassesIndexed'
BY DEF ClassesIndexed

\* So do the objects.
LEMMA ObjectsStay ==
  ASSUME dump' = dump, objects' = objects, PrimsIn' = PrimsIn, InstancesIn' = InstancesIn,
         ArraysIn' = ArraysIn, ObjectsIndexed
  PROVE  ObjectsIndexed'
BY DEF ObjectsIndexed, RightEntry

\* So does the class of the strings.
LEMMA StringClassStays ==
  ASSUME dump' = dump, stringClassId' = stringClassId, Named' = Named, StringClassKnown
  PROVE  StringClassKnown'
<1>1. \A k : IsStringClass(k)' <=> IsStringClass(k)
  BY DEF IsStringClass, ClassName, Find
<1> QED
  BY <1>1 DEF StringClassKnown

\* A text comes from arrays, and from the classes, which stay.
LEMMA TextStays ==
  ASSUME dump' = dump, superOf' = superOf, NEW o,
         o.value \in Ids(dump.prims) => objects'[o.value] = objects[o.value]
  PROVE  TextFrom(o)' = TextFrom(o)
<1>1. KnownClass(o.cls)' <=> KnownClass(o.cls)
  BY DEF KnownClass, Indexes
<1>2. HasText(Layout(FirstClass(o.cls)))' <=> HasText(Layout(FirstClass(o.cls)))
  <2>1. FirstClass(o.cls)' = FirstClass(o.cls)
    BY DEF FirstClass, Indexes
  <2>2. Layout(FirstClass(o.cls))' = Layout(FirstClass(o.cls))
    BY <2>1 DEF Layout
  <2> QED
    BY <2>2
<1> QED
  BY <1>1, <1>2 DEF TextFrom

\* So what has been decoded stays decoded.
LEMMA DecodedStays ==
  ASSUME dump' = dump, superOf' = superOf, stringClassId' = stringClassId, objects' = objects,
         InstancesDecoded
  PROVE  InstancesDecoded'
<1>1. \A o : TextFrom(o)' = TextFrom(o)
  BY TextStays
<1> QED
  BY <1>1 DEF InstancesDecoded, Decoded

\* What is known of the super classes is told from the dump.
LEMMA LinkableStays == ASSUME dump' = dump PROVE \A n : Linkable(n)' = Linkable(n)
BY DEF Linkable, HasSuper, KnownClass, Indexes

-------------------------------------------------------------------------------
(* What a loop has gone through. *)

\* No loop has gone through more than there is.
LEMMA CountTypes ==
  ASSUME Counting
  PROVE  /\ Named \in 0..Len(dump.classes) /\ Linked \in 0..Len(dump.classes)
         /\ PrimsIn \in 0..Len(dump.prims) /\ InstancesIn \in 0..Len(dump.instances)
         /\ ArraysIn \in 0..Len(dump.arrays)
         /\ next \in Nat \ {0} /\ dump \in Dumps
BY Lengths DEF Counting, Named, Linked, PrimsIn, InstancesIn, ArraysIn, Gone

\* Of n classes at most n have a known super class.
LEMMA LinkableCount ==
  ASSUME NEW n \in Nat
  PROVE  /\ IsFiniteSet(Linkable(n))
         /\ Cardinality(Linkable(n)) \in 0..n
<1>1. IsFiniteSet(1..n) /\ Cardinality(1..n) = n
  BY FS_Interval
<1>2. Linkable(n) \subseteq 1..n
  BY DEF Linkable
<1> QED
  BY <1>1, <1>2, FS_Subset, FS_CardinalityType

\* One class more is counted if it has a known super class.
LEMMA LinkableGrows ==
  ASSUME NEW n \in Nat
  PROVE  Cardinality(Linkable(n + 1)) = Cardinality(Linkable(n)) + (IF HasSuper(n + 1) THEN 1 ELSE 0)
<1>1. 1..(n + 1) = 1..n \cup {n + 1} /\ n + 1 \notin 1..n
  OBVIOUS
<1>2. CASE HasSuper(n + 1)
  <2>1. Linkable(n + 1) = Linkable(n) \cup {n + 1} /\ n + 1 \notin Linkable(n)
    BY <1>1, <1>2 DEF Linkable
  <2> QED
    BY <1>2, <2>1, LinkableCount, FS_AddElement
<1>3. CASE ~HasSuper(n + 1)
  <2>1. Linkable(n + 1) = Linkable(n)
    BY <1>1, <1>3 DEF Linkable
  <2> QED
    BY <1>3, <2>1, LinkableCount
<1> QED
  BY <1>2, <1>3

\* The classes without a known super class are the others.
LEMMA RootsCount ==
  ASSUME dump \in Dumps
  PROVE  Cardinality({k \in Indexes(dump.classes) : ~HasSuper(k)})
           = Len(dump.classes) - Cardinality(Linkable(Len(dump.classes)))
<1> DEFINE n == Len(dump.classes)
<1> DEFINE Roots == {k \in Indexes(dump.classes) : ~HasSuper(k)}
<1>1. n \in Nat
  BY Lengths
<1>2. Roots = (1..n) \ Linkable(n) /\ Linkable(n) = (1..n) \cap Linkable(n)
  BY DEF Indexes, Linkable
<1>3. IsFiniteSet(1..n) /\ Cardinality(1..n) = n
  BY <1>1, FS_Interval
<1>4. Cardinality((1..n) \ Linkable(n)) = n - Cardinality((1..n) \cap Linkable(n))
  BY <1>3, FS_Difference
<1> QED
  BY <1>2, <1>4

\* Parts add up to no more than their wholes.
LEMMA Parts ==
  ASSUME NEW c \in Nat, NEW p \in Nat, NEW i \in Nat, NEW a \in Nat,
         NEW n \in 0..c, NEW k \in 0..c, NEW x \in 0..p, NEW y \in 0..i, NEW z \in 0..a, NEW t \in 0..1
  PROVE  /\ n + k + x + y + z + t \in Nat
         /\ n + k + x + y + z + t <= 2 * c + p + i + a + 1
OBVIOUS

\* The numbers are integers.
LEMMA SumType ==
  ASSUME Counting
  PROVE  Named + Cardinality(Linkable(Linked)) + PrimsIn + InstancesIn + ArraysIn \in Int
<1>1. /\ Named \in Int /\ Linked \in Nat /\ PrimsIn \in Int /\ InstancesIn \in Int /\ ArraysIn \in Int
  BY CountTypes, Lengths
<1>2. Cardinality(Linkable(Linked)) \in Int
  BY <1>1, LinkableCount
<1> QED
  BY <1>1, <1>2

\* The progress stays within the total and one, and its end is told from the dump.
LEMMA ProgressBound ==
  ASSUME Counting, Progress
  PROVE  /\ ready \in Nat
         /\ ready <= Total + 1
         /\ stage = "done" => ready = Total + 1 - Cardinality({k \in Indexes(dump.classes) : ~HasSuper(k)})
<1>1. /\ Named \in 0..Len(dump.classes) /\ Linked \in 0..Len(dump.classes)
      /\ PrimsIn \in 0..Len(dump.prims) /\ InstancesIn \in 0..Len(dump.instances)
      /\ ArraysIn \in 0..Len(dump.arrays) /\ dump \in Dumps
      /\ Len(dump.classes) \in Nat /\ Len(dump.prims) \in Nat
      /\ Len(dump.instances) \in Nat /\ Len(dump.arrays) \in Nat
  BY CountTypes, Lengths
<1>2. Cardinality(Linkable(Linked)) \in 0..Len(dump.classes)
  <2>1. Cardinality(Linkable(Linked)) \in 0..Linked
    BY <1>1, LinkableCount
  <2> QED
    BY <1>1, <2>1
<1>3. LastReport \in 0..1
  BY DEF LastReport
<1>4. ready \in Nat /\ ready <= Total + 1
  <2>1. ready = Named + Cardinality(Linkable(Linked)) + PrimsIn + InstancesIn + ArraysIn + LastReport
    BY DEF Progress
  <2>2. Total = 2 * Len(dump.classes) + Len(dump.prims) + Len(dump.instances) + Len(dump.arrays)
    BY DEF Total
  <2>3. /\ ready \in Nat
        /\ ready <= 2 * Len(dump.classes) + Len(dump.prims) + Len(dump.instances) + Len(dump.arrays) + 1
    <3>1. PICK c \in Nat, p \in Nat, i \in Nat, a \in Nat :
            /\ c = Len(dump.classes) /\ p = Len(dump.prims)
            /\ i = Len(dump.instances) /\ a = Len(dump.arrays)
      BY <1>1
    <3>2. PICK n \in 0..c, k \in 0..c, x \in 0..p, y \in 0..i, z \in 0..a, t \in 0..1 :
            /\ n = Named /\ k = Cardinality(Linkable(Linked)) /\ x = PrimsIn /\ y = InstancesIn
            /\ z = ArraysIn /\ t = LastReport
      BY <1>1, <1>2, <1>3, <3>1
    <3>3. ready = n + k + x + y + z + t
      BY <2>1, <3>2
    <3>4. n + k + x + y + z + t \in Nat /\ n + k + x + y + z + t <= 2 * c + p + i + a + 1
      BY Parts
    <3> QED
      BY <3>1, <3>3, <3>4
  <2> QED
    BY <2>2, <2>3
<1>5. ASSUME stage = "done"
      PROVE  ready = Total + 1 - Cardinality({k \in Indexes(dump.classes) : ~HasSuper(k)})
  <2>1. /\ Named = Len(dump.classes) /\ Linked = Len(dump.classes) /\ PrimsIn = Len(dump.prims)
        /\ InstancesIn = Len(dump.instances) /\ ArraysIn = Len(dump.arrays) /\ LastReport = 1
    BY <1>5 DEF Named, Linked, PrimsIn, InstancesIn, ArraysIn, Gone, LastReport
  <2> DEFINE linked == Cardinality(Linkable(Len(dump.classes)))
  <2>2. linked \in Int
    BY <1>2, <2>1
  <2>3. ready = Len(dump.classes) + linked + Len(dump.prims) + Len(dump.instances) + Len(dump.arrays) + 1
    BY <2>1 DEF Progress
  <2>4. Total = 2 * Len(dump.classes) + Len(dump.prims) + Len(dump.instances) + Len(dump.arrays)
    BY DEF Total
  <2>5. Cardinality({k \in Indexes(dump.classes) : ~HasSuper(k)}) = Len(dump.classes) - linked
    BY <1>1, RootsCount
  <2> HIDE DEF linked
  <2>6. ready = Total + 1 - (Len(dump.classes) - linked)
    <3>1. PICK c \in Nat, p \in Nat, i \in Nat, a \in Nat, k \in Int :
            /\ c = Len(dump.classes) /\ p = Len(dump.prims) /\ i = Len(dump.instances)
            /\ a = Len(dump.arrays) /\ k = linked
      BY <1>1, <2>2
    <3>2. ready = c + k + p + i + a + 1 /\ Total = 2 * c + p + i + a
      BY <2>3, <2>4, <3>1
    <3>3. ready = Total + 1 - (c - k)
      BY <3>2
    <3> QED
      BY <3>1, <3>3
  <2> QED
    BY <2>5, <2>6
<1> QED
  BY <1>4, <1>5

-------------------------------------------------------------------------------
(* The actions. *)

\* A loop that is done leaves everything as it is but its place.
LEMMA DoneStep ==
  ASSUME IInv, ~Stopped, ~Stopped', Counting', dump' = dump,
         UNCHANGED <<Named, Linked, PrimsIn, InstancesIn, ArraysIn>>,
         UNCHANGED <<stringClassId, superOf, classes, objects>>,
         ready' = ready + LastReport' - LastReport
  PROVE  IInv'
<1>1. /\ ClassesIndexed /\ ObjectsIndexed /\ StringClassKnown /\ InstancesDecoded /\ Progress
      /\ Counting
  BY DEF IInv
<1>2. ClassesIndexed' /\ ObjectsIndexed' /\ StringClassKnown' /\ InstancesDecoded'
  BY <1>1, ClassesStay, ObjectsStay, StringClassStays, DecodedStays
<1>3. Linkable(Linked)' = Linkable(Linked)
  BY LinkableStays DEF Linkable
<1>4. Progress'
  <2> DEFINE sum == Named + Cardinality(Linkable(Linked)) + PrimsIn + InstancesIn + ArraysIn
  <2>1. sum' = sum
    BY <1>3
  <2>2. sum \in Int /\ LastReport \in Int /\ LastReport' \in Int
    BY <1>1, SumType DEF LastReport
  <2>3. ready = sum + LastReport
    BY <1>1 DEF Progress
  <2> HIDE DEF sum
  <2>4. ready' = sum' + LastReport'
    BY <2>1, <2>2, <2>3
  <2> QED
    BY <2>4 DEF Progress, sum
<1> QED
  BY <1>2, <1>4, ProgressBound, PTL DEF IInv

\* Where one number moves by one and it is reported, the progress stays right.
LEMMA ProgressMoves ==
  ASSUME Counting, Progress, dump' = dump, ready' = ready + 1, LastReport' = LastReport,
         \/ Named' = Named + 1 /\ UNCHANGED <<Linked, PrimsIn, InstancesIn, ArraysIn>>
         \/ Linked' = Linked + 1 /\ HasSuper(Linked + 1) /\ UNCHANGED <<Named, PrimsIn, InstancesIn, ArraysIn>>
         \/ PrimsIn' = PrimsIn + 1 /\ UNCHANGED <<Named, Linked, InstancesIn, ArraysIn>>
         \/ InstancesIn' = InstancesIn + 1 /\ UNCHANGED <<Named, Linked, PrimsIn, ArraysIn>>
         \/ ArraysIn' = ArraysIn + 1 /\ UNCHANGED <<Named, Linked, PrimsIn, InstancesIn>>
  PROVE  Progress'
<1>1. Linked \in Nat
  BY CountTypes, Lengths
<1>2. PICK n \in Int, k \in Int, p \in Int, i \in Int, a \in Int, t \in Int :
        /\ n = Named /\ k = Cardinality(Linkable(Linked)) /\ p = PrimsIn /\ i = InstancesIn
        /\ a = ArraysIn /\ t = LastReport
  <2>1. /\ Named \in Int /\ PrimsIn \in Int /\ InstancesIn \in Int /\ ArraysIn \in Int
    BY CountTypes, Lengths
  <2>2. Cardinality(Linkable(Linked)) \in Int /\ LastReport \in Int
    BY <1>1, LinkableCount DEF LastReport
  <2> QED
    BY <2>1, <2>2
<1>3. ready = n + k + p + i + a + t /\ ready' = n + k + p + i + a + t + 1
  BY <1>2 DEF Progress
<1>4. Linked' = Linked => Cardinality(Linkable(Linked))' = k
  BY <1>2, LinkableStays DEF Linkable
<1>5. Progress' <=> ready' = Named' + Cardinality(Linkable(Linked))' + PrimsIn' + InstancesIn' + ArraysIn' + LastReport'
  BY DEF Progress
<1>6. CASE Linked' = Linked + 1 /\ HasSuper(Linked + 1) /\ UNCHANGED <<Named, PrimsIn, InstancesIn, ArraysIn>>
  <2>1. Cardinality(Linkable(Linked))' = k + 1
    <3>1. Linkable(Linked)' = Linkable(Linked + 1)
      BY <1>6, LinkableStays DEF Linkable
    <3> QED
      BY <1>1, <1>2, <1>6, <3>1, LinkableGrows
  <2>2. ready' = n + (k + 1) + p + i + a + t
    BY <1>3
  <2> QED
    BY <1>2, <1>5, <1>6, <2>1, <2>2
<1>7. CASE Named' = Named + 1 /\ UNCHANGED <<Linked, PrimsIn, InstancesIn, ArraysIn>>
  <2>1. ready' = (n + 1) + k + p + i + a + t
    BY <1>3
  <2> QED
    BY <1>2, <1>4, <1>5, <1>7, <2>1
<1>8. CASE PrimsIn' = PrimsIn + 1 /\ UNCHANGED <<Named, Linked, InstancesIn, ArraysIn>>
  <2>1. ready' = n + k + (p + 1) + i + a + t
    BY <1>3
  <2> QED
    BY <1>2, <1>4, <1>5, <1>8, <2>1
<1>9. CASE InstancesIn' = InstancesIn + 1 /\ UNCHANGED <<Named, Linked, PrimsIn, ArraysIn>>
  <2>1. ready' = n + k + p + (i + 1) + a + t
    BY <1>3
  <2> QED
    BY <1>2, <1>4, <1>5, <1>9, <2>1
<1>10. CASE ArraysIn' = ArraysIn + 1 /\ UNCHANGED <<Named, Linked, PrimsIn, InstancesIn>>
  <2>1. ready' = n + k + p + i + (a + 1) + t
    BY <1>3
  <2> QED
    BY <1>2, <1>4, <1>5, <1>10, <2>1
<1> QED
  BY <1>6, <1>7, <1>8, <1>9, <1>10

\* A class that is passed over is not counted.
LEMMA ProgressPasses ==
  ASSUME Counting, Progress, dump' = dump, ready' = ready, LastReport' = LastReport,
         Linked' = Linked + 1, ~HasSuper(Linked + 1), UNCHANGED <<Named, PrimsIn, InstancesIn, ArraysIn>>
  PROVE  Progress'
<1>1. Linked \in Nat
  BY CountTypes, Lengths
<1>2. Linkable(Linked)' = Linkable(Linked + 1)
  BY LinkableStays DEF Linkable
<1>3. Cardinality(Linkable(Linked)) \in Nat
  BY <1>1, LinkableCount
<1>4. Cardinality(Linkable(Linked))' = Cardinality(Linkable(Linked))
  BY <1>1, <1>2, <1>3, LinkableGrows
<1> QED
  BY <1>4 DEF Progress

\* As long as nothing has gone into it, the index of objects is empty.
LEMMA NoObjects ==
  ASSUME ObjectsIndexed, PrimsIn = 0, InstancesIn = 0, ArraysIn = 0
  PROVE  DOMAIN objects = {}
BY IdsGrow DEF ObjectsIndexed

\* A round of the first loop.
LEMMA NameClassStep == ASSUME IInv, NameClass PROVE IInv'
<1>1. /\ stage = "names" /\ stage' = "names" /\ next \in Indexes(dump.classes) /\ next' = next + 1
      /\ dump' = dump /\ ready' = ready + 1 /\ UNCHANGED <<superOf, layout, objects>>
      /\ classes' = Emplace(classes, dump.classes[next].id, next)
      /\ stringClassId' = IF IsStringClass(next) THEN dump.classes[next].id ELSE stringClassId
      /\ dump \in Dumps /\ next \in Nat \ {0} /\ Counting
  BY Lengths DEF IInv, Counting, NameClass, InLoop, Reported, Indexes, IsStringClass
<1>2. ~Stopped /\ ~Stopped' /\ LastReport' = LastReport
  BY <1>1 DEF Stopped, LastReport
<1>3. ClassesIndexed /\ ObjectsIndexed /\ StringClassKnown /\ InstancesDecoded /\ Progress
  BY <1>2 DEF IInv
<1>4. /\ Named = next - 1 /\ Named' = next /\ Named' = Named + 1
      /\ Linked = 0 /\ PrimsIn = 0 /\ InstancesIn = 0 /\ ArraysIn = 0
      /\ Linked' = 0 /\ PrimsIn' = 0 /\ InstancesIn' = 0 /\ ArraysIn' = 0
  BY <1>1 DEF Named, Linked, PrimsIn, InstancesIn, ArraysIn, Gone
<1>5. Counting'
  BY <1>1, Lengths DEF Counting, Indexes, Stages
<1>6. ClassesIndexed'
  <2> DEFINE id == dump.classes[next].id
  <2>1. /\ DOMAIN classes' = DOMAIN classes \cup {id}
        /\ \A x \in DOMAIN classes : classes'[x] = classes[x]
        /\ id \notin DOMAIN classes => classes'[id] = next
    <3>1. classes' = Emplace(classes, id, next)
      BY <1>1
    <3> HIDE DEF id
    <3> QED
      BY <3>1 DEF Emplace
  <2>2. DOMAIN classes' = IdsTo(dump.classes, next)
    <3>1. next - 1 \in Nat /\ (next - 1) + 1 = next
      BY <1>1
    <3>2. IdsTo(dump.classes, (next - 1) + 1) = IdsTo(dump.classes, next - 1) \cup {dump.classes[(next - 1) + 1].id}
      BY <3>1, IdsGrow
    <3> QED
      BY <1>3, <1>4, <2>1, <3>1, <3>2 DEF ClassesIndexed
  <2>3. id \notin DOMAIN classes => IsFirst(dump.classes, next, id)
    BY <1>1, <1>3, <1>4, Lengths, NewIsFirst DEF ClassesIndexed
  <2>4. \A x \in DOMAIN classes' : IsFirst(dump.classes, classes'[x], x)
    BY <1>3, <2>1, <2>3 DEF ClassesIndexed
  <2> QED
    BY <1>1, <1>4, <2>2, <2>4 DEF ClassesIndexed
<1>7. ObjectsIndexed' /\ DOMAIN objects' = {}
  BY <1>1, <1>3, <1>4, ObjectsStay, NoObjects
<1>8. StringClassKnown'
  <2>1. \A k : IsStringClass(k)' <=> IsStringClass(k)
    BY <1>1 DEF IsStringClass, ClassName, Find
  <2>2. CASE IsStringClass(next)
    <3>1. next \in 1..next /\ \A j \in (next + 1)..next : ~IsStringClass(j)
      BY <1>1
    <3> QED
      BY <1>1, <1>4, <2>1, <2>2, <3>1 DEF StringClassKnown
  <2>3. CASE ~IsStringClass(next)
    <3>1. 1..next = 1..(next - 1) \cup {next}
      BY <1>1
    <3>2. stringClassId' = stringClassId
      BY <1>1, <2>3
    <3>3. CASE \E k \in 1..(next - 1) : IsStringClass(k)
      <4>1. PICK k \in 1..(next - 1) : /\ IsStringClass(k)
                                       /\ \A j \in (k + 1)..(next - 1) : ~IsStringClass(j)
                                       /\ stringClassId = dump.classes[k].id
        BY <1>3, <1>4, <3>3 DEF StringClassKnown
      <4>2. \A j \in (k + 1)..next : j \in (k + 1)..(next - 1) \/ j = next
        BY <1>1
      <4>3. k \in 1..next /\ \A j \in (k + 1)..next : ~IsStringClass(j)
        BY <2>3, <3>1, <4>1, <4>2
      <4> QED
        BY <1>1, <1>4, <2>1, <3>2, <4>1, <4>3 DEF StringClassKnown
    <3>4. CASE ~\E k \in 1..(next - 1) : IsStringClass(k)
      <4>1. stringClassId = 0
        BY <1>3, <1>4, <3>4 DEF StringClassKnown
      <4>2. ~\E k \in 1..next : IsStringClass(k)
        BY <2>3, <3>1, <3>4
      <4> QED
        BY <1>4, <2>1, <3>2, <4>1, <4>2 DEF StringClassKnown
    <3> QED
      BY <3>3, <3>4
  <2> QED
    BY <2>2, <2>3
<1>9. InstancesDecoded'
  BY <1>7 DEF InstancesDecoded
<1>10. Progress'
  BY <1>1, <1>2, <1>3, <1>4, ProgressMoves
<1> QED
  BY <1>5, <1>6, <1>7, <1>8, <1>9, <1>10, ProgressBound, PTL DEF IInv

\* A round of the second loop; no object is in the index yet.
LEMMA LinkSuperStep == ASSUME IInv, LinkSuper PROVE IInv'
<1>1. /\ stage = "supers" /\ stage' = "supers" /\ next \in Indexes(dump.classes) /\ next' = next + 1
      /\ dump' = dump /\ UNCHANGED <<stringClassId, layout, classes, objects>>
      /\ dump \in Dumps /\ next \in Nat \ {0} /\ Counting
  BY Lengths DEF IInv, Counting, LinkSuper, InLoop, Reported, Indexes
<1>2. ~Stopped /\ ~Stopped' /\ LastReport' = LastReport
  BY <1>1 DEF Stopped, LastReport
<1>3. ClassesIndexed /\ ObjectsIndexed /\ StringClassKnown /\ InstancesDecoded /\ Progress
  BY <1>2 DEF IInv
<1>4. /\ Linked = next - 1 /\ Linked' = next /\ Linked' = Linked + 1 /\ next = Linked + 1
      /\ Named = Len(dump.classes) /\ PrimsIn = 0 /\ InstancesIn = 0 /\ ArraysIn = 0
      /\ Named' = Named /\ PrimsIn' = 0 /\ InstancesIn' = 0 /\ ArraysIn' = 0
  BY <1>1 DEF Named, Linked, PrimsIn, InstancesIn, ArraysIn, Gone
<1>5. Counting'
  BY <1>1, Lengths DEF Counting, Indexes, Stages
<1>6. ObjectsIndexed' /\ DOMAIN objects' = {}
  BY <1>1, <1>3, <1>4, ObjectsStay, NoObjects
<1>7. ClassesIndexed' /\ StringClassKnown'
  BY <1>1, <1>3, <1>4, ClassesStay, StringClassStays
<1>8. InstancesDecoded'
  BY <1>6 DEF InstancesDecoded
<1>9. dump.classes[next].super \in DOMAIN classes <=> KnownClass(dump.classes[next].super)
  BY <1>3, <1>4, IdsGrow DEF ClassesIndexed, KnownClass, Ids
<1>10. Progress'
  <2>1. CASE HasSuper(next)
    <3>1. ready' = ready + 1
      BY <1>9, <2>1 DEF LinkSuper, HasSuper, Reported
    <3> QED
      BY <1>1, <1>2, <1>3, <1>4, <2>1, <3>1, ProgressMoves
  <2>2. CASE ~HasSuper(next)
    <3>1. ready' = ready
      BY <1>9, <2>2 DEF LinkSuper, HasSuper
    <3> QED
      BY <1>1, <1>2, <1>3, <1>4, <2>2, <3>1, ProgressPasses
  <2> QED
    BY <2>1, <2>2
<1> QED
  BY <1>5, <1>6, <1>7, <1>8, <1>10, ProgressBound, PTL DEF IInv

\* An entry that is right where there was none keeps the index right.
LEMMA ObjectsEmplaced ==
  ASSUME dump' = dump, \A x \in DOMAIN objects : RightEntry(objects[x], x),
         NEW id, NEW item, objects' = Emplace(objects, id, item),
         id \notin DOMAIN objects => RightEntry(item, id)
  PROVE  /\ DOMAIN objects' = DOMAIN objects \cup {id}
         /\ \A x \in DOMAIN objects : objects'[x] = objects[x]
         /\ id \notin DOMAIN objects => objects'[id] = item
         /\ \A x \in DOMAIN objects' : RightEntry(objects[x], x)'
<1>1. /\ DOMAIN objects' = DOMAIN objects \cup {id}
      /\ \A x \in DOMAIN objects : objects'[x] = objects[x]
      /\ id \notin DOMAIN objects => objects'[id] = item
  BY DEF Emplace
<1>2. \A x, i : RightEntry(i, x)' <=> RightEntry(i, x)
  BY DEF RightEntry
<1>3. ASSUME NEW x \in DOMAIN objects' PROVE RightEntry(objects'[x], x)
  <2>1. CASE x \in DOMAIN objects
    BY <1>1, <2>1
  <2>2. CASE x \notin DOMAIN objects
    BY <1>1, <1>3, <2>2
  <2> QED
    BY <2>1, <2>2
<1>4. \A x \in DOMAIN objects' : RightEntry(objects[x], x)'
  BY <1>3 DEF RightEntry
<1> QED
  BY <1>1, <1>4

\* What is found by the id of a primitives array is one.
LEMMA PrimitivesFound ==
  ASSUME NEW item, NEW id, RightEntry(item, id)
  PROVE  id \in Ids(dump.prims) <=> item.kind = "primitives"
BY DEF RightEntry, IsFirst, Ids

\* A round of the third loop; nothing else is in the index yet.
LEMMA AddPrimitivesArrayStep == ASSUME IInv, AddPrimitivesArray PROVE IInv'
<1> DEFINE id == dump.prims[next].id
<1> DEFINE item == [kind |-> "primitives", at |-> next, text |-> 0]
<1>1. /\ stage = "prims" /\ stage' = "prims" /\ next \in Indexes(dump.prims) /\ next' = next + 1
      /\ dump' = dump /\ ready' = ready + 1 /\ UNCHANGED <<stringClassId, superOf, layout, classes>>
      /\ objects' = Emplace(objects, id, item)
      /\ dump \in Dumps /\ next \in Nat \ {0} /\ Counting
  BY Lengths DEF IInv, Counting, AddPrimitivesArray, InLoop, Reported, Indexes
<1>2. ~Stopped /\ ~Stopped' /\ LastReport' = LastReport
  BY <1>1 DEF Stopped, LastReport
<1>3. ClassesIndexed /\ ObjectsIndexed /\ StringClassKnown /\ InstancesDecoded /\ Progress
  BY <1>2 DEF IInv
<1>4. /\ PrimsIn = next - 1 /\ PrimsIn' = next /\ PrimsIn' = PrimsIn + 1
      /\ InstancesIn = 0 /\ ArraysIn = 0 /\ InstancesIn' = 0 /\ ArraysIn' = 0
      /\ Named' = Named /\ Linked' = Linked
  BY <1>1 DEF Named, Linked, PrimsIn, InstancesIn, ArraysIn, Gone
<1>5. Counting'
  BY <1>1, Lengths DEF Counting, Indexes, Stages
<1>6. ClassesIndexed' /\ StringClassKnown'
  BY <1>1, <1>3, <1>4, ClassesStay, StringClassStays
<1>7. DOMAIN objects = IdsTo(dump.prims, next - 1)
  BY <1>3, <1>4, IdsGrow DEF ObjectsIndexed
<1>8. id \notin DOMAIN objects => RightEntry(item, id)
  BY <1>1, <1>7, Lengths, NewIsFirst DEF RightEntry
<1>9. /\ DOMAIN objects' = DOMAIN objects \cup {id}
      /\ \A x \in DOMAIN objects' : RightEntry(objects[x], x)'
  <2> HIDE DEF id, item
  <2> QED
    BY <1>1, <1>3, <1>8, ObjectsEmplaced DEF ObjectsIndexed
<1>10. DOMAIN objects' = IdsTo(dump.prims, next)
  <2>1. next - 1 \in Nat /\ (next - 1) + 1 = next
    BY <1>1
  <2>2. IdsTo(dump.prims, (next - 1) + 1) = IdsTo(dump.prims, next - 1) \cup {dump.prims[(next - 1) + 1].id}
    BY <2>1, IdsGrow
  <2> QED
    BY <1>7, <1>9, <2>1, <2>2
<1>11. ObjectsIndexed'
  BY <1>1, <1>4, <1>9, <1>10, IdsGrow DEF ObjectsIndexed
<1>12. InstancesDecoded'
  <2>1. IdsTo(dump.prims, next) \subseteq Ids(dump.prims)
    BY <1>1 DEF IdsTo, Ids, Indexes
  <2>2. ASSUME NEW x \in DOMAIN objects' PROVE objects'[x].kind = "primitives"
    <3>1. RightEntry(objects'[x], x) /\ x \in Ids(dump.prims)
      BY <1>1, <1>9, <1>10, <2>1, <2>2 DEF RightEntry
    <3> QED
      BY <3>1, PrimitivesFound
  <2> QED
    BY <2>2 DEF InstancesDecoded, Decoded
<1>13. Progress'
  BY <1>1, <1>2, <1>3, <1>4, ProgressMoves
<1> QED
  BY <1>5, <1>6, <1>11, <1>12, <1>13, ProgressBound, PTL DEF IInv

\* When every class and every primitives array is in place, an instance is decoded from
\* the class and the array that the dump determines.
LEMMA TextIs ==
  ASSUME dump \in Dumps, ClassesIndexed, Named = Len(dump.classes), ObjectsIndexed, PrimsIn = Len(dump.prims),
         NEW o
  PROVE  TextOf(o, IF o.cls \in DOMAIN classes THEN Layout(classes[o.cls]) ELSE <<>>) = TextFrom(o)
<1> DEFINE fields == IF o.cls \in DOMAIN classes THEN Layout(classes[o.cls]) ELSE <<>>
<1> DEFINE none == [kind |-> "none", at |-> 0, text |-> 0]
<1> DEFINE item == Find(objects, o.value, none)
<1>1. HasText(fields) <=> KnownClass(o.cls) /\ HasText(Layout(FirstClass(o.cls)))
  <2>1. o.cls \in DOMAIN classes <=> KnownClass(o.cls)
    BY IdsGrow DEF ClassesIndexed, KnownClass, Ids
  <2>2. CASE o.cls \in DOMAIN classes
    <3>1. classes[o.cls] = FirstClass(o.cls)
      BY <2>2, FirstClassIs DEF ClassesIndexed
    <3> QED
      BY <2>1, <2>2, <3>1
  <2>3. CASE o.cls \notin DOMAIN classes
    <3>1. fields = <<>> /\ DOMAIN fields = {}
      BY <2>3
    <3>2. ~HasText(fields)
      BY <3>1 DEF HasText
    <3> QED
      BY <2>1, <2>3, <3>2
  <2> QED
    BY <2>2, <2>3
<1>2. Ids(dump.prims) \subseteq DOMAIN objects
  BY IdsGrow DEF ObjectsIndexed
<1>3. /\ item.kind = "primitives" <=> o.value \in Ids(dump.prims)
      /\ o.value \in Ids(dump.prims) => item = objects[o.value]
  <2>1. CASE o.value \in DOMAIN objects
    <3>1. item = objects[o.value] /\ RightEntry(item, o.value)
      BY <2>1 DEF Find, ObjectsIndexed
    <3> HIDE DEF item
    <3> QED
      BY <3>1, PrimitivesFound
  <2>2. CASE o.value \notin DOMAIN objects
    <3>1. item = none /\ none.kind # "primitives"
      BY <2>2 DEF Find
    <3> HIDE DEF item, none
    <3> QED
      BY <1>2, <2>2, <3>1
  <2> QED
    BY <2>1, <2>2
<1>4. TextOf(o, fields) = IF HasText(fields) /\ item.kind = "primitives" /\ dump.prims[item.at].type = "char"
                          THEN item.at ELSE 0
  BY DEF TextOf
<1> HIDE DEF fields, item
<1>5. TextOf(o, fields) = TextFrom(o)
  BY <1>1, <1>3, <1>4 DEF TextFrom
<1> QED
  BY <1>5 DEF fields

\* What was decoded before another object is found stays as it is.
LEMMA StillDecoded ==
  ASSUME dump' = dump, superOf' = superOf, stringClassId' = stringClassId,
         Ids(dump.prims) \subseteq DOMAIN objects,
         \A x \in DOMAIN objects : objects'[x] = objects[x],
         NEW x \in DOMAIN objects, Decoded(x)
  PROVE  Decoded(x)'
<1>1. \A o : TextFrom(o)' = TextFrom(o)
  BY TextStays
<1> QED
  BY <1>1 DEF Decoded

\* A round of the fourth loop.
LEMMA AddInstanceStep == ASSUME IInv, AddInstance PROVE IInv'
<1> DEFINE o == dump.instances[next]
<1> DEFINE fields == IF o.cls \in DOMAIN classes THEN Layout(classes[o.cls]) ELSE <<>>
<1> DEFINE item == IF o.cls = stringClassId
                   THEN [kind |-> "string", at |-> next, text |-> TextOf(o, fields)]
                   ELSE [kind |-> "object", at |-> next, text |-> 0]
<1>1. /\ stage = "instances" /\ stage' = "instances" /\ next \in Indexes(dump.instances) /\ next' = next + 1
      /\ dump' = dump /\ ready' = ready + 1 /\ UNCHANGED <<stringClassId, superOf, classes>>
      /\ objects' = Emplace(objects, o.id, item)
      /\ dump \in Dumps /\ next \in Nat \ {0} /\ Counting
  BY Lengths DEF IInv, Counting, AddInstance, InLoop, Reported, Indexes
<1>2. ~Stopped /\ ~Stopped' /\ LastReport' = LastReport
  BY <1>1 DEF Stopped, LastReport
<1>3. ClassesIndexed /\ ObjectsIndexed /\ StringClassKnown /\ InstancesDecoded /\ Progress
  BY <1>2 DEF IInv
<1>4. /\ InstancesIn = next - 1 /\ InstancesIn' = next /\ InstancesIn' = InstancesIn + 1
      /\ PrimsIn = Len(dump.prims) /\ PrimsIn' = PrimsIn /\ ArraysIn = 0 /\ ArraysIn' = 0
      /\ Named = Len(dump.classes) /\ Named' = Named /\ Linked' = Linked
  BY <1>1 DEF Named, Linked, PrimsIn, InstancesIn, ArraysIn, Gone
<1>5. Counting'
  BY <1>1, Lengths DEF Counting, Indexes, Stages
<1>6. ClassesIndexed' /\ StringClassKnown'
  BY <1>1, <1>3, <1>4, ClassesStay, StringClassStays
<1>7. DOMAIN objects = Ids(dump.prims) \cup IdsTo(dump.instances, next - 1)
  BY <1>3, <1>4, IdsGrow DEF ObjectsIndexed
<1>8. /\ item.kind \in {"string", "object"} /\ item.at = next
      /\ item.kind = "string" <=> o.cls = stringClassId
      /\ item.kind = "string" => item.text = TextFrom(o)
  <2>1. TextOf(o, fields) = TextFrom(o)
    BY <1>1, <1>3, <1>4, TextIs
  <2> HIDE DEF o, fields
  <2> QED
    BY <2>1
<1>9. o.id \notin DOMAIN objects => RightEntry(item, o.id)
  <2>1. ASSUME o.id \notin DOMAIN objects PROVE IsFirst(dump.instances, next, o.id) /\ o.id \notin Ids(dump.prims)
    BY <1>1, <1>7, <2>1, Lengths, NewIsFirst
  <2> HIDE DEF o, item
  <2> QED
    BY <1>8, <2>1 DEF RightEntry
<1>10. /\ DOMAIN objects' = DOMAIN objects \cup {o.id}
       /\ \A x \in DOMAIN objects : objects'[x] = objects[x]
       /\ o.id \notin DOMAIN objects => objects'[o.id] = item
       /\ \A x \in DOMAIN objects' : RightEntry(objects[x], x)'
  <2> HIDE DEF o, item
  <2> QED
    BY <1>1, <1>3, <1>9, ObjectsEmplaced DEF ObjectsIndexed
<1>11. DOMAIN objects' = Ids(dump.prims) \cup IdsTo(dump.instances, next)
  <2>1. next - 1 \in Nat /\ (next - 1) + 1 = next
    BY <1>1
  <2>2. IdsTo(dump.instances, (next - 1) + 1) = IdsTo(dump.instances, next - 1) \cup {dump.instances[(next - 1) + 1].id}
    BY <2>1, IdsGrow
  <2> QED
    BY <1>7, <1>10, <2>1, <2>2
<1>12. ObjectsIndexed'
  BY <1>1, <1>4, <1>10, <1>11, IdsGrow DEF ObjectsIndexed
<1>13. InstancesDecoded'
  <2>1. ASSUME NEW x \in DOMAIN objects PROVE Decoded(x)'
    BY <1>1, <1>3, <1>7, <1>10, StillDecoded DEF InstancesDecoded
  <2>2. ASSUME NEW x \in DOMAIN objects', x \notin DOMAIN objects PROVE Decoded(x)'
    <3>1. PICK c, i : c = o /\ i = item
      OBVIOUS
    <3>2. objects'[x] = i /\ dump'.instances[i.at] = c
      BY <1>1, <1>8, <1>10, <2>2, <3>1
    <3>3. /\ i.kind = "string" <=> c.cls = stringClassId'
          /\ i.kind = "string" => i.text = TextFrom(c)
      <4> HIDE DEF o, item
      <4> QED
        BY <1>1, <1>8, <3>1
    <3>4. TextFrom(c)' = TextFrom(c)
      BY <1>1, <1>7, <1>10, TextStays
    <3> QED
      BY <3>2, <3>3, <3>4 DEF Decoded
  <2> QED
    BY <2>1, <2>2 DEF InstancesDecoded
<1>14. Progress'
  BY <1>1, <1>2, <1>3, <1>4, ProgressMoves
<1> QED
  BY <1>5, <1>6, <1>12, <1>13, <1>14, ProgressBound, PTL DEF IInv

\* A round of the last loop.
LEMMA AddObjectsArrayStep == ASSUME IInv, AddObjectsArray PROVE IInv'
<1> DEFINE id == dump.arrays[next].id
<1> DEFINE item == [kind |-> "objects", at |-> next, text |-> 0]
<1>1. /\ stage = "arrays" /\ stage' = "arrays" /\ next \in Indexes(dump.arrays) /\ next' = next + 1
      /\ dump' = dump /\ ready' = ready + 1 /\ UNCHANGED <<stringClassId, superOf, layout, classes>>
      /\ objects' = Emplace(objects, id, item)
      /\ dump \in Dumps /\ next \in Nat \ {0} /\ Counting
  BY Lengths DEF IInv, Counting, AddObjectsArray, InLoop, Reported, Indexes
<1>2. ~Stopped /\ ~Stopped' /\ LastReport' = LastReport
  BY <1>1 DEF Stopped, LastReport
<1>3. ClassesIndexed /\ ObjectsIndexed /\ StringClassKnown /\ InstancesDecoded /\ Progress
  BY <1>2 DEF IInv
<1>4. /\ ArraysIn = next - 1 /\ ArraysIn' = next /\ ArraysIn' = ArraysIn + 1
      /\ PrimsIn = Len(dump.prims) /\ PrimsIn' = PrimsIn
      /\ InstancesIn = Len(dump.instances) /\ InstancesIn' = InstancesIn
      /\ Named' = Named /\ Linked' = Linked
  BY <1>1 DEF Named, Linked, PrimsIn, InstancesIn, ArraysIn, Gone
<1>5. Counting'
  BY <1>1, Lengths DEF Counting, Indexes, Stages
<1>6. ClassesIndexed' /\ StringClassKnown'
  BY <1>1, <1>3, <1>4, ClassesStay, StringClassStays
<1>7. DOMAIN objects = Ids(dump.prims) \cup Ids(dump.instances) \cup IdsTo(dump.arrays, next - 1)
  BY <1>3, <1>4, IdsGrow DEF ObjectsIndexed
<1>8. id \notin DOMAIN objects => RightEntry(item, id)
  BY <1>1, <1>7, Lengths, NewIsFirst DEF RightEntry
<1>9. /\ DOMAIN objects' = DOMAIN objects \cup {id}
      /\ \A x \in DOMAIN objects : objects'[x] = objects[x]
      /\ id \notin DOMAIN objects => objects'[id] = item
      /\ \A x \in DOMAIN objects' : RightEntry(objects[x], x)'
  <2> HIDE DEF id, item
  <2> QED
    BY <1>1, <1>3, <1>8, ObjectsEmplaced DEF ObjectsIndexed
<1>10. DOMAIN objects' = Ids(dump.prims) \cup Ids(dump.instances) \cup IdsTo(dump.arrays, next)
  <2>1. next - 1 \in Nat /\ (next - 1) + 1 = next
    BY <1>1
  <2>2. IdsTo(dump.arrays, (next - 1) + 1) = IdsTo(dump.arrays, next - 1) \cup {dump.arrays[(next - 1) + 1].id}
    BY <2>1, IdsGrow
  <2> QED
    BY <1>7, <1>9, <2>1, <2>2
<1>11. ObjectsIndexed'
  BY <1>1, <1>4, <1>9, <1>10, IdsGrow DEF ObjectsIndexed
<1>12. InstancesDecoded'
  <2>1. ASSUME NEW x \in DOMAIN objects PROVE Decoded(x)'
    BY <1>1, <1>3, <1>7, <1>9, StillDecoded DEF InstancesDecoded
  <2>2. ASSUME NEW x \in DOMAIN objects', x \notin DOMAIN objects PROVE Decoded(x)'
    <3>1. objects'[x].kind = "objects"
      BY <1>9, <2>2
    <3> QED
      BY <3>1 DEF Decoded
  <2> QED
    BY <2>1, <2>2 DEF InstancesDecoded
<1>13. Progress'
  BY <1>1, <1>2, <1>3, <1>4, ProgressMoves
<1> QED
  BY <1>5, <1>6, <1>11, <1>12, <1>13, ProgressBound, PTL DEF IInv

\* The end of a loop, and the beginning of the first.
LEMMA LoopSteps ==
  ASSUME IInv, \/ Begin /\ Total # 0
               \/ NamesDone \/ SupersDone \/ PrimitivesDone \/ InstancesDone \/ ArraysDone
  PROVE  IInv'
<1>1. dump' = dump /\ UNCHANGED <<stringClassId, superOf, classes, objects>>
  BY DEF Begin, NamesDone, SupersDone, PrimitivesDone, InstancesDone, ArraysDone, LoopDone
<1>2. /\ Counting /\ Len(dump.classes) \in Nat /\ Len(dump.prims) \in Nat
      /\ Len(dump.instances) \in Nat /\ Len(dump.arrays) \in Nat
  BY Lengths DEF IInv, Counting
<1>3. \/ stage = "start" /\ stage' = "names" /\ next = 1 /\ next' = 1 /\ ready' = ready
      \/ stage = "names" /\ stage' = "supers" /\ next - 1 = Len(dump.classes) /\ next' = 1 /\ ready' = ready
      \/ stage = "supers" /\ stage' = "prims" /\ next - 1 = Len(dump.classes) /\ next' = 1 /\ ready' = ready
      \/ stage = "prims" /\ stage' = "instances" /\ next - 1 = Len(dump.prims) /\ next' = 1 /\ ready' = ready
      \/ stage = "instances" /\ stage' = "arrays" /\ next - 1 = Len(dump.instances) /\ next' = 1 /\ ready' = ready
      \/ stage = "arrays" /\ stage' = "done" /\ next - 1 = Len(dump.arrays) /\ next' = 1 /\ ready' = ready + 1
  BY <1>2 DEF Counting, Begin, NamesDone, SupersDone, PrimitivesDone, InstancesDone, ArraysDone, LoopDone, Reported
<1>4. UNCHANGED <<Named, Linked, PrimsIn, InstancesIn, ArraysIn>>
  BY <1>1, <1>2, <1>3 DEF Named, Linked, PrimsIn, InstancesIn, ArraysIn, Gone
<1>5. Counting' /\ ~Stopped /\ ~Stopped'
  <2>1. ~Stopped /\ ~Stopped'
    BY <1>3 DEF Stopped
  <2>2. next' = 1 /\ stage' \in Stages /\ dump' \in Dumps
    BY <1>1, <1>2, <1>3 DEF Counting, Stages, Terminal
  <2>3. /\ 1 <= Len(dump.classes) + 1 /\ 1 <= Len(dump.prims) + 1
        /\ 1 <= Len(dump.instances) + 1 /\ 1 <= Len(dump.arrays) + 1
    BY <1>2
  <2> QED
    BY <1>1, <2>1, <2>2, <2>3 DEF Counting
<1>6. ready \in Nat
  BY <1>2, <1>5, ProgressBound DEF IInv
<1>7. ready' = ready + LastReport' - LastReport
  BY <1>3, <1>6 DEF LastReport
<1> QED
  BY <1>1, <1>4, <1>5, <1>7, DoneStep

\* Where prepare crashes or hangs, only the bound of the progress is left.
LEMMA StopSteps ==
  ASSUME IInv, (Begin /\ Total = 0) \/ LayoutHangs
  PROVE  IInv'
<1>1. /\ dump' = dump /\ next' = next /\ ready' = ready /\ stage' \in {"crashed", "hung"}
      /\ stage \in {"start", "instances"}
  BY DEF Begin, LayoutHangs
<1>2. Counting'
  <2>1. stage' \in Stages /\ dump' \in Dumps /\ next' \in Nat \ {0}
    BY <1>1 DEF IInv, Counting, Stages, Terminal
  <2> QED
    BY <1>1, <2>1 DEF Counting
<1>3. Stopped' /\ Total' = Total
  BY <1>1 DEF Stopped, Total
<1> QED
  BY <1>1, <1>2, <1>3 DEF IInv

-------------------------------------------------------------------------------
\* At the start nothing has been gone through.
LEMMA InitInv == Init => IInv
<1> SUFFICES ASSUME Init PROVE IInv
  OBVIOUS
<1>1. /\ dump \in Dumps /\ stage = "start" /\ next = 1 /\ ready = 0 /\ stringClassId = 0
      /\ DOMAIN classes = {} /\ DOMAIN objects = {}
  BY DEF Init
<1>2. Counting
  BY <1>1 DEF Counting, Stages
<1>3. Named = 0 /\ Linked = 0 /\ PrimsIn = 0 /\ InstancesIn = 0 /\ ArraysIn = 0 /\ LastReport = 0
  BY <1>1 DEF Named, Linked, PrimsIn, InstancesIn, ArraysIn, Gone, LastReport
<1>4. ClassesIndexed /\ ObjectsIndexed /\ InstancesDecoded
  BY <1>1, <1>3, IdsGrow DEF ClassesIndexed, ObjectsIndexed, InstancesDecoded
<1>5. StringClassKnown
  BY <1>1, <1>3 DEF StringClassKnown
<1>6. Progress
  <2>1. Cardinality(Linkable(0)) = 0
    BY LinkableCount
  <2> QED
    BY <1>1, <1>3, <2>1 DEF Progress
<1> QED
  BY <1>2, <1>4, <1>5, <1>6, ProgressBound DEF IInv

\* Every step keeps the invariant.
LEMMA StepInv == IInv /\ [Next]_vars => IInv'
<1> SUFFICES ASSUME IInv, [Next]_vars PROVE IInv'
  OBVIOUS
<1>1. CASE Begin
  BY <1>1, LoopSteps, StopSteps
<1>2. CASE NamesDone \/ SupersDone \/ PrimitivesDone \/ InstancesDone \/ ArraysDone
  BY <1>2, LoopSteps
<1>3. CASE NameClass
  BY <1>3, NameClassStep
<1>4. CASE LinkSuper
  BY <1>4, LinkSuperStep
<1>5. CASE AddPrimitivesArray
  BY <1>5, AddPrimitivesArrayStep
<1>6. CASE AddInstance
  BY <1>6, AddInstanceStep
<1>7. CASE LayoutHangs
  BY <1>7, StopSteps
<1>8. CASE AddObjectsArray
  BY <1>8, AddObjectsArrayStep
<1>9. CASE UNCHANGED vars
  <2>1. /\ UNCHANGED <<dump, stage, next, ready, stringClassId, superOf, classes, objects>>
    BY <1>9 DEF vars
  <2>2. Counting' /\ (Stopped' <=> Stopped) /\ Total' = Total
    BY <2>1 DEF IInv, Counting, Stopped, Total
  <2>3. CASE Stopped
    BY <2>1, <2>2, <2>3 DEF IInv
  <2>4. CASE ~Stopped
    <3>1. UNCHANGED <<Named, Linked, PrimsIn, InstancesIn, ArraysIn, LastReport>>
      BY <2>1 DEF Named, Linked, PrimsIn, InstancesIn, ArraysIn, Gone, LastReport
    <3>2. ready' = ready + LastReport' - LastReport
      <4>1. ready \in Nat /\ LastReport \in Nat
        BY <2>4, ProgressBound DEF IInv, LastReport
      <4> QED
        BY <2>1, <3>1, <4>1
    <3> QED
      BY <2>1, <2>2, <2>4, <3>1, <3>2, DoneStep
  <2> QED
    BY <2>3, <2>4
<1>10. CASE Ended
  BY <1>9, <1>10 DEF Ended
<1> QED
  BY <1>1, <1>2, <1>3, <1>4, <1>5, <1>6, <1>7, <1>8, <1>9, <1>10 DEF Next

\* What is told from the dump and the numbers holds throughout.
THEOREM Invariance == Spec => []IInv
BY InitInv, StepInv, PTL DEF Spec

\* Prepare puts every object and class into the index by its id, the first of each.
THEOREM IndexCorrect == Spec => []IndexKeepsFirst
<1>1. IInv => IndexKeepsFirst
  <2> SUFFICES ASSUME IInv, stage = "done" PROVE IndexKeepsFirst
    BY DEF IndexKeepsFirst
  <2>1. /\ dump \in Dumps /\ ClassesIndexed /\ ObjectsIndexed
        /\ Named = Len(dump.classes) /\ PrimsIn = Len(dump.prims)
        /\ InstancesIn = Len(dump.instances) /\ ArraysIn = Len(dump.arrays)
    BY DEF IInv, Counting, Stopped, Named, PrimsIn, InstancesIn, ArraysIn, Gone
  <2>2. DOMAIN objects = Ids(dump.prims) \cup Ids(dump.instances) \cup Ids(dump.arrays)
    BY <2>1, IdsGrow DEF ObjectsIndexed
  <2>3. ASSUME NEW id \in DOMAIN objects
        PROVE  LET FirstIn(seq) == /\ seq[objects[id].at].id = id
                                   /\ \A k \in 1..(objects[id].at - 1) : seq[k].id # id
               IN CASE objects[id].kind = "primitives" -> FirstIn(dump.prims)
                    [] objects[id].kind \in {"string", "object"} ->
                         FirstIn(dump.instances) /\ id \notin Ids(dump.prims)
                    [] objects[id].kind = "objects" ->
                         /\ FirstIn(dump.arrays)
                         /\ id \notin Ids(dump.prims) \cup Ids(dump.instances)
    BY <2>1 DEF ObjectsIndexed, RightEntry, IsFirst
  <2>4. DOMAIN classes = Ids(dump.classes)
    BY <2>1, IdsGrow DEF ClassesIndexed
  <2>5. \A id \in DOMAIN classes : classes[id] = FirstClass(id)
    BY <2>1, FirstClassIs DEF ClassesIndexed
  <2> QED
    BY <2>2, <2>3, <2>4, <2>5 DEF IndexKeepsFirst
<1> QED
  BY <1>1, Invariance, PTL

\* The instances of the class named java.lang.String, and they alone, are decoded, each from
\* the char array that its value refers to.
THEOREM StringsCorrect == Spec => []StringsDecoded
<1>1. IInv => StringsDecoded
  <2> SUFFICES ASSUME IInv, stage = "done",
                      NEW id \in DOMAIN objects, objects[id].kind \in {"string", "object"}
               PROVE  LET item == objects[id]
                          o == dump.instances[item.at]
                      IN /\ (item.kind = "string") =
                              IF \E c \in Range(dump.classes) : ClassName(c) = StringName
                              THEN \E k \in Indexes(dump.classes) :
                                     /\ dump.classes[k].id = o.cls
                                     /\ ClassName(dump.classes[k]) = StringName
                                     /\ \A j \in (k + 1)..Len(dump.classes) :
                                          ClassName(dump.classes[j]) # StringName
                              ELSE o.cls = 0
                         /\ item.kind = "string" =>
                              item.text =
                                IF /\ KnownClass(o.cls)
                                   /\ HasText(Layout(FirstClass(o.cls)))
                                   /\ o.value \in Ids(dump.prims)
                                   /\ dump.prims[objects[o.value].at].type = "char"
                                THEN objects[o.value].at ELSE 0
    BY DEF StringsDecoded
  <2> DEFINE item == objects[id]
  <2> DEFINE o == dump.instances[item.at]
  <2> DEFINE n == Len(dump.classes)
  <2>1. /\ dump \in Dumps /\ StringClassKnown /\ InstancesDecoded /\ Named = n /\ n \in Nat
    BY Lengths DEF IInv, Counting, Stopped, Named, Gone
  <2>2. /\ item.kind = "string" <=> o.cls = stringClassId
        /\ item.kind = "string" => item.text = TextFrom(o)
    BY <2>1 DEF InstancesDecoded, Decoded
  <2>3. (\E c \in Range(dump.classes) : ClassName(c) = StringName) <=> \E k \in 1..n : IsStringClass(k)
    <3>1. dump.classes \in Seq([id : Nat, super : Nat, fields : Seq(Field)])
      BY <2>1, DumpsAssumption
    <3>2. DOMAIN dump.classes = 1..n
      BY <3>1
    <3> QED
      BY <3>2 DEF Range, IsStringClass
  <2> DEFINE LastString(k) == IsStringClass(k) /\ \A j \in (k + 1)..n : ~IsStringClass(j)
  <2>4. \A j \in 1..n, k \in 1..n : LastString(j) /\ LastString(k) => j = k
    <3>1. ASSUME NEW j \in 1..n, NEW k \in 1..n, LastString(j), LastString(k) PROVE ~(j < k)
      BY <2>1, <3>1
    <3> QED
      BY <2>1, <3>1
  <2>5. CASE \E k \in 1..n : IsStringClass(k)
    <3>1. PICK k \in 1..n : LastString(k) /\ stringClassId = dump.classes[k].id
      BY <2>1, <2>5 DEF StringClassKnown
    <3>2. item.kind = "string" <=> \E m \in 1..n : dump.classes[m].id = o.cls /\ LastString(m)
      <4> HIDE DEF LastString, item, o, n
      <4> QED
        BY <2>2, <2>4, <3>1
    <3> QED
      BY <2>2, <2>3, <2>5, <3>2 DEF Indexes, IsStringClass, TextFrom
  <2>6. CASE ~\E k \in 1..n : IsStringClass(k)
    <3>1. stringClassId = 0
      BY <2>1, <2>6 DEF StringClassKnown
    <3> QED
      BY <2>2, <2>3, <2>6, <3>1 DEF TextFrom
  <2> QED
    BY <2>5, <2>6
<1> QED
  BY <1>1, Invariance, PTL

\* The reports of prepare end at the total and one less the classes without a super class.
THEOREM ProgressCorrect == Spec => []ProgressAccounts
<1>1. IInv => ProgressAccounts
  BY ProgressBound DEF IInv, ProgressAccounts, Stopped
<1> QED
  BY <1>1, Invariance, PTL
-------------------------------------------------------------------------------
(* Fields, chains of super classes and what set_class makes of them. *)

\* Every type has a size.
LEMMA TypeSizes == \A t \in FieldTypes : TypeSize(t) \in Nat
BY IdSizeAssumption DEF FieldTypes, TypeSize

\* SizeOf adds field by field.
LEMMA SizeOfAdds ==
  ASSUME NEW fields \in Seq(Field)
  PROVE  \E size \in [0..Len(fields) -> Nat] :
           /\ SizeOf(fields) = size[Len(fields)]
           /\ size[0] = 0
           /\ \A n \in 1..Len(fields) : size[n] = size[n - 1] + TypeSize(fields[n].type)
<1> DEFINE N == Len(fields)
<1> DEFINE step == [p \in (1..N) \X Nat |-> p[2] + TypeSize(fields[p[1]].type)]
<1>1. N \in Nat /\ \A n \in 1..N : TypeSize(fields[n].type) \in Nat
  <2>1. N \in Nat /\ \A n \in 1..N : fields[n] \in Field
    OBVIOUS
  <2>2. \A f \in Field : f.type \in FieldTypes
    BY DEF Field
  <2> QED
    BY <2>1, <2>2, TypeSizes
<1>2. step \in [(1..N) \X Nat -> Nat]
  BY <1>1
<1>3. PICK f \in [0..N -> Nat] : f[0] = 0 /\ \A n \in 1..N : f[n] = step[<<n, f[n - 1]>>]
  <2> HIDE DEF step, N
  <2>1. Defines(N, Nat, 0, step)
    BY <1>1, <1>2, RecursionExists
  <2> QED
    BY <2>1 DEF Defines
<1>4. ASSUME NEW n \in 1..N PROVE f[n] = f[n - 1] + TypeSize(fields[n].type)
  <2>0. n - 1 \in 0..N
    BY <1>1
  <2>1. f[n - 1] \in Nat /\ <<n, f[n - 1]>> \in (1..N) \X Nat
    BY <2>0
  <2>2. step[<<n, f[n - 1]>>] = f[n - 1] + TypeSize(fields[n].type)
    BY <2>1
  <2> QED
    BY <1>3, <2>2
<1>5. f = [n \in 0..N |-> IF n = 0 THEN 0 ELSE f[n - 1] + TypeSize(fields[n].type)]
  <2>1. \A n \in 0..N : n # 0 => n \in 1..N
    BY <1>1
  <2> HIDE DEF N, step
  <2> QED
    BY <1>3, <1>4, <2>1
<1> DEFINE size == CHOOSE size : size = [n \in 0..N |-> IF n = 0 THEN 0 ELSE size[n - 1] + TypeSize(fields[n].type)]
<1>6. size = [n \in 0..N |-> IF n = 0 THEN 0 ELSE size[n - 1] + TypeSize(fields[n].type)]
  <2> HIDE DEF N
  <2> QED
    BY <1>5
<1>7. SizeOf(fields) = size[N]
  BY DEF SizeOf
<1> HIDE DEF size, N
<1>8. size[0] = 0 /\ \A n \in 1..N : n \in 0..N /\ n - 1 \in 0..N /\ size[n] = size[n - 1] + TypeSize(fields[n].type)
  BY <1>1, <1>6
<1>9. \A n \in 0..N : size[n] \in Nat
  <2> DEFINE S == {n \in 0..N : size[n] \in Nat}
  <2>1. 0 \in S
    BY <1>1, <1>8
  <2>2. ASSUME NEW n \in 0..(N - 1), n \in S PROVE n + 1 \in S
    <3>1. n + 1 \in 1..N /\ n + 1 \in 0..N /\ (n + 1) - 1 = n
      BY <1>1
    <3> QED
      BY <1>1, <1>8, <2>2, <3>1
  <2> HIDE DEF S
  <2>3. \A n \in 0..N : n \in S
    BY <1>1, <2>1, <2>2, InductionTo
  <2> QED
    BY <2>3 DEF S
<1>10. size \in [0..N -> Nat]
  BY <1>6, <1>9
<1> QED
  BY <1>7, <1>8, <1>10 DEF N

\* Fields that lie one behind the other are as long as where the last one ends.
LEMMA TiledSize ==
  ASSUME NEW fields \in Seq(Field), Tiled(fields)
  PROVE  /\ SizeOf(fields) \in Nat
         /\ Len(fields) = 0 => SizeOf(fields) = 0
         /\ Len(fields) # 0 =>
              SizeOf(fields) = fields[Len(fields)].offset + TypeSize(fields[Len(fields)].type)
<1>1. PICK size \in [0..Len(fields) -> Nat] :
        /\ SizeOf(fields) = size[Len(fields)]
        /\ size[0] = 0
        /\ \A n \in 1..Len(fields) : size[n] = size[n - 1] + TypeSize(fields[n].type)
  BY SizeOfAdds
<1>2. PICK N \in Nat : N = Len(fields) /\ DOMAIN fields = 1..N
  BY LenProperties
<1> DEFINE End(n) == fields[n].offset + TypeSize(fields[n].type)
<1> DEFINE S == {n \in 0..N : size[n] = IF n = 0 THEN 0 ELSE End(n)}
<1>3. \A n \in 1..N : fields[n].offset = IF n = 1 THEN 0 ELSE End(n - 1)
  BY <1>2 DEF Tiled
<1>4. 0 \in S
  BY <1>1
<1>5. ASSUME NEW n \in 0..(N - 1), n \in S PROVE n + 1 \in S
  <2>1. n + 1 \in 1..N /\ (n + 1) - 1 = n /\ n + 1 \in 0..N /\ n + 1 # 0 /\ (n + 1 = 1 <=> n = 0)
    BY <1>2
  <2>2. size[n + 1] = size[n] + TypeSize(fields[n + 1].type)
    BY <1>1, <1>2, <2>1
  <2>3. fields[n + 1].offset = size[n]
    <3> HIDE DEF End
    <3> QED
      BY <1>3, <1>5, <2>1
  <2> QED
    BY <2>1, <2>2, <2>3
<1>6. N \in S
  <2> HIDE DEF S
  <2>1. \A n \in 0..N : n \in S
    BY <1>2, <1>4, <1>5, InductionTo
  <2> QED
    BY <1>2, <2>1
<1> QED
  BY <1>1, <1>2, <1>6

\* What is known of the fields that set_class has placed.
Placed(sofar) == /\ sofar.fields \in Seq(Field)
                 /\ Tiled(sofar.fields)
                 /\ sofar.offset = SizeOf(sofar.fields)

\* The fields of a class are placed behind those before them.
LEMMA AddTiles ==
  ASSUME NEW sofar, Placed(sofar), NEW fields \in Seq(Field), Tiled(fields)
  PROVE  /\ Placed(AddFields(sofar, fields))
         /\ AddFields(sofar, fields).offset = sofar.offset + SizeOf(fields)
<1> DEFINE moved == [n \in 1..Len(fields) |-> [fields[n] EXCEPT !.offset = @ + sofar.offset]]
<1> DEFINE before == sofar.fields
<1> DEFINE all == before \o moved
<1>1. /\ AddFields(sofar, fields).offset = sofar.offset + SizeOf(fields)
      /\ AddFields(sofar, fields).fields = all
  BY DEF AddFields
<1>2. PICK b \in Nat, m \in Nat : /\ b = Len(before) /\ DOMAIN before = 1..b
                                  /\ m = Len(fields) /\ DOMAIN fields = 1..m
  BY LenProperties DEF Placed
<1>3. before \in Seq(Field) /\ Tiled(before) /\ sofar.offset = SizeOf(before) /\ sofar.offset \in Nat
  BY TiledSize DEF Placed
<1>4. ASSUME NEW n \in 1..m
      PROVE  /\ moved[n] \in Field /\ moved[n].type = fields[n].type
             /\ moved[n].offset = fields[n].offset + sofar.offset
             /\ fields[n].offset \in Nat /\ fields[n].type \in FieldTypes
  <2>1. fields[n] \in Field
    BY <1>2
  <2>2. fields[n].offset \in Nat /\ fields[n].type \in FieldTypes
    BY <2>1 DEF Field
  <2>3. moved[n] = [fields[n] EXCEPT !.offset = @ + sofar.offset]
    BY <1>2
  <2>4. fields[n].offset + sofar.offset \in Nat
    BY <1>3, <2>2
  <2> HIDE DEF moved
  <2> QED
    BY <2>1, <2>2, <2>3, <2>4 DEF Field
<1>5. moved \in Seq(Field) /\ Len(moved) = m
  <2>1. moved \in [1..m -> Field]
    BY <1>2, <1>4
  <2> HIDE DEF moved
  <2> QED
    BY <2>1
<1>6. /\ all \in Seq(Field) /\ Len(all) = b + m
      /\ \A n \in 1..(b + m) : all[n] = IF n <= b THEN before[n] ELSE moved[n - b]
  <2> HIDE DEF moved, before
  <2>1. /\ all \in Seq(Field) /\ Len(all) = Len(before) + Len(moved)
        /\ \A n \in 1..(Len(before) + Len(moved)) :
             all[n] = IF n <= Len(before) THEN before[n] ELSE moved[n - Len(before)]
    BY <1>3, <1>5, ConcatProperties
  <2> HIDE DEF all
  <2> QED
    BY <1>2, <1>5, <2>1
<1>7. DOMAIN all = 1..(b + m)
  <2> HIDE DEF all
  <2> QED
    BY <1>6, LenProperties
<1>8. ASSUME NEW n \in 1..(b + m)
      PROVE  all[n].offset = IF n = 1 THEN 0 ELSE all[n - 1].offset + TypeSize(all[n - 1].type)
  <2> HIDE DEF all, moved, before
  <2>1. CASE n <= b
    <3>1. all[n] = before[n] /\ n \in 1..b /\ (n # 1 => all[n - 1] = before[n - 1])
      BY <1>2, <1>6, <2>1
    <3> QED
      BY <1>2, <1>3, <3>1 DEF Tiled
  <2>2. CASE n = b + 1
    <3>1. all[n] = moved[1] /\ 1 \in 1..m /\ 1 \in 1..Len(fields)
      BY <1>2, <1>6, <2>2
    <3>2. all[n].offset = SizeOf(before)
      BY <1>2, <1>3, <1>4, <3>1 DEF Tiled
    <3>3. CASE b = 0
      <4>1. Len(before) = 0 /\ n = 1
        BY <1>2, <2>2, <3>3
      <4>2. SizeOf(before) = 0
        BY <1>3, <4>1, TiledSize
      <4> QED
        BY <3>2, <4>1, <4>2
    <3>4. CASE b # 0
      <4>1. n # 1 /\ n - 1 = b /\ all[b] = before[b]
        BY <1>2, <1>6, <2>2, <3>4
      <4> QED
        BY <1>2, <1>3, <3>2, <3>4, <4>1, TiledSize
    <3> QED
      BY <3>3, <3>4
  <2>3. CASE n > b + 1
    <3> n - b \in 2..m
      BY <1>2, <2>3
    <3>1. PICK i \in 2..m : i = n - b
      OBVIOUS
    <3>2. n # 1 /\ ~(n <= b) /\ ~(n - 1 <= b) /\ (n - 1) - b = i - 1 /\ n - 1 \in 1..(b + m) /\ i - 1 \in 1..m
      BY <1>2, <2>3, <3>1
    <3>3. all[n] = moved[i] /\ all[n - 1] = moved[i - 1]
      BY <1>6, <3>1, <3>2
    <3>4. fields[i].offset = fields[i - 1].offset + TypeSize(fields[i - 1].type)
      <4>1. i \in DOMAIN fields /\ i # 1
        BY <1>2, <3>1
      <4> QED
        BY <4>1 DEF Tiled
    <3>5. /\ moved[i].offset = fields[i].offset + sofar.offset
          /\ moved[i - 1].offset = fields[i - 1].offset + sofar.offset
          /\ moved[i - 1].type = fields[i - 1].type
          /\ fields[i - 1].offset \in Nat /\ TypeSize(fields[i - 1].type) \in Nat
      BY <1>4, <3>1, <3>2, TypeSizes
    <3> QED
      BY <1>3, <3>2, <3>3, <3>4, <3>5
  <2> QED
    BY <1>2, <2>1, <2>2, <2>3
<1>9. Tiled(all)
  <2> HIDE DEF all
  <2> QED
    BY <1>7, <1>8 DEF Tiled
<1>10. SizeOf(all) = sofar.offset + SizeOf(fields)
  <2> HIDE DEF all, moved, before
  <2>1. CASE m = 0
    <3>1. SizeOf(fields) = 0
      BY <1>2, <2>1, TiledSize
    <3>2. Len(all) = b /\ (b # 0 => all[b] = before[b])
      <4>1. b + m = b /\ (b # 0 => b \in 1..(b + m) /\ b <= b)
        BY <1>2, <2>1
      <4> QED
        BY <1>6, <4>1
    <3> QED
      BY <1>2, <1>3, <1>6, <1>9, <3>1, <3>2, TiledSize
  <2>2. CASE m # 0
    <3>1. all[b + m] = moved[m] /\ Len(all) # 0 /\ m \in 1..m
      <4>1. /\ b + m \in 1..(b + m) /\ ~(b + m <= b) /\ (b + m) - b = m
            /\ b + m # 0 /\ m \in 1..m
        BY <1>2, <2>2
      <4> QED
        BY <1>6, <4>1
    <3>2. SizeOf(all) = moved[m].offset + TypeSize(moved[m].type)
      BY <1>6, <1>9, <3>1, TiledSize
    <3>3. SizeOf(fields) = fields[m].offset + TypeSize(fields[m].type)
      BY <1>2, <2>2, TiledSize
    <3>4. TypeSize(fields[m].type) \in Nat /\ fields[m].offset \in Nat
      BY <1>4, <3>1, TypeSizes
    <3> QED
      BY <1>3, <1>4, <3>1, <3>2, <3>3, <3>4
  <2> QED
    BY <2>1, <2>2
<1> HIDE DEF all
<1> QED
  BY <1>1, <1>6, <1>9, <1>10 DEF Placed


\* How Chain is built, one class at a time.
BuiltUp(up, supers, k, N) ==
  /\ up \in [0..N -> {s \in Seq(1..N) : s # <<>>}]
  /\ Chain(supers, k) = up[N]
  /\ up[0] = <<k>>
  /\ \A n \in 1..N : up[n] = IF supers[Last(up[n - 1])] = 0 THEN up[n - 1]
                             ELSE Append(up[n - 1], supers[Last(up[n - 1])])

\* Chain is built so.
LEMMA ChainUp ==
  ASSUME NEW N \in Nat, NEW supers \in Seq(0..N), Len(supers) = N, NEW k \in 1..N
  PROVE  \E up : BuiltUp(up, supers, k, N)
<1> DEFINE A == {s \in Seq(1..N) : s # <<>>}
<1> DEFINE Longer(s) == IF supers[Last(s)] = 0 THEN s ELSE Append(s, supers[Last(s)])
<1> DEFINE step == [p \in (1..N) \X A |-> Longer(p[2])]
<1>1. \A s \in A : Longer(s) \in A
  <2> SUFFICES ASSUME NEW s \in A PROVE Longer(s) \in A
    OBVIOUS
  <2>1. s \in Seq(1..N) /\ s # <<>>
    OBVIOUS
  <2>2. Last(s) \in 1..N
    <3>1. Len(s) \in 1..Len(s)
      BY <2>1, LenProperties, EmptySeq
    <3> QED
      BY <2>1, <3>1 DEF Last
  <2>3. supers[Last(s)] \in 0..N
    BY <2>2
  <2>4. CASE supers[Last(s)] = 0
    BY <2>4
  <2>5. CASE supers[Last(s)] # 0
    <3>1. supers[Last(s)] \in 1..N
      BY <2>3, <2>5
    <3>2. Append(s, supers[Last(s)]) \in Seq(1..N) /\ Append(s, supers[Last(s)]) # <<>>
      <4>1. /\ Append(s, supers[Last(s)]) \in Seq(1..N)
            /\ Len(Append(s, supers[Last(s)])) = Len(s) + 1 /\ Len(s) \in Nat
        BY <2>1, <3>1, AppendProperties, LenProperties
      <4>2. Append(s, supers[Last(s)]) # <<>>
        <5> SUFFICES ASSUME NEW t, t = Append(s, supers[Last(s)]) PROVE t # <<>>
          OBVIOUS
        <5>1. Len(t) # 0
          BY <4>1
        <5> QED
          BY <5>1
      <4> QED
        BY <4>1, <4>2
    <3> QED
      BY <2>5, <3>2
  <2> QED
    BY <2>4, <2>5
<1>2. step \in [(1..N) \X A -> A]
  <2> HIDE DEF A, Longer
  <2> QED
    BY <1>1
<1>3. <<k>> \in A
  OBVIOUS
<1>4. PICK f \in [0..N -> A] : f[0] = <<k>> /\ \A n \in 1..N : f[n] = step[<<n, f[n - 1]>>]
  <2> HIDE DEF A, step
  <2>1. Defines(N, A, <<k>>, step)
    BY <1>2, <1>3, RecursionExists
  <2> QED
    BY <2>1 DEF Defines
<1>5. ASSUME NEW n \in 1..N PROVE f[n] = Longer(f[n - 1])
  <2> HIDE DEF A, Longer
  <2>1. n - 1 \in 0..N
    OBVIOUS
  <2>2. f[n - 1] \in A /\ <<n, f[n - 1]>> \in (1..N) \X A
    BY <2>1
  <2>3. step[<<n, f[n - 1]>>] = Longer(f[n - 1])
    BY <2>2
  <2> QED
    BY <1>4, <2>3
<1>6. f = [n \in 0..N |-> IF n = 0 THEN <<k>> ELSE Longer(f[n - 1])]
  <2>1. \A n \in 0..N : n # 0 => n \in 1..N
    OBVIOUS
  <2> HIDE DEF A, step, Longer
  <2> QED
    BY <1>4, <1>5, <2>1
<1> DEFINE up == CHOOSE up : up = [n \in 0..N |-> IF n = 0 THEN <<k>> ELSE Longer(up[n - 1])]
<1>7. up = [n \in 0..N |-> IF n = 0 THEN <<k>> ELSE Longer(up[n - 1])]
  <2> HIDE DEF Longer
  <2> QED
    BY <1>6
<1>8. Chain(supers, k) = up[N]
  BY DEF Chain
<1> HIDE DEF up, Longer, A
<1>9. up[0] = <<k>> /\ \A n \in 1..N : n \in 0..N /\ n - 1 \in 0..N /\ up[n] = Longer(up[n - 1])
  BY <1>7
<1>10. \A n \in 0..N : up[n] \in A
  <2> DEFINE S == {n \in 0..N : up[n] \in A}
  <2>1. 0 \in S
    <3>1. 0 \in 0..N /\ up[0] \in A
      BY <1>3, <1>9
    <3> QED
      BY <3>1
  <2>2. ASSUME NEW n \in 0..(N - 1), n \in S PROVE n + 1 \in S
    <3>1. n + 1 \in 1..N /\ n + 1 \in 0..N /\ (n + 1) - 1 = n
      OBVIOUS
    <3>2. up[n + 1] = Longer(up[n])
      BY <1>9, <3>1
    <3> QED
      BY <1>1, <2>2, <3>1, <3>2
  <2> HIDE DEF S
  <2>3. \A n \in 0..N : n \in S
    BY <2>1, <2>2, InductionTo
  <2> QED
    BY <2>3 DEF S
<1>11. up \in [0..N -> A]
  BY <1>7, <1>10
<1> QED
  BY <1>8, <1>9, <1>11 DEF A, Longer, BuiltUp


\* A chain of classes, nearest first, that ends with one without a super class unless
\* there are more of them than classes.
IsChain(chain, supers, k, N) ==
  /\ chain \in Seq(1..N) /\ Len(chain) \in 1..(N + 1)
  /\ chain[1] = k
  /\ \A j \in 1..(Len(chain) - 1) : supers[chain[j]] # 0 /\ chain[j + 1] = supers[chain[j]]

\* Chain is such a chain.
LEMMA ChainIs ==
  ASSUME NEW N \in Nat, NEW supers \in Seq(0..N), Len(supers) = N, NEW k \in 1..N
  PROVE  /\ IsChain(Chain(supers, k), supers, k, N)
         /\ Len(Chain(supers, k)) <= N => supers[Last(Chain(supers, k))] = 0
<1>0. PICK up : BuiltUp(up, supers, k, N)
  BY ChainUp
<1>1. /\ Chain(supers, k) = up[N]
      /\ up[0] = <<k>>
      /\ \A n \in 1..N : up[n] = IF supers[Last(up[n - 1])] = 0 THEN up[n - 1]
                                 ELSE Append(up[n - 1], supers[Last(up[n - 1])])
  BY <1>0 DEF BuiltUp
<1> DEFINE Good(n) == /\ IsChain(up[n], supers, k, N)
                      /\ Len(up[n]) <= n + 1
                      /\ supers[Last(up[n])] = 0 \/ Len(up[n]) = n + 1
<1> DEFINE S == {n \in 0..N : Good(n)}
<1>2. 0 \in S
  <2>1. Good(0)
    BY <1>1 DEF IsChain, Last
  <2> QED
    BY <2>1
<1>3. ASSUME NEW n \in 0..(N - 1), n \in S PROVE n + 1 \in S
  <2>1. n + 1 \in 1..N /\ n + 1 \in 0..N /\ (n + 1) - 1 = n /\ n \in 0..N /\ n \in Nat
    OBVIOUS
  <2>2. PICK s, t, x : s = up[n] /\ t = up[n + 1] /\ x = supers[Last(s)]
    OBVIOUS
  <2>3. t = IF x = 0 THEN s ELSE Append(s, x)
    BY <1>1, <2>1, <2>2
  <2>4. IsChain(s, supers, k, N) /\ Len(s) <= n + 1 /\ (x = 0 \/ Len(s) = n + 1)
    BY <1>3, <2>2
  <2>5. s \in Seq(1..N) /\ Len(s) \in Nat /\ Len(s) > 0 /\ Last(s) = s[Len(s)] /\ s[Len(s)] \in 1..N
    <3>1. s \in Seq(1..N) /\ Len(s) \in Nat /\ Len(s) \in 1..Len(s)
      BY <2>4 DEF IsChain
    <3> QED
      BY <3>1, ElementOfSeq DEF Last
  <2>6. x \in 0..N
    <3>1. Last(s) \in 1..Len(supers)
      BY <2>5
    <3> QED
      BY <2>2, <3>1, ElementOfSeq
  <2>7. IsChain(t, supers, k, N) /\ Len(t) <= n + 2 /\ (supers[Last(t)] = 0 \/ Len(t) = n + 2)
    <3>1. CASE x = 0
      <4>1. t = s /\ supers[Last(t)] = 0
        BY <2>2, <2>3, <3>1
      <4>2. Len(t) <= n + 2
        BY <2>1, <2>4, <2>5, <4>1
      <4> QED
        BY <2>4, <4>1, <4>2
    <3>2. CASE x # 0
      <4>1. x \in 1..N /\ t = Append(s, x) /\ Len(s) = n + 1
        BY <2>3, <2>4, <2>6, <3>2
      <4>2. /\ t \in Seq(1..N) /\ Len(t) = Len(s) + 1 /\ t[Len(s) + 1] = x
            /\ \A j \in 1..Len(s) : t[j] = s[j]
        <5>1. x \in 1..N /\ s \in Seq(1..N)
          BY <2>5, <4>1
        <5> QED
          BY <4>1, <5>1, AppendProperties
      <4>3. Len(t) = n + 2 /\ Len(t) \in 1..(N + 1)
        BY <2>1, <4>1, <4>2
      <4>4. t[1] = k
        <5>1. 1 \in 1..Len(s) /\ s[1] = k
          BY <2>4, <2>5 DEF IsChain
        <5> QED
          BY <4>2, <5>1
      <4>5. ASSUME NEW j \in 1..(Len(t) - 1) PROVE supers[t[j]] # 0 /\ t[j + 1] = supers[t[j]]
        <5>1. j \in 1..Len(s) /\ t[j] = s[j]
          BY <2>5, <4>2
        <5>2. CASE j = Len(s)
          BY <2>2, <2>5, <3>2, <4>2, <5>1, <5>2
        <5>3. CASE j # Len(s)
          <6>1. j \in 1..(Len(s) - 1) /\ j + 1 \in 1..Len(s)
            BY <2>5, <5>1, <5>3
          <6>2. t[j + 1] = s[j + 1]
            BY <4>2, <6>1
          <6> QED
            BY <2>4, <5>1, <6>1, <6>2 DEF IsChain
        <5> QED
          BY <5>2, <5>3
      <4> QED
        BY <4>2, <4>3, <4>4, <4>5 DEF IsChain
    <3> QED
      BY <3>1, <3>2
  <2>8. Good(n + 1)
    <3>1. (n + 1) + 1 = n + 2
      BY <2>1
    <3> QED
      BY <2>2, <2>7, <3>1
  <2> HIDE DEF Good
  <2> QED
    BY <2>1, <2>8
<1>4. Good(N)
  <2> HIDE DEF S, Good
  <2>1. \A n \in 0..N : n \in S
    BY <1>2, <1>3, InductionTo
  <2> QED
    BY <2>1 DEF S
<1>5. Len(up[N]) <= N => Len(up[N]) # N + 1
  BY <1>4 DEF IsChain
<1> QED
  BY <1>1, <1>4, <1>5

\* A chain that ends comes to each of its classes once.
LEMMA ChainOnce ==
  ASSUME NEW N \in Nat, NEW supers, NEW k, NEW c, IsChain(c, supers, k, N), supers[c[Len(c)]] = 0,
         NEW i \in 1..Len(c), NEW j \in 1..Len(c), i < j
  PROVE  c[i] # c[j]
<1> SUFFICES ASSUME c[i] = c[j] PROVE FALSE
  OBVIOUS
<1>1. PICK L \in Nat : L = Len(c) /\ L >= 1
  BY DEF IsChain
<1>2. PICK D \in Nat : D = L - j /\ i \in 1..L /\ j \in 1..L
  <2>1. L - j \in Nat /\ i \in 1..L /\ j \in 1..L
    BY <1>1
  <2> QED
    BY <2>1
<1> DEFINE S == {d \in 0..D : c[i + d] = c[j + d]}
<1>3. 0 \in S
  BY <1>2
<1>4. ASSUME NEW d \in 0..(D - 1), d \in S PROVE d + 1 \in S
  <2>1. /\ i + d \in 1..(L - 1) /\ j + d \in 1..(L - 1) /\ d + 1 \in 0..D
        /\ (i + d) + 1 = i + (d + 1) /\ (j + d) + 1 = j + (d + 1)
    BY <1>1, <1>2
  <2>2. c[(i + d) + 1] = supers[c[i + d]] /\ c[(j + d) + 1] = supers[c[j + d]]
    BY <1>1, <2>1 DEF IsChain
  <2> QED
    BY <1>4, <2>1, <2>2
<1>5. D \in S
  <2> HIDE DEF S
  <2>1. \A d \in 0..D : d \in S
    BY <1>2, <1>3, <1>4, InductionTo
  <2> QED
    BY <1>2, <2>1
<1>6. i + D \in 1..(L - 1) /\ j + D = L
  BY <1>1, <1>2
<1>7. c[i + D] = c[L] /\ supers[c[i + D]] # 0
  BY <1>1, <1>5, <1>6 DEF IsChain
<1> QED
  BY <1>1, <1>7


\* Classes with the super classes of theirs that are known.
With(supers, set) == set \cup {supers[c] : c \in {x \in set : supers[x] # 0}}

\* How Ancestors is reached, one generation at a time.
ReachedUp(reach, supers, k, N) ==
  /\ reach \in [0..N -> SUBSET (1..N)]
  /\ Ancestors(k) = reach[N]
  /\ reach[0] = {k}
  /\ \A n \in 1..N : reach[n] = With(supers, reach[n - 1])

\* supers has the super class of every class that has a known one.
Supers(supers, N) ==
  /\ supers \in Seq(0..N) /\ Len(supers) = N /\ N = Len(dump.classes)
  /\ \A c \in 1..N : /\ HasSuper(c) <=> supers[c] # 0
                     /\ HasSuper(c) => supers[c] = FirstClass(dump.classes[c].super)

\* Ancestors is reached so.
LEMMA AncestorsReached ==
  ASSUME NEW N \in Nat, NEW supers, Supers(supers, N), NEW k \in 1..N
  PROVE  \E reach : ReachedUp(reach, supers, k, N)
<1> DEFINE A == SUBSET (1..N)
<1> DEFINE Wider(set) == set \cup {e[2] : e \in {x \in SuperRelation : x[1] \in set}}
<1> DEFINE step == [p \in (1..N) \X A |-> Wider(p[2])]
<1>0. /\ N = Len(dump.classes) /\ supers \in Seq(0..N) /\ Len(supers) = N
      /\ \A c \in 1..N : supers[c] \in 0..N
  <2>1. N = Len(dump.classes) /\ supers \in Seq(0..N) /\ Len(supers) = N
    BY DEF Supers
  <2> QED
    BY <2>1, ElementOfSeq
<1>1. \A set \in A : Wider(set) = With(supers, set) /\ Wider(set) \in A
  <2> SUFFICES ASSUME NEW set \in A PROVE Wider(set) = With(supers, set) /\ Wider(set) \in A
    OBVIOUS
  <2>1. \A e : e \in {x \in SuperRelation : x[1] \in set} <=>
               \E c \in set : supers[c] # 0 /\ e = <<c, supers[c]>>
    <3>1. \A e : e \in SuperRelation <=> \E c \in 1..N : HasSuper(c) /\ e = <<c, FirstClass(dump.classes[c].super)>>
      BY <1>0 DEF SuperRelation, Indexes
    <3>2. \A e : e \in SuperRelation <=> \E c \in 1..N : supers[c] # 0 /\ e = <<c, supers[c]>>
      BY <3>1 DEF Supers
    <3> QED
      BY <3>2
  <2>2. \A y : y \in Wider(set) <=> y \in set \/ \E c \in set : supers[c] # 0 /\ y = supers[c]
    <3> DEFINE Up == {x \in SuperRelation : x[1] \in set}
    <3>1. \A y : y \in Wider(set) <=> y \in set \/ \E e \in Up : y = e[2]
      OBVIOUS
    <3> HIDE DEF Up, Wider
    <3>2. \A e : e \in Up <=> \E c \in set : supers[c] # 0 /\ e = <<c, supers[c]>>
      BY <2>1 DEF Up
    <3>3. ASSUME NEW y, NEW e \in Up, y = e[2] PROVE \E c \in set : supers[c] # 0 /\ y = supers[c]
      BY <3>2, <3>3
    <3>4. ASSUME NEW y, NEW c \in set, supers[c] # 0, y = supers[c] PROVE \E e \in Up : y = e[2]
      <4>1. <<c, supers[c]>> \in Up
        BY <3>2, <3>4
      <4> QED
        BY <3>4, <4>1
    <3> QED
      BY <3>1, <3>3, <3>4
  <2>3. \A y : y \in With(supers, set) <=> y \in set \/ \E c \in set : supers[c] # 0 /\ y = supers[c]
    BY DEF With
  <2> HIDE DEF Wider
  <2>4. Wider(set) = With(supers, set)
    BY <2>2, <2>3
  <2>5. ASSUME NEW y \in Wider(set) PROVE y \in 1..N
    <3>1. CASE y \in set
      BY <3>1
    <3>2. CASE \E c \in set : supers[c] # 0 /\ y = supers[c]
      <4>1. PICK c \in set : supers[c] # 0 /\ y = supers[c]
        BY <3>2
      <4>2. c \in 1..N
        OBVIOUS
      <4> QED
        BY <1>0, <4>1, <4>2
    <3> QED
      BY <2>2, <3>1, <3>2
  <2> QED
    BY <2>4, <2>5
<1> HIDE DEF Wider
<1>2. step \in [(1..N) \X A -> A]
  <2> HIDE DEF A
  <2> QED
    BY <1>1
<1>3. {k} \in A
  OBVIOUS
<1>4. PICK f \in [0..N -> A] : f[0] = {k} /\ \A n \in 1..N : f[n] = step[<<n, f[n - 1]>>]
  <2> HIDE DEF A, step
  <2>1. Defines(N, A, {k}, step)
    BY <1>2, <1>3, RecursionExists
  <2> QED
    BY <2>1 DEF Defines
<1>5. ASSUME NEW n \in 1..N PROVE f[n] = Wider(f[n - 1])
  <2> HIDE DEF A
  <2>1. n - 1 \in 0..N
    OBVIOUS
  <2>2. f[n - 1] \in A /\ <<n, f[n - 1]>> \in (1..N) \X A
    BY <2>1
  <2>3. step[<<n, f[n - 1]>>] = Wider(f[n - 1])
    BY <2>2
  <2> QED
    BY <1>4, <2>3
<1>6. f = [n \in 0..N |-> IF n = 0 THEN {k} ELSE Wider(f[n - 1])]
  <2>1. \A n \in 0..N : n # 0 => n \in 1..N
    OBVIOUS
  <2> HIDE DEF A, step
  <2> QED
    BY <1>4, <1>5, <2>1
<1> DEFINE reach == CHOOSE reach : reach = [n \in 0..N |-> IF n = 0 THEN {k} ELSE Wider(reach[n - 1])]
<1>7. reach = [n \in 0..N |-> IF n = 0 THEN {k} ELSE Wider(reach[n - 1])]
  BY <1>6
<1>8. Ancestors(k) = reach[N]
  BY <1>0 DEF Ancestors, Wider
<1> HIDE DEF reach, A
<1>9. reach[0] = {k} /\ \A n \in 1..N : n \in 0..N /\ n - 1 \in 0..N /\ reach[n] = Wider(reach[n - 1])
  <2>1. 0 \in 0..N /\ \A n \in 1..N : n \in 0..N /\ n - 1 \in 0..N /\ n # 0
    OBVIOUS
  <2> QED
    BY <1>7, <2>1
<1>10. \A n \in 0..N : reach[n] \in A
  <2> DEFINE S == {n \in 0..N : reach[n] \in A}
  <2>1. 0 \in S
    <3>1. 0 \in 0..N /\ reach[0] \in A
      BY <1>3, <1>9
    <3> QED
      BY <3>1
  <2>2. ASSUME NEW n \in 0..(N - 1), n \in S PROVE n + 1 \in S
    <3>1. n + 1 \in 1..N /\ n + 1 \in 0..N /\ (n + 1) - 1 = n
      OBVIOUS
    <3>2. reach[n + 1] = Wider(reach[n])
      BY <1>9, <3>1
    <3> QED
      BY <1>1, <2>2, <3>1, <3>2
  <2> HIDE DEF S
  <2>3. \A n \in 0..N : n \in S
    BY <2>1, <2>2, InductionTo
  <2> QED
    BY <2>3 DEF S
<1>11. reach \in [0..N -> A]
  BY <1>7, <1>10
<1>12. ASSUME NEW n \in 1..N PROVE reach[n] = With(supers, reach[n - 1])
  BY <1>1, <1>9, <1>10
<1> QED
  BY <1>8, <1>9, <1>11, <1>12 DEF A, ReachedUp

\* The first m classes of a chain.
FirstOf(c, m) == {c[j] : j \in {i \in 1..Len(c) : i <= m}}

\* A class and what it inherits from are the classes of its chain.
LEMMA AncestorsAre ==
  ASSUME NEW N \in Nat, NEW supers, Supers(supers, N), NEW k \in 1..N,
         NEW c, IsChain(c, supers, k, N), supers[c[Len(c)]] = 0, Len(c) <= N
  PROVE  Ancestors(k) = FirstOf(c, Len(c))
<1>0. PICK L \in 1..N : L = Len(c) /\ c[1] = k
  BY DEF IsChain
<1>1. PICK reach : ReachedUp(reach, supers, k, N)
  BY AncestorsReached
<1>2. \A m, y : y \in FirstOf(c, m) <=> \E j \in 1..L : j <= m /\ y = c[j]
  BY <1>0 DEF FirstOf
<1>3. \A j \in 1..(L - 1) : supers[c[j]] # 0 /\ c[j + 1] = supers[c[j]]
  BY <1>0 DEF IsChain
<1>4. \A m \in Nat : m >= 1 => With(supers, FirstOf(c, m)) = FirstOf(c, m + 1)
  <2> SUFFICES ASSUME NEW m \in Nat, m >= 1, NEW y
               PROVE  y \in With(supers, FirstOf(c, m)) <=> y \in FirstOf(c, m + 1)
    OBVIOUS
  <2>1. y \in With(supers, FirstOf(c, m)) <=>
          \/ \E j \in 1..L : j <= m /\ y = c[j]
          \/ \E j \in 1..L : j <= m /\ supers[c[j]] # 0 /\ y = supers[c[j]]
    BY <1>2 DEF With
  <2>2. ASSUME NEW j \in 1..L, j <= m, supers[c[j]] # 0, y = supers[c[j]]
        PROVE  \E i \in 1..L : i <= m + 1 /\ y = c[i]
    <3>1. j # L
      BY <1>0, <2>2
    <3>2. j \in 1..(L - 1) /\ j + 1 \in 1..L /\ j + 1 <= m + 1
      BY <1>0, <2>2, <3>1
    <3>3. y = c[j + 1]
      BY <1>3, <2>2, <3>2
    <3> QED
      BY <3>2, <3>3
  <2>3. ASSUME NEW j \in 1..L, j <= m + 1, ~(j <= m), y = c[j]
        PROVE  \E i \in 1..L : i <= m /\ supers[c[i]] # 0 /\ y = supers[c[i]]
    <3>1. j - 1 \in 1..(L - 1) /\ j - 1 \in 1..L /\ j - 1 <= m /\ (j - 1) + 1 = j
      BY <1>0, <2>3
    <3>2. supers[c[j - 1]] # 0 /\ y = supers[c[j - 1]]
      BY <1>3, <2>3, <3>1
    <3> QED
      BY <3>1, <3>2
  <2>4. \A j \in 1..L : j <= m => j <= m + 1
    OBVIOUS
  <2>5. y \in FirstOf(c, m + 1) <=> \E j \in 1..L : j <= m + 1 /\ y = c[j]
    BY <1>2
  <2> QED
    BY <2>1, <2>2, <2>3, <2>4, <2>5
<1> DEFINE S == {n \in 0..N : reach[n] = FirstOf(c, n + 1)}
<1>5. 0 \in S
  <2>1. \A y : y \in FirstOf(c, 0 + 1) <=> y = k
    BY <1>0, <1>2
  <2>2. FirstOf(c, 0 + 1) = {k}
    BY <2>1
  <2>3. 0 \in 0..N /\ reach[0] = {k}
    BY <1>1 DEF ReachedUp
  <2> QED
    BY <2>2, <2>3
<1>6. ASSUME NEW n \in 0..(N - 1), n \in S PROVE n + 1 \in S
  <2>1. n + 1 \in 1..N /\ n + 1 \in 0..N /\ (n + 1) - 1 = n /\ n + 1 \in Nat /\ n + 1 >= 1
    OBVIOUS
  <2>2. reach[n + 1] = With(supers, reach[n])
    BY <1>1, <2>1 DEF ReachedUp
  <2>3. With(supers, FirstOf(c, n + 1)) = FirstOf(c, (n + 1) + 1)
    BY <1>4, <2>1
  <2> QED
    BY <1>6, <2>1, <2>2, <2>3
<1>7. reach[N] = FirstOf(c, N + 1)
  <2> HIDE DEF S
  <2>1. \A n \in 0..N : n \in S
    BY <1>5, <1>6, InductionTo
  <2> QED
    BY <2>1 DEF S
<1>8. FirstOf(c, N + 1) = FirstOf(c, L)
  <2>1. \A j \in 1..L : j <= N + 1 /\ j <= L
    OBVIOUS
  <2>2. \A y : y \in FirstOf(c, N + 1) <=> y \in FirstOf(c, L)
    BY <1>2, <2>1
  <2> QED
    BY <2>2
<1> QED
  BY <1>0, <1>1, <1>7, <1>8 DEF ReachedUp


\* How the sizes of a set of classes are summed.
Summed(sum, sizes, set, N) ==
  /\ sum \in [0..N -> Nat]
  /\ sum[0] = 0
  /\ \A n \in 1..N : sum[n] = sum[n - 1] + (IF n \in set THEN sizes[n] ELSE 0)

\* sizes has the size of the fields of every class.
Sizes(sizes, N) ==
  /\ N = Len(dump.classes)
  /\ sizes \in [1..N -> Nat]
  /\ \A n \in 1..N : sizes[n] = SizeOf(dump.classes[n].fields)

\* SizeTogether sums them so.
LEMMA SizesSum ==
  ASSUME NEW N \in Nat, NEW sizes, Sizes(sizes, N), NEW set
  PROVE  \E sum : Summed(sum, sizes, set, N) /\ SizeTogether(set) = sum[N]
<1> DEFINE More(n) == IF n \in set THEN sizes[n] ELSE 0
<1> DEFINE step == [p \in (1..N) \X Nat |-> p[2] + More(p[1])]
<1>1. \A n \in 1..N : More(n) \in Nat
  BY DEF Sizes
<1> HIDE DEF More
<1>2. step \in [(1..N) \X Nat -> Nat]
  BY <1>1
<1>3. PICK f \in [0..N -> Nat] : f[0] = 0 /\ \A n \in 1..N : f[n] = step[<<n, f[n - 1]>>]
  <2> HIDE DEF step
  <2>1. Defines(N, Nat, 0, step)
    BY <1>2, RecursionExists
  <2> QED
    BY <2>1 DEF Defines
<1>4. ASSUME NEW n \in 1..N PROVE f[n] = f[n - 1] + More(n)
  <2>1. n - 1 \in 0..N
    OBVIOUS
  <2>2. <<n, f[n - 1]>> \in (1..N) \X Nat
    BY <2>1
  <2>3. step[<<n, f[n - 1]>>] = f[n - 1] + More(n)
    BY <2>2
  <2> QED
    BY <1>3, <2>3
<1>5. f = [n \in 0..N |-> IF n = 0 THEN 0 ELSE f[n - 1] + More(n)]
  <2>1. \A n \in 0..N : n # 0 => n \in 1..N
    OBVIOUS
  <2> HIDE DEF step
  <2> QED
    BY <1>3, <1>4, <2>1
<1> DEFINE sum == CHOOSE sum : sum = [n \in 0..N |-> IF n = 0 THEN 0 ELSE sum[n - 1] + More(n)]
<1>6. sum = [n \in 0..N |-> IF n = 0 THEN 0 ELSE sum[n - 1] + More(n)]
  BY <1>5
<1>7. SizeTogether(set) = sum[N]
  <2> DEFINE size == CHOOSE size : size = [k \in 0..N |-> IF k = 0 THEN 0 ELSE size[k - 1]
                       + (IF k \in set THEN SizeOf(dump.classes[k].fields) ELSE 0)]
  <2>1. SizeTogether(set) = size[N]
    BY DEF SizeTogether, Sizes
  <2>2. \A g : [n \in 0..N |-> IF n = 0 THEN 0 ELSE g[n - 1] + More(n)]
             = [k \in 0..N |-> IF k = 0 THEN 0 ELSE g[k - 1]
                 + (IF k \in set THEN SizeOf(dump.classes[k].fields) ELSE 0)]
    <3>1. \A n \in 0..N : n # 0 => More(n) = IF n \in set THEN SizeOf(dump.classes[n].fields) ELSE 0
      <4>1. \A n \in 0..N : n # 0 => n \in 1..N
        OBVIOUS
      <4> QED
        BY <4>1 DEF More, Sizes
    <3> QED
      BY <3>1
  <2>3. size = sum
    BY <2>2
  <2> QED
    BY <2>1, <2>3
<1> HIDE DEF sum
<1>8. /\ sum[0] = 0
      /\ \A n \in 1..N : n \in 0..N /\ n - 1 \in 0..N /\ sum[n] = sum[n - 1] + More(n)
  <2>1. 0 \in 0..N /\ \A n \in 1..N : n \in 0..N /\ n - 1 \in 0..N /\ n # 0
    OBVIOUS
  <2> QED
    BY <1>6, <2>1
<1>9. \A n \in 0..N : sum[n] \in Nat
  <2> DEFINE S == {n \in 0..N : sum[n] \in Nat}
  <2>1. 0 \in S
    BY <1>8
  <2>2. ASSUME NEW n \in 0..(N - 1), n \in S PROVE n + 1 \in S
    <3>1. n + 1 \in 1..N /\ n + 1 \in 0..N /\ (n + 1) - 1 = n
      OBVIOUS
    <3>2. sum[n + 1] = sum[n] + More(n + 1) /\ More(n + 1) \in Nat
      BY <1>1, <1>8, <3>1
    <3> QED
      BY <2>2, <3>1, <3>2
  <2> HIDE DEF S
  <2>3. \A n \in 0..N : n \in S
    BY <2>1, <2>2, InductionTo
  <2> QED
    BY <2>3 DEF S
<1>10. sum \in [0..N -> Nat]
  BY <1>6, <1>9
<1>11. Summed(sum, sizes, set, N)
  BY <1>8, <1>10 DEF Summed, More
<1> QED
  BY <1>7, <1>11

\* A class that joins a set adds its size.
LEMMA SizeJoins ==
  ASSUME NEW N \in Nat, NEW sizes, Sizes(sizes, N), NEW set, NEW x \in 1..N, x \notin set
  PROVE  /\ SizeTogether(set) \in Nat
         /\ SizeTogether(set \cup {x}) = SizeTogether(set) + sizes[x]
<1>1. PICK s : Summed(s, sizes, set, N) /\ SizeTogether(set) = s[N]
  BY SizesSum
<1>2. PICK t : Summed(t, sizes, set \cup {x}, N) /\ SizeTogether(set \cup {x}) = t[N]
  BY SizesSum
<1>3. sizes \in [1..N -> Nat] /\ s \in [0..N -> Nat] /\ t \in [0..N -> Nat]
  BY <1>1, <1>2 DEF Summed, Sizes
<1> DEFINE S == {n \in 0..N : t[n] = s[n] + (IF n < x THEN 0 ELSE sizes[x])}
<1>4. 0 \in S
  BY <1>1, <1>2, <1>3 DEF Summed
<1>5. ASSUME NEW n \in 0..(N - 1), n \in S PROVE n + 1 \in S
  <2>1. n + 1 \in 1..N /\ n + 1 \in 0..N /\ (n + 1) - 1 = n /\ n \in 0..N
    OBVIOUS
  <2>2. /\ s[n + 1] = s[n] + (IF n + 1 \in set THEN sizes[n + 1] ELSE 0)
        /\ t[n + 1] = t[n] + (IF n + 1 \in set \cup {x} THEN sizes[n + 1] ELSE 0)
    BY <1>1, <1>2, <2>1 DEF Summed
  <2>3. s[n] \in Nat /\ t[n] \in Nat /\ sizes[x] \in Nat /\ sizes[n + 1] \in Nat
    BY <1>3, <2>1
  <2>4. t[n] = s[n] + (IF n < x THEN 0 ELSE sizes[x])
    BY <1>5
  <2>5. t[n + 1] = s[n + 1] + (IF n + 1 < x THEN 0 ELSE sizes[x])
    <3>1. CASE n + 1 = x
      BY <2>2, <2>3, <2>4, <3>1
    <3>2. CASE n + 1 # x
      <4>1. n + 1 \in set \cup {x} <=> n + 1 \in set
        BY <3>2
      <4>2. n < x <=> n + 1 < x
        BY <3>2
      <4> QED
        BY <2>2, <2>3, <2>4, <4>1, <4>2
    <3> QED
      BY <3>1, <3>2
  <2> QED
    BY <2>1, <2>5
<1>6. t[N] = s[N] + sizes[x]
  <2> HIDE DEF S
  <2>1. \A n \in 0..N : n \in S
    BY <1>4, <1>5, InductionTo
  <2>2. N \in 0..N /\ ~(N < x)
    OBVIOUS
  <2> QED
    BY <2>1, <2>2 DEF S
<1>7. s[N] \in Nat
  BY <1>3
<1> QED
  BY <1>1, <1>2, <1>6, <1>7

\* No classes have no fields.
LEMMA NoSize ==
  ASSUME NEW N \in Nat, NEW sizes, Sizes(sizes, N)
  PROVE  SizeTogether({}) = 0
<1>1. PICK s : Summed(s, sizes, {}, N) /\ SizeTogether({}) = s[N]
  BY SizesSum
<1> DEFINE S == {n \in 0..N : s[n] = 0}
<1>2. 0 \in S
  BY <1>1 DEF Summed
<1>3. ASSUME NEW n \in 0..(N - 1), n \in S PROVE n + 1 \in S
  <2>1. n + 1 \in 1..N /\ n + 1 \in 0..N /\ (n + 1) - 1 = n /\ n \in 0..N
    OBVIOUS
  <2>2. s[n + 1] = s[n] + 0
    BY <1>1, <2>1 DEF Summed
  <2> QED
    BY <1>3, <2>1, <2>2
<1>4. \A n \in 0..N : n \in S
  <2> HIDE DEF S
  <2> QED
    BY <1>2, <1>3, InductionTo
<1> QED
  BY <1>1, <1>4


\* How FieldsOf places the fields, one class of the chain at a time.
PlacedUp(added, read, c) ==
  /\ \A n \in 0..Len(c) : Placed(added[n])
  /\ added[0] = [offset |-> 0, fields |-> <<>>]
  /\ \A n \in 1..Len(c) : added[n].offset = added[n - 1].offset + SizeOf(read[c[n]].fields)

\* The classes of the chain are as they were read.
Readable(read, c) ==
  /\ Len(c) \in Nat
  /\ \A n \in 1..Len(c) : read[c[n]].fields \in Seq(Field) /\ Tiled(read[c[n]].fields)

\* FieldsOf places them so.
LEMMA FieldsPlaced ==
  ASSUME NEW read, NEW supers, NEW k, NEW c, c = Chain(supers, k), Readable(read, c)
  PROVE  \E added : PlacedUp(added, read, c) /\ FieldsOf(read, supers, k) = added[Len(c)].fields
<1> DEFINE N == Len(c)
<1> DEFINE A == {s \in [offset : Nat, fields : Seq(Field)] : Placed(s)}
<1> DEFINE none == [offset |-> 0, fields |-> <<>>]
<1> DEFINE More(s, n) == AddFields(s, read[c[n]].fields)
<1> DEFINE step == [p \in (1..N) \X A |-> More(p[2], p[1])]
<1>0. /\ N \in Nat
      /\ \A n \in 1..N : read[c[n]].fields \in Seq(Field) /\ Tiled(read[c[n]].fields)
  BY DEF Readable
<1>1. ASSUME NEW n \in 1..N, NEW s \in A
      PROVE  /\ More(s, n) \in A
             /\ More(s, n).offset = s.offset + SizeOf(read[c[n]].fields)
  <2>1. Placed(s)
    OBVIOUS
  <2>2. read[c[n]].fields \in Seq(Field) /\ Tiled(read[c[n]].fields)
    BY <1>0
  <2> DEFINE r == AddFields(s, read[c[n]].fields)
  <2>3. Placed(r) /\ r.offset = s.offset + SizeOf(read[c[n]].fields)
    BY <2>1, <2>2, AddTiles
  <2>4. r = [offset |-> r.offset, fields |-> r.fields]
    BY DEF AddFields
  <2>5. r.offset \in Nat /\ r.fields \in Seq(Field)
    <3> HIDE DEF r
    <3> QED
      BY <2>3, TiledSize DEF Placed
  <2> HIDE DEF r
  <2>6. r \in [offset : Nat, fields : Seq(Field)]
    BY <2>4, <2>5
  <2> QED
    BY <2>3, <2>6 DEF r
<1>2. none \in A
  <2>1. <<>> \in Seq(Field) /\ Tiled(<<>>) /\ Len(<<>>) = 0
    BY DEF Tiled
  <2>2. SizeOf(<<>>) = 0
    BY <2>1, TiledSize
  <2> QED
    BY <2>1, <2>2 DEF Placed
<1> HIDE DEF A, More
<1>3. step \in [(1..N) \X A -> A]
  BY <1>1
<1>4. PICK f \in [0..N -> A] : f[0] = none /\ \A n \in 1..N : f[n] = step[<<n, f[n - 1]>>]
  <2> HIDE DEF step, none, N
  <2>1. N \in Nat
    BY <1>0
  <2>2. Defines(N, A, none, step)
    BY <1>2, <1>3, <2>1, RecursionExists
  <2> QED
    BY <2>2 DEF Defines
<1>5. ASSUME NEW n \in 1..N PROVE f[n] = More(f[n - 1], n)
  <2>1. n - 1 \in 0..N
    OBVIOUS
  <2>2. f[n - 1] \in A /\ <<n, f[n - 1]>> \in (1..N) \X A
    BY <2>1
  <2>3. step[<<n, f[n - 1]>>] = More(f[n - 1], n)
    BY <2>2
  <2> QED
    BY <1>4, <2>3
<1>6. f = [n \in 0..N |-> IF n = 0 THEN none ELSE More(f[n - 1], n)]
  <2>1. \A n \in 0..N : n # 0 => n \in 1..N
    OBVIOUS
  <2> HIDE DEF step, none, N
  <2> QED
    BY <1>4, <1>5, <2>1
<1> DEFINE added == CHOOSE added : added = [n \in 0..N |-> IF n = 0 THEN none ELSE More(added[n - 1], n)]
<1>7. added = [n \in 0..N |-> IF n = 0 THEN none ELSE More(added[n - 1], n)]
  <2> HIDE DEF none, N
  <2> QED
    BY <1>6
<1>8. FieldsOf(read, supers, k) = added[N].fields
  BY DEF FieldsOf, More
<1> HIDE DEF added, none
<1>9. /\ added[0] = none
      /\ \A n \in 1..N : n \in 0..N /\ n - 1 \in 0..N /\ added[n] = More(added[n - 1], n)
  <2>1. 0 \in 0..N /\ \A n \in 1..N : n \in 0..N /\ n - 1 \in 0..N /\ n # 0
    OBVIOUS
  <2> HIDE DEF N
  <2> QED
    BY <1>7, <2>1
<1>10. \A n \in 0..N : added[n] \in A
  <2> DEFINE S == {n \in 0..N : added[n] \in A}
  <2>1. 0 \in S
    BY <1>2, <1>9
  <2>2. ASSUME NEW n \in 0..(N - 1), n \in S PROVE n + 1 \in S
    <3>1. n + 1 \in 1..N /\ n + 1 \in 0..N /\ (n + 1) - 1 = n
      OBVIOUS
    <3>2. added[n + 1] = More(added[n], n + 1)
      BY <1>9, <3>1
    <3> QED
      BY <1>1, <2>2, <3>1, <3>2
  <2> HIDE DEF S
  <2>3. \A n \in 0..N : n \in S
    BY <1>0, <2>1, <2>2, InductionTo
  <2> QED
    BY <2>3 DEF S
<1>11. PlacedUp(added, read, c)
  <2>1. \A n \in 0..N : Placed(added[n])
    BY <1>10 DEF A
  <2>2. \A n \in 1..N : added[n].offset = added[n - 1].offset + SizeOf(read[c[n]].fields)
    BY <1>1, <1>9, <1>10
  <2> QED
    BY <1>9, <2>1, <2>2 DEF PlacedUp, none
<1> QED
  BY <1>8, <1>11

\* The layout of a class has the fields of its chain, one behind the other.
LEMMA LayoutIs ==
  ASSUME dump \in Dumps, NEW N \in Nat, Supers(superOf, N), NEW k \in 1..N, ~Cyclic(k)
  PROVE  /\ Tiled(Layout(k))
         /\ SizeOf(Layout(k)) = SizeTogether(Ancestors(k))
<1>1. PICK read, supers : read = dump.classes /\ supers = superOf
  OBVIOUS
<1>2. /\ read \in Seq([id : Nat, super : Nat, fields : Seq(Field)])
      /\ N = Len(read) /\ supers \in Seq(0..N) /\ Len(supers) = N
  BY <1>1, DumpsAssumption DEF Supers
<1>3. ASSUME NEW n \in 1..N PROVE read[n].fields \in Seq(Field) /\ Tiled(read[n].fields)
  <2>1. n \in DOMAIN read /\ read[n] \in [id : Nat, super : Nat, fields : Seq(Field)]
    BY <1>2, LenProperties, ElementOfSeq
  <2>2. read[n].fields \in Seq(Field)
    BY <2>1
  <2>3. Tiled(read[n].fields)
    BY <1>1, <2>1, ClassesAssumption
  <2> QED
    BY <2>2, <2>3
<1>4. PICK c : c = Chain(supers, k)
  OBVIOUS
<1>5. IsChain(c, supers, k, N) /\ (Len(c) <= N => supers[Last(c)] = 0)
  BY <1>2, <1>4, ChainIs
<1>6. PICK L \in 1..N : L = Len(c) /\ supers[c[L]] = 0 /\ c \in Seq(1..N)
  <2>1. ~(Len(c) > N) /\ Len(c) \in 1..(N + 1)
    BY <1>1, <1>2, <1>4, <1>5 DEF Cyclic, IsChain
  <2>2. Len(c) \in 1..N
    BY <2>1
  <2> QED
    BY <1>5, <2>2 DEF Last, IsChain
<1>7. \A n \in 1..L : c[n] \in 1..N
  BY <1>6
<1>8. PICK added : PlacedUp(added, read, c) /\ FieldsOf(read, supers, k) = added[L].fields
  <2>1. \A n \in 1..Len(c) : read[c[n]].fields \in Seq(Field) /\ Tiled(read[c[n]].fields)
    BY <1>3, <1>6, <1>7
  <2>2. Readable(read, c)
    BY <1>6, <2>1 DEF Readable
  <2>3. \E added : PlacedUp(added, read, c) /\ FieldsOf(read, supers, k) = added[Len(c)].fields
    BY <1>4, <2>2, FieldsPlaced
  <2> QED
    BY <1>6, <2>3
<1> DEFINE sizes == [n \in 1..N |-> SizeOf(read[n].fields)]
<1>9. Sizes(sizes, N)
  <2>1. \A n \in 1..N : SizeOf(read[n].fields) \in Nat
    BY <1>3, TiledSize
  <2> QED
    BY <1>1, <1>2, <2>1 DEF Sizes
<1>10. \A n \in 1..N : sizes[n] = SizeOf(read[n].fields)
  OBVIOUS
<1> HIDE DEF sizes
<1>11. \A i \in 1..L : \A j \in 1..L : i < j => c[i] # c[j]
  BY <1>5, <1>6, ChainOnce
<1> DEFINE S == {n \in 0..L : added[n].offset = SizeTogether(FirstOf(c, n))}
<1>12. 0 \in S
  <2>1. FirstOf(c, 0) = {}
    BY <1>6 DEF FirstOf
  <2>2. SizeTogether({}) = 0
    BY <1>9, NoSize
  <2>3. added[0].offset = 0
    BY <1>8 DEF PlacedUp
  <2> QED
    BY <2>1, <2>2, <2>3
<1>13. ASSUME NEW n \in 0..(L - 1), n \in S PROVE n + 1 \in S
  <2>1. n + 1 \in 1..L /\ n + 1 \in 0..L /\ (n + 1) - 1 = n
    OBVIOUS
  <2>2. PICK x \in 1..N : x = c[n + 1]
    BY <1>7, <2>1
  <2>3. \A y : y \in FirstOf(c, n) <=> \E j \in 1..L : j <= n /\ y = c[j]
    BY <1>6 DEF FirstOf
  <2>4. \A y : y \in FirstOf(c, n + 1) <=> \E j \in 1..L : j <= n + 1 /\ y = c[j]
    BY <1>6 DEF FirstOf
  <2>5. \A j \in 1..L : j <= n + 1 <=> j <= n \/ j = n + 1
    OBVIOUS
  <2>6. FirstOf(c, n + 1) = FirstOf(c, n) \cup {x}
    BY <2>1, <2>2, <2>3, <2>4, <2>5
  <2>7. x \notin FirstOf(c, n)
    <3>1. \A j \in 1..L : j <= n => j < n + 1
      OBVIOUS
    <3> QED
      BY <1>11, <2>1, <2>2, <2>3, <3>1
  <2>8. SizeTogether(FirstOf(c, n + 1)) = SizeTogether(FirstOf(c, n)) + sizes[x]
    BY <1>9, <2>6, <2>7, SizeJoins
  <2>9. added[n + 1].offset = added[n].offset + SizeOf(read[x].fields)
    BY <1>6, <1>8, <2>1, <2>2 DEF PlacedUp
  <2> QED
    BY <1>10, <1>13, <2>1, <2>8, <2>9
<1>14. added[L].offset = SizeTogether(FirstOf(c, L))
  <2> HIDE DEF S
  <2>1. \A n \in 0..L : n \in S
    BY <1>12, <1>13, InductionTo
  <2> QED
    BY <2>1 DEF S
<1>15. Ancestors(k) = FirstOf(c, L)
  <2>1. Supers(supers, N)
    BY <1>1
  <2>2. supers[c[Len(c)]] = 0 /\ Len(c) <= N
    BY <1>6
  <2>3. Ancestors(k) = FirstOf(c, Len(c))
    BY <1>5, <2>1, <2>2, AncestorsAre
  <2> QED
    BY <1>6, <2>3
<1>16. Placed(added[L])
  BY <1>6, <1>8 DEF PlacedUp
<1>17. Layout(k) = added[L].fields
  BY <1>1, <1>8 DEF Layout
<1> QED
  BY <1>14, <1>15, <1>16, <1>17 DEF Placed


-------------------------------------------------------------------------------
(* The layouts of the instances. *)

\* The classes gone through the second time have their super class.
SupersLinked ==
  /\ superOf \in Seq(0..Len(dump.classes))
  /\ Len(superOf) = Len(dump.classes)
  /\ \A c \in 1..Len(dump.classes) :
       superOf[c] = IF c <= Linked /\ HasSuper(c) THEN FirstClass(dump.classes[c].super) ELSE 0

\* An instance has the layout of its class, whose super classes end.
LaidOut(i) ==
  LET cls == dump.instances[i].cls
  IN /\ KnownClass(cls) => layout[i] = Layout(FirstClass(cls)) /\ ~Cyclic(FirstClass(cls))
     /\ ~KnownClass(cls) => layout[i] = <<>>

InstancesLaidOut == /\ DOMAIN layout = 1..Len(dump.instances)
                    /\ \A i \in 1..InstancesIn : LaidOut(i)

LInv == ~Stopped => SupersLinked /\ InstancesLaidOut

\* The class that a known id stands for is the first one read with it.
LEMMA KnownFirst ==
  ASSUME dump \in Dumps, NEW id, KnownClass(id)
  PROVE  FirstClass(id) \in 1..Len(dump.classes) /\ IsFirst(dump.classes, FirstClass(id), id)
<1> DEFINE T == {k \in Nat : k \in 1..Len(dump.classes) /\ dump.classes[k].id = id}
<1>1. Len(dump.classes) \in Nat
  BY Lengths
<1>2. T \in SUBSET Nat /\ T # {}
  BY <1>1 DEF KnownClass, Indexes
<1>3. PICK k \in T : \A m \in T : k <= m
  <2> HIDE DEF T
  <2> QED
    BY <1>2, LeastNumber
<1>4. k \in 1..Len(dump.classes) /\ dump.classes[k].id = id
  BY <1>3
<1>5. ASSUME NEW j \in 1..(k - 1) PROVE dump.classes[j].id # id
  <2>1. j \in Nat /\ j \in 1..Len(dump.classes) /\ ~(k <= j)
    BY <1>1, <1>4
  <2>2. j \notin T
    <3> HIDE DEF T
    <3> QED
      BY <1>3, <2>1
  <2> QED
    BY <2>1, <2>2
<1>6. IsFirst(dump.classes, k, id)
  BY <1>4, <1>5 DEF IsFirst, Indexes
<1> HIDE DEF T
<1> QED
  BY <1>4, <1>6, FirstClassIs

\* The index of classes has the first class of an id once all are in it.
LEMMA IndexedClass ==
  ASSUME dump \in Dumps, ClassesIndexed, Named = Len(dump.classes), NEW id
  PROVE  /\ id \in DOMAIN classes <=> KnownClass(id)
         /\ KnownClass(id) => classes[id] = FirstClass(id)
<1>1. id \in DOMAIN classes <=> KnownClass(id)
  BY IdsGrow DEF ClassesIndexed, KnownClass, Ids
<1> QED
  BY <1>1, FirstClassIs DEF ClassesIndexed

\* What is told from the dump stays with it.
LEMMA DumpStays ==
  ASSUME dump' = dump
  PROVE  /\ \A id : (KnownClass(id)' <=> KnownClass(id)) /\ FirstClass(id)' = FirstClass(id)
         /\ \A c : HasSuper(c)' <=> HasSuper(c)
BY DEF KnownClass, FirstClass, HasSuper, Indexes

\* As long as no super class or layout changes and no instance comes in, they stay right.
LEMMA LayoutsStay ==
  ASSUME dump' = dump, superOf' = superOf, layout' = layout, Linked' = Linked, InstancesIn' = InstancesIn,
         SupersLinked, InstancesLaidOut
  PROVE  SupersLinked' /\ InstancesLaidOut'
<1>1. /\ \A id : (KnownClass(id)' <=> KnownClass(id)) /\ FirstClass(id)' = FirstClass(id)
      /\ \A c : HasSuper(c)' <=> HasSuper(c)
  BY DumpStays
<1>2. SupersLinked'
  BY <1>1 DEF SupersLinked
<1>3. ASSUME NEW i, LaidOut(i) PROVE LaidOut(i)'
  <2>1. FirstClass(dump.instances[i].cls)' = FirstClass(dump.instances[i].cls)
    BY <1>1
  <2>2. /\ Layout(FirstClass(dump.instances[i].cls))' = Layout(FirstClass(dump.instances[i].cls))
        /\ Cyclic(FirstClass(dump.instances[i].cls))' <=> Cyclic(FirstClass(dump.instances[i].cls))
    BY <2>1 DEF Layout, Cyclic
  <2>3. KnownClass(dump.instances[i].cls)' <=> KnownClass(dump.instances[i].cls)
    BY <1>1
  <2> QED
    BY <1>3, <2>2, <2>3 DEF LaidOut
<1>4. InstancesLaidOut'
  BY <1>3 DEF InstancesLaidOut
<1> QED
  BY <1>2, <1>4

\* At the start no class has a super class and no instance a layout.
LEMMA LayoutsStart == Init => LInv
<1> SUFFICES ASSUME Init PROVE LInv
  OBVIOUS
<1>1. /\ dump \in Dumps /\ stage = "start"
      /\ superOf = [k \in 1..Len(dump.classes) |-> 0]
      /\ layout = [k \in 1..Len(dump.instances) |-> <<>>]
  BY DEF Init
<1>2. Linked = 0 /\ InstancesIn = 0
  BY <1>1 DEF Linked, InstancesIn, Gone
<1>3. Len(dump.classes) \in Nat /\ Len(dump.instances) \in Nat
  BY <1>1, Lengths
<1>4. superOf \in Seq(0..Len(dump.classes)) /\ Len(superOf) = Len(dump.classes)
  <2>1. PICK n \in Nat : n = Len(dump.classes)
    BY <1>3
  <2>2. superOf = [k \in 1..n |-> 0] /\ 0 \in 0..n
    BY <1>1, <2>1
  <2> QED
    BY <2>1, <2>2
<1>5. SupersLinked
  BY <1>1, <1>2, <1>3, <1>4 DEF SupersLinked
<1>6. InstancesLaidOut
  BY <1>1, <1>2 DEF InstancesLaidOut
<1> QED
  BY <1>5, <1>6 DEF LInv

\* A round of the second loop links one more class.
LEMMA LinkSuperLayouts == ASSUME IInv, LInv, LinkSuper PROVE LInv'
<1>1. /\ stage = "supers" /\ stage' = "supers" /\ next \in Indexes(dump.classes) /\ next' = next + 1
      /\ dump' = dump /\ UNCHANGED <<layout, classes>>
      /\ dump \in Dumps /\ next \in Nat \ {0}
  BY Lengths DEF IInv, Counting, LinkSuper, InLoop, Indexes
<1>2. ~Stopped
  BY <1>1 DEF Stopped
<1>3. ClassesIndexed /\ SupersLinked /\ InstancesLaidOut
  BY <1>2 DEF IInv, LInv
<1>4. /\ Linked = next - 1 /\ Linked' = next
      /\ Named = Len(dump.classes) /\ InstancesIn' = 0
  BY <1>1 DEF Named, Linked, InstancesIn, Gone
<1>5. PICK n, supers : n \in Nat /\ n = Len(dump.classes) /\ supers = superOf
  BY <1>1, Lengths
<1>6. supers \in Seq(0..n) /\ Len(supers) = n /\ next \in 1..n
  BY <1>1, <1>3, <1>5 DEF SupersLinked, Indexes
<1> DEFINE super == dump.classes[next].super
<1>7. /\ HasSuper(next) => superOf' = [superOf EXCEPT ![next] = FirstClass(super)]
      /\ ~HasSuper(next) => superOf' = superOf
  <2>1. super \in DOMAIN classes <=> KnownClass(super)
    BY <1>1, <1>3, <1>4, IndexedClass
  <2>2. KnownClass(super) => classes[super] = FirstClass(super)
    BY <1>1, <1>3, <1>4, IndexedClass
  <2> QED
    BY <2>1, <2>2 DEF LinkSuper, HasSuper
<1>8. HasSuper(next) => FirstClass(super) \in 1..n
  BY <1>1, <1>5, KnownFirst DEF HasSuper
<1>9. superOf' \in Seq(0..n) /\ Len(superOf') = n /\ \A c \in 1..n : c # next => superOf'[c] = supers[c]
  <2>1. CASE HasSuper(next)
    <3>1. PICK f \in 1..n : f = FirstClass(super)
      BY <1>8, <2>1
    <3>2. superOf' = [supers EXCEPT ![next] = f]
      BY <1>5, <1>7, <2>1, <3>1
    <3> QED
      BY <1>6, <3>2
  <2>2. CASE ~HasSuper(next)
    BY <1>5, <1>6, <1>7, <2>2
  <2> QED
    BY <2>1, <2>2
<1>10. ASSUME NEW c \in 1..n
       PROVE  superOf'[c] = IF c <= next /\ HasSuper(c) THEN FirstClass(dump.classes[c].super) ELSE 0
  <2>1. superOf[c] = IF c <= next - 1 /\ HasSuper(c) THEN FirstClass(dump.classes[c].super) ELSE 0
    BY <1>3, <1>4, <1>5 DEF SupersLinked
  <2>2. CASE c = next
    <3>1. CASE HasSuper(next)
      <4>1. DOMAIN supers = 1..n
        BY <1>6
      <4> QED
        BY <1>5, <1>7, <2>2, <3>1, <4>1
    <3>2. CASE ~HasSuper(next)
      BY <1>7, <2>1, <2>2, <3>2
    <3> QED
      BY <3>1, <3>2
  <2>3. CASE c # next
    <3>1. c <= next - 1 <=> c <= next
      BY <1>6, <2>3
    <3> QED
      BY <1>5, <1>9, <2>1, <2>3, <3>1
  <2> QED
    BY <2>2, <2>3
<1>11. SupersLinked'
  BY <1>1, <1>4, <1>5, <1>9, <1>10, DumpStays DEF SupersLinked
<1>12. InstancesLaidOut'
  BY <1>1, <1>3, <1>4 DEF InstancesLaidOut
<1> QED
  BY <1>11, <1>12 DEF LInv

\* A round of the fourth loop lays out one more instance.
LEMMA AddInstanceLayouts == ASSUME IInv, LInv, AddInstance PROVE LInv'
<1> DEFINE o == dump.instances[next]
<1>1. /\ stage = "instances" /\ stage' = "instances" /\ next \in Indexes(dump.instances) /\ next' = next + 1
      /\ dump' = dump /\ UNCHANGED <<superOf, classes>>
      /\ o.cls \in DOMAIN classes => ~Cyclic(classes[o.cls])
      /\ layout' = [layout EXCEPT ![next] =
                      IF o.cls \in DOMAIN classes THEN Layout(classes[o.cls]) ELSE <<>>]
      /\ dump \in Dumps /\ next \in Nat \ {0}
  BY Lengths DEF IInv, Counting, AddInstance, InLoop, Indexes
<1>2. ~Stopped
  BY <1>1 DEF Stopped
<1>3. ClassesIndexed /\ SupersLinked /\ InstancesLaidOut
  BY <1>2 DEF IInv, LInv
<1>4. /\ InstancesIn = next - 1 /\ InstancesIn' = next
      /\ Named = Len(dump.classes) /\ Linked' = Linked
  BY <1>1 DEF Named, Linked, InstancesIn, Gone
<1>5. /\ \A id : (KnownClass(id)' <=> KnownClass(id)) /\ FirstClass(id)' = FirstClass(id)
      /\ \A c : HasSuper(c)' <=> HasSuper(c)
  BY <1>1, DumpStays
<1>6. SupersLinked'
  BY <1>1, <1>3, <1>4, <1>5 DEF SupersLinked
<1>7. \A k : Layout(k)' = Layout(k) /\ (Cyclic(k)' <=> Cyclic(k))
  BY <1>1 DEF Layout, Cyclic
<1>8. ASSUME NEW i \in 1..next PROVE LaidOut(i)'
  <2>1. PICK c : c = dump.instances[i].cls
    OBVIOUS
  <2>2. LaidOut(i)' <=> /\ KnownClass(c) => layout'[i] = Layout(FirstClass(c)) /\ ~Cyclic(FirstClass(c))
                        /\ ~KnownClass(c) => layout'[i] = <<>>
    <3>1. /\ dump'.instances[i].cls = c
          /\ (KnownClass(dump.instances[i].cls)' <=> KnownClass(c))
          /\ FirstClass(dump.instances[i].cls)' = FirstClass(c)
      BY <1>1, <1>5, <2>1
    <3>2. /\ Layout(FirstClass(dump.instances[i].cls))' = Layout(FirstClass(c))
          /\ Cyclic(FirstClass(dump.instances[i].cls))' <=> Cyclic(FirstClass(c))
      BY <1>1, <3>1 DEF Layout, Cyclic
    <3> QED
      BY <3>1, <3>2 DEF LaidOut
  <2>3. next \in DOMAIN layout
    BY <1>1, <1>3 DEF InstancesLaidOut, Indexes
  <2>4. CASE i = next
    <3>1. o.cls = c
      BY <2>1, <2>4
    <3>2. /\ c \in DOMAIN classes <=> KnownClass(c)
          /\ KnownClass(c) => classes[c] = FirstClass(c)
      BY <1>1, <1>3, <1>4, IndexedClass
    <3>3. layout'[i] = IF c \in DOMAIN classes THEN Layout(classes[c]) ELSE <<>>
      BY <1>1, <2>3, <2>4, <3>1
    <3> QED
      BY <1>1, <2>2, <3>1, <3>2, <3>3
  <2>5. CASE i # next
    <3>1. i \in 1..(next - 1)
      BY <1>1, <2>5
    <3>2. LaidOut(i)
      BY <1>3, <1>4, <3>1 DEF InstancesLaidOut
    <3>3. layout'[i] = layout[i]
      <4>1. i \in DOMAIN layout
        BY <1>1, <1>3, Lengths DEF InstancesLaidOut, Indexes
      <4> QED
        BY <1>1, <2>5, <4>1
    <3> QED
      BY <2>1, <2>2, <3>2, <3>3 DEF LaidOut
  <2> QED
    BY <2>4, <2>5
<1>9. DOMAIN layout' = 1..Len(dump'.instances)
  BY <1>1, <1>3 DEF InstancesLaidOut
<1> QED
  BY <1>4, <1>6, <1>8, <1>9 DEF LInv, InstancesLaidOut


\* Every step keeps the super classes and the layouts right.
LEMMA StepLayouts == IInv /\ LInv /\ [Next]_vars => LInv'
<1> SUFFICES ASSUME IInv, LInv, [Next]_vars PROVE LInv'
  OBVIOUS
<1>1. Counting
  BY DEF IInv
<1>2. CASE LinkSuper
  BY <1>2, LinkSuperLayouts
<1>3. CASE AddInstance
  BY <1>3, AddInstanceLayouts
<1>4. CASE LayoutHangs \/ (Begin /\ Total = 0)
  BY <1>4 DEF LInv, Stopped, LayoutHangs, Begin
<1>5. CASE UNCHANGED vars
  <2>1. UNCHANGED <<dump, superOf, layout, stage, next>>
    BY <1>5 DEF vars
  <2>2. Linked' = Linked /\ InstancesIn' = InstancesIn /\ (Stopped' <=> Stopped)
    BY <2>1 DEF Linked, InstancesIn, Gone, Stopped
  <2> QED
    BY <2>1, <2>2, LayoutsStay DEF LInv
<1>6. CASE \/ NameClass \/ AddPrimitivesArray \/ AddObjectsArray
           \/ Begin /\ Total # 0
           \/ NamesDone \/ SupersDone \/ PrimitivesDone \/ InstancesDone \/ ArraysDone
  <2>1. UNCHANGED <<dump, superOf, layout>> /\ ~Stopped
    BY <1>6 DEF NameClass, AddPrimitivesArray, AddObjectsArray, InLoop, Begin, LoopDone, NamesDone,
                SupersDone, PrimitivesDone, InstancesDone, ArraysDone, Stopped
  <2>2. Linked' = Linked /\ InstancesIn' = InstancesIn
    <3>1. CASE NameClass \/ AddPrimitivesArray \/ AddObjectsArray
      BY <1>1, <3>1 DEF NameClass, AddPrimitivesArray, AddObjectsArray, InLoop, Linked, InstancesIn, Gone
    <3>2. CASE Begin /\ Total # 0
      BY <1>1, <3>2 DEF Begin, Linked, InstancesIn, Gone
    <3>3. CASE NamesDone \/ SupersDone \/ PrimitivesDone \/ InstancesDone \/ ArraysDone
      BY <1>1, <3>3, Lengths DEF Counting, NamesDone, SupersDone, PrimitivesDone, InstancesDone, ArraysDone,
                LoopDone, Linked, InstancesIn, Gone
    <3> QED
      BY <1>6, <3>1, <3>2, <3>3
  <2> QED
    BY <2>1, <2>2, LayoutsStay DEF LInv
<1> QED
  BY <1>2, <1>3, <1>4, <1>5, <1>6 DEF Next, Ended

\* An instance's fields lie one behind the other and cover its class and all that the
\* class inherits from, whatever the order the classes were read in.
THEOREM LayoutCorrect == Spec => []LayoutTiles
<1>1. Spec => []LInv
  BY InitInv, StepInv, LayoutsStart, StepLayouts, PTL DEF Spec
<1>2. IInv /\ LInv => LayoutTiles
  <2> SUFFICES ASSUME IInv, LInv, NEW i \in Prepared
               PROVE  IF ~KnownClass(dump.instances[i].cls) THEN layout[i] = <<>>
                      ELSE /\ Tiled(layout[i])
                           /\ SizeOf(layout[i]) = SizeTogether(Ancestors(FirstClass(dump.instances[i].cls)))
    BY DEF LayoutTiles
  <2>1. stage \in {"instances", "arrays", "done"} /\ dump \in Dumps /\ ~Stopped
    BY DEF Prepared, IInv, Counting, Stages, Terminal, Stopped
  <2>2. Prepared = 1..InstancesIn /\ Linked = Len(dump.classes)
    BY <2>1 DEF Prepared, InstancesIn, Linked, Gone, Indexes
  <2>3. SupersLinked /\ LaidOut(i)
    BY <2>1, <2>2 DEF LInv, InstancesLaidOut
  <2>4. PICK c : c = dump.instances[i].cls
    OBVIOUS
  <2>5. CASE ~KnownClass(c)
    BY <2>3, <2>4, <2>5 DEF LaidOut
  <2>6. CASE KnownClass(c)
    <3>1. PICK N \in Nat : N = Len(dump.classes)
      BY <2>1, Lengths
    <3>2. PICK k \in 1..N : k = FirstClass(c)
      BY <2>1, <2>6, <3>1, KnownFirst
    <3>3. layout[i] = Layout(k) /\ ~Cyclic(k)
      BY <2>3, <2>4, <2>6, <3>2 DEF LaidOut
    <3>4. Supers(superOf, N)
      <4>1. superOf \in Seq(0..N) /\ Len(superOf) = N
        BY <2>3, <3>1 DEF SupersLinked
      <4>2. ASSUME NEW x \in 1..N
            PROVE  /\ HasSuper(x) <=> superOf[x] # 0
                   /\ HasSuper(x) => superOf[x] = FirstClass(dump.classes[x].super)
        <5>1. superOf[x] = IF HasSuper(x) THEN FirstClass(dump.classes[x].super) ELSE 0
          BY <2>2, <2>3, <3>1 DEF SupersLinked
        <5>2. HasSuper(x) => FirstClass(dump.classes[x].super) \in 1..N
          BY <2>1, <3>1, KnownFirst DEF HasSuper
        <5> QED
          BY <5>1, <5>2
      <4> QED
        BY <3>1, <4>1, <4>2 DEF Supers
    <3>5. Tiled(Layout(k)) /\ SizeOf(Layout(k)) = SizeTogether(Ancestors(k))
      BY <2>1, <3>3, <3>4, LayoutIs
    <3> QED
      BY <2>4, <2>6, <3>2, <3>3, <3>5
  <2> QED
    BY <2>4, <2>5, <2>6
<1> QED
  BY <1>1, <1>2, Invariance, PTL

===============================================================================
