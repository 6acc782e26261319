----------------------------- MODULE MCDumpReader -----------------------------
(***************************************************************************)
(* Files for DumpReader: a pool of items that covers every kind, with and   *)
(* without a variable part; segments of up to two of them, alone, after     *)
(* strings, between other records; every cut of each; wrong declared sizes. *)
(***************************************************************************)
EXTENDS DumpReader

MCNoName == 0   \* texts are numbers from 21 on

It(kind, id, ref, len, statics, fields) ==
  [kind |-> kind, id |-> id, ref |-> ref, len |-> len, type |-> "char",
   statics |-> statics, fields |-> fields]
Plain(kind, id, ref, len) == It(kind, id, ref, len, <<>>, <<>>)
Field(name, type) == [name |-> name, type |-> type]

Class == It("class", 1, 2, 8, <<Field(11, "int"), Field(13, "object")>>,
            <<Field(12, "object"), Field(11, "short"), Field(12, "long")>>)
StaticsOnly == It("class", 3, 2, 0, <<Field(11, "bool")>>, <<>>)
EmptyClass == Plain("class", 2, 0, 0)
Instance == Plain("instance", 4, 1, 6)
EmptyInstance == Plain("instance", 5, 2, 0)
Array == Plain("objects", 6, 1, 2)
EmptyArray == Plain("objects", 7, 1, 0)
Chars == Plain("primitives", 8, 0, 3)
NoData == Plain("nodata", 9, 0, 0)
Info1 == Plain("info", 11, 0, 1)
Info2 == Plain("info", 12, 0, 2)
Root == Plain("STICKY_CLASS", 2, 0, 0)
LocalRoot == Plain("JNI_LOCAL", 4, 0, 0)
GlobalRoot == Plain("JNI_GLOBAL", 4, 0, 0)
BareRoot == Plain("FINALIZING", 0, 0, 0)
Unknown == Plain("no such subtype", 0, 0, 0)

Pool == {Class, StaticsOnly, EmptyClass, Instance, EmptyInstance, Array, EmptyArray, Chars, NoData,
         Info1, Info2, Root, LocalRoot, GlobalRoot, BareRoot, Unknown}

Rec(tag, id, ref, len, items) ==
  [tag |-> tag, id |-> id, ref |-> ref, len |-> len, items |-> items, lie |-> 0]
String(id, text, len) == Rec("UTF8_STRING", id, text, len, <<>>)
LoadClass(id, name) == Rec("LOAD_CLASS", id, name, 0, <<>>)
Frame == Rec("STACK_FRAME", 0, 0, 3, <<>>)
Trace(depth) == Rec("STACK_TRACE", 0, 0, depth, <<>>)
Segment(items) == Rec("HEAP_DUMP_SEGMENT", 0, 0, 0, items)
End == Rec("HEAP_DUMP_END", 0, 0, 0, <<>>)
Refused == Rec("HEAP_SUMMARY", 0, 0, 0, <<>>)

File(width, records) == [idSize |-> width, records |-> records]

\* every pair of items, in a segment of its own
Pairs == {File(4, <<Segment(<<a, b>>)>>) : a \in Pool, b \in Pool}

\* the records around segments; names before and after their use; ids twice
Whole == {
  File(4, <<String(11, 21, 1), String(12, 22, 2), String(11, 23, 1), LoadClass(1, 11), LoadClass(1, 12),
            Trace(1), Segment(<<Info1, Class, Instance>>), Segment(<<Chars, Info2, Info1>>),
            Segment(<<Array, Root>>), End>>),
  File(8, <<String(11, 21, 1), Segment(<<EmptyClass, Class>>), String(12, 22, 2),
            Segment(<<Class, Chars, Instance, Info2>>), LoadClass(2, 12), End>>),
  File(4, <<Frame, Trace(0), LoadClass(1, 11), Trace(2)>>),
  File(4, <<Segment(<<>>), Segment(<<Info1>>), Segment(<<NoData, LocalRoot>>)>>),
  File(4, <<Segment(<<Root>>), Refused, End>>),
  File(4, <<Segment(<<Root>>), [End EXCEPT !.len = 3]>>),
  File(4, <<String(11, 24, 0), End>>),
  File(4, <<String(0, 21, 1)>>),
  File(2, <<Segment(<<BareRoot, Root>>)>>),
  File(2, <<String(11, 21, 1)>>),
  File(2, <<LoadClass(1, 11)>>),
  File(256, <<End>>)}

Lie(r, n) == [r EXCEPT !.lie = n]

\* segments and class records whose header declares a few bytes too many or
\* too few, last in the file and followed by another record
Lying == UNION {{File(4, <<Lie(Segment(<<a, b>>), n)>>), File(4, <<Lie(Segment(<<a, b>>), n), Segment(<<Root>>)>>),
                 File(4, <<Lie(LoadClass(1, 11), n), End>>), File(4, <<Lie(Frame, n), End>>)} :
                  a \in Pool, b \in Pool, n \in {-6, -4, -2, -1, 1, 4}}

\* a class whose static values have no place in what its record declares
LongStatics == It("class", 1, 0, 0, <<Field(11, "long"), Field(13, "double")>>, <<>>)
Crowded == {File(4, <<Lie(Segment(<<LongStatics>>), n), Segment(<<Root>>)>>) : n \in -50..-6}
             \cup {File(4, <<Lie(Segment(<<LongStatics>>), n)>>) : n \in -50..-6}

AllFiles == Pairs \cup Whole \cup Lying \cup Crowded

\* for the run that refutes a claim: a class dump behind an instance, and one that
\* has static fields only
ClassFiles == {File(4, <<Segment(<<EmptyInstance, Class>>)>>),
               File(8, <<String(11, 21, 1), Segment(<<StaticsOnly, Chars>>), End>>)}
===============================================================================
