--------------------------- MODULE MCProfileBuilder ---------------------------
(* Dumps for ProfileBuilder: every combination of a few class hierarchies,    *)
(* arrays and instances, broken and contradictory ones among them.            *)
EXTENDS ProfileBuilder

FieldAt(name, type, offset) == [name |-> name, type |-> type, offset |-> offset]

Text == <<FieldAt("value", "object", 0), FieldAt("count", "int", 4)>>
Part == <<FieldAt("flag", "byte", 0), FieldAt("next", "object", 1)>>
Odd  == <<FieldAt("value", "long", 0)>>

Class(id, super, fields) == [id |-> id, super |-> super, fields |-> fields]

\* Classes 1 and 2 are named java.lang.String and x, 4 as the string class too;
\* 3 was never loaded, 5 has a name that was never read.
Names == [i \in {1, 2, 4, 5} |-> 10 * i]
Strings == 10 :> "java.lang.String" @@ 20 :> "x" @@ 40 :> "java.lang.String"

Hierarchies == {
  <<>>,
  <<Class(1, 0, Text)>>,
  <<Class(2, 0, Part), Class(1, 2, Text)>>,
  <<Class(1, 2, Text), Class(2, 3, Part), Class(3, 0, Odd)>>,  \* super classes behind
  <<Class(2, 1, Text), Class(1, 0, Odd)>>,                     \* the own value hides the inherited one
  <<Class(1, 0, Odd), Class(4, 1, Text)>>,                     \* two string classes
  <<Class(2, 9, Part), Class(5, 5, Odd)>>,                     \* unknown super, own super
  <<Class(2, 3, Part), Class(3, 2, Odd), Class(1, 0, Text)>>,  \* a cycle of two
  <<Class(1, 0, Text), Class(1, 2, Part), Class(2, 0, Odd)>> } \* one id twice

CharArray(id) == [id |-> id, type |-> "char"]
IntArray(id)  == [id |-> id, type |-> "int"]

Primitives == { <<>>, <<CharArray(101)>>, <<IntArray(101), CharArray(102)>>,
                <<CharArray(101), IntArray(101)>>, <<CharArray(201)>> }

Instance(id, cls, value) == [id |-> id, cls |-> cls, value |-> value]

Objects == { Instance(201, c, v) : c \in {0, 1, 2, 4}, v \in {0, 101} }
           \cup { Instance(202, c, 102) : c \in {1, 3, 5, 9} }

Instances == { <<>> } \cup { <<a>> : a \in Objects }
             \cup { <<a, b>> : a \in {Instance(201, 1, 101), Instance(201, 2, 101)}, b \in Objects }

Arrays == { <<>>, <<[id |-> 301]>>, <<[id |-> 201], [id |-> 101]>> }

MCDumps == [strings : {Strings}, loaded : {Names}, classes : Hierarchies,
            prims : Primitives, instances : Instances, arrays : Arrays]
===============================================================================
