----------------------------- MODULE MCHeapQuery -----------------------------
(* Small heaps and filters for HeapQuery.  Classes 10 and 11 < 10, strings are  *)
(* of class 12, whose super class is not in the dump.                           *)
EXTENDS HeapQuery

MCUpper == [c \in {".", "a", "A"} |-> IF c = "a" THEN "A" ELSE c]
MCStringName == <<"a", ".", "A">>
Base == <<"a">>
Derived == <<"A", ".", "a", "a">>

Field(n, t, v) == [name |-> n, type |-> t, value |-> v, nan |-> FALSE]
NaN(n) == [name |-> n, type |-> "double", value |-> 0, nan |-> TRUE]

MCClasses == [c \in {10, 11, 12} |->
                CASE c = 10 -> [name |-> Base, super |-> 0]
                  [] c = 11 -> [name |-> Derived, super |-> 10]
                  [] c = 12 -> [name |-> MCStringName, super |-> 99]]

\* An object of 11 whose x hides the x of 10, an object of 10, and a string, an array or
\* an object whose class is not in the dump, so that set_class was not called.
MCHeaps ==
  {[classes |-> MCClasses,
    objects |-> [id \in 1..3 |->
      CASE id = 1 -> [kind |-> "object", class |-> 11,
                      fields |-> <<Field("x", "int", i), Field("a", "object", ref),
                                   Field("x", "int", 4), Field("b", "bool", TRUE)>>]
        [] id = 2 -> [kind |-> "object", class |-> 10,
                      fields |-> <<x, Field("a", "object", 3)>>]
        [] id = 3 -> third]] :
     i \in {0, 2}, ref \in {0, 1, 2, 3, 9}, x \in {Field("x", "float", 1), Field("x", "float", 3), NaN("x")},
     third \in {[kind |-> "string", class |-> 12, fields |-> <<>>, text |-> "s"], [kind |-> "array"],
              [kind |-> "object", class |-> 98, fields |-> <<>>]}}

Compared(p, o, l) == [op |-> "compare", path |-> p, operation |-> o, literal |-> l]
Number(t, v) == [type |-> t, value |-> v]
MCLiterals == {Number("int", 2), Number("double", 1), Number("double", 3),
               [type |-> "text", value |-> "s"], [type |-> "text", value |-> "t"]}
Paths == {<<"x">>, <<"a">>, <<"b">>, <<"a", "x">>, <<"a", "a">>, <<"x", "x">>, <<"a", "a", "x">>}

Equalities == {Compared(p, "=", l) : p \in Paths, l \in MCLiterals}
Orders == {Compared(p, o, Number("int", 2)) : p \in {<<"x">>, <<"a", "x">>}, o \in Operations}
Instances == {[op |-> "instanceof", path |-> p, class |-> c] :
                p \in {<<>>, <<"a">>, <<"a", "a">>}, c \in {Base, Derived, MCStringName}}
Parts == {Compared(<<"x">>, "<", Number("double", 3)), Compared(<<"a">>, "!=", [type |-> "text", value |-> "t"]),
          [op |-> "instanceof", path |-> <<>>, class |-> Base]}
Both(o, l, r) == [op |-> o, left |-> l, right |-> r]
Pairs == {<<l, r, Both(o, 1, 2)>> : o \in {"and", "or"}, l \in Parts, r \in Parts}
Triples == {<<l, p[1], p[2], Both(p[3].op, 2, 3), Both(o, 1, 4)>> :
              o \in {"and", "or"}, l \in Parts, p \in {q \in Pairs : q[1] # q[2]}}

MCFilters == {<<f>> : f \in Equalities \cup Orders \cup Instances} \cup Pairs \cup Triples

\* The filter by class name: an object of a class with each name of up to four
\* characters, beside a string and an array, and each text of up to four.
Texts == UNION {[1..n -> Chars] : n \in 0..4}
NameHeap(name) == [classes |-> [c \in {10} |-> [name |-> name, super |-> 0]],
                   objects |-> [id \in 1..3 |->
                     CASE id = 1 -> [kind |-> "object", class |-> 10, fields |-> <<>>]
                       [] id = 2 -> [kind |-> "string", class |-> 12, fields |-> <<>>, text |-> "s"]
                       [] id = 3 -> [kind |-> "array"]]]
NameFilter(text) == <<[op |-> "classname", text |-> text]>>

MCQuestions == [heap : MCHeaps, filter : MCFilters]
               \cup [heap : {NameHeap(n) : n \in Texts}, filter : {NameFilter(t) : t \in Texts}]
=============================================================================
