---------------------------- MODULE MCObjectPrinter ----------------------------
\* Three objects: two refer to up to two things, the third to one at most; 9 is
\* an id that is not in the heap.
EXTENDS ObjectPrinter

Leaves == {[kind |-> k, refs |-> <<>>] : k \in {"string", "classless"}}
Items(lengths) ==
  Leaves \cup {[kind |-> k, refs |-> r] : k \in {"object", "array"},
                                          r \in UNION {[1..n -> {1, 2, 3, 9}] : n \in lengths}}
MCHeaps == {[id \in 1..3 |-> CASE id = 1 -> a [] id = 2 -> b [] id = 3 -> c] :
              a \in Items({2}), b \in Items({1, 2}), c \in Items({0, 1})}
===============================================================================
