------------------------------ MODULE MCRowFetch ------------------------------
(* Small instances of RowFetch for TLC: a refers to b and to nothing, b to a;    *)
(* b is not in the second file.                                                  *)
EXTENDS RowFetch

MCObjects == {"a", "b"}
MCFields == [o \in MCObjects |-> IF o = "a" THEN <<"b", Null>> ELSE <<"a">>]
MCContents == [f \in 1..MaxOpens |-> IF f = 2 THEN {"a"} ELSE {"a", "b"}]
===============================================================================
