------------------------------ MODULE MCHeapValues ------------------------------
\* Bytes of one bit, ids of two and of three of them, values of one and two.
EXTENDS HeapValues

MCSizes == [byte |-> 1, char |-> 2, short |-> 2]
===============================================================================
