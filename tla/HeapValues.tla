------------------------------- MODULE HeapValues -------------------------------
(***************************************************************************)
(* What is read of an object of the heap: the items of an array and the     *)
(* fields of an instance, by the loop `for (it = ...; it != end; ++it)` from *)
(* begin() or from operator[] (objects_array.h, primitives_array.h,         *)
(* fields.h), each decoded from the bytes of the dump (value_reader.h).  A  *)
(* reference names the object whose id read_id took from the dump           *)
(* (data_reader_v103.h).                                                    *)
(*                                                                          *)
(* A byte is a digit below Base.  What lies behind an object in memory is   *)
(* any byte.  Fields are placed one after the other, as ProfileBuilder shows *)
(* set_class to do, whatever the size of the instance in the dump.          *)
(***************************************************************************)
EXTENDS Integers, Sequences, SequencesExt

CONSTANTS Base,       \* the program has 256
          IdSizes,    \* of ids in a dump, the program has 4 and 8
          IdWidth,    \* sizeof jvm_id_t, 8
          Sizes,      \* primitive type -> jvm_type_t::size
          Signed,     \* those of them that are signed
          MaxItems,   \* bound: items of an array
          MaxFields   \* bound: fields of an instance

Digits == 0..Base - 1
Types == DOMAIN Sizes \cup {"object"}

ASSUME BaseAssumption == Base \in Nat /\ Base > 1 /\ Base % 2 = 0
ASSUME WidthAssumption == IdWidth \in Nat /\ IdSizes \subseteq 1..IdWidth
ASSUME SizesAssumption == /\ "object" \notin DOMAIN Sizes
                          /\ \A t \in DOMAIN Sizes : Sizes[t] \in 1..IdWidth
                          /\ Signed \subseteq DOMAIN Sizes
                          /\ MaxItems \in Nat /\ MaxFields \in Nat

VARIABLES
  idSize,
  kind,      \* "objects", "primitives" or "instance"
  layout,    \* the type of each item
  written,   \* the values the dump was made from
  data,      \* what the dump has of them
  index,     \* the argument of operator[], 0 for begin()
  loop,      \* where it is: "start", "compare", "increment", "done"
  place,     \* _data of an iterator over an array, _it of one over fields
  offset,    \* _offset of one over primitives
  limit,     \* its _data_size, or _end of one over objects
  current,   \* _current: where a value is and its size, 0 if there is none
  taken,     \* history: the values *it gave
  touched    \* history: the bytes read

dump == <<idSize, kind, layout, written, data, index>>
iterator == <<place, offset, limit, current>>
valuesVars == <<dump, loop, iterator, taken, touched>>

-----------------------------------------------------------------------------
\* jvm_type_t::size
Size(t) == IF t = "object" THEN idSize ELSE Sizes[t]
Length == Len(layout)

\* a value starts behind those before it
Places == LET start[n \in 0..Length] == IF n = 0 THEN 0 ELSE start[n - 1] + Size(layout[n]) IN start
Place(i) == Places[i - 1]
ItemSize == IF layout = <<>> THEN 1 ELSE Size(layout[1])

\* how many numbers so many bytes have
Power[n \in 0..IdWidth] == IF n = 0 THEN 1 ELSE Base * Power[n - 1]

\* a fault: the first byte is the least significant one
NumberReversed(bytes) == FoldRight(LAMBDA b, n : n * Base + b, bytes, 0)

\* read_value: the first byte is the most significant one
Number(bytes) ==
  LET number[n \in 0..Len(bytes)] == IF n = 0 THEN 0 ELSE number[n - 1] * Base + bytes[n]
  IN number[Len(bytes)]
AsSigned(n, size) == IF n < Power[size] \div 2 THEN n ELSE n - Power[size]

ReadValue(t, bytes) ==
  IF t \in Signed THEN AsSigned(Number(bytes), Len(bytes)) ELSE Number(bytes)

\* a fault: an id of eight bytes read as one of four
ReadIdNarrow(bytes) == AsSigned(Number(bytes), Len(bytes)) % Power[IdWidth - 1]

\* read_int32 and read_int64 return signed integers, and an id is as wide as the
\* longer of them
ReadId(bytes) == AsSigned(Number(bytes), Len(bytes)) % Power[IdWidth]

\* the bytes of a value in a dump, for signed ones the two's complement
Encode(t, v) == [k \in 1..Size(t) |-> (v \div Power[Size(t) - k]) % Base]
Values(t) == {ReadValue(t, bytes) : bytes \in [1..Size(t) -> Digits]}
EncodeAll ==
  LET encoded[n \in 0..Length] ==
        IF n = 0 THEN <<>> ELSE encoded[n - 1] \o Encode(layout[n], written[n])
  IN encoded[Length]

\* an array is as long as its items, an instance as the dump says
DataSizes == IF kind = "instance" THEN 0..Places[Length] + 1 ELSE {Places[Length]}

ValuesInit ==
  /\ idSize \in IdSizes
  /\ kind \in {"objects", "primitives", "instance"}
  /\ \E n \in 0..(IF kind = "instance" THEN MaxFields ELSE MaxItems) :
       /\ layout \in CASE kind = "objects" -> {[i \in 1..n |-> "object"]}
                       [] kind = "primitives" -> {[i \in 1..n |-> t] : t \in DOMAIN Sizes}
                       [] kind = "instance" -> [1..n -> Types]
       /\ written \in {w \in [1..n -> UNION {Values(t) : t \in Types}] :
                         \A i \in 1..n : w[i] \in Values(layout[i])}
       /\ index \in 0..n + 1
  /\ \E n \in DataSizes : data = SubSeq(EncodeAll \o <<0>>, 1, n)
  /\ loop = "start"
  /\ place = 0 /\ offset = 0 /\ limit = 0 /\ current = <<0, 0>>
  /\ taken = <<>> /\ touched = {}

Cells(cell) == cell[1] + 1..cell[1] + cell[2]

-----------------------------------------------------------------------------
\* a fault: the iterator over objects is not told where the items end
FetchCurrentUnbounded(p, end) ==
  /\ current' = <<p, idSize>>
  /\ touched' = touched \cup Cells(current')

\* objects_array: fetch_current reads the item the iterator has come to, and
\* nothing behind the last one
FetchCurrent(p, end) ==
  /\ current' = <<p, IF p + idSize < end THEN idSize ELSE end - p>>
  /\ touched' = touched \cup Cells(current')

BeginObjects ==
  /\ kind = "objects" /\ loop = "start"
  /\ place' = idSize * (IF index < Length THEN index ELSE Length)
  /\ limit' = idSize * Length
  /\ FetchCurrent(place', limit')
  /\ loop' = "compare"
  /\ UNCHANGED <<dump, offset, taken>>

NextObject ==
  /\ kind = "objects" /\ loop = "increment"
  /\ place' = place + idSize
  /\ FetchCurrent(place', limit)
  /\ loop' = "compare"
  /\ UNCHANGED <<dump, offset, limit, taken>>

\* primitives_array: the reader of a value is made at once, its bytes are read when
\* the value is asked for; an index behind the last item gives end()
BeginPrimitives ==
  /\ kind = "primitives" /\ loop = "start"
  /\ LET item == IF index < Length THEN index ELSE Length
     IN  /\ place' = ItemSize * item
         /\ limit' = Len(data) - place'
         /\ current' = <<place', ItemSize>>
  /\ loop' = "compare"
  /\ UNCHANGED <<dump, offset, taken, touched>>

NextPrimitive ==
  /\ kind = "primitives" /\ loop = "increment"
  /\ \/ offset = limit /\ UNCHANGED <<offset, current>>
     \/ /\ offset # limit
        /\ offset' = offset + ItemSize
        /\ current' = IF offset' >= limit THEN <<0, 0>> ELSE <<place + offset', ItemSize>>
  /\ loop' = "compare"
  /\ UNCHANGED <<dump, place, limit, taken, touched>>

BeginFields ==
  /\ kind = "instance" /\ loop = "start"
  /\ place' = IF index < Length THEN index ELSE Length
  /\ loop' = "compare"
  /\ UNCHANGED <<dump, offset, limit, current, taken, touched>>

NextField ==
  /\ kind = "instance" /\ loop = "increment"
  /\ place' = place + 1
  /\ loop' = "compare"
  /\ UNCHANGED <<dump, offset, limit, current, taken, touched>>

-----------------------------------------------------------------------------
\* it != end()
AtEnd == CASE kind = "objects" -> place = idSize * Length
           [] kind = "primitives" -> place + offset = ItemSize * Length
           [] kind = "instance" -> place = Length

End == /\ loop = "compare" /\ AtEnd
       /\ loop' = "done"
       /\ UNCHANGED <<dump, iterator, taken, touched>>

\* so that a loop that cannot go on is a deadlock
Ended == loop = "done" /\ UNCHANGED valuesVars

\* *it, and its conversion to the type of the item
Take ==
  /\ loop = "compare" /\ ~AtEnd
  /\ current' = IF kind = "instance" THEN <<Place(place + 1), Size(layout[place + 1])>> ELSE current
  /\ touched' = touched \cup Cells(current')
  /\ \E bytes \in [1..current'[2] -> Digits] :
       /\ \A k \in DOMAIN bytes :
            current'[1] + k \in DOMAIN data => bytes[k] = data[current'[1] + k]
       /\ taken' = Append(taken, ReadValue(IF kind = "instance" THEN layout[place + 1] ELSE layout[1],
                                           bytes))
  /\ loop' = "increment"
  /\ UNCHANGED <<dump, place, offset, limit>>

ValuesNext == \/ BeginObjects \/ NextObject \/ BeginPrimitives \/ NextPrimitive
        \/ BeginFields \/ NextField \/ Take \/ End \/ Ended

ValuesSpec == ValuesInit /\ [][ValuesNext]_valuesVars

-----------------------------------------------------------------------------
\* A loop from any index gives every item behind it, once and in order, as the dump
\* was written; of an instance the fields that lie within it (operator[], ++ and the
\* decoding agree with each other).
ItemsAsWritten ==
  loop = "done" =>
    LET first == IF index < Length THEN index ELSE Length
    IN  /\ Len(taken) = Length - first
        /\ \A i \in first + 1..Length :
             Place(i) + Size(layout[i]) <= Len(data) => taken[i - first] = written[i]

\* Nothing outside an array is ever read; of an instance only fields that its class
\* has and its data do not (set_class does not compare the two, instance.cxx:31).
PastEndOnlyIfShort ==
  \/ touched \subseteq DOMAIN data
  \/ kind = "instance" /\ touched \subseteq 1..Places[Length]

\* A reference that was taken names one object, the one with the bytes of the
\* reference as its id; it names none if those are fewer than jvm_id_t has and the
\* first of them has its top bit set (read_id extends the sign).
ReferencesFound ==
  loop = "done" /\ kind = "objects" =>
    \A i \in DOMAIN taken : \A id \in [1..idSize -> Digits] :
      taken[i] = ReadId(id) <=> /\ Number(id) = written[Length - Len(taken) + i]
                                /\ \/ idSize = IdWidth
                                   \/ id[1] < Base \div 2

\* What test_fields.h:257-261 states of an id with the top bit set, that it is the
\* number its bytes are, holds of ids that are read from the dump: every reference
\* names the object with its bytes as the id (data_reader_v103.h:108).
EveryReferenceFound ==
  loop = "done" /\ kind = "objects" =>
    \A i \in DOMAIN taken :
      taken[i] = ReadId(Encode("object", written[Length - Len(taken) + i]))
==============================================================================
