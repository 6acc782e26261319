------------------------------ MODULE DumpReader ------------------------------
(***************************************************************************)
(* data_reader_v103_t::build up to the call of prepare: reading a heap     *)
(* profile record by record from a stream that may end anywhere.           *)
(*                                                                         *)
(* A file is what a producer wrote: records, and in a heap dump segment    *)
(* items, with the byte widths of the format.  cut is how many of its      *)
(* bytes (after the magic) are there.  The reader does not see this        *)
(* structure: it moves a cursor by what its own reads consume, a value is  *)
(* what was written when all its bytes are before the cut and 0 otherwise, *)
(* and a cursor that leaves the structure is "astray".                     *)
(***************************************************************************)
EXTENDS Integers, Sequences, FiniteSets, SequencesExt

CONSTANTS Files,      \* the files to read, see the record shapes below
          NoName      \* the empty std::string

VARIABLES
  file,      \* [idSize, records]
  cut,       \* bytes available; a file that was not truncated has all
  idSize,    \* heap_profile_data_t::id_size
  stage,     \* where build is, or how it ended
  rec,       \* index of the record to read next or being read
  seg,       \* locals of read_heap_dump_segment: [item, heapType, mark]
  cur,       \* stream position and section reader: [pos, left, err]
  data       \* heap_profile_data_t: [strings, loaded, objects, roots]

input == <<file, cut>>
vars == <<file, cut, idSize, stage, rec, seg, cur, data>>

\* A record: [tag, id, ref, len, items, lie].  ref is the text of a string or
\* the name id of a loaded class, len the length of a text or of a stack
\* trace, lie the error in the size the header declares.
\* An item: [kind, id, ref, len, type, statics, fields].  ref is the super class
\* or the class; len the instance size, data size or length, or the heap type
\* of HEAP_DUMP_INFO; type that of an array's elements.  A field: [name, type].

Terminal == {"loaded", "error", "aborted", "astray"}
Stages == {"start", "header", "body", "segment"} \cup Terminal

\* int32 fields after the object id, per root subtype
RootInts == [UNKNOWN |-> 0, JNI_GLOBAL |-> 1, JNI_LOCAL |-> 2, JAVA_FRAME |-> 2,
             NATIVE_STACK |-> 1, STICKY_CLASS |-> 0, THREAD_BLOCK |-> 1,
             MONITOR_USED |-> 0, THREAD_OBJECT |-> 2, INTERNED_STRING |-> 0,
             DEBUGGER |-> 0, VM_INTERNAL |-> 0, JNI_MONITOR |-> 2]
BareRoots == {"FINALIZING", "REFERENCE_CLEANUP", "UNREACHABLE"}
ObjectKinds == {"class", "instance", "objects", "primitives"}

\* get_field_size
FieldSize(type, width) ==
  CASE type = "object" -> width
    [] type \in {"bool", "byte"} -> 1
    [] type \in {"char", "short"} -> 2
    [] type \in {"float", "int"} -> 4
    [] type \in {"double", "long"} -> 8

\* the first n of some numbers, added up
Added(numbers, n) ==
  LET sum[k \in 0..n] == IF k = 0 THEN 0 ELSE sum[k - 1] + numbers[k] IN sum[n]

-------------------------------------------------------------------------------
(* The layout of a file, as a producer writes it. *)
StaticBytes(it, w) == [k \in DOMAIN it.statics |-> w + 1 + FieldSize(it.statics[k].type, w)]

ItemBytes(it, w) ==
  1 + CASE it.kind = "class" -> 7 * w + 14 + Added(StaticBytes(it, w), Len(it.statics))
                                         + Len(it.fields) * (w + 1)
        [] it.kind = "instance" -> 2 * w + 8 + it.len
        [] it.kind = "objects" -> 2 * w + 8 + it.len * w
        [] it.kind = "primitives" -> w + 9 + it.len * FieldSize(it.type, w)
        [] it.kind = "nodata" -> w + 5
        [] it.kind = "info" -> w + 4
        [] it.kind \in DOMAIN RootInts -> w + 4 * RootInts[it.kind]
        [] OTHER -> 0

ItemSizes(r, w) == [k \in DOMAIN r.items |-> ItemBytes(r.items[k], w)]

BodyBytes(r, w) ==
  CASE r.tag = "UTF8_STRING" -> w + r.len
    [] r.tag = "LOAD_CLASS" -> 2 * w + 8
    [] r.tag = "STACK_TRACE" -> 12 + 4 * r.len
    [] r.tag = "HEAP_DUMP_SEGMENT" -> Added(ItemSizes(r, w), Len(r.items))
    [] OTHER -> r.len

\* Position of the header of record n; of the end of the file for n = Len + 1.
RecordSizes(f) == [n \in DOMAIN f.records |-> 9 + BodyBytes(f.records[n], f.idSize)]
RecordStart(f, n) == 12 + Added(RecordSizes(f), n - 1)

FileBytes(f) == RecordStart(f, Len(f.records) + 1)

ItemStart(f, n, k) ==
  RecordStart(f, n) + 9 + Added(ItemSizes(f.records[n], f.idSize), k - 1)

\* What a file can hold: numbers that are not negative in the signed fields they are
\* read into, names and texts numbered.  A declared size is an int32_t, converted to
\* size_t; a string's is not less than its id, for text[length + 1] is on the stack.
\* What an item's kind does not have is 0 or empty.
Types == {"object", "bool", "byte", "char", "short", "float", "int", "double", "long"}
Number == {n \in Nat : n <= 2147483647}
Int32 == {n \in Int : -n - 1 \in Number \/ n \in Number}
FieldShape == [name : Nat, type : Types]
ItemShape == [kind : STRING, id : Nat, ref : Nat, len : Number, type : Types,
              statics : Seq(FieldShape), fields : Seq(FieldShape)]
RecordShape == [tag : STRING, id : Nat, ref : Nat, len : Number, items : Seq(ItemShape), lie : Int]

\* An id size of 256 is one that uint8_t does not hold.
Sized(r, w) ==
  /\ BodyBytes(r, w) + r.lie \in Int32
  /\ r.tag = "UTF8_STRING" => r.len + r.lie >= 0
  /\ \A k \in DOMAIN r.items :
       /\ Len(r.items[k].statics) <= 32767 /\ Len(r.items[k].fields) <= 32767
       /\ r.items[k].kind # "class" => r.items[k].statics = <<>> /\ r.items[k].fields = <<>>
       /\ r.items[k].kind = "primitives" => r.items[k].ref = 0

WellFormed(f) ==
  /\ f \in [idSize : 0..256, records : Seq(RecordShape)]
  /\ \A n \in DOMAIN f.records : Sized(f.records[n], f.idSize)

ASSUME FilesAssumption == \A f \in Files : WellFormed(f)

-------------------------------------------------------------------------------
(* The section reader: what one read does to the cursor.  left is          *)
(* _data_left; read_id subtracts without a test, so left below 0 stands    *)
(* for the huge value the unsigned subtraction leaves.                     *)
Fixed(c, n) == IF c.left \in 0..(n - 1) THEN [c EXCEPT !.err = TRUE]
               ELSE [c EXCEPT !.pos = @ + n, !.left = @ - n]

Read(c, op) ==
  CASE op = "id" -> [c EXCEPT !.pos = @ + idSize, !.left = @ - idSize]
    [] op = "int" -> Fixed(c, 4)
    [] op = "short" -> Fixed(c, 2)
    [] op = "byte" -> Fixed(c, 1)

\* (faulty variant: a short read is not an error)
BytesUnchecked(c, n) == IF c.pos + n > cut THEN [c EXCEPT !.pos = @ + n, !.left = @ - n]
                        ELSE [c EXCEPT !.pos = @ + n, !.left = @ - n]

Bytes(c, n) == IF n = 0 THEN c
               ELSE IF c.pos + n > cut THEN [c EXCEPT !.pos = @ + n, !.err = TRUE]
               ELSE [c EXCEPT !.pos = @ + n, !.left = @ - n]

\* the cursor after the first n of some reads
After(c, ops, n) ==
  LET read[k \in 0..n] == IF k = 0 THEN c ELSE Read(read[k - 1], ops[k]) IN read[n]

Reads(c, ops) == After(c, ops, Len(ops))

\* The value of the read that moved the cursor from before to after: written
\* as v, but 0 past the end of the stream or of the section's budget.
Got(before, after, v) == IF after.pos \in (before.pos + 1)..cut THEN v ELSE 0

ValueAt(c, ops, k, v) == Got(After(c, ops, k - 1), After(c, ops, k), v)

\* std::unordered_map::emplace: an existing entry stays
Emplace(f, k, v) == IF k \in DOMAIN f THEN f
                    ELSE [x \in DOMAIN f \cup {k} |-> IF x = k THEN v ELSE f[x]]

-------------------------------------------------------------------------------
Record == file.records[rec]
Item == Record.items[seg.item]

Failed == /\ stage' = "error"
          /\ UNCHANGED <<input, idSize, rec, seg, cur, data>>

Aborted == /\ stage' = "aborted"
           /\ UNCHANGED <<input, idSize, rec, seg, cur, data>>

Astray == /\ stage' = "astray"
          /\ UNCHANGED <<input, idSize, rec, seg, cur, data>>

\* a section handler returned true
Processed(c) == /\ stage' = "header"
                /\ rec' = rec + 1
                /\ cur' = c
                /\ UNCHANGED <<input, idSize, seg>>

Init == /\ file \in Files
        /\ cut \in 0..FileBytes(file)
        /\ (\E n \in 1..Len(file.records) : file.records[n].lie # 0) => cut = FileBytes(file)
        /\ idSize = 0
        /\ stage = "start"
        /\ rec = 1
        /\ seg = [item |-> 1, heapType |-> 0, mark |-> 0]
        /\ cur = [pos |-> 0, left |-> 0, err |-> FALSE]
        /\ data = [strings |-> <<>>, loaded |-> <<>>, objects |-> <<>>, roots |-> <<>>]

ReadFileHeader ==
  /\ stage = "start"
  /\ IF cut < 12 \/ file.idSize % 256 = 0
     THEN Failed
     ELSE /\ idSize' = file.idSize % 256
          /\ stage' = "header"
          /\ cur' = [cur EXCEPT !.pos = 12]
          /\ UNCHANGED <<input, rec, seg, data>>

\* next_record: DONE
NoMoreRecords == /\ stage = "header"
                 /\ cur.pos >= cut
                 /\ stage' = "loaded"
                 /\ UNCHANGED <<input, idSize, rec, seg, cur, data>>

\* next_record: FAILED
HeaderTruncated == /\ stage = "header"
                   /\ cut \in (cur.pos + 1)..(cur.pos + 8)
                   /\ Failed

\* next_record: HAS_NEXT_TOKEN
NextRecord == /\ stage = "header"
              /\ cur.pos + 9 <= cut
              /\ rec <= Len(file.records) /\ cur.pos = RecordStart(file, rec)
              /\ stage' = "body"
              /\ cur' = [pos |-> cur.pos + 9, err |-> FALSE,
                         left |-> BodyBytes(Record, file.idSize) + Record.lie]
              /\ UNCHANGED <<input, idSize, rec, seg, data>>

\* what is read as a header is the middle of something else
HeaderAstray == /\ stage = "header"
                /\ cur.pos + 9 <= cut
                /\ rec > Len(file.records) \/ cur.pos # RecordStart(file, rec)
                /\ Astray

Body(tag) == stage = "body" /\ Record.tag = tag

\* read_id knows two widths and asserts on any other
IdsReadable == idSize \in {4, 8}

-------------------------------------------------------------------------------
(* The section handlers outside a heap dump segment. *)
ReadUtf8String ==
  /\ Body("UTF8_STRING") /\ IdsReadable
  /\ LET named == Read(cur, "id")
         id == Got(cur, named, Record.id)
         text == Bytes(named, named.left)
     IN IF id = 0 \/ named.left = 0 \/ text.err
        THEN Failed
        ELSE /\ Processed(text)
             /\ data' = [data EXCEPT !.strings = Emplace(@, id, Record.ref)]

LoadClassOps == <<"int", "id", "int", "id">>

ReadLoadClass ==
  /\ Body("LOAD_CLASS") /\ IdsReadable
  /\ LET read == Reads(cur, LoadClassOps)
         classId == ValueAt(cur, LoadClassOps, 2, Record.id)
         nameId == ValueAt(cur, LoadClassOps, 4, Record.ref)
     IN IF read.err
        THEN Failed
        ELSE /\ Processed(read)
             /\ data' = [data EXCEPT !.loaded = Emplace(@, classId, nameId)]

\* skip_all gives up at the end of the stream, before a size that wrapped
ReadStackFrame ==
  /\ Body("STACK_FRAME")
  /\ IF cur.left < 0 \/ cur.pos + cur.left > cut
     THEN Failed
     ELSE /\ Processed([cur EXCEPT !.pos = @ + cur.left])
          /\ UNCHANGED data

StackTraceOps == <<"int", "int", "int">>

ReadStackTrace ==
  /\ Body("STACK_TRACE")
  /\ LET depth == ValueAt(cur, StackTraceOps, 3, Record.len)
         read == Reads(Reads(cur, StackTraceOps), [k \in 1..depth |-> "int"])
     IN IF read.err
        THEN Failed
        ELSE Processed(read) /\ UNCHANGED data

HeapDumpEnd == Body("HEAP_DUMP_END") /\ Processed(cur) /\ UNCHANGED data

\* the tags process_next_token refuses, known or not
UnsupportedTag ==
  /\ stage = "body"
  /\ Record.tag \notin {"UTF8_STRING", "LOAD_CLASS", "STACK_FRAME", "STACK_TRACE",
                        "HEAP_DUMP_SEGMENT", "HEAP_DUMP_END"}
  /\ Failed

EnterSegment == /\ Body("HEAP_DUMP_SEGMENT")
                /\ stage' = "segment"
                /\ seg' = [item |-> 1, heapType |-> 0, mark |-> Len(data.objects)]
                /\ UNCHANGED <<input, idSize, rec, cur, data>>

-------------------------------------------------------------------------------
(* read_heap_dump_segment: one iteration of its loop per action. *)

\* the loop reads a subtype byte
MoreData == stage = "segment" /\ cur.left # 0
\* and it is that of the next item
InStep == seg.item <= Len(Record.items) /\ cur.pos = ItemStart(file, rec, seg.item)

\* the subtype byte is missing, reads as 0 and is no subtype; or an earlier
\* read of this section left the error flag set
SubtypeLost == /\ MoreData
               /\ cur.err \/ cur.pos >= cut
               /\ Failed

\* the declared size goes on where the items have ended, or what is read as a
\* subtype is none
SegmentAstray == /\ MoreData /\ ~cur.err /\ cur.pos < cut
                 /\ ~InStep
                 /\ Astray

AtItem(kinds) == /\ MoreData /\ ~cur.err /\ cur.pos < cut
                 /\ InStep
                 /\ Item.kind \in kinds

\* the cursor behind the subtype byte
Sub == Read(cur, "byte")

NextItem(c) == /\ cur' = c
               /\ UNCHANGED <<input, idSize, stage, rec>>

Loads(c, object) == /\ NextItem(c)
                    /\ seg' = [seg EXCEPT !.item = @ + 1]
                    /\ data' = [data EXCEPT !.objects = Append(@, object)]

Object(id, ref, len, statics, fields) ==
  [kind |-> Item.kind, id |-> id, ref |-> ref, len |-> len, type |-> Item.type,
   statics |-> statics, fields |-> fields, heap |-> 0]

\* a field's name is looked up when the class is read
FieldSpec(f, offset) ==
  [name |-> IF f.name \in DOMAIN data.strings THEN data.strings[f.name] ELSE NoName,
   type |-> f.type, offset |-> offset]

Collected(c) == [c |-> c, out |-> "ok", offset |-> 0, specs |-> <<>>]

Collect(acc, f, c) == [c |-> c, out |-> "ok", offset |-> acc.offset + FieldSize(f.type, idSize),
                       specs |-> Append(acc.specs, FieldSpec(f, acc.offset))]

\* One round of the static field loop: get_field_size asserts on a type that reads
\* as 0, before the error flag is looked at.  At the end of the stream read_bytes
\* has copied what there was.
StaticField(acc, f) ==
  LET typed == Reads(acc.c, <<"id", "byte">>)
      valued == Bytes(typed, FieldSize(f.type, idSize))
  IN CASE acc.out # "ok" -> acc
       [] acc.out = "ok" /\ (typed.err \/ typed.pos > cut) -> [acc EXCEPT !.out = "abort"]
       [] acc.out = "ok" /\ ~typed.err /\ typed.pos <= cut /\ valued.err
            -> [acc EXCEPT !.out = "fail", !.c = valued, !.offset = @ + (cut - typed.pos)]
       [] OTHER -> Collect(acc, f, valued)

\* one round of the instance field loop; here the flag is looked at first
InstanceField(acc, f) ==
  LET typed == Reads(acc.c, <<"id", "byte">>)
  IN CASE acc.out # "ok" -> acc
       [] acc.out = "ok" /\ typed.err -> [acc EXCEPT !.out = "fail", !.c = typed]
       [] acc.out = "ok" /\ ~typed.err /\ typed.pos > cut -> [acc EXCEPT !.out = "abort"]
       [] OTHER -> Collect(acc, f, typed)

ClassOps == <<"id", "int", "id", "id", "id", "id", "id", "id", "int", "short">>

Statics(c, fs, n) ==
  LET read[k \in 0..n] == IF k = 0 THEN Collected(c) ELSE StaticField(read[k - 1], fs[k])
  IN read[n]
Fields(c, fs, n) ==
  LET read[k \in 0..n] == IF k = 0 THEN Collected(c) ELSE InstanceField(read[k - 1], fs[k])
  IN read[n]

\* What becomes of the bytes of static fields: their buffer has the room that is
\* left in the section, and is null when that wrapped.  Nothing stops the copy at
\* its end: read_bytes looks at the end of the stream alone.
Copied(room, bytes) == IF bytes = 0 \/ bytes <= room THEN "inside"
                       ELSE IF room < 0 THEN "nowhere" ELSE "behind"

\* read_class_dump: [out, c, copied, class]
ClassDump(it) ==
  LET head == Reads(Sub, ClassOps)
      staticsCounted == Read(head, "short")
      staticsCount == Got(head, staticsCounted, Len(it.statics))
      statics == Statics(staticsCounted, it.statics, staticsCount)
      counted == Read(statics.c, "short")
      count == Got(statics.c, counted, Len(it.fields))
      fields == Fields(counted, it.fields, count)
      class == Object(ValueAt(Sub, ClassOps, 1, it.id), ValueAt(Sub, ClassOps, 3, it.ref),
                      ValueAt(Sub, ClassOps, 9, it.len), statics.specs, fields.specs)
      copied == Copied(staticsCounted.left, statics.offset)
  IN CASE head.err -> [out |-> "fail", c |-> head, copied |-> "inside", class |-> class]
       [] ~head.err /\ statics.out # "ok" -> [out |-> statics.out, c |-> statics.c, copied |-> copied, class |-> class]
       [] OTHER -> [out |-> fields.out, c |-> fields.c, copied |-> copied, class |-> class]

ReadClassDump == /\ AtItem({"class"}) /\ IdsReadable
                 /\ ClassDump(Item).out = "ok" /\ ClassDump(Item).copied # "nowhere"
                 /\ Loads(ClassDump(Item).c, ClassDump(Item).class)

\* read_class_dump returned false: the segment returns FAILED, an enumerator
\* with value 2, which converts to true
ClassDumpFails == /\ AtItem({"class"}) /\ IdsReadable
                  /\ ClassDump(Item).out = "fail" /\ ClassDump(Item).copied # "nowhere"

\* (faulty variant: the segment's objects are thrown away with the class)
ClassDumpRolledBack == /\ ClassDumpFails
                       /\ Processed(ClassDump(Item).c)
                       /\ data' = [data EXCEPT !.objects = SubSeq(@, 1, seg.mark)]

ClassDumpFailed == /\ ClassDumpFails
                   /\ Processed(ClassDump(Item).c)
                   /\ UNCHANGED data

\* an assertion, bytes copied to null, or what the bytes behind the buffer broke
ClassDumpAborted == /\ AtItem({"class"}) /\ IdsReadable
                    /\ ClassDump(Item).out = "abort" \/ ClassDump(Item).copied # "inside"
                    /\ Aborted

InstanceOps == <<"id", "int", "id", "int">>

ReadInstanceDump ==
  /\ AtItem({"instance"}) /\ IdsReadable
  /\ LET head == Reads(Sub, InstanceOps)
         size == ValueAt(Sub, InstanceOps, 4, Item.len)
         read == Bytes(head, size)
     IN IF head.err \/ head.left \in 0..(size - 1) \/ read.err
        THEN Failed
        ELSE Loads(read, Object(ValueAt(Sub, InstanceOps, 1, Item.id),
                                ValueAt(Sub, InstanceOps, 3, Item.ref), size, <<>>, <<>>))

ObjectsOps == <<"id", "int", "int", "id">>

ReadObjectsArrayDump ==
  /\ AtItem({"objects"}) /\ IdsReadable
  /\ LET head == Reads(Sub, ObjectsOps)
         length == ValueAt(Sub, ObjectsOps, 3, Item.len)
         read == Bytes(head, length * idSize)
     IN IF head.err \/ read.err
        THEN Failed
        ELSE Loads(read, Object(ValueAt(Sub, ObjectsOps, 1, Item.id),
                                ValueAt(Sub, ObjectsOps, 4, Item.ref), length, <<>>, <<>>))

PrimitivesOps == <<"id", "int", "int", "byte">>

\* an element type that reads as 0 ends in get_field_size's assert
ReadPrimitivesArrayDump ==
  /\ AtItem({"primitives"}) /\ IdsReadable
  /\ LET head == Reads(Sub, PrimitivesOps)
         length == ValueAt(Sub, PrimitivesOps, 3, Item.len)
         read == Bytes(head, length * FieldSize(Item.type, idSize))
     IN \/ /\ head.err
           /\ Failed
        \/ /\ ~head.err /\ head.pos > cut
           /\ Aborted
        \/ /\ ~head.err /\ head.pos <= cut /\ read.err
           /\ Failed
        \/ /\ ~head.err /\ head.pos <= cut /\ ~read.err
           /\ Loads(read, Object(ValueAt(Sub, PrimitivesOps, 1, Item.id), 0, length, <<>>, <<>>))

\* (faulty variant: one byte of the element type and length is forgotten)
SkipNoDataShort == /\ AtItem({"nodata"}) /\ IdsReadable
                   /\ NextItem(Bytes(Read(Sub, "id"), 4))
                   /\ seg' = [seg EXCEPT !.item = @ + 1]
                   /\ UNCHANGED data

\* the result of read_bytes is not looked at here
SkipNoDataArray == /\ AtItem({"nodata"}) /\ IdsReadable
                   /\ NextItem(Bytes(Read(Sub, "id"), 5))
                   /\ seg' = [seg EXCEPT !.item = @ + 1]
                   /\ UNCHANGED data

InfoOps == <<"int", "id">>

ReadHeapDumpInfo ==
  /\ AtItem({"info"}) /\ IdsReadable
  /\ NextItem(Reads(Sub, InfoOps))
  /\ seg' = [seg EXCEPT !.item = @ + 1, !.heapType = ValueAt(Sub, InfoOps, 1, Item.len)]
  /\ UNCHANGED data

RootOps(kind) == IF kind \in BareRoots THEN <<>>
                 ELSE <<"id">> \o [k \in 1..RootInts[kind] |-> "int"]

ReadGcRoot ==
  /\ AtItem(DOMAIN RootInts \cup BareRoots)
  /\ Item.kind \in BareRoots \/ IdsReadable
  /\ LET ops == RootOps(Item.kind)
         read == Reads(Sub, ops)
         id == IF ops = <<>> THEN 0 ELSE ValueAt(Sub, ops, 1, Item.id)
     IN IF read.err
        THEN Failed
        ELSE /\ NextItem(read)
             /\ seg' = [seg EXCEPT !.item = @ + 1]
             /\ data' = [data EXCEPT !.roots = Append(@, [kind |-> Item.kind, id |-> id])]

UnknownSubtype == /\ MoreData /\ ~cur.err /\ cur.pos < cut
                  /\ InStep
                  /\ Item.kind \notin ObjectKinds \cup BareRoots \cup DOMAIN RootInts \cup {"nodata", "info"}
                  /\ Failed

\* (faulty variant: the loops at the end start at the first object loaded)
EndSegmentFromFirst ==
  /\ stage = "segment"
  /\ cur.left = 0
  /\ Processed(cur)
  /\ data' = [data EXCEPT !.objects = [k \in DOMAIN @ |-> [@[k] EXCEPT !.heap = seg.heapType]]]

\* (faulty variant: a signed budget ends the loop when it is overdrawn)
EndSegmentSigned ==
  /\ stage = "segment"
  /\ cur.left <= 0
  /\ Processed(cur)
  /\ data' = [data EXCEPT !.objects =
                [k \in DOMAIN @ |-> IF k > seg.mark THEN [@[k] EXCEPT !.heap = seg.heapType] ELSE @[k]]]

EndSegment ==
  /\ stage = "segment"
  /\ cur.left = 0
  /\ Processed(cur)
  /\ data' = [data EXCEPT !.objects =
                [k \in DOMAIN @ |-> IF k > seg.mark THEN [@[k] EXCEPT !.heap = seg.heapType] ELSE @[k]]]

\* the assert of read_id
UnreadableId == /\ ~IdsReadable
                /\ \/ Body("UTF8_STRING")
                   \/ Body("LOAD_CLASS")
                   \/ AtItem(ObjectKinds \cup DOMAIN RootInts \cup {"nodata", "info"})
                /\ Aborted

\* build has returned, or the process is gone
Ended == stage \in Terminal /\ UNCHANGED <<input, idSize, stage, rec, seg, cur, data>>

Next == \/ ReadFileHeader \/ NoMoreRecords \/ HeaderTruncated \/ NextRecord \/ HeaderAstray
        \/ ReadUtf8String \/ ReadLoadClass \/ ReadStackFrame \/ ReadStackTrace
        \/ HeapDumpEnd \/ UnsupportedTag \/ EnterSegment
        \/ SubtypeLost \/ SegmentAstray \/ UnknownSubtype \/ EndSegment \/ UnreadableId
        \/ ReadClassDump \/ ClassDumpFailed \/ ClassDumpAborted
        \/ ReadInstanceDump \/ ReadObjectsArrayDump \/ ReadPrimitivesArrayDump
        \/ SkipNoDataArray \/ ReadHeapDumpInfo \/ ReadGcRoot
        \/ Ended

Spec == Init /\ [][Next]_vars

-------------------------------------------------------------------------------
(* What a reader should get out of a file, defined on the file and not on   *)
(* the reading: the first string of an id, the objects of a segment with    *)
(* the heap type its last HEAP_DUMP_INFO gives, in the order of the file.   *)
Complete == cut = FileBytes(file)

Truthful == \A n \in DOMAIN file.records : file.records[n].lie = 0

Indices(tag) == {n \in DOMAIN file.records : file.records[n].tag = tag}

RefOf(tag, upto, id) ==
  LET found == {n \in Indices(tag) : n < upto /\ file.records[n].id = id}
  IN IF found = {} THEN NoName ELSE file.records[Min(found)].ref

\* how many items of record n are wholly there
WholeItems(n) == Cardinality({k \in DOMAIN file.records[n].items : ItemStart(file, n, k + 1) <= cut})

Specs(fs, n) ==
  [k \in 1..Len(fs) |->
     [name |-> RefOf("UTF8_STRING", n, fs[k].name), type |-> fs[k].type,
      offset |-> Added([m \in DOMAIN fs |-> FieldSize(fs[m].type, file.idSize)], k - 1)]]

HeapOf(n) == LET infos == {k \in DOMAIN file.records[n].items : file.records[n].items[k].kind = "info"}
             IN IF infos = {} THEN 0 ELSE file.records[n].items[Max(infos)].len

\* the object or root an item is, if it is one
ObjectOf(it, n) ==
  [kind |-> it.kind, id |-> it.id, ref |-> it.ref, len |-> it.len, type |-> it.type,
   statics |-> Specs(it.statics, n), fields |-> Specs(it.fields, n), heap |-> HeapOf(n)]
ObjectsOf(it, n) == IF it.kind \in ObjectKinds THEN <<ObjectOf(it, n)>> ELSE <<>>

RootsOf(it) ==
  IF it.kind \notin BareRoots \cup DOMAIN RootInts THEN <<>>
  ELSE <<[kind |-> it.kind, id |-> IF it.kind \in BareRoots THEN 0 ELSE it.id]>>

\* the first n of some sequences, one behind the other
Joined(parts, n) ==
  LET joined[k \in 0..n] == IF k = 0 THEN <<>> ELSE joined[k - 1] \o parts[k] IN joined[n]

\* per record and item, what is loaded of it
ObjectParts == [n \in DOMAIN file.records |->
                  [k \in DOMAIN file.records[n].items |-> ObjectsOf(file.records[n].items[k], n)]]
RootParts == [n \in DOMAIN file.records |->
                [k \in DOMAIN file.records[n].items |-> RootsOf(file.records[n].items[k])]]

\* the parts of the whole items of the records up to one
WholeParts(parts) == [n \in DOMAIN file.records |->
                        IF n \in Indices("HEAP_DUMP_SEGMENT") THEN Joined(parts[n], WholeItems(n)) ELSE <<>>]
UpTo(parts, upto) == Joined(WholeParts(parts), upto)

ObjectsUpTo(upto) == UpTo(ObjectParts, upto)
RootsUpTo(upto) == UpTo(RootParts, upto)

WholeObjects == ObjectsUpTo(Len(file.records))
WholeRoots == RootsUpTo(Len(file.records))

\* the records that are wholly there
WholeRecords == Cardinality({n \in DOMAIN file.records : RecordStart(file, n + 1) <= cut})

HeapFree(objects) == [k \in DOMAIN objects |-> [objects[k] EXCEPT !.heap = 0]]

Supported ==
  /\ file.idSize \in {4, 8}
  /\ \A n \in DOMAIN file.records :
       /\ file.records[n].tag \in {"UTF8_STRING", "LOAD_CLASS", "STACK_FRAME", "STACK_TRACE",
                                   "HEAP_DUMP_SEGMENT", "HEAP_DUMP_END"}
       /\ file.records[n].tag = "UTF8_STRING" => file.records[n].id # 0 /\ file.records[n].len > 0
       /\ file.records[n].tag = "HEAP_DUMP_END" => file.records[n].len = 0
       /\ \A k \in DOMAIN file.records[n].items :
            file.records[n].items[k].kind \in ObjectKinds \cup BareRoots \cup DOMAIN RootInts \cup {"nodata", "info"}

(* A complete file of supported records is read to its end, and what is     *)
(* loaded is its content: no record is refused, no item skipped or shifted,  *)
(* every segment's objects carry that segment's heap type.                  *)
CompleteFileLoads ==
  Complete /\ Truthful /\ Supported =>
    /\ stage \notin {"error", "aborted", "astray"}
    /\ stage = "loaded" =>
         /\ data.objects = WholeObjects
         /\ data.roots = WholeRoots
         /\ \A n \in Indices("UTF8_STRING") :
              data.strings[file.records[n].id] = RefOf("UTF8_STRING", Len(file.records) + 1, file.records[n].id)
         /\ \A n \in Indices("LOAD_CLASS") :
              data.loaded[file.records[n].id] = RefOf("LOAD_CLASS", Len(file.records) + 1, file.records[n].id)

(* Wherever the file is cut: when the load is accepted, every object and    *)
(* root whose bytes are all there is loaded with its values, and at most     *)
(* one more, the one the cut goes through.                                  *)
NothingWholeIsLost ==
  stage = "loaded" /\ Truthful =>
    /\ IsPrefix(HeapFree(WholeObjects), HeapFree(data.objects))
    /\ IsPrefix(WholeRoots, data.roots)
    /\ Len(data.objects) + Len(data.roots) <= Len(WholeObjects) + Len(WholeRoots) + 1

(* Heap types are assigned after a segment's last item, to the objects of    *)
(* that segment only: in an accepted load those of whole segments have       *)
(* theirs, and the rest of the objects share one.                           *)
HeapTypePerSegment ==
  stage = "loaded" /\ Truthful =>
    LET whole == ObjectsUpTo(WholeRecords)
    IN /\ IsPrefix(whole, data.objects)
       /\ \A k, m \in (Len(whole) + 1)..Len(data.objects) : data.objects[k].heap = data.objects[m].heap

\* the cut goes through item k of record n, behind its subtype byte
CutIn(n, k) == cut \in (ItemStart(file, n, k) + 1)..(ItemStart(file, n, k + 1) - 1)

(* The only truncated files the reader accepts: cut between two records, in  *)
(* the fixed fields of a record or last item that has no variable part, in   *)
(* a class dump with static fields, or behind the header of an end record    *)
(* that has, against the format, a body.                                    *)
MayBeLast(it) == /\ it.kind \notin {"primitives", "nodata"}
                 /\ it.kind \in {"instance", "objects"} => it.len = 0
                 /\ it.kind = "class" => it.fields = <<>>

AcceptedCut ==
  \/ \E n \in DOMAIN file.records : cut = RecordStart(file, n)
  \/ \E n \in Indices("LOAD_CLASS") \cup Indices("STACK_TRACE") :
       cut \in (RecordStart(file, n) + 9)..(RecordStart(file, n + 1) - 1)
  \/ \E n \in Indices("HEAP_DUMP_END") : cut = RecordStart(file, n) + 9
  \/ \E n \in Indices("HEAP_DUMP_SEGMENT") : \E k \in DOMAIN file.records[n].items :
       LET it == file.records[n].items[k]
       IN /\ CutIn(n, k)
          /\ \/ it.kind = "class" /\ it.statics # <<>>
             \/ k = Len(file.records[n].items) /\ MayBeLast(it)

AcceptedTruncations == stage = "loaded" /\ ~Complete => AcceptedCut

(* A segment whose declared size disagrees with its items, and which the     *)
(* reader comes to, is never part of an accepted complete file with the      *)
(* reader still in step with the records: the budget runs out, or wraps and  *)
(* leads the reader astray (what it makes of the bytes there is not claimed).*)
SegmentSizeChecked ==
  Complete /\ stage = "loaded" =>
    \A n \in Indices("HEAP_DUMP_SEGMENT") : n < rec => file.records[n].lie = 0

-------------------------------------------------------------------------------
(* What the source says and the code does not do, for the run that refutes   *)
(* it.                                                                      *)

(* data_reader_v103.cxx:329 says of a class dump "check before reading       *)
(* fields that data is fine"; a class dump whose static fields are not all   *)
(* there must not be part of an accepted load.                              *)
CutClassDumpRefused ==
  stage = "loaded" =>
    \A n \in Indices("HEAP_DUMP_SEGMENT") : \A k \in DOMAIN file.records[n].items :
      LET it == file.records[n].items[k]
      IN it.kind = "class" /\ it.statics # <<>> => ~CutIn(n, k)
===============================================================================
