---------------------------- MODULE ProfileBuilder ----------------------------
(***************************************************************************)
(* data_reader_v103_t::prepare: turning what was read from a dump into a    *)
(* heap profile.  Five loops, one round of a loop per action: classes get   *)
(* their names and enter the index, classes get their super classes,        *)
(* primitives arrays enter the index, instances get their class and field   *)
(* layout and enter it (those of java.lang.String decoded), objects arrays  *)
(* enter it.  Every round reports its progress.                            *)
(***************************************************************************)
EXTENDS Integers, Sequences, FiniteSets, SequencesExt

CONSTANTS Dumps,        \* what may have been read, see below
          IdSize,       \* heap_profile_data_t::id_size
          StringName,   \* "java.lang.String"
          ValueName     \* "value", its field with the characters

FieldTypes == {"object", "bool", "byte", "char", "short", "float", "int", "double", "long"}
Field == [name : STRING, type : FieldTypes, offset : Nat]

\* jvm_type_t::size
TypeSize(type) ==
  CASE type = "object" -> IdSize
    [] type \in {"bool", "byte"} -> 1
    [] type \in {"char", "short"} -> 2
    [] type \in {"float", "int"} -> 4
    [] type \in {"double", "long"} -> 8

\* The fields lie one behind the other from 0, as a class dump is read.
Tiled(fields) ==
  \A n \in DOMAIN fields :
    fields[n].offset = IF n = 1 THEN 0 ELSE fields[n - 1].offset + TypeSize(fields[n - 1].type)

ASSUME IdSizeAssumption == IdSize \in {4, 8}
ASSUME DumpsAssumption ==
         \A d \in Dumps : /\ d.classes \in Seq([id : Nat, super : Nat, fields : Seq(Field)])
                          /\ d.prims \in Seq([id : Nat, type : STRING])
                          /\ d.instances \in Seq([id : Nat, cls : Nat, value : Nat])
                          /\ d.arrays \in Seq([id : Nat])
ASSUME ClassesAssumption ==
         \A d \in Dumps : \A k \in DOMAIN d.classes : Tiled(d.classes[k].fields)

VARIABLES
  dump,      \* [strings, loaded, classes, prims, instances, arrays]
  stage,     \* the loop that runs, or how prepare ended
  next,      \* index of the loop's next element
  ready,     \* progress
  stringClassId,
  superOf,   \* per class: the index of its super class, 0 without one
  layout,    \* per instance: its fields, with offsets into its data
  classes,   \* heap_profile_impl_t::_classes: id to index in dump.classes
  objects    \* heap_profile_impl_t::_objects: id to [kind, at, text]

vars == <<dump, stage, next, ready, stringClassId, superOf, layout, classes, objects>>

\* A class: [id, super, fields], a field: [name, type, offset] with the offset
\* in the class's own part.  A primitives array: [id, type].  An instance:
\* [id, cls, value], value being the reference its "value" field holds.  An
\* objects array: [id].  loaded maps class ids to name ids, strings name ids to
\* texts.

Terminal == {"done", "crashed", "hung"}
Stages == {"start", "names", "supers", "prims", "instances", "arrays"} \cup Terminal

\* fields_spec_impl_t::data_size
SizeOf(fields) ==
  LET size[n \in 0..Len(fields)] ==
        IF n = 0 THEN 0 ELSE size[n - 1] + TypeSize(fields[n].type)
  IN size[Len(fields)]

Total == 2 * Len(dump.classes) + Len(dump.prims) + Len(dump.instances) + Len(dump.arrays)

\* a fault: the entry is assigned
EmplaceOver(f, k, v) == [x \in DOMAIN f \cup {k} |-> IF x = k THEN v ELSE f[x]]

\* std::unordered_map::emplace: an existing entry stays
Emplace(f, k, v) == [x \in DOMAIN f \cup {k} |-> IF x \in DOMAIN f THEN f[x] ELSE v]

Find(f, k, none) == IF k \in DOMAIN f THEN f[k] ELSE none

ClassName(c) ==
  LET nameId == Find(dump.loaded, c.id, 0) IN Find(dump.strings, nameId, "")

-------------------------------------------------------------------------------
Init == /\ dump \in Dumps
        /\ stage = "start"
        /\ next = 1
        /\ ready = 0
        /\ stringClassId = 0
        /\ superOf = [k \in 1..Len(dump.classes) |-> 0]
        /\ layout = [k \in 1..Len(dump.instances) |-> <<>>]
        /\ classes = <<>>
        /\ objects = <<>>

\* the first callback(0, total): file_t::read_dump divides by total
Begin == /\ stage = "start"
         /\ stage' = IF Total = 0 THEN "crashed" ELSE "names"
         /\ UNCHANGED <<dump, next, ready, stringClassId, superOf, layout, classes, objects>>

\* one more element of a loop that runs over n elements
InLoop(loop, n) == /\ stage = loop
                   /\ next <= n
                   /\ next' = next + 1
                   /\ UNCHANGED <<dump, stage>>

Reported == ready' = ready + 1

LoopDone(loop, n, then) ==
  /\ stage = loop
  /\ next > n
  /\ stage' = then
  /\ next' = 1
  /\ UNCHANGED <<dump, stringClassId, superOf, layout, classes, objects>>

NameClass ==
  /\ InLoop("names", Len(dump.classes))
  /\ LET c == dump.classes[next]
     IN /\ stringClassId' = IF ClassName(c) = StringName THEN c.id ELSE stringClassId
        /\ classes' = Emplace(classes, c.id, next)
  /\ Reported
  /\ UNCHANGED <<superOf, layout, objects>>

NamesDone == LoopDone("names", Len(dump.classes), "supers") /\ UNCHANGED ready

\* a fault: progress is reported for the classes passed over, too
LinkSuperReported ==
  /\ InLoop("supers", Len(dump.classes))
  /\ LET super == dump.classes[next].super
     IN superOf' = [superOf EXCEPT ![next] = IF super = 0 THEN 0 ELSE Find(classes, super, 0)]
  /\ Reported
  /\ UNCHANGED <<stringClassId, layout, classes, objects>>

\* a fault: the class is looked up by its own id
LinkSelf ==
  /\ InLoop("supers", Len(dump.classes))
  /\ LET c == dump.classes[next]
     IN IF c.super # 0 /\ c.super \in DOMAIN classes
        THEN superOf' = [superOf EXCEPT ![next] = classes[c.id]] /\ Reported
        ELSE UNCHANGED <<superOf, ready>>
  /\ UNCHANGED <<stringClassId, layout, classes, objects>>

\* a class without a known super class is passed over, unreported
LinkSuper ==
  /\ InLoop("supers", Len(dump.classes))
  /\ LET super == dump.classes[next].super
     IN IF super # 0 /\ super \in DOMAIN classes
        THEN superOf' = [superOf EXCEPT ![next] = classes[super]] /\ Reported
        ELSE UNCHANGED <<superOf, ready>>
  /\ UNCHANGED <<stringClassId, layout, classes, objects>>

SupersDone == LoopDone("supers", Len(dump.classes), "prims") /\ UNCHANGED ready

AddPrimitivesArray ==
  /\ InLoop("prims", Len(dump.prims))
  /\ objects' = Emplace(objects, dump.prims[next].id, [kind |-> "primitives", at |-> next, text |-> 0])
  /\ Reported
  /\ UNCHANGED <<stringClassId, superOf, layout, classes>>

PrimitivesDone == LoopDone("prims", Len(dump.prims), "instances") /\ UNCHANGED ready

\* class k and its super classes, nearest first; a cycle shows as a chain that
\* is longer than there are classes
Chain(supers, k) ==
  LET up[n \in 0..Len(supers)] ==
        IF n = 0 THEN <<k>>
        ELSE IF supers[Last(up[n - 1])] = 0 THEN up[n - 1]
        ELSE Append(up[n - 1], supers[Last(up[n - 1])])
  IN up[Len(supers)]

Cyclic(k) == Len(Chain(superOf, k)) > Len(dump.classes)

\* a fault: the parts are not shifted
LayoutUnshifted(k) ==
  FoldLeft(LAMBDA acc, c : acc \o dump.classes[c].fields, <<>>, Chain(superOf, k))

\* instance_info_impl_t::set_class: own fields first, then those of the super
\* classes, each class's part behind the parts before it
AddFields(sofar, fields) ==
  [offset |-> sofar.offset + SizeOf(fields),
   fields |-> sofar.fields \o [n \in 1..Len(fields) |->
                                 [fields[n] EXCEPT !.offset = @ + sofar.offset]]]

FieldsOf(read, supers, k) ==
  LET chain == Chain(supers, k)
      added[n \in 0..Len(chain)] ==
        IF n = 0 THEN [offset |-> 0, fields |-> <<>>]
        ELSE AddFields(added[n - 1], read[chain[n]].fields)
  IN added[Len(chain)].fields

Layout(k) == FieldsOf(dump.classes, superOf, k)

\* the first field with the name of the characters refers to an object
HasText(fields) ==
  \E n \in DOMAIN fields : /\ fields[n].name = ValueName /\ fields[n].type = "object"
                           /\ \A m \in 1..(n - 1) : fields[m].name # ValueName

\* string_info_impl_t: the index of the char array with the text, or 0
TextOf(instance, fields) ==
  LET item == Find(objects, instance.value, [kind |-> "none", at |-> 0, text |-> 0])
  IN IF /\ HasText(fields)
        /\ item.kind = "primitives"
        /\ dump.prims[item.at].type = "char"
     THEN item.at ELSE 0

\* a fault: a string is decoded before it has its fields
AddInstanceUndecoded ==
  /\ LET o == dump.instances[next]
     IN /\ InLoop("instances", Len(dump.instances))
        /\ o.cls \in DOMAIN classes => ~Cyclic(classes[o.cls])
        /\ layout' = [layout EXCEPT ![next] =
                        IF o.cls \in DOMAIN classes THEN Layout(classes[o.cls]) ELSE <<>>]
        /\ objects' = Emplace(objects, o.id,
                        IF o.cls = stringClassId
                        THEN [kind |-> "string", at |-> next, text |-> TextOf(o, <<>>)]
                        ELSE [kind |-> "object", at |-> next, text |-> 0])
  /\ Reported
  /\ UNCHANGED <<stringClassId, superOf, classes>>

AddInstance ==
  /\ LET o == dump.instances[next]
         fields == IF o.cls \in DOMAIN classes THEN Layout(classes[o.cls]) ELSE <<>>
     IN /\ InLoop("instances", Len(dump.instances))
        /\ o.cls \in DOMAIN classes => ~Cyclic(classes[o.cls])
        /\ layout' = [layout EXCEPT ![next] = fields]
        /\ objects' = Emplace(objects, o.id,
                        IF o.cls = stringClassId
                        THEN [kind |-> "string", at |-> next, text |-> TextOf(o, fields)]
                        ELSE [kind |-> "object", at |-> next, text |-> 0])
  /\ Reported
  /\ UNCHANGED <<stringClassId, superOf, classes>>

\* set_class follows the super classes until there is none
LayoutHangs ==
  /\ stage = "instances"
  /\ next <= Len(dump.instances)
  /\ dump.instances[next].cls \in DOMAIN classes
  /\ Cyclic(classes[dump.instances[next].cls])
  /\ stage' = "hung"
  /\ UNCHANGED <<dump, next, ready, stringClassId, superOf, layout, classes, objects>>

InstancesDone == LoopDone("instances", Len(dump.instances), "arrays") /\ UNCHANGED ready

AddObjectsArray ==
  /\ InLoop("arrays", Len(dump.arrays))
  /\ objects' = Emplace(objects, dump.arrays[next].id, [kind |-> "objects", at |-> next, text |-> 0])
  /\ Reported
  /\ UNCHANGED <<stringClassId, superOf, layout, classes>>

\* the last callback is one more report
ArraysDone == LoopDone("arrays", Len(dump.arrays), "done") /\ Reported

Ended == stage \in Terminal /\ UNCHANGED vars

Next == \/ Begin \/ NameClass \/ NamesDone \/ LinkSuper \/ SupersDone
        \/ AddPrimitivesArray \/ PrimitivesDone \/ AddInstance \/ LayoutHangs \/ InstancesDone
        \/ AddObjectsArray \/ ArraysDone \/ Ended

\* prepare runs on one thread and never waits
Spec == Init /\ [][Next]_vars /\ WF_vars(Next)

-------------------------------------------------------------------------------
(* What the profile is meant to hold, told from the dump alone. *)

Indexes(seq) == 1..Len(seq)

\* The class an id stands for: the first one read with that id.
FirstClass(id) == CHOOSE k \in Indexes(dump.classes) :
                    /\ dump.classes[k].id = id
                    /\ \A j \in 1..(k - 1) : dump.classes[j].id # id

KnownClass(id) == \E k \in Indexes(dump.classes) : dump.classes[k].id = id

HasSuper(k) == dump.classes[k].super # 0 /\ KnownClass(dump.classes[k].super)

SuperRelation == {<<k, FirstClass(dump.classes[k].super)>> :
                    k \in {c \in Indexes(dump.classes) : HasSuper(c)}}

\* Class k with everything it inherits from.
Ancestors(k) ==
  LET Wider(set) == set \cup {e[2] : e \in {x \in SuperRelation : x[1] \in set}}
      reach[n \in 0..Len(dump.classes)] == IF n = 0 THEN {k} ELSE Wider(reach[n - 1])
  IN reach[Len(dump.classes)]

InheritsItself(k) == HasSuper(k) /\ k \in Ancestors(FirstClass(dump.classes[k].super))

\* No instance read would have set_class walk in a circle.
Acyclic == \A i \in Indexes(dump.instances) :
             KnownClass(dump.instances[i].cls) =>
               \A k \in Ancestors(FirstClass(dump.instances[i].cls)) : ~InheritsItself(k)

Ids(seq) == {seq[k].id : k \in Indexes(seq)}

\* The size of the fields of a set of classes.
SizeTogether(set) ==
  LET size[k \in 0..Len(dump.classes)] ==
        IF k = 0 THEN 0
        ELSE size[k - 1] + (IF k \in set THEN SizeOf(dump.classes[k].fields) ELSE 0)
  IN size[Len(dump.classes)]

\* The instances that have been given their class.
Prepared == CASE stage = "instances" -> 1..(next - 1)
              [] stage \in {"arrays", "done"} -> Indexes(dump.instances)
              [] OTHER -> {}

-------------------------------------------------------------------------------
\* An instance's fields lie one behind the other from the start of its data,
\* without a gap or an overlap, and cover its class and everything the class
\* inherits from, whatever the order the classes were read in: set_class
\* shifts the fields of each class by the size of the parts before it, and runs
\* only once every super class is linked.
LayoutTiles ==
  \A i \in Prepared :
    LET fields == layout[i]
        cls == dump.instances[i].cls
    IN IF ~KnownClass(cls) THEN fields = <<>>
       ELSE /\ Tiled(fields)
            /\ SizeOf(fields) = SizeTogether(Ancestors(FirstClass(cls)))

\* Every object read can be found by its id, and of several with one id the
\* profile keeps the first in the order primitives arrays, instances, objects
\* arrays (find_object and find_class over maps that are only emplaced into).
IndexKeepsFirst ==
  stage = "done" =>
    /\ DOMAIN objects = Ids(dump.prims) \cup Ids(dump.instances) \cup Ids(dump.arrays)
    /\ \A id \in DOMAIN objects :
         LET IsFirstIn(seq) == /\ seq[objects[id].at].id = id
                               /\ \A k \in 1..(objects[id].at - 1) : seq[k].id # id
         IN CASE objects[id].kind = "primitives" -> IsFirstIn(dump.prims)
              [] objects[id].kind \in {"string", "object"} ->
                   IsFirstIn(dump.instances) /\ id \notin Ids(dump.prims)
              [] objects[id].kind = "objects" ->
                   /\ IsFirstIn(dump.arrays)
                   /\ id \notin Ids(dump.prims) \cup Ids(dump.instances)
    /\ DOMAIN classes = Ids(dump.classes)
    /\ \A id \in DOMAIN classes : classes[id] = FirstClass(id)

\* A string's text is known exactly when its value refers to a char array of the
\* profile: its fields and the arrays are in place before it is decoded.  And
\* only the instances of the class last read under the name java.lang.String are
\* decoded; without one, those with a class id of 0 are.
StringsDecoded ==
  stage = "done" =>
    \A id \in DOMAIN objects :
      LET item == objects[id]
          o == dump.instances[item.at]
      IN item.kind \in {"string", "object"} =>
           /\ (item.kind = "string") =
                IF \E c \in Range(dump.classes) : ClassName(c) = StringName
                THEN \E k \in Indexes(dump.classes) :
                       /\ dump.classes[k].id = o.cls
                       /\ ClassName(dump.classes[k]) = StringName
                       /\ \A j \in (k + 1)..Len(dump.classes) :
                            ClassName(dump.classes[j]) # StringName
                ELSE o.cls = 0
           /\ item.kind = "string" =>
                item.text =
                  IF /\ KnownClass(o.cls)
                     /\ HasText(Layout(FirstClass(o.cls)))
                     /\ o.value \in Ids(dump.prims)
                     /\ dump.prims[objects[o.value].at].type = "char"
                  THEN objects[o.value].at ELSE 0

\* Every element is reported once in each loop that has it, a class without a
\* known super class only once: the reports end at the total plus one (the last
\* callback) less the classes without a super class.  They pass the total when
\* every class has one.
ProgressAccounts ==
  /\ ready <= Total + 1
  /\ stage = "done" =>
       ready = Total + 1 - Cardinality({k \in Indexes(dump.classes) : ~HasSuper(k)})

\* prepare finishes for every dump that holds something and in which no
\* instance's class inherits from itself.
PreparesUnlessCyclic == (Total > 0 /\ Acyclic) ~> (stage = "done")

===============================================================================
