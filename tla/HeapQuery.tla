------------------------------- MODULE HeapQuery -------------------------------
(***************************************************************************)
(* A query over a heap profile: heap_profile_impl_t::query with the filters *)
(* that the parser builds (hprof/src/heap_profile.cxx,                      *)
(* hprof/includes/filters/*.h).                                             *)
(*                                                                          *)
(* A heap has objects and classes by id.  The fields of an object stand in  *)
(* the order of its layout, those of its own class first.  A filter is the  *)
(* sequence of its nodes in the order they are made in, the two that a      *)
(* conjunction or disjunction owns before it, so that the last one is the   *)
(* root.  Leaves lead along a path of field names, but for the filter by    *)
(* class name, which no text of the query language stands for.              *)
(***************************************************************************)
EXTENDS FieldCompare, NameTokens, FiniteSets

CONSTANTS Questions,  \* [heap : [objects : id -> item, classes : id -> class], filter : what can be built]
          StringName  \* stands for "java.lang.String"

ASSUME StringAssumption == /\ StringName \in Seq(Chars) /\ StringName # <<>>
                           /\ StringName[Len(StringName)] # Dot

HasFields(item) == item.kind \in {"object", "string"}

IsField(field) ==
  \/ field.type \in {"object", "bool"}
  \/ NumericField(field)

\* An object whose class is not in the dump got no fields, as nothing called set_class.
IsHeap(h) ==
  /\ IsFiniteSet(DOMAIN h.classes)
  /\ \A id \in DOMAIN h.classes : h.classes[id].name \in Seq(Chars)
  /\ \A id \in DOMAIN h.objects : LET item == h.objects[id] IN
       /\ item.kind \in {"object", "string", "array"}
       /\ HasFields(item) => /\ Len(item.fields) \in Nat /\ DOMAIN item.fields = 1..Len(item.fields)
                             /\ \A i \in DOMAIN item.fields : IsField(item.fields[i])
       /\ item.kind = "object" /\ item.class \notin DOMAIN h.classes => item.fields = <<>>

IsFilter(f) ==
  /\ Len(f) \in Nat \ {0} /\ DOMAIN f = 1..Len(f)
  /\ \A n \in DOMAIN f :
       \/ f[n].op \in {"and", "or"} /\ f[n].left \in 1..n - 1 /\ f[n].right \in 1..n - 1
       \/ f[n].op = "instanceof" /\ f[n].path \in Seq(STRING)
       \/ /\ f[n].op = "compare"
          /\ f[n].path \in Seq(STRING) /\ f[n].path # <<>>
          /\ IsNumber(f[n].literal) => NumericLiteral(f[n].literal)
       \/ f[n].op = "classname" /\ f[n].text \in Seq(Chars) /\ Len(f) = 1

ASSUME QuestionsAssumption == \A q \in Questions : IsHeap(q.heap) /\ IsFilter(q.filter)

VARIABLES heap,
          searched,  \* query_t::source(), "objects" or "classes"
          asked,     \* query_t::filter()
          left,      \* items the loop has not come to; the maps have no order
          result, state

queryVars == <<heap, searched, asked, left, result, state>>

Missing == [kind |-> "missing"]
NoField == [type |-> "none"]

Find(h, id) == IF id \in DOMAIN h.objects THEN h.objects[id] ELSE Missing

\* a fault: the last field of a name
FieldOfLast(item, name) ==
  LET named == IF HasFields(item)
               THEN {i \in DOMAIN item.fields : item.fields[i].name = name} ELSE {}
  IN IF named = {} THEN NoField
     ELSE item.fields[CHOOSE i \in named : \A j \in named : j <= i]

\* fields_values_impl_t::find: the first field of a name
FieldOf(item, name) ==
  LET named == IF HasFields(item)
               THEN {i \in DOMAIN item.fields : item.fields[i].name = name} ELSE {}
  IN IF named = {} THEN NoField
     ELSE item.fields[CHOOSE i \in named : \A j \in named : i <= j]

\* field_fetcher_t::apply: what the action is called with, or NoField
Fetch(h, item, path) ==
  LET Follow(field) == IF field.type = "object" THEN Find(h, field.value) ELSE Missing
      along[i \in 0..Len(path) - 1] == IF i = 0 THEN item
                                       ELSE Follow(FieldOf(along[i - 1], path[i]))
  IN IF path = <<>> THEN NoField ELSE FieldOf(along[Len(path) - 1], path[Len(path)])

\* what a reference leads to, for a comparison with a text
TextOf(h, field) ==
  IF field.type # "object" THEN "none"
  ELSE LET item == Find(h, field.value) IN
         IF item = Missing THEN "none" ELSE IF item.kind = "string" THEN item.text ELSE "other"

\* a fault: what has no class is an instance of any
InstanceOfAny(h, item, name) ==
  HasFields(item) /\ (item.class \in DOMAIN h.classes => h.classes[item.class].name = name)

\* filter_instance_of_t: along the super classes
InstanceOf(h, item, name) ==
  LET Super(class) == h.classes[class].super
      chain[n \in 0..Cardinality(DOMAIN h.classes)] ==
        IF n = 0 THEN {item.class} \cap DOMAIN h.classes
        ELSE chain[n - 1] \cup ({Super(c) : c \in chain[n - 1]} \cap DOMAIN h.classes)
  IN /\ HasFields(item)
     /\ \E c \in chain[Cardinality(DOMAIN h.classes)] : h.classes[c].name = name

\* a fault: strings as other instances
ClassnameAlike(h, item, text) ==
  CASE item.kind = "object" -> /\ item.class \in DOMAIN h.classes
                               /\ Match(TokensOf(h.classes[item.class].name), TokensOf(text))
    [] item.kind = "class" -> Match(TokensOf(h.classes[item.id].name), TokensOf(text))
    [] item.kind = "string" -> Match(TokensOf(StringName), TokensOf(text))
    [] OTHER -> FALSE

\* filter_classname_t: for a string the tokens of the filter are asked whether the
\* name of its class matches them, and not the other way round
Classname(h, item, text) ==
  CASE item.kind = "object" -> /\ item.class \in DOMAIN h.classes
                               /\ Match(TokensOf(h.classes[item.class].name), TokensOf(text))
    [] item.kind = "class" -> Match(TokensOf(h.classes[item.id].name), TokensOf(text))
    [] item.kind = "string" -> Match(TokensOf(text), TokensOf(StringName))
    [] OTHER -> FALSE

\* filter_by_field_t: anything but a match of the field is no match
IfMatch(test) == IF test THEN "Match" ELSE "NoMatch"

\* operator() of one node of a filter, called with an item that exists, where the
\* nodes before it answer what is in 'before'
Answer(h, item, node, before) ==
  CASE node.op = "and" -> And(before[node.left], before[node.right])
    [] node.op = "or" -> Or(before[node.left], before[node.right])
    [] node.op = "instanceof" ->
         IF node.path = <<>> THEN IfMatch(InstanceOf(h, item, node.class))
         ELSE LET field == Fetch(h, item, node.path) IN
                IfMatch(field.type = "object" /\ InstanceOf(h, Find(h, field.value), node.class))
    [] node.op = "compare" ->
         LET field == Fetch(h, item, node.path) IN
           IfMatch(field # NoField /\ Compare(node.operation, field, node.literal, TextOf(h, field)))
    [] node.op = "classname" -> IfMatch(Classname(h, item, node.text))

Apply(h, f, item) ==
  LET answers[n \in 0..Len(f)] ==
        IF n = 0 THEN <<>>
        ELSE LET before == answers[n - 1] IN Append(before, Answer(h, item, f[n], before))
  IN answers[Len(f)][Len(f)]

-------------------------------------------------------------------------------
QueryInit == /\ \E q \in Questions : heap = q.heap /\ asked = q.filter
             /\ searched \in {"objects", "classes"}
             /\ left = IF searched = "objects" THEN DOMAIN heap.objects ELSE DOMAIN heap.classes
             /\ result = {}
             /\ state = "running"

ItemAt(id) == IF searched = "objects" THEN heap.objects[id] ELSE [kind |-> "class", id |-> id]

\* one round of query_instances or query_classes; a failure ends the loop and
\* leaves what was found
Visit == /\ state = "running"
         /\ \E id \in left :
              LET answer == Apply(heap, asked, ItemAt(id)) IN
                /\ left' = left \ {id}
                /\ result' = IF answer = "Match" THEN result \cup {id} ELSE result
                /\ state' = IF answer = "Fail" THEN "failed" ELSE "running"
         /\ UNCHANGED <<heap, searched, asked>>

Finish == /\ state = "running" /\ left = {}
          /\ state' = "done"
          /\ UNCHANGED <<heap, searched, asked, left, result>>

QueryNext == Visit \/ Finish

QuerySpec == QueryInit /\ [][QueryNext]_queryVars /\ WF_queryVars(QueryNext)

-------------------------------------------------------------------------------
(* Properties. *)

AllFields == UNION {{o.fields[i] : i \in DOMAIN o.fields} :
                      o \in {x \in {heap.objects[id] : id \in DOMAIN heap.objects} : HasFields(x)}}

\* The reference: a field counts if none of its name comes before it,
First(item, name, field) ==
  /\ HasFields(item)
  /\ \E i \in DOMAIN item.fields : /\ field = item.fields[i] /\ field.name = name
                                   /\ \A j \in 1..i - 1 : item.fields[j].name # name

\* there is a way from the object through the references that the
\* path names to an object with the last field of it.
Leads(id, path, field) ==
  \E way \in [1..Len(path) -> DOMAIN heap.objects] :
    /\ way[1] = id
    /\ \A i \in 1..Len(path) - 1 :
         \E f \in AllFields : /\ First(heap.objects[way[i]], path[i], f)
                              /\ f.type = "object" /\ f.value = way[i + 1]
    /\ First(heap.objects[way[Len(path)]], path[Len(path)], field)

\* and a class above, or its own, has the name
Below(class, name) ==
  \E n \in 0..Cardinality(DOMAIN heap.classes) : \E up \in [0..n -> DOMAIN heap.classes] :
    /\ up[0] = class
    /\ \A i \in 1..n : up[i] = heap.classes[up[i - 1]].super
    /\ heap.classes[up[n]].name = name
IsA(id, name) == /\ id \in DOMAIN heap.objects
                 /\ HasFields(heap.objects[id]) /\ Below(heap.objects[id].class, name)

\* What one node of a filter says of an object, 'holds' being those before it that hold,
Says(node, id, holds) ==
  CASE node.op = "and" -> node.left \in holds /\ node.right \in holds
    [] node.op = "or" -> node.left \in holds \/ node.right \in holds
    [] node.op = "instanceof" ->
         IF node.path = <<>> THEN IsA(id, node.class)
         ELSE \E field \in AllFields :
                Leads(id, node.path, field) /\ field.type = "object" /\ IsA(field.value, node.class)
    [] node.op = "compare" ->
         \E field \in AllFields :
           /\ Leads(id, node.path, field)
           /\ Compare(node.operation, field, node.literal, TextOf(heap, field))

\* and its root.
Selected(f, id) ==
  LET hold[n \in 0..Len(f)] ==
        IF n = 0 THEN {}
        ELSE LET before == hold[n - 1] IN before \cup {m \in {n} : Says(f[n], id, before)}
  IN Len(f) \in hold[Len(f)]

Root(f) == f[Len(f)]

\* query_instances returns the objects the filter describes, all of them and no
\* other: along a path the first field of a name counts, so that a field hides
\* those of the same name further up, and a null or dangling reference, an array
\* or a missing field on the way makes a comparison false and ends nothing.
\* SHOW CLASSES HAVING ... finds nothing, whatever the filter: all that the grammar
\* offers is about objects (instance_of.h:41, base.h:48).
QueryExact ==
  (state = "done" /\ Root(asked).op # "classname") =>
    result = IF searched = "classes" THEN {} ELSE {id \in DOMAIN heap.objects : Selected(asked, id)}

\* No query selects an object whose class is not in the dump.  The window and the
\* command line tool rely on it: they dereference get_class() of whatever is in a
\* result (object_fields_columns.cxx:106, cli/src/tools.cxx:122).
ClasslessNeverSelected ==
  searched = "objects" =>
    \A id \in result : heap.objects[id].kind = "object" =>
                          heap.objects[id].class \in DOMAIN heap.classes

ByName == Root(asked).op = "classname" /\ state = "done"
Matches(text) == {id \in (IF searched = "objects" THEN DOMAIN heap.objects ELSE DOMAIN heap.classes) :
                    Classname(heap, ItemAt(id), text)}

\* The two pointers of the tokenizer (name_tokenizer.h:54) give the pieces of the
\* filter and of every class name: no dot but a leading one, no piece lost, an
\* empty one for two dots in a row, none for a dot at the end.
TokensExact ==
  ByName => \A text \in {Root(asked).text} \cup {heap.classes[c].name : c \in DOMAIN heap.classes} :
              CutAtDots(text, TokensOf(text))

\* Typing on narrows a search by class name: a class or object that a filter finds
\* each beginning of it finds, too -- although one token is looked for anywhere in
\* the name and several only at its start (name_tokenizer.h:120).  Strings are the
\* exception, found by the full name of their class only, or by a longer text
\* (classname.h:40).
BeginningsFind ==
  ByName => \A id \in result :
    IF ItemAt(id).kind = "string" THEN Len(Root(asked).text) >= Len(StringName)
    ELSE \A n \in 1..Len(Root(asked).text) : id \in Matches(SubSeq(Root(asked).text, 1, n))

ComparedFields == {f \in {Fetch(heap, heap.objects[id], Root(asked).path) : id \in DOMAIN heap.objects} :
                     f # NoField}

\* How the six comparisons of one field with one literal relate, at every field
\* the comparison of the query comes to: exactly one of <, = and > holds of two
\* numbers, up to the truncation of the literal (filter_comp_value.h:138), and = and
\* != exclude each other, but are both false where field and literal cannot be
\* compared (comparation.h:125).
ComparisonsRelate ==
  (state = "done" /\ Root(asked).op = "compare") =>
    \A f \in ComparedFields : /\ Trichotomy(f, Root(asked).literal)
                              /\ Complement(f, Root(asked).literal, TextOf(heap, f))
=============================================================================
