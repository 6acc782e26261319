------------------------------- MODULE RowFetch -------------------------------
(***************************************************************************)
(* Unfolding the rows of a result (ui/includes/object_fields_columns.h,     *)
(* ui/src/object_fields_columns.cxx, main_window.cxx, hprof_storage.cxx).   *)
(* A row of an instance gets a row per field; for each reference the window *)
(* asks the storage for the object, with a number that it writes into the   *)
(* row and the path of the row.  The answer comes later, to that path.      *)
(*                                                                          *)
(* Paths are places in the tree.  Rows change places when the user sorts by *)
(* a column or when a row is added to sorted ones; rows and places are all  *)
(* gone when a file is chosen or a result filled in.  When the worker fills *)
(* in which result is BrowserSession's subject: here any result of a profile*)
(* so far may come at any time the window is not adding rows itself.  (That *)
(* the worker may change the tree while the window does is a data race and  *)
(* left out; and what is read through a row's pointer to an item of a       *)
(* profile that was replaced, and freed, is taken to be still there.)       *)
(***************************************************************************)
EXTENDS Integers, Sequences

CONSTANTS Paths,        \* places of rows
          Objects,      \* ids, the null reference not among them
          Null,
          Fields,       \* per object, what its fields refer to
          Contents,     \* per profile, the objects in it
          MaxOpens,     \* bound: files chosen
          MaxRequests   \* bound: objects asked for

ASSUME BoundsAssumption == MaxOpens \in Nat /\ MaxRequests \in Nat
ASSUME NullAssumption == Null \notin Objects
ASSUME FieldsAssumption == Fields \in [Objects -> Seq(Objects \cup {Null})]
ASSUME ContentsAssumption == Contents \in [1..MaxOpens -> SUBSET Objects]

VARIABLES
  at,        \* the rows in the tree, by path
  adding,    \* what populate_instance_row has still to add
  lastId,    \* ObjectFieldsColumns::_last_request_id
  actions,   \* handed to the dispatcher: files to open and objects to fetch
  answers,   \* signals with an object
  chosen,    \* files chosen
  profile,   \* the file of HprofStorage::_heap_profile; the first is open already
  loaded,    \* history: the files whose load replaced the profile
  asked,     \* history: what each request was for
  unknown    \* history: the requests for objects that are not in the profile

vars == <<at, adding, lastId, actions, answers, chosen, profile, loaded, asked, unknown>>

References == Objects \cup {Null}
Profiles == 1..MaxOpens
Ids == 1..MaxRequests

\* An object shown is one of a certain profile, or it is not there yet.
NoItem == [object |-> Null, of |-> 0]
Items == [object : Objects, of : Profiles]

\* A row keeps what it refers to and the profile this was read from; its item,
\* whether it was unfolded (_data_fetched), the number of its request, and for
\* the properties how many files had been chosen when its result was filled in,
\* and whether it has changed places.
Rows == [ref : References, of : Profiles, item : Items \cup {NoItem}, fetched : BOOLEAN,
         request : 0..MaxRequests, since : Profiles, moved : BOOLEAN]

Opens == [type : {"open"}, file : Profiles]
Fetches == [type : {"fetch"}, request : Ids, object : References, path : Paths]
Answers == [request : Ids, path : Paths, item : Items]

Idle == [fields |-> <<>>, of |-> 0, since |-> 0]

NoRows == [p \in {} |-> NoItem]

-------------------------------------------------------------------------------
Init == /\ at = NoRows /\ adding = Idle
        /\ lastId = 0
        /\ actions = <<>> /\ answers = <<>>
        /\ chosen = 1 /\ profile = 1 /\ loaded = {1} /\ MaxOpens > 0
        /\ asked = [r \in Ids |-> Null] /\ unknown = {}

\* a row of a result: assign() of an item
ResultRow(object, of) ==
  [ref |-> object, of |-> of, item |-> [object |-> object, of |-> of], fetched |-> FALSE,
   request |-> 0, since |-> chosen, moved |-> FALSE]

\* on_fill_tree_view: a result of a row
Fill == /\ adding = Idle
        /\ \E of \in loaded, p \in Paths : \E object \in Contents[of] :
             at' = [q \in {p} |-> ResultRow(object, of)]
        /\ UNCHANGED <<adding, lastId, actions, answers, chosen, profile, loaded, asked, unknown>>

\* a fault: the old rows stay
ChooseKeeping == /\ adding = Idle
                 /\ chosen < MaxOpens
                 /\ chosen' = chosen + 1
                 /\ actions' = Append(actions, [type |-> "open", file |-> chosen + 1])
                 /\ UNCHANGED <<at, adding, lastId, answers, profile, loaded, asked, unknown>>

\* on_open_hprof_file, with clear_query_vew_state
Choose == /\ adding = Idle
          /\ chosen < MaxOpens
          /\ chosen' = chosen + 1
          /\ actions' = Append(actions, [type |-> "open", file |-> chosen + 1])
          /\ at' = NoRows
          /\ UNCHANGED <<adding, lastId, answers, profile, loaded, asked, unknown>>

\* The user sorts, or a row comes in between sorted ones.
Move == /\ \E to \in [DOMAIN at -> DOMAIN at] :
             /\ \A p, q \in DOMAIN at : to[p] = to[q] => p = q
             /\ at' = [p \in DOMAIN at |->
                         [at[to[p]] EXCEPT !.moved = (at[to[p]].moved \/ to[p] # p)]]
        /\ UNCHANGED <<adding, lastId, actions, answers, chosen, profile, loaded, asked, unknown>>

\* on_test_expand_row, of an instance with fields that was not unfolded yet
Expand == /\ adding = Idle
          /\ \E p \in DOMAIN at :
               /\ ~at[p].fetched
               /\ at[p].item # NoItem
               /\ Fields[at[p].item.object] # <<>>
               /\ adding' = [fields |-> Fields[at[p].item.object], of |-> at[p].item.of,
                             since |-> at[p].since]
               /\ at' = [at EXCEPT ![p].fetched = TRUE]
          /\ UNCHANGED <<lastId, actions, answers, chosen, profile, loaded, asked, unknown>>

\* a row of a field: assign() of a field, and the number of the request
FieldRow(request) ==
  [ref |-> Head(adding.fields), of |-> adding.of, item |-> NoItem, fetched |-> FALSE,
   request |-> request, since |-> adding.since, moved |-> FALSE]

\* A round of populate_instance_row, for a reference: emit() may wait for the
\* worker between two of them.
AddRow(written, rest) ==
  /\ adding # Idle
  /\ lastId < MaxRequests
  /\ \E p \in Paths \ DOMAIN at :
       /\ at' = [q \in DOMAIN at \cup {p} |-> IF q = p THEN FieldRow(written) ELSE at[q]]
       /\ actions' = Append(actions, [type |-> "fetch", request |-> lastId + 1,
                                      object |-> Head(adding.fields), path |-> p])
  /\ lastId' = lastId + 1
  /\ asked' = [asked EXCEPT ![lastId + 1] = Head(adding.fields)]
  /\ adding' = rest
  /\ UNCHANGED <<answers, chosen, profile, loaded, unknown>>

NextRound == IF Len(adding.fields) = 1 THEN Idle ELSE [adding EXCEPT !.fields = Tail(@)]

\* a fault: the number is increased after it was written
AddFieldBehind == AddRow(lastId, NextRound)

AddField == AddRow(lastId + 1, NextRound)

\* load_hprof: a file that gives no dump leaves the profile that is there
HandleOpen == /\ actions # <<>> /\ Head(actions).type = "open"
              /\ \/ profile' = Head(actions).file /\ loaded' = loaded \cup {profile'}
                 \/ UNCHANGED <<profile, loaded>>
              /\ actions' = Tail(actions)
              /\ UNCHANGED <<at, adding, lastId, answers, chosen, asked, unknown>>

\* fetch_object: an object that is not there is not answered
HandleFetch ==
  /\ actions # <<>> /\ Head(actions).type = "fetch"
  /\ LET a == Head(actions) IN
       IF a.object \in Contents[profile]
       THEN /\ answers' = Append(answers, [request |-> a.request, path |-> a.path,
                                           item |-> [object |-> a.object, of |-> profile]])
            /\ UNCHANGED unknown
       ELSE unknown' = unknown \cup {a.request} /\ UNCHANGED answers
  /\ actions' = Tail(actions)
  /\ UNCHANGED <<at, adding, lastId, chosen, profile, loaded, asked>>

\* a fault: the number is not looked at
AnswerAny ==
  /\ adding = Idle
  /\ answers # <<>>
  /\ LET a == Head(answers) IN
       at' = [p \in DOMAIN at |-> IF p = a.path THEN [at[p] EXCEPT !.item = a.item] ELSE at[p]]
  /\ answers' = Tail(answers)
  /\ UNCHANGED <<adding, lastId, actions, chosen, profile, loaded, asked, unknown>>

\* on_object_fetch_result and assign_value: to the row at the path, if there is
\* one and it has the number
Answer ==
  /\ adding = Idle
  /\ answers # <<>>
  /\ LET a == Head(answers) IN
       at' = [p \in DOMAIN at |-> IF p = a.path /\ at[p].request = a.request
                                  THEN [at[p] EXCEPT !.item = a.item, !.fetched = FALSE]
                                  ELSE at[p]]
  /\ answers' = Tail(answers)
  /\ UNCHANGED <<adding, lastId, actions, chosen, profile, loaded, asked, unknown>>

Next == \/ Fill \/ Choose \/ Move \/ Expand \/ AddField
        \/ HandleOpen \/ HandleFetch \/ Answer

Spec == Init /\ [][Next]_vars

-------------------------------------------------------------------------------
(* Properties. *)

\* Types, and that numbers are given out once, from 1 on.
TypeOK ==
  /\ DOMAIN at \subseteq Paths /\ at \in [DOMAIN at -> Rows]
  /\ adding \in [fields : Seq(References), of : 0..MaxOpens, since : 0..MaxOpens]
  /\ adding # Idle => adding.fields # <<>> /\ adding.of \in Profiles /\ adding.since \in Profiles
  /\ lastId \in 0..MaxRequests
  /\ actions \in Seq(Opens \cup Fetches) /\ answers \in Seq(Answers)
  /\ chosen \in Profiles /\ profile \in Profiles /\ loaded \subseteq Profiles
  /\ asked \in [Ids -> References] /\ unknown \subseteq Ids

\* A row shows the object that it refers to, and no other, wherever it has been
\* moved and whatever rows were at its place: numbers are never used twice, and a
\* row without a request has the number 0.
AnswerToAsker ==
  \A p \in DOMAIN at : at[p].item # NoItem => at[p].item.object = at[p].ref

\* The files that had been chosen when the row's result was filled in, and replaced
\* the profile that the row is of.
Overtaking(row) == {f \in loaded : row.of < f /\ f <= row.since}

\* The object is of the profile that the row is of: on_open_hprof_file clears the rows
\* before a new profile can answer for them, and a load that fails leaves the old one
\* to answer.  Only a load that was already asked for when the result was filled in,
\* and did not fail, comes between them: then the last one that did answers, always.
SameProfile ==
  \A p \in DOMAIN at : at[p].item # NoItem =>
    IF at[p].request = 0 \/ Overtaking(at[p]) = {}
    THEN at[p].item.of = at[p].of
    ELSE at[p].item.of \in Overtaking(at[p]) /\ \A f \in Overtaking(at[p]) : f <= at[p].item.of

\* A row whose object stays away has been moved, or the profile has no such object:
\* otherwise the request or the answer is still on its way, to the right place.
LostOnlyIfMoved ==
  \A p \in DOMAIN at :
    (at[p].request # 0 /\ at[p].item = NoItem) =>
      \/ at[p].moved
      \/ at[p].request \in unknown
      \/ \E i \in DOMAIN actions : /\ actions[i].type = "fetch"
                                   /\ actions[i].request = at[p].request
                                   /\ actions[i].path = p
      \/ \E i \in DOMAIN answers : answers[i].request = at[p].request /\ answers[i].path = p
===============================================================================
