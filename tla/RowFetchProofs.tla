---------------------------- MODULE RowFetchProofs ----------------------------
(* Proofs about RowFetch, for any tree, objects, files and bounds.             *)
EXTENDS RowFetch, SequenceFacts

USE BoundsAssumption, NullAssumption, FieldsAssumption, ContentsAssumption

\* What rows, requests and answers know of the numbers given out so far.
RowsAsked ==
  \A p \in DOMAIN at : /\ at[p].request <= lastId
                       /\ at[p].request # 0 => at[p].ref = asked[at[p].request]

FetchesAsked ==
  \A i \in DOMAIN actions : actions[i].type = "fetch" =>
    /\ actions[i].request <= lastId
    /\ actions[i].object = asked[actions[i].request]

AnswersAsked ==
  \A i \in DOMAIN answers : /\ answers[i].request <= lastId
                            /\ answers[i].item.object = asked[answers[i].request]

\* The profile is that of the newest file that was loaded.
Loads == /\ profile \in loaded /\ \A f \in loaded : f <= profile
         /\ profile <= chosen

\* The files that wait to be opened are newer than the profile, in the order in
\* which they were chosen.
OpensRise ==
  \A i \in DOMAIN actions : actions[i].type = "open" =>
    /\ profile < actions[i].file /\ actions[i].file <= chosen
    /\ \A j \in DOMAIN actions : (j > i /\ actions[j].type = "open") => actions[i].file < actions[j].file

\* No file is waiting to be opened.
Settled == \A j \in DOMAIN actions : actions[j].type # "open"

\* The rows there are were filled in after the last file was chosen, from a profile
\* that was loaded.
Current == /\ \A p \in DOMAIN at : at[p].since = chosen /\ at[p].of \in loaded
           /\ adding # Idle => adding.since = chosen /\ adding.of \in loaded

\* No file is opened after the request of a row.
FetchesCurrent ==
  \A i \in DOMAIN actions, p \in DOMAIN at :
    (actions[i].type = "fetch" /\ at[p].request = actions[i].request)
      => \A j \in DOMAIN actions : j > i => actions[j].type # "open"

\* An answer to a row is of the profile that stays, and so is what a row shows
\* that has asked.
AnswersCurrent ==
  \A i \in DOMAIN answers, p \in DOMAIN at :
    at[p].request = answers[i].request => answers[i].item.of = profile /\ Settled

RowsCurrent ==
  \A p \in DOMAIN at : at[p].item # NoItem =>
    IF at[p].request = 0 THEN at[p].item.of = at[p].of
                         ELSE at[p].item.of = profile /\ Settled

Asked == RowsAsked /\ FetchesAsked /\ AnswersAsked /\ AnswerToAsker
Ordered == Loads /\ OpensRise /\ Current /\ FetchesCurrent /\ AnswersCurrent /\ RowsCurrent
IInv == TypeOK /\ Asked /\ Ordered /\ LostOnlyIfMoved

-------------------------------------------------------------------------------
(* Types. *)

\* The types hold at the start.
LEMMA TypeInit == Init => TypeOK
BY EmptySeq DEF Init, TypeOK, NoRows, Idle, Rows, Profiles, Ids, References

\* A row made for a result is a row.
LEMMA ResultRowType ==
  ASSUME TypeOK, NEW of \in loaded, NEW object \in Contents[of]
  PROVE  ResultRow(object, of) \in Rows
BY DEF TypeOK, ResultRow, Rows, Items, Profiles, References

\* A row made for a field is a row.
LEMMA FieldRowType ==
  ASSUME TypeOK, adding # Idle, NEW request \in 0..MaxRequests
  PROVE  FieldRow(request) \in Rows
<1>1. Head(adding.fields) \in References
  BY HeadTailProperties DEF TypeOK
<1> QED
  BY <1>1 DEF TypeOK, FieldRow, Rows, Items, Profiles

\* What the window changes of a row leaves it a row.
LEMMA ChangedRowType ==
  ASSUME NEW r \in Rows, NEW b \in BOOLEAN, NEW item \in Items
  PROVE  /\ [r EXCEPT !.moved = b] \in Rows
         /\ [r EXCEPT !.fetched = b] \in Rows
         /\ [r EXCEPT !.item = item, !.fetched = b] \in Rows
BY DEF Rows

\* What is left to add after a round of populate_instance_row has its type.
LEMMA NextRoundType ==
  ASSUME TypeOK, adding # Idle
  PROVE  /\ NextRound \in [fields : Seq(References), of : 0..MaxOpens, since : 0..MaxOpens]
         /\ NextRound # Idle => /\ NextRound.fields # <<>> /\ NextRound.of = adding.of
                                /\ NextRound.since = adding.since
<1>1. Tail(adding.fields) \in Seq(References) /\ Len(Tail(adding.fields)) = Len(adding.fields) - 1
  BY HeadTailProperties DEF TypeOK
<1>2. Idle \in [fields : Seq(References), of : 0..MaxOpens, since : 0..MaxOpens]
  BY EmptySeq DEF Idle
<1>3. Len(adding.fields) # 1 => Tail(adding.fields) # <<>>
  <2>1. Len(adding.fields) \in Nat
    BY LenProperties DEF TypeOK
  <2>2. Tail(adding.fields) = <<>> => Len(Tail(adding.fields)) = 0
    BY EmptySeq
  <2> QED
    BY <1>1, <2>1, <2>2
<1> QED
  BY <1>1, <1>2, <1>3 DEF NextRound, TypeOK

\* Every step of the window, the rows and the worker preserves the types.
LEMMA TypeStep == TypeOK /\ [Next]_vars => TypeOK'
<1> SUFFICES ASSUME TypeOK, [Next]_vars PROVE TypeOK'
  OBVIOUS
<1>1. CASE Fill
  <2>1. PICK of \in loaded, p \in Paths : \E object \in Contents[of] :
          at' = [q \in {p} |-> ResultRow(object, of)]
    BY <1>1 DEF Fill
  <2>2. PICK object \in Contents[of] : at' = [q \in {p} |-> ResultRow(object, of)]
    BY <2>1
  <2>3. ResultRow(object, of) \in Rows
    BY ResultRowType
  <2> QED
    BY <1>1, <2>2, <2>3 DEF TypeOK, Fill
<1>2. CASE Choose
  <2>1. [type |-> "open", file |-> chosen + 1] \in Opens \cup Fetches
    BY <1>2 DEF Choose, TypeOK, Opens, Profiles
  <2> QED
    BY <1>2, <2>1, AppendProperties DEF TypeOK, Choose, NoRows, Profiles, Rows
<1>3. CASE Move
  <2>1. PICK to \in [DOMAIN at -> DOMAIN at] :
          at' = [p \in DOMAIN at |-> [at[to[p]] EXCEPT !.moved = (at[to[p]].moved \/ to[p] # p)]]
    BY <1>3 DEF Move
  <2>2. \A p \in DOMAIN at :
          [at[to[p]] EXCEPT !.moved = (at[to[p]].moved \/ to[p] # p)] \in Rows
    <3> SUFFICES ASSUME NEW p \in DOMAIN at
                 PROVE  [at[to[p]] EXCEPT !.moved = (at[to[p]].moved \/ to[p] # p)] \in Rows
      OBVIOUS
    <3>1. at[to[p]] \in Rows
      BY DEF TypeOK
    <3>2. (at[to[p]].moved \/ to[p] # p) \in BOOLEAN
      OBVIOUS
    <3>3. \A b \in BOOLEAN : [at[to[p]] EXCEPT !.moved = b] \in Rows
      BY <3>1 DEF Rows
    <3> QED
      BY <3>2, <3>3
  <2> QED
    BY <1>3, <2>1, <2>2 DEF TypeOK, Move
<1>4. CASE Expand
  <2>1. PICK p \in DOMAIN at :
          /\ at[p].item # NoItem
          /\ Fields[at[p].item.object] # <<>>
          /\ adding' = [fields |-> Fields[at[p].item.object], of |-> at[p].item.of,
                        since |-> at[p].since]
          /\ at' = [at EXCEPT ![p].fetched = TRUE]
    BY <1>4 DEF Expand
  <2>2. at[p].item \in Items /\ at[p].since \in Profiles
    BY <2>1 DEF TypeOK, Rows
  <2>3. Fields[at[p].item.object] \in Seq(References) /\ at[p].item.of \in Profiles
    BY <2>2 DEF Items, References
  <2>4. at' \in [DOMAIN at -> Rows]
    <3>1. [at[p] EXCEPT !.fetched = TRUE] \in Rows
      BY <2>2, ChangedRowType DEF TypeOK
    <3> QED
      BY <2>1, <3>1 DEF TypeOK
  <2>5. adding' \in [fields : Seq(References), of : 0..MaxOpens, since : 0..MaxOpens]
    BY <2>1, <2>2, <2>3 DEF Profiles
  <2>6. /\ adding'.fields # <<>> /\ adding'.of \in Profiles /\ adding'.since \in Profiles
        /\ DOMAIN at' = DOMAIN at
    BY <2>1, <2>2, <2>3
  <2> QED
    BY <1>4, <2>4, <2>5, <2>6 DEF TypeOK, Expand
<1>5. CASE AddField
  <2>1. PICK p \in Paths \ DOMAIN at :
          /\ at' = [q \in DOMAIN at \cup {p} |-> IF q = p THEN FieldRow(lastId + 1) ELSE at[q]]
          /\ actions' = Append(actions, [type |-> "fetch", request |-> lastId + 1,
                                         object |-> Head(adding.fields), path |-> p])
    BY <1>5 DEF AddField, AddRow
  <2>2. lastId + 1 \in Ids /\ adding # Idle
    BY <1>5 DEF AddField, AddRow, TypeOK, Ids
  <2>3. FieldRow(lastId + 1) \in Rows /\ Head(adding.fields) \in References
    BY <2>2, FieldRowType, HeadTailProperties DEF Ids, TypeOK
  <2>4. at' \in [DOMAIN at \cup {p} -> Rows]
    BY <2>1, <2>3 DEF TypeOK
  <2>5. [type |-> "fetch", request |-> lastId + 1, object |-> Head(adding.fields), path |-> p]
          \in Opens \cup Fetches
    BY <2>2, <2>3 DEF Fetches
  <2>6. actions' \in Seq(Opens \cup Fetches)
    BY <2>1, <2>5, AppendProperties DEF TypeOK
  <2>7. /\ adding' \in [fields : Seq(References), of : 0..MaxOpens, since : 0..MaxOpens]
        /\ adding' # Idle => adding'.fields # <<>> /\ adding'.of \in Profiles /\ adding'.since \in Profiles
    BY <1>5, <2>2, NextRoundType DEF AddField, AddRow, TypeOK
  <2> QED
    BY <1>5, <2>1, <2>2, <2>3, <2>4, <2>6, <2>7 DEF AddField, AddRow, TypeOK, Ids
<1>6. CASE HandleOpen
  <2>1. Head(actions) \in Opens \cup Fetches /\ Tail(actions) \in Seq(Opens \cup Fetches)
    BY <1>6, HeadTailProperties DEF HandleOpen, TypeOK
  <2>2. PICK i \in DOMAIN actions : actions[i] = Head(actions)
    BY <1>6, HeadTailProperties, EmptySeq DEF HandleOpen, TypeOK
  <2> QED
    BY <1>6, <2>1, <2>2 DEF HandleOpen, TypeOK, Opens, Fetches, Profiles
<1>7. CASE HandleFetch
  <2> DEFINE a == Head(actions)
             answer == [request |-> a.request, path |-> a.path,
                        item |-> [object |-> a.object, of |-> profile]]
  <2>1. a \in Opens \cup Fetches /\ Tail(actions) \in Seq(Opens \cup Fetches)
    BY <1>7, HeadTailProperties DEF HandleFetch, TypeOK
  <2>2. a \in Fetches
    BY <1>7, <2>1 DEF HandleFetch, Opens
  <2>3. a.object \in Contents[profile] => answer \in Answers
    BY <2>2 DEF Fetches, Answers, Items, TypeOK, Profiles
  <2>4. answers' \in Seq(Answers)
    <3>1. answers' = answers \/ (answer \in Answers /\ answers' = Append(answers, answer))
      BY <1>7, <2>3 DEF HandleFetch
    <3>2. answers \in Seq(Answers)
      BY DEF TypeOK
    <3> HIDE DEF answer
    <3>3. CASE answer \in Answers /\ answers' = Append(answers, answer)
      BY <3>2, <3>3, AppendProperties
    <3> QED
      BY <3>1, <3>2, <3>3
  <2>5. unknown' \subseteq Ids
    BY <1>7, <2>2 DEF HandleFetch, TypeOK, Fetches
  <2> QED
    BY <1>7, <2>1, <2>4, <2>5 DEF HandleFetch, TypeOK
<1>8. CASE Answer
  <2> DEFINE a == Head(answers)
  <2>1. a \in Answers /\ Tail(answers) \in Seq(Answers)
    BY <1>8, HeadTailProperties DEF Answer, TypeOK
  <2>2. \A p \in DOMAIN at : [at[p] EXCEPT !.item = a.item, !.fetched = FALSE] \in Rows
    BY <2>1, ChangedRowType DEF Answers, TypeOK
  <2> QED
    BY <1>8, <2>1, <2>2 DEF Answer, TypeOK
<1>9. CASE UNCHANGED vars
  BY <1>9 DEF vars, TypeOK
<1> QED
  BY <1>1, <1>2, <1>3, <1>4, <1>5, <1>6, <1>7, <1>8, <1>9 DEF Next

-------------------------------------------------------------------------------
(* Answers go to the rows that asked. *)

\* At the start no row has asked.
LEMMA AskedInit == Init => Asked
BY DEF Init, Asked, RowsAsked, FetchesAsked, AnswersAsked, AnswerToAsker, NoRows

\* Every step keeps the request ids of rows, requests and answers in step with each
\* other.
LEMMA AskedStep == TypeOK /\ Asked /\ [Next]_vars => Asked'
<1> SUFFICES ASSUME TypeOK, Asked, [Next]_vars PROVE Asked'
  OBVIOUS
<1> USE DEF Asked
<1>1. CASE Fill
  <2>1. PICK of \in loaded, p \in Paths : \E object \in Contents[of] :
          at' = [q \in {p} |-> ResultRow(object, of)]
    BY <1>1 DEF Fill
  <2>2. PICK object \in Contents[of] : at' = [q \in {p} |-> ResultRow(object, of)]
    BY <2>1
  <2>3. RowsAsked' /\ AnswerToAsker'
    BY <1>1, <2>2 DEF Fill, RowsAsked, AnswerToAsker, ResultRow, TypeOK
  <2> QED
    BY <1>1, <2>3 DEF Fill, FetchesAsked, AnswersAsked
<1>2. CASE Choose
  <2>1. [type |-> "open", file |-> chosen + 1] \in Opens \cup Fetches
    BY <1>2 DEF Choose, TypeOK, Opens, Profiles
  <2>2. FetchesAsked'
    BY <1>2, <2>1, Pushed DEF Choose, FetchesAsked, TypeOK
  <2> QED
    BY <1>2, <2>2 DEF Choose, NoRows, RowsAsked, AnswerToAsker, AnswersAsked
<1>3. CASE Move
  <2>1. PICK to \in [DOMAIN at -> DOMAIN at] :
          at' = [p \in DOMAIN at |-> [at[to[p]] EXCEPT !.moved = (at[to[p]].moved \/ to[p] # p)]]
    BY <1>3 DEF Move
  <2>2. \A p \in DOMAIN at : at[p] \in Rows
    BY DEF TypeOK
  <2>3. \A p \in DOMAIN at' : /\ to[p] \in DOMAIN at
                              /\ at'[p].request = at[to[p]].request
                              /\ at'[p].ref = at[to[p]].ref
                              /\ at'[p].item = at[to[p]].item
    BY <2>1, <2>2 DEF Rows
  <2>4. RowsAsked' /\ AnswerToAsker'
    <3>1. lastId' = lastId /\ asked' = asked
      BY <1>3 DEF Move
    <3> QED
      BY <2>3, <3>1 DEF RowsAsked, AnswerToAsker
  <2> QED
    BY <1>3, <2>4 DEF Move, AnswersAsked, FetchesAsked
<1>4. CASE Expand
  <2>1. PICK p \in DOMAIN at : at' = [at EXCEPT ![p].fetched = TRUE]
    BY <1>4 DEF Expand
  <2>2. DOMAIN at' = DOMAIN at
    BY <2>1
  <2>3. \A q \in DOMAIN at : /\ at'[q].request = at[q].request
                             /\ at'[q].ref = at[q].ref
                             /\ at'[q].item = at[q].item
    BY <2>1 DEF TypeOK, Rows
  <2> QED
    BY <1>4, <2>2, <2>3 DEF Expand, RowsAsked, AnswerToAsker, AnswersAsked, FetchesAsked
<1>5. CASE AddField
  <2>1. PICK p \in Paths \ DOMAIN at :
          /\ at' = [q \in DOMAIN at \cup {p} |-> IF q = p THEN FieldRow(lastId + 1) ELSE at[q]]
          /\ actions' = Append(actions, [type |-> "fetch", request |-> lastId + 1,
                                         object |-> Head(adding.fields), path |-> p])
    BY <1>5 DEF AddField, AddRow
  <2>2. /\ lastId + 1 \in Ids /\ adding # Idle
        /\ lastId' = lastId + 1 /\ asked' = [asked EXCEPT ![lastId + 1] = Head(adding.fields)]
    BY <1>5 DEF AddField, AddRow, TypeOK, Ids
  <2>3. Head(adding.fields) \in References
    BY <2>2, HeadTailProperties DEF TypeOK
  <2>4. [type |-> "fetch", request |-> lastId + 1, object |-> Head(adding.fields), path |-> p]
          \in Opens \cup Fetches
    BY <2>2, <2>3 DEF Fetches
  <2>5. asked'[lastId + 1] = Head(adding.fields)
        /\ \A r \in 0..lastId : r # 0 => asked'[r] = asked[r]
    BY <2>2 DEF TypeOK, Ids
  <2>6. FetchesAsked'
    <3> SUFFICES ASSUME NEW i \in DOMAIN actions', actions'[i].type = "fetch"
                 PROVE  /\ actions'[i].request <= lastId'
                        /\ actions'[i].object = asked'[actions'[i].request]
      BY DEF FetchesAsked
    <3>1. CASE i = Len(actions) + 1
      BY <3>1, <2>1, <2>2, <2>4, <2>5, Pushed DEF TypeOK
    <3>2. CASE i \in DOMAIN actions
      <4>1. actions'[i] = actions[i] /\ actions[i] \in Fetches
        BY <3>2, <2>1, <2>4, Pushed, LenProperties DEF TypeOK, Opens
      <4> QED
        <5>1. /\ actions[i].request \in Ids /\ actions[i].request <= lastId
              /\ actions[i].object = asked[actions[i].request]
          BY <3>2, <4>1 DEF FetchesAsked, Fetches
        <5> QED
          BY <4>1, <5>1, <2>2, <2>5 DEF Ids, TypeOK
    <3> QED
      BY <3>1, <3>2, <2>1, <2>4, Pushed DEF TypeOK
  <2>7. AnswersAsked'
    <3> SUFFICES ASSUME NEW i \in DOMAIN answers
                 PROVE  /\ answers[i].request <= lastId'
                        /\ answers[i].item.object = asked'[answers[i].request]
      BY <1>5 DEF AnswersAsked, AddField, AddRow
    <3>1. answers[i] \in Answers
      BY LenProperties DEF TypeOK
    <3> QED
      BY <3>1, <2>2, <2>5 DEF AnswersAsked, Answers, Ids, TypeOK
  <2>8. RowsAsked' /\ AnswerToAsker'
    <3> SUFFICES ASSUME NEW q \in DOMAIN at'
                 PROVE  /\ at'[q].request <= lastId'
                        /\ at'[q].request # 0 => at'[q].ref = asked'[at'[q].request]
                        /\ at'[q].item # NoItem => at'[q].item.object = at'[q].ref
      BY DEF RowsAsked, AnswerToAsker
    <3>1. CASE q = p
      BY <3>1, <2>1, <2>2, <2>5 DEF FieldRow, NoItem, TypeOK
    <3>2. CASE q \in DOMAIN at
      <4>1. at'[q] = at[q] /\ at[q] \in Rows
        BY <3>2, <2>1 DEF TypeOK
      <4> QED
        BY <3>2, <4>1, <2>2, <2>5 DEF RowsAsked, AnswerToAsker, Rows, TypeOK
    <3> QED
      BY <3>1, <3>2, <2>1
  <2> QED
    BY <2>6, <2>7, <2>8
<1>6. CASE HandleOpen
  <2>1. FetchesAsked'
    BY <1>6, Popped DEF HandleOpen, FetchesAsked, TypeOK
  <2> QED
    BY <1>6, <2>1 DEF HandleOpen, RowsAsked, AnswerToAsker, AnswersAsked
<1>7. CASE HandleFetch
  <2> DEFINE a == Head(actions)
             answer == [request |-> a.request, path |-> a.path,
                        item |-> [object |-> a.object, of |-> profile]]
  <2>1. FetchesAsked'
    BY <1>7, Popped DEF HandleFetch, FetchesAsked, TypeOK
  <2>2. a \in Fetches
    BY <1>7, HeadTailProperties DEF HandleFetch, Opens, TypeOK
  <2>3. answer.request <= lastId /\ answer.item.object = asked[answer.request]
    BY <1>7, Popped DEF HandleFetch, FetchesAsked, TypeOK
  <2>4. answers' = answers \/ (answer \in Answers /\ answers' = Append(answers, answer))
    BY <1>7, <2>2 DEF HandleFetch, Fetches, Answers, Items, TypeOK, Profiles
  <2>5. answers \in Seq(Answers) /\ lastId' = lastId /\ asked' = asked
    BY <1>7 DEF TypeOK, HandleFetch
  <2>6. AnswersAsked'
    <3> HIDE DEF answer
    <3> QED
      BY <2>3, <2>4, <2>5, Pushed DEF AnswersAsked
  <2> QED
    BY <1>7, <2>1, <2>6 DEF HandleFetch, RowsAsked, AnswerToAsker
<1>8. CASE Answer
  <2> DEFINE a == Head(answers)
  <2>0. /\ answers # <<>> /\ answers' = Tail(answers)
        /\ lastId' = lastId /\ asked' = asked /\ actions' = actions
    BY <1>8 DEF Answer
  <2>1. AnswersAsked'
    BY <2>0, Popped DEF AnswersAsked, TypeOK
  <2>2. a \in Answers /\ a.item.object = asked[a.request]
    BY <2>0, Popped, HeadTailProperties DEF AnswersAsked, TypeOK
  <2>3. DOMAIN at' = DOMAIN at
    BY <1>8 DEF Answer
  <2>4. \A p \in DOMAIN at : /\ at'[p].request = at[p].request
                             /\ at'[p].ref = at[p].ref
                             /\ at'[p].item = IF p = a.path /\ at[p].request = a.request
                                              THEN a.item ELSE at[p].item
    BY <1>8 DEF Answer, TypeOK, Rows
  <2>5. RowsAsked'
    BY <2>0, <2>3, <2>4 DEF RowsAsked
  <2>6. AnswerToAsker'
    BY <2>2, <2>3, <2>4 DEF Answers, Ids, RowsAsked, AnswerToAsker
  <2> QED
    BY <1>8, <2>1, <2>5, <2>6 DEF Answer, FetchesAsked
<1>9. CASE UNCHANGED vars
  BY <1>9 DEF vars, RowsAsked, AnswerToAsker, AnswersAsked, FetchesAsked
<1> QED
  BY <1>1, <1>2, <1>3, <1>4, <1>5, <1>6, <1>7, <1>8, <1>9 DEF Next

-------------------------------------------------------------------------------
(* Objects are of the profile that the row is of. *)

\* At the start the first file is the profile, and nothing was asked.
LEMMA OrderedInit == Init => Ordered
BY DEF Init, Ordered, Loads, OpensRise, Current, FetchesCurrent, AnswersCurrent, RowsCurrent,
       NoRows, Idle

\* Taking an action from the queue leaves the fetches that are still there
\* before the files that are opened after them.
LEMMA FetchesCurrentPopped ==
  ASSUME TypeOK, FetchesCurrent, actions # <<>>, actions' = Tail(actions), at' = at
  PROVE  FetchesCurrent'
<1>1. \A i \in DOMAIN actions' : /\ i \in Nat /\ i + 1 \in DOMAIN actions
                                 /\ actions'[i] = actions[i + 1]
  BY Popped DEF TypeOK
<1> SUFFICES ASSUME NEW i \in DOMAIN actions', NEW q \in DOMAIN at, NEW j \in DOMAIN actions',
                    actions'[i].type = "fetch", at[q].request = actions'[i].request, j > i
             PROVE  actions'[j].type # "open"
  BY DEF FetchesCurrent
<1>2. i + 1 \in DOMAIN actions /\ j + 1 \in DOMAIN actions /\ j + 1 > i + 1
  BY <1>1
<1>3. actions'[i] = actions[i + 1] /\ actions'[j] = actions[j + 1]
  BY <1>1
<1> QED
  BY <1>2, <1>3 DEF FetchesCurrent

\* Taking an action from the queue, whether its file becomes the profile or not,
\* leaves newer files to be opened in their order.
LEMMA OpensRisePopped ==
  ASSUME TypeOK, OpensRise, actions # <<>>, actions' = Tail(actions), chosen' = chosen,
         \/ profile' = profile
         \/ actions[1].type = "open" /\ profile' = actions[1].file
  PROVE  OpensRise'
<1>1. \A i \in DOMAIN actions' : /\ i \in Nat /\ i >= 1 /\ i + 1 \in DOMAIN actions
                                 /\ actions'[i] = actions[i + 1]
  BY Popped DEF TypeOK
<1>2. 1 \in DOMAIN actions
  BY Popped DEF TypeOK
<1> SUFFICES ASSUME NEW i \in DOMAIN actions', actions'[i].type = "open"
             PROVE  /\ profile' < actions'[i].file /\ actions'[i].file <= chosen
                    /\ \A j \in DOMAIN actions' : (j > i /\ actions'[j].type = "open")
                         => actions'[i].file < actions'[j].file
  BY DEF OpensRise
<1>3. i + 1 \in DOMAIN actions /\ actions'[i] = actions[i + 1] /\ i + 1 > 1
  BY <1>1
<1>4. profile' < actions'[i].file /\ actions'[i].file <= chosen
  BY <1>2, <1>3 DEF OpensRise
<1>5. ASSUME NEW j \in DOMAIN actions', j > i, actions'[j].type = "open"
      PROVE  actions'[i].file < actions'[j].file
  <2>1. j + 1 \in DOMAIN actions /\ actions'[j] = actions[j + 1] /\ j + 1 > i + 1
    BY <1>1, <1>5
  <2> QED
    BY <1>3, <1>5, <2>1 DEF OpensRise
<1> QED
  BY <1>4, <1>5

\* Every step keeps files, requests, answers and rows in their order: a file is opened
\* after the requests before it, and no row outlives its choice.
LEMMA OrderedStep == TypeOK /\ Asked /\ Ordered /\ [Next]_vars => Ordered'
<1> SUFFICES ASSUME TypeOK, Asked, Ordered, [Next]_vars PROVE Ordered'
  OBVIOUS
<1> USE DEF Ordered
<1>0. /\ \A i \in DOMAIN actions : actions[i] \in Opens \cup Fetches
      /\ \A i \in DOMAIN answers : answers[i] \in Answers
      /\ \A p \in DOMAIN at : at[p] \in Rows
  BY LenProperties DEF TypeOK
<1>1. CASE Fill
  <2>1. PICK of \in loaded, p \in Paths : \E object \in Contents[of] :
          at' = [q \in {p} |-> ResultRow(object, of)]
    BY <1>1 DEF Fill
  <2>2. PICK object \in Contents[of] : at' = [q \in {p} |-> ResultRow(object, of)]
    BY <2>1
  <2>3. \A q \in DOMAIN at' : /\ at'[q].request = 0 /\ at'[q].item.of = at'[q].of
                              /\ at'[q].of \in loaded /\ at'[q].since = chosen
    BY <2>2 DEF ResultRow
  <2>4. \A i \in DOMAIN answers : answers[i].request # 0
    BY <1>0 DEF Answers, Ids
  <2>5. \A i \in DOMAIN actions : actions[i].type = "fetch" => actions[i].request # 0
    BY <1>0 DEF Opens, Fetches, Ids
  <2> QED
    BY <1>1, <2>3, <2>4, <2>5
      DEF Fill, Loads, Current, OpensRise, FetchesCurrent, AnswersCurrent, RowsCurrent
<1>2. CASE Choose
  <2>1. /\ DOMAIN at' = {} /\ adding' = Idle /\ chosen' = chosen + 1
        /\ UNCHANGED <<profile, loaded>>
    BY <1>2 DEF Choose, NoRows
  <2>2. [type |-> "open", file |-> chosen + 1] \in Opens \cup Fetches
    BY <1>2 DEF Choose, TypeOK, Opens, Profiles
  <2>3. /\ DOMAIN actions' = DOMAIN actions \cup {Len(actions) + 1}
        /\ actions'[Len(actions) + 1].type = "open"
        /\ actions'[Len(actions) + 1].file = chosen + 1
        /\ \A i \in DOMAIN actions : i \in Nat /\ i < Len(actions) + 1 /\ actions'[i] = actions[i]
        /\ Len(actions) \in Nat
    BY <1>2, <2>2, Pushed DEF Choose, TypeOK
  <2>4. chosen \in Nat /\ profile \in Nat /\ profile <= chosen
    BY DEF TypeOK, Profiles, Loads
  <2>5. OpensRise'
    <3> SUFFICES ASSUME NEW i \in DOMAIN actions', actions'[i].type = "open"
                 PROVE  /\ profile < actions'[i].file /\ actions'[i].file <= chosen + 1
                        /\ \A j \in DOMAIN actions' : (j > i /\ actions'[j].type = "open")
                             => actions'[i].file < actions'[j].file
      BY <2>1 DEF OpensRise
    <3>1. CASE i = Len(actions) + 1
      BY <2>3, <2>4, <3>1
    <3>2. CASE i \in DOMAIN actions
      <4>1. /\ profile < actions[i].file /\ actions[i].file <= chosen
            /\ \A j \in DOMAIN actions : (j > i /\ actions[j].type = "open")
                 => actions[i].file < actions[j].file
        BY <2>3, <3>2 DEF OpensRise
      <4>2. actions[i].file \in Nat
        BY <1>0, <2>3, <3>2 DEF Opens, Fetches, Profiles
      <4> QED
        BY <2>3, <2>4, <3>2, <4>1, <4>2
    <3> QED
      BY <2>3, <3>1, <3>2
  <2>6. Loads'
    <3>1. profile <= chosen + 1
      BY <2>4
    <3> QED
      BY <2>1, <3>1 DEF Loads
  <2>7. Current' /\ FetchesCurrent' /\ AnswersCurrent' /\ RowsCurrent'
    BY <2>1 DEF Current, FetchesCurrent, AnswersCurrent, RowsCurrent
  <2> QED
    BY <2>5, <2>6, <2>7
<1>3. CASE Move
  <2>1. PICK to \in [DOMAIN at -> DOMAIN at] :
          at' = [p \in DOMAIN at |-> [at[to[p]] EXCEPT !.moved = (at[to[p]].moved \/ to[p] # p)]]
    BY <1>3 DEF Move
  <2>2. \A p \in DOMAIN at' : /\ to[p] \in DOMAIN at
                              /\ at'[p].request = at[to[p]].request
                              /\ at'[p].of = at[to[p]].of
                              /\ at'[p].since = at[to[p]].since
                              /\ at'[p].item = at[to[p]].item
    <3> SUFFICES ASSUME NEW p \in DOMAIN at'
                 PROVE  /\ to[p] \in DOMAIN at
                        /\ at'[p].request = at[to[p]].request
                        /\ at'[p].of = at[to[p]].of
                        /\ at'[p].since = at[to[p]].since
                        /\ at'[p].item = at[to[p]].item
      OBVIOUS
    <3>1. p \in DOMAIN at /\ to[p] \in DOMAIN at
      BY <2>1
    <3>2. at[to[p]] \in Rows /\ at'[p] = [at[to[p]] EXCEPT !.moved = (at[to[p]].moved \/ to[p] # p)]
      BY <1>0, <2>1, <3>1
    <3> QED
      BY <3>1, <3>2 DEF Rows
  <2>3. UNCHANGED <<adding, actions, answers, chosen, profile, loaded>>
    BY <1>3 DEF Move
  <2>4. Loads' /\ OpensRise' /\ (Settled' <=> Settled)
    BY <2>3 DEF Loads, OpensRise, Settled
  <2>5. Current'
    BY <2>2, <2>3 DEF Current
  <2>6. FetchesCurrent'
    BY <2>2, <2>3 DEF FetchesCurrent
  <2>7. AnswersCurrent'
    BY <2>2, <2>3, <2>4 DEF AnswersCurrent
  <2>8. RowsCurrent'
    BY <2>2, <2>3, <2>4 DEF RowsCurrent
  <2> QED
    BY <2>4, <2>5, <2>6, <2>7, <2>8
<1>4. CASE Expand
  <2>1. PICK p \in DOMAIN at :
          /\ at[p].item # NoItem
          /\ adding' = [fields |-> Fields[at[p].item.object], of |-> at[p].item.of,
                        since |-> at[p].since]
          /\ at' = [at EXCEPT ![p].fetched = TRUE]
    BY <1>4 DEF Expand
  <2>2. DOMAIN at' = DOMAIN at
    BY <2>1
  <2>3. \A q \in DOMAIN at : /\ at'[q].request = at[q].request
                             /\ at'[q].of = at[q].of
                             /\ at'[q].since = at[q].since
                             /\ at'[q].item = at[q].item
    BY <1>0, <2>1 DEF TypeOK, Rows
  <2>4. adding'.of \in loaded /\ adding'.since = chosen
    BY <2>1 DEF Current, RowsCurrent, Loads
  <2>5. UNCHANGED <<actions, answers, chosen, profile, loaded>>
    BY <1>4 DEF Expand
  <2>6. Loads' /\ OpensRise' /\ (Settled' <=> Settled)
    BY <2>5 DEF Loads, OpensRise, Settled
  <2>7. Current'
    BY <2>2, <2>3, <2>4, <2>5 DEF Current
  <2>8. FetchesCurrent' /\ AnswersCurrent'
    BY <2>2, <2>3, <2>5, <2>6 DEF FetchesCurrent, AnswersCurrent
  <2>9. RowsCurrent'
    BY <2>2, <2>3, <2>5, <2>6 DEF RowsCurrent
  <2> QED
    BY <2>6, <2>7, <2>8, <2>9
<1>5. CASE AddField
  <2> DEFINE fetch(p) == [type |-> "fetch", request |-> lastId + 1,
                          object |-> Head(adding.fields), path |-> p]
  <2>1. PICK p \in Paths \ DOMAIN at :
          /\ at' = [q \in DOMAIN at \cup {p} |-> IF q = p THEN FieldRow(lastId + 1) ELSE at[q]]
          /\ actions' = Append(actions, fetch(p))
    BY <1>5 DEF AddField, AddRow
  <2>2. /\ lastId + 1 \in Ids /\ adding # Idle /\ adding' = NextRound
        /\ UNCHANGED <<answers, chosen, profile, loaded>>
    BY <1>5 DEF AddField, AddRow, TypeOK, Ids
  <2>3. fetch(p) \in Opens \cup Fetches
    BY <2>2, HeadTailProperties DEF Fetches, TypeOK
  <2>4. /\ DOMAIN actions' = DOMAIN actions \cup {Len(actions) + 1}
        /\ actions'[Len(actions) + 1] = fetch(p)
        /\ \A i \in DOMAIN actions : i \in Nat /\ i < Len(actions) + 1 /\ actions'[i] = actions[i]
        /\ Len(actions) \in Nat
    <3> HIDE DEF fetch
    <3>1. actions \in Seq(Opens \cup Fetches)
      BY DEF TypeOK
    <3> QED
      BY <2>1, <2>3, <3>1, Pushed
  <2>5. DOMAIN at' = DOMAIN at \cup {p}
        /\ \A q \in DOMAIN at : at'[q] = at[q] /\ at[q].request < lastId + 1
    BY <2>1, <1>0 DEF Asked, RowsAsked, Rows, TypeOK
  <2>6. /\ at'[p].request = lastId + 1 /\ at'[p].of = adding.of /\ at'[p].since = adding.since
        /\ at'[p].item = NoItem
    BY <2>1 DEF FieldRow
  <2>7. Current'
    BY <2>2, <2>5, <2>6, NextRoundType DEF Current
  <2>8. Loads' /\ (Settled' <=> Settled)
    BY <2>2, <2>4 DEF Loads, Settled
  <2>9. OpensRise'
    <3>1. \A i \in DOMAIN actions' : actions'[i].type = "open" =>
            i \in DOMAIN actions /\ actions'[i] = actions[i]
      BY <2>4
    <3> QED
      BY <2>2, <3>1 DEF OpensRise
  <2>10. FetchesCurrent'
    <3> SUFFICES ASSUME NEW i \in DOMAIN actions', NEW q \in DOMAIN at', NEW j \in DOMAIN actions',
                        actions'[i].type = "fetch", at'[q].request = actions'[i].request, j > i
                 PROVE  actions'[j].type # "open"
      BY DEF FetchesCurrent
    <3>1. CASE j = Len(actions) + 1
      BY <3>1, <2>4
    <3>2. CASE i \in DOMAIN actions /\ j \in DOMAIN actions
      <4>0. actions[i].type = "fetch" /\ actions[i] \in Fetches
        BY <3>2, <2>4, <1>0 DEF Opens
      <4>1. actions[i].request < lastId + 1
        <5>1. actions[i].request <= lastId
          BY <3>2, <4>0 DEF Asked, FetchesAsked
        <5>2. actions[i].request \in Ids /\ lastId \in 0..MaxRequests
          BY <4>0 DEF Fetches, TypeOK
        <5> QED
          BY <5>1, <5>2 DEF Ids
      <4>2. q \in DOMAIN at
        BY <4>1, <3>2, <2>4, <2>5, <2>6 DEF TypeOK
      <4> QED
        BY <4>2, <3>2, <2>4, <2>5 DEF FetchesCurrent
    <3> QED
      BY <3>1, <3>2, <2>4
  <2>11. AnswersCurrent'
    <3> SUFFICES ASSUME NEW i \in DOMAIN answers, NEW q \in DOMAIN at',
                        at'[q].request = answers[i].request
                 PROVE  answers[i].item.of = profile /\ Settled
      BY <2>2, <2>8 DEF AnswersCurrent
    <3>1. answers[i].request < lastId + 1
      BY <1>0 DEF Asked, AnswersAsked, Answers, Ids, TypeOK
    <3>2. q \in DOMAIN at
      BY <3>1, <2>5, <2>6 DEF TypeOK
    <3> QED
      BY <3>2, <2>5 DEF AnswersCurrent
  <2>12. RowsCurrent'
    BY <2>2, <2>5, <2>6, <2>8 DEF RowsCurrent
  <2> QED
    BY <2>7, <2>8, <2>9, <2>10, <2>11, <2>12
<1>6. CASE HandleOpen
  <2>1. /\ actions # <<>> /\ actions' = Tail(actions)
        /\ actions[1].type = "open" /\ 1 \in DOMAIN actions
        /\ \/ profile' = actions[1].file /\ loaded' = loaded \cup {profile'}
           \/ UNCHANGED <<profile, loaded>>
        /\ UNCHANGED <<at, adding, answers, chosen>>
    BY <1>6, Popped DEF HandleOpen, TypeOK
  <2>2. OpensRise'
    BY <2>1, OpensRisePopped
  <2>3. FetchesCurrent'
    BY <2>1, FetchesCurrentPopped
  <2>4. ~Settled
    BY <2>1 DEF Settled
  <2>5. profile < actions[1].file /\ actions[1].file <= chosen
    BY <2>1 DEF OpensRise
  <2>6. actions[1].file \in Nat /\ profile \in Nat /\ loaded \subseteq Nat
    BY <1>0, <2>1 DEF Opens, Fetches, TypeOK, Profiles
  <2>7. Loads'
    <3>1. CASE UNCHANGED <<profile, loaded>>
      BY <2>1, <3>1 DEF Loads
    <3>2. CASE profile' = actions[1].file /\ loaded' = loaded \cup {profile'}
      <4>1. \A f \in loaded : f <= profile'
        BY <2>5, <2>6, <3>2 DEF Loads
      <4> QED
        BY <2>1, <2>5, <2>6, <3>2, <4>1 DEF Loads
    <3> QED
      BY <2>1, <3>1, <3>2
  <2>8. Current'
    BY <2>1 DEF Current
  <2>9. AnswersCurrent' /\ RowsCurrent'
    BY <2>1, <2>4 DEF AnswersCurrent, RowsCurrent
  <2> QED
    BY <2>2, <2>3, <2>7, <2>8, <2>9
<1>7. CASE HandleFetch
  <2> DEFINE answer == [request |-> actions[1].request, path |-> actions[1].path,
                        item |-> [object |-> actions[1].object, of |-> profile]]
  <2>1. /\ actions # <<>> /\ actions' = Tail(actions) /\ actions[1].type = "fetch"
        /\ UNCHANGED <<at, adding, chosen, profile, loaded>>
    BY <1>7, Popped DEF HandleFetch, TypeOK
  <2>2. 1 \in DOMAIN actions /\ actions[1] \in Fetches
    BY <1>0, <2>1, Popped DEF Opens, TypeOK
  <2>3. OpensRise'
    BY <2>1, OpensRisePopped
  <2>4. FetchesCurrent'
    BY <2>1, FetchesCurrentPopped
  <2>5. \A p \in DOMAIN at : at[p].request = answer.request => Settled
    <3> SUFFICES ASSUME NEW p \in DOMAIN at, at[p].request = actions[1].request
                 PROVE  Settled
      OBVIOUS
    <3>1. \A j \in DOMAIN actions : j > 1 => actions[j].type # "open"
      BY <2>1, <2>2 DEF FetchesCurrent
    <3> QED
      BY <2>1, <3>1, Popped DEF TypeOK, Settled
  <2>6. Settled => Settled'
    BY <2>1, Popped DEF Settled, TypeOK
  <2>7. answers' = answers \/ (answer \in Answers /\ answers' = Append(answers, answer))
    BY <1>7, <2>2, Popped DEF HandleFetch, Fetches, Answers, Items, TypeOK, Profiles
  <2>8. answer.item.of = profile /\ answers \in Seq(Answers)
    BY DEF TypeOK
  <2>9. AnswersCurrent'
    <3> HIDE DEF answer
    <3> SUFFICES ASSUME NEW i \in DOMAIN answers', NEW p \in DOMAIN at,
                        at[p].request = answers'[i].request
                 PROVE  answers'[i].item.of = profile /\ Settled
      BY <2>1, <2>6 DEF AnswersCurrent
    <3>1. \/ i \in DOMAIN answers /\ answers'[i] = answers[i]
          \/ answers'[i] = answer
      <4>1. CASE answer \in Answers /\ answers' = Append(answers, answer)
        <5>1. IsPushed(answers, answers', answer)
          BY <2>8, <4>1, AppendPushes
        <5> QED
          BY <5>1 DEF IsPushed
      <4> QED
        BY <2>7, <4>1
    <3> QED
      BY <2>5, <2>8, <3>1 DEF AnswersCurrent
  <2>10. RowsCurrent'
    BY <2>1, <2>6 DEF RowsCurrent
  <2> QED
    BY <2>1, <2>3, <2>4, <2>9, <2>10 DEF Loads, Current
<1>8. CASE Answer
  <2> DEFINE a == Head(answers)
  <2>1. /\ answers # <<>> /\ answers' = Tail(answers) /\ DOMAIN at' = DOMAIN at
        /\ UNCHANGED <<adding, actions, chosen, profile, loaded>>
    BY <1>8 DEF Answer
  <2>2. \A p \in DOMAIN at : /\ at'[p].request = at[p].request
                             /\ at'[p].of = at[p].of
                             /\ at'[p].since = at[p].since
                             /\ at'[p].item = IF p = a.path /\ at[p].request = a.request
                                              THEN a.item ELSE at[p].item
    BY <1>8 DEF Answer, TypeOK, Rows
  <2>3. 1 \in DOMAIN answers /\ a = answers[1] /\ a.request # 0
    BY <1>0, <2>1, Popped DEF TypeOK, Answers, Ids
  <2>4. Loads' /\ OpensRise' /\ (Settled' <=> Settled)
    BY <2>1 DEF Loads, OpensRise, Settled
  <2>5. RowsCurrent'
    <3> SUFFICES ASSUME NEW p \in DOMAIN at, at'[p].item # NoItem
                 PROVE  IF at[p].request = 0 THEN at'[p].item.of = at[p].of
                                             ELSE at'[p].item.of = profile /\ Settled
      BY <2>1, <2>2, <2>4 DEF RowsCurrent
    <3>1. CASE p = a.path /\ at[p].request = a.request
      BY <2>2, <2>3, <3>1 DEF AnswersCurrent
    <3>2. CASE ~(p = a.path /\ at[p].request = a.request)
      BY <2>2, <3>2 DEF RowsCurrent
    <3> QED
      BY <3>1, <3>2
  <2>6. AnswersCurrent'
    <3>1. \A i \in DOMAIN answers' : i + 1 \in DOMAIN answers /\ answers'[i] = answers[i + 1]
      BY <2>1, Popped DEF TypeOK
    <3> QED
      BY <2>1, <2>2, <2>4, <3>1 DEF AnswersCurrent
  <2>7. Current'
    BY <2>1, <2>2 DEF Current
  <2>8. FetchesCurrent'
    BY <2>1, <2>2 DEF FetchesCurrent
  <2> QED
    BY <2>4, <2>5, <2>6, <2>7, <2>8
<1>9. CASE UNCHANGED vars
  BY <1>9 DEF vars, Loads, OpensRise, Settled, Current, FetchesCurrent, AnswersCurrent, RowsCurrent
<1> QED
  BY <1>1, <1>2, <1>3, <1>4, <1>5, <1>6, <1>7, <1>8, <1>9 DEF Next

\* In that order an object is of the profile of its row, or of the last of the files
\* that were loaded between the two.
LEMMA OrderedAnswers == TypeOK /\ Ordered => SameProfile
<1> SUFFICES ASSUME TypeOK, Ordered, NEW p \in DOMAIN at, at[p].item # NoItem, at[p].request # 0
             PROVE  IF Overtaking(at[p]) = {}
                    THEN at[p].item.of = at[p].of
                    ELSE /\ at[p].item.of \in Overtaking(at[p])
                         /\ \A f \in Overtaking(at[p]) : f <= at[p].item.of
  BY DEF Ordered, RowsCurrent, SameProfile
<1> DEFINE row == at[p]
<1>1. row.item.of = profile /\ row.since = chosen /\ row.of \in loaded
  BY DEF Ordered, RowsCurrent, Current
<1>2. /\ profile \in loaded /\ profile <= chosen /\ \A f \in loaded : f <= profile
      /\ loaded \subseteq Nat /\ chosen \in Nat
  BY DEF Ordered, Loads, TypeOK, Profiles
<1>3. Overtaking(row) \subseteq loaded /\ \A f \in Overtaking(row) : row.of < f
  BY DEF Overtaking
<1> HIDE DEF row
<1>4. CASE row.of = profile
  <2>1. ASSUME NEW f \in Overtaking(row) PROVE FALSE
    <3>1. f \in Nat /\ profile \in Nat /\ f <= profile /\ profile < f
      BY <1>2, <1>3, <1>4
    <3> QED
      BY <3>1
  <2> QED
    BY <1>1, <1>4, <2>1 DEF row
<1>5. CASE row.of # profile
  <2>1. row.of < profile
    <3>1. row.of \in Nat /\ profile \in Nat /\ row.of <= profile
      BY <1>1, <1>2
    <3> QED
      BY <1>5, <3>1
  <2>2. profile \in Overtaking(row)
    BY <1>1, <1>2, <2>1 DEF Overtaking
  <2> QED
    BY <1>1, <1>2, <1>3, <2>2 DEF row
<1> QED
  BY <1>4, <1>5

-------------------------------------------------------------------------------
(* Rows get what they asked for. *)

\* The object of a row that is at path p and has request r may still come.
Awaited(r, p, acts, answs, unkn) ==
  \/ r \in unkn
  \/ \E i \in DOMAIN acts : acts[i].type = "fetch" /\ acts[i].request = r /\ acts[i].path = p
  \/ \E i \in DOMAIN answs : answs[i].request = r /\ answs[i].path = p

\* Every step that leaves a row without its answer has moved it, or had none for it.
LEMMA LostStep == TypeOK /\ LostOnlyIfMoved /\ [Next]_vars => LostOnlyIfMoved'
<1> SUFFICES ASSUME TypeOK, LostOnlyIfMoved, [Next]_vars PROVE LostOnlyIfMoved'
  OBVIOUS
<1>a. \A p \in DOMAIN at :
        (at[p].request # 0 /\ at[p].item = NoItem)
          => at[p].moved \/ Awaited(at[p].request, p, actions, answers, unknown)
  BY DEF LostOnlyIfMoved, Awaited
<1>b. ASSUME \A p \in DOMAIN at' :
               (at'[p].request # 0 /\ at'[p].item = NoItem)
                 => at'[p].moved \/ Awaited(at'[p].request, p, actions', answers', unknown')
      PROVE  LostOnlyIfMoved'
  BY <1>b DEF LostOnlyIfMoved, Awaited
<1>0. /\ \A i \in DOMAIN actions : actions[i] \in Opens \cup Fetches
      /\ \A i \in DOMAIN answers : answers[i] \in Answers
      /\ \A p \in DOMAIN at : at[p] \in Rows
  BY LenProperties DEF TypeOK
<1>1. CASE Fill
  BY <1>1 DEF Fill, LostOnlyIfMoved, ResultRow
<1>2. CASE Choose
  BY <1>2 DEF Choose, NoRows, LostOnlyIfMoved
<1>3. CASE Move
  <2>1. PICK to \in [DOMAIN at -> DOMAIN at] :
          at' = [p \in DOMAIN at |-> [at[to[p]] EXCEPT !.moved = (at[to[p]].moved \/ to[p] # p)]]
    BY <1>3 DEF Move
  <2>2. \A p \in DOMAIN at' : /\ to[p] \in DOMAIN at
                              /\ at'[p].request = at[to[p]].request
                              /\ at'[p].item = at[to[p]].item
                              /\ at'[p].moved = (at[to[p]].moved \/ to[p] # p)
    <3> SUFFICES ASSUME NEW p \in DOMAIN at
                 PROVE  /\ to[p] \in DOMAIN at
                        /\ at'[p].request = at[to[p]].request
                        /\ at'[p].item = at[to[p]].item
                        /\ at'[p].moved = (at[to[p]].moved \/ to[p] # p)
      BY <2>1
    <3>1. at[to[p]] \in Rows /\ at'[p] = [at[to[p]] EXCEPT !.moved = (at[to[p]].moved \/ to[p] # p)]
      BY <1>0, <2>1
    <3> QED
      BY <3>1 DEF Rows
  <2>3. \A r, p : Awaited(r, p, actions', answers', unknown') <=> Awaited(r, p, actions, answers, unknown)
    BY <1>3 DEF Move, Awaited
  <2>4. ASSUME NEW p \in DOMAIN at', at'[p].request # 0, at'[p].item = NoItem
        PROVE  at'[p].moved \/ Awaited(at'[p].request, p, actions', answers', unknown')
    <3>1. CASE to[p] # p
      BY <2>2, <3>1
    <3>2. CASE to[p] = p
      <4>1. at'[p].moved = at[p].moved /\ at'[p].request = at[p].request /\ p \in DOMAIN at
            /\ at'[p].item = at[p].item
        BY <1>0, <2>1, <2>2, <3>2 DEF Rows
      <4>2. at[p].moved \/ Awaited(at[p].request, p, actions, answers, unknown)
        BY <1>a, <2>4, <4>1
      <4> QED
        BY <2>3, <4>1, <4>2
    <3> QED
      BY <3>1, <3>2
  <2> QED
    BY <1>b, <2>4
<1>4. CASE Expand
  <2>1. PICK p \in DOMAIN at : at' = [at EXCEPT ![p].fetched = TRUE]
    BY <1>4 DEF Expand
  <2>2. DOMAIN at' = DOMAIN at
    BY <2>1
  <2>3. \A q \in DOMAIN at : /\ at'[q].request = at[q].request
                             /\ at'[q].item = at[q].item
                             /\ at'[q].moved = at[q].moved
    BY <1>0, <2>1 DEF TypeOK, Rows
  <2>4. \A r, q : Awaited(r, q, actions', answers', unknown') <=> Awaited(r, q, actions, answers, unknown)
    BY <1>4 DEF Expand, Awaited
  <2> QED
    BY <1>a, <1>b, <2>2, <2>3, <2>4
<1>5. CASE AddField
  <2> DEFINE fetch(p) == [type |-> "fetch", request |-> lastId + 1,
                          object |-> Head(adding.fields), path |-> p]
  <2>1. PICK p \in Paths \ DOMAIN at :
          /\ at' = [q \in DOMAIN at \cup {p} |-> IF q = p THEN FieldRow(lastId + 1) ELSE at[q]]
          /\ actions' = Append(actions, fetch(p))
    BY <1>5 DEF AddField, AddRow
  <2>2. lastId + 1 \in Ids /\ adding # Idle /\ answers' = answers /\ unknown' = unknown
    BY <1>5 DEF AddField, AddRow, TypeOK, Ids
  <2>3. fetch(p) \in Opens \cup Fetches
    BY <2>2, HeadTailProperties DEF Fetches, TypeOK
  <2>4. /\ DOMAIN actions' = DOMAIN actions \cup {Len(actions) + 1}
        /\ actions'[Len(actions) + 1] = fetch(p)
        /\ \A i \in DOMAIN actions : actions'[i] = actions[i]
    BY <2>1, <2>3, Pushed DEF TypeOK
  <2>5. \A r, q : Awaited(r, q, actions, answers, unknown) => Awaited(r, q, actions', answers', unknown')
    BY <2>2, <2>4 DEF Awaited
  <2>6. Awaited(lastId + 1, p, actions', answers', unknown')
    BY <2>4 DEF Awaited
  <2>7. /\ DOMAIN at' = DOMAIN at \cup {p} /\ at'[p].request = lastId + 1
        /\ \A q \in DOMAIN at : at'[q] = at[q]
    BY <2>1 DEF FieldRow
  <2>8. \A q \in DOMAIN at' : (at'[q].request # 0 /\ at'[q].item = NoItem)
                                => at'[q].moved \/ Awaited(at'[q].request, q, actions', answers', unknown')
    BY <1>a, <2>5, <2>6, <2>7
  <2> QED
    BY <1>b, <2>8
<1>6. CASE HandleOpen
  <2>1. /\ actions # <<>> /\ actions' = Tail(actions) /\ actions[1].type = "open"
        /\ UNCHANGED <<at, answers, unknown>>
    BY <1>6, Popped DEF HandleOpen, TypeOK
  <2>2. \A i \in DOMAIN actions : actions[i].type = "fetch" =>
          i - 1 \in DOMAIN actions' /\ actions'[i - 1] = actions[i]
    <3>1. \A i \in DOMAIN actions : i # 1 => i - 1 \in DOMAIN actions' /\ actions'[i - 1] = actions[i]
      BY <2>1, Popped DEF TypeOK
    <3> QED
      BY <2>1, <3>1
  <2>3. ASSUME NEW r, NEW p, Awaited(r, p, actions, answers, unknown)
        PROVE  Awaited(r, p, actions', answers', unknown')
    <3>1. CASE r \in unknown \/ \E i \in DOMAIN answers : answers[i].request = r /\ answers[i].path = p
      BY <2>1, <3>1 DEF Awaited
    <3>2. ASSUME NEW i \in DOMAIN actions, actions[i].type = "fetch",
                 actions[i].request = r, actions[i].path = p
          PROVE  Awaited(r, p, actions', answers', unknown')
      BY <2>2, <3>2 DEF Awaited
    <3> QED
      BY <2>3, <3>1, <3>2 DEF Awaited
  <2> QED
    BY <1>a, <1>b, <2>1, <2>3
<1>7. CASE HandleFetch
  <2> DEFINE answer == [request |-> actions[1].request, path |-> actions[1].path,
                        item |-> [object |-> actions[1].object, of |-> profile]]
  <2>1. /\ actions # <<>> /\ actions' = Tail(actions) /\ actions[1].type = "fetch"
        /\ at' = at
    BY <1>7, Popped DEF HandleFetch, TypeOK
  <2>2. actions[1] \in Fetches
    BY <1>0, <2>1, Popped DEF Opens, TypeOK
  <2>3. \/ /\ unknown' = unknown
           /\ answer \in Answers /\ answers' = Append(answers, answer)
        \/ unknown' = unknown \cup {actions[1].request} /\ answers' = answers
    BY <1>7, <2>2, Popped DEF HandleFetch, Fetches, Answers, Items, TypeOK, Profiles
  <2>4. /\ answers \in Seq(Answers)
        /\ answer.request = actions[1].request /\ answer.path = actions[1].path
    BY DEF TypeOK
  <2>5. /\ \A i \in DOMAIN answers : i \in DOMAIN answers' /\ answers'[i] = answers[i]
        /\ \/ actions[1].request \in unknown'
           \/ \E i \in DOMAIN answers' : /\ answers'[i].request = actions[1].request
                                         /\ answers'[i].path = actions[1].path
    <3> HIDE DEF answer
    <3>1. CASE answer \in Answers /\ answers' = Append(answers, answer)
      <4>1. IsPushed(answers, answers', answer)
        BY <2>4, <3>1, AppendPushes
      <4>2. Len(answers') \in DOMAIN answers' /\ answers'[Len(answers')] = answer
        BY <4>1 DEF IsPushed
      <4>3. \A i \in DOMAIN answers : i \in DOMAIN answers' /\ answers'[i] = answers[i]
        BY <4>1 DEF IsPushed
      <4> QED
        BY <2>4, <4>2, <4>3
    <3>2. CASE unknown' = unknown \cup {actions[1].request} /\ answers' = answers
      BY <3>2
    <3> QED
      BY <2>3, <3>1, <3>2
  <2>6. ASSUME NEW r, NEW p, Awaited(r, p, actions, answers, unknown)
        PROVE  Awaited(r, p, actions', answers', unknown')
    <3>1. CASE r \in unknown \/ \E i \in DOMAIN answers : answers[i].request = r /\ answers[i].path = p
      BY <2>3, <2>5, <3>1 DEF Awaited
    <3>2. ASSUME NEW i \in DOMAIN actions, actions[i].type = "fetch",
                 actions[i].request = r, actions[i].path = p
          PROVE  Awaited(r, p, actions', answers', unknown')
      <4>1. CASE i = 1
        BY <2>5, <3>2, <4>1 DEF Awaited
      <4>2. CASE i # 1
        <5>1. i - 1 \in DOMAIN actions' /\ actions'[i - 1] = actions[i]
          BY <2>1, <4>2, Popped DEF TypeOK
        <5> QED
          BY <3>2, <5>1 DEF Awaited
      <4> QED
        BY <4>1, <4>2
    <3> QED
      BY <2>6, <3>1, <3>2 DEF Awaited
  <2> QED
    BY <1>a, <1>b, <2>1, <2>6
<1>8. CASE Answer
  <2> DEFINE a == Head(answers)
  <2>1. /\ answers # <<>> /\ answers' = Tail(answers) /\ DOMAIN at' = DOMAIN at
        /\ UNCHANGED <<actions, unknown>>
    BY <1>8 DEF Answer
  <2>2. \A p \in DOMAIN at : /\ at'[p].request = at[p].request
                             /\ at'[p].moved = at[p].moved
                             /\ at'[p].item = IF p = a.path /\ at[p].request = a.request
                                              THEN a.item ELSE at[p].item
    BY <1>8 DEF Answer, TypeOK, Rows
  <2>3. a = answers[1] /\ a.item # NoItem
    BY <1>0, <2>1, Popped DEF Answers, Items, NoItem, TypeOK
  <2>4. \A i \in DOMAIN answers : i # 1 => i - 1 \in DOMAIN answers' /\ answers'[i - 1] = answers[i]
    BY <2>1, Popped DEF TypeOK
  <2>5. ASSUME NEW r, NEW p, Awaited(r, p, actions, answers, unknown),
               ~(r = a.request /\ p = a.path)
        PROVE  Awaited(r, p, actions', answers', unknown')
    BY <2>1, <2>3, <2>4, <2>5 DEF Awaited
  <2> QED
    <3> SUFFICES ASSUME NEW p \in DOMAIN at, at[p].request # 0, at'[p].item = NoItem
                 PROVE  at[p].moved \/ Awaited(at[p].request, p, actions', answers', unknown')
      BY <1>b, <2>1, <2>2
    <3>1. ~(at[p].request = a.request /\ p = a.path) /\ at[p].item = NoItem
      BY <2>2, <2>3
    <3> QED
      BY <1>a, <2>5, <3>1
<1>9. CASE UNCHANGED vars
  BY <1>9 DEF vars, LostOnlyIfMoved
<1> QED
  BY <1>1, <1>2, <1>3, <1>4, <1>5, <1>6, <1>7, <1>8, <1>9 DEF Next

-------------------------------------------------------------------------------
\* The inductive invariant holds of every behaviour.
THEOREM Invariance == Spec => []IInv
<1>1. Init => IInv
  BY TypeInit, AskedInit, OrderedInit DEF IInv, Init, LostOnlyIfMoved, NoRows
<1>2. IInv /\ [Next]_vars => IInv'
  BY TypeStep, AskedStep, OrderedStep, LostStep DEF IInv
<1> QED
  BY <1>1, <1>2, PTL DEF Spec

\* Type correctness of the rows, the two queues and the numbers, for any tree.
THEOREM TypeCorrect == Spec => []TypeOK
<1>1. IInv => TypeOK
  BY DEF IInv
<1> QED
  BY <1>1, Invariance, PTL

\* A row never shows an object that it does not refer to: assign_value compares the
\* numbers, which are given out once.
THEOREM AnswersReachTheirRows == Spec => []AnswerToAsker
<1>1. IInv => AnswerToAsker
  BY DEF IInv, Asked
<1> QED
  BY <1>1, Invariance, PTL

\* What a row shows is from the file its result is of, whether the loads succeed or
\* not, because requests and files to open go through one queue, on_open_hprof_file
\* clears the rows, and a failed load keeps the profile; only a load that overtook the
\* result comes between, and then the last of those answers.
THEOREM AnswersOfOneProfile == Spec => []SameProfile
<1>1. IInv => SameProfile
  BY OrderedAnswers DEF IInv
<1> QED
  BY <1>1, Invariance, PTL

\* Only sorting, or an id that is not in the file, makes an answer go astray.
THEOREM LossCharacterised == Spec => []LostOnlyIfMoved
<1>1. IInv => LostOnlyIfMoved
  BY DEF IInv
<1> QED
  BY <1>1, Invariance, PTL
===============================================================================
