-------------------------- MODULE BrowserSessionProofs --------------------------
(***************************************************************************)
(* Proofs about BrowserSession, for any number of files, queries, rows,     *)
(* reports and places in the pipe.  The invariants speak of two sequences:  *)
(* what is given to the worker and what is coming back from it.  A step of  *)
(* the session pushes on one, pops from one, or moves the first of the      *)
(* actions given to the signals that are coming; what the order in them     *)
(* says is kept by each of these.                                           *)
(***************************************************************************)
EXTENDS BrowserSession, SequenceFacts

USE BoundsAssumption, PipeAssumption

(* Signals that the window has still to process, and actions that the worker   *)
(* has still to take, each in the order in which that will happen.             *)
Coming == signals \o todo
Given == IF inHand = None THEN actions ELSE Append(actions, inHand)

Sendable ==
  [type : {"started"}, file : Files] \cup [type : {"progress"}]
    \cup [type : {"finished"}, file : Files, loaded : BOOLEAN]
    \cup [type : {"result"}, query : Queries, seq : Queries, of : Files]
    \cup [type : {"failed"}, seq : Queries]
    \cup [type : {"row", "filled"}, fill : Fills]

\* What the worker has still to send is of one action.
OneAction ==
  todo # <<>> =>
    LET last == todo[Len(todo)] IN
      \/ last.type = "finished" /\ \A i \in DOMAIN todo : todo[i].type \in {"started", "progress", "finished"}
      \/ last.type \in {"result", "failed"} /\ Len(todo) = 1
      \/ /\ last.type = "filled"
         /\ \A i \in DOMAIN todo : todo[i].type \in {"row", "filled"} /\ todo[i].fill = last.fill

TypeOK ==
  /\ active \in BOOLEAN
  /\ ui \in {"loop", "handing", "clearing", "activating", "ended"}
  /\ active \/ (ui = "loop" /\ ~button /\ ~holding /\ actions = <<>> /\ signals = <<>>)
  /\ inHand \in Messages \cup {None} /\ (ui = "handing" <=> inHand # None)
  /\ actions \in Seq(Messages)
  /\ todo \in Seq(Sendable) /\ signals \in Seq(Sendable)
  /\ holding \in BOOLEAN /\ (todo # <<>> => holding)
  /\ OneAction
  /\ profile \in 0..MaxOpens
  /\ seqNumber \in Nat /\ seqNumber <= Len(asked)
  /\ bar \in BOOLEAN /\ button \in BOOLEAN /\ attached \in BOOLEAN
  /\ title \in 0..opens /\ opens \in 0..MaxOpens
  /\ asked \in Seq([opens : 0..opens, raced : BOOLEAN]) /\ Len(asked) <= MaxQueries
  /\ failed \subseteq Queries

Starts(x) == x.type \in {"open", "started"}
AsksFor(x) == x.type \in {"query", "result"}

\* Files that are still to be opened, or whose opening is still to be signalled, are
\* newer than the one the window names, and come in order.
FilesInOrder ==
  /\ \A i \in DOMAIN Coming : Starts(Coming[i]) => title < Coming[i].file /\ Coming[i].file <= opens
  /\ \A i \in DOMAIN Given : Starts(Given[i]) => title < Given[i].file /\ Given[i].file <= opens
  /\ \A i, j \in DOMAIN Coming :
       i < j /\ Starts(Coming[i]) /\ Starts(Coming[j]) => Coming[i].file < Coming[j].file
  /\ \A i \in DOMAIN Coming, j \in DOMAIN Given :
       Starts(Coming[i]) /\ Starts(Given[j]) => Coming[i].file < Given[j].file
  /\ \A i, j \in DOMAIN Given :
       i < j /\ Starts(Given[i]) /\ Starts(Given[j]) => Given[i].file < Given[j].file

\* A query that is behind a file still to be signalled was asked in that window.
RacedBehindStarts ==
  /\ \A i, j \in DOMAIN Coming :
       i < j /\ Starts(Coming[i]) /\ AsksFor(Coming[j]) => asked[Coming[j].query].raced
  /\ \A i \in DOMAIN Coming, j \in DOMAIN Given :
       Starts(Coming[i]) /\ AsksFor(Given[j]) => asked[Given[j].query].raced
  /\ \A i, j \in DOMAIN Given :
       i < j /\ Starts(Given[i]) /\ AsksFor(Given[j]) => asked[Given[j].query].raced

\* The number of any other query tells how many were asked since.
Counts(x) == AsksFor(x) => /\ x.query \in 1..Len(asked)
                           /\ \/ asked[x.query].raced
                              \/ x.seq + Len(asked) = seqNumber + x.query
Numbered == /\ \A i \in DOMAIN Coming : Counts(Coming[i])
            /\ \A i \in DOMAIN Given : Counts(Given[i])

-------------------------------------------------------------------------------
Finishing == \E i \in DOMAIN todo : todo[i].type = "finished"

\* A result is of the profile there is, or a load has begun after it.
ResultsCurrent ==
  \A i \in DOMAIN Coming :
    Coming[i].type = "result" =>
      \/ Coming[i].of = profile /\ ~Finishing
      \/ \E j \in DOMAIN Coming : j > i /\ Starts(Coming[j])

\* A result that was accepted in time is filled in before the next load.
FillsCurrent ==
  /\ \A i \in DOMAIN Given :
       Given[i].type = "fill" /\ ~Given[i].late =>
         /\ Given[i].of = profile /\ ~Finishing
         /\ \A j \in DOMAIN Given : j < i => ~Starts(Given[j])
  /\ \A i \in DOMAIN todo :
       todo[i].type \in {"row", "filled"} /\ ~todo[i].fill.late => todo[i].fill.of = profile

\* The end of a load is behind its start, or the start has been processed.
ButtonOffWhileLoading ==
  \A j \in DOMAIN Coming :
    Coming[j].type = "finished" =>
      \/ \E i \in DOMAIN Coming :
           /\ i < j /\ Starts(Coming[i])
           /\ \A k \in DOMAIN Coming : i < k /\ k < j => Coming[k].type # "finished"
      \/ ~button /\ \A k \in DOMAIN Coming : k < j => Coming[k].type # "finished"

\* Rows of an older profile are not shown when the load is over.
OldRowsHidden ==
  (rows # NoRows /\ ~rows.late) =>
    \/ rows.of = profile /\ ~Finishing
    \/ \E j \in DOMAIN Coming : /\ Coming[j].type = "finished"
                                /\ \A k \in DOMAIN Coming : k > j => Coming[k].type # "filled"
    \/ ~attached /\ \A k \in DOMAIN Coming : Coming[k].type # "filled"

-------------------------------------------------------------------------------
(* The way of the latest query, if no file was chosen since and none was being *)
(* opened when it was asked.                                                   *)
Latest == Len(asked)
Undisturbed == Latest > 0 /\ asked[Latest].opens = opens /\ ~asked[Latest].raced

NoLoads == /\ title = opens /\ ui # "clearing"
           /\ \A i \in DOMAIN Given : ~Starts(Given[i])
           /\ \A i \in DOMAIN Coming : ~Starts(Coming[i]) /\ Coming[i].type # "finished"

NoQueries == \A i \in DOMAIN Given : ~AsksFor(Given[i])
NoResults == \A i \in DOMAIN Coming : ~AsksFor(Coming[i])
IsLatest(x) == x.query = Latest /\ x.of = profile
RowsLatest == Rows > 0 => IsLatest(rows)

Handed == \E k \in DOMAIN Given :
            /\ AsksFor(Given[k]) /\ Given[k].query = Latest /\ Given[k].seq = seqNumber
            /\ \A m \in DOMAIN Given : m > k => ~AsksFor(Given[m])
Answered == /\ NoQueries
            /\ \E k \in DOMAIN Coming :
                 /\ AsksFor(Coming[k]) /\ IsLatest(Coming[k]) /\ Coming[k].seq = seqNumber
                 /\ \A m \in DOMAIN Coming : m > k => ~AsksFor(Coming[m])
Accepted == /\ NoQueries /\ NoResults
            /\ Given # <<>> /\ Given[Len(Given)].type = "fill" /\ IsLatest(Given[Len(Given)])
Filling == /\ Given = <<>> /\ NoResults
           /\ Coming # <<>> /\ Coming[Len(Coming)].type = "filled" /\ IsLatest(Coming[Len(Coming)].fill)
           /\ RowsLatest
           /\ \A i \in DOMAIN todo : todo[i].type = "row" => IsLatest(todo[i].fill)
Shown == Given = <<>> /\ Coming = <<>> /\ attached /\ ~bar /\ RowsLatest

LatestOnItsWay ==
  Undisturbed =>
    /\ NoLoads
    /\ (Latest \notin failed /\ profile # 0) => Handed \/ Answered \/ Accepted \/ Filling \/ Shown

IInv == /\ TypeOK
        /\ FilesInOrder /\ RacedBehindStarts /\ Numbered /\ AcceptsLatest
        /\ ResultsCurrent /\ FillsCurrent /\ ButtonOffWhileLoading /\ OldRowsHidden
        /\ LatestOnItsWay

-------------------------------------------------------------------------------
(* Types. *)

\* What the kinds of actions and signals are made of.
LEMMA MessageTypes ==
  /\ \A x \in Messages : x.type \in {"open", "query", "fill"}
  /\ \A x \in Messages : x.type = "open" => x.file \in Files
  /\ \A x \in Messages : x.type = "query" => x.query \in Queries /\ x.seq \in Queries
  /\ \A x \in Messages : x.type = "fill" => x \in Fills
  /\ None \notin Messages /\ None.type = "none"
BY DEF Messages, Opens, Asks, Fills, None

\* The same for the signals.
LEMMA SignalTypes ==
  /\ \A x \in Sendable : x.type \in {"started", "progress", "finished", "result", "failed", "row", "filled"}
  /\ \A x \in Sendable : x.type \in {"started", "finished"} => x.file \in Files
  /\ \A x \in Sendable : x.type = "finished" => x.loaded \in BOOLEAN
  /\ \A x \in Sendable : x.type = "result" => x.query \in Queries /\ x.seq \in Queries /\ x.of \in Files
  /\ \A x \in Sendable : x.type \in {"row", "filled"} => x.fill \in Fills
BY DEF Sendable

\* The signals of a load: its start, reports, its end.
LEMMA LoadSignalsAre ==
  ASSUME NEW file \in Files, NEW s, \E loaded \in BOOLEAN : s = LoadSignals(file, loaded)
  PROVE  /\ s \in Seq(Sendable) /\ s # <<>>
         /\ Len(s) = LoadReports + 2
         /\ s[1].type = "started" /\ s[1].file = file
         /\ \A i \in DOMAIN s : i # 1 /\ i # Len(s) => s[i].type = "progress"
         /\ s[Len(s)].type = "finished" /\ s[Len(s)].file = file
<1>0. PICK loaded \in BOOLEAN : s = LoadSignals(file, loaded)
  OBVIOUS
<1> DEFINE start == [type |-> "started", file |-> file]
           report == [type |-> "progress"]
           end == [type |-> "finished", file |-> file, loaded |-> loaded]
           front == <<start>> \o Times(LoadReports, report)
<1>1. /\ start \in Sendable /\ report \in Sendable /\ end \in Sendable
      /\ start.type = "started" /\ start.file = file /\ report.type = "progress"
      /\ end.type = "finished" /\ end.file = file
  BY DEF Sendable
<1>2. LoadReports \in Nat
  OBVIOUS
<1> HIDE DEF start, report, end
<1>3. Times(LoadReports, report) \in Seq(Sendable) /\ Len(Times(LoadReports, report)) = LoadReports
  BY <1>1, <1>2 DEF Times
<1>4. /\ <<start>> \in Seq(Sendable) /\ Len(<<start>>) = 1 /\ <<start>>[1] = start
      /\ <<end>> \in Seq(Sendable) /\ Len(<<end>>) = 1 /\ <<end>>[1] = end
  BY <1>1
<1>5. /\ front \in Seq(Sendable) /\ Len(front) = LoadReports + 1
      /\ front[1] = start
      /\ \A i \in 1..LoadReports + 1 : i # 1 => front[i] = report
  <2>1. /\ front \in Seq(Sendable) /\ Len(front) = LoadReports + 1
        /\ \A i \in 1..LoadReports + 1 :
             front[i] = IF i <= 1 THEN <<start>>[i] ELSE Times(LoadReports, report)[i - 1]
    BY <1>2, <1>3, <1>4, ConcatProperties
  <2>2. \A i \in 1..LoadReports : Times(LoadReports, report)[i] = report
    BY DEF Times
  <2> QED
    BY <1>2, <1>4, <2>1, <2>2
<1>6. s = front \o <<end>>
  BY <1>0 DEF LoadSignals, start, report, end
<1> HIDE DEF front
<1>7. /\ s \in Seq(Sendable) /\ Len(s) = LoadReports + 2 /\ DOMAIN s = 1..LoadReports + 2
      /\ \A i \in 1..LoadReports + 2 : s[i] = IF i <= LoadReports + 1 THEN front[i] ELSE <<end>>[i - (LoadReports + 1)]
  BY <1>2, <1>4, <1>5, <1>6, ConcatProperties, LenProperties
<1>8. s[LoadReports + 2] = end /\ s[1] = start
  BY <1>2, <1>4, <1>5, <1>7
<1>9. \A i \in DOMAIN s : i # 1 /\ i # Len(s) => s[i].type = "progress"
  BY <1>1, <1>2, <1>5, <1>7
<1>10. s # <<>>
  BY <1>2, <1>7, EmptySeq
<1> QED
  BY <1>1, <1>7, <1>8, <1>9, <1>10

\* The signals of a fill: a row each, and its end.
LEMMA FillSignalsAre ==
  ASSUME NEW a \in Fills, NEW s, s = FillSignals(a)
  PROVE  /\ s \in Seq(Sendable) /\ s # <<>>
         /\ Len(s) = Rows + 1
         /\ \A i \in DOMAIN s : i # Len(s) => s[i].type = "row" /\ s[i].fill = a
         /\ s[Len(s)].type = "filled" /\ s[Len(s)].fill = a
<1> DEFINE row == [type |-> "row", fill |-> a]
           end == [type |-> "filled", fill |-> a]
<1>1. /\ row \in Sendable /\ end \in Sendable
      /\ row.type = "row" /\ row.fill = a /\ end.type = "filled" /\ end.fill = a
  BY DEF Sendable
<1>2. Rows \in Nat
  OBVIOUS
<1>3. s = Times(Rows, row) \o <<end>>
  BY DEF FillSignals
<1> HIDE DEF row, end
<1>4. Times(Rows, row) \in Seq(Sendable) /\ Len(Times(Rows, row)) = Rows
  BY <1>1, <1>2 DEF Times
<1>5. <<end>> \in Seq(Sendable) /\ Len(<<end>>) = 1 /\ <<end>>[1] = end
  BY <1>1
<1>6. \A i \in 1..Rows : Times(Rows, row)[i] = row
  BY DEF Times
<1>7. /\ s \in Seq(Sendable) /\ Len(s) = Rows + 1 /\ DOMAIN s = 1..Rows + 1
      /\ \A i \in 1..Rows + 1 : s[i] = IF i <= Rows THEN Times(Rows, row)[i] ELSE <<end>>[i - Rows]
  BY <1>2, <1>3, <1>4, <1>5, ConcatProperties, LenProperties
<1>8. s # <<>>
  BY <1>2, <1>7, EmptySeq
<1> QED
  BY <1>1, <1>2, <1>5, <1>6, <1>7, <1>8

\* The two sequences are of actions and of signals.
LEMMA SequenceTypes ==
  ASSUME TypeOK
  PROVE  Coming \in Seq(Sendable) /\ Given \in Seq(Messages)
<1>1. Coming \in Seq(Sendable)
  BY ConcatProperties DEF TypeOK, Coming
<1>2. Given \in Seq(Messages)
  BY AppendProperties DEF TypeOK, Given
<1> QED
  BY <1>1, <1>2

-------------------------------------------------------------------------------
(* What the steps do to the two sequences. *)

\* The window gives an action away by taking it in hand.
LEMMA TakenInHand ==
  ASSUME TypeOK, inHand = None, inHand' \in Messages, actions' = actions
  PROVE  IsPushed(Given, Given', inHand')
<1>1. Given = actions /\ Given' = Append(actions, inHand')
  BY MessageTypes DEF Given
<1> QED
  BY <1>1, AppendPushes DEF TypeOK

\* emit() changes nothing about it.
LEMMA HandOverGives ==
  ASSUME TypeOK, HandOver
  PROVE  UNCHANGED <<Coming, Given>>
<1>1. inHand # None
  BY DEF TypeOK, HandOver
<1> QED
  BY <1>1 DEF HandOver, Coming, Given

\* The worker takes the first action, and what it will send is coming.
LEMMA TakeGives ==
  ASSUME TypeOK, NEW type, Take(type), todo' \in Seq(Sendable)
  PROVE  /\ IsPopped(Given, Given')
         /\ Given[1] = Head(actions) /\ Given[1] \in Messages /\ Given[1].type = type
         /\ Coming = signals /\ IsJoined(Coming, todo', Coming')
<1>1. /\ actions # <<>> /\ todo = <<>> /\ Head(actions).type = type
      /\ UNCHANGED <<inHand, signals>> /\ actions' = Tail(actions)
  BY DEF Take
<1>2. actions \in Seq(Messages) /\ signals \in Seq(Sendable)
  BY DEF TypeOK
<1>3. Head(actions) \in Messages /\ Head(actions) = actions[1] /\ 1 \in DOMAIN actions
  BY <1>1, <1>2, HeadTailProperties, Popped
<1>4. Coming = signals /\ Coming' = signals \o todo'
  BY <1>1, <1>2, ConcatEmptySeq DEF Coming
<1>5. IsPopped(Given, Given') /\ Given[1] = actions[1]
  <2>1. CASE inHand = None
    BY <1>1, <1>2, <2>1, TailPops DEF Given
  <2>2. CASE inHand # None
    <3>1. inHand \in Messages
      BY <2>2 DEF TypeOK
    <3>2. /\ Given = Append(actions, inHand) /\ Given' = Append(Tail(actions), inHand)
          /\ Given \in Seq(Messages)
      BY <1>1, <1>2, <2>2, <3>1, AppendProperties DEF Given
    <3>3. Tail(Append(actions, inHand)) = Append(Tail(actions), inHand)
      BY <1>1, <1>2, <3>1, HeadTailAppend
    <3>4. Given # <<>> /\ Given[1] = actions[1]
      BY <1>2, <1>3, <3>1, <3>2, AppendPushes DEF IsPushed
    <3> QED
      BY <3>2, <3>3, <3>4, TailPops
  <2> QED
    BY <2>1, <2>2
<1>6. IsJoined(Coming, todo', Coming')
  BY <1>2, <1>4, ConcatJoins
<1> QED
  BY <1>1, <1>3, <1>4, <1>5, <1>6

\* Sending moves the first signal out of the worker's hands.
LEMMA SendGives ==
  ASSUME TypeOK, Send
  PROVE  /\ UNCHANGED <<Coming, Given>>
         /\ IsPopped(todo, todo') /\ todo[1] = Head(todo)
<1>1. /\ todo # <<>> /\ todo' = Tail(todo) /\ signals' = Append(signals, Head(todo))
      /\ UNCHANGED <<actions, inHand>>
  BY DEF Send
<1>2. todo \in Seq(Sendable) /\ signals \in Seq(Sendable)
  BY DEF TypeOK
<1>3. Coming' = Coming
  BY <1>1, <1>2, HeadMoved DEF Coming
<1> QED
  BY <1>1, <1>2, <1>3, TailPops DEF Given

\* The window processes the first signal that is coming.
LEMMA ProcessGives ==
  ASSUME TypeOK, NEW type, Process(type)
  PROVE  /\ IsPopped(Coming, Coming') /\ todo' = todo
         /\ Coming[1] = Head(signals) /\ Coming[1] \in Sendable /\ Coming[1].type = type
<1>1. /\ signals # <<>> /\ signals' = Tail(signals) /\ todo' = todo /\ Head(signals).type = type
  BY DEF Process, worker
<1>2. todo \in Seq(Sendable) /\ signals \in Seq(Sendable)
  BY DEF TypeOK
<1>3. Head(signals) \in Sendable /\ Head(signals) = signals[1]
  BY <1>1, <1>2, HeadTailProperties, Popped
<1>4. /\ Coming # <<>> /\ Coming \in Seq(Sendable) /\ Tail(Coming) = Tail(signals) \o todo
      /\ Coming[1] = signals[1]
  BY <1>1, <1>2, TailOfConcat DEF Coming
<1>5. Coming' = Tail(Coming)
  BY <1>1, <1>4 DEF Coming
<1> QED
  BY <1>1, <1>3, <1>4, <1>5, TailPops


-------------------------------------------------------------------------------
(* The types are kept.  That the window names a file that was chosen, it owes to *)
(* FilesInOrder.                                                                 *)

\* What the worker will send for the action it takes is of that action.
LEMMA TakeSends ==
  ASSUME TypeOK, TakeOpen \/ TakeQuery \/ TakeFill
  PROVE  todo' \in Seq(Sendable) /\ OneAction'
<1>1. actions \in Seq(Messages) /\ profile \in 0..MaxOpens
  BY DEF TypeOK
<1>2. CASE TakeOpen
  <2>1. Head(actions) \in Messages /\ Head(actions).type = "open"
    BY <1>1, <1>2, HeadTailProperties DEF TakeOpen, Take
  <2>2. Head(actions).file \in Files
    BY <2>1, MessageTypes
  <2>3. \E loaded \in BOOLEAN : todo' = LoadSignals(Head(actions).file, loaded)
    BY <1>2 DEF TakeOpen
  <2>4. /\ todo' \in Seq(Sendable)
        /\ todo'[1].type = "started" /\ todo'[Len(todo')].type = "finished"
        /\ \A i \in DOMAIN todo' : i # 1 /\ i # Len(todo') => todo'[i].type = "progress"
    BY <2>2, <2>3, LoadSignalsAre
  <2> QED
    BY <2>4 DEF OneAction
<1>3. CASE TakeQuery
  <2>1. Head(actions) \in Messages /\ Head(actions).type = "query"
    BY <1>1, <1>3, HeadTailProperties DEF TakeQuery, Take
  <2>2. Head(actions).query \in Queries /\ Head(actions).seq \in Queries
    BY <2>1, MessageTypes
  <2>3. CASE todo' = <<>>
    BY <2>3 DEF OneAction
  <2>4. CASE profile # 0 /\ todo' = <<ResultSignal(Head(actions))>>
    <3>1. ResultSignal(Head(actions)) \in Sendable /\ ResultSignal(Head(actions)).type = "result"
      BY <1>1, <2>2, <2>4 DEF ResultSignal, Sendable, Files
    <3> QED
      BY <2>4, <3>1 DEF OneAction
  <2>5. CASE todo' = <<FailedSignal(Head(actions))>>
    <3>1. FailedSignal(Head(actions)) \in Sendable /\ FailedSignal(Head(actions)).type = "failed"
      BY <2>2 DEF FailedSignal, Sendable
    <3> QED
      BY <2>5, <3>1 DEF OneAction
  <2> QED
    BY <1>3, <2>3, <2>4, <2>5 DEF TakeQuery
<1>4. CASE TakeFill
  <2>1. Head(actions) \in Messages /\ Head(actions).type = "fill" /\ todo' = FillSignals(Head(actions))
    BY <1>1, <1>4, HeadTailProperties DEF TakeFill, Take
  <2>2. Head(actions) \in Fills
    BY <2>1, MessageTypes
  <2>3. /\ todo' \in Seq(Sendable)
        /\ todo'[Len(todo')].type = "filled" /\ todo'[Len(todo')].fill = Head(actions)
        /\ \A i \in DOMAIN todo' : i # Len(todo') => todo'[i].type = "row" /\ todo'[i].fill = Head(actions)
    BY <2>1, <2>2, FillSignalsAre
  <2> QED
    BY <2>3 DEF OneAction
<1> QED
  BY <1>2, <1>3, <1>4

\* What is left of them after the first was sent.
LEMMA SendKeepsOneAction ==
  ASSUME TypeOK, Send
  PROVE  OneAction' /\ todo' \in Seq(Sendable) /\ signals' \in Seq(Sendable)
<1>1. todo' \in Seq(Sendable) /\ signals' \in Seq(Sendable)
  BY HeadTailProperties, AppendProperties DEF TypeOK, Send
<1>2. IsPopped(todo, todo')
  BY SendGives
<1>3. /\ todo \in Seq(Sendable) /\ OneAction
      /\ DOMAIN todo = 1..Len(todo) /\ Len(todo) \in Nat
  BY LenProperties DEF TypeOK
<1>4. todo' # <<>> => todo'[Len(todo')] = todo[Len(todo)] /\ Len(todo') \in DOMAIN todo'
  BY <1>2 DEF IsPopped
<1>5. ASSUME todo' # <<>> PROVE todo # <<>> /\ Len(todo) # 1 /\ Len(todo') \in Nat
  BY <1>2, <1>3, <1>4, <1>5 DEF IsPopped
<1>6. OneAction'
  <2> SUFFICES ASSUME todo' # <<>> PROVE OneAction'
    BY DEF OneAction
  <2>1. CASE /\ todo[Len(todo)].type = "finished"
             /\ \A i \in DOMAIN todo : todo[i].type \in {"started", "progress", "finished"}
    BY <1>2, <1>4, <2>1 DEF OneAction, IsPopped
  <2>2. CASE /\ todo[Len(todo)].type = "filled"
             /\ \A i \in DOMAIN todo : todo[i].type \in {"row", "filled"} /\ todo[i].fill = todo[Len(todo)].fill
    BY <1>2, <1>4, <2>2 DEF OneAction, IsPopped
  <2> QED
    BY <1>3, <1>5, <2>1, <2>2 DEF OneAction
<1> QED
  BY <1>1, <1>6

\* The types are kept.
LEMMA TypeStep ==
  ASSUME TypeOK, FilesInOrder, [Next]_vars
  PROVE  TypeOK'
<1> USE DEF window, history, worker
<1>1. CASE Activate \/ ActivateAgain \/ StartAgain
  BY <1>1 DEF TypeOK, OneAction, Activate, ActivateAgain, StartAgain
<1>2. CASE ChooseFile
  <2>1. inHand' \in Messages /\ inHand' # None
    BY <1>2 DEF TypeOK, ChooseFile, Messages, Opens, Files, None
  <2>2. asked' \in Seq([opens : 0..opens', raced : BOOLEAN])
    <3>1. /\ asked' = asked /\ opens' = opens + 1
          /\ asked \in Seq([opens : 0..opens, raced : BOOLEAN]) /\ opens \in Nat
      BY <1>2 DEF TypeOK, ChooseFile
    <3>2. [opens : 0..opens, raced : BOOLEAN] \subseteq [opens : 0..opens + 1, raced : BOOLEAN]
      BY <3>1
    <3>3. asked \in Seq([opens : 0..opens + 1, raced : BOOLEAN])
      BY <3>1, <3>2, SeqMonotonic
    <3> QED
      BY <3>1, <3>3
  <2> QED
    BY <1>2, <2>1, <2>2 DEF TypeOK, OneAction, ChooseFile
<1>3. CASE ExecuteQuery
  <2>1. inHand' \in Messages /\ inHand' # None
    BY <1>3 DEF TypeOK, ExecuteQuery, Messages, Asks, Queries, None
  <2>2. /\ asked' \in Seq([opens : 0..opens', raced : BOOLEAN])
        /\ Len(asked') = Len(asked) + 1 /\ Len(asked') <= MaxQueries
        /\ seqNumber' \in Nat /\ seqNumber' <= Len(asked')
    BY <1>3, AppendProperties DEF TypeOK, ExecuteQuery
  <2> QED
    BY <1>3, <2>1, <2>2 DEF TypeOK, OneAction, ExecuteQuery
<1>4. CASE HandOver
  <2>1. actions' \in Seq(Messages)
    BY <1>4, AppendProperties DEF TypeOK, HandOver
  <2> QED
    BY <1>4, <2>1 DEF TypeOK, OneAction, HandOver
<1>5. CASE ClearView
  BY <1>5 DEF TypeOK, OneAction, ClearView
<1>6. CASE OnStartLoad
  <2>1. signals' \in Seq(Sendable) /\ signals # <<>>
    BY <1>6, HeadTailProperties DEF TypeOK, OnStartLoad, Process
  <2>2. title' \in 0..opens
    <3>1. Coming[1] = Head(signals) /\ Starts(Coming[1]) /\ 1 \in DOMAIN Coming /\ Coming[1] \in Sendable
      BY <1>6, ProcessGives DEF OnStartLoad, Starts, IsPopped
    <3>2. Head(signals).file <= opens /\ Head(signals).file \in Files
      BY <1>6, <3>1, ProcessGives, SignalTypes DEF FilesInOrder, OnStartLoad
    <3> QED
      BY <1>6, <3>2 DEF OnStartLoad, Files, TypeOK
  <2>3. /\ active' = active /\ ui' = ui /\ inHand' = inHand /\ actions' = actions
        /\ todo' = todo /\ holding' = holding /\ profile' = profile
        /\ opens' = opens /\ asked' = asked /\ failed' = failed
        /\ seqNumber' = 0 /\ button' = FALSE /\ bar' = TRUE /\ attached' = attached
    BY <1>6 DEF OnStartLoad, Process
  <2>4. 0 <= Len(asked) /\ active
    BY <2>1 DEF TypeOK
  <2> QED
    BY <2>1, <2>2, <2>3, <2>4 DEF TypeOK, OneAction
<1>7. CASE OnProgress \/ OnStopLoad \/ OnQueryFailed \/ OnTreeviewFilled
  <2>1. signals' \in Seq(Sendable) /\ signals # <<>>
    BY <1>7, HeadTailProperties DEF TypeOK, OnProgress, OnStopLoad, OnQueryFailed, OnTreeviewFilled, Process
  <2> QED
    BY <1>7, <2>1
    DEF TypeOK, OneAction, OnProgress, OnStopLoad, OnQueryFailed, OnTreeviewFilled, Process
<1>8. CASE OnQueryResult
  <2>1. signals' \in Seq(Sendable) /\ signals # <<>>
    BY <1>8, HeadTailProperties DEF TypeOK, OnQueryResult, Process
  <2>2. inHand = None /\ ui = "loop"
    BY <1>8 DEF TypeOK, OnQueryResult, Process
  <2>3. \/ UNCHANGED <<ui, inHand>>
        \/ ui' = "handing" /\ inHand' \in Messages /\ inHand' # None
    <3>1. Head(signals) \in Sendable /\ Head(signals).type = "result"
      BY <1>8, ProcessGives DEF OnQueryResult
    <3>2. Head(signals).query \in Queries /\ Head(signals).of \in Files
      BY <3>1, SignalTypes
    <3>3. ASSUME NEW late \in BOOLEAN
          PROVE  LET fill == [type |-> "fill", query |-> Head(signals).query,
                              of |-> Head(signals).of, late |-> late]
                 IN  fill \in Messages /\ fill # None
      BY <3>2 DEF Messages, Fills, None
    <3> QED
      BY <1>8, <3>3 DEF OnQueryResult
  <2> QED
    BY <1>8, <2>1, <2>2, <2>3 DEF TypeOK, OneAction, OnQueryResult, Process
<1>9. CASE TakeOpen \/ TakeQuery \/ TakeFill
  <2>1. actions' \in Seq(Messages) /\ actions # <<>>
    BY <1>9, HeadTailProperties DEF TypeOK, TakeOpen, TakeQuery, TakeFill, Take
  <2>2. failed' \subseteq Queries
    <3>1. actions # <<>> => Head(actions) \in Messages
      BY HeadTailProperties DEF TypeOK
    <3>2. TakeQuery => Head(actions).query \in Queries
      BY <2>1, <3>1, MessageTypes DEF TakeQuery, Take
    <3> QED
      BY <1>9, <3>2 DEF TypeOK, TakeOpen, TakeQuery, TakeFill
  <2> QED
    BY <1>9, <2>1, <2>2, TakeSends DEF TypeOK, TakeOpen, TakeQuery, TakeFill, Take
<1>10. CASE Send
  <2>1. profile' \in 0..MaxOpens
    <3>1. todo' # <<>> => Head(todo') \in Sendable
      BY <1>10, SendKeepsOneAction, HeadTailProperties
    <3>2. profile' = profile \/ (todo' # <<>> /\ Head(todo').type = "finished" /\ profile' = Head(todo').file)
      BY <1>10 DEF Send, Before
    <3> QED
      BY <3>1, <3>2, SignalTypes DEF TypeOK, Files
  <2> QED
    BY <1>10, <2>1, SendKeepsOneAction DEF TypeOK, Send, Before
<1>11. CASE Release
  BY <1>11 DEF TypeOK, OneAction, Release
<1>12. CASE UNCHANGED vars
  BY <1>12 DEF TypeOK, OneAction, vars
<1> QED
  BY <1>1, <1>2, <1>3, <1>4, <1>5, <1>6, <1>7, <1>8, <1>9, <1>10, <1>11, <1>12
  DEF Next, User, Window, Worker

-------------------------------------------------------------------------------
(* The kinds of steps, as the order in the two sequences sees them. *)

Activates == Activate \/ ActivateAgain \/ StartAgain
Rests == Activates \/ HandOver \/ ClearView \/ Send \/ Release \/ UNCHANGED vars
Takes == TakeOpen \/ TakeQuery \/ TakeFill
Processes == OnStartLoad \/ OnProgress \/ OnStopLoad \/ OnQueryResult \/ OnQueryFailed \/ OnTreeviewFilled

\* There are no others.
LEMMA StepKinds == [Next]_vars => Rests \/ ChooseFile \/ ExecuteQuery \/ Takes \/ Processes
BY DEF Next, User, Window, Worker, Rests, Activates, Takes, Processes

\* These leave the sequences and what the invariants compare them with alone.
LEMMA RestsKeep ==
  ASSUME TypeOK, Rests
  PROVE  UNCHANGED <<Coming, Given, title, opens, asked, seqNumber>>
<1>1. CASE Activates
  BY <1>1 DEF Activates, Activate, ActivateAgain, StartAgain, Coming, Given, worker, window, history
<1>2. CASE HandOver
  BY <1>2, HandOverGives DEF HandOver, history
<1>3. CASE ClearView
  BY <1>3 DEF ClearView, Coming, Given, worker, history
<1>4. CASE Send
  BY <1>4, SendGives DEF Send, window, history
<1>5. CASE Release
  BY <1>5 DEF Release, Coming, Given, window, history
<1>6. CASE UNCHANGED vars
  BY <1>6 DEF vars, Coming, Given, worker, window, history
<1> QED
  BY <1>1, <1>2, <1>3, <1>4, <1>5, <1>6 DEF Rests

\* The new file is given to the worker last.
LEMMA ChooseFileGives ==
  ASSUME TypeOK, ChooseFile
  PROVE  /\ IsPushed(Given, Given', inHand') /\ Coming' = Coming
         /\ inHand'.type = "open" /\ inHand'.file = opens + 1 /\ opens' = opens + 1
         /\ UNCHANGED <<title, asked, seqNumber, todo>>
<1>1. inHand = None /\ inHand' \in Messages /\ actions' = actions
  BY DEF TypeOK, ChooseFile, Messages, Opens, Files, worker
<1>2. IsPushed(Given, Given', inHand')
  BY <1>1, TakenInHand
<1> QED
  BY <1>2 DEF ChooseFile, Coming, worker, window

\* So is the new query, which the number given to it tells from the others.
LEMMA ExecuteQueryGives ==
  ASSUME TypeOK, ExecuteQuery
  PROVE  /\ IsPushed(Given, Given', inHand') /\ Coming' = Coming
         /\ inHand'.type = "query" /\ inHand'.query = Len(asked) + 1 /\ inHand'.seq = seqNumber + 1
         /\ seqNumber' = seqNumber + 1 /\ Len(asked') = Len(asked) + 1
         /\ asked'[Len(asked) + 1] = [opens |-> opens, raced |-> title # opens]
         /\ \A q \in 1..Len(asked) : asked'[q] = asked[q]
         /\ UNCHANGED <<title, opens, todo>>
<1>1. inHand = None /\ inHand' \in Messages /\ actions' = actions
  BY DEF TypeOK, ExecuteQuery, Messages, Asks, Queries, worker
<1>2. IsPushed(Given, Given', inHand')
  BY <1>1, TakenInHand
<1>3. [opens |-> opens, raced |-> title # opens] \in [opens : 0..opens, raced : BOOLEAN]
  BY DEF TypeOK
<1>4. /\ Len(asked') = Len(asked) + 1
      /\ asked'[Len(asked) + 1] = [opens |-> opens, raced |-> title # opens]
      /\ \A q \in 1..Len(asked) : asked'[q] = asked[q]
  BY <1>3, AppendProperties DEF ExecuteQuery, TypeOK
<1> QED
  BY <1>2, <1>4 DEF ExecuteQuery, Coming, worker

\* What will be sent for an action names the file that was to be opened, or the query
\* that was asked.
LEMMA TakesFaithfully ==
  ASSUME TypeOK, Takes
  PROVE  /\ IsPopped(Given, Given') /\ IsJoined(Coming, todo', Coming')
         /\ \A i \in DOMAIN todo' :
              /\ Starts(todo'[i]) => i = 1 /\ Starts(Given[1]) /\ todo'[i].file = Given[1].file
              /\ AsksFor(todo'[i]) => /\ i = 1 /\ AsksFor(Given[1])
                                      /\ todo'[i].query = Given[1].query
                                      /\ todo'[i].seq = Given[1].seq
         /\ UNCHANGED <<title, opens, asked, seqNumber, inHand>>
<1>1. /\ IsPopped(Given, Given') /\ IsJoined(Coming, todo', Coming')
      /\ Given[1] = Head(actions) /\ Given[1] \in Messages
      /\ UNCHANGED <<title, opens, asked, seqNumber, inHand>>
  <2>1. todo' \in Seq(Sendable)
    BY TakeSends DEF Takes
  <2> QED
    BY <2>1, TakeGives DEF Takes, TakeOpen, TakeQuery, TakeFill, Take, window
<1>2. CASE TakeOpen
  <2>1. Given[1].type = "open" /\ Given[1].file \in Files
    BY <1>1, <1>2, MessageTypes DEF TakeOpen, Take
  <2>2. /\ todo'[1].type = "started" /\ todo'[1].file = Given[1].file
        /\ todo'[Len(todo')].type = "finished"
        /\ \A i \in DOMAIN todo' : i # 1 /\ i # Len(todo') => todo'[i].type = "progress"
    <3>1. \E loaded \in BOOLEAN : todo' = LoadSignals(Given[1].file, loaded)
      BY <1>1, <1>2 DEF TakeOpen
    <3> QED
      BY <2>1, <3>1, LoadSignalsAre
  <2>3. \A i \in DOMAIN todo' : todo'[i].type \in {"started", "finished", "progress"} /\ (todo'[i].type = "started" => i = 1)
    BY <2>2
  <2> QED
    BY <1>1, <2>1, <2>2, <2>3 DEF Starts, AsksFor
<1>3. CASE TakeQuery
  <2>1. Given[1].type = "query"
    BY <1>1, <1>3 DEF TakeQuery, Take
  <2>2. \/ todo' = <<>>
        \/ todo' = <<ResultSignal(Given[1])>>
        \/ todo' = <<FailedSignal(Given[1])>>
    BY <1>1, <1>3 DEF TakeQuery
  <2> QED
    BY <1>1, <2>1, <2>2 DEF Starts, AsksFor, ResultSignal, FailedSignal
<1>4. CASE TakeFill
  <2>1. Given[1].type = "fill" /\ Given[1] \in Fills
    BY <1>1, <1>4, MessageTypes DEF TakeFill, Take
  <2>2. todo' = FillSignals(Given[1])
    BY <1>1, <1>4 DEF TakeFill
  <2>3. \A i \in DOMAIN todo' : todo'[i].type \in {"row", "filled"}
    BY <2>1, <2>2, FillSignalsAre
  <2> QED
    BY <1>1, <2>3 DEF Starts, AsksFor
<1> QED
  BY <1>2, <1>3, <1>4 DEF Takes

\* The action that is taken is the first of those given.
LEMMA TakesHead ==
  ASSUME TypeOK, Takes
  PROVE  Given[1] = Head(actions) /\ Given[1] \in Messages
<1>1. todo' \in Seq(Sendable)
  BY TakeSends DEF Takes
<1> QED
  BY <1>1, TakeGives DEF Takes, TakeOpen, TakeQuery, TakeFill

\* Behind what was coming stands what will be sent.
LEMMA JoinedBehind ==
  ASSUME TypeOK, Takes, NEW i \in DOMAIN Coming', i \notin DOMAIN Coming
  PROVE  /\ i \in Nat /\ Len(Coming) \in Nat /\ i > Len(Coming)
         /\ i - Len(Coming) \in DOMAIN todo' /\ Coming'[i] = todo'[i - Len(Coming)]
BY TakesFaithfully DEF IsJoined

\* So what is coming was coming before, or is of the action that was taken.
LEMMA NewComing ==
  ASSUME TypeOK, Takes
  PROVE  \A i \in DOMAIN Coming' :
           \/ i \in DOMAIN Coming /\ Coming'[i] = Coming[i]
           \/ /\ i \in Nat /\ i > Len(Coming)
              /\ Starts(Coming'[i]) \/ AsksFor(Coming'[i]) => i = Len(Coming) + 1
              /\ Starts(Coming'[i]) => Starts(Given[1]) /\ Coming'[i].file = Given[1].file
              /\ AsksFor(Coming'[i]) => /\ AsksFor(Given[1])
                                        /\ Coming'[i].query = Given[1].query
                                        /\ Coming'[i].seq = Given[1].seq
<1> SUFFICES ASSUME NEW i \in DOMAIN Coming', i \notin DOMAIN Coming
             PROVE  /\ i \in Nat /\ i > Len(Coming)
                    /\ Starts(Coming'[i]) \/ AsksFor(Coming'[i]) => i = Len(Coming) + 1
                    /\ Starts(Coming'[i]) => Starts(Given[1]) /\ Coming'[i].file = Given[1].file
                    /\ AsksFor(Coming'[i]) => /\ AsksFor(Given[1])
                                              /\ Coming'[i].query = Given[1].query
                                              /\ Coming'[i].seq = Given[1].seq
  BY TakesFaithfully DEF IsJoined
<1>1. /\ i > Len(Coming) /\ i \in Nat /\ i - Len(Coming) \in DOMAIN todo'
      /\ Coming'[i] = todo'[i - Len(Coming)] /\ Len(Coming) \in Nat
  BY JoinedBehind
<1>2. Starts(Coming'[i]) \/ AsksFor(Coming'[i]) => i - Len(Coming) = 1
  BY <1>1, TakesFaithfully DEF Starts, AsksFor
<1>3. /\ Starts(Coming'[i]) => Starts(Given[1]) /\ Coming'[i].file = Given[1].file
      /\ AsksFor(Coming'[i]) => /\ AsksFor(Given[1])
                                /\ Coming'[i].query = Given[1].query
                                /\ Coming'[i].seq = Given[1].seq
  BY <1>1, TakesFaithfully DEF Starts, AsksFor
<1> QED
  BY <1>1, <1>2, <1>3

\* A signal that is processed is the first of those coming; the start of a load is what
\* the window then names, and a result may be accepted.
LEMMA ProcessesFirst ==
  ASSUME TypeOK, Processes
  PROVE  /\ IsPopped(Coming, Coming') /\ Coming[1] \in Sendable
         /\ UNCHANGED <<todo, opens, asked>>
         /\ \/ OnStartLoad /\ Coming[1].type = "started" /\ title' = Coming[1].file /\ seqNumber' = 0
            \/ ~OnStartLoad /\ Coming[1].type # "started" /\ UNCHANGED <<title, seqNumber>>
         /\ \/ /\ ~(Coming[1].type = "result" /\ Coming[1].seq = seqNumber)
               /\ Given' = Given /\ inHand' = inHand
            \/ /\ OnQueryResult /\ Coming[1].type = "result" /\ Coming[1].seq = seqNumber
               /\ IsPushed(Given, Given', inHand')
               /\ inHand' = [type |-> "fill", query |-> Coming[1].query,
                             of |-> Coming[1].of, late |-> title # opens]
<1>1. PICK type \in {"started", "progress", "row", "finished", "result", "failed", "filled"} :
        /\ Process(type)
        /\ type = "started" <=> OnStartLoad
        /\ type = "result" <=> OnQueryResult
  <2>1. \A t : Process(t) => Head(signals).type = t
    BY DEF Process
  <2> QED
    BY <2>1 DEF Processes, OnStartLoad, OnProgress, OnStopLoad, OnQueryResult, OnQueryFailed, OnTreeviewFilled
<1>2. /\ IsPopped(Coming, Coming') /\ todo' = todo
      /\ Coming[1] = Head(signals) /\ Coming[1] \in Sendable /\ Coming[1].type = type
  BY <1>1, ProcessGives
<1>3. UNCHANGED <<opens, asked, actions>> /\ ui = "loop" /\ inHand = None
  BY <1>1 DEF Process, history, worker, TypeOK
<1>4. \/ OnStartLoad /\ Coming[1].type = "started" /\ title' = Coming[1].file /\ seqNumber' = 0
      \/ ~OnStartLoad /\ Coming[1].type # "started" /\ UNCHANGED <<title, seqNumber>>
  BY <1>1, <1>2
  DEF Processes, OnStartLoad, OnProgress, OnStopLoad, OnQueryResult, OnQueryFailed, OnTreeviewFilled, window
<1>5. CASE ~OnQueryResult
  <2>1. inHand' = inHand
    BY <1>5 DEF Processes, OnStartLoad, OnProgress, OnStopLoad, OnQueryFailed, OnTreeviewFilled
  <2> QED
    BY <1>1, <1>2, <1>3, <1>4, <1>5, <2>1 DEF Given
<1>6. CASE OnQueryResult /\ Head(signals).seq # seqNumber
  <2>1. inHand' = inHand
    BY <1>6 DEF OnQueryResult
  <2> QED
    BY <1>1, <1>2, <1>3, <1>4, <1>6, <2>1 DEF Given
<1>7. CASE OnQueryResult /\ Head(signals).seq = seqNumber
  <2>1. inHand' = [type |-> "fill", query |-> Coming[1].query, of |-> Coming[1].of, late |-> title # opens]
    BY <1>2, <1>7 DEF OnQueryResult
  <2>2. inHand' \in Messages
    <3>1. Coming[1].query \in Queries /\ Coming[1].of \in Files
      BY <1>1, <1>2, <1>7, SignalTypes
    <3>2. ASSUME NEW late \in BOOLEAN
          PROVE  [type |-> "fill", query |-> Coming[1].query, of |-> Coming[1].of, late |-> late] \in Messages
      BY <3>1 DEF Messages, Fills
    <3> QED
      BY <2>1, <3>2
  <2>3. IsPushed(Given, Given', inHand')
    BY <1>3, <2>2, TakenInHand
  <2> QED
    BY <1>1, <1>2, <1>3, <1>4, <1>7, <2>1, <2>3
<1> QED
  BY <1>5, <1>6, <1>7

-------------------------------------------------------------------------------
(* The order of the files. *)

\* What starts a load names a file.
LEMMA StartsNameFiles ==
  ASSUME TypeOK
  PROVE  /\ \A i \in DOMAIN Coming : i \in Nat /\ (Starts(Coming[i]) => Coming[i].file \in Nat)
         /\ \A i \in DOMAIN Given : i \in Nat /\ (Starts(Given[i]) => Given[i].file \in Nat)
<1>1. Coming \in Seq(Sendable) /\ Given \in Seq(Messages)
  BY SequenceTypes
<1>2. /\ \A i \in DOMAIN Coming : i \in Nat /\ Coming[i] \in Sendable
      /\ \A i \in DOMAIN Given : i \in Nat /\ Given[i] \in Messages
  BY <1>1
<1> QED
  BY <1>2, MessageTypes, SignalTypes DEF Starts, Files

\* Files are opened, and signalled, in the order in which they were chosen.
LEMMA FilesInOrderStep ==
  ASSUME TypeOK, FilesInOrder, [Next]_vars
  PROVE  FilesInOrder'
<1> USE DEF FilesInOrder
<1>0. title \in Nat /\ opens \in Nat /\ title <= opens
  BY DEF TypeOK
<1>1. CASE Rests
  BY <1>1, RestsKeep DEF Starts
<1>2. CASE ChooseFile
  <2>1. /\ Coming' = Coming /\ title' = title /\ opens' = opens + 1
        /\ \A i \in DOMAIN Given' :
             \/ i \in DOMAIN Given /\ Given'[i] = Given[i] /\ i < Len(Given')
             \/ i = Len(Given') /\ Given'[i].file = opens + 1
        /\ Len(Given') \in Nat
    BY <1>2, ChooseFileGives DEF IsPushed
  <2>2. \A i \in DOMAIN Coming : Starts(Coming[i]) => title < Coming[i].file /\ Coming[i].file <= opens + 1
    BY <1>0, StartsNameFiles
  <2>3. \A i \in DOMAIN Given' : Starts(Given'[i]) => title < Given'[i].file /\ Given'[i].file <= opens + 1
    BY <1>0, <2>1, StartsNameFiles
  <2>4. \A i \in DOMAIN Coming, j \in DOMAIN Given' :
          Starts(Coming[i]) /\ Starts(Given'[j]) => Coming[i].file < Given'[j].file
    BY <1>0, <2>1, StartsNameFiles
  <2>5. \A i, j \in DOMAIN Given' :
          i < j /\ Starts(Given'[i]) /\ Starts(Given'[j]) => Given'[i].file < Given'[j].file
    BY <1>0, <2>1, StartsNameFiles
  <2> QED
    BY <2>1, <2>2, <2>3, <2>4, <2>5 DEF Starts
<1>3. CASE ExecuteQuery
  BY <1>3, ExecuteQueryGives DEF Starts, IsPushed
<1>4. CASE Takes
  <2>1. \A i \in DOMAIN Given' : Starts(Given'[i]) => title < Given'[i].file /\ Given'[i].file <= opens
    BY <1>4, TakesFaithfully DEF Starts, IsPopped
  <2>2. \A i \in DOMAIN Coming' : Starts(Coming'[i]) =>
          \/ i \in DOMAIN Coming /\ Coming'[i] = Coming[i]
          \/ i > Len(Coming) /\ i = Len(Coming) + 1 /\ Starts(Given[1]) /\ Coming'[i].file = Given[1].file
    BY <1>4, NewComing
  <2>3. 1 \in DOMAIN Given /\ UNCHANGED <<title, opens>> /\ \A i \in DOMAIN Coming : i \in Nat /\ i <= Len(Coming)
    BY <1>4, TakesFaithfully DEF IsPopped, IsJoined
  <2>4. \A i \in DOMAIN Coming' : Starts(Coming'[i]) => title < Coming'[i].file /\ Coming'[i].file <= opens
    BY <2>2, <2>3 DEF Starts
  <2>5. \A i, j \in DOMAIN Coming' :
          i < j /\ Starts(Coming'[i]) /\ Starts(Coming'[j]) => Coming'[i].file < Coming'[j].file
    BY <2>2, <2>3 DEF Starts
  <2>6. \A i \in DOMAIN Given' : i + 1 \in DOMAIN Given /\ 1 < i + 1 /\ Given'[i] = Given[i + 1] /\ i \in Nat
    BY <1>4, TakesFaithfully DEF IsPopped
  <2>7. \A i \in DOMAIN Coming', j \in DOMAIN Given' :
          Starts(Coming'[i]) /\ Starts(Given'[j]) => Coming'[i].file < Given'[j].file
    BY <2>2, <2>3, <2>6 DEF Starts
  <2>8. \A i, j \in DOMAIN Given' :
          i < j /\ Starts(Given'[i]) /\ Starts(Given'[j]) => Given'[i].file < Given'[j].file
    BY <2>6 DEF Starts
  <2> QED
    BY <2>1, <2>3, <2>4, <2>5, <2>7, <2>8 DEF Starts
<1>5. CASE Processes
  <2>1. \A i \in DOMAIN Coming' : i + 1 \in DOMAIN Coming /\ 1 < i + 1 /\ Coming'[i] = Coming[i + 1] /\ i \in Nat
    BY <1>5, ProcessesFirst DEF IsPopped
  <2>2. opens' = opens /\ 1 \in DOMAIN Coming
    BY <1>5, ProcessesFirst DEF IsPopped
  <2>3. title' = title \/ (Starts(Coming[1]) /\ title' = Coming[1].file)
    BY <1>5, ProcessesFirst DEF Starts
  <2>4. \A i \in DOMAIN Given' : Starts(Given'[i]) => i \in DOMAIN Given /\ Given'[i] = Given[i]
    <3>1. Given' = Given \/ (IsPushed(Given, Given', inHand') /\ inHand'.type = "fill")
      BY <1>5, ProcessesFirst
    <3> QED
      BY <3>1 DEF IsPushed, Starts
  <2>5. \A i \in DOMAIN Coming' : Starts(Coming'[i]) => title' < Coming'[i].file /\ Coming'[i].file <= opens
    BY <2>1, <2>2, <2>3
  <2>6. \A i \in DOMAIN Given' : Starts(Given'[i]) => title' < Given'[i].file /\ Given'[i].file <= opens
    BY <2>2, <2>3, <2>4
  <2>7. \A i, j \in DOMAIN Coming' :
          i < j /\ Starts(Coming'[i]) /\ Starts(Coming'[j]) => Coming'[i].file < Coming'[j].file
    BY <2>1
  <2>8. \A i \in DOMAIN Coming', j \in DOMAIN Given' :
          Starts(Coming'[i]) /\ Starts(Given'[j]) => Coming'[i].file < Given'[j].file
    BY <2>1, <2>4
  <2>9. \A i, j \in DOMAIN Given' :
          i < j /\ Starts(Given'[i]) /\ Starts(Given'[j]) => Given'[i].file < Given'[j].file
    BY <2>4
  <2> QED
    BY <2>2, <2>5, <2>6, <2>7, <2>8, <2>9 DEF Starts
<1> QED
  BY <1>1, <1>2, <1>3, <1>4, <1>5, StepKinds

-------------------------------------------------------------------------------
(* The numbers of the queries. *)

\* What asks for a result names a query and its number.
LEMMA AsksNameQueries ==
  ASSUME TypeOK
  PROVE  /\ \A i \in DOMAIN Coming : AsksFor(Coming[i]) => Coming[i].query \in Nat /\ Coming[i].seq \in Nat
         /\ \A i \in DOMAIN Given : AsksFor(Given[i]) => Given[i].query \in Nat /\ Given[i].seq \in Nat
<1>1. Coming \in Seq(Sendable) /\ Given \in Seq(Messages)
  BY SequenceTypes
<1>2. /\ \A i \in DOMAIN Coming : Coming[i] \in Sendable
      /\ \A i \in DOMAIN Given : Given[i] \in Messages
  BY <1>1
<1> QED
  BY <1>2, MessageTypes, SignalTypes DEF AsksFor, Queries

\* A query behind a start was asked when a file had been chosen and not been signalled,
\* for then the window did not name the newest file.
LEMMA RacedBehindStartsStep ==
  ASSUME TypeOK, FilesInOrder, Numbered, RacedBehindStarts, [Next]_vars
  PROVE  RacedBehindStarts'
<1> USE DEF RacedBehindStarts
<1>0. title \in Nat /\ opens \in Nat /\ Len(asked) \in Nat
  BY DEF TypeOK
<1>1. CASE Rests
  BY <1>1, RestsKeep DEF Starts, AsksFor
<1>2. CASE ChooseFile
  <2>1. /\ Coming' = Coming /\ asked' = asked
        /\ \A i \in DOMAIN Given' : \/ i \in DOMAIN Given /\ Given'[i] = Given[i] /\ i < Len(Given')
                                    \/ i = Len(Given') /\ ~AsksFor(Given'[i])
        /\ Len(Given') \in Nat
    BY <1>2, ChooseFileGives DEF IsPushed, AsksFor
  <2>2. \A i, j \in DOMAIN Given' : i < j /\ Starts(Given'[i]) /\ AsksFor(Given'[j]) => asked[Given'[j].query].raced
    BY <2>1, StartsNameFiles
  <2> QED
    BY <2>1, <2>2 DEF Starts, AsksFor
<1>3. CASE ExecuteQuery
  <2>1. /\ Coming' = Coming
        /\ \A i \in DOMAIN Given' : \/ i \in DOMAIN Given /\ Given'[i] = Given[i] /\ i < Len(Given')
                                    \/ i = Len(Given') /\ ~Starts(Given'[i]) /\ Given'[i].query = Len(asked) + 1
        /\ Len(Given') \in Nat
    BY <1>3, ExecuteQueryGives DEF IsPushed, Starts
  <2>2. \A q \in 1..Len(asked) : asked'[q] = asked[q]
    BY <1>3, ExecuteQueryGives
  <2>3. /\ \A i \in DOMAIN Coming : AsksFor(Coming[i]) => asked'[Coming[i].query] = asked[Coming[i].query]
        /\ \A i \in DOMAIN Given : AsksFor(Given[i]) => asked'[Given[i].query] = asked[Given[i].query]
    BY <2>2 DEF Numbered, Counts
  <2>4. /\ \A i \in DOMAIN Coming : Starts(Coming[i]) => asked'[Len(asked) + 1].raced
        /\ \A i \in DOMAIN Given : Starts(Given[i]) => asked'[Len(asked) + 1].raced
    <3>1. asked'[Len(asked) + 1].raced = (title # opens)
      BY <1>3, ExecuteQueryGives
    <3>2. /\ \A i \in DOMAIN Coming : Starts(Coming[i]) => title # opens
          /\ \A i \in DOMAIN Given : Starts(Given[i]) => title # opens
      BY <1>0, StartsNameFiles DEF FilesInOrder
    <3> QED
      BY <3>1, <3>2
  <2>5. \A i, j \in DOMAIN Coming :
          i < j /\ Starts(Coming[i]) /\ AsksFor(Coming[j]) => asked'[Coming[j].query].raced
    BY <2>3
  <2>6. \A i \in DOMAIN Coming, j \in DOMAIN Given' :
          Starts(Coming[i]) /\ AsksFor(Given'[j]) => asked'[Given'[j].query].raced
    BY <2>1, <2>3, <2>4
  <2>7. \A i, j \in DOMAIN Given' :
          i < j /\ Starts(Given'[i]) /\ AsksFor(Given'[j]) => asked'[Given'[j].query].raced
    BY <2>1, <2>3, <2>4, StartsNameFiles
  <2> QED
    BY <2>1, <2>5, <2>6, <2>7 DEF Starts, AsksFor
<1>4. CASE Takes
  <2>1. /\ \A i \in DOMAIN Given' : i + 1 \in DOMAIN Given /\ 1 < i + 1 /\ Given'[i] = Given[i + 1] /\ i \in Nat
        /\ 1 \in DOMAIN Given /\ asked' = asked
        /\ \A i \in DOMAIN Coming : i \in Nat /\ i <= Len(Coming)
    BY <1>4, TakesFaithfully DEF IsPopped, IsJoined
  <2>2. \A i \in DOMAIN Coming' :
          \/ i \in DOMAIN Coming /\ Coming'[i] = Coming[i]
          \/ /\ i \in Nat /\ i > Len(Coming)
             /\ Starts(Coming'[i]) \/ AsksFor(Coming'[i]) => i = Len(Coming) + 1
             /\ Starts(Coming'[i]) => Starts(Given[1])
             /\ AsksFor(Coming'[i]) => AsksFor(Given[1]) /\ Coming'[i].query = Given[1].query
    BY <1>4, NewComing
  <2>3. \A i, j \in DOMAIN Coming' :
          i < j /\ Starts(Coming'[i]) /\ AsksFor(Coming'[j]) => asked[Coming'[j].query].raced
    BY <2>1, <2>2
  <2>4. \A i \in DOMAIN Coming', j \in DOMAIN Given' :
          Starts(Coming'[i]) /\ AsksFor(Given'[j]) => asked[Given'[j].query].raced
    BY <2>1, <2>2
  <2>5. \A i, j \in DOMAIN Given' :
          i < j /\ Starts(Given'[i]) /\ AsksFor(Given'[j]) => asked[Given'[j].query].raced
    BY <2>1
  <2> QED
    BY <2>1, <2>3, <2>4, <2>5 DEF Starts, AsksFor
<1>5. CASE Processes
  <2>1. /\ \A i \in DOMAIN Coming' : i + 1 \in DOMAIN Coming /\ Coming'[i] = Coming[i + 1] /\ i \in Nat
        /\ asked' = asked
    BY <1>5, ProcessesFirst DEF IsPopped
  <2>2. \A i \in DOMAIN Given' :
          Starts(Given'[i]) \/ AsksFor(Given'[i]) => i \in DOMAIN Given /\ Given'[i] = Given[i]
    <3>1. Given' = Given \/ (IsPushed(Given, Given', inHand') /\ inHand'.type = "fill")
      BY <1>5, ProcessesFirst
    <3> QED
      BY <3>1 DEF IsPushed, Starts, AsksFor
  <2>3. \A i, j \in DOMAIN Coming' :
          i < j /\ Starts(Coming'[i]) /\ AsksFor(Coming'[j]) => asked[Coming'[j].query].raced
    BY <2>1
  <2>4. \A i \in DOMAIN Coming', j \in DOMAIN Given' :
          Starts(Coming'[i]) /\ AsksFor(Given'[j]) => asked[Given'[j].query].raced
    BY <2>1, <2>2
  <2>5. \A i, j \in DOMAIN Given' :
          i < j /\ Starts(Given'[i]) /\ AsksFor(Given'[j]) => asked[Given'[j].query].raced
    BY <2>2
  <2> QED
    BY <2>1, <2>3, <2>4, <2>5 DEF Starts, AsksFor
<1> QED
  BY <1>1, <1>2, <1>3, <1>4, <1>5, StepKinds

\* The numbers go on with each query.  When the start of a load sets the number back,
\* all the queries on their way are behind that start.
LEMMA NumberedStep ==
  ASSUME TypeOK, RacedBehindStarts, Numbered, [Next]_vars
  PROVE  Numbered'
<1> USE DEF Numbered
<1>0. seqNumber \in Nat /\ Len(asked) \in Nat
  BY DEF TypeOK
<1>1. CASE Rests
  BY <1>1, RestsKeep DEF Counts, AsksFor
<1>2. CASE ChooseFile
  <2>1. /\ Coming' = Coming /\ asked' = asked /\ seqNumber' = seqNumber
        /\ \A i \in DOMAIN Given' : AsksFor(Given'[i]) => i \in DOMAIN Given /\ Given'[i] = Given[i]
    BY <1>2, ChooseFileGives DEF IsPushed, AsksFor
  <2> QED
    BY <2>1 DEF Counts, AsksFor
<1>3. CASE ExecuteQuery
  <2>1. /\ Coming' = Coming
        /\ \A i \in DOMAIN Given' :
             \/ i \in DOMAIN Given /\ Given'[i] = Given[i]
             \/ Given'[i].query = Len(asked) + 1 /\ Given'[i].seq = seqNumber + 1
    BY <1>3, ExecuteQueryGives DEF IsPushed
  <2>2. /\ seqNumber' = seqNumber + 1 /\ Len(asked') = Len(asked) + 1
        /\ \A q \in 1..Len(asked) : asked'[q] = asked[q]
    BY <1>3, ExecuteQueryGives
  <2>3. /\ \A i \in DOMAIN Coming : AsksFor(Coming[i]) =>
             /\ Coming[i].query \in 1..Len(asked')
             /\ asked'[Coming[i].query].raced \/ Coming[i].seq + Len(asked') = seqNumber' + Coming[i].query
        /\ \A i \in DOMAIN Given : AsksFor(Given[i]) =>
             /\ Given[i].query \in 1..Len(asked')
             /\ asked'[Given[i].query].raced \/ Given[i].seq + Len(asked') = seqNumber' + Given[i].query
    <3>1. ASSUME NEW x, AsksFor(x), Counts(x), x.query \in Nat, x.seq \in Nat
          PROVE  /\ x.query \in 1..Len(asked')
                 /\ asked'[x.query].raced \/ x.seq + Len(asked') = seqNumber' + x.query
      <4>1. x.query \in 1..Len(asked) /\ asked'[x.query] = asked[x.query]
        BY <2>2, <3>1 DEF Counts
      <4>2. asked[x.query].raced \/ x.seq + Len(asked) = seqNumber + x.query
        BY <3>1 DEF Counts
      <4>3. x.query \in 1..Len(asked')
        BY <1>0, <2>2, <4>1
      <4>4. ASSUME x.seq + Len(asked) = seqNumber + x.query
            PROVE  x.seq + Len(asked') = seqNumber' + x.query
        <5>1. /\ x.seq \in Nat /\ x.query \in Nat /\ seqNumber \in Nat /\ Len(asked) \in Nat
              /\ seqNumber' = seqNumber + 1 /\ Len(asked') = Len(asked) + 1
          BY <1>0, <2>2, <3>1
        <5> QED
          BY ONLY <4>4, <5>1
      <4> QED
        BY <4>1, <4>2, <4>3, <4>4
    <3>2. ASSUME NEW i \in DOMAIN Coming, AsksFor(Coming[i])
          PROVE  /\ Coming[i].query \in 1..Len(asked')
                 /\ asked'[Coming[i].query].raced \/ Coming[i].seq + Len(asked') = seqNumber' + Coming[i].query
      <4>1. Counts(Coming[i]) /\ Coming[i].query \in Nat /\ Coming[i].seq \in Nat
        BY <3>2, AsksNameQueries
      <4> QED
        BY <3>1, <3>2, <4>1
    <3>3. ASSUME NEW i \in DOMAIN Given, AsksFor(Given[i])
          PROVE  /\ Given[i].query \in 1..Len(asked')
                 /\ asked'[Given[i].query].raced \/ Given[i].seq + Len(asked') = seqNumber' + Given[i].query
      <4>1. Counts(Given[i]) /\ Given[i].query \in Nat /\ Given[i].seq \in Nat
        BY <3>3, AsksNameQueries
      <4> QED
        BY <3>1, <3>3, <4>1
    <3> QED
      BY <3>2, <3>3
  <2>4. \A i \in DOMAIN Given' : AsksFor(Given'[i]) =>
             /\ Given'[i].query \in 1..Len(asked')
             /\ asked'[Given'[i].query].raced \/ Given'[i].seq + Len(asked') = seqNumber' + Given'[i].query
    BY <1>0, <2>1, <2>2, <2>3
  <2> QED
    BY <2>1, <2>3, <2>4 DEF Counts, AsksFor
<1>4. CASE Takes
  <2>1. /\ \A i \in DOMAIN Given' : i + 1 \in DOMAIN Given /\ Given'[i] = Given[i + 1]
        /\ 1 \in DOMAIN Given /\ asked' = asked /\ seqNumber' = seqNumber
    BY <1>4, TakesFaithfully DEF IsPopped
  <2>2. \A i \in DOMAIN Coming' : AsksFor(Coming'[i]) =>
          \/ i \in DOMAIN Coming /\ Coming'[i] = Coming[i]
          \/ AsksFor(Given[1]) /\ Coming'[i].query = Given[1].query /\ Coming'[i].seq = Given[1].seq
    BY <1>4, NewComing
  <2> QED
    BY <2>1, <2>2 DEF Counts, AsksFor
<1>5. CASE Processes
  <2>1. /\ \A i \in DOMAIN Coming' : i + 1 \in DOMAIN Coming /\ 1 < i + 1 /\ Coming'[i] = Coming[i + 1]
        /\ 1 \in DOMAIN Coming /\ asked' = asked
    BY <1>5, ProcessesFirst DEF IsPopped
  <2>2. \A i \in DOMAIN Given' : AsksFor(Given'[i]) => i \in DOMAIN Given /\ Given'[i] = Given[i]
    <3>1. Given' = Given \/ (IsPushed(Given, Given', inHand') /\ inHand'.type = "fill")
      BY <1>5, ProcessesFirst
    <3> QED
      BY <3>1 DEF IsPushed, AsksFor
  <2>3. CASE seqNumber' = seqNumber
    BY <2>1, <2>2, <2>3 DEF Counts, AsksFor
  <2>4. CASE Starts(Coming[1])
    <3>1. /\ \A i \in DOMAIN Coming' : AsksFor(Coming'[i]) => asked[Coming'[i].query].raced
          /\ \A i \in DOMAIN Given' : AsksFor(Given'[i]) => asked[Given'[i].query].raced
      BY <2>1, <2>2, <2>4 DEF RacedBehindStarts
    <3> QED
      BY <2>1, <2>2, <3>1 DEF Counts, AsksFor
  <2>5. seqNumber' = seqNumber \/ Starts(Coming[1])
    BY <1>5, ProcessesFirst DEF Starts
  <2> QED
    BY <2>3, <2>4, <2>5
<1> QED
  BY <1>1, <1>2, <1>3, <1>4, <1>5, StepKinds

\* The number of the result that is accepted is the window's number, and so the result
\* is that of the latest query.
LEMMA AcceptsLatestStep ==
  ASSUME TypeOK, Numbered, AcceptsLatest, [Next]_vars
  PROVE  AcceptsLatest'
<1> USE DEF AcceptsLatest
<1>1. CASE UNCHANGED <<inHand, asked>>
  BY <1>1
<1>2. CASE ChooseFile \/ ExecuteQuery \/ HandOver
  BY <1>2, MessageTypes DEF ChooseFile, ExecuteQuery, HandOver
<1>3. CASE OnQueryResult /\ inHand' # inHand
  <2>1. /\ 1 \in DOMAIN Coming /\ Coming[1].type = "result" /\ Coming[1].seq = seqNumber
        /\ inHand'.query = Coming[1].query /\ asked' = asked
    BY <1>3, ProcessesFirst DEF Processes, IsPopped
  <2>2. Counts(Coming[1]) /\ AsksFor(Coming[1])
    BY <2>1 DEF Numbered, AsksFor
  <2>3. Coming[1].query \in Nat /\ Len(asked) \in Nat /\ seqNumber \in Nat
    BY <2>1, <2>2, AsksNameQueries DEF TypeOK
  <2>4. \/ asked[Coming[1].query].raced
        \/ Coming[1].seq + Len(asked) = seqNumber + Coming[1].query
    BY <2>2 DEF Counts
  <2>5. CASE Coming[1].seq + Len(asked) = seqNumber + Coming[1].query
    <3>1. seqNumber + Len(asked) = seqNumber + Coming[1].query
      BY <2>1, <2>5
    <3>2. \A a, b, c \in Nat : a + b = a + c => c = b
      OBVIOUS
    <3>3. Coming[1].query = Len(asked)
      BY <2>3, <3>1, <3>2
    <3> QED
      BY <2>1, <3>3
  <2>6. CASE asked[Coming[1].query].raced
    BY <2>1, <2>6
  <2> QED
    BY <2>4, <2>5, <2>6
<1>4. \/ UNCHANGED <<inHand, asked>>
      \/ ChooseFile \/ ExecuteQuery \/ HandOver
      \/ OnQueryResult /\ inHand' # inHand
  <2>1. Rests /\ ~HandOver => UNCHANGED <<inHand, asked>>
    BY DEF Rests, Activates, Activate, ActivateAgain, StartAgain, ClearView, Send, Release, vars,
           history
  <2>2. Takes => UNCHANGED <<inHand, asked>>
    BY TakesFaithfully
  <2>3. Processes => UNCHANGED <<inHand, asked>> \/ (OnQueryResult /\ inHand' # inHand)
    <3>1. Processes => asked' = asked /\ (inHand' = inHand \/ OnQueryResult)
      BY ProcessesFirst
    <3> QED
      BY <3>1
  <2> QED
    BY <2>1, <2>2, <2>3, StepKinds
<1> QED
  BY <1>1, <1>2, <1>3, <1>4

-------------------------------------------------------------------------------
(* Profiles, and the results and rows that are of them. *)

\* What the worker has taken changes the profile only when it is a file, and is a result,
\* or is filled in, of the profile there is.
LEMMA TakesOf ==
  ASSUME TypeOK, Takes
  PROVE  /\ profile' = profile /\ ~Finishing
         /\ TakeOpen <=> Starts(Given[1])
         /\ TakeFill <=> Given[1].type = "fill"
         /\ TakeFill => rows' = IF Rows = 0 THEN NoRows ELSE RowsOf(Given[1])
         /\ ~TakeFill => rows' = rows
         /\ ~TakeOpen => ~Finishing'
         /\ \A i \in DOMAIN todo' : todo'[i].type = "result" => ~TakeOpen /\ todo'[i].of = profile
         /\ \A i \in DOMAIN todo' : todo'[i].type \in {"row", "filled"} => TakeFill /\ todo'[i].fill = Given[1]
         /\ TakeOpen => /\ 1 \in DOMAIN todo' /\ Starts(todo'[1])
                        /\ Len(todo') \in DOMAIN todo' /\ Len(todo') > 1
                        /\ \A i \in DOMAIN todo' : todo'[i].type = "finished" <=> i = Len(todo')
         /\ TakeFill => /\ Len(todo') \in DOMAIN todo'
                        /\ todo'[Len(todo')].type = "filled" /\ todo'[Len(todo')].fill = Given[1]
<1>1. /\ todo = <<>> /\ Given[1] = Head(actions) /\ Given[1] \in Messages
      /\ todo' \in Seq(Sendable)
  <2>1. todo' \in Seq(Sendable)
    BY TakeSends DEF Takes
  <2> QED
    BY <2>1, TakeGives DEF Takes, TakeOpen, TakeQuery, TakeFill, Take
<1>2. ~Finishing
  BY <1>1 DEF Finishing
<1>3. CASE TakeOpen
  <2>1. /\ Given[1].type = "open" /\ Given[1].file \in Files
        /\ profile' = profile /\ rows' = rows /\ ~TakeFill
    BY <1>1, <1>3, MessageTypes DEF TakeOpen, TakeFill, Take
  <2>2. \E loaded \in BOOLEAN : todo' = LoadSignals(Given[1].file, loaded)
    BY <1>1, <1>3 DEF TakeOpen
  <2>3. /\ todo'[1].type = "started" /\ todo'[Len(todo')].type = "finished" /\ Len(todo') = LoadReports + 2
        /\ \A i \in DOMAIN todo' : i # 1 /\ i # Len(todo') => todo'[i].type = "progress"
    BY <2>1, <2>2, LoadSignalsAre
  <2>4. DOMAIN todo' = 1..Len(todo') /\ Len(todo') \in Nat /\ Len(todo') > 1
    BY <1>1, <2>3, LenProperties
  <2>5. \A i \in DOMAIN todo' : todo'[i].type \in {"started", "progress", "finished"}
    BY <2>3
  <2>6. \A i \in DOMAIN todo' : todo'[i].type = "finished" <=> i = Len(todo')
    BY <2>3, <2>4
  <2>7. 1 \in DOMAIN todo' /\ Len(todo') \in DOMAIN todo'
    BY <2>4
  <2> QED
    BY <1>2, <1>3, <2>1, <2>3, <2>4, <2>5, <2>6, <2>7 DEF Starts
<1>4. CASE TakeQuery
  <2>1. /\ Given[1].type = "query" /\ profile' = profile /\ rows' = rows
        /\ ~TakeOpen /\ ~TakeFill
    BY <1>1, <1>4 DEF TakeOpen, TakeQuery, TakeFill, Take
  <2>2. \/ todo' = <<>>
        \/ todo' = <<ResultSignal(Given[1])>>
        \/ todo' = <<FailedSignal(Given[1])>>
    BY <1>1, <1>4 DEF TakeQuery
  <2>3. /\ \A i \in DOMAIN todo' : todo'[i].type \in {"result", "failed"}
        /\ \A i \in DOMAIN todo' : todo'[i].type = "result" => todo'[i].of = profile
    BY <2>2 DEF ResultSignal, FailedSignal
  <2> QED
    BY <1>2, <2>1, <2>3 DEF Starts, Finishing
<1>5. CASE TakeFill
  <2>1. /\ Given[1].type = "fill" /\ Given[1] \in Fills /\ profile' = profile
        /\ rows' = (IF Rows = 0 THEN NoRows ELSE RowsOf(Given[1])) /\ ~TakeOpen
    BY <1>1, <1>5, MessageTypes DEF TakeOpen, TakeFill, Take
  <2>2. todo' = FillSignals(Given[1])
    BY <1>1, <1>5 DEF TakeFill
  <2>3. /\ Len(todo') = Rows + 1
        /\ \A i \in DOMAIN todo' : i # Len(todo') => todo'[i].type = "row" /\ todo'[i].fill = Given[1]
        /\ todo'[Len(todo')].type = "filled" /\ todo'[Len(todo')].fill = Given[1]
    BY <2>1, <2>2, FillSignalsAre
  <2>4. Len(todo') \in DOMAIN todo'
    BY <1>1, <2>3, LenProperties
  <2>5. \A i \in DOMAIN todo' : todo'[i].type \in {"row", "filled"} /\ todo'[i].fill = Given[1]
    BY <2>3
  <2> QED
    BY <1>2, <1>5, <2>1, <2>3, <2>4, <2>5 DEF Starts, Finishing
<1> QED
  BY <1>3, <1>4, <1>5 DEF Takes

\* Only the end of a load replaces the profile, and only a row of the action that is
\* handled the rows.
LEMMA SendsOf ==
  ASSUME TypeOK, Send
  PROVE  /\ \A i \in DOMAIN todo' : i + 1 \in DOMAIN todo /\ todo'[i] = todo[i + 1] /\ i \in Nat
         /\ Finishing' => Finishing
         /\ ~Finishing => profile' = profile
         /\ (\E i \in DOMAIN todo : todo[i].type \in {"row", "filled"}) => ~Finishing
         /\ \/ rows' = rows
            \/ \E i \in DOMAIN todo : todo[i].type = "row" /\ rows' = RowsOf(todo[i].fill)
<1>1. \A i \in DOMAIN todo' : i + 1 \in DOMAIN todo /\ todo'[i] = todo[i + 1] /\ i \in Nat
  BY SendGives DEF IsPopped
<1>2. todo' # <<>> => 1 \in DOMAIN todo' /\ Head(todo') = todo'[1]
  BY SendKeepsOneAction, Popped
<1>3. Finishing' => Finishing
  BY <1>1 DEF Finishing
<1>4. ~Finishing => profile' = profile
  BY <1>1, <1>2 DEF Finishing, Send, Before
<1>5. (\E i \in DOMAIN todo : todo[i].type \in {"row", "filled"}) => ~Finishing
  <2>1. todo \in Seq(Sendable) /\ OneAction /\ todo # <<>>
    BY DEF TypeOK, Send
  <2>2. DOMAIN todo = 1..Len(todo) /\ Len(todo) \in Nat \ {0}
    BY <2>1, LenProperties, EmptySeq
  <2> QED
    BY <2>1, <2>2 DEF OneAction, Finishing
<1>6. \/ rows' = rows
      \/ \E i \in DOMAIN todo : todo[i].type = "row" /\ rows' = RowsOf(todo[i].fill)
  BY <1>1, <1>2 DEF Send, Before
<1> QED
  BY <1>1, <1>3, <1>4, <1>5, <1>6

\* Nothing but these two changes the profile, or what is still to be sent.
LEMMA OthersKeep ==
  ASSUME TypeOK, [Next]_vars, ~Takes, ~Send
  PROVE  /\ UNCHANGED <<profile, todo>> /\ Finishing' = Finishing
         /\ ~ClearView => rows' = rows
<1>1. Rests => UNCHANGED <<profile, todo>> /\ (~ClearView => rows' = rows)
  BY DEF Rests, Activates, Activate, ActivateAgain, StartAgain, HandOver, ClearView, Release, vars, worker
<1>2. ChooseFile \/ ExecuteQuery => UNCHANGED <<profile, todo, rows>>
  BY DEF ChooseFile, ExecuteQuery, worker
<1>3. Processes => UNCHANGED <<profile, todo, rows>>
  BY DEF Processes, OnStartLoad, OnProgress, OnStopLoad, OnQueryResult, OnQueryFailed, OnTreeviewFilled,
         Process, worker
<1>4. todo' = todo => Finishing' = Finishing
  BY DEF Finishing
<1> QED
  BY <1>1, <1>2, <1>3, <1>4, StepKinds

\* A signal that is processed changes neither.
LEMMA ProcessesKeep ==
  ASSUME TypeOK, Processes
  PROVE  UNCHANGED <<profile, todo, rows>> /\ Finishing' = Finishing
<1>1. UNCHANGED <<profile, todo, rows>>
  BY DEF Processes, OnStartLoad, OnProgress, OnStopLoad, OnQueryResult, OnQueryFailed, OnTreeviewFilled,
         Process, worker
<1> QED
  BY <1>1 DEF Finishing

\* The profile is replaced at the end of a load only, and the start of that load stands
\* behind the results of the old one until it is processed.
LEMMA ResultsCurrentStep ==
  ASSUME TypeOK, ResultsCurrent, [Next]_vars
  PROVE  ResultsCurrent'
<1> USE DEF ResultsCurrent
<1>1. CASE Send
  <2>1. Coming' = Coming
    BY <1>1, SendGives
  <2>2. (Finishing' => Finishing) /\ (~Finishing => profile' = profile)
    BY <1>1, SendsOf
  <2> QED
    BY <2>1, <2>2 DEF Starts
<1>2. CASE Takes
  <2>1. /\ profile' = profile /\ ~Finishing /\ Len(Coming) \in Nat
        /\ \A i \in DOMAIN Coming : i \in Nat /\ i <= Len(Coming) /\ i \in DOMAIN Coming' /\ Coming'[i] = Coming[i]
    BY <1>2, TakesOf, TakesFaithfully DEF IsJoined
  <2>2. CASE TakeOpen
    <3>1. Len(Coming) + 1 \in DOMAIN Coming' /\ Starts(Coming'[Len(Coming) + 1])
      <4>1. 1 \in DOMAIN todo' /\ Starts(todo'[1])
        BY <1>2, <2>2, TakesOf
      <4> QED
        BY <1>2, <4>1, TakesFaithfully DEF IsJoined
    <3>2. \A i \in DOMAIN Coming' : Coming'[i].type = "result" => i \in DOMAIN Coming
      <4>1. \A i \in DOMAIN todo' : todo'[i].type # "result"
        BY <1>2, <2>2, TakesOf
      <4>2. ASSUME NEW i \in DOMAIN Coming', i \notin DOMAIN Coming
            PROVE  i - Len(Coming) \in DOMAIN todo' /\ Coming'[i] = todo'[i - Len(Coming)]
        BY <1>2, <4>2, JoinedBehind
      <4> QED
        BY <4>1, <4>2
    <3>3. \A i \in DOMAIN Coming : Len(Coming) + 1 > i
      BY <2>1
    <3> QED
      BY <3>1, <3>2, <3>3 DEF Starts
  <2>3. CASE ~TakeOpen
    <3>1. ~Finishing'
      BY <1>2, <2>3, TakesOf
    <3>2. \A i \in DOMAIN Coming' : Coming'[i].type = "result" => i \in DOMAIN Coming \/ Coming'[i].of = profile
      <4>1. \A i \in DOMAIN todo' : todo'[i].type = "result" => todo'[i].of = profile
        BY <1>2, TakesOf
      <4>2. ASSUME NEW i \in DOMAIN Coming', i \notin DOMAIN Coming
            PROVE  i - Len(Coming) \in DOMAIN todo' /\ Coming'[i] = todo'[i - Len(Coming)]
        BY <1>2, <4>2, JoinedBehind
      <4> QED
        BY <4>1, <4>2
    <3> QED
      BY <2>1, <3>1, <3>2 DEF Starts
  <2> QED
    BY <2>2, <2>3
<1>3. CASE Processes
  <2>1. UNCHANGED <<profile, todo>>
    BY <1>3, ProcessesKeep
  <2>2. Finishing' = Finishing
    BY <1>3, ProcessesKeep
  <2>3. /\ \A i \in DOMAIN Coming' : i \in Nat /\ i + 1 \in DOMAIN Coming /\ Coming'[i] = Coming[i + 1]
        /\ \A i \in DOMAIN Coming : i # 1 => i - 1 \in DOMAIN Coming' /\ Coming'[i - 1] = Coming[i]
        /\ \A i \in DOMAIN Coming : i \in Nat \ {0}
    BY <1>3, ProcessesFirst DEF IsPopped
  <2>4. ASSUME NEW i \in DOMAIN Coming', NEW j \in DOMAIN Coming, j > i + 1
        PROVE  j - 1 \in DOMAIN Coming' /\ Coming'[j - 1] = Coming[j] /\ j - 1 > i
    BY <2>3, <2>4
  <2> QED
    BY <2>1, <2>2, <2>3, <2>4 DEF Starts
<1>4. CASE ~Send /\ ~Takes /\ ~Processes
  <2>1. Coming' = Coming
    BY <1>4, StepKinds, RestsKeep, ChooseFileGives, ExecuteQueryGives
  <2>2. UNCHANGED <<profile, todo, Finishing>>
    BY <1>4, OthersKeep
  <2> QED
    BY <2>1, <2>2 DEF Starts
<1> QED
  BY <1>1, <1>2, <1>3, <1>4

\* A result is accepted in time when the window names the newest file, and then no load
\* is on its way that could replace the profile before the result is filled in.
LEMMA FillsCurrentStep ==
  ASSUME TypeOK, FilesInOrder, ResultsCurrent, FillsCurrent, [Next]_vars
  PROVE  FillsCurrent'
<1> USE DEF FillsCurrent
<1>0. title \in Nat /\ opens \in Nat
  BY DEF TypeOK
<1>1. CASE Send
  <2>1. Given' = Given
    BY <1>1, SendGives
  <2>2. \A i \in DOMAIN Given' :
          Given'[i].type = "fill" /\ ~Given'[i].late =>
            /\ Given'[i].of = profile' /\ ~Finishing'
            /\ \A j \in DOMAIN Given' : j < i => ~Starts(Given'[j])
    <3>1. (Finishing' => Finishing) /\ (~Finishing => profile' = profile)
      BY <1>1, SendsOf
    <3> QED
      BY <2>1, <3>1
  <2>3. \A i \in DOMAIN todo' :
          todo'[i].type \in {"row", "filled"} /\ ~todo'[i].fill.late => todo'[i].fill.of = profile'
    <3>1. ASSUME NEW i \in DOMAIN todo', todo'[i].type \in {"row", "filled"}
          PROVE  i + 1 \in DOMAIN todo /\ todo'[i] = todo[i + 1] /\ profile' = profile
      BY <1>1, <3>1, SendsOf
    <3> QED
      BY <3>1
  <2> QED
    BY <2>2, <2>3 DEF Starts
<1>2. CASE Takes
  <2>1. /\ \A i \in DOMAIN Given' : i + 1 \in DOMAIN Given /\ 1 < i + 1 /\ Given'[i] = Given[i + 1] /\ i \in Nat
        /\ 1 \in DOMAIN Given
    BY <1>2, TakesFaithfully DEF IsPopped
  <2>2. profile' = profile /\ (Starts(Given[1]) \/ ~Finishing')
    BY <1>2, TakesOf
  <2>3. \A i \in DOMAIN Given' :
          Given'[i].type = "fill" /\ ~Given'[i].late =>
            /\ Given'[i].of = profile' /\ ~Finishing'
            /\ \A j \in DOMAIN Given' : j < i => ~Starts(Given'[j])
    BY <2>1, <2>2
  <2>4. \A i \in DOMAIN todo' :
          todo'[i].type \in {"row", "filled"} => todo'[i].fill = Given[1] /\ Given[1].type = "fill"
    BY <1>2, TakesOf
  <2>5. \A i \in DOMAIN todo' :
          todo'[i].type \in {"row", "filled"} /\ ~todo'[i].fill.late => todo'[i].fill.of = profile'
    BY <2>1, <2>2, <2>4
  <2> QED
    BY <2>3, <2>5 DEF Starts
<1>3. CASE Processes
  <2>1. profile' = profile /\ todo' = todo /\ Finishing' = Finishing
    BY <1>3, ProcessesKeep
  <2>2. CASE Given' = Given
    BY <2>1, <2>2 DEF Starts
  <2>3. CASE Given' # Given
    <3>1. /\ IsPushed(Given, Given', inHand') /\ Coming[1].type = "result" /\ 1 \in DOMAIN Coming
          /\ inHand' = [type |-> "fill", query |-> Coming[1].query,
                        of |-> Coming[1].of, late |-> title # opens]
      BY <1>3, <2>3, ProcessesFirst DEF IsPopped
    <3>2. inHand'.late = (title # opens) /\ inHand'.of = Coming[1].of
      BY <3>1
    <3>3. ASSUME ~inHand'.late
          PROVE  inHand'.of = profile /\ ~Finishing /\ \A j \in DOMAIN Given : ~Starts(Given[j])
      <4>1. title = opens
        BY <3>2, <3>3
      <4>2. /\ \A i \in DOMAIN Coming : ~Starts(Coming[i])
            /\ \A i \in DOMAIN Given : ~Starts(Given[i])
        BY <1>0, <4>1, StartsNameFiles DEF FilesInOrder
      <4> QED
        BY <3>1, <3>2, <4>2 DEF ResultsCurrent
    <3>4. \A i \in DOMAIN Given' : \/ i \in DOMAIN Given /\ Given'[i] = Given[i] /\ i < Len(Given')
                                   \/ i = Len(Given') /\ Given'[i] = inHand'
      BY <3>1 DEF IsPushed
    <3>5. Len(Given') \in Nat /\ \A i \in DOMAIN Given : i \in Nat
      BY <3>1 DEF IsPushed
    <3>6. ASSUME NEW i \in DOMAIN Given', Given'[i].type = "fill", ~Given'[i].late
          PROVE  /\ Given'[i].of = profile /\ ~Finishing
                 /\ \A j \in DOMAIN Given' : j < i => ~Starts(Given'[j])
      <4>1. CASE i \in DOMAIN Given /\ Given'[i] = Given[i] /\ i < Len(Given')
        BY <3>4, <3>5, <3>6, <4>1
      <4>2. CASE i = Len(Given') /\ Given'[i] = inHand'
        BY <3>3, <3>4, <3>5, <3>6, <4>2
      <4> QED
        BY <3>4, <4>1, <4>2
    <3> QED
      BY <2>1, <3>6 DEF Starts
  <2> QED
    BY <2>2, <2>3
<1>4. CASE ~Send /\ ~Takes /\ ~Processes
  <2>1. UNCHANGED <<profile, todo, Finishing>>
    BY <1>4, OthersKeep
  <2>2. CASE Given' = Given
    BY <2>1, <2>2 DEF Starts
  <2>3. CASE ChooseFile \/ ExecuteQuery
    <3>1. /\ IsPushed(Given, Given', inHand')
          /\ inHand'.type \in {"open", "query"}
      BY <2>3, ChooseFileGives, ExecuteQueryGives
    <3>2. /\ \A i \in DOMAIN Given' : \/ i \in DOMAIN Given /\ Given'[i] = Given[i] /\ i < Len(Given')
                                      \/ i = Len(Given') /\ Given'[i].type # "fill"
          /\ Len(Given') \in Nat /\ \A i \in DOMAIN Given : i \in Nat
      BY <3>1 DEF IsPushed
    <3>3. ASSUME NEW i \in DOMAIN Given', Given'[i].type = "fill", ~Given'[i].late
          PROVE  /\ Given'[i].of = profile /\ ~Finishing
                 /\ \A j \in DOMAIN Given' : j < i => ~Starts(Given'[j])
      <4>1. i \in DOMAIN Given /\ Given'[i] = Given[i] /\ i < Len(Given')
        BY <3>2, <3>3
      <4> QED
        BY <3>2, <3>3, <4>1
    <3> QED
      BY <2>1, <3>3 DEF Starts
  <2> QED
    BY <1>4, <2>2, <2>3, StepKinds, RestsKeep
<1> QED
  BY <1>1, <1>2, <1>3, <1>4

-------------------------------------------------------------------------------
(* What the view shows. *)

\* A signal that is processed leaves the others one place further.
LEMMA ComingMovesUp ==
  ASSUME TypeOK, Processes
  PROVE  /\ 1 \in DOMAIN Coming
         /\ \A i \in DOMAIN Coming' : i \in Nat /\ i + 1 \in DOMAIN Coming /\ 1 < i + 1 /\ Coming'[i] = Coming[i + 1]
         /\ \A i \in DOMAIN Coming :
              /\ i \in Nat \ {0}
              /\ i # 1 => i - 1 \in DOMAIN Coming' /\ Coming'[i - 1] = Coming[i] /\ i - 1 + 1 = i
BY ProcessesFirst DEF IsPopped

\* The other signals stay where they are.
LEMMA ComingStays ==
  ASSUME TypeOK, Takes
  PROVE  /\ Len(Coming) \in Nat
         /\ \A i \in DOMAIN Coming :
              i \in Nat \ {0} /\ i <= Len(Coming) /\ i \in DOMAIN Coming' /\ Coming'[i] = Coming[i]
         /\ \A i \in DOMAIN todo' :
              /\ i \in Nat \ {0} /\ Len(Coming) + i \in DOMAIN Coming'
              /\ Coming'[Len(Coming) + i] = todo'[i]
BY TakesFaithfully DEF IsJoined

\* An action is of one type.
LEMMA TakesApart == /\ TakeQuery => ~TakeOpen /\ ~TakeFill
                    /\ TakeFill => ~TakeOpen
BY DEF TakeOpen, TakeQuery, TakeFill, Take

\* What the signals do to the button and to the view.
LEMMA SignalsShow ==
  ASSUME TypeOK, Processes
  PROVE  /\ Starts(Coming[1]) => ~button'
         /\ Coming[1].type # "finished" /\ ~button => ~button'
         /\ Coming[1].type = "finished" => ~attached'
         /\ Coming[1].type # "filled" /\ ~attached => ~attached'
<1>1. PICK type \in {"started", "progress", "row", "finished", "result", "failed", "filled"} :
        /\ Process(type)
        /\ type = "started" <=> OnStartLoad
        /\ type = "finished" <=> OnStopLoad
        /\ type = "filled" <=> OnTreeviewFilled
  <2>1. \A t : Process(t) => Head(signals).type = t
    BY DEF Process
  <2> QED
    BY <2>1 DEF Processes, OnStartLoad, OnProgress, OnStopLoad, OnQueryResult, OnQueryFailed, OnTreeviewFilled
<1>2. Coming[1].type = type
  BY <1>1, ProcessGives
<1>3. OnStartLoad => ~button' /\ attached' = attached
  BY DEF OnStartLoad
<1>4. OnStopLoad => ~attached'
  BY DEF OnStopLoad
<1>5. OnTreeviewFilled => button' = button
  BY DEF OnTreeviewFilled
<1>6. OnProgress \/ OnQueryResult \/ OnQueryFailed => button' = button /\ attached' = attached
  BY DEF OnProgress, OnQueryResult, OnQueryFailed, window
<1> QED
  BY <1>1, <1>2, <1>3, <1>4, <1>5, <1>6 DEF Processes, Starts

\* The other steps leave them alone, but for the view that is cleared.
LEMMA OthersShow ==
  ASSUME Rests \/ Takes \/ ChooseFile \/ ExecuteQuery
  PROVE  /\ button' = button
         /\ ~ClearView => attached' = attached
BY DEF Rests, Takes, Activates, Activate, ActivateAgain, StartAgain, HandOver, ClearView, Send,
       Release, ChooseFile, ExecuteQuery,
  TakeOpen, TakeQuery, TakeFill, Take, vars, window

\* The button is off from the start of a load to its end.
LEMMA ButtonOffWhileLoadingStep ==
  ASSUME TypeOK, ButtonOffWhileLoading, [Next]_vars
  PROVE  ButtonOffWhileLoading'
<1> USE DEF ButtonOffWhileLoading
<1>1. CASE Takes
  <2> SUFFICES ASSUME NEW j \in DOMAIN Coming', Coming'[j].type = "finished"
               PROVE  \/ \E i \in DOMAIN Coming' :
                           /\ i < j /\ Starts(Coming'[i])
                           /\ \A k \in DOMAIN Coming' : i < k /\ k < j => Coming'[k].type # "finished"
                      \/ ~button /\ \A k \in DOMAIN Coming' : k < j => Coming'[k].type # "finished"
    <3>1. button' = button
      BY <1>1, OthersShow
    <3> QED
      BY <3>1 DEF Starts
  <2>1. /\ Len(Coming) \in Nat
        /\ \A i \in DOMAIN Coming :
             i \in Nat \ {0} /\ i <= Len(Coming) /\ i \in DOMAIN Coming' /\ Coming'[i] = Coming[i]
    BY <1>1, ComingStays
  <2>2. \A k \in DOMAIN Coming' : k \in DOMAIN Coming \/ (k \in Nat /\ k > Len(Coming))
    BY <1>1, JoinedBehind
  <2>3. CASE j \in DOMAIN Coming
    <3>1. \A k \in DOMAIN Coming' : k < j => k \in DOMAIN Coming /\ Coming'[k] = Coming[k]
      BY <2>1, <2>2, <2>3
    <3>2. Coming[j].type = "finished"
      BY <2>1, <2>3
    <3> QED
      BY <2>1, <2>3, <3>1, <3>2
  <2>4. CASE j \notin DOMAIN Coming
    <3>1. /\ j \in Nat /\ j > Len(Coming) /\ j - Len(Coming) \in DOMAIN todo'
          /\ todo'[j - Len(Coming)].type = "finished"
      BY <1>1, <2>4, JoinedBehind
    <3>2. TakeOpen
      BY <1>1, <3>1, TakesOf DEF Finishing
    <3>3. /\ 1 \in DOMAIN todo' /\ Starts(todo'[1])
          /\ Len(todo') > 1 /\ Len(todo') \in DOMAIN todo'
          /\ \A i \in DOMAIN todo' : todo'[i].type = "finished" <=> i = Len(todo')
      BY <1>1, <3>2, TakesOf
    <3>4. j - Len(Coming) = Len(todo') /\ Len(Coming) + 1 < j
      BY <2>1, <3>1, <3>3
    <3>5. Len(Coming) + 1 \in DOMAIN Coming' /\ Starts(Coming'[Len(Coming) + 1])
      BY <1>1, <3>3, ComingStays
    <3>6. ASSUME NEW k \in DOMAIN Coming', Len(Coming) + 1 < k, k < j
          PROVE  Coming'[k].type # "finished"
      <4>1. k \notin DOMAIN Coming /\ k \in Nat
        BY <2>1, <2>2, <3>6
      <4>2. k - Len(Coming) \in DOMAIN todo' /\ Coming'[k] = todo'[k - Len(Coming)]
        BY <1>1, <4>1, JoinedBehind
      <4>3. k - Len(Coming) # Len(todo')
        BY <2>1, <3>1, <3>4, <3>6, <4>1
      <4> QED
        BY <3>3, <4>2, <4>3
    <3> QED
      BY <3>4, <3>5, <3>6
  <2> QED
    BY <2>3, <2>4
<1>2. CASE Processes
  <2>1. /\ 1 \in DOMAIN Coming
        /\ \A i \in DOMAIN Coming' : i \in Nat /\ i + 1 \in DOMAIN Coming /\ 1 < i + 1 /\ Coming'[i] = Coming[i + 1]
        /\ \A i \in DOMAIN Coming :
             /\ i \in Nat \ {0}
             /\ i # 1 => i - 1 \in DOMAIN Coming' /\ Coming'[i - 1] = Coming[i]
    BY <1>2, ComingMovesUp
  <2>2. /\ Starts(Coming[1]) => ~button'
        /\ Coming[1].type # "finished" /\ ~button => ~button'
    BY <1>2, SignalsShow
  <2> SUFFICES ASSUME NEW j \in DOMAIN Coming', Coming'[j].type = "finished"
               PROVE  \/ \E i \in DOMAIN Coming' :
                           /\ i < j /\ Starts(Coming'[i])
                           /\ \A k \in DOMAIN Coming' : i < k /\ k < j => Coming'[k].type # "finished"
                      \/ ~button' /\ \A k \in DOMAIN Coming' : k < j => Coming'[k].type # "finished"
    BY DEF Starts
  <2>3. j + 1 \in DOMAIN Coming /\ Coming[j + 1].type = "finished" /\ j \in Nat
    BY <2>1
  <2>4. CASE ~button /\ \A k \in DOMAIN Coming : k < j + 1 => Coming[k].type # "finished"
    BY <2>1, <2>2, <2>3, <2>4
  <2>5. ASSUME NEW i \in DOMAIN Coming, i < j + 1, Starts(Coming[i]),
               \A k \in DOMAIN Coming : i < k /\ k < j + 1 => Coming[k].type # "finished"
        PROVE  \/ \E e \in DOMAIN Coming' :
                    /\ e < j /\ Starts(Coming'[e])
                    /\ \A k \in DOMAIN Coming' : e < k /\ k < j => Coming'[k].type # "finished"
               \/ ~button' /\ \A k \in DOMAIN Coming' : k < j => Coming'[k].type # "finished"
    <3>1. CASE i = 1
      BY <2>1, <2>2, <2>3, <2>5, <3>1
    <3>2. CASE i # 1
      <4>1. i - 1 \in DOMAIN Coming' /\ i - 1 < j /\ Starts(Coming'[i - 1])
        BY <2>1, <2>3, <2>5, <3>2
      <4>2. \A k \in DOMAIN Coming' : i - 1 < k /\ k < j => Coming'[k].type # "finished"
        BY <2>1, <2>3, <2>5, <3>2
      <4> QED
        BY <4>1, <4>2
    <3> QED
      BY <3>1, <3>2
  <2> QED
    BY <2>3, <2>4, <2>5
<1>3. CASE ~Takes /\ ~Processes
  <2>1. Coming' = Coming
    BY <1>3, StepKinds, RestsKeep, ChooseFileGives, ExecuteQueryGives
  <2>2. button' = button
    BY <1>3, OthersShow, StepKinds
  <2> QED
    BY <2>1, <2>2 DEF Starts
<1> QED
  BY <1>1, <1>2, <1>3

\* Rows of a profile that was replaced are cleared, and the model taken from the view,
\* before the load that replaced it is over.
LEMMA OldRowsHiddenStep ==
  ASSUME TypeOK, FillsCurrent, OldRowsHidden, [Next]_vars
  PROVE  OldRowsHidden'
<1> USE DEF OldRowsHidden
<1>1. CASE Send
  <2>1. Coming' = Coming /\ attached' = attached
    BY <1>1, SendGives DEF Send, window
  <2>2. CASE rows' = rows
    <3>1. (Finishing' => Finishing) /\ (~Finishing => profile' = profile)
      BY <1>1, SendsOf
    <3> QED
      BY <2>1, <2>2, <3>1
  <2>3. CASE \E i \in DOMAIN todo : todo[i].type = "row" /\ rows' = RowsOf(todo[i].fill)
    <3>1. PICK i \in DOMAIN todo : todo[i].type = "row" /\ rows' = RowsOf(todo[i].fill)
      BY <2>3
    <3>2. ~Finishing' /\ profile' = profile
      BY <1>1, <3>1, SendsOf
    <3>3. rows'.of = todo[i].fill.of /\ rows'.late = todo[i].fill.late
      BY <3>1 DEF RowsOf
    <3> QED
      BY <3>1, <3>2, <3>3 DEF FillsCurrent
  <2> QED
    BY <1>1, <2>2, <2>3, SendsOf
<1>2. CASE Takes
  <2>1. /\ Len(Coming) \in Nat
        /\ \A i \in DOMAIN Coming :
             i \in Nat \ {0} /\ i <= Len(Coming) /\ i \in DOMAIN Coming' /\ Coming'[i] = Coming[i]
    BY <1>2, ComingStays
  <2>2. profile' = profile /\ attached' = attached /\ ~Finishing
    BY <1>2, TakesOf DEF Takes, TakeOpen, TakeQuery, TakeFill, Take, window
  <2>3. CASE TakeOpen
    <3>1. /\ Len(todo') \in DOMAIN todo'
          /\ \A i \in DOMAIN todo' : todo'[i].type = "finished" <=> i = Len(todo')
      BY <1>2, <2>3, TakesOf
    <3>2. /\ Len(Coming) + Len(todo') \in DOMAIN Coming'
          /\ Coming'[Len(Coming) + Len(todo')].type = "finished"
      BY <1>2, <3>1, ComingStays
    <3>3. \A k \in DOMAIN Coming' : ~(k > Len(Coming) + Len(todo'))
      <4>1. \A i \in DOMAIN todo' : i <= Len(todo') /\ i \in Nat /\ Len(todo') \in Nat
        BY <1>2, TakeSends DEF Takes
      <4>2. ASSUME NEW k \in DOMAIN Coming', k > Len(Coming) + Len(todo')
            PROVE  FALSE
        <5>1. k \notin DOMAIN Coming
          BY <2>1, <3>1, <4>1, <4>2
        <5>2. k \in Nat /\ k - Len(Coming) \in DOMAIN todo'
          BY <1>2, <5>1, JoinedBehind
        <5> QED
          BY <2>1, <4>1, <4>2, <5>2
      <4> QED
        BY <4>2
    <3> QED
      BY <3>2, <3>3
  <2>4. CASE TakeQuery
    <3>1. rows' = rows /\ ~Finishing'
      BY <1>2, <2>4, TakesOf, TakesApart
    <3>2. \A i \in DOMAIN todo' : todo'[i].type # "filled"
      BY <1>2, <2>4, TakesOf, TakesApart
    <3>3. \A k \in DOMAIN Coming' : Coming'[k].type = "filled" => k \in DOMAIN Coming /\ Coming'[k] = Coming[k]
      BY <1>2, <2>1, <3>2, JoinedBehind
    <3>4. ASSUME NEW j \in DOMAIN Coming, Coming[j].type = "finished",
                 \A k \in DOMAIN Coming : k > j => Coming[k].type # "filled"
          PROVE  /\ j \in DOMAIN Coming' /\ Coming'[j].type = "finished"
                 /\ \A k \in DOMAIN Coming' : k > j => Coming'[k].type # "filled"
      BY <2>1, <3>3, <3>4
    <3>5. (\A k \in DOMAIN Coming : Coming[k].type # "filled")
            => \A k \in DOMAIN Coming' : Coming'[k].type # "filled"
      BY <3>3
    <3> SUFFICES ASSUME rows # NoRows, ~rows.late
                 PROVE  \/ rows.of = profile
                        \/ \E j \in DOMAIN Coming' :
                             /\ Coming'[j].type = "finished"
                             /\ \A k \in DOMAIN Coming' : k > j => Coming'[k].type # "filled"
                        \/ ~attached /\ \A k \in DOMAIN Coming' : Coming'[k].type # "filled"
      BY <2>2, <3>1
    <3> QED
      BY <3>4, <3>5
  <2>5. CASE TakeFill
    <3>1. /\ rows' \in {NoRows, RowsOf(Given[1])} /\ ~Finishing' /\ Given[1].type = "fill" /\ 1 \in DOMAIN Given
      <4>1. ~TakeOpen
        BY <2>5, TakesApart
      <4>2. 1 \in DOMAIN Given
        BY <1>2, TakesFaithfully DEF IsPopped
      <4> QED
        BY <1>2, <2>5, <4>1, <4>2, TakesOf
    <3>2. rows' = RowsOf(Given[1]) => rows'.of = Given[1].of /\ rows'.late = Given[1].late
      BY DEF RowsOf
    <3> QED
      BY <2>2, <3>1, <3>2 DEF FillsCurrent
  <2> QED
    BY <1>2, <2>3, <2>4, <2>5 DEF Takes
<1>3. CASE Processes
  <2>1. UNCHANGED <<rows, profile>> /\ Finishing' = Finishing
    BY <1>3, ProcessesKeep
  <2>2. /\ 1 \in DOMAIN Coming
        /\ \A i \in DOMAIN Coming' : i \in Nat /\ i + 1 \in DOMAIN Coming /\ 1 < i + 1 /\ Coming'[i] = Coming[i + 1]
        /\ \A i \in DOMAIN Coming :
             /\ i \in Nat \ {0}
             /\ i # 1 => i - 1 \in DOMAIN Coming' /\ Coming'[i - 1] = Coming[i]
    BY <1>3, ComingMovesUp
  <2>3. /\ Coming[1].type = "finished" => ~attached'
        /\ Coming[1].type # "filled" /\ ~attached => ~attached'
    BY <1>3, SignalsShow
  <2> SUFFICES ASSUME rows # NoRows, ~rows.late
               PROVE  \/ rows.of = profile /\ ~Finishing
                      \/ \E j \in DOMAIN Coming' :
                           /\ Coming'[j].type = "finished"
                           /\ \A k \in DOMAIN Coming' : k > j => Coming'[k].type # "filled"
                      \/ ~attached' /\ \A k \in DOMAIN Coming' : Coming'[k].type # "filled"
    BY <2>1
  <2>4. ASSUME NEW j \in DOMAIN Coming, Coming[j].type = "finished",
               \A k \in DOMAIN Coming : k > j => Coming[k].type # "filled"
        PROVE  \/ \E e \in DOMAIN Coming' :
                    /\ Coming'[e].type = "finished"
                    /\ \A k \in DOMAIN Coming' : k > e => Coming'[k].type # "filled"
               \/ ~attached' /\ \A k \in DOMAIN Coming' : Coming'[k].type # "filled"
    <3>1. CASE j = 1
      BY <2>2, <2>3, <2>4, <3>1
    <3>2. CASE j # 1
      <4>1. j - 1 \in DOMAIN Coming' /\ Coming'[j - 1].type = "finished"
        BY <2>2, <2>4, <3>2
      <4>2. \A k \in DOMAIN Coming' : k > j - 1 => Coming'[k].type # "filled"
        BY <2>2, <2>4
      <4> QED
        BY <4>1, <4>2
    <3> QED
      BY <3>1, <3>2
  <2>5. CASE ~attached /\ \A k \in DOMAIN Coming : Coming[k].type # "filled"
    BY <2>2, <2>3, <2>5
  <2> QED
    BY <2>4, <2>5
<1>4. CASE ClearView
  BY <1>4 DEF ClearView
<1>5. CASE ~Send /\ ~Takes /\ ~Processes /\ ~ClearView
  <2>1. Coming' = Coming
    BY <1>5, StepKinds, RestsKeep, ChooseFileGives, ExecuteQueryGives
  <2>2. UNCHANGED <<profile, rows, attached>> /\ Finishing' = Finishing
    BY <1>5, StepKinds, OthersKeep, OthersShow
  <2> QED
    BY <2>1, <2>2
<1> QED
  BY <1>1, <1>2, <1>3, <1>4, <1>5

-------------------------------------------------------------------------------
(* The way of the latest query: each step takes it further, or leaves it where it is. *)

\* What it needs of the two sequences besides their order.
LEMMA Places ==
  ASSUME TypeOK
  PROVE  /\ \A i \in DOMAIN Given : i \in 1..Len(Given) /\ Given[i] \in Messages
         /\ \A i \in DOMAIN Coming : i \in 1..Len(Coming) /\ Coming[i] \in Sendable
         /\ Len(Given) \in Nat /\ Len(Coming) \in Nat
         /\ Given # <<>> => Len(Given) \in DOMAIN Given
         /\ Coming # <<>> => Len(Coming) \in DOMAIN Coming
         /\ \A i \in DOMAIN todo : /\ i \in Nat /\ Len(signals) \in Nat
                                   /\ Len(signals) + i \in DOMAIN Coming /\ Coming[Len(signals) + i] = todo[i]
<1>1. Coming \in Seq(Sendable) /\ Given \in Seq(Messages)
  BY SequenceTypes
<1>2. IsJoined(signals, todo, Coming)
  BY ConcatJoins DEF TypeOK, Coming
<1>3. \A i \in DOMAIN todo : /\ i \in Nat /\ Len(signals) \in Nat
                            /\ Len(signals) + i \in DOMAIN Coming /\ Coming[Len(signals) + i] = todo[i]
  BY <1>2 DEF IsJoined
<1>4. Given # <<>> => Len(Given) \in DOMAIN Given
  BY <1>1, LenProperties, EmptySeq
<1>5. Coming # <<>> => Len(Coming) \in DOMAIN Coming
  BY <1>1, LenProperties, EmptySeq
<1> QED
  BY <1>1, <1>3, <1>4, <1>5, LenProperties

\* An action in hand is the last of those given.
LEMMA InHandGiven ==
  ASSUME TypeOK, inHand # None
  PROVE  /\ inHand \in Messages /\ Given # <<>>
         /\ \E i \in DOMAIN Given : Given[i] = inHand
<1>1. inHand \in Messages /\ actions \in Seq(Messages)
  BY DEF TypeOK
<1>2. Given = Append(actions, inHand)
  BY DEF Given
<1>3. IsPushed(actions, Given, inHand)
  BY <1>1, <1>2, AppendPushes
<1> QED
  BY <1>1, <1>3 DEF IsPushed

\* Steps that leave the sequences alone.
LEMMA RestsOnItsWay ==
  ASSUME TypeOK, LatestOnItsWay, Rests
  PROVE  LatestOnItsWay'
<1>1. UNCHANGED <<Coming, Given, title, opens, asked, seqNumber>>
  BY RestsKeep
<1> SUFFICES ASSUME Undisturbed
             PROVE  /\ NoLoads'
                    /\ (Latest \notin failed /\ profile' # 0) => (Handed \/ Answered \/ Accepted \/ Filling \/ Shown)'
  <2>1. Undisturbed' = Undisturbed /\ Latest' = Latest /\ failed' = failed
    BY <1>1 DEF Undisturbed, Latest, Rests, Activates, Activate, ActivateAgain,
              StartAgain, HandOver, ClearView, Send, Release, vars, history
  <2> QED
    BY <2>1 DEF LatestOnItsWay
<1>2. NoLoads
  BY DEF LatestOnItsWay
<1>3. ui' # "clearing" /\ ~ClearView
  <2>1. HandOver => ui' # "clearing"
    <3>1. HandOver => inHand # None
      BY DEF HandOver, TypeOK
    <3>2. HandOver => inHand \in Messages /\ \E i \in DOMAIN Given : Given[i] = inHand
      BY <3>1, InHandGiven
    <3>3. HandOver => inHand.type # "open"
      BY <1>2, <3>2 DEF NoLoads, Starts
    <3> QED
      BY <3>3 DEF HandOver
  <2>2. ~HandOver /\ ~ClearView => ui' = ui \/ ui' # "clearing"
    BY DEF Rests, Activates, Activate, ActivateAgain, StartAgain, Send, Release, vars
  <2>3. ~ClearView
    BY <1>2 DEF NoLoads, ClearView
  <2> QED
    BY <1>2, <2>1, <2>2, <2>3 DEF NoLoads
<1>4. NoLoads'
  BY <1>1, <1>2, <1>3 DEF NoLoads, Starts
<1>5. ~Finishing
  BY <1>2, Places DEF Finishing, NoLoads
<1>6. profile' = profile
  BY <1>5, SendsOf
  DEF Rests, Activates, Activate, ActivateAgain, StartAgain, HandOver, ClearView, Release, vars, worker
<1>7. Handed => Handed'
  BY <1>1 DEF Handed, AsksFor, Latest
<1>8. Answered => Answered'
  BY <1>1, <1>6 DEF Answered, NoQueries, IsLatest, AsksFor, Latest
<1>9. Accepted => Accepted'
  BY <1>1, <1>6 DEF Accepted, NoQueries, NoResults, IsLatest, AsksFor, Latest
<1>10. Filling => Filling'
  <2> SUFFICES ASSUME Filling
               PROVE  RowsLatest' /\ \A i \in DOMAIN todo' : todo'[i].type = "row" => IsLatest(todo'[i].fill)
    BY <1>1, <1>6 DEF Filling, NoResults, IsLatest, AsksFor, Latest
  <2>1. CASE Send
    <3>1. /\ \A i \in DOMAIN todo' : i + 1 \in DOMAIN todo /\ todo'[i] = todo[i + 1]
          /\ \/ rows' = rows
             \/ \E i \in DOMAIN todo : todo[i].type = "row" /\ rows' = RowsOf(todo[i].fill)
      BY <2>1, SendsOf
    <3>2. \A i \in DOMAIN todo : todo[i].type = "row" => IsLatest(todo[i].fill)
      BY DEF Filling
    <3>3. \A i \in DOMAIN todo : todo[i].type = "row" => IsLatest(RowsOf(todo[i].fill))
      BY <3>2 DEF IsLatest, RowsOf
    <3>4. RowsLatest'
      BY <1>1, <1>6, <3>1, <3>3 DEF Filling, RowsLatest, IsLatest, Latest
    <3> QED
      BY <1>1, <1>6, <3>1, <3>2, <3>4 DEF IsLatest, Latest
  <2>2. CASE ~Send
    <3>1. todo' = todo /\ rows' = rows
      BY <1>3, <2>2 DEF Rests, Activates, Activate, ActivateAgain, StartAgain, HandOver, Release, vars, worker
    <3> QED
      BY <1>1, <1>6, <3>1 DEF Filling, RowsLatest, IsLatest, Latest
  <2> QED
    BY <2>1, <2>2
<1>11. Shown => Shown'
  <2> SUFFICES ASSUME Shown PROVE Shown'
    OBVIOUS
  <2>1. Given = <<>> /\ Coming = <<>> /\ DOMAIN Coming = {}
    BY DEF Shown
  <2>2. ~Send
    <3>1. Send => IsPopped(todo, todo')
      BY SendGives
    <3>2. Send => 1 \in DOMAIN todo
      BY <3>1 DEF IsPopped
    <3> QED
      BY <2>1, <3>2, Places
  <2>3. ~HandOver
    <3>1. HandOver => inHand # None
      BY DEF HandOver, TypeOK
    <3>2. HandOver => Given # <<>>
      BY <3>1, InHandGiven
    <3> QED
      BY <2>1, <3>2
  <2>4. rows' = rows /\ attached' = attached /\ bar' = bar
    BY <1>3, <2>2, <2>3 DEF Rests, Activates, Activate, ActivateAgain, StartAgain, Release, vars, window
  <2> QED
    BY <1>1, <1>6, <2>4 DEF Shown, RowsLatest, IsLatest, Latest
<1> QED
  BY <1>4, <1>6, <1>7, <1>8, <1>9, <1>10, <1>11 DEF LatestOnItsWay

\* A newer file disturbs it.
LEMMA ChooseFileOnItsWay ==
  ASSUME TypeOK, ChooseFile
  PROVE  LatestOnItsWay'
<1>1. asked' = asked /\ opens' = opens + 1 /\ opens \in Nat
  BY DEF ChooseFile, TypeOK
<1>2. Latest > 0 => asked[Latest].opens \in 0..opens
  <2>1. asked \in Seq([opens : 0..opens, raced : BOOLEAN])
    BY DEF TypeOK
  <2>2. Latest > 0 => asked[Latest] \in [opens : 0..opens, raced : BOOLEAN]
    <3>1. ASSUME NEW R, NEW s \in Seq(R), Len(s) > 0 PROVE s[Len(s)] \in R
      BY <3>1
    <3> QED
      BY <2>1, <3>1 DEF Latest
  <2> QED
    BY <2>2
<1> QED
  BY <1>1, <1>2 DEF LatestOnItsWay, Undisturbed, Latest

\* A new query is given to the worker behind everything else.
LEMMA ExecuteQueryOnItsWay ==
  ASSUME TypeOK, FilesInOrder, ButtonOffWhileLoading, ExecuteQuery
  PROVE  LatestOnItsWay'
<1>1. /\ IsPushed(Given, Given', inHand') /\ Coming' = Coming
      /\ inHand'.type = "query" /\ inHand'.query = Len(asked) + 1 /\ inHand'.seq = seqNumber + 1
      /\ seqNumber' = seqNumber + 1 /\ Len(asked') = Len(asked) + 1
      /\ asked'[Len(asked) + 1] = [opens |-> opens, raced |-> title # opens]
      /\ UNCHANGED <<title, opens>>
  BY ExecuteQueryGives
<1> SUFFICES ASSUME Undisturbed'
             PROVE  NoLoads' /\ Handed'
  BY DEF LatestOnItsWay
<1>2. title = opens
  <2>1. ~asked'[Len(asked) + 1].raced
    BY <1>1 DEF Undisturbed, Latest
  <2>2. asked'[Len(asked) + 1].raced = (title # opens)
    BY ExecuteQueryGives
  <2> QED
    BY <2>1, <2>2
<1>3. /\ \A i \in DOMAIN Coming : ~Starts(Coming[i])
      /\ \A i \in DOMAIN Given : ~Starts(Given[i])
  <2>1. title \in Nat /\ opens \in Nat
    BY DEF TypeOK
  <2> QED
    BY <1>2, <2>1, StartsNameFiles DEF FilesInOrder
<1>4. \A i \in DOMAIN Coming : Coming[i].type # "finished"
  <2>1. button
    BY DEF ExecuteQuery
  <2> QED
    BY <1>3, <2>1 DEF ButtonOffWhileLoading
<1>5. \A i \in DOMAIN Given' : ~Starts(Given'[i])
  BY <1>1, <1>3 DEF IsPushed, Starts
<1>6. NoLoads'
  BY <1>1, <1>2, <1>3, <1>4, <1>5 DEF NoLoads, Starts, ExecuteQuery
<1>7. Handed'
  <2>1. Len(Given') \in DOMAIN Given' /\ Given'[Len(Given')] = inHand' /\ AsksFor(inHand')
    BY <1>1 DEF IsPushed, AsksFor
  <2>2. \A m \in DOMAIN Given' : ~(m > Len(Given'))
    <3>1. \A m \in DOMAIN Given' : m \in DOMAIN Given \/ m = Len(Given')
      BY <1>1 DEF IsPushed
    <3>2. \A m \in DOMAIN Given : m \in Nat /\ m < Len(Given') /\ Len(Given') \in Nat
      BY <1>1 DEF IsPushed
    <3> QED
      BY <3>1, <3>2
  <2> QED
    BY <1>1, <2>1, <2>2 DEF Handed, AsksFor, Latest
<1> QED
  BY <1>6, <1>7

\* The worker answers it, and fills in the result that was accepted.
LEMMA TakesOnItsWay ==
  ASSUME TypeOK, LatestOnItsWay, Takes
  PROVE  LatestOnItsWay'
<1>1. /\ UNCHANGED <<title, opens, asked, seqNumber, profile>>
      /\ ~Finishing
  BY TakesFaithfully, TakesOf
<1>2. /\ \A i \in DOMAIN Given' : i \in Nat /\ i + 1 \in DOMAIN Given /\ 1 < i + 1 /\ Given'[i] = Given[i + 1]
      /\ \A i \in DOMAIN Given : i \in Nat \ {0} /\ (i # 1 => i - 1 \in DOMAIN Given' /\ Given'[i - 1] = Given[i])
      /\ 1 \in DOMAIN Given
      /\ Len(Given) = Len(Given') + 1 /\ Len(Given') \in Nat
      /\ Given' # <<>> => Len(Given') \in DOMAIN Given'
      /\ Given' = <<>> => Len(Given) = 1
  BY TakesFaithfully DEF IsPopped
<1>3. /\ Len(Coming) \in Nat
      /\ \A i \in DOMAIN Coming : i \in Nat \ {0} /\ i <= Len(Coming) /\ i \in DOMAIN Coming' /\ Coming'[i] = Coming[i]
  BY ComingStays
<1> SUFFICES ASSUME Undisturbed
             PROVE  /\ NoLoads'
                    /\ (Latest \notin failed' /\ profile # 0) => (Handed \/ Answered \/ Accepted \/ Filling \/ Shown)'
  BY <1>1 DEF LatestOnItsWay, Undisturbed, Latest
<1>4. NoLoads
  BY DEF LatestOnItsWay
<1>5. (~TakeOpen /\ TakeQuery) \/ TakeFill
  BY <1>2, <1>4, TakesOf DEF NoLoads, Takes
<1>6. \A i \in DOMAIN Coming' : ~Starts(Coming'[i]) /\ Coming'[i].type # "finished"
  <2>1. ~Finishing'
    BY <1>5, TakesOf
  <2>2. \A i \in DOMAIN todo' : todo'[i].type # "finished"
    BY <2>1 DEF Finishing
  <2>3. \A i \in DOMAIN Coming' : i \notin DOMAIN Coming => Coming'[i].type # "finished"
    BY <2>2, JoinedBehind
  <2>4. \A i \in DOMAIN Coming' : i \notin DOMAIN Coming => (Starts(Coming'[i]) => Starts(Given[1]))
    BY NewComing
  <2> QED
    BY <1>2, <1>3, <1>4, <2>3, <2>4 DEF NoLoads
<1>7. NoLoads'
  <2>1. ui' = ui
    BY DEF Takes, TakeOpen, TakeQuery, TakeFill, Take
  <2> QED
    BY <1>1, <1>2, <1>4, <1>6, <2>1 DEF NoLoads, Starts
<1> SUFFICES ASSUME Latest \notin failed', profile # 0
             PROVE  (Handed \/ Answered \/ Accepted \/ Filling \/ Shown)'
  BY <1>7
<1>8. Handed \/ Answered \/ Accepted \/ Filling \/ Shown
  <2>1. failed \subseteq failed'
    BY DEF Takes, TakeOpen, TakeQuery, TakeFill
  <2> QED
    BY <2>1 DEF LatestOnItsWay
<1>9. ASSUME Handed PROVE (Handed \/ Answered)'
  <2>1. PICK k \in DOMAIN Given : /\ AsksFor(Given[k]) /\ Given[k].query = Latest /\ Given[k].seq = seqNumber
                                  /\ \A m \in DOMAIN Given : m > k => ~AsksFor(Given[m])
    BY <1>9 DEF Handed
  <2>2. CASE k # 1
    <3>1. /\ k - 1 \in DOMAIN Given' /\ Given'[k - 1] = Given[k]
          /\ \A m \in DOMAIN Given' : m > k - 1 => ~AsksFor(Given'[m])
      BY <1>2, <2>1, <2>2
    <3>2. Handed'
      BY <1>1, <2>1, <3>1 DEF Handed, AsksFor, Latest
    <3> QED
      BY <3>2
  <2>3. CASE k = 1
    <3>1. TakeQuery /\ Given[1] = Head(actions)
      <4>1. ~TakeFill
        BY <2>1, <2>3, TakesOf DEF AsksFor
      <4>2. Given[1] = Head(actions)
        BY TakesHead
      <4> QED
        BY <1>5, <4>1, <4>2
    <3>2. todo' = <<ResultSignal(Given[1])>>
      BY <2>1, <2>3, <3>1 DEF TakeQuery
    <3>3. /\ 1 \in DOMAIN todo' /\ todo'[1].type = "result"
          /\ todo'[1].query = Latest /\ todo'[1].seq = seqNumber /\ todo'[1].of = profile
          /\ \A i \in DOMAIN todo' : i = 1
      BY <2>1, <2>3, <3>2 DEF ResultSignal
    <3>4. Len(Coming) + 1 \in DOMAIN Coming' /\ Coming'[Len(Coming) + 1] = todo'[1]
      BY <3>3, ComingStays
    <3>5. \A m \in DOMAIN Coming' : ~(m > Len(Coming) + 1)
      <4>1. \A m \in DOMAIN Coming' : m \notin DOMAIN Coming => m \in Nat /\ m - Len(Coming) = 1
        BY <3>3, JoinedBehind
      <4> QED
        BY <1>3, <4>1
    <3>6. \A i \in DOMAIN Given' : ~AsksFor(Given'[i])
      BY <1>2, <2>1, <2>3
    <3>7. Answered'
      BY <1>1, <3>3, <3>4, <3>5, <3>6 DEF Answered, NoQueries, IsLatest, AsksFor, Latest
    <3> QED
      BY <3>7
  <2> QED
    BY <2>2, <2>3
<1>10. ASSUME NoQueries PROVE /\ NoQueries'
                              /\ TakeFill /\ Given[1].type = "fill"
                              /\ \A i \in DOMAIN Coming' : i \notin DOMAIN Coming => ~AsksFor(Coming'[i])
  <2>1. NoQueries'
    BY <1>2, <1>10 DEF NoQueries, AsksFor
  <2>2. ~TakeQuery
    <3>1. TakeQuery => AsksFor(Given[1])
      BY TakesHead DEF TakeQuery, Take, AsksFor
    <3> QED
      BY <1>2, <1>10, <3>1 DEF NoQueries
  <2>3. TakeFill /\ Given[1].type = "fill"
    BY <1>5, <2>2, TakesOf
  <2>4. \A i \in DOMAIN Coming' : i \notin DOMAIN Coming => (AsksFor(Coming'[i]) => AsksFor(Given[1]))
    BY NewComing
  <2> QED
    BY <1>2, <1>10, <2>1, <2>3, <2>4 DEF NoQueries
<1>11. ASSUME Answered PROVE Answered'
  <2>1. PICK k \in DOMAIN Coming : /\ AsksFor(Coming[k]) /\ IsLatest(Coming[k]) /\ Coming[k].seq = seqNumber
                                   /\ \A m \in DOMAIN Coming : m > k => ~AsksFor(Coming[m])
    BY <1>11 DEF Answered
  <2>2. /\ k \in DOMAIN Coming' /\ Coming'[k] = Coming[k]
        /\ \A m \in DOMAIN Coming' : m > k => ~AsksFor(Coming'[m])
    BY <1>3, <1>10, <1>11, <2>1 DEF Answered
  <2>3. NoQueries'
    BY <1>10, <1>11 DEF Answered
  <2> QED
    BY <1>1, <2>1, <2>2, <2>3 DEF Answered, IsLatest, AsksFor, Latest
<1>12. ASSUME Accepted PROVE (Accepted \/ Filling)'
  <2>1. NoQueries' /\ NoResults'
    <3>1. \A i \in DOMAIN Coming' : ~AsksFor(Coming'[i])
      BY <1>3, <1>10, <1>12 DEF Accepted, NoResults
    <3> QED
      BY <1>10, <1>12, <3>1 DEF Accepted, NoResults, AsksFor
  <2>2. CASE Given' # <<>>
    <3>1. Given'[Len(Given')] = Given[Len(Given)]
      BY <1>2, <2>2
    <3>2. Accepted'
      BY <1>1, <1>12, <2>1, <2>2, <3>1 DEF Accepted, IsLatest, Latest
    <3> QED
      BY <3>2
  <2>3. CASE Given' = <<>>
    <3>1. IsLatest(Given[1])
      BY <1>2, <1>12, <2>3 DEF Accepted
    <3>2. /\ TakeFill /\ Len(todo') \in DOMAIN todo'
          /\ todo'[Len(todo')].type = "filled" /\ todo'[Len(todo')].fill = Given[1]
          /\ \A i \in DOMAIN todo' : todo'[i].type = "row" => todo'[i].fill = Given[1]
          /\ rows' = IF Rows = 0 THEN NoRows ELSE RowsOf(Given[1])
      <4>1. TakeFill
        BY <1>10, <1>12 DEF Accepted
      <4> QED
        BY <4>1, TakesOf
    <3>3. RowsLatest'
      BY <1>1, <3>1, <3>2 DEF RowsLatest, IsLatest, RowsOf, Latest
    <3>4. Coming' # <<>> /\ Coming'[Len(Coming')] = todo'[Len(todo')]
      <4>1. IsJoined(Coming, todo', Coming')
        BY TakesFaithfully
      <4>2. Coming' # <<>> /\ Len(Coming') = Len(Coming) + Len(todo')
        BY <3>2, <4>1 DEF IsJoined
      <4> QED
        BY <3>2, <4>1, <4>2 DEF IsJoined
    <3>5. Filling'
      BY <1>1, <2>1, <2>3, <3>1, <3>2, <3>3, <3>4 DEF Filling, IsLatest, Latest
    <3> QED
      BY <3>5
  <2> QED
    BY <2>2, <2>3
<1>13. ~Filling /\ ~Shown
  <2>1. Given # <<>>
    BY <1>2
  <2> QED
    BY <2>1 DEF Filling, Shown
<1> QED
  BY <1>8, <1>9, <1>11, <1>12, <1>13

\* The window accepts its result, and shows the rows when they are there.
LEMMA ProcessesOnItsWay ==
  ASSUME TypeOK, LatestOnItsWay, Processes
  PROVE  LatestOnItsWay'
<1>1. /\ UNCHANGED <<opens, asked, failed, profile, todo, rows>>
      /\ ui = "loop" /\ ui' \in {"loop", "handing"}
  <2>1. UNCHANGED <<failed, ui>> \/ (UNCHANGED failed /\ ui' = "handing")
    BY DEF Processes, OnStartLoad, OnProgress, OnStopLoad, OnQueryResult, OnQueryFailed, OnTreeviewFilled,
           Process, history
  <2>2. ui = "loop"
    BY DEF Processes, OnStartLoad, OnProgress, OnStopLoad, OnQueryResult, OnQueryFailed, OnTreeviewFilled, Process
  <2> QED
    BY <2>1, <2>2, ProcessesFirst, ProcessesKeep
<1>2. /\ 1 \in DOMAIN Coming
      /\ \A i \in DOMAIN Coming' : i \in Nat /\ i + 1 \in DOMAIN Coming /\ 1 < i + 1 /\ Coming'[i] = Coming[i + 1]
      /\ \A i \in DOMAIN Coming :
           /\ i \in Nat \ {0}
           /\ i # 1 => i - 1 \in DOMAIN Coming' /\ Coming'[i - 1] = Coming[i] /\ i - 1 + 1 = i
  BY ComingMovesUp
<1> SUFFICES ASSUME Undisturbed
             PROVE  /\ NoLoads'
                    /\ (Latest \notin failed /\ profile # 0) => (Handed \/ Answered \/ Accepted \/ Filling \/ Shown)'
  BY <1>1 DEF LatestOnItsWay, Undisturbed, Latest
<1>3. NoLoads
  BY DEF LatestOnItsWay
<1>4. /\ UNCHANGED <<title, seqNumber>> /\ ~OnStartLoad /\ ~OnStopLoad
  <2>1. ~Starts(Coming[1]) /\ Coming[1].type # "finished"
    BY <1>2, <1>3 DEF NoLoads
  <2>2. OnStopLoad => Coming[1].type = "finished"
    BY ProcessGives DEF OnStopLoad
  <2> QED
    BY <2>1, <2>2, ProcessesFirst DEF Starts
<1>5. \/ ~(Coming[1].type = "result" /\ Coming[1].seq = seqNumber) /\ Given' = Given
      \/ /\ Coming[1].type = "result"
         /\ IsPushed(Given, Given', inHand')
         /\ inHand' = [type |-> "fill", query |-> Coming[1].query, of |-> Coming[1].of, late |-> title # opens]
  BY ProcessesFirst
<1>6. \A i \in DOMAIN Given' : \/ i \in DOMAIN Given /\ Given'[i] = Given[i]
                               \/ ~Starts(Given'[i]) /\ ~AsksFor(Given'[i])
  BY <1>5 DEF IsPushed, Starts, AsksFor
<1>7. NoLoads'
  <2>1. \A i \in DOMAIN Coming' : ~Starts(Coming'[i]) /\ Coming'[i].type # "finished"
    BY <1>2, <1>3 DEF NoLoads
  <2>2. \A i \in DOMAIN Given' : ~Starts(Given'[i])
    BY <1>3, <1>6 DEF NoLoads
  <2> QED
    BY <1>1, <1>3, <1>4, <2>1, <2>2 DEF NoLoads, Starts
<1> SUFFICES ASSUME Latest \notin failed, profile # 0
             PROVE  (Handed \/ Answered \/ Accepted \/ Filling \/ Shown)'
  BY <1>7
<1>8. Handed \/ Answered \/ Accepted \/ Filling \/ Shown
  BY DEF LatestOnItsWay
<1>9. ASSUME Handed PROVE Handed'
  <2>1. PICK k \in DOMAIN Given : /\ AsksFor(Given[k]) /\ Given[k].query = Latest /\ Given[k].seq = seqNumber
                                  /\ \A m \in DOMAIN Given : m > k => ~AsksFor(Given[m])
    BY <1>9 DEF Handed
  <2>2. k \in DOMAIN Given' /\ Given'[k] = Given[k]
    BY <1>5 DEF IsPushed
  <2>3. \A m \in DOMAIN Given' : m > k => ~AsksFor(Given'[m])
    BY <1>6, <2>1
  <2> QED
    BY <1>1, <1>4, <2>1, <2>2, <2>3 DEF Handed, AsksFor, Latest
<1>10. NoQueries => NoQueries'
  BY <1>6 DEF NoQueries, AsksFor
<1>11. ASSUME Answered PROVE (Answered \/ Accepted)'
  <2>1. PICK k \in DOMAIN Coming : /\ AsksFor(Coming[k]) /\ IsLatest(Coming[k]) /\ Coming[k].seq = seqNumber
                                   /\ \A m \in DOMAIN Coming : m > k => ~AsksFor(Coming[m])
    BY <1>11 DEF Answered
  <2>2. NoQueries'
    BY <1>10, <1>11 DEF Answered
  <2>3. CASE k # 1
    <3>1. /\ k - 1 \in DOMAIN Coming' /\ Coming'[k - 1] = Coming[k]
          /\ \A m \in DOMAIN Coming' : m > k - 1 => ~AsksFor(Coming'[m])
      BY <1>2, <2>1, <2>3
    <3>2. Answered'
      BY <1>1, <1>4, <2>1, <2>2, <3>1 DEF Answered, IsLatest, AsksFor, Latest
    <3> QED
      BY <3>2
  <2>4. CASE k = 1
    <3>1. Coming[1].type = "result" /\ Coming[1].seq = seqNumber
      <4>1. Coming[1] \in Sendable
        BY ProcessesFirst
      <4> QED
        BY <2>1, <2>4, <4>1, SignalTypes DEF AsksFor
    <3>2. /\ IsPushed(Given, Given', inHand')
          /\ inHand'.type = "fill" /\ inHand'.query = Coming[1].query /\ inHand'.of = Coming[1].of
      BY <1>5, <3>1
    <3>3. Given' # <<>> /\ Given'[Len(Given')] = inHand'
      BY <3>2 DEF IsPushed
    <3>4. NoResults'
      <4>1. \A i \in DOMAIN Coming' : ~AsksFor(Coming'[i])
        BY <1>2, <2>1, <2>4
      <4> QED
        BY <4>1 DEF NoResults, AsksFor
    <3>5. Accepted'
      BY <1>1, <2>1, <2>2, <2>4, <3>2, <3>3, <3>4 DEF Accepted, IsLatest, Latest
    <3> QED
      BY <3>5
  <2> QED
    BY <2>3, <2>4
<1>12. ASSUME NoResults PROVE NoResults' /\ Given' = Given
  <2>1. \A i \in DOMAIN Coming' : ~AsksFor(Coming'[i])
    BY <1>2, <1>12 DEF NoResults
  <2>2. Coming[1].type # "result"
    BY <1>2, <1>12 DEF NoResults, AsksFor
  <2> QED
    BY <1>5, <2>1, <2>2 DEF NoResults, AsksFor
<1>13. ASSUME Accepted PROVE Accepted'
  <2>1. NoQueries' /\ NoResults' /\ Given' = Given
    BY <1>10, <1>12, <1>13 DEF Accepted
  <2> QED
    BY <1>1, <1>13, <2>1 DEF Accepted, IsLatest, Latest
<1>14. ASSUME Filling PROVE (Filling \/ Shown)'
  <2>1. /\ NoResults' /\ Given' = Given /\ Given = <<>>
        /\ Coming[Len(Coming)].type = "filled" /\ IsLatest(Coming[Len(Coming)].fill)
    BY <1>12, <1>14 DEF Filling
  <2>2. RowsLatest' /\ (\A i \in DOMAIN todo : todo[i].type = "row" => IsLatest(todo[i].fill))'
    BY <1>1, <1>14 DEF Filling, RowsLatest, IsLatest, Latest
  <2>3. /\ Len(Coming) = Len(Coming') + 1 /\ Len(Coming') \in Nat
        /\ Coming' # <<>> => Len(Coming') \in DOMAIN Coming'
        /\ Coming' = <<>> => Len(Coming) = 1
    BY ProcessesFirst DEF IsPopped
  <2>4. CASE Coming' # <<>>
    <3>1. Coming'[Len(Coming')] = Coming[Len(Coming)]
      BY <1>2, <2>3, <2>4
    <3>2. Filling'
      BY <1>1, <2>1, <2>2, <2>4, <3>1 DEF Filling, IsLatest, Latest
    <3> QED
      BY <3>2
  <2>5. CASE Coming' = <<>>
    <3>1. Coming[1].type = "filled"
      BY <2>1, <2>3, <2>5
    <3>2. attached' /\ ~bar'
      <4>1. OnTreeviewFilled
        <5>1. \A type : Process(type) => type = "filled"
          BY <3>1, ProcessGives
        <5> QED
          BY <5>1 DEF Processes, OnStartLoad, OnProgress, OnStopLoad, OnQueryResult, OnQueryFailed
      <4> QED
        BY <4>1 DEF OnTreeviewFilled
    <3>3. Shown'
      BY <2>1, <2>2, <2>5, <3>2 DEF Shown
    <3> QED
      BY <3>3
  <2> QED
    BY <2>4, <2>5
<1>15. ~Shown
  <2>1. Coming # <<>>
    BY <1>2
  <2> QED
    BY <2>1 DEF Shown
<1> QED
  BY <1>8, <1>9, <1>11, <1>13, <1>14, <1>15

\* The way of the latest query, whatever happens.
LEMMA LatestOnItsWayStep ==
  ASSUME TypeOK, FilesInOrder, ButtonOffWhileLoading, LatestOnItsWay, [Next]_vars
  PROVE  LatestOnItsWay'
BY StepKinds, RestsOnItsWay, ChooseFileOnItsWay, ExecuteQueryOnItsWay, TakesOnItsWay, ProcessesOnItsWay

-------------------------------------------------------------------------------
(* The theorems. *)

\* Before anything has happened nothing is given and nothing is coming.
LEMMA InitInv == Init => IInv
<1> SUFFICES ASSUME Init PROVE IInv
  OBVIOUS
<1>1. Coming = <<>> /\ Given = <<>> /\ Len(asked) = 0
  BY DEF Init, Coming, Given
<1>2. TypeOK
  <2>1. OneAction
    BY DEF Init, OneAction
  <2>2. asked \in Seq([opens : 0..opens, raced : BOOLEAN]) /\ Len(asked) = 0
    BY DEF Init
  <2>3. inHand \in Messages \cup {None} /\ (ui = "handing" <=> inHand # None)
    BY DEF Init
  <2>4. actions \in Seq(Messages) /\ todo \in Seq(Sendable) /\ signals \in Seq(Sendable)
    BY DEF Init
  <2>5. /\ active = FALSE /\ ui = "loop" /\ actions = <<>> /\ holding = FALSE /\ todo = <<>> /\ signals = <<>>
        /\ profile = 0 /\ seqNumber = 0 /\ title = 0 /\ opens = 0 /\ failed = {}
        /\ bar = FALSE /\ button = FALSE /\ attached = FALSE
    BY DEF Init
  <2>6. MaxOpens \in Nat /\ MaxQueries \in Nat
    OBVIOUS
  <2>7. profile \in 0..MaxOpens /\ title \in 0..opens /\ opens \in 0..MaxOpens /\ seqNumber \in Nat
    BY <2>5, <2>6
  <2>8. seqNumber <= Len(asked) /\ Len(asked) <= MaxQueries
    BY <2>2, <2>5, <2>6
  <2>9. /\ active \in BOOLEAN /\ holding \in BOOLEAN
        /\ bar \in BOOLEAN /\ button \in BOOLEAN /\ attached \in BOOLEAN
    BY <2>5
  <2>10. failed \subseteq Queries /\ (todo # <<>> => holding) /\ ui \in {"loop", "handing", "clearing", "activating", "ended"}
    BY <2>5
  <2>11. active \/ (ui = "loop" /\ ~button /\ ~holding /\ actions = <<>> /\ signals = <<>>)
    BY <2>5
  <2> QED
    BY <2>1, <2>2, <2>3, <2>4, <2>7, <2>8, <2>9, <2>10, <2>11 DEF TypeOK
<1>3. FilesInOrder /\ RacedBehindStarts /\ Numbered /\ ResultsCurrent /\ ButtonOffWhileLoading
  BY <1>1 DEF FilesInOrder, RacedBehindStarts, Numbered, ResultsCurrent, ButtonOffWhileLoading
<1>4. AcceptsLatest
  BY MessageTypes DEF Init, AcceptsLatest
<1>5. FillsCurrent
  BY <1>1 DEF Init, FillsCurrent
<1>6. OldRowsHidden
  BY DEF Init, OldRowsHidden
<1>7. LatestOnItsWay
  BY <1>1 DEF LatestOnItsWay, Undisturbed, Latest
<1> QED
  BY <1>2, <1>3, <1>4, <1>5, <1>6, <1>7 DEF IInv

\* The invariants are kept by every step of the window and of the worker.
THEOREM Invariance == Spec => []IInv
<1>1. Init => IInv
  BY InitInv
<1>2. IInv /\ [Next]_vars => IInv'
  <2> SUFFICES ASSUME IInv, [Next]_vars PROVE IInv'
    OBVIOUS
  <2>1. /\ TypeOK /\ FilesInOrder /\ RacedBehindStarts /\ Numbered /\ AcceptsLatest
        /\ ResultsCurrent /\ FillsCurrent /\ ButtonOffWhileLoading /\ OldRowsHidden
        /\ LatestOnItsWay
    BY DEF IInv
  <2>2. TypeOK' /\ FilesInOrder' /\ RacedBehindStarts' /\ Numbered' /\ AcceptsLatest'
    BY <2>1, TypeStep, FilesInOrderStep, RacedBehindStartsStep, NumberedStep, AcceptsLatestStep
  <2>3. ResultsCurrent' /\ FillsCurrent'
    BY <2>1, ResultsCurrentStep, FillsCurrentStep
  <2>4. ButtonOffWhileLoading' /\ OldRowsHidden' /\ LatestOnItsWay'
    BY <2>1, ButtonOffWhileLoadingStep, OldRowsHiddenStep, LatestOnItsWayStep
  <2> QED
    BY <2>2, <2>3, <2>4 DEF IInv
<1> QED
  BY <1>1, <1>2, PTL DEF Spec

\* The kinds of signals and actions are as declared, what the worker sends is of one
\* action, and it sends nothing without the mutex.
THEOREM TypeCorrect == Spec => []TypeOK
<1>1. IInv => TypeOK
  BY DEF IInv
<1> QED
  BY <1>1, Invariance, PTL

\* on_query_result lets through the answer to the latest query and no other, unless that
\* query was asked between choosing a file and the start of its load.
THEOREM LatestAccepted == Spec => []AcceptsLatest
<1>1. IInv => AcceptsLatest
  BY DEF IInv
<1> QED
  BY <1>1, Invariance, PTL

\* Rows that the view shows after the load of the newest file are of the profile in
\* HprofStorage, unless they were accepted after that file had been chosen.
THEOREM RowsShownAreCurrent == Spec => []ShownRowsCurrent
<1>1. IInv => ShownRowsCurrent
  <2> SUFFICES ASSUME IInv, attached, button, title = opens, rows # NoRows, ~rows.late
               PROVE  rows.of = profile
    BY DEF ShownRowsCurrent
  <2>1. \A i \in DOMAIN Coming : ~Starts(Coming[i])
    <3>1. title \in Nat /\ opens \in Nat /\ TypeOK /\ FilesInOrder
      BY DEF IInv, TypeOK
    <3> QED
      BY <3>1, StartsNameFiles DEF FilesInOrder
  <2>2. \A i \in DOMAIN Coming : Coming[i].type # "finished"
    BY <2>1 DEF IInv, ButtonOffWhileLoading
  <2> QED
    BY <2>2 DEF IInv, OldRowsHidden
<1> QED
  BY <1>1, Invariance, PTL

\* At rest the view shows the result of the latest query, and the bar is gone.
THEOREM LatestShownAtRest == Spec => []QuietShowsLatest
<1>1. IInv => QuietShowsLatest
  <2> SUFFICES ASSUME IInv, Quiet, Len(asked) > 0, profile # 0,
                      asked[Len(asked)].opens = opens, ~asked[Len(asked)].raced, Len(asked) \notin failed
               PROVE  attached /\ ~bar /\ (Rows > 0 => rows.query = Len(asked) /\ rows.of = profile)
    BY DEF QuietShowsLatest
  <2>1. Given = <<>> /\ Coming = <<>>
    <3>1. inHand = None /\ todo = <<>>
      BY DEF IInv, TypeOK, Quiet
    <3>2. actions = <<>> /\ signals = <<>>
      BY DEF Quiet
    <3> QED
      BY <3>1, <3>2 DEF Given, Coming
  <2>2. DOMAIN Given = {} /\ DOMAIN Coming = {}
    BY <2>1
  <2>3. ~Handed /\ ~Answered /\ ~Accepted /\ ~Filling
    BY <2>1, <2>2 DEF Handed, Answered, Accepted, Filling
  <2>4. Shown
    BY <2>3 DEF IInv, LatestOnItsWay, Undisturbed, Latest
  <2> QED
    BY <2>4 DEF Shown, RowsLatest, IsLatest, Latest
<1> QED
  BY <1>1, Invariance, PTL

\* Window and worker use the dispatcher as ActionQueue says: each action is handled once,
\* in the order in which it was handed over, and none before the dispatcher is started.
THEOREM UsesActionQueue == Spec => Queue!Safe
<1> USE DEF Queue!vars, Queue!Next, Queue!Put, Queue!Handle, Queue!Open, Queue!OpenServed,
           Queue!Close
<1>1. Init => Queue!Init
  BY DEF Init, Queue!Init
<1>2. ASSUME IInv, [Next]_vars PROVE [Queue!Next]_(Queue!vars)
  <2>0. TypeOK
    BY <1>2 DEF IInv
  <2>1. CASE Activates
    BY <2>0, <2>1 DEF Activates, Activate, ActivateAgain, StartAgain, TypeOK, worker
  <2>2. CASE HandOver
    <3>1. active /\ inHand \in Messages
      BY <2>0, <2>2 DEF TypeOK, HandOver
    <3> QED
      BY <2>2, <3>1 DEF HandOver
  <2>3. CASE Takes
    BY <2>3 DEF Takes, TakeOpen, TakeQuery, TakeFill, Take
  <2>4. CASE ClearView \/ Send \/ Release \/ UNCHANGED vars \/ ChooseFile \/ ExecuteQuery
    BY <2>4 DEF ClearView, Send, Release, vars, ChooseFile, ExecuteQuery, worker
  <2>5. CASE Processes
    BY <2>5
    DEF Processes, OnStartLoad, OnProgress, OnStopLoad, OnQueryResult, OnQueryFailed, OnTreeviewFilled,
        Process, worker
  <2> QED
    BY <1>2, <2>1, <2>2, <2>3, <2>4, <2>5, StepKinds DEF Rests
<1>3. IInv /\ [Next]_vars => [Queue!Next]_(Queue!vars)
  BY <1>2
<1> QED
  BY Invariance, <1>1, <1>3, PTL DEF Spec, Queue!Safe
===============================================================================
