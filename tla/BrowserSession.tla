---------------------------- MODULE BrowserSession ----------------------------
(***************************************************************************)
(* A session of the browser: the window on the thread of GTK's main loop    *)
(* (ui/src/main_window.cxx), and the two storages on the dispatcher's       *)
(* worker thread (hprof_storage.cxx, treeview_storage.cxx).  Actions go     *)
(* down through the dispatcher, which is the ActionQueue that               *)
(* EventsDispatcher implements; signals come up through the queues of       *)
(* SignalsHelper and a pipe.                                                *)
(*                                                                          *)
(* The dispatcher's mutex is what ties the two threads together: the worker *)
(* keeps it for as long as it finds actions, and every emit() of the window *)
(* waits for it.  Glib::Dispatcher writes to one pipe per receiving thread, *)
(* in which the signals of both storages stand in the order they were sent; *)
(* a write to a full pipe waits.                                            *)
(***************************************************************************)
EXTENDS Integers, Sequences

CONSTANTS MaxOpens,      \* bound: files chosen in a session
          MaxQueries,    \* bound: queries of a session
          Rows,          \* rows a query finds, each with a progress signal
          LoadReports,   \* progress signals of a load
          PipeRoom       \* signals the pipe holds

ASSUME BoundsAssumption == {MaxOpens, MaxQueries, Rows, LoadReports} \subseteq Nat
ASSUME PipeAssumption == PipeRoom \in Nat \ {0}

VARIABLES
  active,    \* HprofBrowserApplication::on_activate has run
  ui,        \* the window's thread: in the main "loop", "handing" an action to
             \* the dispatcher, "clearing" the view after it chose a file, or
             \* "activating" again; "ended" is the end of the process
  inHand,    \* the action it hands over
  actions,   \* EventsDisparcherImpl::_actions
  holding,   \* the worker has the dispatcher's mutex
  todo,      \* what the worker has still to send for the action it handles
  signals,   \* sent and not processed yet
  profile,   \* HprofStorage::_heap_profile: the file it was read from, or 0
  seqNumber, \* MainWindow::_query_seq_number
  bar,       \* is _progress_bar shown
  button,    \* is _execute_query_button sensitive
  attached,  \* does _results_view have _result_model_store
  rows,      \* whose result _result_model_store holds
  title,     \* the file _header_bar names, or 0
  opens,     \* files chosen; the n-th one is called n
  asked,     \* history: the queries, in order
  failed,    \* history: the queries that did not parse
  handled    \* history: the actions the worker took

window == <<seqNumber, bar, button, attached, title>>
history == <<opens, asked, failed>>
worker == <<actions, holding, todo, handled, profile>>
vars == <<active, ui, inHand, worker, signals, window, rows, history>>

\* asked[q] keeps how many files were chosen at the time, and whether the load
\* of the last of them was still to be signalled.
Queries == 1..MaxQueries
Files == 1..MaxOpens
None == [type |-> "none"]
NoRows == [query |-> 0, of |-> 0, late |-> FALSE]
RowsOf(fill) == [query |-> fill.query, of |-> fill.of, late |-> fill.late]

\* A result, and what follows from it, carries the query, the profile it comes
\* from and, once accepted, whether a newer file had been chosen by then.
Opens == [type : {"open"}, file : Files]
Asks == [type : {"query"}, query : Queries, seq : Queries]
Fills == [type : {"fill"}, query : Queries, of : Files, late : BOOLEAN]
Messages == Opens \cup Asks \cup Fills

Times(n, x) == [i \in 1..n |-> x]

\* what HprofStorage::load_hprof, execute_query and TreeViewStorage send
LoadSignals(file, loaded) ==
  <<[type |-> "started", file |-> file]>>
    \o Times(LoadReports, [type |-> "progress"])
    \o <<[type |-> "finished", file |-> file, loaded |-> loaded]>>
ResultSignal(a) == [type |-> "result", query |-> a.query, seq |-> a.seq, of |-> profile]
FailedSignal(a) == [type |-> "failed", seq |-> a.seq]
FillSignals(a) == Times(Rows, [type |-> "row", fill |-> a]) \o <<[type |-> "filled", fill |-> a]>>

-------------------------------------------------------------------------------
Init == /\ active = FALSE
        /\ ui = "loop" /\ inHand = None
        /\ actions = <<>> /\ holding = FALSE /\ todo = <<>> /\ handled = <<>>
        /\ signals = <<>>
        /\ profile = 0
        /\ seqNumber = 0 /\ bar = FALSE /\ button = FALSE /\ attached = FALSE
        /\ title = 0
        /\ rows = NoRows
        /\ opens = 0 /\ asked = <<>> /\ failed = {}

\* on_activate, the first time: the storages are subscribed, the dispatcher is started
Activate == /\ ~active
            /\ active' = TRUE
            /\ UNCHANGED <<ui, inHand, worker, signals, window, rows, history>>

\* The program is started once more: GTK activates the one that runs.  The storages
\* are subscribed already, and the dispatcher's start() ends the process, but each of
\* the three waits for the mutex before.
ActivateAgain == /\ active /\ ui = "loop"
                 /\ ui' = "activating"
                 /\ UNCHANGED <<active, inHand, worker, signals, window, rows, history>>

StartAgain == /\ ui = "activating"
              /\ ~holding
              /\ ui' = "ended"
              /\ UNCHANGED <<active, inHand, worker, signals, window, rows, history>>

\* The user chooses a file in the dialog (on_open_hprof_file).
ChooseFile == /\ active /\ ui = "loop"
              /\ opens < MaxOpens
              /\ opens' = opens + 1
              /\ ui' = "handing"
              /\ inHand' = [type |-> "open", file |-> opens + 1]
              /\ UNCHANGED <<active, worker, signals, window, rows, asked, failed>>

\* The user presses the button (on_execute_query), the text not being empty.
ExecuteQuery ==
  /\ ui = "loop" /\ button
  /\ Len(asked) < MaxQueries
  /\ seqNumber' = seqNumber + 1
  /\ asked' = Append(asked, [opens |-> opens, raced |-> title # opens])
  /\ ui' = "handing"
  /\ inHand' = [type |-> "query", query |-> Len(asked) + 1, seq |-> seqNumber + 1]
  /\ UNCHANGED <<active, worker, signals, bar, button, attached, title, rows, opens, failed>>

\* faults: the action is pushed before the others; it stays with the caller, too
HandOverFirst ==
  /\ ui = "handing"
  /\ ~holding
  /\ actions' = <<inHand>> \o actions
  /\ ui' = IF inHand.type = "open" THEN "clearing" ELSE "loop"
  /\ bar' = (bar \/ inHand.type = "query")
  /\ inHand' = None
  /\ UNCHANGED <<active, holding, todo, handled, profile, signals, seqNumber, button, attached,
                 title, rows, history>>
\* EventsDispatcher::emit gets the mutex; a query shows the bar, a file is
\* followed by clear_query_vew_state, without the mutex
HandOver ==
  /\ ui = "handing"
  /\ ~holding
  /\ actions' = Append(actions, inHand)
  /\ ui' = IF inHand.type = "open" THEN "clearing" ELSE "loop"
  /\ bar' = (bar \/ inHand.type = "query")
  /\ inHand' = None
  /\ UNCHANGED <<active, holding, todo, handled, profile, signals, seqNumber, button, attached,
                 title, rows, history>>

ClearView == /\ ui = "clearing"
             /\ attached' = FALSE
             /\ rows' = NoRows
             /\ ui' = "loop"
             /\ UNCHANGED <<active, inHand, worker, signals, seqNumber, bar, button, title, history>>

-------------------------------------------------------------------------------
(* The worker. *)

\* What is done before the next signal is sent: a row is appended, or the profile
\* replaced by the one that was read; a nullptr keeps the old one.
Before(sends) ==
  /\ rows' = IF sends # <<>> /\ Head(sends).type = "row" THEN RowsOf(Head(sends).fill) ELSE rows
  /\ profile' = IF sends # <<>> /\ Head(sends).type = "finished" /\ Head(sends).loaded
                THEN Head(sends).file ELSE profile

\* the next action, on waking or with the mutex still held
Take(type) == /\ ui # "ended"
              /\ todo = <<>>
              /\ actions # <<>>
              /\ Head(actions).type = type
              /\ actions' = Tail(actions)
              /\ handled' = Append(handled, Head(actions))
              /\ holding' = TRUE
              /\ UNCHANGED <<active, ui, inHand, signals, window, opens, asked>>

\* load_hprof
TakeOpen == /\ Take("open")
            /\ \E loaded \in BOOLEAN : todo' = LoadSignals(Head(actions).file, loaded)
            /\ UNCHANGED <<profile, rows, failed>>

\* execute_query: without a profile the text is not even parsed
TakeQuery == /\ Take("query")
             /\ \/ profile = 0 /\ todo' = <<>> /\ UNCHANGED failed
                \/ profile # 0 /\ todo' = <<ResultSignal(Head(actions))>> /\ UNCHANGED failed
                \/ /\ profile # 0
                   /\ todo' = <<FailedSignal(Head(actions))>>
                   /\ failed' = failed \cup {Head(actions).query}
             /\ UNCHANGED <<profile, rows>>

\* on_fill_tree_view: the model is cleared, then the first row appended
TakeFill == /\ Take("fill")
            /\ todo' = FillSignals(Head(actions))
            /\ rows' = IF Rows = 0 THEN NoRows ELSE RowsOf(Head(actions))
            /\ UNCHANGED <<profile, failed>>

\* send_signal, and what load_hprof and on_fill_tree_view do before the next one.
\* It keeps SignalsHelper's mutex from the queue to the end of the write, as
\* on_emit_next_signal does while it takes from the queue; but GTK reads from the pipe
\* before it calls that, so the write has room by then, and neither waits for good.
Send == /\ ui # "ended"
        /\ todo # <<>>
        /\ Len(signals) < PipeRoom
        /\ signals' = Append(signals, Head(todo))
        /\ todo' = Tail(todo)
        /\ Before(Tail(todo))
        /\ UNCHANGED <<active, ui, inHand, actions, holding, handled, window, history>>

\* a fault: the mutex is not given back
ReleaseHolding == /\ ui # "ended"
                  /\ holding
                  /\ todo = <<>> /\ actions = <<>>
                  /\ UNCHANGED vars

\* wait() of the dispatcher
Release == /\ ui # "ended"
           /\ holding
           /\ todo = <<>> /\ actions = <<>>
           /\ holding' = FALSE
           /\ UNCHANGED <<active, ui, inHand, actions, todo, handled, profile, signals, window,
                          rows, history>>

-------------------------------------------------------------------------------
(* The window processes a signal (on_emit_next_signal, on_process_signal). *)

Process(type) == /\ ui = "loop"
                 /\ signals # <<>>
                 /\ Head(signals).type = type
                 /\ signals' = Tail(signals)
                 /\ UNCHANGED <<active, worker, rows, history>>

OnStartLoad == /\ Process("started")
               /\ title' = Head(signals).file
               /\ seqNumber' = 0
               /\ button' = FALSE
               /\ bar' = TRUE
               /\ UNCHANGED <<ui, inHand, attached>>

OnProgress == /\ Process("progress") \/ Process("row")
              /\ UNCHANGED <<ui, inHand, window>>

\* a fault: the view keeps its model
OnStopLoadAttached == /\ Process("finished")
                      /\ bar' = FALSE
                      /\ button' = TRUE
                      /\ UNCHANGED <<ui, inHand, seqNumber, attached, title>>

OnStopLoad == /\ Process("finished")
              /\ bar' = FALSE
              /\ button' = TRUE
              /\ attached' = FALSE
              /\ UNCHANGED <<ui, inHand, seqNumber, title>>

\* a fault: any result is taken
OnQueryResultAny ==
  /\ Process("result")
  /\ ui' = "handing"
  /\ inHand' = [type |-> "fill", query |-> Head(signals).query,
                of |-> Head(signals).of, late |-> title # opens]
  /\ UNCHANGED window

OnQueryResult ==
  /\ Process("result")
  /\ IF Head(signals).seq = seqNumber
     THEN /\ ui' = "handing"
          /\ inHand' = [type |-> "fill", query |-> Head(signals).query,
                        of |-> Head(signals).of, late |-> title # opens]
     ELSE UNCHANGED <<ui, inHand>>
  /\ UNCHANGED window

\* a fault: the error is shown beside a bar that goes on
OnQueryFailedPulsing == /\ Process("failed")
                        /\ UNCHANGED <<ui, inHand, window>>

OnQueryFailed == /\ Process("failed")
                 /\ bar' = (bar /\ Head(signals).seq # seqNumber)
                 /\ UNCHANGED <<ui, inHand, seqNumber, button, attached, title>>

\* a fault: the view gets its model and the bar stays
OnTreeviewFilledPulsing == /\ Process("filled")
                           /\ attached' = TRUE
                           /\ UNCHANGED <<ui, inHand, seqNumber, bar, button, title>>

OnTreeviewFilled == /\ Process("filled")
                    /\ attached' = TRUE
                    /\ bar' = FALSE
                    /\ UNCHANGED <<ui, inHand, seqNumber, button, title>>

-------------------------------------------------------------------------------
User == ChooseFile \/ ExecuteQuery \/ ActivateAgain

Window == \/ Activate \/ StartAgain \/ HandOver \/ ClearView
          \/ OnStartLoad \/ OnProgress \/ OnStopLoad
          \/ OnQueryResult \/ OnQueryFailed \/ OnTreeviewFilled

Worker == TakeOpen \/ TakeQuery \/ TakeFill \/ Send \/ Release

Next == User \/ Window \/ Worker

\* Both threads are scheduled.  The user owes nothing.
Spec == Init /\ [][Next]_vars /\ WF_vars(Worker) /\ WF_vars(Window)

-------------------------------------------------------------------------------
(* Properties. *)

\* on_query_result lets the answer to the latest query through, and no other --
\* except to a query that was asked after a file had been chosen and before
\* on_hprof_start_load ran: that one keeps a number which the reset gives away
\* again (main_window.cxx:134).
AcceptsLatest ==
  inHand.type = "fill" =>
    \/ inHand.query = Len(asked)
    \/ asked[inHand.query].raced

\* Once the load of the newest file is over, the rows in the view are of the
\* profile that HprofStorage has, whose items their raw pointers need -- unless
\* they were accepted when a newer file had been chosen and its load not yet
\* signalled.
ShownRowsCurrent ==
  (attached /\ button /\ title = opens /\ rows # NoRows) =>
    \/ rows.of = profile
    \/ rows.late

Quiet == /\ active /\ ui = "loop"
         /\ ~holding /\ actions = <<>> /\ signals = <<>>

\* When everything has come to rest after a query that parsed, was asked with a
\* profile there, and not in the window of AcceptsLatest, the view shows the
\* result of that query, of the profile there is, and the bar is gone, however
\* many older results and files were on their way when it was asked.
QuietShowsLatest ==
  LET last == Len(asked) IN
    (/\ Quiet /\ last > 0 /\ profile # 0
     /\ asked[last].opens = opens /\ ~asked[last].raced
     /\ last \notin failed) =>
       /\ attached /\ ~bar
       /\ Rows > 0 => rows.query = last /\ rows.of = profile

\* The worker waits for room in the pipe while it has the mutex, and the
\* window, the only one to make room, waits for the mutex.
Stuck == /\ ui \in {"handing", "activating"}
         /\ holding /\ todo # <<>>
         /\ Len(signals) = PipeRoom

\* emit() of the window returns, and so does what a second activation waits for,
\* unless the worker filled the pipe meanwhile: it keeps the mutex for as long as it
\* handles actions, and nobody reads.
HandOverReturns ==
  (ui \in {"handing", "activating"}) ~> (ui \notin {"handing", "activating"} \/ Stuck)

\* The progress bar goes away, unless the query was asked with no file loaded,
\* to which execute_query answers nothing, or a second activation ends the process.
BarEnds == bar ~> (~bar \/ profile = 0 \/ Stuck \/ ui = "ended")

\* What window and worker do with the dispatcher is what ActionQueue promises: each
\* action once, in the order it was handed over, and in the end all of them, unless
\* the pipe is full.  What ends it, for good, is that the application is activated a
\* second time, which starts what is being served.
Queue == INSTANCE ActionQueue
           WITH Actions <- Messages, open <- active, serving <- active /\ ui # "ended",
                ended <- ui = "ended", pending <- actions, log <- handled
ImplementsActionQueue ==
  Queue!Safe /\ ((actions # <<>>) ~> (actions = <<>> \/ Stuck \/ ui = "ended"))

===============================================================================
