# A formal model of the Android heap profile browser

These modules describe the program in this repository as state machines, check
them with TLC and prove some of their properties with TLAPS. The source is the
only authority: every definition that stands for code names its lines in
`PROJECT.json` (`map`).

## The system

A user opens a heap dump of an Android process, asks queries over the objects in
it and unfolds the results. Two programs share one library:

    GTK main loop (MainWindow)             worker thread (EventsDispatcher)
      on_open_hprof_file  --OpenFile----->  HprofStorage.load_hprof
      on_execute_query    --ExecuteQuery->  HprofStorage.execute_query
      on_test_expand_row  --FetchObject-->  HprofStorage.fetch_object
      on_query_result     --FillTreeView->  TreeViewStorage.on_fill_tree_view
      on_..._loading, on_query_result,
      on_treeview_filled  <---- signals (a queue and a Glib::Dispatcher pipe) ----

    HprofStorage -> file_t::read_dump -> factory (magic) -> data_reader_v103_t::build
                                            records -> heap_profile_data_t -> prepare
                 -> language_driver::parse -> query_t (source, filter)
                 -> heap_profile_impl_t::query

    cli: the same library in a sequential loop, without the threads.

### Inventory

| component | state | operations | what makes it correct | what is hard |
|---|---|---|---|---|
| events dispatcher (`ui/src/dispatcher.cxx`) | `_do_loop`, `_storages`, `_actions`, the worker thread, a mutex, a condition variable | subscribe, emit, start, stop, the worker's loop | each action to each storage once, in order; nobody sleeps on work; stop returns | lost notifications, a stop that races a start, restart, spurious wakeups |
| dump reader (`data_reader_v103`: build, one handler per record) | stream position, section budget and error flag, `heap_profile_data_t` | next_record, 5 record handlers, 6 kinds of segment item | a complete file is loaded whole; a damaged one is refused | truncation anywhere, wrong sizes, unsigned wrap, asserts |
| profile builder (`prepare`) | class and object indexes, super classes, layouts, decoded strings, progress | five loops | indexes complete, layouts right, strings decoded, it ends | loops that depend on each other's order, duplicate ids, cycles |
| dump file and factory | magic, progress of two phases | read_dump, read_magic, reader | unknown files are refused, progress is sane | division by zero |
| heap profile | `_classes`, `_objects`, roots, error | query, find_object, find_class | a query returns exactly the matches | a filter that fails half-way |
| types | values, field specs, items | readers, iterators, has_link_to | the value that was written | offsets beyond the data |
| filters | the filter tree | one function over an item | three-valued logic is consistent | strings as class operands, number conversion |
| class name tokens | list of tokens | tokenizer, match | the pieces of the name, none lost | empty tokens, reading past the end |
| query language | `query_t`, errors | parse | the filter of this query and no other | state kept between parses, precedence |
| storages and signals | profile, parser, signal queue, pipe | handlers, send_signal, on_emit_next_signal | every request is answered, in order | two mutexes and a bounded pipe |
| main window | sequence number, tree model, progress bar | menu and button handlers, signal handlers | only the latest result is shown | stale results and rows |
| object rows | request ids of rows | assign, populate, assign_value | an answer goes to its row | raw pointers, reused paths |
| application | members, actions | on_activate, on_quit, destruction | started once, stopped before the storages go | order of destruction |
| cli | result list | one query after another | - | state of the driver |

Concurrency is confined to the dispatcher and what it carries; the library is
sequential, and its difficulty is in files it did not write. Nothing is
persisted, so there are no crashes to recover from. `PROJECT.json` lists the
hazards one by one, each at its line, and the properties that cover it.

## Modules

How they fit together:

    ActionQueue  <- implemented by EventsDispatcher (the threads and the mutex)
                 <- implemented by BrowserSession   (who uses it, and for what)
    BrowserSession   loads, queries, fills; of a result, that it is one
    RowFetch         the rows of a result and what they ask for
    DumpLoad         read_dump from the path to the outcome
      DumpReader       the records of a dump
      ProfileBuilder   prepare, on what the records left
      HeapValues       the values of the heap it leaves
    QueryDriver      what a text makes of the filter
    HeapQuery        what the filter makes of the heap
      FieldCompare     one comparison
      NameTokens       one class name
    ObjectPrinter    the result on a terminal

**`EventsDispatcher`** is `ui/src/dispatcher.cxx`. A critical section of a client
is one action (`Subscribe`, `EmitAccepted`, `EmitIgnored`, `Start`, `StartAgain`,
`StopUnstarted`, `Stop`); `Join` is the second half of `stop`. The worker has an
action per step at which others may interleave or observe: `FirstLock`, `Take`,
`Deliver` (one storage), `Pop`, `Wait`, `SpuriousWakeup`, `Relock`. The mutex is
not a variable: it is held by the worker exactly at `draining` and `delivering`
(`LockFree`). The constructor leaves `_do_loop` uninitialised, so `Init` allows
both values. `start` on a running dispatcher ends the process (`aborted`).
`accepted`, `handled`, `missed` and `delivered` are histories for the properties.
The owner, the thread that starts and stops, is one thread, as in the application.

**`ActionQueue`** is what clients rely on, without threads: a queue, open or
closed, that while served handles what it took in order. Opening it while it is
served is `OpenServed`, the end of everything (`ended`). `EventsDispatcher`
implements it under `open <- doLoop`, `pending <- actions`, `log <- handled`,
`serving <- doLoop /\ pc # "none" /\ owner # "aborted"` and
`ended <- owner = "aborted"`.

**`BrowserSession`** is the window on GTK's thread and the two storages on the
worker's. `ChooseFile` and `ExecuteQuery` are the user; `HandOver` is `emit`, which
waits while the worker is `holding` the mutex; `On...` are the window's handlers of
signals, taken from `signals` in the order they were sent. `TakeOpen`, `TakeQuery`
and `TakeFill` begin a handler on the worker, `Send` is one `send_signal` with the
change that precedes the next, and waits while the pipe is full. Whether a file
loads and a text parses is chosen freely; the outcomes are the subjects of the
other modules. `ActivateAgain` is a second activation of the application: its calls of
`subscribe` and `start` wait for the mutex like `emit`, and then `start` ends the
process (`StartAgain`). It implements `ActionQueue` again, from the user's side: what
is handed over is handled, unless the pipe is full or a second activation ends it.
`SignalsHelper` has a mutex of its own, which the worker keeps from the queue to the
end of the write. The window takes it when it has read from the pipe, so that there
is room to write: neither waits for the other for good, and it is not a variable.

**`RowFetch`** is the expansion of rows: `Expand` and `AddField` are
`on_test_expand_row` and the rounds of `populate_instance_row`, between which the
worker may run; `HandleOpen` is `load_hprof`, which replaces the profile or, when the
load fails, keeps it; `HandleFetch` is `fetch_object`, `Answer` is `assign_value`.
Rows stand at places (`at`), which `Move` permutes, `Fill` and `Choose` clear. What a
row was asked for, whether it has moved, how many files had been chosen when its
result was filled in (`since`) and which of them were `loaded` are histories.

**`DumpLoad`** is `file_t::read_dump`, the factory with `read_magic`, and the
counting stream with both progress listeners, in numbers of `Limit` values. `Read`
and `GiveUp` are all that is left of the reader, `Count` of `prepare`.

**`DumpReader`** is `data_reader_v103_t::build` up to the call of `prepare`, with
`hprof_section_reader` and the integer reads of `hprof_istream_t`. A file is a
sequence of records with the byte widths of the format, of which only the first
`cut` bytes exist. The reader does not see that structure: `cur` is the stream
position, the budget and the error flag, and every read moves it as the code
does. A value is what was written if the read lay before the cut and 0 if not,
because the integer reads return 0 at the end and set nothing. If the position
leaves the structure (a wrong size, or a segment given up half-way) the model
stops in `astray`: what the bytes there would mean is not modelled. `aborted`
stands for the asserts (a width other than 4 and 8, a type that reads as 0), and for
static values that have no place in their buffer: it has the size that is left in the
section, and is null if that wrapped (`Copied`). Copying to null ends the process;
copying behind the end may end it, or go on as if nothing had happened. One
action per record and per segment item. Texts are numbers, contents are lengths,
and negative counts and lengths do not occur in the files.

**`ProfileBuilder`** is `prepare` with `set_class`, the constructor of
`string_info_impl_t` and the maps of `heap_profile_impl_t`, one round of a loop
per action. `crashed` is the division by a total of 0 in the progress callback of
`file_t::read_dump`; `hung` is a `set_class` that walks in a circle. Instances
carry what their first field named `value` refers to instead of bytes. Decoding a
text is the choice of the char array it comes from.

**`HeapValues`** is the loop from `begin()` or `operator[]` to `end()` over an
array of objects, an array of primitives and the fields of an instance, on bytes
that are digits of `Base`. `Places` says where values stand, `Number` what bytes are. The three iterators differ in when they read, so each
has its own `Begin...` and `Next...`. Behind an object lie any bytes.

**`QueryDriver`** is one `language_driver` that is given text after text. There
is an action per kind of token, with the reductions that bison makes before it; a
wrong token is noticed after them. `Jam` is a character that no rule of the
scanner takes; `Run` is what the caller does with an accepted query. `QueryMeaning`
adds the reference: `Meaning` reads a filter from the top down, without a stack: a
function of which tokens are meant, defined for a few of them before more.

**`HeapQuery`** is `heap_profile_impl_t::query` with the filter tree applied to one
item per `Visit`. A tree is the sequence of its nodes, those below a node before it
and the root last; `Answer` is the `operator()` of one node. **`FieldCompare`** holds the comparison of a field with a literal
and the three-valued logic, as operators. **`NameTokens`** holds the tokenizer and
the match of names, as operators on positions; the filter by class name that uses
them can be built but no text of the language stands for it.

**`ObjectPrinter`** is `print_object` and what it calls, the frames being `calls`.

`EventsDispatcherProofs`, `RowFetchProofs`, `BrowserSessionProofs`,
`DumpLoadProofs`, `DumpReaderProofs`, `ProfileBuilderProofs` and `QueryProofs` hold
theorems, see below; `SequenceFacts` what they share: sequences place by place, and
induction and recursion over numbers. `QueryProofs` is about the driver, the
comparisons, the query, the printer and the values, and extends the modules of all of
them; this is why the specifications of the last three are called `QuerySpec`,
`PrinterSpec` and `ValuesSpec`. `MC*` modules give TLC the small instances. Faulty variants stand before the definitions they vary ("a
fault") and are used by no specification; each is a slip the code might contain, and
exchanging the definition for it makes TLC refute one property (`mutants`).

## Runs

| run | question | bounds | states |
|---|---|---|---|
| dispatcher | are actions lost, repeated, reordered; does the worker sleep on work; does stop return; is it an action queue | 2 storages, 5 emits, 3 starts | 112,915 |
| browser | does the window end on the latest result, of the right profile, with no bar; when is everybody stuck | 2 files, 3 queries, a row each, a pipe of 3 | 41,255 |
| row_fetch | does an answer reach the row that asked, and no other | 4 places, 3 files, 3 requests | 854,492 |
| dump_load | which files get a reader; do reports of progress rise | magic of 2, 9 objects, 6 reads, numbers below 64 | 153,882 |
| dump_cuts | what is loaded and refused when a file ends early or declares a wrong size | every pair of 16 items and 12 whole files, every cut; sizes wrong by -6..4, of a class by up to -50 | 116,773 |
| dump_class_claim | (refuted) a cut class dump is refused | 2 files, every cut | - |
| profile_build | are layouts, indexes, strings and progress what the dump determines | 9 hierarchies x 5 x 37 x 3 lists | 72,904 |
| heap_values | does every item come once, with the value that was written | arrays of up to 3, instances of up to 2 fields, ids of 2 and 3 (one-bit) bytes | 181,200 |
| high_id_claim | (refuted) every reference finds the object with its bytes | as heap_values | - |
| query_texts | how are AND and OR grouped; what does a text leave to the next | 2 texts of up to 11 tokens | 700,770 |
| heap_query | are the selected objects those the filter describes | 90 heaps, each filter of a pool; names and texts of up to 4 characters | 408,972 |
| print_objects | what is shown, and when does printing not end | heaps of 3 objects, level 2 | 205,370 |

Why the bounds are enough.
*dispatcher*: two storages show order and omission; two starts a restart with
actions left over, the third being the forbidden one while another runs; five
emits let a queue of several be stopped half-way and continued.
*browser*: two files give a newer one and an older; three queries an overtaken
one, its successor, and one with the reset number; a load sends three signals, so
that a pipe of three fills and one of two would only fill sooner.
*row_fetch*: four places hold a result, its two fields and one more; three files
leave two loads waiting, of which each may fail; three requests unfold two rows, of
objects that refer to each other, and the second file lacks one of them.
*dump_load*: with a hundred of 8 and 32 bits of 64, the product passes its width at
eight elements and the percentage stays a percentage below.
*dump_cuts*: handlers keep no state between items but the position, the budget,
the flag and the heap type, so pairs show every effect of one item on the next,
and the whole files the effect of records on each other. A class of two static values
in sections declared ever smaller fills its buffer, overruns it and finds none.
*profile_build*: three classes make every shape of chain and cycle, two instances
every conflict of ids.
*heap_values*: an item is read, a next one, and an end behind it; ids shorter than
and as long as their type; a value of one byte and of two, signed and not.
*query_texts*: eleven tokens hold four comparisons, or three and a pair of
parentheses, so that every order of two operators is met in either grouping; the
driver keeps only one query, so two texts show what one leaves to another.
*heap_query*: a chain of two references, a circle, a dangling and a null one; a
field that hides one of the class above; trees of two operators.
*print_objects*: three objects make circles of one, two and three and a diamond;
the stack has more room than a way without a circle needs (`RoomAssumption`).

`CHECK_DEADLOCK FALSE` is set where the system really stops: after
`std::terminate` or in a `stop()` that lost its race (dispatcher); because the user
may do nothing more, a full pipe stops everybody and a second activation ends the
process (browser); because requests,
texts, a query, a printing or a load come to an end (row_fetch, query_texts,
heap_query, print_objects, dump_load). The runs of the reader, the builder and
the values check deadlock, with a loop at their ends.

Fairness. The worker thread is scheduled (weak fairness of its steps; the mutex is
never kept by a client) and `join` returns after the thread has ended. In a
session the window's thread is scheduled, too. Nobody is obliged to emit, start,
stop, choose or ask, and no spurious wakeup is owed. `ActionQueue!Spec` asks for
the handling of pending actions while served, and the dispatcher implies it.
`ProfileBuilder`, `HeapQuery` and `ObjectPrinter` are sequential functions, so
that they go on is weak fairness of `Next`.

## What the runs found

Two runs refute what the code or a test states (`findings`):

- `read_heap_dump_segment` answers a class dump that cannot be read with
  `return FAILED`, which as a `bool` is true (`data_reader_v103.cxx:243`). A dump
  cut there is loaded without an error and without heap types in that segment.
- `read_id` takes an id of four bytes as a signed number and extends it
  (`data_reader_v103.h:108`). A reference is not extended, as a test of the fields
  expects, and an object with the top bit in its id is never found by it.

The passing runs fix the exact extent of others, as properties that hold:

- A file that ends in the fixed fields of its last record is loaded as complete,
  the missing fields being 0 (`AcceptedTruncations`).
- `stop()` may hang, only if it runs before the new worker takes the mutex for the
  first time (`StopHangsOnlyIfRaced`).
- The worker sends through a bounded pipe while it has the mutex. A pipe that
  fills while the window waits in `emit` stops both (`Stuck`, in `HandOverReturns`).
- The sequence number is reset when a load is signalled, not when the file is
  chosen: a query asked between keeps a number that is given away again
  (`AcceptsLatest`, `QuietShowsLatest`).
- A query while nothing is loaded is answered by nothing; the bar stays (`BarEnds`).
- A result filled in after the next file was chosen is not cleared. If the load of
  that file succeeds, the rows look their references up in the new profile; if it
  fails, the old one stays and answers (`ShownRowsCurrent`, `SameProfile`).
- Activating the running application once more ends the process in `start`, also
  when it shows a result; nothing else ends what the dispatcher serves
  (`ImplementsActionQueue`).
- An answer comes to the place of a row. A row that was sorted away loses it, but
  never gets another's (`LostOnlyIfMoved`, `AnswerToAsker`).
- A query without HAVING runs with the filter of the text before, also of one that
  was refused (`FilterKept`); if it is the first, there is none, which ends the program
  unless the profile is empty (`CrashesAtFirst`). OR binds tighter than AND (`GroupsOrFirst`).
- SHOW CLASSES HAVING finds nothing (`QueryExact`). Whole-numbered fields are
  tested for equality with the literal without its fraction, and `!=` is not the
  complement of `=` where field and literal cannot be compared (`ComparisonsRelate`).
  By class name strings are found by their full name only (`BeginningsFind`).
- Printing an array that contains itself exhausts the stack, and an object without
  a class ends the process (`ShownExactly`, `PrintsUnlessCyclic`).
- Progress passes a hundred percent, wraps at 32 bits, and divides by 0 for a dump
  without objects (`ReportsRise`, `PreparesUnlessCyclic`).
- An instance shorter than its class reads behind its end (`PastEndOnlyIfShort`).

## Proofs

All theorems hold for every value of the constants that satisfies the named
assumptions of the module.

| module | theorem | says |
|---|---|---|
| EventsDispatcherProofs | `TypeCorrect` | `TypeOK` |
| | `WakeupCorrect` | `NoLostWakeup` |
| | `DeliveryCorrect` | `ExactlyOnceInOrder` |
| | `StopHangCharacterised` | `StopHangsOnlyIfRaced` |
| | `StopIsFinal` | `StopLeavesTheRest` |
| | `Refinement` | the safety part of `ImplementsActionQueue` |
| RowFetchProofs | `TypeCorrect` | `TypeOK` |
| | `AnswersReachTheirRows` | `AnswerToAsker` |
| | `AnswersOfOneProfile` | `SameProfile` |
| | `LossCharacterised` | `LostOnlyIfMoved` |
| BrowserSessionProofs | `TypeCorrect` | `TypeOK` |
| | `LatestAccepted` | `AcceptsLatest` |
| | `RowsShownAreCurrent` | `ShownRowsCurrent` |
| | `LatestShownAtRest` | `QuietShowsLatest` |
| | `UsesActionQueue` | the safety part of `ImplementsActionQueue` |
| DumpLoadProofs | `KnownFilesCorrect` | `KnownFilesOnly` |
| | `ReportsCorrect` | `ReportsRise` |
| DumpReaderProofs | `Placed` | `PlaceInv`: where the cursor is |
| | `SizesChecked` | `SegmentSizeChecked` |
| | `TruncationsAccepted` | `AcceptedTruncations` |
| | `ContentKept` | `ContentInv`: what has been loaded |
| | `CompleteLoads` | `CompleteFileLoads` |
| | `WholeKept` | `NothingWholeIsLost` |
| | `HeapTypesKept` | `HeapTypePerSegment` |
| ProfileBuilderProofs | `IndexCorrect` | `IndexKeepsFirst` |
| | `StringsCorrect` | `StringsDecoded` |
| | `ProgressCorrect` | `ProgressAccounts` |
| | `LayoutCorrect` | `LayoutTiles` |
| QueryProofs | `CrashesCorrect` | `CrashesAtFirst` |
| | `GroupsCorrect` | `GroupsOrFirst` |
| | `FilterKeptCorrect` | `FilterKept`, an action property |
| | `TrichotomyCorrect` | exactly one of <, =, > (up to truncation) |
| | `ComplementCorrect` | when = and != are complements |
| | `DeMorgan` | the laws of the three-valued logic |
| | `PrintingCorrect` | `ShownExactly` |
| | `SelectionCorrect` | `QueryExact` |
| | `ClassesPresent` | `ClasslessNeverSelected` |
| | `ComparisonsCorrect` | `ComparisonsRelate` |
| | `TokensCorrect` | `TokensExact` |
| | `SearchNarrows` | `BeginningsFind` |
| | `ValuesCorrect` | `ItemsAsWritten` |
| | `ReadWithin` | `PastEndOnlyIfShort` |
| | `ReferencesCorrect` | `ReferencesFound` |

So every safety property and every action property of the passing runs is a theorem.

*The dispatcher.* The properties are not inductive one by one. That storages get
each action once needs that the list has no duplicates (`NoDuplicates`), and that
the action being delivered is the head of the queue with the worker in range
(`DeliversHead`); that a blocked `stop` means a race needs what `_do_loop` and the
worker are while somebody joins (`JoinState`). `IInv` is their conjunction with
the type invariant and the properties. `InitInv` and the lemmas per group of steps
(`TypeStep`, `ControlStep`, `DeliveryStep`, `StutterStep`) give `Invariance`.

*The rows.* An answer is recognised by its number, so the invariant says what
every number in a request, an answer or a row stands for (`Asked`). That answers
are of the right profile is a matter of order (`Ordered`): the files waiting to be
opened are newer than the profile and in the order they were chosen (`OpensRise`), and
no file is opened after a fetch for a row that is there now (`FetchesCurrent`). So when
such a fetch is handled every load that could overtake the row has succeeded or failed,
and the profile is the last that succeeded, or the row's own (`AnswersCurrent`,
`RowsCurrent`); from this `OrderedAnswers` has `SameProfile`.
`IInv` is `TypeOK /\ Asked /\ Ordered /\ LostOnlyIfMoved`; one lemma per part shows
that steps keep it. `Pushed` and `Popped` are the facts about queues they use, and
`FetchesCurrentPopped` and `OpensRisePopped` what taking from the queue keeps.

*The session.* What the window will still process is `Coming`, the signals in the
pipe and then those the worker has yet to send; what the worker will still take is
`Given`, its queue and the action the window is handing over. Each is in the order
in which it will happen, and the invariant is about their order: files come in the
order they were chosen (`FilesInOrder`), a query behind a file still to be signalled
was asked in that window and is marked so (`RacedBehindStarts`), and the number of
every other tells how many were asked since (`Numbered`), which is what
`AcceptsLatest` needs. A result is of the present profile or a load has begun behind
it (`ResultsCurrent`), a fill accepted in time is done before the next load
(`FillsCurrent`), and the button and the view are off while they must be
(`ButtonOffWhileLoading`, `OldRowsHidden`). For `QuietShowsLatest` the latest query
is followed on its way (`LatestOnItsWay`): handed over, answered, accepted, filled
in, shown; each step of anybody leaves it where it is or moves it on.

*The magic.* The invariant says per stage what has been read: the characters before
the position are the text and contain no NUL (`WhileMagic`), and where the stage
leaves the loop the text is the magic of the file, if it has one (`TextIsMagic`).
The uninitialised character occurs in it only before anything was read.

*The reports.* The last percentage is that of the last number counted, and division
never falls when the dividend does not; it falls only where the product passed the
limit in between (`Wraps`). A percentage above a hundred means more was counted than
there is.

*The reader.* In a section the position and what is left add up to a constant: the
end that the header declared (`Ends`). Every way through a handler moves the two
together, is stopped by an error, or leaves the cut behind (`ItemRead` says so per
item, for any fields and lengths; the loops over fields go by induction). Record and
item starts are sums of sizes, strictly increasing, so a position in the layout is
that of one record and item only. `PlaceInv` is then: the reader is before the record
or item it takes itself to be at; or it is in the middle of something, and the file
was not intact; or it is behind the end of the file, and then the cut was one of
`AcceptedCut`, or can be no longer accepted. Static values overrun their buffer only in
a class that goes on behind the declared end (`ClassFacts`). Nothing is assumed about the declared
sizes but that they are numbers of their width, so the theorems cover the files
whose sizes lie. A damaged end record is the case TLC found while the invariant was
made: its body, if it has one, is not read, so that a file cut behind its header is
taken as complete.

*What the reader loads.* The reference defines the content of a file on the file
(`WholeObjects`, `WholeRoots`, `RefOf`, `HeapOf`), as what its records and items make,
one behind the other. `ContentInv` compares `data` with it, for the files that declare
their sizes truly: at a record or item that the reader is in step with, what was loaded
is what stands before it (`Loaded`, `SegmentLoaded`), where the objects of the segment
being read have no heap type yet; behind a cut it is all that is wholly there and at
most one object or root more, those of whole segments with their heap type and the
rest with one in common (`Kept`). `PlaceInv` says which of the two it is, and
`ItemRead` that an item whose bytes are all there was read with its values. An item is
then one more piece behind the others (`ItemLoads`), or the one the cut goes through
(`ItemKept`); the end of a segment gives the heap type the last HEAP_DUMP_INFO before
it set (`HeapBeforeSteps`, `SegmentGiven`) and changes nothing else (`KeptGiven`); a
class's fields are named by the first record that gave their name (`FieldsGiven`). A
class dump that failed can in such a file only be the last item there is
(`ClassFailedLoaded`). TLC checked `ContentInv` on the instance of `dump_cuts` before
it was proved.

*The profile.* How far each loop has come tells what it has left: the index has the
ids of what was gone through and for each the first (`ClassesIndexed`,
`ObjectsIndexed`), the class of the strings is the last of its name so far, progress
is the sum of what was gone through. Strings are decoded when every array of
primitives is indexed, so a decoded text never changes (`InstancesDecoded`).

*The layouts.* `Layout` walks up a chain of super classes and puts fields behind each
other; the property compares its size with the sum over the set of ancestors, found
without a chain. So: the functions the model defines recursively exist and are what
they are meant to be (`RecursionExists`), a chain that ends visits a class once
(`ChainOnce`), its classes are the ancestors, and the sizes along it add up to those
of the set, each a proof by induction over numbers. `LInv` carries to every instance
what was linked before it.

*The driver.* A query that was run with a filter left it, and the parser has read as many
tokens as it has come through states; so only the first text can find none.

*The parser.* `ParserInv` relates the stack to the tokens read. The stack is a row of
open parentheses, operators and trees that lie over the tokens without a gap, one
behind the other (`Item`, `Parsed`): of a parenthesis or an operator it is the token
itself, of a tree a `Segment`, tokens whose meaning is the tree. What makes the
reductions right is which operators can wait on the stack: below an AND none, below an
OR at most one AND, and what stands right of an operator has no AND outside of
parentheses.
`Meaning` cuts at the last AND, or else the last OR, so two segments around an operator
are one (`SegmentsJoined`), as is a segment in parentheses (`SegmentEnclosed`) and one
comparison (`SegmentAlone`); for this the parentheses of what means something match
(`MeaningWhole`, by induction over the number of tokens). For the other direction, that
what is refused means nothing, the last token of a text ends what could have a meaning:
an operand is missing (`OperandRefused`) or a parenthesis is still open
(`OperatorRefused`). TLC checked `ParserInv` on the texts of `query_texts` first.

*The printing.* A frame fits its level: its object is reached there, and what is left
in it are references of the object (`FrameFits`). `Printed` follows which object was
printed at which level: whatever a printed object refers to was printed one level below,
or is left in the frame of that level. Without frames nothing is left, and the objects
within reach are those printed, level by level (`PrintedAll`). A full stack has more
frames above `max_level` than there are objects, all of arrays, since only these are
unfolded there; two of them are of the same array (the pigeonhole principle), which is
then reached from itself (`FullStack`, `CycleFound`).

*The query.* `QueryExact` tells what is selected by chains of references that exist;
the code follows one. That a path leads where the loop of the fetcher arrives, and an
object is an instance of the classes on the way up from its own, are inductions over
the length of the path and of the chain (`FetchIs`, `InstanceIs`); the loop up the
classes is bounded by their number in the model, as a shortest chain has none twice.
Then each node answers Match just if it holds, those below it first (`NodeExact`), and
`SelectionInv` says that the result is what the nodes match of the items gone through.
An object without a class in the dump has no fields and is no instance; so no node
matches it (`BareUnmatched`).

*The names.* `EndIs` says where a token ends: at the next dot, the leading one being
part of the first token, or at the end of the text. Read from the last place back to
the first, the function in `TokensOf` cuts what is behind a place at its dots (`CutFrom`).
Of a beginning of the text every token but the last is a token of the text, and the last
begins one (`TokensBegin`); a name that matches the text matches the beginning
(`MatchNarrower`), whether it has one token or several. A string is found when the
tokens of its class name begin those of the text, and then the name is no longer than the
text, if no dot ends it (`FittingIsShorter`).

*Reading values.* In `ReadingInv` the dump has the bytes of each value at its place, as
far as it goes; the iterator stands at the place of the value that is due; those taken
are the ones that were written, as far as they lie within the data; and nothing was
touched but bytes of values. TLC checked it on the instance of `heap_values` before it
was proved. That bytes give the number that was written is `DecodesWritten`, for each
type, signed or not, from `NumberIs` and `BytesOfNumber`: a number has just one row of
digits of given length. `IdNames` is the same for ids, with the sign extended: two ids
of the same length are never confused, and the id that was written is missed just if
the sign was set and there was room to extend it.

Of the constants is assumed: that bounds are numbers; that the fields of a class lie
as `read_class_dump` reads them, with types that have a size, the others ending in an
assert (`ClassesAssumption`, `data_reader_v103.cxx:376-389`); that numbers fit the
fields they are read into, that a declared size is an `int32_t` and that of a string
not below its id's, that an item has no fields, and an array of numbers no class, where
the format has none (`FilesAssumption`).

Of heaps, filters and values: an object whose class is missing has no fields, a filter has
what it combines before it, paths of comparisons are not empty, names and texts are rows
of characters of which one is the dot, and "java.lang.String" does not end in it, such as
the builder and the parser leave them (`QuestionsAssumption`, `CharsAssumption`,
`StringAssumption`). Ids are positive, and the stack of the printer has room for more
frames than `max_level` and the objects together (`IdsAssumption`, `RoomAssumption`). A
value is not wider than an id can be, and `Base` is even, so that half of the numbers of
a width have the sign (`SizesAssumption`, `BaseAssumption`).

The type invariants of the dispatcher, the rows and the session are theorems and in
no run: every action keeps them for all bounds.

Where a theorem is about something that is a sequence its domain is stated as well as
its length. The prover's encoding for SMT takes `Len(s) = n` and `DOMAIN s = 1..n` for
the same of any `s`, of which only one direction follows from the definition of `Len`;
the proofs do not depend on the other, and have been checked without it.

Only model-checked: liveness (`StopReturns`, `HandOverReturns`, `BarEnds`,
`PreparesUnlessCyclic`, `PrintsUnlessCyclic`), the fairness part of the two
refinements, and everything that needs `ENABLED`, which the prover cannot treat.

## Not modelled

- Objects: `has_link_to` and the roots (no part of the program asks for them), who
  owns which memory and in what order it is freed; `print_class`, which no query
  reaches.
- The worker changes the tree model while GTK's thread uses it (`treeview_storage.cxx:56`).
  This is a data race inside GTK, whose outcomes are not those of any state here.
- The two halves of an UTF-16 text, and the loss of precision of large numbers in
  a double. Negative counts and lengths in a dump.
- What a reader that has gone astray makes of the bytes it finds, and what static
  values copied behind their buffer do to the memory there, but that it may end the
  process.
- Reading through a row's pointer to an item of a profile that was replaced, and so
  freed: the item is taken to be still there.
- Rows of objects whose class, or its super class, is missing in the dump: an object
  fetched for a row (`object_fields_columns.cxx:138`) and the class of a result
  (`:108`) are dereferenced without a test, which ends the process.
- The end of standard input, which the command line tool does not notice, and the
  destruction of the window.
- Widgets, layout, the wording of values and messages, the generated scanner and
  parser automata (the grammar's effect is in `QueryDriver`), tests, build files.

What would come next: the two halves of an UTF-16 text and the roots in the loading of a
dump; the order of destruction of the application.
