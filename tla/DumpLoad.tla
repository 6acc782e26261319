-------------------------------- MODULE DumpLoad --------------------------------
(***************************************************************************)
(* file_t::read_dump (hprof_file.cxx): the magic of a file is read, a       *)
(* reader is chosen by it (data_reader_factory.cxx), and the reader builds  *)
(* the profile from a stream that counts what it reads (hprof_istream.h).   *)
(* Both parts of the building report their progress through a listener that *)
(* passes on every change of the percentage.                                *)
(*                                                                          *)
(* Of the reader only the reads and the outcome are left (DumpReader has    *)
(* the records), of prepare the counting (ProfileBuilder has the rest).     *)
(***************************************************************************)
EXTENDS Integers, Sequences, SequencesExt, FiniteSets

CONSTANTS Chars,        \* of a file, the one that ends a text is 0
          Files,        \* what the path may name: contents, or NoFile
          NoFile,
          Known,        \* the magic there is a reader for
          MaxMagicLen,  \* the program has 18, which is the length of Known
          Hundred,      \* the program has 100
          Limit,        \* of 32 bits, the program has 2^32
          MaxObjects,   \* bound: elements of a dump
          MaxReads      \* bound: reads of a file

NUL == 0
Magics == SeqOf(Chars \ {NUL}, MaxMagicLen + 1)

ASSUME CharsAssumption == NUL \in Chars /\ \A f \in Files \ {NoFile} : f \in Seq(Chars)
ASSUME MagicAssumption == Known \in Magics /\ Len(Known) = MaxMagicLen /\ MaxMagicLen > 0
ASSUME NumbersAssumption == /\ {Hundred, Limit} \subseteq Nat \ {0}
                            /\ {MaxObjects, MaxReads} \subseteq Nat

VARIABLES
  file,      \* the contents, or NoFile
  stage,     \* "opening", "magic", "choosing", "reading", "preparing", "done", and
             \* "crashed" by a division by zero
  ch,        \* of read_magic; it starts uninitialised
  text,      \* its result so far
  pos,       \* of the stream
  eof,       \* its state
  read,      \* hprof_istream_t::_read
  reads,     \* how many reads there were
  total,     \* of prepare
  ready,     \* of prepare
  progress,  \* read_progress or prepare_progress, Unset for the largest size_t
  reports,   \* history: what the callback got
  result     \* of read_dump: "null", a profile with an "error", or a "heap"

stream == <<pos, eof, read, reads>>
preparing == <<total, ready>>
vars == <<file, stage, ch, text, stream, preparing, progress, reports, result>>

Unset == -1
Size == Len(file)

Init == /\ file \in Files
        /\ stage = "opening"
        /\ ch \in Chars
        /\ text = <<>> /\ pos = 0 /\ eof = FALSE /\ read = 0 /\ reads = 0
        /\ total = 0 /\ ready = 0 /\ progress = Unset
        /\ reports = <<>> /\ result = "none"

Fail == /\ stage' = "done" /\ result' = "null"

Open == /\ stage = "opening"
        /\ \/ file = NoFile /\ Fail
           \/ file # NoFile /\ stage' = "magic" /\ UNCHANGED result
        /\ UNCHANGED <<file, ch, text, stream, preparing, progress, reports>>

\* a fault: the magic is not longer than MAX_MAGIC_LEN, its end included
GetCharShort ==
  /\ stage = "magic"
  /\ eof' = (pos = Size)
  /\ pos' = IF eof' THEN pos ELSE pos + 1
  /\ ch' = IF eof' THEN ch ELSE file[pos + 1]
  /\ IF ch' = NUL THEN /\ UNCHANGED text
                       /\ IF text = <<>> THEN Fail ELSE stage' = "choosing" /\ UNCHANGED result
     ELSE IF eof' \/ Len(text) + 1 = MaxMagicLen THEN Fail /\ UNCHANGED text
     ELSE text' = Append(text, ch') /\ UNCHANGED <<stage, result>>
  /\ UNCHANGED <<file, read, reads, preparing, progress, reports>>

\* One round of the loop of read_magic.  A get at the end leaves ch as it is, which
\* is looked at before the state of the stream; the 0 that ends the magic is the
\* last of at most MAX_MAGIC_LEN + 1 characters.
GetChar ==
  /\ stage = "magic"
  /\ eof' = (pos = Size)
  /\ pos' = IF eof' THEN pos ELSE pos + 1
  /\ ch' = IF eof' THEN ch ELSE file[pos + 1]
  /\ IF ch' = NUL THEN /\ UNCHANGED text
                       /\ IF text = <<>> THEN Fail ELSE stage' = "choosing" /\ UNCHANGED result
     ELSE IF eof' \/ Len(text) = MaxMagicLen THEN Fail /\ UNCHANGED text
     ELSE text' = Append(text, ch') /\ UNCHANGED <<stage, result>>
  /\ UNCHANGED <<file, read, reads, preparing, progress, reports>>

\* the stream takes over the file where the magic ended
Choose == /\ stage = "choosing"
          /\ read' = pos
          /\ \/ text = Known /\ stage' = "reading" /\ UNCHANGED result
             \/ text # Known /\ Fail
          /\ UNCHANGED <<file, ch, text, pos, eof, reads, preparing, progress, reports>>

-----------------------------------------------------------------------------
\* a fault: every call is passed on
ReportAll(phase, percent) ==
  /\ progress' = percent
  /\ reports' = Append(reports, [phase |-> phase, percent |-> percent])

\* the lambdas of read_dump
Report(phase, percent) ==
  \/ /\ percent # progress
     /\ progress' = percent
     /\ reports' = Append(reports, [phase |-> phase, percent |-> percent])
  \/ percent = progress /\ UNCHANGED <<progress, reports>>

Counted(n, block) == IF eof' /\ block THEN read ELSE read + n

\* The reader reads a byte, which is counted at the end of the file, too, or a
\* block, which is counted only if all of it was there.
Read ==
  /\ stage = "reading" /\ reads < MaxReads
  /\ \E n \in 1..2, block \in BOOLEAN :
       /\ n = 1 \/ block
       /\ eof' = (eof \/ pos + n > Size)
       /\ pos' = IF eof' THEN Size ELSE pos + n
       /\ read' = Counted(n, block)
  /\ reads' = reads + 1
  /\ Report("read", (read' * Hundred) \div Size)
  /\ UNCHANGED <<file, stage, ch, text, preparing, result>>

\* a record it cannot read
GiveUp == /\ stage = "reading" /\ reads > 0
          /\ stage' = "done" /\ result' = "error"
          /\ UNCHANGED <<file, ch, text, stream, preparing, progress, reports>>

\* done * 100 / total, of unsigned integers of 32 bits
PercentOf(done, of) == ((done * Hundred) % Limit) \div of

\* the end of the file where a record could begin: prepare starts with a report
\* of nothing, and divides by the number of the elements
Prepare ==
  /\ stage = "reading" /\ eof
  /\ total' \in 0..MaxObjects
  /\ ready' = 0
  /\ IF total' = 0 THEN stage' = "crashed" /\ UNCHANGED <<progress, reports>>
     ELSE /\ stage' = "preparing"
          /\ progress' = PercentOf(0, total')
          /\ reports' = Append(reports, [phase |-> "prepare", percent |-> progress'])
  /\ UNCHANGED <<file, ch, text, stream, result>>

\* prepare counts an element
Count ==
  /\ stage = "preparing" /\ ready <= total
  /\ ready' = ready + 1
  /\ Report("prepare", PercentOf(ready', total))
  /\ UNCHANGED <<file, stage, ch, text, stream, total, result>>

\* it leaves out at most one element for each class, of which the total has two
Complete ==
  /\ stage = "preparing" /\ ready >= total + 1 - total \div 2
  /\ stage' = "done" /\ result' = "heap"
  /\ UNCHANGED <<file, ch, text, stream, preparing, progress, reports>>

Next == Open \/ GetChar \/ Choose \/ Read \/ GiveUp \/ Prepare \/ Count \/ Complete

Spec == Init /\ [][Next]_vars

-----------------------------------------------------------------------------
\* A reader is found for a file that begins with its magic and a 0, and for no other;
\* the uninitialised character that an empty file leaves changes nothing
\* (data_reader_factory.cxx:44, :49).
KnownFilesOnly ==
  result # "none" =>
    (result # "null" <=> /\ file # NoFile
                         /\ IsPrefix(Append(Known, NUL), file))

\* In each part the reports rise, none is made twice, as long as a hundred times
\* the elements of the dump is a number of 32 bits (hprof_file.cxx:54); and more than
\* a hundred percent is reported only of a file that has been read to its end, by the
\* bytes read behind it, and by the last report of prepare.
ReportsRise ==
  /\ \A i, j \in DOMAIN reports :
       i < j /\ reports[i].phase = reports[j].phase =>
         \/ reports[i].percent < reports[j].percent
         \/ reports[i].phase = "prepare" /\ (total + 1) * Hundred >= Limit
  /\ \A i \in DOMAIN reports :
       reports[i].percent > Hundred =>
         IF reports[i].phase = "read" THEN eof ELSE ready > total
==============================================================================
