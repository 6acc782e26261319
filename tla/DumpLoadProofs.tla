---------------------------- MODULE DumpLoadProofs ----------------------------
(* Proofs about DumpLoad, for any files, magic, hundred and bounds.             *)
EXTENDS DumpLoad, SequenceTheorems, TLAPS

USE CharsAssumption, MagicAssumption, NumbersAssumption

\* What the file must begin with, place by place.
Begins == /\ MaxMagicLen < Size
          /\ \A i \in 1..MaxMagicLen : file[i] = Known[i]
          /\ file[MaxMagicLen + 1] = NUL

\* The text is what stands before the position, all of it without a NUL.
TextRead(n) == /\ Len(text) = n
               /\ \A i \in 1..n : text[i] = file[i] /\ text[i] # NUL

\* Before the file is chosen by its magic: the text is the beginning of the file; an
\* uninitialised character matters at the start of an empty one only.
WhileMagic ==
  stage = "magic" =>
    /\ file # NoFile /\ result = "none"
    /\ pos \in 0..MaxMagicLen /\ pos <= Size
    /\ TextRead(pos)
    /\ pos > 0 => ch # NUL

WhileChoosing ==
  stage = "choosing" =>
    /\ file # NoFile /\ result = "none"
    /\ pos \in 1..Size /\ pos <= MaxMagicLen + 1
    /\ TextRead(pos - 1)
    /\ file[pos] = NUL

\* Nothing has been read yet.
WhileOpening == stage = "opening" => text = <<>> /\ pos = 0 /\ result = "none"

\* After it a reader is at work exactly if the file begins with the magic.
WhileReading == stage \in {"reading", "preparing", "crashed"} => file # NoFile /\ Begins /\ result = "none"

AtTheEnd == IF stage = "done"
            THEN result \in {"null", "error", "heap"} /\ (result # "null" <=> (file # NoFile /\ Begins))
            ELSE result = "none"

IInv == /\ file \in Files
        /\ text \in Seq(Chars)
        /\ stage \in {"opening", "magic", "choosing", "reading", "preparing", "done", "crashed"}
        /\ WhileOpening /\ WhileMagic /\ WhileChoosing /\ WhileReading /\ AtTheEnd

-------------------------------------------------------------------------------
\* The magic is a text of its length without a NUL.
LEMMA KnownText == /\ Known \in Seq(Chars)
                   /\ MaxMagicLen \in Nat
                   /\ Len(Known) = MaxMagicLen
                   /\ \A i \in 1..MaxMagicLen : Known[i] \in Chars /\ Known[i] # NUL
<1>1. PICK m \in 0..MaxMagicLen + 1 : Known \in [1..m -> Chars \ {NUL}]
  BY DEF Magics, SeqOf
<1> QED
  BY <1>1 DEF NUL

\* A file is a sequence of characters.
LEMMA FileText == ASSUME file \in Files, file # NoFile PROVE file \in Seq(Chars) /\ Size \in Nat
BY DEF Size, NUL

\* Begins is the prefix that the property names.
LEMMA BeginsIsPrefix ==
  ASSUME file \in Files, file # NoFile
  PROVE  Begins <=> IsPrefix(Append(Known, NUL), file)
<1> DEFINE P == Append(Known, NUL)
<1>1. P \in Seq(Chars) /\ Len(P) = MaxMagicLen + 1
  BY KnownText, AppendProperties DEF NUL
<1>2. (\A i \in 1..MaxMagicLen : P[i] = Known[i]) /\ P[MaxMagicLen + 1] = NUL
  BY KnownText, AppendProperties DEF NUL
<1>3. file \in Seq(Chars) /\ Size = Len(file) /\ Size \in Nat
  BY FileText DEF Size
<1>4. SubSeq(P, 1, Len(P)) = P
  BY <1>1, SubSeqFull
<1>5. ASSUME MaxMagicLen < Size
      PROVE  /\ Len(SubSeq(file, 1, Len(P))) = Len(P)
             /\ SubSeq(file, 1, Len(P)) \in Seq(Chars)
             /\ \A i \in 1..Len(P) : SubSeq(file, 1, Len(P))[i] = file[i]
  BY <1>1, <1>3, <1>5, KnownText, SubSeqProperties
<1>6. ASSUME Begins PROVE IsPrefix(P, file)
  <2>1. \A i \in 1..Len(P) : P[i] = file[i]
    BY <1>1, <1>2, <1>6, KnownText DEF Begins
  <2>2. SubSeq(file, 1, Len(P)) = P
    BY <1>1, <1>5, <1>6, <2>1, SeqEqual DEF Begins
  <2> QED
    BY <1>1, <1>3, <1>4, <1>6, <2>2, KnownText DEF Begins, IsPrefix
<1>7. ASSUME IsPrefix(P, file) PROVE Begins
  <2>1. Len(P) <= Len(file) /\ P = SubSeq(file, 1, Len(P))
    BY <1>4, <1>7 DEF IsPrefix
  <2>2. \A i \in 1..Len(P) : P[i] = file[i]
    BY <1>1, <1>3, <1>5, <2>1, KnownText
  <2> QED
    BY <1>1, <1>2, <1>3, <2>1, <2>2, KnownText DEF Begins
<1> QED
  BY <1>6, <1>7

-------------------------------------------------------------------------------
\* At the start nothing has been read.
LEMMA InitInv == Init => IInv
BY DEF Init, IInv, WhileOpening, WhileMagic, WhileChoosing, WhileReading, AtTheEnd

\* A character that is not the end of the magic makes the text longer.
LEMMA TextGrows ==
  ASSUME IInv, stage = "magic", pos < Size, file[pos + 1] # NUL
  PROVE  LET longer == Append(text, file[pos + 1])
         IN /\ longer \in Seq(Chars)
            /\ Len(longer) = pos + 1
            /\ \A i \in 1..pos + 1 : longer[i] = file[i] /\ longer[i] # NUL
<1>1. file \in Seq(Chars) /\ pos + 1 \in 1..Len(file) /\ file[pos + 1] \in Chars
  BY FileText, KnownText DEF IInv, WhileMagic, Size
<1>2. text \in Seq(Chars) /\ TextRead(pos) /\ pos \in Nat
  BY KnownText DEF IInv, WhileMagic
<1> QED
  BY <1>1, <1>2, AppendProperties DEF TextRead

\* Where the magic is given up, the file does not begin with that of the reader.
LEMMA GivenUp ==
  ASSUME IInv, stage = "magic",
         \/ pos = Size
         \/ pos < Size /\ file[pos + 1] = NUL /\ text = <<>>
         \/ pos < Size /\ file[pos + 1] # NUL /\ Len(text) = MaxMagicLen
  PROVE  ~Begins
<1>1. /\ pos \in 0..MaxMagicLen /\ Len(text) = pos
  BY DEF IInv, WhileMagic, TextRead
<1> QED
  BY <1>1, KnownText, FileText DEF Begins, IInv, WhileMagic

\* One character of the magic.
LEMMA GetCharInv == IInv /\ GetChar => IInv'
<1> SUFFICES ASSUME IInv, GetChar PROVE IInv'
  OBVIOUS
<1>1. /\ stage = "magic" /\ file # NoFile /\ result = "none" /\ file' = file /\ file \in Files
      /\ pos \in 0..MaxMagicLen /\ pos <= Size /\ Size \in Nat /\ MaxMagicLen \in Nat
      /\ TextRead(pos) /\ text \in Seq(Chars) /\ (pos > 0 => ch # NUL)
  BY KnownText, FileText DEF GetChar, IInv, WhileMagic
<1>2. Size' = Size
  BY <1>1 DEF Size
<1>0. (pos = Size => eof') /\ (pos # Size => ~eof')
  BY DEF GetChar
<1>g. /\ pos' = IF eof' THEN pos ELSE pos + 1
      /\ ch' = IF eof' THEN ch ELSE file[pos + 1]
      /\ IF ch' = NUL THEN /\ UNCHANGED text
                           /\ IF text = <<>> THEN Fail ELSE stage' = "choosing" /\ UNCHANGED result
         ELSE IF eof' \/ Len(text) = MaxMagicLen THEN Fail /\ UNCHANGED text
         ELSE text' = Append(text, ch') /\ UNCHANGED <<stage, result>>
  BY DEF GetChar
<1>3. CASE Fail /\ UNCHANGED text /\ ~Begins
  BY <1>1, <1>3 DEF Fail, IInv, WhileOpening, WhileMagic, WhileChoosing, WhileReading, AtTheEnd, Begins, Size
<1>4. CASE pos < Size /\ file[pos + 1] = NUL /\ text # <<>>
  <2>0. ~eof'
    BY <1>0, <1>1, <1>4
  <2>1. pos' = pos + 1 /\ ch' = NUL /\ UNCHANGED <<text, result>> /\ stage' = "choosing"
    BY <1>4, <1>g, <2>0
  <2> QED
    BY <1>1, <1>2, <1>4, <2>1 DEF IInv, WhileOpening, WhileMagic, WhileChoosing, WhileReading, AtTheEnd, TextRead
<1>5. CASE pos < Size /\ file[pos + 1] # NUL /\ Len(text) # MaxMagicLen
  <2>0. ~eof'
    BY <1>0, <1>1, <1>5
  <2>1. /\ pos' = pos + 1 /\ ch' = file[pos + 1] /\ ch' # NUL
        /\ text' = Append(text, file[pos + 1]) /\ UNCHANGED <<stage, result>>
    BY <1>5, <1>g, <2>0
  <2>2. text' \in Seq(Chars) /\ TextRead(pos)'
    BY <1>1, <1>5, <2>1, TextGrows DEF TextRead
  <2>3. pos' \in 0..MaxMagicLen /\ pos' <= Size
    BY <1>1, <1>5, <2>1 DEF TextRead
  <2>4. WhileMagic'
    BY <1>1, <1>2, <2>1, <2>2, <2>3 DEF WhileMagic, TextRead
  <2> QED
    BY <1>1, <2>1, <2>2, <2>4 DEF IInv, WhileOpening, WhileChoosing, WhileReading, AtTheEnd
<1>6. CASE pos = Size
  <2>1. ch' = ch /\ eof'
    BY <1>0, <1>6, <1>g
  <2>2. ch = NUL => text = <<>>
    BY <1>1, EmptySeq DEF TextRead
  <2> QED
    BY <1>1, <1>3, <1>6, <1>g, <2>1, <2>2, GivenUp
<1>7. CASE pos < Size /\ file[pos + 1] = NUL /\ text = <<>>
  <2>1. ~eof'
    BY <1>0, <1>1, <1>7
  <2> QED
    BY <1>1, <1>3, <1>7, <1>g, <2>1, GivenUp
<1>8. CASE pos < Size /\ file[pos + 1] # NUL /\ Len(text) = MaxMagicLen
  <2>1. ~eof'
    BY <1>0, <1>1, <1>8
  <2> QED
    BY <1>1, <1>3, <1>8, <1>g, <2>1, GivenUp
<1> QED
  BY <1>1, <1>4, <1>5, <1>6, <1>7, <1>8

\* The text is the magic exactly if the file begins with it.
LEMMA TextIsMagic == ASSUME IInv, stage = "choosing" PROVE text = Known <=> Begins
<1>1. /\ file # NoFile /\ file \in Files /\ pos \in 1..Size /\ pos <= MaxMagicLen + 1 /\ Size \in Nat
      /\ TextRead(pos - 1) /\ file[pos] = NUL /\ text \in Seq(Chars) /\ pos \in Int
  BY KnownText, FileText DEF IInv, WhileChoosing
<1>2. ASSUME text = Known PROVE Begins
  <2>1. pos - 1 = MaxMagicLen
    BY <1>1, <1>2, KnownText DEF TextRead
  <2>2. \A i \in 1..MaxMagicLen : file[i] = Known[i]
    BY <1>1, <1>2, <2>1 DEF TextRead
  <2> QED
    BY <1>1, <2>1, <2>2, KnownText DEF Begins
<1>3. ASSUME Begins PROVE text = Known
  <2>1. pos = MaxMagicLen + 1
    <3>1. ASSUME pos <= MaxMagicLen PROVE FALSE
      <4>1. pos \in 1..MaxMagicLen /\ file[pos] = Known[pos]
        BY <1>1, <1>3, <3>1, KnownText DEF Begins
      <4> QED
        BY <1>1, <4>1, KnownText
    <3> QED
      BY <1>1, <3>1, KnownText
  <2>2. Len(text) = Len(Known) /\ \A i \in 1..Len(text) : text[i] = Known[i]
    BY <1>1, <1>3, <2>1, KnownText DEF Begins, TextRead
  <2> QED
    BY <1>1, <2>2, KnownText, SeqEqual
<1> QED
  BY <1>2, <1>3

\* Every step keeps the invariant.
LEMMA StepInv == IInv /\ [Next]_vars => IInv'
<1> SUFFICES ASSUME IInv, [Next]_vars PROVE IInv'
  OBVIOUS
<1> USE DEF IInv, WhileOpening, WhileMagic, WhileChoosing, WhileReading, AtTheEnd, Begins, TextRead, Size, stream, preparing
<1>1. CASE Open
  <2>1. CASE Fail /\ file = NoFile
    BY <1>1, <2>1 DEF Open, Fail
  <2>2. CASE file # NoFile /\ stage' = "magic" /\ UNCHANGED result
    <3>1. UNCHANGED <<file, text, pos>> /\ pos = 0 /\ text = <<>>
      BY <1>1 DEF Open
    <3> QED
      BY <1>1, <2>2, <3>1, KnownText, FileText DEF Open
  <2> QED
    BY <1>1, <2>1, <2>2 DEF Open
<1>2. CASE GetChar
  BY <1>2, GetCharInv
<1>3. CASE Choose
  BY <1>3, TextIsMagic DEF Choose, Fail
<1>4. CASE Read
  BY <1>4 DEF Read
<1>5. CASE GiveUp
  BY <1>5 DEF GiveUp
<1>6. CASE Prepare
  BY <1>6 DEF Prepare
<1>7. CASE Count
  BY <1>7 DEF Count
<1>8. CASE Complete
  BY <1>8 DEF Complete
<1>9. CASE UNCHANGED vars
  BY <1>9 DEF vars
<1> QED
  BY <1>1, <1>2, <1>3, <1>4, <1>5, <1>6, <1>7, <1>8, <1>9 DEF Next

\* A reader is found exactly for the files that begin with its magic and a NUL,
\* whatever the uninitialised character of read_magic is.
THEOREM KnownFilesCorrect == Spec => []KnownFilesOnly
<1>1. IInv => KnownFilesOnly
  BY BeginsIsPrefix DEF IInv, AtTheEnd, KnownFilesOnly
<1> QED
  BY <1>1, InitInv, StepInv, PTL DEF Spec

-------------------------------------------------------------------------------
(* The reports. *)

Entries == [phase : {"read", "prepare"}, percent : Nat]

Counts == /\ pos \in Nat /\ read \in Nat /\ total \in Nat /\ ready \in Nat
          /\ eof \in BOOLEAN
          /\ progress \in Nat \cup {Unset}
          /\ reports \in Seq(Entries)

\* The reader has not begun.
NothingReported ==
  stage \in {"opening", "magic", "choosing"} =>
    /\ reports = <<>> /\ progress = Unset
    /\ file # NoFile => pos <= Size

\* The last percentage is that of what was read, and none was larger; short of the
\* end of the file no byte was counted that was not there.
ReadSoFar ==
  stage = "reading" =>
    /\ pos <= Size
    /\ eof \/ read <= pos
    /\ progress = Unset => reports = <<>>
    /\ progress # Unset => progress = (read * Hundred) \div Size
    /\ \A i \in DOMAIN reports : reports[i].phase = "read" /\ reports[i].percent <= progress

\* A hundred times the elements is not a number of 32 bits.
Wraps(elements) == (elements + 1) * Hundred >= Limit

\* The same of the elements, as long as the numbers do not wrap.
PreparedSoFar ==
  stage = "preparing" =>
    /\ eof
    /\ total > 0 /\ ready <= total + 1
    /\ progress = PercentOf(ready, total)
    /\ \A i \in DOMAIN reports :
         reports[i].phase = "prepare" => reports[i].percent <= progress \/ Wraps(total)

RInv == Counts /\ NothingReported /\ ReadSoFar /\ PreparedSoFar /\ ReportsRise

\* A percentage rises with what it is of, and passes a hundred only behind the whole.
LEMMA Percents ==
  ASSUME NEW a \in Nat, NEW b \in Nat, NEW whole \in Nat \ {0}, a <= b
  PROVE  /\ (a * Hundred) \div whole \in Nat
         /\ (a * Hundred) \div whole <= (b * Hundred) \div whole
         /\ b <= whole => (b * Hundred) \div whole <= Hundred
<1>1. /\ a * Hundred \in Nat /\ b * Hundred \in Nat /\ a * Hundred <= b * Hundred
      /\ b <= whole => b * Hundred <= whole * Hundred
  OBVIOUS
<1>2. ASSUME NEW x \in Nat, NEW y \in Nat, x <= y
      PROVE  x \div whole \in Nat /\ x \div whole <= y \div whole
  BY <1>2
<1>3. ASSUME NEW x \in Nat, x <= whole * Hundred PROVE x \div whole <= Hundred
  BY <1>3
<1> QED
  BY <1>1, <1>2, <1>3

\* So does that of prepare, as long as the product does not wrap; past a hundred it
\* never comes before the whole, wrapped or not.
LEMMA PreparePercents ==
  ASSUME NEW a \in Nat, NEW b \in Nat, NEW whole \in Nat \ {0}, a <= b, b <= whole + 1
  PROVE  /\ PercentOf(a, whole) \in Nat
         /\ PercentOf(a, whole) <= PercentOf(b, whole) \/ Wraps(whole)
         /\ b <= whole => PercentOf(b, whole) <= Hundred
<1>1. /\ a * Hundred \in Nat /\ b * Hundred \in Nat
      /\ a * Hundred <= b * Hundred /\ b * Hundred <= (whole + 1) * Hundred
      /\ b <= whole => b * Hundred <= whole * Hundred
  OBVIOUS
<1>2. ASSUME NEW x \in Nat
      PROVE  x % Limit \in Nat /\ x % Limit <= x /\ (x < Limit => x % Limit = x)
  OBVIOUS
<1>3. ASSUME NEW x \in Nat, NEW y \in Nat, x <= y
      PROVE  x \div whole \in Nat /\ x \div whole <= y \div whole
  BY <1>3
<1>4. ASSUME NEW x \in Nat, x <= whole * Hundred PROVE x \div whole <= Hundred
  BY <1>4
<1>5. PercentOf(a, whole) \in Nat
  BY <1>1, <1>2, <1>3 DEF PercentOf
<1>6. ASSUME ~Wraps(whole) PROVE PercentOf(a, whole) <= PercentOf(b, whole)
  <2>1. b * Hundred < Limit /\ a * Hundred < Limit
    BY <1>1, <1>6 DEF Wraps
  <2> QED
    BY <1>1, <1>2, <1>3, <2>1 DEF PercentOf
<1>7. ASSUME b <= whole PROVE PercentOf(b, whole) <= Hundred
  <2>1. b * Hundred \in Nat /\ b * Hundred <= whole * Hundred /\ whole * Hundred \in Nat
    BY <1>1, <1>7
  <2>2. (b * Hundred) % Limit \in Nat /\ (b * Hundred) % Limit <= b * Hundred
    BY <1>2, <2>1
  <2>3. (b * Hundred) % Limit <= whole * Hundred
    BY <2>1, <2>2
  <2> QED
    BY <1>4, <2>2, <2>3 DEF PercentOf
<1> QED
  BY <1>5, <1>6, <1>7

\* A step without a report.
LEMMA StillRising ==
  ASSUME ReportsRise, UNCHANGED reports, eof => eof', total' = total, ready' = ready
  PROVE  ReportsRise'
BY DEF ReportsRise

\* A report that is larger than those of its part so far.
LEMMA RisesOn ==
  ASSUME Counts, ReportsRise, eof => eof',
         NEW phase \in {"read", "prepare"}, NEW percent \in Nat,
         reports' = Append(reports, [phase |-> phase, percent |-> percent]),
         \A i \in DOMAIN reports :
           /\ reports[i].phase = phase =>
                reports[i].percent < percent \/ (phase = "prepare" /\ Wraps(total'))
           /\ reports[i].phase = "prepare" => total' = total /\ (ready > total => ready' > total'),
         percent > Hundred => IF phase = "read" THEN eof' ELSE ready' > total'
  PROVE  /\ ReportsRise' /\ (reports \in Seq(Entries))'
         /\ \A i \in DOMAIN reports' : \/ i \in DOMAIN reports /\ reports'[i] = reports[i]
                                       \/ reports'[i].phase = phase /\ reports'[i].percent = percent
<1> DEFINE entry == [phase |-> phase, percent |-> percent]
<1>1. entry \in Entries /\ reports \in Seq(Entries)
  BY DEF Entries, Counts
<1>2. /\ reports' \in Seq(Entries) /\ Len(reports') = Len(reports) + 1 /\ Len(reports) \in Nat
      /\ \A i \in 1..Len(reports) : reports'[i] = reports[i]
      /\ reports'[Len(reports) + 1] = entry
      /\ DOMAIN reports' = 1..(Len(reports) + 1) /\ DOMAIN reports = 1..Len(reports)
  BY <1>1, AppendProperties, LenProperties
<1>0. \A i \in DOMAIN reports : reports[i].phase \in {"read", "prepare"}
  <2>1. \A i \in DOMAIN reports : reports[i] \in Entries
    BY <1>1, ElementOfSeq, LenProperties
  <2> QED
    BY <2>1 DEF Entries
<1>3. entry.phase = phase /\ entry.percent = percent
  OBVIOUS
<1> HIDE DEF entry
<1>4. \A i \in DOMAIN reports' : \/ i \in DOMAIN reports /\ reports'[i] = reports[i]
                                 \/ i = Len(reports) + 1 /\ reports'[i] = entry
  BY <1>2
<1>5. ASSUME NEW i \in DOMAIN reports', NEW j \in DOMAIN reports', i < j,
             reports'[i].phase = reports'[j].phase
      PROVE  \/ reports'[i].percent < reports'[j].percent
             \/ reports'[i].phase = "prepare" /\ (total' + 1) * Hundred >= Limit
  <2>1. i \in DOMAIN reports /\ reports'[i] = reports[i]
    BY <1>2, <1>5
  <2>2. CASE j \in DOMAIN reports /\ reports'[j] = reports[j]
    BY <1>5, <2>1, <2>2 DEF ReportsRise
  <2>3. CASE reports'[j] = entry
    BY <1>3, <1>5, <2>1, <2>3 DEF Wraps
  <2> QED
    BY <1>4, <2>2, <2>3
<1>6. ASSUME NEW i \in DOMAIN reports', reports'[i].percent > Hundred
      PROVE  IF reports'[i].phase = "read" THEN eof' ELSE ready' > total'
  <2>1. CASE i \in DOMAIN reports /\ reports'[i] = reports[i]
    <3>1. reports[i].phase \in {"read", "prepare"}
      BY <1>0, <2>1
    <3> QED
      BY <1>6, <2>1, <3>1 DEF ReportsRise
  <2>2. CASE reports'[i] = entry
    BY <1>3, <1>6, <2>2
  <2> QED
    BY <1>4, <2>1, <2>2
<1>7. ReportsRise'
  BY <1>5, <1>6 DEF ReportsRise
<1> QED
  BY <1>2, <1>3, <1>4, <1>7

\* Nothing is reported before the reader is chosen.
LEMMA InitReports == Init => RInv
<1> SUFFICES ASSUME Init PROVE RInv
  OBVIOUS
<1>1. reports = <<>> /\ stage = "opening" /\ progress = Unset
  BY DEF Init
<1>2. Counts
  BY EmptySeq DEF Init, Counts
<1>3. NothingReported
  BY <1>1, FileText DEF Init, NothingReported
<1> QED
  BY <1>1, <1>2, <1>3 DEF RInv, ReadSoFar, PreparedSoFar, ReportsRise

\* A file that a reader was found for is not empty.
LEMMA NotEmpty == ASSUME IInv, stage \in {"reading", "preparing"} PROVE Size \in Nat \ {0}
BY FileText, KnownText DEF IInv, WhileReading, Begins

\* Up to the choice of the reader.
LEMMA BeforeReports ==
  ASSUME IInv, RInv, Open \/ GetChar \/ Choose
  PROVE  RInv'
<1>0. reports = <<>> /\ progress = Unset /\ (file # NoFile => pos <= Size)
  BY DEF RInv, NothingReported, Open, GetChar, Choose
<1>1. UNCHANGED <<file, total, ready, progress, reports>>
  BY DEF Open, GetChar, Choose, preparing
<1>2. ReportsRise'
  BY <1>0, <1>1 DEF ReportsRise
<1>3. CASE Open
  <2>1. UNCHANGED <<pos, eof, read>> /\ stage' \in {"done", "magic"}
    BY <1>3 DEF Open, Fail, stream
  <2> QED
    BY <1>0, <1>1, <1>2, <2>1 DEF RInv, Counts, NothingReported, ReadSoFar, PreparedSoFar, Size
<1>4. CASE GetChar
  <2>0. eof' \in BOOLEAN
    BY <1>4 DEF GetChar
  <2>1. /\ stage' \in {"done", "magic", "choosing"} /\ read' = read
        /\ pos = Size => pos' = pos
        /\ pos # Size => pos' = pos + 1
    BY <1>4 DEF GetChar, Fail
  <2>2. file # NoFile /\ Size \in Nat /\ pos <= Size /\ pos \in Nat
    BY <1>0, <1>4, FileText DEF IInv, WhileMagic, GetChar, RInv, Counts
  <2>3. pos' \in Nat /\ pos' <= Size /\ eof' \in BOOLEAN
    BY <2>0, <2>1, <2>2
  <2> QED
    BY <1>0, <1>1, <1>2, <2>1, <2>3 DEF RInv, Counts, NothingReported, ReadSoFar, PreparedSoFar, Size
<1>5. CASE Choose
  <2>1. /\ stage' \in {"done", "reading"} /\ read' = pos /\ UNCHANGED <<pos, eof>>
        /\ file # NoFile
    BY <1>5 DEF Choose, Fail, IInv, WhileChoosing
  <2>2. pos' <= Size' /\ read' <= pos' /\ read' \in Nat
    BY <1>0, <1>1, <2>1 DEF RInv, Counts, Size
  <2> QED
    BY <1>0, <1>1, <1>2, <2>1, <2>2 DEF RInv, Counts, NothingReported, ReadSoFar, PreparedSoFar
<1> QED
  BY <1>3, <1>4, <1>5

\* A read counts on, and counts no byte that is not there unless the end was met.
LEMMA ReadCounts ==
  ASSUME IInv, RInv, Read
  PROVE  /\ pos' \in Nat /\ read' \in Nat /\ eof' \in BOOLEAN
         /\ pos' <= Size /\ read <= read' /\ (eof => eof')
         /\ eof' \/ read' <= pos'
<1>1. PICK n \in 1..2, block \in BOOLEAN :
        /\ eof' = (eof \/ pos + n > Size)
        /\ pos' = IF eof' THEN Size ELSE pos + n
        /\ read' = IF eof' /\ block THEN read ELSE read + n
  BY DEF Read, Counted
<1>2. /\ Size \in Nat /\ pos \in Nat /\ read \in Nat /\ eof \in BOOLEAN
      /\ pos <= Size /\ (eof \/ read <= pos)
  BY NotEmpty DEF Read, RInv, Counts, ReadSoFar
<1>3. eof' \in BOOLEAN /\ (eof => eof') /\ (~eof' => ~eof /\ ~(pos + n > Size))
  BY <1>1
<1>4. CASE eof'
  <2>1. pos' = Size /\ (read' = read \/ read' = read + n)
    BY <1>1, <1>4
  <2> QED
    BY <1>2, <1>3, <1>4, <2>1
<1>5. CASE ~eof'
  <2>1. pos' = pos + n /\ read' = read + n
    BY <1>1, <1>5
  <2> QED
    BY <1>2, <1>3, <1>5, <2>1
<1> QED
  BY <1>4, <1>5

\* What a read reports.
LEMMA ReadReports == ASSUME IInv, RInv, Read PROVE RInv'
<1> DEFINE percent == (read' * Hundred) \div Size
<1>1. /\ stage = "reading" /\ UNCHANGED <<file, stage, total, ready>> /\ Size' = Size
      /\ Size \in Nat \ {0} /\ read \in Nat /\ reports \in Seq(Entries)
      /\ Counts /\ ReadSoFar /\ ReportsRise
  BY NotEmpty DEF Read, RInv, Counts, preparing, Size
<1>2. /\ pos' \in Nat /\ read' \in Nat /\ eof' \in BOOLEAN
      /\ pos' <= Size /\ read <= read' /\ (eof => eof')
      /\ eof' \/ read' <= pos'
  BY ReadCounts
<1>3. /\ percent \in Nat
      /\ (read * Hundred) \div Size <= percent /\ (read * Hundred) \div Size \in Nat
      /\ ~eof' => percent <= Hundred
  <2>1. ~eof' => read' <= Size
    BY <1>1, <1>2
  <2>2. /\ (read * Hundred) \div Size \in Nat
        /\ (read * Hundred) \div Size <= (read' * Hundred) \div Size
        /\ read' <= Size => (read' * Hundred) \div Size <= Hundred
    BY <1>1, <1>2, Percents, Zenon
  <2>3. (read' * Hundred) \div Size \in Nat
    <3>1. read' <= read'
      BY <1>2
    <3> QED
      BY <1>1, <1>2, <3>1, Percents, Zenon
  <2> QED
    BY <2>1, <2>2, <2>3
<1>4. /\ \/ percent # progress /\ progress' = percent
            /\ reports' = Append(reports, [phase |-> "read", percent |-> percent])
         \/ percent = progress /\ UNCHANGED <<progress, reports>>
  BY DEF Read, Report
<1> HIDE DEF percent
<1>5. /\ progress = Unset => reports = <<>>
      /\ progress # Unset => progress = (read * Hundred) \div Size
      /\ \A i \in DOMAIN reports : reports[i].phase = "read" /\ reports[i].percent <= progress
      /\ progress \in Nat \cup {Unset}
  BY <1>1 DEF ReadSoFar, Counts
<1>6. \A i \in DOMAIN reports : reports[i].percent \in Nat
  <2>1. \A i \in DOMAIN reports : reports[i] \in Entries
    BY <1>1, ElementOfSeq, LenProperties
  <2> QED
    BY <2>1 DEF Entries
<1>7. /\ progress' = percent /\ ReportsRise' /\ (reports \in Seq(Entries))'
      /\ \A i \in DOMAIN reports' : reports'[i].phase = "read" /\ reports'[i].percent <= percent
  <2>1. CASE percent = progress /\ UNCHANGED <<progress, reports>>
    BY <1>1, <1>2, <1>5, <2>1, StillRising
  <2>2. CASE /\ percent # progress /\ progress' = percent
             /\ reports' = Append(reports, [phase |-> "read", percent |-> percent])
    <3>1. \A i \in DOMAIN reports : reports[i].phase = "read" /\ reports[i].percent < percent
      <4>1. CASE progress = Unset
        BY <1>5, <4>1
      <4>2. CASE progress # Unset
        BY <1>3, <1>5, <1>6, <2>2, <4>2
      <4> QED
        BY <4>1, <4>2
    <3>2. percent > Hundred => eof'
      BY <1>3
    <3>3. /\ ReportsRise' /\ (reports \in Seq(Entries))'
          /\ \A i \in DOMAIN reports' : \/ i \in DOMAIN reports /\ reports'[i] = reports[i]
                                        \/ reports'[i].phase = "read" /\ reports'[i].percent = percent
      BY <1>1, <1>2, <1>3, <2>2, <3>1, <3>2, RisesOn
    <3> QED
      BY <1>3, <1>6, <2>2, <3>1, <3>3
  <2> QED
    BY <1>4, <2>1, <2>2
<1>8. Counts'
  BY <1>1, <1>2, <1>3, <1>7 DEF Counts
<1>9. ReadSoFar'
  <2>1. progress' = (read' * Hundred) \div Size'
    BY <1>1, <1>7 DEF percent
  <2>2. progress' # Unset
    BY <1>3, <1>7 DEF Unset
  <2> QED
    BY <1>1, <1>2, <1>7, <2>1, <2>2 DEF ReadSoFar
<1> QED
  BY <1>1, <1>7, <1>8, <1>9 DEF RInv, NothingReported, PreparedSoFar

\* The first report of prepare, of nothing.
LEMMA PrepareReports == ASSUME IInv, RInv, Prepare PROVE RInv'
<1>1. /\ stage = "reading" /\ eof /\ UNCHANGED <<file, pos, eof, read>>
      /\ total' \in Nat /\ ready' = 0 /\ stage' \in {"crashed", "preparing"}
      /\ Counts /\ ReadSoFar /\ ReportsRise
  BY DEF Prepare, RInv, Counts, stream
<1>2. \A i \in DOMAIN reports : reports[i].phase = "read"
  BY <1>1 DEF ReadSoFar
<1>3. CASE total' = 0
  <2>1. stage' = "crashed" /\ UNCHANGED <<progress, reports>>
    BY <1>3 DEF Prepare
  <2>2. ReportsRise'
    BY <1>1, <1>2, <2>1 DEF ReportsRise
  <2> QED
    BY <1>1, <2>1, <2>2 DEF RInv, Counts, NothingReported, ReadSoFar, PreparedSoFar
<1>4. CASE total' # 0
  <2> DEFINE percent == PercentOf(0, total')
  <2>1. /\ stage' = "preparing" /\ progress' = percent
        /\ reports' = Append(reports, [phase |-> "prepare", percent |-> percent])
    BY <1>4 DEF Prepare
  <2>2. percent \in Nat /\ percent <= Hundred
    BY <1>1, <1>4, PreparePercents
  <2> HIDE DEF percent
  <2>3. ~(percent > Hundred)
    BY <2>2
  <2>4. /\ ReportsRise' /\ (reports \in Seq(Entries))'
        /\ \A i \in DOMAIN reports' : \/ i \in DOMAIN reports /\ reports'[i] = reports[i]
                                      \/ reports'[i].phase = "prepare" /\ reports'[i].percent = percent
    BY <1>1, <1>2, <2>1, <2>2, <2>3, RisesOn
  <2>5. \A i \in DOMAIN reports' : reports'[i].phase = "prepare" => reports'[i].percent <= percent
    BY <1>2, <2>2, <2>4
  <2>6. progress' = PercentOf(ready', total')
    BY <1>1, <2>1 DEF percent
  <2>7. Counts'
    BY <1>1, <2>1, <2>2, <2>4 DEF Counts
  <2>8. PreparedSoFar'
    <3>1. total' > 0 /\ ready' <= total' + 1
      <4>1. \A n \in Nat : n # 0 => n > 0 /\ 0 <= n + 1
        OBVIOUS
      <4>2. total' \in Nat /\ total' # 0 /\ ready' = 0
        BY <1>1, <1>4
      <4> QED
        BY <4>1, <4>2, Zenon
    <3>2. eof'
      BY <1>1
    <3>3. \A i \in DOMAIN reports' : reports'[i].phase = "prepare" => reports'[i].percent <= progress'
      BY <2>1, <2>5
    <3> QED
      BY <2>6, <3>1, <3>2, <3>3 DEF PreparedSoFar
  <2> QED
    BY <2>1, <2>4, <2>7, <2>8 DEF RInv, NothingReported, ReadSoFar
<1> QED
  BY <1>3, <1>4

\* The report of an element.
LEMMA CountReports == ASSUME IInv, RInv, Count PROVE RInv'
<1> DEFINE percent == PercentOf(ready', total)
<1>1. /\ stage = "preparing" /\ UNCHANGED <<file, stage, pos, eof, read, total>>
      /\ ready <= total /\ ready' = ready + 1 /\ ready \in Nat /\ total \in Nat \ {0} /\ eof
      /\ Counts /\ ReportsRise
      /\ progress = PercentOf(ready, total)
      /\ \A i \in DOMAIN reports :
           reports[i].phase = "prepare" => reports[i].percent <= progress \/ Wraps(total)
  BY DEF Count, RInv, Counts, PreparedSoFar, stream
<1>2. ready' \in Nat /\ ready <= ready' /\ ready' <= total + 1
  BY <1>1
<1>3. /\ percent \in Nat /\ PercentOf(ready, total) \in Nat
      /\ PercentOf(ready, total) <= percent \/ Wraps(total)
      /\ ready' <= total => percent <= Hundred
  <2>1. percent \in Nat
    BY <1>1, <1>2, PreparePercents
  <2>2. /\ PercentOf(ready, total) \in Nat
        /\ PercentOf(ready, total) <= percent \/ Wraps(total)
        /\ ready' <= total => percent <= Hundred
    BY <1>1, <1>2, PreparePercents
  <2> QED
    BY <2>1, <2>2
<1>4. /\ \/ percent # progress /\ progress' = percent
            /\ reports' = Append(reports, [phase |-> "prepare", percent |-> percent])
         \/ percent = progress /\ UNCHANGED <<progress, reports>>
  BY DEF Count, Report
<1> HIDE DEF percent
<1>5. \A i \in DOMAIN reports : reports[i].percent \in Nat
  <2>1. \A i \in DOMAIN reports : reports[i] \in Entries
    BY <1>1, ElementOfSeq, LenProperties DEF Counts
  <2> QED
    BY <2>1 DEF Entries
<1>6. /\ progress' = percent /\ ReportsRise' /\ (reports \in Seq(Entries))'
      /\ \A i \in DOMAIN reports' :
           reports'[i].phase = "prepare" => reports'[i].percent <= percent \/ Wraps(total)
  <2>1. CASE percent = progress /\ UNCHANGED <<progress, reports>>
    <3>1. ReportsRise'
      <4>1. \A i \in DOMAIN reports : reports[i].percent > Hundred =>
              IF reports[i].phase = "read" THEN eof ELSE ready' > total
        BY <1>1 DEF ReportsRise
      <4> QED
        BY <1>1, <2>1, <4>1 DEF ReportsRise
    <3> QED
      BY <1>1, <2>1, <3>1 DEF Counts
  <2>2. CASE /\ percent # progress /\ progress' = percent
             /\ reports' = Append(reports, [phase |-> "prepare", percent |-> percent])
    <3>1. \A i \in DOMAIN reports :
            /\ reports[i].phase = "prepare" => reports[i].percent < percent \/ Wraps(total')
            /\ total' = total /\ (ready > total => ready' > total')
      <4>1. CASE Wraps(total)
        BY <1>1, <4>1
      <4>2. CASE ~Wraps(total)
        BY <1>1, <1>3, <1>5, <2>2, <4>2
      <4> QED
        BY <4>1, <4>2
    <3>2. percent > Hundred => ready' > total'
      BY <1>1, <1>2, <1>3
    <3>3. /\ ReportsRise' /\ (reports \in Seq(Entries))'
          /\ \A i \in DOMAIN reports' : \/ i \in DOMAIN reports /\ reports'[i] = reports[i]
                                        \/ reports'[i].phase = "prepare" /\ reports'[i].percent = percent
      BY <1>1, <1>3, <2>2, <3>1, <3>2, RisesOn
    <3>4. \A i \in DOMAIN reports' :
            reports'[i].phase = "prepare" => reports'[i].percent <= percent \/ Wraps(total)
      <4>1. CASE Wraps(total)
        BY <4>1
      <4>2. CASE ~Wraps(total)
        BY <1>1, <1>3, <1>5, <3>1, <3>3, <4>2
      <4> QED
        BY <4>1, <4>2
    <3> QED
      BY <2>2, <3>3, <3>4
  <2> QED
    BY <1>4, <2>1, <2>2
<1>7. Counts'
  BY <1>1, <1>2, <1>3, <1>6 DEF Counts
<1>8. progress' = PercentOf(ready', total')
  BY <1>1, <1>6 DEF percent
<1>9. PreparedSoFar'
  BY <1>1, <1>2, <1>6, <1>8 DEF PreparedSoFar
<1> QED
  BY <1>1, <1>6, <1>7, <1>9 DEF RInv, NothingReported, ReadSoFar

\* Every step keeps the invariant of the reports.
LEMMA StepReports == IInv /\ RInv /\ [Next]_vars => RInv'
<1> SUFFICES ASSUME IInv, RInv, [Next]_vars PROVE RInv'
  OBVIOUS
<1>1. CASE Open \/ GetChar \/ Choose
  BY <1>1, BeforeReports
<1>2. CASE Read
  BY <1>2, ReadReports
<1>3. CASE Prepare
  BY <1>3, PrepareReports
<1>4. CASE Count
  BY <1>4, CountReports
<1>5. CASE GiveUp \/ Complete
  <2>1. /\ stage' = "done"
        /\ UNCHANGED <<file, pos, eof, read, total, ready, progress, reports>>
    BY <1>5 DEF GiveUp, Complete, stream, preparing
  <2>2. ReportsRise'
    BY <2>1, StillRising DEF RInv
  <2> QED
    BY <2>1, <2>2 DEF RInv, Counts, NothingReported, ReadSoFar, PreparedSoFar
<1>6. CASE UNCHANGED vars
  <2>1. UNCHANGED <<file, stage, pos, eof, read, total, ready, progress, reports>>
    BY <1>6 DEF vars, stream, preparing
  <2> QED
    BY <2>1 DEF RInv, Counts, NothingReported, ReadSoFar, PreparedSoFar, ReportsRise, Size
<1> QED
  BY <1>1, <1>2, <1>3, <1>4, <1>5, <1>6 DEF Next

\* The reports of each part rise, as long as the product of prepare does not wrap, and
\* pass a hundred percent only where more was counted than there is.
THEOREM ReportsCorrect == Spec => []ReportsRise
<1>1. IInv /\ RInv => ReportsRise
  BY DEF RInv
<1> QED
  BY <1>1, InitInv, StepInv, InitReports, StepReports, PTL DEF Spec
===============================================================================
