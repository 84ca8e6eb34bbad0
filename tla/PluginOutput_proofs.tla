------------------------- MODULE PluginOutput_proofs --------------------------
(***************************************************************************)
(* The properties of PluginOutput for every maxLine, and for chunks and    *)
(* streams of every length.  The log is computed by folds over the bytes   *)
(* of a chunk, and what it should be by folds over the whole stream; that  *)
(* they agree is shown byte by byte, by the inductions of FoldLemmas.      *)
(***************************************************************************)
EXTENDS PluginOutput, FoldLemmas

Text == Seq({"char", "cr"})
Entry == {e \in Text : e # <<>> /\ Len(e) <= MaxLine}

-----------------------------------------------------------------------------
(* What emit logs of a line.                                               *)

LEMMA EntriesType ==
    ASSUME NEW line \in Text
    PROVE  Entries(line) \in Seq(Entry)
<1>1. TrimCR(line) \in Text
  BY DEF TrimCR, Text, Last, Front
<1>2. Truncate(TrimCR(line)) \in Text /\ Len(Truncate(TrimCR(line))) <= MaxLine
  BY <1>1, OutputAssumption DEF Truncate, Text
<1> DEFINE text == Truncate(TrimCR(line))
<1>3. text # <<>> => text \in Entry
  BY <1>2 DEF Entry
<1>4. <<>> \in Seq(Entry) /\ (text # <<>> => <<text>> \in Seq(Entry))
  <2> HIDE DEF text
  <2> QED
    BY <1>3
<1> QED
  BY <1>4 DEF Entries

LEMMA EntriesOfNothing == Entries(<<>>) = <<>>
  BY OutputAssumption DEF Entries, TrimCR, Truncate

\* What follows the first maxLine bytes of a line is not in its entry, as long
\* as no carriage return is taken for its end.
LEMMA EntriesOfLonger ==
    ASSUME NEW line \in Seq({"char"}), Len(line) >= MaxLine, NEW byte \in {"char"}
    PROVE  Entries(Append(line, byte)) = Entries(line)
<1> DEFINE longer == Append(line, byte)
<1>1. /\ Len(line) \in Nat /\ Len(line) > 0
      /\ longer \in Seq({"char"}) /\ Len(longer) = Len(line) + 1
      /\ \A i \in 1..Len(line) : longer[i] = line[i]
  BY OutputAssumption
<1> HIDE DEF longer
<1>2. TrimCR(line) = line /\ TrimCR(longer) = longer
  BY <1>1 DEF TrimCR, Last
<1>3. Truncate(longer) = SubSeq(longer, 1, MaxLine)
  BY <1>1, OutputAssumption DEF Truncate
<1>4. SubSeq(longer, 1, MaxLine) = SubSeq(line, 1, MaxLine)
  BY <1>1, OutputAssumption
<1>5. Truncate(line) = SubSeq(line, 1, MaxLine)
  BY <1>1, OutputAssumption DEF Truncate
<1> QED
  BY <1>2, <1>3, <1>4, <1>5 DEF Entries, longer

-----------------------------------------------------------------------------
(* The fold of Write.                                                      *)

Writer == [buffer: Text, log: Seq(Entry)]

AbsorbStep == [x \in Writer \X Byte |-> Absorb(x[1], x[2])]

LEMMA EmitType ==
    ASSUME NEW w \in Writer
    PROVE  Emit(w) \in Writer
<1>1. w.buffer \in Text /\ w.log \in Seq(Entry)
  BY DEF Writer
<1>2. w.log \o Entries(w.buffer) \in Seq(Entry) /\ <<>> \in Text
  BY <1>1, EntriesType DEF Text
<1> QED
  BY <1>2 DEF Writer, Emit

LEMMA AbsorbType ==
    ASSUME NEW w \in Writer, NEW byte \in Byte
    PROVE  Absorb(w, byte) \in Writer
<1>1. CASE byte = "lf"
  BY <1>1, EmitType DEF Absorb
<1>2. CASE byte # "lf"
  <2>1. w.buffer \in Text /\ byte \in {"char", "cr"}
    BY <1>2 DEF Writer, Byte
  <2>2. Append(w.buffer, byte) \in Text
    BY <2>1 DEF Text
  <2> QED
    BY <1>2, <2>2 DEF Writer, Absorb
<1> QED
  BY <1>1, <1>2

LEMMA AbsorbSteps == Steps(AbsorbStep, Writer, Byte)
  BY AbsorbType DEF Steps, AbsorbStep

LEMMA AbsorbFolded ==
    ASSUME NEW w \in Writer, NEW p \in Seq(Byte)
    PROVE  FoldLeft(Absorb, w, p) = Folded(AbsorbStep, w, p)
<1> DEFINE Solves(f) == f = [T \in SUBSET DOMAIN p |->
               IF T = {} THEN w ELSE Absorb(f[T \ {Max(T)}], p[Max(T)])]
           h == CHOOSE f : Solves(f)
<1>1. FoldLeft(Absorb, w, p) = h[DOMAIN p]
  BY DEF FoldLeft, MapThenFoldSet
<1>2. Solves(h)
  <2>1. PICK f : FoldsLeft(f, AbsorbStep, w, p) /\ FoldsWithin(f, p, Writer, Byte)
    BY AbsorbSteps, FoldLeftExists
  <2>2. Solves(f)
    BY <2>1 DEF FoldsLeft, FoldsWithin, AbsorbStep
  <2> HIDE DEF Solves
  <2> QED
    BY <2>2
<1> HIDE DEF h
<1>3. FoldsPrefixes(h, AbsorbStep, w, p, Writer)
  <2>1. h[1..0] = w
    BY <1>2, LastOfPrefix
  <2>2. ASSUME NEW i \in 1..Len(p) PROVE h[1..i] = Absorb(h[1..(i - 1)], p[i])
    BY <1>2, LastOfPrefix
  <2>3. \A i \in 1..Len(p) : p[i] \in Byte
    OBVIOUS
  <2> QED
    BY <2>1, <2>2, <2>3 DEF FoldsPrefixes, AbsorbStep
<1> QED
  BY <1>1, <1>3, AbsorbSteps, FoldedIs, LastOfPrefix

LEMMA AbsorbEquation ==
    ASSUME NEW w \in Writer
    PROVE  /\ FoldLeft(Absorb, w, <<>>) = w
           /\ \A p \in Seq(Byte), byte \in Byte :
                  FoldLeft(Absorb, w, Append(p, byte)) = Absorb(FoldLeft(Absorb, w, p), byte)
           /\ \A p \in Seq(Byte) : FoldLeft(Absorb, w, p) \in Writer
<1>1. FoldLeft(Absorb, w, <<>>) = w
  <2>1. <<>> \in Seq(Byte)
    OBVIOUS
  <2> QED
    BY <2>1, AbsorbFolded, AbsorbSteps, FoldedEmpty
<1>2. ASSUME NEW p \in Seq(Byte)
      PROVE  FoldLeft(Absorb, w, p) \in Writer
  BY AbsorbFolded, AbsorbSteps, FoldedType
<1>3. ASSUME NEW p \in Seq(Byte), NEW byte \in Byte
      PROVE  FoldLeft(Absorb, w, Append(p, byte)) = Absorb(FoldLeft(Absorb, w, p), byte)
  <2>1. Append(p, byte) \in Seq(Byte)
    OBVIOUS
  <2>2. Folded(AbsorbStep, w, Append(p, byte)) = AbsorbStep[<<Folded(AbsorbStep, w, p), byte>>]
    BY AbsorbSteps, FoldedAppend
  <2>3. Folded(AbsorbStep, w, p) \in Writer
    BY AbsorbSteps, FoldedType
  <2> QED
    BY <2>1, <2>2, <2>3, AbsorbFolded DEF AbsorbStep
<1> QED
  BY <1>1, <1>2, <1>3

-----------------------------------------------------------------------------
(* The lines of a stream.                                                  *)

\* The characters of a stream are in C, a set that says whether there is a
\* carriage return among them.
LinesOver(C) == {lines \in Seq(Seq(C)) : lines # <<>>}

SplitBy(lines, byte) ==
    IF byte = "lf" THEN Append(lines, <<>>)
    ELSE [lines EXCEPT ![Len(lines)] = Append(lines[Len(lines)], byte)]

NoLines == <<<<>>>>

BytesOver(C) == C \union {"lf"}

SplitStep(C) == [x \in LinesOver(C) \X BytesOver(C) |-> SplitBy(x[1], x[2])]

LEMMA SplitOther ==
    ASSUME NEW C, "lf" \notin C, NEW lines \in LinesOver(C), NEW byte \in C
    PROVE  /\ SplitBy(lines, byte) = Append(Front(lines), Append(Last(lines), byte))
           /\ SplitBy(lines, byte) \in LinesOver(C)
<1> DEFINE E == Seq(C)
           e == Append(Last(lines), byte)
<1>1. lines \in Seq(E) /\ lines # <<>>
  BY DEF LinesOver
<1>2. Front(lines) \in Seq(E) /\ Last(lines) \in E
  <2> HIDE DEF E
  <2> QED
    BY <1>1, FrontLast
<1>3. e \in E
  BY <1>2, AppendProperties
<1>4. SplitBy(lines, byte) = [lines EXCEPT ![Len(lines)] = e]
  BY DEF SplitBy, Last
<1> HIDE DEF E, e
<1>5. SplitBy(lines, byte) = Append(Front(lines), e)
  BY <1>1, <1>3, <1>4, ExceptLast
<1>6. Append(Front(lines), e) \in Seq(E) /\ Append(Front(lines), e) # <<>>
  BY <1>2, <1>3, AppendProperties
<1> QED
  BY <1>5, <1>6 DEF E, e, LinesOver

LEMMA SplitLf ==
    ASSUME NEW C, NEW lines \in LinesOver(C)
    PROVE  SplitBy(lines, "lf") = Append(lines, <<>>) /\ SplitBy(lines, "lf") \in LinesOver(C)
<1> DEFINE E == Seq(C)
           e == <<>>
<1>1. lines \in Seq(E) /\ e \in E
  BY DEF LinesOver
<1>2. SplitBy(lines, "lf") = Append(lines, e)
  BY DEF SplitBy
<1> HIDE DEF E, e
<1>3. Append(lines, e) \in Seq(E) /\ Append(lines, e) # <<>>
  BY <1>1, AppendProperties
<1> QED
  BY <1>2, <1>3 DEF E, e, LinesOver

LEMMA SplitSteps ==
    ASSUME NEW C, "lf" \notin C
    PROVE  Steps(SplitStep(C), LinesOver(C), BytesOver(C)) /\ NoLines \in LinesOver(C)
<1>1. ASSUME NEW lines \in LinesOver(C), NEW byte \in BytesOver(C)
      PROVE  SplitBy(lines, byte) \in LinesOver(C)
  BY SplitOther, SplitLf DEF BytesOver
<1>2. NoLines \in LinesOver(C)
  BY DEF LinesOver, NoLines
<1> QED
  BY <1>1, <1>2 DEF Steps, SplitStep

LEMMA LinesFolded ==
    ASSUME NEW C, "lf" \notin C, NEW s \in Seq(BytesOver(C))
    PROVE  Lines(s) = Folded(SplitStep(C), NoLines, s)
<1> DEFINE Solves(f) == f = [T \in SUBSET DOMAIN s |->
               IF T = {} THEN NoLines ELSE SplitBy(f[T \ {Max(T)}], s[Max(T)])]
           h == CHOOSE f : Solves(f)
<1>1. Lines(s) = h[DOMAIN s]
  BY DEF NoLines, Lines, FoldLeft, MapThenFoldSet, SplitBy
<1>2. Solves(h)
  <2>1. PICK f : /\ FoldsLeft(f, SplitStep(C), NoLines, s)
                 /\ FoldsWithin(f, s, LinesOver(C), BytesOver(C))
    BY SplitSteps, FoldLeftExists
  <2>2. Solves(f)
    BY <2>1 DEF FoldsLeft, FoldsWithin, SplitStep
  <2> HIDE DEF Solves
  <2> QED
    BY <2>2
<1> HIDE DEF h
<1>3. FoldsPrefixes(h, SplitStep(C), NoLines, s, LinesOver(C))
  <2>1. h[1..0] = NoLines
    BY <1>2, LastOfPrefix
  <2>2. ASSUME NEW i \in 1..Len(s) PROVE h[1..i] = SplitBy(h[1..(i - 1)], s[i])
    BY <1>2, LastOfPrefix
  <2>3. \A i \in 1..Len(s) : s[i] \in BytesOver(C)
    OBVIOUS
  <2> QED
    BY <2>1, <2>2, <2>3 DEF FoldsPrefixes, SplitStep
<1> QED
  BY <1>1, <1>3, SplitSteps, FoldedIs, LastOfPrefix

LEMMA LinesEquation ==
    ASSUME NEW C, "lf" \notin C
    PROVE  /\ Lines(<<>>) = NoLines
           /\ \A s \in Seq(BytesOver(C)) : Lines(s) \in LinesOver(C)
           /\ \A s \in Seq(BytesOver(C)), byte \in BytesOver(C) :
                  Lines(Append(s, byte)) = SplitBy(Lines(s), byte)
<1>1. Lines(<<>>) = NoLines
  <2>1. <<>> \in Seq(BytesOver(C))
    OBVIOUS
  <2> QED
    <3>1. Lines(<<>>) = Folded(SplitStep(C), NoLines, <<>>)
      BY <2>1, LinesFolded
    <3>2. Folded(SplitStep(C), NoLines, <<>>) = NoLines
      BY SplitSteps, FoldedEmpty
    <3> QED
      BY <3>1, <3>2
<1>2. ASSUME NEW s \in Seq(BytesOver(C)) PROVE Lines(s) \in LinesOver(C)
  BY LinesFolded, SplitSteps, FoldedType
<1>3. ASSUME NEW s \in Seq(BytesOver(C)), NEW byte \in BytesOver(C)
      PROVE  Lines(Append(s, byte)) = SplitBy(Lines(s), byte)
  <2>1. Append(s, byte) \in Seq(BytesOver(C))
    OBVIOUS
  <2>2. Folded(SplitStep(C), NoLines, Append(s, byte))
            = SplitStep(C)[<<Folded(SplitStep(C), NoLines, s), byte>>]
    BY SplitSteps, FoldedAppend
  <2>3. Folded(SplitStep(C), NoLines, s) \in LinesOver(C)
    BY SplitSteps, FoldedType
  <2> QED
    BY <2>1, <2>2, <2>3, LinesFolded DEF SplitStep
<1> QED
  BY <1>1, <1>2, <1>3

-----------------------------------------------------------------------------
(* What the log should be of them.                                         *)

NoEntries == <<>>

LogStep == [x \in Seq(Entry) \X Text |-> x[1] \o Entries(x[2])]

LEMMA LogSteps == Steps(LogStep, Seq(Entry), Text) /\ NoEntries \in Seq(Entry)
<1>1. ASSUME NEW entries \in Seq(Entry), NEW line \in Text
      PROVE  entries \o Entries(line) \in Seq(Entry)
  BY EntriesType
<1> QED
  BY <1>1 DEF Steps, LogStep, NoEntries

LEMMA LoggedFolded ==
    ASSUME NEW lines \in Seq(Text)
    PROVE  Logged(lines) = Folded(LogStep, NoEntries, lines)
<1> DEFINE Solves(f) == f = [T \in SUBSET DOMAIN lines |->
               IF T = {} THEN NoEntries ELSE f[T \ {Max(T)}] \o Entries(lines[Max(T)])]
           h == CHOOSE f : Solves(f)
<1>1. Logged(lines) = h[DOMAIN lines]
  BY DEF NoEntries, Logged, FoldLeft, MapThenFoldSet
<1>2. Solves(h)
  <2>1. PICK f : FoldsLeft(f, LogStep, NoEntries, lines) /\ FoldsWithin(f, lines, Seq(Entry), Text)
    BY LogSteps, FoldLeftExists
  <2>2. Solves(f)
    BY <2>1 DEF FoldsLeft, FoldsWithin, LogStep
  <2> HIDE DEF Solves
  <2> QED
    BY <2>2
<1> HIDE DEF h
<1>3. FoldsPrefixes(h, LogStep, NoEntries, lines, Seq(Entry))
  <2>1. h[1..0] = NoEntries
    BY <1>2, LastOfPrefix
  <2>2. ASSUME NEW i \in 1..Len(lines) PROVE h[1..i] = h[1..(i - 1)] \o Entries(lines[i])
    BY <1>2, LastOfPrefix
  <2>3. \A i \in 1..Len(lines) : lines[i] \in Text
    OBVIOUS
  <2> QED
    BY <2>1, <2>2, <2>3 DEF FoldsPrefixes, LogStep
<1> QED
  BY <1>1, <1>3, LogSteps, FoldedIs, LastOfPrefix

LEMMA LoggedEquation ==
    /\ Logged(<<>>) = NoEntries
    /\ \A lines \in Seq(Text) : Logged(lines) \in Seq(Entry)
    /\ \A lines \in Seq(Text), line \in Text :
           Logged(Append(lines, line)) = Logged(lines) \o Entries(line)
<1>1. Logged(<<>>) = NoEntries
  <2>1. <<>> \in Seq(Text)
    OBVIOUS
  <2> QED
    BY <2>1, LoggedFolded, LogSteps, FoldedEmpty
<1>2. ASSUME NEW lines \in Seq(Text) PROVE Logged(lines) \in Seq(Entry)
  BY LoggedFolded, LogSteps, FoldedType
<1>3. ASSUME NEW lines \in Seq(Text), NEW line \in Text
      PROVE  Logged(Append(lines, line)) = Logged(lines) \o Entries(line)
  <2>1. Append(lines, line) \in Seq(Text)
    OBVIOUS
  <2>2. Folded(LogStep, NoEntries, Append(lines, line)) = LogStep[<<Folded(LogStep, NoEntries, lines), line>>]
    BY LogSteps, FoldedAppend
  <2>3. Folded(LogStep, NoEntries, lines) \in Seq(Entry)
    BY LogSteps, FoldedType
  <2> QED
    BY <2>1, <2>2, <2>3, LoggedFolded DEF LogStep
<1> QED
  BY <1>1, <1>2, <1>3

-----------------------------------------------------------------------------
(* A log that has every entry it should have.                              *)

\* The entries stand in the log in this order, whatever stands between them.
Places(e, logged, entries) ==
    /\ e \in [1..Len(entries) -> 1..Len(logged)]
    /\ \A i, j \in 1..Len(entries) : i < j => e[i] < e[j]
    /\ \A i \in 1..Len(entries) : logged[e[i]] = entries[i]

Covers(logged, entries) == \E e : Places(e, logged, entries)

LEMMA CoversMore ==
    ASSUME NEW logged \in Seq(Entry), NEW entries \in Seq(Entry), NEW more \in Seq(Entry),
           Covers(logged, entries)
    PROVE  Covers(logged \o more, entries)
<1>1. PICK e : Places(e, logged, entries)
  BY DEF Covers
<1>2. /\ Len(logged) \in Nat /\ Len(entries) \in Nat /\ Len(more) \in Nat
      /\ Len(logged \o more) = Len(logged) + Len(more)
      /\ \A i \in 1..Len(logged) : (logged \o more)[i] = logged[i]
  BY ConcatProperties, LenProperties
<1> DEFINE n == Len(entries)
           m == Len(logged)
           longer == logged \o more
<1> HIDE DEF n, m, longer
<1>3. e \in [1..n -> 1..m] /\ (\A i, j \in 1..n : i < j => e[i] < e[j])
      /\ (\A i \in 1..n : logged[e[i]] = entries[i])
  BY <1>1 DEF Places, n, m
<1>4. /\ m \in Nat /\ n \in Nat /\ Len(longer) \in Nat /\ Len(longer) >= m
      /\ \A i \in 1..m : longer[i] = logged[i]
  BY <1>2 DEF n, m, longer
<1>5. \A i \in 1..n : e[i] \in 1..m /\ e[i] \in 1..Len(longer)
  BY <1>3, <1>4
<1>6. e \in [1..n -> 1..Len(longer)]
  BY <1>3, <1>5
<1>7. \A i \in 1..n : longer[e[i]] = entries[i]
  BY <1>3, <1>4, <1>5
<1>8. Places(e, longer, entries)
  BY <1>3, <1>6, <1>7 DEF Places, n
<1> QED
  BY <1>8 DEF Covers, longer

LEMMA CoversBoth ==
    ASSUME NEW logged \in Seq(Entry), NEW entries \in Seq(Entry), NEW entry \in Entry,
           Covers(logged, entries)
    PROVE  Covers(Append(logged, entry), Append(entries, entry))
<1>1. PICK e : Places(e, logged, entries)
  BY DEF Covers
<1> DEFINE n == Len(entries)
           m == Len(logged)
           f == [i \in 1..(n + 1) |-> IF i = n + 1 THEN m + 1 ELSE e[i]]
<1>2. /\ m \in Nat /\ n \in Nat
      /\ Len(Append(logged, entry)) = m + 1 /\ Len(Append(entries, entry)) = n + 1
      /\ Append(logged, entry)[m + 1] = entry /\ Append(entries, entry)[n + 1] = entry
      /\ \A i \in 1..m : Append(logged, entry)[i] = logged[i]
      /\ \A i \in 1..n : Append(entries, entry)[i] = entries[i]
  BY AppendProperties, LenProperties
<1> HIDE DEF n, m
<1>3. e \in [1..n -> 1..m] /\ (\A i, j \in 1..n : i < j => e[i] < e[j])
      /\ (\A i \in 1..n : logged[e[i]] = entries[i])
  BY <1>1 DEF Places, n, m
<1>4. \A i \in 1..n : f[i] = e[i] /\ e[i] \in 1..m
  BY <1>2, <1>3
<1>5. f[n + 1] = m + 1 /\ f \in [1..(n + 1) -> 1..(m + 1)]
  BY <1>2, <1>3
<1> HIDE DEF f
<1>6. \A i, j \in 1..(n + 1) : i < j => f[i] < f[j]
  <2> SUFFICES ASSUME NEW i \in 1..(n + 1), NEW j \in 1..(n + 1), i < j
               PROVE  f[i] < f[j]
    OBVIOUS
  <2>1. i \in 1..n
    BY <1>2
  <2>2. CASE j = n + 1
    BY <1>2, <1>4, <1>5, <2>1, <2>2
  <2>3. CASE j # n + 1
    <3>1. j \in 1..n
      BY <1>2, <2>3
    <3> QED
      BY <1>3, <1>4, <2>1, <3>1
  <2> QED
    BY <2>2, <2>3
<1>7. \A i \in 1..(n + 1) : Append(logged, entry)[f[i]] = Append(entries, entry)[i]
  <2> SUFFICES ASSUME NEW i \in 1..(n + 1)
               PROVE  Append(logged, entry)[f[i]] = Append(entries, entry)[i]
    OBVIOUS
  <2>1. CASE i = n + 1
    BY <1>2, <1>5, <2>1
  <2>2. CASE i # n + 1
    <3>1. i \in 1..n
      BY <1>2, <2>2
    <3> QED
      BY <1>2, <1>3, <1>4, <3>1
  <2> QED
    BY <2>1, <2>2
<1>8. Places(f, Append(logged, entry), Append(entries, entry))
  BY <1>2, <1>5, <1>6, <1>7 DEF Places
<1> QED
  BY <1>8 DEF Covers

\* The entries of one line more, in both.
LEMMA CoversLine ==
    ASSUME NEW logged \in Seq(Entry), NEW entries \in Seq(Entry), NEW line \in Text,
           Covers(logged, entries)
    PROVE  Covers(logged \o Entries(line), entries \o Entries(line))
<1> DEFINE text == Truncate(TrimCR(line))
<1>1. Entries(line) \in Seq(Entry)
  BY EntriesType
<1>2. CASE text = <<>>
  BY <1>2, ConcatEmptySeq DEF Entries
<1>3. CASE text # <<>>
  <2>1. Entries(line) = <<text>>
    BY <1>3 DEF Entries
  <2>2. text \in Entry
    <3> HIDE DEF text
    <3>1. <<text>> \in Seq(Entry) /\ Len(<<text>>) = 1 /\ <<text>>[1] = text
      BY <1>1, <2>1
    <3> QED
      BY <3>1, ElementOfSeq
  <2> HIDE DEF text
  <2>3. logged \o <<text>> = Append(logged, text) /\ entries \o <<text>> = Append(entries, text)
    BY <2>2, AppendIsConcat
  <2> QED
    BY <2>1, <2>2, <2>3, CoversBoth
<1> QED
  BY <1>2, <1>3

-----------------------------------------------------------------------------
(* The writer and the stream, byte by byte.                                *)

Short(lines) == \A i \in DOMAIN lines : Len(lines[i]) <= MaxLine

\* Of lines of at most maxLine bytes: the last one is in the buffer, or it has
\* just reached the bound and is logged already.
Intact(w, lines) ==
    Short(lines) =>
        \/ w.buffer = Last(lines) /\ w.log = Logged(Front(lines))
        \/ w.buffer = <<>> /\ Len(Last(lines)) = MaxLine /\ w.log = Logged(lines)

\* Of lines of any length without a carriage return: the last one is in the
\* buffer, or its first maxLine bytes are logged already.
Covered(w, lines) ==
    \/ w.buffer = Last(lines) /\ Covers(w.log, Logged(Front(lines)))
    \/ Len(Last(lines)) >= MaxLine /\ Covers(w.log, Logged(lines))

Plain(bytes) == bytes \in Seq({"char", "lf"})

Follows(w, bytes) ==
    Intact(w, Lines(bytes)) /\ (Plain(bytes) => Covered(w, Lines(bytes)))

LEMMA CharSets ==
    /\ Text = Seq({"char", "cr"}) /\ Byte = BytesOver({"char", "cr"})
    /\ {"char", "lf"} = BytesOver({"char"})
    /\ "lf" \notin {"char", "cr"} /\ "lf" \notin {"char"}
  BY DEF Text, Byte, BytesOver

LEMMA LinesOfText ==
    /\ \A s \in Seq(Byte) : Lines(s) \in LinesOver({"char", "cr"})
    /\ \A s \in Seq(Byte), byte \in Byte : Lines(Append(s, byte)) = SplitBy(Lines(s), byte)
    /\ \A s : Plain(s) => Lines(s) \in LinesOver({"char"})
  BY CharSets, LinesEquation DEF Plain

\* A line more, or a byte more in the last line.
LEMMA LineMore ==
    ASSUME NEW lines \in LinesOver({"char", "cr"})
    PROVE  /\ SplitBy(lines, "lf") = Append(lines, <<>>)
           /\ Front(SplitBy(lines, "lf")) = lines /\ Last(SplitBy(lines, "lf")) = <<>>
<1> DEFINE e == <<>>
<1>1. lines \in Seq(Text) /\ e \in Text
  BY DEF LinesOver, Text
<1>2. SplitBy(lines, "lf") = Append(lines, e)
  BY DEF SplitBy
<1> HIDE DEF e
<1> QED
  BY <1>1, <1>2, FrontLastOfAppend DEF e

LEMMA ByteMore ==
    ASSUME NEW lines \in LinesOver({"char", "cr"}), NEW byte \in {"char", "cr"}
    PROVE  /\ SplitBy(lines, byte) = Append(Front(lines), Append(Last(lines), byte))
           /\ Front(SplitBy(lines, byte)) = Front(lines)
           /\ Last(SplitBy(lines, byte)) = Append(Last(lines), byte)
           /\ Front(lines) \in Seq(Text) /\ Last(lines) \in Text
           /\ Append(Last(lines), byte) \in Text
<1> DEFINE e == Append(Last(lines), byte)
<1>1. lines \in Seq(Text) /\ lines # <<>>
  BY DEF LinesOver, Text
<1>2. Front(lines) \in Seq(Text) /\ Last(lines) \in Text
  BY <1>1, FrontLast
<1>3. e \in Text
  BY <1>2 DEF Text
<1>4. SplitBy(lines, byte) = Append(Front(lines), e)
  BY CharSets, SplitOther
<1> HIDE DEF e
<1>5. Front(Append(Front(lines), e)) = Front(lines) /\ Last(Append(Front(lines), e)) = e
  BY <1>2, <1>3, FrontLastOfAppend
<1> QED
  BY <1>2, <1>3, <1>4, <1>5 DEF e

\* The log of the lines is the log of all but the last, and the last.
LEMMA LoggedLast ==
    ASSUME NEW lines \in LinesOver({"char", "cr"})
    PROVE  /\ lines \in Seq(Text) /\ Front(lines) \in Seq(Text) /\ Last(lines) \in Text
           /\ Logged(lines) = Logged(Front(lines)) \o Entries(Last(lines))
           /\ Logged(lines) \in Seq(Entry) /\ Logged(Front(lines)) \in Seq(Entry)
<1>1. lines \in Seq(Text) /\ lines # <<>>
  BY DEF LinesOver, Text
<1>2. Front(lines) \in Seq(Text) /\ Last(lines) \in Text /\ lines = Append(Front(lines), Last(lines))
  BY <1>1, FrontLast
<1> QED
  BY <1>1, <1>2, LoggedEquation

LEMMA ShortBefore ==
    ASSUME NEW lines \in LinesOver({"char", "cr"}), NEW byte \in Byte,
           Short(SplitBy(lines, byte))
    PROVE  /\ Short(lines)
           /\ byte # "lf" => Len(Last(lines)) < MaxLine
<1>1. /\ lines \in Seq(Text) /\ lines # <<>> /\ Len(lines) \in Nat /\ Len(lines) > 0
      /\ \A i \in 1..Len(lines) : lines[i] \in Text
  BY DEF LinesOver, Text
<1> DEFINE more == SplitBy(lines, byte)
<1>2. CASE byte = "lf"
  <2> DEFINE e == <<>>
  <2>1. e \in Text /\ more = Append(lines, e)
    BY <1>2, LineMore DEF Text
  <2> HIDE DEF e
  <2>2. Len(more) = Len(lines) + 1 /\ \A i \in 1..Len(lines) : more[i] = lines[i]
    BY <1>1, <2>1, AppendProperties
  <2>3. DOMAIN more = 1..(Len(lines) + 1)
    BY <1>1, <2>1, <2>2, AppendProperties, LenProperties
  <2> QED
    BY <1>1, <1>2, <2>2, <2>3 DEF Short
<1>3. CASE byte # "lf"
  <2> DEFINE front == Front(lines)
             e == Append(Last(lines), byte)
  <2>1. /\ more = Append(front, e) /\ front \in Seq(Text) /\ e \in Text
        /\ Last(lines) \in Text /\ Len(Last(lines)) \in Nat
        /\ Len(e) = Len(Last(lines)) + 1
    BY <1>3, ByteMore DEF Byte, Text
  <2>2. lines = Append(front, Last(lines)) /\ Len(lines) = Len(front) + 1 /\ Len(front) \in Nat
    BY <1>1, FrontLast, LenProperties
  <2> HIDE DEF front, e
  <2>3. /\ Len(more) = Len(front) + 1 /\ more[Len(front) + 1] = e
        /\ \A i \in 1..Len(front) : more[i] = front[i]
    BY <2>1, AppendProperties
  <2>4. /\ lines[Len(front) + 1] = Last(lines)
        /\ \A i \in 1..Len(front) : lines[i] = front[i]
    BY <2>1, <2>2, AppendProperties
  <2>5. DOMAIN more = 1..(Len(front) + 1) /\ DOMAIN lines = 1..(Len(front) + 1)
    BY <1>1, <2>1, <2>2, <2>3, AppendProperties, LenProperties
  <2>6. Len(e) <= MaxLine
    BY <2>2, <2>3, <2>5 DEF Short
  <2>7. \A i \in 1..Len(front) : Len(lines[i]) <= MaxLine
    BY <2>2, <2>3, <2>4, <2>5 DEF Short
  <2> QED
    BY <2>1, <2>2, <2>4, <2>5, <2>6, <2>7, OutputAssumption DEF Short
<1> QED
  BY <1>2, <1>3

LEMMA IntactStep ==
    ASSUME NEW w \in Writer, NEW lines \in LinesOver({"char", "cr"}), NEW byte \in Byte,
           Intact(w, lines)
    PROVE  Intact(Absorb(w, byte), SplitBy(lines, byte))
<1> DEFINE more == SplitBy(lines, byte)
           v == Absorb(w, byte)
<1> SUFFICES ASSUME Short(more)
             PROVE  \/ v.buffer = Last(more) /\ v.log = Logged(Front(more))
                    \/ v.buffer = <<>> /\ Len(Last(more)) = MaxLine /\ v.log = Logged(more)
  BY DEF Intact
<1>1. Short(lines) /\ (byte # "lf" => Len(Last(lines)) < MaxLine)
  BY ShortBefore
<1>2. /\ Logged(lines) = Logged(Front(lines)) \o Entries(Last(lines))
      /\ Logged(lines) \in Seq(Entry)
  BY LoggedLast
<1>3. CASE byte = "lf"
  <2>1. v.buffer = <<>> /\ v.log = w.log \o Entries(w.buffer)
    BY <1>3 DEF Absorb, Emit
  <2>2. w.log \o Entries(w.buffer) = Logged(lines)
    BY <1>1, <1>2, EntriesOfNothing, ConcatEmptySeq DEF Intact
  <2>3. Front(more) = lines /\ Last(more) = <<>>
    BY <1>3, LineMore
  <2> QED
    BY <2>1, <2>2, <2>3
<1>4. CASE byte # "lf"
  <2>1. v.buffer = Append(w.buffer, byte) /\ v.log = w.log
    BY <1>4 DEF Absorb, Writer
  <2>2. Front(more) = Front(lines) /\ Last(more) = Append(Last(lines), byte)
    BY <1>4, ByteMore DEF Byte
  <2>3. w.buffer = Last(lines) /\ w.log = Logged(Front(lines))
    BY <1>1, <1>4, OutputAssumption DEF Intact
  <2> QED
    BY <2>1, <2>2, <2>3
<1> QED
  BY <1>3, <1>4

\* The same, when the rest is logged because it reached the bound.
LEMMA IntactEmit ==
    ASSUME NEW w \in Writer, NEW lines \in LinesOver({"char", "cr"}), Intact(w, lines),
           Len(w.buffer) >= MaxLine
    PROVE  Intact(Emit(w), lines)
<1> SUFFICES ASSUME Short(lines)
             PROVE  Emit(w).buffer = <<>> /\ Len(Last(lines)) = MaxLine /\ Emit(w).log = Logged(lines)
  BY DEF Intact
<1>1. w.buffer = Last(lines) /\ w.log = Logged(Front(lines))
  BY OutputAssumption DEF Intact
<1>2. Emit(w).buffer = <<>> /\ Emit(w).log = w.log \o Entries(w.buffer)
  BY DEF Emit
<1>3. Len(Last(lines)) <= MaxLine /\ Len(Last(lines)) \in Nat
  <2>1. lines \in Seq(Text) /\ lines # <<>>
    BY DEF LinesOver, Text
  <2>2. Len(lines) \in DOMAIN lines /\ lines[Len(lines)] \in Text
    BY <2>1
  <2> QED
    BY <2>2 DEF Short, Last, Text
<1> QED
  BY <1>1, <1>2, <1>3, LoggedLast, OutputAssumption

\* What the log is once the rest is logged.
LEMMA IntactFinal ==
    ASSUME NEW w \in Writer, NEW lines \in LinesOver({"char", "cr"}), Intact(w, lines),
           Short(lines)
    PROVE  w.log \o Entries(w.buffer) = Logged(lines)
<1>1. Logged(lines) = Logged(Front(lines)) \o Entries(Last(lines)) /\ Logged(lines) \in Seq(Entry)
  BY LoggedLast
<1>2. CASE w.buffer = Last(lines) /\ w.log = Logged(Front(lines))
  BY <1>1, <1>2
<1>3. CASE w.buffer = <<>> /\ w.log = Logged(lines)
  BY <1>1, <1>3, EntriesOfNothing, ConcatEmptySeq
<1> QED
  BY <1>2, <1>3 DEF Intact

\* The lines without a carriage return are lines of text.
LEMMA PlainLines ==
    ASSUME NEW lines \in LinesOver({"char"})
    PROVE  /\ lines \in LinesOver({"char", "cr"})
           /\ Last(lines) \in Seq({"char"}) /\ Len(Last(lines)) \in Nat
<1>1. /\ lines # <<>> /\ Len(lines) \in Nat /\ DOMAIN lines = 1..Len(lines)
      /\ \A i \in 1..Len(lines) : lines[i] \in Seq({"char"})
  BY DEF LinesOver
<1>2. \A line \in Seq({"char"}) : line \in Seq({"char", "cr"})
  OBVIOUS
<1>3. lines \in Seq(Seq({"char", "cr"}))
  <2> DEFINE E == Seq({"char", "cr"})
             D == Seq({"char"})
  <2>1. lines \in Seq(D) /\ \A line \in D : line \in E
    BY <1>2 DEF LinesOver
  <2> HIDE DEF E, D
  <2>2. lines \in Seq(E)
    BY <2>1
  <2> QED
    BY <2>2 DEF E
<1>4. Len(lines) \in 1..Len(lines)
  <2> DEFINE D == Seq({"char"})
  <2>1. lines \in Seq(D)
    BY DEF LinesOver
  <2> HIDE DEF D
  <2> QED
    BY <1>1, <2>1
<1>5. Last(lines) \in Seq({"char"})
  BY <1>1, <1>4 DEF Last
<1> QED
  BY <1>1, <1>3, <1>5 DEF LinesOver

LEMMA CoveredStep ==
    ASSUME NEW w \in Writer, NEW lines \in LinesOver({"char"}), NEW byte \in {"char", "lf"},
           Covered(w, lines)
    PROVE  Covered(Absorb(w, byte), SplitBy(lines, byte))
<1> DEFINE more == SplitBy(lines, byte)
           v == Absorb(w, byte)
<1>1. /\ lines \in LinesOver({"char", "cr"})
      /\ Last(lines) \in Seq({"char"}) /\ Len(Last(lines)) \in Nat
  BY PlainLines
<1>2. /\ Logged(lines) = Logged(Front(lines)) \o Entries(Last(lines))
      /\ Logged(lines) \in Seq(Entry) /\ Logged(Front(lines)) \in Seq(Entry)
      /\ Last(lines) \in Text /\ Front(lines) \in Seq(Text)
  BY <1>1, LoggedLast
<1>3. w.log \in Seq(Entry) /\ w.buffer \in Text /\ Entries(w.buffer) \in Seq(Entry)
  BY EntriesType DEF Writer
<1>4. CASE byte = "lf"
  <2>1. v.buffer = <<>> /\ v.log = w.log \o Entries(w.buffer)
    BY <1>4 DEF Absorb, Emit
  <2>2. Front(more) = lines /\ Last(more) = <<>>
    BY <1>1, <1>4, LineMore
  <2>3. Covers(w.log \o Entries(w.buffer), Logged(lines))
    <3>1. CASE w.buffer = Last(lines) /\ Covers(w.log, Logged(Front(lines)))
      BY <1>2, <1>3, <3>1, CoversLine
    <3>2. CASE Covers(w.log, Logged(lines))
      BY <1>2, <1>3, <3>2, CoversMore
    <3> QED
      BY <3>1, <3>2 DEF Covered
  <2> QED
    BY <2>1, <2>2, <2>3 DEF Covered
<1>5. CASE byte = "char"
  <2>1. v.buffer = Append(w.buffer, byte) /\ v.log = w.log
    BY <1>5 DEF Absorb, Writer
  <2>2. /\ Front(more) = Front(lines) /\ Last(more) = Append(Last(lines), byte)
        /\ more = Append(Front(lines), Append(Last(lines), byte))
        /\ Append(Last(lines), byte) \in Text
    BY <1>1, <1>5, ByteMore
  <2>3. CASE w.buffer = Last(lines) /\ Covers(w.log, Logged(Front(lines)))
    BY <2>1, <2>2, <2>3 DEF Covered
  <2>4. CASE Len(Last(lines)) >= MaxLine /\ Covers(w.log, Logged(lines))
    <3>1. Logged(more) = Logged(Front(lines)) \o Entries(Append(Last(lines), byte))
      BY <1>2, <2>2, LoggedEquation
    <3>2. Entries(Append(Last(lines), byte)) = Entries(Last(lines))
      BY <1>1, <1>5, <2>4, EntriesOfLonger
    <3>3. Len(Append(Last(lines), byte)) >= MaxLine
      <4>1. Len(Append(Last(lines), byte)) = Len(Last(lines)) + 1
        BY <1>1, <1>5
      <4> QED
        BY <1>1, <2>4, <4>1, OutputAssumption
    <3> QED
      BY <1>2, <2>1, <2>2, <2>4, <3>1, <3>2, <3>3 DEF Covered
  <2> QED
    BY <2>3, <2>4 DEF Covered
<1> QED
  BY <1>4, <1>5

LEMMA CoveredFinal ==
    ASSUME NEW w \in Writer, NEW lines \in LinesOver({"char"}), Covered(w, lines)
    PROVE  Covers(w.log \o Entries(w.buffer), Logged(lines))
<1>1. /\ Logged(lines) = Logged(Front(lines)) \o Entries(Last(lines))
      /\ Logged(lines) \in Seq(Entry) /\ Logged(Front(lines)) \in Seq(Entry)
      /\ Last(lines) \in Text
  BY PlainLines, LoggedLast
<1>2. w.log \in Seq(Entry) /\ w.buffer \in Text /\ Entries(w.buffer) \in Seq(Entry)
  BY EntriesType DEF Writer
<1>3. CASE w.buffer = Last(lines) /\ Covers(w.log, Logged(Front(lines)))
  BY <1>1, <1>2, <1>3, CoversLine
<1>4. CASE Covers(w.log, Logged(lines))
  BY <1>1, <1>2, <1>4, CoversMore
<1> QED
  BY <1>3, <1>4 DEF Covered

LEMMA CoveredEmit ==
    ASSUME NEW w \in Writer, NEW lines \in LinesOver({"char"}), Covered(w, lines),
           Len(w.buffer) >= MaxLine
    PROVE  Covered(Emit(w), lines)
<1>1. Emit(w).log = w.log \o Entries(w.buffer)
  BY DEF Emit
<1>2. Covers(Emit(w).log, Logged(lines))
  BY <1>1, CoveredFinal
<1>3. Len(Last(lines)) >= MaxLine
  BY DEF Covered
<1> QED
  BY <1>2, <1>3 DEF Covered

-----------------------------------------------------------------------------
(* A chunk.                                                                *)

LEMMA FollowsByte ==
    ASSUME NEW w \in Writer, NEW s \in Seq(Byte), NEW byte \in Byte, Follows(w, s)
    PROVE  Follows(Absorb(w, byte), Append(s, byte))
<1> DEFINE t == Append(s, byte)
<1>1. Lines(s) \in LinesOver({"char", "cr"}) /\ Lines(t) = SplitBy(Lines(s), byte)
  BY LinesOfText
<1>2. Intact(Absorb(w, byte), Lines(t))
  BY <1>1, IntactStep DEF Follows
<1>3. ASSUME Plain(t) PROVE Covered(Absorb(w, byte), Lines(t))
  <2>1. Plain(s) /\ byte \in {"char", "lf"}
    <3>1. /\ Len(t) = Len(s) + 1 /\ t[Len(s) + 1] = byte /\ Len(s) \in Nat
          /\ \A i \in 1..Len(s) : t[i] = s[i]
      BY AppendProperties, LenProperties
    <3>2. \A i \in 1..(Len(s) + 1) : t[i] \in {"char", "lf"}
      BY <1>3, <3>1, ElementOfSeq DEF Plain
    <3>3. byte \in {"char", "lf"}
      BY <3>1, <3>2
    <3>4. \A i \in 1..Len(s) : s[i] \in {"char", "lf"}
      BY <3>1, <3>2
    <3> QED
      BY <3>3, <3>4 DEF Plain
  <2>2. Lines(s) \in LinesOver({"char"})
    BY <2>1, LinesOfText
  <2> QED
    BY <1>1, <2>1, <2>2, CoveredStep DEF Follows
<1> QED
  BY <1>2, <1>3 DEF Follows

LEMMA FollowsChunk ==
    ASSUME NEW w \in Writer, NEW s \in Seq(Byte), NEW p \in Seq(Byte), Follows(w, s)
    PROVE  Follows(FoldLeft(Absorb, w, p), s \o p) /\ FoldLeft(Absorb, w, p) \in Writer
<1> DEFINE T == {q \in Seq(Byte) : Follows(FoldLeft(Absorb, w, q), s \o q)}
<1>1. <<>> \in T
  <2>1. s \o <<>> = s /\ <<>> \in Seq(Byte)
    OBVIOUS
  <2> QED
    BY <2>1, AbsorbEquation
<1>2. ASSUME NEW q \in Seq(Byte), NEW byte \in Byte, q \in T PROVE Append(q, byte) \in T
  <2>1. /\ s \o Append(q, byte) = Append(s \o q, byte) /\ s \o q \in Seq(Byte)
        /\ Append(q, byte) \in Seq(Byte)
    OBVIOUS
  <2>2. /\ FoldLeft(Absorb, w, Append(q, byte)) = Absorb(FoldLeft(Absorb, w, q), byte)
        /\ FoldLeft(Absorb, w, q) \in Writer
    BY AbsorbEquation
  <2>3. Follows(FoldLeft(Absorb, w, q), s \o q)
    BY <1>2
  <2>4. Follows(Absorb(FoldLeft(Absorb, w, q), byte), Append(s \o q, byte))
    BY <2>1, <2>2, <2>3, FollowsByte
  <2> QED
    BY <2>1, <2>2, <2>4
<1>3. Seq(Byte) \subseteq T
  <2> HIDE DEF T
  <2> QED
    BY <1>1, <1>2, SeqInductive
<1> QED
  BY <1>3, AbsorbEquation

LEMMA FollowsWrite ==
    ASSUME NEW w \in Writer, NEW s \in Seq(Byte), NEW p \in Seq(Byte), Follows(w, s)
    PROVE  /\ Follows(Written(w, p), s \o p) /\ Written(w, p) \in Writer
           /\ Len(Written(w, p).buffer) < MaxLine
<1> DEFINE rest == FoldLeft(Absorb, w, p)
<1>1. Follows(rest, s \o p) /\ rest \in Writer
  BY FollowsChunk
<1>2. Written(w, p) = IF Len(rest.buffer) >= MaxLine THEN Emit(rest) ELSE rest
  BY DEF Written
<1> DEFINE t == s \o p
<1>3. t \in Seq(Byte)
  OBVIOUS
<1> HIDE DEF rest, t
<1>4. CASE Len(rest.buffer) >= MaxLine
  <2>1. Emit(rest) \in Writer /\ Emit(rest).buffer = <<>>
    BY <1>1, EmitType DEF Emit
  <2>2. Lines(t) \in LinesOver({"char", "cr"})
    BY <1>3, LinesOfText
  <2>3. Intact(Emit(rest), Lines(t))
    BY <1>1, <1>4, <2>2, IntactEmit DEF Follows, t
  <2>4. Plain(t) => Covered(Emit(rest), Lines(t))
    BY <1>1, <1>4, LinesOfText, CoveredEmit DEF Follows, t
  <2> QED
    BY <1>2, <1>4, <2>1, <2>3, <2>4, OutputAssumption DEF Follows, t
<1>5. CASE ~(Len(rest.buffer) >= MaxLine)
  <2>1. rest.buffer \in Text /\ Len(rest.buffer) \in Nat
    BY <1>1 DEF Writer, Text
  <2> QED
    BY <1>1, <1>2, <1>5, <2>1, OutputAssumption DEF t
<1> QED
  BY <1>4, <1>5

-----------------------------------------------------------------------------
(* The entries that EveryLineHasItsEntry counts.                           *)

MatchOne(lines, n, entry) == IF n < Len(lines) /\ entry = lines[n + 1] THEN n + 1 ELSE n

MatchStep(lines) ==
    [x \in (0..Len(lines)) \X Entry |-> MatchOne(lines, x[1], x[2])]

Matches(lines, logged) ==
    LET Match(n, entry) == IF n < Len(lines) /\ entry = lines[n + 1] THEN n + 1 ELSE n
    IN  FoldLeft(Match, 0, logged)

LEMMA MatchSteps ==
    ASSUME NEW lines \in Seq(Entry)
    PROVE  /\ Steps(MatchStep(lines), 0..Len(lines), Entry)
           /\ 0 \in 0..Len(lines) /\ Len(lines) \in Nat
<1>1. Len(lines) \in Nat
  BY LenProperties
<1>2. ASSUME NEW n \in 0..Len(lines), NEW entry \in Entry
      PROVE  MatchOne(lines, n, entry) \in 0..Len(lines)
  BY <1>1 DEF MatchOne
<1> QED
  BY <1>1, <1>2 DEF Steps, MatchStep

LEMMA MatchFolded ==
    ASSUME NEW lines \in Seq(Entry), NEW logged \in Seq(Entry)
    PROVE  Matches(lines, logged) = Folded(MatchStep(lines), 0, logged)
<1> DEFINE Solves(f) == f = [T \in SUBSET DOMAIN logged |->
               IF T = {} THEN 0 ELSE MatchOne(lines, f[T \ {Max(T)}], logged[Max(T)])]
           h == CHOOSE f : Solves(f)
<1>1. Matches(lines, logged) = h[DOMAIN logged]
  BY DEF Matches, FoldLeft, MapThenFoldSet, MatchOne
<1>2. Solves(h)
  <2>1. PICK f : /\ FoldsLeft(f, MatchStep(lines), 0, logged)
                 /\ FoldsWithin(f, logged, 0..Len(lines), Entry)
    BY MatchSteps, FoldLeftExists
  <2>2. Solves(f)
    BY <2>1 DEF FoldsLeft, FoldsWithin, MatchStep
  <2> HIDE DEF Solves
  <2> QED
    BY <2>2
<1> HIDE DEF h
<1>3. FoldsPrefixes(h, MatchStep(lines), 0, logged, 0..Len(lines))
  <2>1. h[1..0] = 0
    BY <1>2, LastOfPrefix
  <2>2. ASSUME NEW i \in 1..Len(logged) PROVE h[1..i] = MatchOne(lines, h[1..(i - 1)], logged[i])
    BY <1>2, LastOfPrefix
  <2>3. \A i \in 1..Len(logged) : logged[i] \in Entry
    <3> HIDE DEF Entry
    <3> QED
      OBVIOUS
  <2> QED
    BY <2>1, <2>2, <2>3 DEF FoldsPrefixes, MatchStep
<1>4. logged \in Seq(Entry) /\ DOMAIN logged = 1..Len(logged)
  BY LenProperties
<1> DEFINE F == MatchStep(lines)
           A == 0..Len(lines)
           base == 0
<1>5. Steps(F, A, Entry) /\ base \in A /\ FoldsPrefixes(h, F, base, logged, A)
  BY <1>3, MatchSteps
<1>6. h[1..Len(logged)] = Folded(F, base, logged)
  <2> HIDE DEF F, A, base, Entry
  <2> QED
    BY <1>5, FoldedIs
<1> QED
  BY <1>1, <1>4, <1>6

\* The first k of the lines stand in the log.
PlacesFirst(e, logged, lines, k) ==
    /\ e \in [1..k -> 1..Len(logged)]
    /\ \A i, j \in 1..k : i < j => e[i] < e[j]
    /\ \A i \in 1..k : logged[e[i]] = lines[i]

(***************************************************************************)
(* Taking the first entry that fits finds them all.                        *)
(***************************************************************************)
LEMMA MatchesCovered ==
    ASSUME NEW lines \in Seq(Entry), NEW logged \in Seq(Entry), Covers(logged, lines)
    PROVE  Matches(lines, logged) = Len(lines)
<1> DEFINE F == MatchStep(lines)
           A == 0..Len(lines)
           n(q) == Folded(F, 0, q)
           T == {q \in Seq(Entry) :
                     \A k \in A : (\E e : PlacesFirst(e, q, lines, k)) => n(q) >= k}
<1>1. Steps(F, A, Entry) /\ 0 \in A /\ Len(lines) \in Nat
  BY MatchSteps
<1>2. \A q \in Seq(Entry) : n(q) \in A
  BY <1>1, FoldedType
<1>3. <<>> \in T
  <2>1. <<>> \in Seq(Entry) /\ Len(<<>>) = 0 /\ n(<<>>) = 0
    BY <1>1, FoldedEmpty
  <2>2. ASSUME NEW k \in A, NEW e, PlacesFirst(e, <<>>, lines, k) PROVE k = 0
    <3>1. CASE k > 0
      <4>1. e[1] \in 1..0
        BY <2>1, <2>2, <3>1, <1>1 DEF PlacesFirst
      <4> QED
        BY <4>1
    <3> QED
      BY <3>1, <1>1
  <2> QED
    BY <2>1, <2>2
<1>4. ASSUME NEW q \in Seq(Entry), NEW x \in Entry, q \in T PROVE Append(q, x) \in T
  <2> DEFINE r == Append(q, x)
             a == n(q)
             m == Len(q)
  <2>1. /\ r \in Seq(Entry) /\ Len(r) = m + 1 /\ m \in Nat /\ r[m + 1] = x
        /\ \A i \in 1..m : r[i] = q[i]
    BY AppendProperties, LenProperties
  <2>2. n(r) = MatchOne(lines, a, x) /\ a \in A
    <3>1. n(r) = F[<<a, x>>]
      <4> DEFINE base == 0
      <4>1. n(r) = Folded(F, base, r) /\ a = Folded(F, base, q) /\ base \in A
        BY <1>1
      <4> HIDE DEF n, F, A, base
      <4>2. Steps(F, A, Entry)
        BY <1>1
      <4>3. Folded(F, base, r) = F[<<Folded(F, base, q), x>>]
        BY <4>1, <4>2, FoldedAppend
      <4> QED
        BY <4>1, <4>3
    <3>2. a \in A
      BY <1>2
    <3> HIDE DEF n, r
    <3> QED
      BY <3>1, <3>2 DEF MatchStep
  <2> SUFFICES ASSUME NEW k \in A, NEW e, PlacesFirst(e, r, lines, k) PROVE n(r) >= k
    BY <2>1
  <2>3. n(r) \in Nat /\ n(r) >= a /\ a \in Nat
    <3> HIDE DEF n, r
    <3> QED
      BY <1>1, <2>2 DEF MatchOne
  <2>4. \A j \in A : \A d : PlacesFirst(d, q, lines, j) => a >= j
    BY <1>4
  <2> HIDE DEF n, r, a, m, T, F
  <2>5. CASE k = 0
    BY <2>3, <2>5
  <2>6. CASE k > 0
    <3>1. /\ k \in Nat /\ k - 1 \in A /\ k \in 1..k
          /\ e \in [1..k -> 1..(m + 1)] /\ (\A i, j \in 1..k : i < j => e[i] < e[j])
          /\ (\A i \in 1..k : r[e[i]] = lines[i])
      BY <1>1, <2>1, <2>6 DEF PlacesFirst
    <3>2. \A i \in 1..(k - 1) : i \in 1..k /\ i < k /\ e[i] < e[k] /\ e[i] \in 1..m
      <4> SUFFICES ASSUME NEW i \in 1..(k - 1) PROVE i \in 1..k /\ i < k /\ e[i] < e[k] /\ e[i] \in 1..m
        OBVIOUS
      <4>1. i \in 1..k /\ i < k /\ e[i] \in 1..(m + 1) /\ e[k] \in 1..(m + 1)
        BY <3>1
      <4>2. e[i] < e[k]
        BY <3>1, <4>1
      <4> QED
        BY <4>1, <4>2, <2>1
    <3>3. CASE e[k] \in 1..m
      <4>1. \A i \in 1..k : e[i] \in 1..m
        BY <3>1, <3>2, <3>3
      <4>2. e \in [1..k -> 1..m] /\ \A i \in 1..k : q[e[i]] = lines[i]
        BY <2>1, <3>1, <4>1
      <4>3. PlacesFirst(e, q, lines, k)
        BY <3>1, <4>2 DEF PlacesFirst, m
      <4> QED
        BY <1>1, <2>3, <2>4, <4>3
    <3>4. CASE e[k] = m + 1
      <4> DEFINE d == [i \in 1..(k - 1) |-> e[i]]
      <4>1. d \in [1..(k - 1) -> 1..m] /\ \A i \in 1..(k - 1) : d[i] = e[i]
        BY <3>2
      <4> HIDE DEF d
      <4>2. \A i \in 1..(k - 1) : q[d[i]] = lines[i]
        BY <2>1, <3>1, <3>2, <4>1
      <4>3. \A i, j \in 1..(k - 1) : i < j => d[i] < d[j]
        BY <3>1, <3>2, <4>1
      <4>4. PlacesFirst(d, q, lines, k - 1)
        BY <4>1, <4>2, <4>3 DEF PlacesFirst, m
      <4>5. a >= k - 1
        BY <2>4, <3>1, <4>4
      <4>6. x = lines[k]
        BY <2>1, <3>1, <3>4
      <4>7. CASE a = k - 1
        BY <1>1, <2>2, <2>3, <4>6, <4>7, <3>1 DEF MatchOne
      <4>8. CASE a >= k
        BY <2>3, <4>8, <3>1
      <4> QED
        BY <2>3, <3>1, <4>5, <4>7, <4>8
    <3> QED
      BY <2>1, <3>1, <3>3, <3>4
  <2> QED
    BY <1>1, <2>5, <2>6
<1>5. Seq(Entry) \subseteq T
  <2> HIDE DEF T
  <2> QED
    BY <1>3, <1>4, SeqInductive
<1>6. n(logged) >= Len(lines)
  <2>1. PICK e : Places(e, logged, lines)
    BY DEF Covers
  <2>2. PlacesFirst(e, logged, lines, Len(lines)) /\ Len(lines) \in A
    BY <1>1, <2>1 DEF Places, PlacesFirst
  <2> HIDE DEF n, A
  <2> QED
    BY <1>5, <2>2
<1>7. n(logged) \in A
  BY <1>2
<1>8. Matches(lines, logged) = n(logged)
  BY MatchFolded
<1> HIDE DEF n
<1> QED
  BY <1>1, <1>6, <1>7, <1>8

-----------------------------------------------------------------------------
(* The specification.                                                      *)

Output == [buffer |-> buffer, log |-> log]

OutputInv ==
    /\ stream \in Seq(Byte)
    /\ Output \in Writer
    /\ Len(buffer) < MaxLine
    /\ Follows(Output, stream)

\* The start of a run, which is also what Flush leaves.
LEMMA EmptyFollows == buffer = <<>> /\ log = <<>> /\ stream = <<>> => OutputInv
<1> SUFFICES ASSUME buffer = <<>>, log = <<>>, stream = <<>> PROVE OutputInv
  OBVIOUS
<1> DEFINE none == <<>>
<1>1. /\ none \in Text /\ none \in Seq(Entry) /\ none \in Seq(Byte)
      /\ none \in Seq(Text) /\ Len(none) = 0
  BY DEF Text
<1>2. Output \in Writer
  BY <1>1 DEF Output, Writer
<1>3. Lines(none) = Append(none, none)
  <2>1. Lines(<<>>) = NoLines
    BY CharSets, LinesEquation
  <2> QED
    BY <2>1 DEF NoLines
<1>4. Logged(none) = none
  BY LoggedEquation DEF NoEntries
<1>5. Output.buffer = none /\ Output.log = none
  BY DEF Output
<1>6. Covers(none, none)
  <2>1. Places([i \in 1..0 |-> 0], none, none)
    BY <1>1 DEF Places
  <2> QED
    BY <2>1 DEF Covers
<1>7. stream = none /\ buffer = none
  OBVIOUS
<1> HIDE DEF none
<1>8. Front(Lines(none)) = none /\ Last(Lines(none)) = none
  BY <1>1, <1>3, FrontLastOfAppend
<1>9. Follows(Output, none)
  BY <1>4, <1>5, <1>6, <1>8 DEF Follows, Intact, Covered
<1> QED
  BY <1>1, <1>2, <1>7, <1>9, OutputAssumption DEF OutputInv

LEMMA WriteFollows ==
    ASSUME OutputInv, NEW p \in Chunk, Write(p)
    PROVE  OutputInv'
<1> DEFINE w == Written(Output, p)
<1>1. p \in Seq(Byte)
  <2>1. PICK n \in 1..MaxChunk : p \in [1..n -> Byte]
    BY DEF Chunk
  <2> QED
    BY <2>1
<1>2. stream' = stream \o p /\ buffer' = w.buffer /\ log' = w.log
  BY DEF Write, Output
<1>3. Follows(w, stream \o p) /\ w \in Writer /\ Len(w.buffer) < MaxLine
  BY <1>1, FollowsWrite DEF OutputInv
<1>4. stream \o p \in Seq(Byte)
  BY <1>1, ConcatProperties DEF OutputInv
<1> HIDE DEF w
<1>5. w = [buffer |-> w.buffer, log |-> w.log]
  BY <1>3 DEF Writer
<1>6. Output' = w
  BY <1>2, <1>5 DEF Output
<1> QED
  BY <1>2, <1>3, <1>4, <1>6 DEF OutputInv

LEMMA OutputInvariant == Spec => []OutputInv
<1>1. Init => OutputInv
  BY EmptyFollows DEF Init
<1>2. OutputInv /\ [Next]_vars => OutputInv'
  <2> SUFFICES ASSUME OutputInv, [Next]_vars PROVE OutputInv'
    OBVIOUS
  <2>1. CASE Flush
    <3>1. buffer' = <<>> /\ log' = <<>> /\ stream' = <<>>
      BY <2>1 DEF Flush, Emit
    <3>2. (buffer = <<>> /\ log = <<>> /\ stream = <<>>)' => OutputInv'
      BY EmptyFollows, PTL
    <3> QED
      BY <3>1, <3>2
  <2>2. ASSUME NEW p \in Chunk, Write(p) PROVE OutputInv'
    BY <2>2, WriteFollows
  <2>3. CASE UNCHANGED vars
    BY <2>3 DEF vars, OutputInv, Output, Follows, Intact, Covered, Short, Plain, Covers, Places
  <2> QED
    BY <2>1, <2>2, <2>3 DEF Next
<1> QED
  BY <1>1, <1>2, PTL DEF Spec

(***************************************************************************)
(* The buffer stays below maxLine and holds no newline, and every entry    *)
(* has between one byte and maxLine bytes, whatever Write is given.        *)
(***************************************************************************)
THEOREM OutputTyped == Spec => []TypeOK
<1>1. OutputInv => TypeOK
  <2> SUFFICES ASSUME OutputInv PROVE TypeOK
    OBVIOUS
  <2>1. buffer \in Text /\ log \in Seq(Entry)
    BY DEF OutputInv, Output, Writer
  <2>2. \A i \in DOMAIN log : log[i] \in Entry
    <3> HIDE DEF Entry
    <3> QED
      BY <2>1
  <2> QED
    BY <2>1, <2>2 DEF OutputInv, TypeOK, Text, Entry
<1> QED
  BY <1>1, OutputInvariant, PTL

(***************************************************************************)
(* However the pipe cuts the output, lines of at most maxLine bytes are    *)
(* logged whole, one entry each, in order.                                 *)
(***************************************************************************)
THEOREM ShortLinesLogged == Spec => []ShortLinesIntact
<1>1. OutputInv => ShortLinesIntact
  <2> SUFFICES ASSUME OutputInv, Short(Lines(stream)) PROVE Final = Logged(Lines(stream))
    BY DEF ShortLinesIntact, Short
  <2>1. Output.log \o Entries(Output.buffer) = Logged(Lines(stream))
    BY LinesOfText, IntactFinal DEF OutputInv, Follows
  <2> QED
    BY <2>1 DEF Final, Output
<1> QED
  BY <1>1, OutputInvariant, PTL

(***************************************************************************)
(* However long the lines are and wherever they are cut, each of them has  *)
(* an entry with its first maxLine bytes, in order.                        *)
(***************************************************************************)
THEOREM EveryLineLogged == Spec => []EveryLineHasItsEntry
<1>1. OutputInv => EveryLineHasItsEntry
  <2> SUFFICES ASSUME OutputInv, ~Contains(stream, "cr")
               PROVE  Matches(Logged(Lines(stream)), Final) = Len(Logged(Lines(stream)))
    BY DEF EveryLineHasItsEntry, Matches
  <2>1. Plain(stream)
    <3>1. \A i \in 1..Len(stream) : stream[i] \in {"char", "lf"}
      BY DEF OutputInv, Byte, Contains
    <3> QED
      BY <3>1 DEF OutputInv, Plain
  <2>2. Lines(stream) \in LinesOver({"char"}) /\ Covered(Output, Lines(stream))
    BY <2>1, LinesOfText DEF OutputInv, Follows
  <2>3. Covers(Final, Logged(Lines(stream)))
    <3>1. Covers(Output.log \o Entries(Output.buffer), Logged(Lines(stream)))
      BY <2>2, CoveredFinal DEF OutputInv
    <3> QED
      BY <3>1 DEF Final, Output
  <2>4. Logged(Lines(stream)) \in Seq(Entry)
    BY <2>2, PlainLines, LoggedLast
  <2>5. Final \in Seq(Entry)
    <3>1. log \in Seq(Entry) /\ Entries(buffer) \in Seq(Entry)
      BY EntriesType DEF OutputInv, Output, Writer
    <3> QED
      BY <3>1, ConcatProperties DEF Final
  <2> QED
    BY <2>3, <2>4, <2>5, MatchesCovered
<1> QED
  BY <1>1, OutputInvariant, PTL
===============================================================================
