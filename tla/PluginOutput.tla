---------------------------- MODULE PluginOutput -----------------------------
(***************************************************************************)
(* lineWriter of native/pluginpool/host.go: it turns the output pipe of a  *)
(* plugin, which arrives in chunks cut anywhere, into one log entry per    *)
(* line.  A byte is a newline, a carriage return or another character.     *)
(***************************************************************************)
EXTENDS Integers, SequencesExt

CONSTANTS
    MaxLine,    \* maxLine
    MaxChunk,   \* bound: the longest single Write
    MaxStream   \* bound: the bytes written in one run of the plugin

ASSUME OutputAssumption == MaxLine \in Nat \ {0}

VARIABLES
    buffer,  \* w.buffer
    log,     \* the entries logged in this run
    stream   \* every byte written in this run

vars == <<buffer, log, stream>>

Byte == {"char", "cr", "lf"}

TypeOK ==
    /\ buffer \in Seq({"char", "cr"})
    /\ Len(buffer) < MaxLine
    /\ \A i \in DOMAIN log : log[i] # <<>> /\ Len(log[i]) <= MaxLine
    /\ stream \in Seq(Byte)

Init == buffer = <<>> /\ log = <<>> /\ stream = <<>>

TrimCR(line) == IF line # <<>> /\ Last(line) = "cr" THEN Front(line) ELSE line

Truncate(line) == IF Len(line) > MaxLine THEN SubSeq(line, 1, MaxLine) ELSE line

\* What emit logs of a buffer: nothing of an empty line.
Entries(line) ==
    LET text == Truncate(TrimCR(line)) IN IF text = <<>> THEN <<>> ELSE <<text>>

\* emit, on the pair of the buffer and the log.
Emit(w) == [buffer |-> <<>>, log |-> w.log \o Entries(w.buffer)]

\* Mutant: the buffer is reset before it is emitted.
AbsorbLost(w, byte) ==
    IF byte = "lf" THEN [w EXCEPT !.buffer = <<>>] ELSE [w EXCEPT !.buffer = Append(@, byte)]

\* The loop over the newlines of p, byte by byte: what precedes a newline is
\* appended before the line is emitted.
Absorb(w, byte) ==
    IF byte = "lf" THEN Emit(w) ELSE [w EXCEPT !.buffer = Append(@, byte)]

\* Mutant: every Write ends a line.
WrittenEagerly(w, p) == Emit(FoldLeft(Absorb, w, p))

\* Write emits a rest that reached the bound, so that the buffer cannot grow.
Written(w, p) ==
    LET rest == FoldLeft(Absorb, w, p)
    IN  IF Len(rest.buffer) >= MaxLine THEN Emit(rest) ELSE rest

Chunk == UNION {[1..n -> Byte] : n \in 1..MaxChunk}

Write(p) ==
    LET w == Written([buffer |-> buffer, log |-> log], p)
    IN  /\ Len(stream) + Len(p) <= MaxStream
        /\ stream' = stream \o p
        /\ buffer' = w.buffer
        /\ log' = w.log

\* After a run: the rest is logged, and the next run starts with an empty buffer.
Flush ==
    /\ log' = <<>>
    /\ stream' = <<>>
    /\ buffer' = Emit([buffer |-> buffer, log |-> log]).buffer

Next == Flush \/ \E p \in Chunk : Write(p)

Spec == Init /\ [][Next]_vars

-----------------------------------------------------------------------------
(* Properties: what the log should be, computed from the whole stream.     *)

\* The lines of the stream, the unfinished last one included.
Lines(bytes) ==
    LET Split(lines, byte) ==
            IF byte = "lf" THEN Append(lines, <<>>)
            ELSE [lines EXCEPT ![Len(lines)] = Append(@, byte)]
    IN  FoldLeft(Split, <<<<>>>>, bytes)

Logged(lines) == FoldLeft(LAMBDA entries, line : entries \o Entries(line), <<>>, lines)

\* The log once the run is flushed.
Final == log \o Entries(buffer)

(***************************************************************************)
(* However the pipe cuts the output, lines of at most maxLine bytes are    *)
(* logged whole, one entry each, in order and without their line ends.     *)
(***************************************************************************)
ShortLinesIntact ==
    (\A i \in DOMAIN Lines(stream) : Len(Lines(stream)[i]) <= MaxLine)
        => Final = Logged(Lines(stream))

(***************************************************************************)
(* The entries of an over-long line stand between those of its neighbours: *)
(* however the pipe cuts the output, every line still has an entry of its  *)
(* own with its first maxLine bytes, in order, and joins no other line.    *)
(* (A carriage return at the cut is taken for a line end.)                 *)
(***************************************************************************)
EveryLineHasItsEntry ==
    LET lines == Logged(Lines(stream))
        Match(n, entry) == IF n < Len(lines) /\ entry = lines[n + 1] THEN n + 1 ELSE n
    IN  ~Contains(stream, "cr") => FoldLeft(Match, 0, Final) = Len(lines)
=============================================================================
