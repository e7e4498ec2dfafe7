------------------------------- MODULE LogTail -------------------------------
(***************************************************************************)
(* logtail.py: how bytes become lines (_LineAssembler), and where the read *)
(* of a growing file starts (LogTail, _drop_leading_fragment).             *)
(*                                                                         *)
(* A byte is NL, CR or a printable character, which is its own number in   *)
(* the file, so that two characters are never confused.                    *)
(***************************************************************************)
EXTENDS Integers, Sequences, SequencesExt, FiniteSetsExt

CONSTANTS
    NL, CR,     \* line feed and carriage return
    MaxCells,   \* _MAX_LINE_CELLS
    MaxLines,   \* _max_lines: complete lines one read hands back
    Window      \* _window: how far from the end the first read starts

ASSUME LogTailAssumption ==
    /\ NL # CR /\ NL \notin Int /\ CR \notin Int
    /\ {MaxCells, MaxLines, Window} \subseteq Nat \ {0}

-----------------------------------------------------------------------------
(* _LineAssembler: the complete lines so far, the line being written and   *)
(* the column of the cursor in it.                                         *)

Blank == [lines |-> <<>>, cells |-> <<>>, col |-> 0]

FeedByte(a, c) ==
    CASE c = NL -> [lines |-> Append(a.lines, a.cells), cells |-> <<>>, col |-> 0]
      [] c = CR -> [a EXCEPT !.col = 0]
      [] c \notin {NL, CR} /\ a.col < Len(a.cells) ->
             [a EXCEPT !.cells[a.col + 1] = c, !.col = @ + 1]
      [] c \notin {NL, CR} /\ a.col = Len(a.cells) /\ Len(a.cells) < MaxCells ->
             [a EXCEPT !.cells = Append(@, c), !.col = @ + 1]
      [] OTHER -> a

FeedBytes(a, text) == FoldLeft(FeedByte, a, text)

Parts(text) ==
    FoldLeft(LAMBDA parts, c : IF c = NL THEN Append(parts, <<>>)
                               ELSE [parts EXCEPT ![Len(parts)] = Append(@, c)],
             << <<>> >>, text)

Clip(s) == SubSeq(s, 1, Min({Len(s), MaxCells}))

(* The fast path: whole lines at a time.                                   *)
FeedPlain(a, text) ==
    LET parts == Parts(text)
        last  == Len(parts)
        cells == IF last = 1 THEN Clip(a.cells \o parts[1]) ELSE Clip(parts[last])
    IN  [lines |-> a.lines \o
                     [i \in 1..(last - 1) |->
                        IF i = 1 THEN Clip(a.cells \o parts[1]) ELSE Clip(parts[i])],
         cells |-> cells, col |-> Len(cells)]

Feed(a, text) ==
    IF CR \notin Range(text) /\ a.col = Len(a.cells)
    THEN FeedPlain(a, text) ELSE FeedBytes(a, text)

-----------------------------------------------------------------------------
(* LogTail. *)

NoIdent == 0
NewTail == [pos |-> 0, ident |-> NoIdent, started |-> FALSE, line |-> Blank]

Restart(t) == [t EXCEPT !.pos = 0, !.line = Blank]

(* Mutant: only a shorter file is another one.                             *)
FreshIfShorter(t, ident, size) == ~t.started \/ size < t.pos

(* The view starts over: a first read, a file that went backwards, or one  *)
(* that is no longer the file the offset was an offset into.               *)
IsFresh(t, ident, size) == FreshIfShorter(t, ident, size) \/ ident # t.ident

(* stat() has answered.                                                    *)
AfterStat(t, ident, size) ==
    [(IF IsFresh(t, ident, size) THEN Restart(t) ELSE t) EXCEPT !.ident = ident]

(* stat() found no file.                                                   *)
AfterMissing(t) == [Restart(t) EXCEPT !.started = FALSE]

(* open() or read() failed: a first read that was not made is still due.   *)
AfterReadError(t, fresh) == IF fresh THEN [t EXCEPT !.started = FALSE] ELSE t

(* Where a read starts, for the size stat() gave.                          *)
ReadFrom(t, fresh, size) == IF fresh THEN Max({0, size - Window}) ELSE t.pos

FirstOf(c, data) == SelectInSeq(data, LAMBDA b : b = c)

(* _drop_leading_fragment: what of a window to skip.                       *)
LeadingFragment(data) ==
    IF FirstOf(NL, data) > 0 THEN FirstOf(NL, data) ELSE FirstOf(CR, data)

(* tell(): all there was to read, also what came after the stat().         *)
PosAfter(from, data) == from + Len(data)

(* The read: the bytes from there to the end, as the file then is; a seek  *)
(* past the end reads nothing.                                             *)
Bytes(content, from) == SubSeq(content, from + 1, Len(content))

(* How much of that is skipped to start at the start of a line.            *)
Skipped(t, content, fresh, size) ==
    LET at == ReadFrom(t, fresh, size)
    IN  IF fresh /\ at > 0 THEN LeadingFragment(Bytes(content, at)) ELSE 0

AfterRead(t, content, fresh, size) ==
    LET at   == ReadFrom(t, fresh, size)
        data == Bytes(content, at)
        text == SubSeq(data, Skipped(t, content, fresh, size) + 1, Len(data))
    IN  [t EXCEPT !.pos = PosAfter(at, data), !.started = TRUE,
                  !.line = Feed([@ EXCEPT !.lines = <<>>], text)]

(* The TailChunk of a read, from the tail before and after it.             *)
NoChunk == [lines |-> <<>>, partial |-> <<>>, reset |-> FALSE, error |-> "",
            tailOnly |-> FALSE, dropped |-> 0, size |-> 0]

MissingChunk == [NoChunk EXCEPT !.error = "missing"]
ErrorChunk == [NoChunk EXCEPT !.error = "error"]

Chunk(t, fresh, size, after) ==
    LET lines == after.line.lines
        over  == Max({0, Len(lines) - MaxLines})
    IN  [lines |-> SubSeq(lines, over + 1, Len(lines)), partial |-> after.line.cells,
         reset |-> fresh, error |-> "",
         tailOnly |-> over > 0 \/ (fresh /\ ReadFrom(t, fresh, size) > 0),
         dropped |-> over, size |-> size]
=============================================================================
