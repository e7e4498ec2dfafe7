------------------------------- MODULE LogView -------------------------------
(***************************************************************************)
(* LogViewScreen (tui.py): a live tail of one of a job's two log files,    *)
(* read twice a second on a thread, while the job writes, truncates and    *)
(* rotates the file and the user switches files, resizes the terminal or   *)
(* leaves.                                                                 *)
(*                                                                         *)
(* The body of the screen is the sequence of what it holds: lines of a     *)
(* file and notes of the screen's own.  How it is drawn, whether the user  *)
(* has scrolled away from its end and the scrollback cap are left out.     *)
(***************************************************************************)
EXTENDS LogTail, Places

CONSTANTS
    Out, Err,   \* the two files
    MaxSize,    \* bound on the size of a file
    MaxSwaps    \* bound on truncations, rotations and removals

ASSUME LogViewAssumption == Out # Err /\ MaxSize \in Nat /\ MaxSwaps \in Nat

VARIABLES
    file,       \* the files: identity (NoIdent when absent), content, and how
                \* often the content has been swapped for another
    pathKnown,  \* whether the path of Err holds no pattern left unresolved
    view,       \* the fields of the screen and its two widgets
    reader,     \* _poll_once and its thread
    base,       \* history: where in which content of the file the view starts,
                \* and how often the file had been swapped when it was last read
    doubt       \* history: why the view need not be the file, if it need not

logViewVars == <<file, pathKnown, view, reader, base, doubt>>

Line(f, cells) == [kind |-> "line", file |-> f, cells |-> cells]
Note(kind) == [kind |-> kind, file |-> Out, cells |-> <<>>]

(* Content of a file from an offset on: which one, under which identity.   *)
Nowhere == [at |-> 0, swaps |-> 0, ident |-> NoIdent]

(* Why the view may be something else than the file: it was rewritten in   *)
(* place and grew past the offset; another took its place between the stat *)
(* and the open; an error took the place of what was shown; an answer was  *)
(* about another file.                                                     *)
Doubts == {"rewritten", "torn", "cleared", "foreign"}

HasPath(f) == f = Out \/ pathKnown

(* _select: a new LogTail and a view of nothing.                           *)
ViewOf(f) ==
    [which |-> f, tail |-> NewTail, body |-> <<>>, live |-> <<>>,
     message |-> "", hasContent |-> FALSE, tailOnly |-> FALSE]

(* _poll_once, up to its thread: it works on the tail the screen had then. *)
Idle == [at |-> "idle", file |-> Out, own |-> TRUE, tail |-> NewTail, fresh |-> FALSE,
         size |-> 0, chunk |-> NoChunk, base |-> Nowhere]

Reading(f, t) == [Idle EXCEPT !.at = "stat", !.file = f, !.tail = t]

(* _show_message: a notice in place of content, written once.              *)
Notice(v, kind) ==
    IF v.message = kind THEN v
    ELSE [v EXCEPT !.body = << Note("notice") >>, !.live = <<>>,
                   !.message = kind, !.hasContent = FALSE]

LogViewTypeOK ==
    /\ \A f \in {Out, Err} :
          file[f].ident \in Nat /\ Len(file[f].data) <= MaxSize /\ file[f].swaps \in 0..MaxSwaps
    /\ pathKnown \in BOOLEAN
    /\ view.which \in {Out, Err} /\ view.tail.pos \in 0..MaxSize
    /\ view.message \in {"", "missing", "error", "nothing", "noFile"}
    /\ {view.hasContent, view.tailOnly, view.tail.started} \subseteq BOOLEAN
    /\ \A i \in DOMAIN view.body :
          view.body[i].kind \in {"line", "restarted", "skipped", "notice"}
    /\ reader.at \in {"idle", "stat", "open", "answer", "closed"}
    /\ base.at \in 0..MaxSize /\ doubt \subseteq Doubts

(* on_mount has started the first read.                                    *)
LogViewInit ==
    /\ file = [f \in {Out, Err} |-> IF f = Out
                                   THEN [ident |-> 1, data |-> <<>>, swaps |-> 0]
                                   ELSE [ident |-> 2, data |-> <<1, NL>>, swaps |-> 0]]
    /\ pathKnown \in BOOLEAN
    /\ view = ViewOf(Out)
    /\ reader = Reading(Out, NewTail) /\ base = Nowhere /\ doubt = {}

-----------------------------------------------------------------------------
(* The job and its file system. *)

Swap(ident, data) ==
    /\ file[Out].swaps < MaxSwaps
    /\ file' = [file EXCEPT ![Out] = [ident |-> ident, data |-> data, swaps |-> @.swaps + 1]]
    /\ UNCHANGED <<pathKnown, view, reader, base, doubt>>

Write ==
    /\ file[Out].ident # NoIdent /\ Len(file[Out].data) < MaxSize
    /\ \E c \in {Len(file[Out].data) + 1 + 10 * file[Out].swaps, NL, CR} :
          file' = [file EXCEPT ![Out].data = Append(@, c)]
    /\ UNCHANGED <<pathKnown, view, reader, base, doubt>>

Truncate == file[Out].data # <<>> /\ Swap(file[Out].ident, <<>>)
Rotate == Swap(file[Out].swaps + 3, <<100 + file[Out].swaps, NL>>)
Unlink == file[Out].ident # NoIdent /\ Swap(NoIdent, <<>>)

-----------------------------------------------------------------------------
(* _kick and _poll_once up to the thread: nothing while a read is in       *)
(* flight; a notice, at once, when there is no file to open.               *)
Kick(v) ==
    /\ view' = IF reader.at = "idle" /\ ~HasPath(v.which) THEN Notice(v, "noFile") ELSE v
    /\ reader' = CASE reader.at # "idle" -> [reader EXCEPT !.own = FALSE]
                   [] reader.at = "idle" /\ HasPath(v.which) -> Reading(v.which, v.tail)
                   [] OTHER -> reader

Poll ==
    /\ reader.at = "idle"
    /\ Kick(view)
    /\ UNCHANGED <<file, pathKnown, base, doubt>>

Anew(v) ==
    /\ reader.at # "closed"
    /\ Kick(v)
    /\ base' = Nowhere /\ doubt' = {}
    /\ UNCHANGED <<file, pathKnown>>

(* action_show: another file, a cleared view, a read if none is in flight. *)
ShowFile(f) == f # view.which /\ Anew(ViewOf(f))

(* on_resize: lines are wrapped for the new width by tailing the file      *)
(* again; the row of the line being written stays.                         *)
Retail ==
    /\ HasPath(view.which)
    /\ Anew([ViewOf(view.which) EXCEPT !.live = view.live])

(* action_close: an answer that comes later finds no screen.               *)
Close ==
    /\ reader.at # "closed"
    /\ reader' = [Idle EXCEPT !.at = "closed"]
    /\ UNCHANGED <<file, pathKnown, view, base, doubt>>

-----------------------------------------------------------------------------
(* LogTail.read, on its thread: the stat, then the open and the read.      *)

Answered(t, chunk) ==
    reader' = [reader EXCEPT !.at = "answer", !.tail = t, !.chunk = chunk]

Stat ==
    LET now == file[reader.file]
    IN  /\ reader.at = "stat"
        /\ \/ now.ident = NoIdent /\ Answered(AfterMissing(reader.tail), MissingChunk)
           \/ now.ident # NoIdent /\ Answered(reader.tail, ErrorChunk)
           \/ /\ now.ident # NoIdent
              /\ reader' = [reader EXCEPT
                   !.at = "open", !.size = Len(now.data),
                   !.fresh = IsFresh(reader.tail, now.ident, Len(now.data)),
                   !.tail = AfterStat(reader.tail, now.ident, Len(now.data))]
        /\ UNCHANGED <<file, pathKnown, view, base, doubt>>

OpenFails ==
    /\ reader.at = "open"
    /\ Answered(AfterReadError(reader.tail, reader.fresh), ErrorChunk)
    /\ UNCHANGED <<file, pathKnown, view, base, doubt>>

OpenAndRead ==
    LET now   == file[reader.file]
        after == AfterRead(reader.tail, now.data, reader.fresh, reader.size)
        start == ReadFrom(reader.tail, reader.fresh, reader.size)
                   + Skipped(reader.tail, now.data, reader.fresh, reader.size)
    IN  /\ reader.at = "open" /\ now.ident # NoIdent
        /\ reader' = [reader EXCEPT
             !.at = "answer", !.tail = after,
             !.chunk = Chunk(reader.tail, reader.fresh, reader.size, after),
             !.base = [at |-> start, swaps |-> now.swaps, ident |-> now.ident]]
        /\ UNCHANGED <<file, pathKnown, view, base, doubt>>

-----------------------------------------------------------------------------
(* _render_chunk, back on the event loop. *)

(* Sticky: only the read that trimmed the view can say that it did.        *)
TailOnly(v, chunk) == (v.tailOnly /\ ~chunk.reset) \/ chunk.tailOnly

Restarted(v, chunk) == chunk.reset /\ v.hasContent

(* Mutant: the notice goes, and with it the memory that nothing is shown.  *)
ClearedOfNotice(v, chunk) ==
    IF v.message # "" \/ Restarted(v, chunk)
    THEN [v EXCEPT !.body = <<>>, !.message = "", !.hasContent = chunk.reset]
    ELSE v

Cleared(v, chunk) ==
    IF v.message # "" \/ Restarted(v, chunk)
    THEN [v EXCEPT !.body = IF Restarted(v, chunk) THEN << Note("restarted") >> ELSE <<>>,
                   !.message = "", !.hasContent = FALSE]
    ELSE v

Rendered(v, f, chunk) ==
    LET start  == Cleared([v EXCEPT !.tailOnly = TailOnly(v, chunk)], chunk)
        filled == [start EXCEPT
            !.body = @ \o (IF chunk.dropped > 0 THEN << Note("skipped") >> ELSE <<>>)
                       \o [i \in DOMAIN chunk.lines |-> Line(f, chunk.lines[i])],
            !.hasContent = @ \/ chunk.lines # <<>>,
            !.live = chunk.partial]
    IN  IF filled.hasContent \/ chunk.partial # <<>> THEN filled ELSE Notice(filled, "nothing")

DoubtAfter(chunk) ==
    LET other == chunk.error = "" /\ ~chunk.reset /\ reader.base.swaps # base.swaps
        same  == reader.base.ident = base.ident
        torn  == reader.base.ident # reader.tail.ident
        new   == (IF ~reader.own THEN {"foreign"} ELSE {}) \cup
                 (IF chunk.error = "error" /\ ~reader.fresh THEN {"cleared"} ELSE {}) \cup
                 (IF other /\ same THEN {"rewritten"} ELSE {}) \cup
                 (IF other /\ torn THEN {"torn"} ELSE {})
    IN  IF chunk.reset THEN new ELSE doubt \cup new

(* A LogTail is the screen's until the screen takes another one; its       *)
(* answer is shown all the same.                                           *)
Answer ==
    LET chunk == reader.chunk
        v     == IF reader.own THEN [view EXCEPT !.tail = reader.tail] ELSE view
    IN  /\ reader.at = "answer"
        /\ view' = IF chunk.error # "" THEN Notice(v, chunk.error)
                   ELSE Rendered(v, reader.file, chunk)
        /\ reader' = Idle
        /\ base' = CASE chunk.reset -> reader.base
                     [] chunk.error = "" /\ ~chunk.reset ->
                          [base EXCEPT !.swaps = reader.base.swaps]
                     [] OTHER -> base
        /\ doubt' = DoubtAfter(chunk)
        /\ UNCHANGED <<file, pathKnown>>

LogViewNext ==
    \/ Write \/ Truncate \/ Rotate \/ Unlink
    \/ \E f \in {Out, Err} : ShowFile(f)
    \/ Retail \/ Close
    \/ Poll \/ Stat \/ OpenFails \/ OpenAndRead \/ Answer

LogViewSpec == LogViewInit /\ [][LogViewNext]_logViewVars

-----------------------------------------------------------------------------
(* Properties. *)

(* What the screen shows of the file, when nothing gave reason to doubt it *)
(* and the file is still the one that was read.                            *)
Trusted ==
    /\ view.tail.started /\ view.message = "" /\ doubt = {}
    /\ base.swaps = file[view.which].swaps

(* The lines of a body, from the last place on where some were skipped.    *)
SkipsIn(body) == {i \in DOMAIN body : body[i].kind = "skipped"}
LinesIn(body) == {i \in DOMAIN body : body[i].kind = "line" /\ i > Max({0} \cup SkipsIn(body))}

SkipNotes == SkipsIn(view.body)
Shown == LET lines == AtPlaces(view.body, LinesIn(view.body))
         IN  [i \in DOMAIN lines |-> lines[i].cells]

(* However the reads fell between the job's writes, rotations and          *)
(* truncations, the lines on the screen and the line being written are     *)
(* what one pass over the file, byte by byte, gives from the place where   *)
(* the view starts; after a burst was skipped, they are the end of that.   *)
BodyIsTheFile ==
    LET whole == FeedBytes(Blank, SubSeq(file[view.which].data, base.at + 1, view.tail.pos))
    IN  Trusted => /\ IsSuffix(Shown, whole.lines)
                   /\ SkipNotes = {} => Shown = whole.lines
                   /\ view.live = whole.cells

(* The screen says "end of file only" exactly when the first byte shown is *)
(* not the first of the file or a burst was skipped, and goes on saying it *)
(* while later reads, which trim nothing, add to the view.                 *)
StartIsOwned == Trusted => (view.tailOnly <=> base.at > 0 \/ SkipNotes # {})

(* The view is the file from the place on where it says it starts.         *)
ViewIsTheFile == BodyIsTheFile /\ StartIsOwned

(* "A blank box is the one thing the viewer must not show": between two    *)
(* reads there is a line, a line being written or a notice.                *)
NeverBlank == reader.at = "idle" => view.body # <<>> \/ view.live # <<>>

(* "Point the viewer at one of the two files and reset its read state":    *)
(* every line on the screen is of the file its title names.                *)
LinesAreOfShownFile ==
    \A i \in DOMAIN view.body :
       view.body[i].kind = "line" => view.body[i].file = view.which
=============================================================================
