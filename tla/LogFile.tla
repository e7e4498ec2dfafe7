------------------------------- MODULE LogFile -------------------------------
(***************************************************************************)
(* Several `slurmwatch --log PATH` runs on one CSV file (cli.py).          *)
(*                                                                         *)
(* A run reads the layout an existing file dictates (_csv_append_layout),  *)
(* claims the file (_claim_log_file), truncates it or, with --append, ends *)
(* an unfinished last line (_terminate_partial_last_record), then appends  *)
(* records (_write_record).  The runs share nothing but the file and its   *)
(* two locks: the POSIX record lock reaches across hosts but is dropped    *)
(* when the run closes any descriptor of the file; flock is kept until     *)
(* exit but is seen on one host only.                                      *)
(*                                                                         *)
(* The file is a sequence of units, a unit being half of a line, so that a *)
(* short write leaves an unfinished line behind.                           *)
(***************************************************************************)
EXTENDS Naturals, Sequences

CONSTANTS
    Runs,           \* the processes
    Appends,        \* those started with --append
    Hosts,          \* the nodes they run on
    HostOf,         \* [Runs -> Hosts]
    Layouts,        \* CSV column layouts
    LayoutOf,       \* [Runs -> Layouts], the layout a run's job and build give
    Old,            \* whoever wrote the file before
    NULL,           \* no run; no layout
    Existing,       \* what the file may hold to begin with
    MaxRecords      \* bound on the records of a run

Half == {"head1", "head2", "row1", "row2", "newline"}
Unit == [by: Runs \cup {Old}, half: Half, layout: Layouts]

ASSUME LogFileAssumption ==
    /\ Appends \subseteq Runs
    /\ HostOf \in [Runs -> Hosts]
    /\ LayoutOf \in [Runs -> Layouts]
    /\ NULL \notin Runs \cup Layouts \cup {Old}
    /\ Old \notin Runs
    /\ Existing \subseteq Seq(Unit)
    /\ \A f \in Existing : \A i \in DOMAIN f : f[i].by = Old
    /\ MaxRecords \in Nat

Follows(a, b) ==
    /\ a.by = b.by
    /\ <<a.half, b.half>> \in {<<"head1", "head2">>, <<"row1", "row2">>}

(* The line that begins at i is cut by what follows it, and not by the     *)
(* newline a later run ends it with; or the end of a line at i has lost    *)
(* its beginning.                                                          *)
CutAt(f, i) ==
    /\ f[i].half \in {"head1", "row1"}
    /\ i < Len(f) /\ ~Follows(f[i], f[i + 1])
    /\ f[i + 1].half # "newline"
OrphanAt(f, i) ==
    /\ f[i].half \in {"head2", "row2"}
    /\ i = 1 \/ ~Follows(f[i - 1], f[i])

(* What single runs leave, however they ended: a header first, every line  *)
(* whole but perhaps the last, every row under that header.                *)
ASSUME ExistingAssumption ==
    \A f \in Existing : \A i \in DOMAIN f :
        /\ f[1].half = "head1"
        /\ ~CutAt(f, i) /\ ~OrphanAt(f, i)
        /\ f[i].half = "row1" => f[i].layout = f[1].layout

VARIABLES
    pc,         \* where each run is
    file,       \* the file's contents
    lockfBy,    \* holder of the record lock (F_SETLK)
    flockBy,    \* holder of the flock, per host
    forced,     \* forced_max_gpus and conform_map: the layout the file dictates
    needHeader, \* header_needed
    pending,    \* what _write_record has still to write
    records,    \* records sampled so far, per run
    met         \* history: the runs that shared the file with another live one

vars == <<pc, file, lockfBy, flockBy, forced, needHeader, pending, records, met>>

Truncates == Runs \ Appends

Places == {"idle", "layout", "lockf", "flock", "truncate", "size", "tail",
           "loop", "done", "refused"}

Live(p) == pc[p] \notin {"idle", "done", "refused"}

TypeOK ==
    /\ pc \in [Runs -> Places]
    /\ file \in Seq(Unit)
    /\ lockfBy \in Runs \cup {NULL}
    /\ flockBy \in [Hosts -> Runs \cup {NULL}]
    /\ forced \in [Runs -> Layouts \cup {NULL}]
    /\ needHeader \in [Runs -> BOOLEAN]
    /\ pending \in [Runs -> Seq(Unit)]
    /\ records \in [Runs -> 0..MaxRecords]
    /\ met \subseteq Runs

Init ==
    /\ pc = [p \in Runs |-> "idle"]
    /\ file \in Existing
    /\ lockfBy = NULL
    /\ flockBy = [h \in Hosts |-> NULL]
    /\ forced = [p \in Runs |-> NULL]
    /\ needHeader = [p \in Runs |-> FALSE]
    /\ pending = [p \in Runs |-> <<>>]
    /\ records = [p \in Runs |-> 0]
    /\ met = {}

-----------------------------------------------------------------------------
(* _csv_existing_header: the first line, finished or not, if it is a header. *)
HeaderOf(f) ==
    IF f # <<>> /\ f[1].half = "head1" THEN f[1].layout ELSE NULL

Unterminated(f) == f # <<>> /\ f[Len(f)].half \in {"head1", "row1"}

(* The columns this run writes: the file's own, by name, or its own.       *)
RowLayout(p) == IF forced[p] = NULL THEN LayoutOf[p] ELSE forced[p]

Line(p, first, second) ==
    << [by |-> p, half |-> first, layout |-> RowLayout(p)],
       [by |-> p, half |-> second, layout |-> RowLayout(p)] >>

Newline(p) == << [by |-> p, half |-> "newline", layout |-> LayoutOf[p]] >>

(* os.close, by the run or by the kernel at its end, gives both locks back. *)
Release(p) ==
    /\ lockfBy' = IF lockfBy = p THEN NULL ELSE lockfBy
    /\ flockBy' = [h \in Hosts |-> IF flockBy[h] = p THEN NULL ELSE flockBy[h]]

Goto(p, place) == pc' = [pc EXCEPT ![p] = place]

(* _headless_loop begins. *)
Start(p) ==
    /\ pc[p] = "idle"
    /\ Goto(p, IF p \in Appends THEN "layout" ELSE "lockf")
    /\ LET others == {q \in Runs : Live(q)}
       IN met' = IF others = {} THEN met ELSE met \cup others \cup {p}
    /\ UNCHANGED <<file, lockfBy, flockBy, forced, needHeader, pending, records>>

(* _csv_max_gpus_from_header and _csv_append_layout, before any lock.      *)
ReadHeader(p) ==
    /\ pc[p] = "layout"
    /\ forced' = [forced EXCEPT ![p] = HeaderOf(file)]
    /\ Goto(p, "lockf")
    /\ UNCHANGED <<file, lockfBy, flockBy, needHeader, pending, records, met>>

(* A busy lock: an appending run warns and goes on with what it has, a     *)
(* truncating one exits, which closes the file.                            *)
Busy(p) ==
    IF p \in Appends
    THEN Goto(p, "size") /\ UNCHANGED <<lockfBy, flockBy>>
    ELSE Goto(p, "refused") /\ Release(p)

(* Mutant: the file is opened with O_TRUNC, before any lock is held.       *)
ClaimLockfTruncates(p) ==
    /\ pc[p] = "lockf"
    /\ IF lockfBy = NULL
       THEN lockfBy' = p /\ Goto(p, "flock") /\ UNCHANGED flockBy
       ELSE Busy(p)
    /\ file' = IF p \in Appends THEN file ELSE <<>>
    /\ UNCHANGED <<forced, needHeader, pending, records, met>>

(* _claim_log_file, fcntl.lockf. *)
ClaimLockf(p) ==
    /\ pc[p] = "lockf"
    /\ IF lockfBy = NULL
       THEN lockfBy' = p /\ Goto(p, "flock") /\ UNCHANGED flockBy
       ELSE Busy(p)
    /\ UNCHANGED <<file, forced, needHeader, pending, records, met>>

(* _claim_log_file, fcntl.flock, on a file system where it is node-local.  *)
ClaimFlock(p) ==
    /\ pc[p] = "flock"
    /\ IF flockBy[HostOf[p]] = NULL
       THEN /\ flockBy' = [flockBy EXCEPT ![HostOf[p]] = p]
            /\ Goto(p, IF p \in Appends THEN "size" ELSE "truncate")
            /\ UNCHANGED lockfBy
       ELSE Busy(p)
    /\ UNCHANGED <<file, forced, needHeader, pending, records, met>>

(* os.ftruncate. *)
Truncate(p) ==
    /\ pc[p] = "truncate"
    /\ file' = <<>>
    /\ Goto(p, "size")
    /\ UNCHANGED <<lockfBy, flockBy, forced, needHeader, pending, records, met>>

(* Mutant: whoever finds the file non-empty looks at its tail.             *)
CheckSizeAnyMode(p) ==
    /\ pc[p] = "size"
    /\ needHeader' = [needHeader EXCEPT ![p] = (file = <<>>)]
    /\ Goto(p, "tail")
    /\ UNCHANGED <<file, lockfBy, flockBy, forced, pending, records, met>>

(* header_needed = os.fstat(fd).st_size == 0 *)
CheckSize(p) ==
    /\ pc[p] = "size"
    /\ needHeader' = [needHeader EXCEPT ![p] = (file = <<>>)]
    /\ Goto(p, IF p \in Appends /\ file # <<>> THEN "tail" ELSE "loop")
    /\ UNCHANGED <<file, lockfBy, flockBy, forced, pending, records, met>>

(* Mutant: the tail is not looked at.                                      *)
ReadTailSkipped(p) ==
    /\ pc[p] = "tail"
    /\ Goto(p, "loop")
    /\ UNCHANGED <<file, lockfBy, flockBy, forced, needHeader, pending, records, met>>

(* _terminate_partial_last_record: the tail is read through a second       *)
(* descriptor, and closing that one drops this process's record lock.      *)
ReadTail(p) ==
    /\ pc[p] = "tail"
    /\ lockfBy' = IF file # <<>> /\ lockfBy = p THEN NULL ELSE lockfBy
    /\ pending' = [pending EXCEPT ![p] =
                       IF Unterminated(file) THEN Newline(p) ELSE <<>>]
    /\ Goto(p, "loop")
    /\ UNCHANGED <<file, flockBy, forced, needHeader, records, met>>

(* _write is called with the next snapshot: the record and, the first time *)
(* on an empty file, the header, as one payload.                           *)
Sample(p) ==
    /\ pc[p] = "loop" /\ pending[p] = <<>> /\ records[p] < MaxRecords
    /\ records' = [records EXCEPT ![p] = @ + 1]
    /\ pending' = [pending EXCEPT ![p] =
                       IF needHeader[p]
                       THEN Line(p, "head1", "head2") \o Line(p, "row1", "row2")
                       ELSE Line(p, "row1", "row2")]
    /\ needHeader' = [needHeader EXCEPT ![p] = FALSE]
    /\ UNCHANGED <<pc, file, lockfBy, flockBy, forced, met>>

(* One os.write of _write_record: it appends the whole payload or, at a    *)
(* quota or a full disk, only the first k units of it.                     *)
Write(p) ==
    /\ pc[p] = "loop" /\ pending[p] # <<>>
    /\ \E k \in 1..Len(pending[p]) :
          /\ file' = file \o SubSeq(pending[p], 1, k)
          /\ pending' = [pending EXCEPT ![p] = SubSeq(@, k + 1, Len(@))]
    /\ UNCHANGED <<pc, lockfBy, flockBy, forced, needHeader, records, met>>

(* The process ends, with what it had in memory: the job or a signal       *)
(* between two records, an OSError of a write, or a SIGKILL anywhere.      *)
End(p) ==
    /\ Live(p)
    /\ Goto(p, "done")
    /\ Release(p)
    /\ forced' = [forced EXCEPT ![p] = NULL]
    /\ needHeader' = [needHeader EXCEPT ![p] = FALSE]
    /\ pending' = [pending EXCEPT ![p] = <<>>]
    /\ UNCHANGED <<file, records, met>>

Step(p) ==
    \/ Start(p) \/ ReadHeader(p) \/ ClaimLockf(p) \/ ClaimFlock(p)
    \/ Truncate(p) \/ CheckSize(p) \/ ReadTail(p)
    \/ Sample(p) \/ Write(p) \/ End(p)

Next == \E p \in Runs : Step(p)

Spec == Init /\ [][Next]_vars

-----------------------------------------------------------------------------
(* Two truncating runs are never both past their claim, on whatever hosts  *)
(* (_claim_log_file).  This rests on a truncating run never opening the    *)
(* file a second time: doing so would silently drop its record lock.       *)
TruncatorsExclude ==
    \A p, q \in Truncates :
        {pc[p], pc[q]} \subseteq {"truncate", "size", "tail", "loop"} => p = q

(* The file shrinks only in the hands of a run that holds both locks, so   *)
(* a run about to be refused leaves it as it is.                           *)
TruncationIsClaimed ==
    [][Len(file') < Len(file)
           => \E p \in Truncates : lockfBy = p /\ flockBy[HostOf[p]] = p]_vars

(* What a truncating run has recorded is not destroyed while it runs.      *)
RecordingIsKept ==
    [][Len(file') < Len(file)
           => \A i \in DOMAIN file : file[i].by \in Truncates => ~Live(file[i].by)]_vars

(* Records are spliced only between runs that were alive together: a run   *)
(* that resumes an interrupted log does not glue its first record to the   *)
(* unfinished last one (_terminate_partial_last_record).                   *)
SpliceNeedsOverlap ==
    \A i \in DOMAIN file :
        /\ CutAt(file, i) => file[i + 1].by \in met
        /\ OrphanAt(file, i) => file[i].by \in met

RowsUnder(heading) ==
    \A i \in DOMAIN file :
        file[i].half = "row1" => heading # NULL /\ file[i].layout = heading

(* With one writer at a time, through crashes, short writes and changes of *)
(* layout, every row stands under a heading of its own columns.            *)
SoloRowsUnderHeading == met = {} => RowsUnder(HeaderOf(file))

(* A log resumed after any interruption, and written by one run at a time, *)
(* is whole: neither spliced records nor displaced columns.                *)
ResumedLogIsWhole == SpliceNeedsOverlap /\ SoloRowsUnderHeading

(* Truncation is safe for whoever else records: it takes both locks, and   *)
(* it never costs a truncating run its records.                            *)
TruncationIsSafe == TruncationIsClaimed /\ RecordingIsKept

(* What the locks rest on: who holds what at each step of a truncating     *)
(* run, ...                                                                *)
ClaimHeld ==
    /\ \A p \in Runs : pc[p] = "flock" => lockfBy = p
    /\ \A p \in Truncates :
          /\ pc[p] \notin {"layout", "tail"}
          /\ pc[p] \in {"truncate", "size", "loop"}
                => lockfBy = p /\ flockBy[HostOf[p]] = p
    /\ \A p \in Appends : pc[p] # "truncate"

(* ... and that no run has anything in the file before its loop.           *)
OwnPayload == \A p \in Runs : \A i \in DOMAIN pending[p] : pending[p][i].by = p
WrittenInLoop ==
    \A i \in DOMAIN file :
        file[i].by \in Runs => pc[file[i].by] \in {"loop", "done"}

ClaimInv == ClaimHeld /\ OwnPayload /\ WrittenInLoop

-----------------------------------------------------------------------------
(* What docstrings of the code say and the code does not do. *)

(* "lockf reaches across nodes" (_claim_log_file): a truncating run is not  *)
(* granted the record lock while a run on another host is recording.       *)
RecordingSeenAcrossHosts ==
    [][\A p \in Truncates, q \in Runs :
           pc[p] = "lockf" /\ pc'[p] = "flock" /\ HostOf[q] # HostOf[p]
               => pc[q] # "loop"]_vars

(* "the file stays internally consistent and every value lands under its   *)
(* own heading" (_csv_append_layout).                                      *)
RowsUnderHeading == RowsUnder(HeaderOf(file))

=============================================================================
