--------------------------- MODULE LogFileProofs ---------------------------
(***************************************************************************)
(* Proofs about the claim on a log file, for any number of runs and hosts. *)
(***************************************************************************)
EXTENDS LogFile, SequenceTheorems, TLAPS

-----------------------------------------------------------------------------
(* Type correctness. *)

(* A line is two units. *)
LEMMA LineType ==
    ASSUME TypeOK, NEW p \in Runs, NEW a \in Half, NEW b \in Half
    PROVE  /\ Line(p, a, b) \in Seq(Unit)
           /\ Newline(p) \in Seq(Unit)
<1>1. RowLayout(p) \in Layouts /\ LayoutOf[p] \in Layouts
  BY LogFileAssumption DEF TypeOK, RowLayout
<1>2. /\ [by |-> p, half |-> a, layout |-> RowLayout(p)] \in Unit
      /\ [by |-> p, half |-> b, layout |-> RowLayout(p)] \in Unit
      /\ [by |-> p, half |-> "newline", layout |-> LayoutOf[p]] \in Unit
  BY <1>1 DEF Unit, Half
<1> QED BY <1>2 DEF Line, Newline

(* The layout a file dictates is a layout, or none. *)
LEMMA HeaderType ==
    ASSUME TypeOK PROVE HeaderOf(file) \in Layouts \cup {NULL}
<1>1. file # <<>> => file[1] \in Unit
  BY DEF TypeOK
<1> QED BY <1>1 DEF HeaderOf, Unit

(* Releasing keeps the locks' types. *)
LEMMA ReleaseType ==
    ASSUME TypeOK, NEW p \in Runs, Release(p)
    PROVE  lockfBy' \in Runs \cup {NULL} /\ flockBy' \in [Hosts -> Runs \cup {NULL}]
BY DEF TypeOK, Release

(* No step takes a variable out of its type.                               *)
LEMMA TypeStep == ASSUME TypeOK, [Next]_vars PROVE TypeOK'
<1>1. ASSUME NEW p \in Runs, Start(p) PROVE TypeOK'
  BY <1>1 DEF TypeOK, Places, Start, Goto, Live
<1>2. ASSUME NEW p \in Runs, ReadHeader(p) PROVE TypeOK'
  BY <1>2, HeaderType DEF TypeOK, Places, ReadHeader, Goto
<1>3. ASSUME NEW p \in Runs, ClaimLockf(p) PROVE TypeOK'
  BY <1>3, ReleaseType DEF TypeOK, Places, ClaimLockf, Busy, Goto
<1>4. ASSUME NEW p \in Runs, ClaimFlock(p) PROVE TypeOK'
  <2>1. lockfBy' \in Runs \cup {NULL}
    BY <1>4, ReleaseType DEF TypeOK, ClaimFlock, Busy
  <2>2. flockBy' \in [Hosts -> Runs \cup {NULL}]
    BY <1>4, ReleaseType DEF TypeOK, ClaimFlock, Busy
  <2>3. pc' \in [Runs -> Places]
    BY <1>4 DEF TypeOK, Places, ClaimFlock, Busy, Goto
  <2> QED BY <1>4, <2>1, <2>2, <2>3 DEF TypeOK, ClaimFlock
<1>5. ASSUME NEW p \in Runs, Truncate(p) PROVE TypeOK'
  BY <1>5 DEF TypeOK, Places, Truncate, Goto
<1>6. ASSUME NEW p \in Runs, CheckSize(p) PROVE TypeOK'
  BY <1>6 DEF TypeOK, Places, CheckSize, Goto
<1>7. ASSUME NEW p \in Runs, ReadTail(p) PROVE TypeOK'
  <2>1. Newline(p) \in Seq(Unit)
    BY LineType DEF Half
  <2> QED BY <1>7, <2>1 DEF TypeOK, Places, ReadTail, Goto
<1>8. ASSUME NEW p \in Runs, Sample(p) PROVE TypeOK'
  <2>1. /\ Line(p, "head1", "head2") \in Seq(Unit)
        /\ Line(p, "row1", "row2") \in Seq(Unit)
    BY LineType DEF Half
  <2>2. Line(p, "head1", "head2") \o Line(p, "row1", "row2") \in Seq(Unit)
    BY <2>1
  <2>3. pending' \in [Runs -> Seq(Unit)]
    BY <1>8, <2>1, <2>2 DEF TypeOK, Sample
  <2>4. records' \in [Runs -> 0..MaxRecords]
    BY <1>8, LogFileAssumption DEF TypeOK, Sample
  <2> QED BY <1>8, <2>3, <2>4 DEF TypeOK, Places, Sample
<1>9. ASSUME NEW p \in Runs, Write(p) PROVE TypeOK'
  <2>1. PICK k \in 1..Len(pending[p]) :
           /\ file' = file \o SubSeq(pending[p], 1, k)
           /\ pending' = [pending EXCEPT ![p] = SubSeq(@, k + 1, Len(@))]
    BY <1>9 DEF Write
  <2>2. pending[p] \in Seq(Unit) /\ Len(pending[p]) \in Nat
    BY DEF TypeOK
  <2>3. SubSeq(pending[p], 1, k) \in Seq(Unit)
    BY <2>2, SubSeqProperties
  <2>4. SubSeq(pending[p], k + 1, Len(pending[p])) \in Seq(Unit)
    BY <2>2, SubSeqProperties
  <2>5. file' \in Seq(Unit)
    BY <2>1, <2>3 DEF TypeOK
  <2>6. pending' \in [Runs -> Seq(Unit)]
    BY <2>1, <2>4 DEF TypeOK
  <2> QED BY <1>9, <2>5, <2>6 DEF TypeOK, Places, Write
<1>10. ASSUME NEW p \in Runs, End(p) PROVE TypeOK'
  <2>1. lockfBy' \in Runs \cup {NULL} /\ flockBy' \in [Hosts -> Runs \cup {NULL}]
    BY <1>10, ReleaseType DEF End
  <2> QED BY <1>10, <2>1 DEF TypeOK, Places, End, Goto
<1>11. CASE UNCHANGED vars
  BY <1>11 DEF TypeOK, vars
<1> QED
  BY <1>1, <1>2, <1>3, <1>4, <1>5, <1>6, <1>7, <1>8, <1>9, <1>10, <1>11
     DEF Next, Step

(* TypeOK holds in every state of every run of the log writers. *)
THEOREM TypeCorrect == Spec => []TypeOK
<1>1. Init => TypeOK
  BY LogFileAssumption DEF Init, TypeOK, Places
<1> QED BY <1>1, TypeStep, PTL DEF Spec

-----------------------------------------------------------------------------
(* The claim. *)

(* Two sequences of length two, end to end. *)
LEMMA ConcatPairs ==
    ASSUME NEW S, NEW a \in Seq(S), NEW b \in Seq(S), Len(a) = 2, Len(b) = 2
    PROVE  /\ DOMAIN (a \o b) = 1..4
           /\ \A i \in 1..4 : (a \o b)[i] = IF i <= 2 THEN a[i] ELSE b[i - 2]
<1>1. /\ a \o b \in Seq(S)
      /\ Len(a \o b) = Len(a) + Len(b)
      /\ \A i \in 1..Len(a) + Len(b) :
            (a \o b)[i] = IF i <= Len(a) THEN a[i] ELSE b[i - Len(a)]
  BY ConcatProperties
<1>2. Len(a \o b) = 4
  BY <1>1
<1>3. DOMAIN (a \o b) = 1..4
  BY <1>1, <1>2
<1> QED BY <1>1, <1>3

(* What a step of p takes from another truncating run q: nothing. *)
LEMMA OthersKeepLocks ==
    ASSUME TypeOK, NEW p \in Runs, NEW q \in Runs, q # p, Release(p)
    PROVE  /\ lockfBy = q => lockfBy' = q
           /\ flockBy[HostOf[q]] = q => flockBy'[HostOf[q]] = q
BY LogFileAssumption DEF TypeOK, Release

(* ClaimInv survives any step of p that takes no lock from another run,    *)
(* puts nothing in the file and holds what its new place requires.         *)
LEMMA ClaimStep ==
    ASSUME ClaimInv, NEW p \in Runs, UNCHANGED file,
           \A q \in Runs : q # p => pc'[q] = pc[q],
           \A q \in Runs : q # p /\ lockfBy = q => lockfBy' = q,
           \A q \in Runs : q # p /\ flockBy[HostOf[q]] = q => flockBy'[HostOf[q]] = q,
           pc[p] \in {"loop", "done"} => pc'[p] \in {"loop", "done"},
           pc'[p] = "flock" => lockfBy' = p,
           p \in Appends => pc'[p] # "truncate",
           p \in Truncates => /\ pc'[p] \notin {"layout", "tail"}
                              /\ pc'[p] \in {"truncate", "size", "loop"}
                                   => lockfBy' = p /\ flockBy'[HostOf[p]] = p,
           OwnPayload'
    PROVE  ClaimInv'
<1>1. ClaimHeld'
  <2>1. ASSUME NEW q \in Runs, pc'[q] = "flock" PROVE lockfBy' = q
    BY <2>1 DEF ClaimInv, ClaimHeld
  <2>2. ASSUME NEW q \in Truncates
        PROVE  /\ pc'[q] \notin {"layout", "tail"}
               /\ pc'[q] \in {"truncate", "size", "loop"}
                     => lockfBy' = q /\ flockBy'[HostOf[q]] = q
    <3>1. q \in Runs
      BY DEF Truncates
    <3>2. CASE q = p
      BY <3>2, <2>2
    <3>3. CASE q # p
      BY <3>1, <3>3, <2>2 DEF ClaimInv, ClaimHeld
    <3> QED BY <3>2, <3>3
  <2>3. ASSUME NEW q \in Appends PROVE pc'[q] # "truncate"
    BY LogFileAssumption DEF ClaimInv, ClaimHeld
  <2> QED BY <2>1, <2>2, <2>3 DEF ClaimHeld
<1>2. WrittenInLoop'
  BY DEF ClaimInv, WrittenInLoop
<1> QED BY <1>1, <1>2 DEF ClaimInv

(* A run that is refused takes nothing from the others.                    *)
LEMMA RefuseKeeps ==
    ASSUME TypeOK, ClaimInv, NEW p \in Runs, Goto(p, "refused"), Release(p),
           pc[p] \in {"lockf", "flock"}, UNCHANGED <<file, pending>>
    PROVE  ClaimInv'
<1>1. pc'[p] = "refused" /\ \A q \in Runs : q # p => pc'[q] = pc[q]
  BY DEF TypeOK, Goto
<1>2. \A q \in Runs : q # p /\ lockfBy = q => lockfBy' = q
  BY OthersKeepLocks
<1>3. \A q \in Runs : q # p /\ flockBy[HostOf[q]] = q => flockBy'[HostOf[q]] = q
  BY OthersKeepLocks
<1>4. OwnPayload'
  BY DEF ClaimInv, OwnPayload
<1> QED BY <1>1, <1>2, <1>3, <1>4, ClaimStep

(* ClaimInv is inductive: a truncating run holds both locks from its claim *)
(* to its end, and no unit in the file is by a run before its loop.        *)
THEOREM ClaimInvCorrect == Spec => []ClaimInv
<1>1. Init => ClaimInv
  BY LogFileAssumption DEF Init, ClaimInv, ClaimHeld, OwnPayload, WrittenInLoop, Truncates
<1>2. TypeOK /\ ClaimInv /\ [Next]_vars => ClaimInv'
  <2> SUFFICES ASSUME TypeOK, ClaimInv, [Next]_vars PROVE ClaimInv'
    OBVIOUS
  <2>1. ASSUME NEW p \in Runs, Start(p) PROVE ClaimInv'
    <3>1. /\ pc[p] = "idle"
          /\ pc'[p] = IF p \in Appends THEN "layout" ELSE "lockf"
          /\ \A q \in Runs : q # p => pc'[q] = pc[q]
      BY <2>1 DEF TypeOK, Start, Goto
    <3>2. OwnPayload'
      BY <2>1 DEF ClaimInv, OwnPayload, Start
    <3> QED BY <2>1, <3>1, <3>2, ClaimStep DEF Start, ClaimInv, ClaimHeld, Truncates
  <2>2. ASSUME NEW p \in Runs, ReadHeader(p) PROVE ClaimInv'
    <3>1. /\ pc[p] = "layout" /\ pc'[p] = "lockf"
          /\ \A q \in Runs : q # p => pc'[q] = pc[q]
      BY <2>2 DEF TypeOK, ReadHeader, Goto
    <3>2. OwnPayload'
      BY <2>2 DEF ClaimInv, OwnPayload, ReadHeader
    <3> QED BY <2>2, <3>1, <3>2, ClaimStep DEF ReadHeader, ClaimInv, ClaimHeld, Truncates
  <2>3. ASSUME NEW p \in Runs, ClaimLockf(p) PROVE ClaimInv'
    <3>1. CASE lockfBy = NULL
      <4>1. /\ pc[p] = "lockf" /\ pc'[p] = "flock" /\ lockfBy' = p
            /\ \A q \in Runs : q # p => pc'[q] = pc[q]
        BY <2>3, <3>1 DEF TypeOK, ClaimLockf, Goto
      <4>2. \A q \in Runs : lockfBy # q
        BY <3>1, LogFileAssumption
      <4>3. UNCHANGED <<file, flockBy>> /\ OwnPayload'
        BY <2>3, <3>1 DEF ClaimLockf, ClaimInv, OwnPayload
      <4> QED BY <4>1, <4>2, <4>3, ClaimStep
    <3>2. CASE lockfBy # NULL /\ p \in Appends
      <4>1. /\ pc[p] = "lockf" /\ pc'[p] = "size"
            /\ \A q \in Runs : q # p => pc'[q] = pc[q]
        BY <2>3, <3>2 DEF TypeOK, ClaimLockf, Busy, Goto
      <4>2. UNCHANGED <<file, lockfBy, flockBy>> /\ OwnPayload'
        BY <2>3, <3>2 DEF ClaimLockf, Busy, ClaimInv, OwnPayload
      <4> QED BY <3>2, <4>1, <4>2, ClaimStep DEF Truncates
    <3>3. CASE lockfBy # NULL /\ p \notin Appends
      <4>1. Goto(p, "refused") /\ Release(p)
        BY <2>3, <3>3 DEF ClaimLockf, Busy
      <4> QED BY <2>3, <4>1, RefuseKeeps DEF ClaimLockf
    <3> QED BY <3>1, <3>2, <3>3
  <2>4. ASSUME NEW p \in Runs, ClaimFlock(p) PROVE ClaimInv'
    <3>1. CASE flockBy[HostOf[p]] = NULL
      <4>1. /\ pc[p] = "flock"
            /\ pc'[p] = IF p \in Appends THEN "size" ELSE "truncate"
            /\ \A q \in Runs : q # p => pc'[q] = pc[q]
        BY <2>4, <3>1 DEF TypeOK, ClaimFlock, Goto
      <4>2. lockfBy' = lockfBy /\ lockfBy = p
        BY <2>4, <3>1 DEF ClaimFlock, ClaimInv, ClaimHeld
      <4>3. flockBy' = [flockBy EXCEPT ![HostOf[p]] = p] /\ UNCHANGED file
        BY <2>4, <3>1 DEF ClaimFlock
      <4>4. flockBy'[HostOf[p]] = p
        BY <4>3, LogFileAssumption DEF TypeOK
      <4>5. \A q \in Runs : flockBy[HostOf[q]] = q => flockBy'[HostOf[q]] = q
        BY <3>1, <4>3, LogFileAssumption DEF TypeOK
      <4>6. OwnPayload'
        BY <2>4 DEF ClaimFlock, ClaimInv, OwnPayload
      <4> QED BY <4>1, <4>2, <4>3, <4>4, <4>5, <4>6, ClaimStep DEF Truncates
    <3>2. CASE flockBy[HostOf[p]] # NULL /\ p \in Appends
      <4>1. /\ pc[p] = "flock" /\ pc'[p] = "size"
            /\ \A q \in Runs : q # p => pc'[q] = pc[q]
        BY <2>4, <3>2 DEF TypeOK, ClaimFlock, Busy, Goto
      <4>2. UNCHANGED <<file, lockfBy, flockBy>> /\ OwnPayload'
        BY <2>4, <3>2 DEF ClaimFlock, Busy, ClaimInv, OwnPayload
      <4> QED BY <3>2, <4>1, <4>2, ClaimStep DEF Truncates
    <3>3. CASE flockBy[HostOf[p]] # NULL /\ p \notin Appends
      <4>1. Goto(p, "refused") /\ Release(p)
        BY <2>4, <3>3 DEF ClaimFlock, Busy
      <4> QED BY <2>4, <4>1, RefuseKeeps DEF ClaimFlock
    <3> QED BY <3>1, <3>2, <3>3
  <2>5. ASSUME NEW p \in Runs, Truncate(p) PROVE ClaimInv'
    <3>1. /\ pc[p] = "truncate" /\ pc'[p] = "size"
          /\ \A q \in Runs : q # p => pc'[q] = pc[q]
      BY <2>5 DEF TypeOK, Truncate, Goto
    <3>2. file' = <<>> /\ UNCHANGED <<lockfBy, flockBy, pending>>
      BY <2>5 DEF Truncate
    <3>3. ClaimHeld'
      <4>1. p \in Truncates /\ lockfBy = p /\ flockBy[HostOf[p]] = p
        BY <3>1 DEF ClaimInv, ClaimHeld, Truncates
      <4>2. \A q \in Appends : q # p
        BY <4>1 DEF Truncates
      <4>3. \A q \in Appends : q \in Runs
        BY LogFileAssumption
      <4>4. \A q \in Truncates : q \in Runs
        BY DEF Truncates
      <4> QED BY <3>1, <3>2, <4>1, <4>2, <4>3, <4>4 DEF ClaimInv, ClaimHeld
    <3>4. WrittenInLoop'
      BY <3>2 DEF WrittenInLoop
    <3> QED BY <3>2, <3>3, <3>4 DEF ClaimInv, OwnPayload
  <2>6. ASSUME NEW p \in Runs, CheckSize(p) PROVE ClaimInv'
    <3>1. /\ pc[p] = "size"
          /\ pc'[p] \in IF p \in Appends THEN {"tail", "loop"} ELSE {"loop"}
          /\ \A q \in Runs : q # p => pc'[q] = pc[q]
      BY <2>6 DEF TypeOK, CheckSize, Goto
    <3>2. OwnPayload'
      BY <2>6 DEF ClaimInv, OwnPayload, CheckSize
    <3> QED BY <2>6, <3>1, <3>2, ClaimStep DEF CheckSize, ClaimInv, ClaimHeld, Truncates
  <2>7. ASSUME NEW p \in Runs, ReadTail(p) PROVE ClaimInv'
    <3>1. /\ pc[p] = "tail" /\ pc'[p] = "loop"
          /\ \A q \in Runs : q # p => pc'[q] = pc[q]
      BY <2>7 DEF TypeOK, ReadTail, Goto
    <3>2. p \notin Truncates
      BY <3>1 DEF ClaimInv, ClaimHeld
    <3>3. \A i \in DOMAIN Newline(p) : Newline(p)[i].by = p
      BY DEF Newline
    <3>4. OwnPayload'
      BY <2>7, <3>3 DEF TypeOK, ClaimInv, OwnPayload, ReadTail
    <3>5. /\ \A q \in Runs : q # p /\ lockfBy = q => lockfBy' = q
          /\ UNCHANGED <<file, flockBy>>
      BY <2>7 DEF ReadTail
    <3> QED BY <3>1, <3>2, <3>4, <3>5, ClaimStep
  <2>8. ASSUME NEW p \in Runs, Sample(p) PROVE ClaimInv'
    <3> DEFINE head == Line(p, "head1", "head2")
               row == Line(p, "row1", "row2")
    <3>1. \A i \in DOMAIN row : row[i].by = p
      BY DEF Line
    <3>2. \A i \in DOMAIN (head \o row) : (head \o row)[i].by = p
      <4>1. head \in Seq(Unit) /\ row \in Seq(Unit)
        BY LineType DEF Half
      <4>2. Len(head) = 2 /\ Len(row) = 2
        BY DEF Line
      <4>3. \A i \in 1..2 : head[i].by = p /\ row[i].by = p
        BY DEF Line
      <4> HIDE DEF head, row
      <4>4. /\ DOMAIN (head \o row) = 1..4
            /\ \A i \in 1..4 :
                  (head \o row)[i] = IF i <= 2 THEN head[i] ELSE row[i - 2]
        BY <4>1, <4>2, ConcatPairs
      <4>5. \A i \in 1..4 : i <= 2 \/ i - 2 \in 1..2
        OBVIOUS
      <4> QED BY <4>3, <4>4, <4>5
    <3>3. /\ pending'[p] \in {head \o row, row}
          /\ \A q \in Runs : q # p => pending'[q] = pending[q]
      BY <2>8 DEF TypeOK, Sample
    <3>4. OwnPayload'
      <4> HIDE DEF head, row
      <4> QED BY <3>1, <3>2, <3>3 DEF ClaimInv, OwnPayload
    <3> QED BY <2>8, <3>4 DEF ClaimInv, ClaimHeld, WrittenInLoop, Sample
  <2>9. ASSUME NEW p \in Runs, Write(p) PROVE ClaimInv'
    <3>1. PICK k \in 1..Len(pending[p]) :
             /\ file' = file \o SubSeq(pending[p], 1, k)
             /\ pending' = [pending EXCEPT ![p] = SubSeq(@, k + 1, Len(@))]
      BY <2>9 DEF Write
    <3>2. pending[p] \in Seq(Unit) /\ Len(pending[p]) \in Nat /\ file \in Seq(Unit)
      BY DEF TypeOK
    <3>3. \A i \in DOMAIN pending[p] : pending[p][i].by = p
      BY DEF ClaimInv, OwnPayload, WrittenInLoop
    <3>4. ASSUME NEW i \in DOMAIN file', file'[i].by \in Runs
          PROVE  pc[file'[i].by] \in {"loop", "done"}
      <4> DEFINE new == SubSeq(pending[p], 1, k)
      <4>1. new \in Seq(Unit) /\ Len(new) = k /\ \A j \in 1..k : new[j] = pending[p][j]
        BY <3>2, SubSeqProperties
      <4>2. CASE i \in DOMAIN file
        BY <4>2, <4>1, <3>1, <3>2, <3>4, ConcatProperties DEF ClaimInv, OwnPayload, WrittenInLoop
      <4>3. CASE i \notin DOMAIN file
        <5>1. \E j \in 1..k : file'[i] = new[j]
          <6>1. i \in 1..(Len(file) + k) /\ i \notin 1..Len(file)
            BY <4>1, <4>3, <3>1, <3>2, ConcatProperties
          <6>2. i - Len(file) \in 1..k
            BY <6>1, <3>2
          <6>3. file'[i] = new[i - Len(file)]
            BY <6>1, <4>1, <3>1, <3>2, ConcatProperties
          <6> QED BY <6>2, <6>3
        <5>2. file'[i].by = p
          BY <5>1, <4>1, <3>2, <3>3
        <5> QED BY <5>2, <2>9 DEF Write
      <4> QED BY <4>2, <4>3
    <3>5. ASSUME NEW q \in Runs, NEW i \in DOMAIN pending'[q]
          PROVE  pending'[q][i].by = q
      <4>1. CASE q = p
        <5> DEFINE rest == SubSeq(pending[p], k + 1, Len(pending[p]))
        <5>1. pending'[p] = rest
          BY <3>1 DEF TypeOK
        <5>2. /\ Len(rest) = Len(pending[p]) - k
              /\ \A j \in 1..Len(rest) : rest[j] = pending[p][k + j]
          BY <3>2
        <5>3. i \in 1..Len(rest)
          BY <5>1, <4>1, <3>2
        <5>4. k + i \in 1..Len(pending[p])
          BY <5>2, <5>3, <3>2
        <5> QED BY <5>1, <5>2, <5>3, <5>4, <3>2, <3>3, <4>1
      <4>2. CASE q # p
        BY <4>2, <3>1 DEF TypeOK, ClaimInv, OwnPayload
      <4> QED BY <4>1, <4>2
    <3>6. ClaimHeld'
      BY <2>9 DEF ClaimInv, ClaimHeld, Write
    <3>7. pc' = pc
      BY <2>9 DEF Write
    <3> QED BY <3>4, <3>5, <3>6, <3>7 DEF ClaimInv, OwnPayload, WrittenInLoop
  <2>10. ASSUME NEW p \in Runs, End(p) PROVE ClaimInv'
    <3>1. pc'[p] = "done" /\ \A q \in Runs : q # p => pc'[q] = pc[q]
      BY <2>10 DEF TypeOK, End, Goto
    <3>2. \A q \in Runs : q # p /\ lockfBy = q => lockfBy' = q
      BY <2>10, OthersKeepLocks DEF End
    <3>3. \A q \in Runs : q # p /\ flockBy[HostOf[q]] = q => flockBy'[HostOf[q]] = q
      BY <2>10, OthersKeepLocks DEF End
    <3>4. pending'[p] = <<>> /\ \A q \in Runs : q # p => pending'[q] = pending[q]
      BY <2>10 DEF TypeOK, End
    <3>5. OwnPayload'
      BY <3>4 DEF ClaimInv, OwnPayload
    <3> QED BY <2>10, <3>1, <3>2, <3>3, <3>5, ClaimStep DEF End
  <2>11. CASE UNCHANGED vars
    BY <2>11 DEF ClaimInv, ClaimHeld, OwnPayload, WrittenInLoop, vars
  <2> QED
    BY <2>1, <2>2, <2>3, <2>4, <2>5, <2>6, <2>7, <2>8, <2>9, <2>10, <2>11
       DEF Next, Step
<1> QED BY <1>1, <1>2, TypeCorrect, PTL DEF Spec

(* No two truncating runs are past their claim, on whatever hosts.         *)
THEOREM TruncatorsNeverMeet == Spec => []TruncatorsExclude
<1>1. ClaimInv => TruncatorsExclude
  BY DEF ClaimInv, ClaimHeld, TruncatorsExclude
<1> QED BY <1>1, ClaimInvCorrect, PTL

(* Only Truncate shrinks the file. *)
LEMMA OnlyTruncateShrinks ==
    ASSUME TypeOK, [Next]_vars, Len(file') < Len(file)
    PROVE  \E p \in Runs : Truncate(p)
<1>1. ASSUME NEW p \in Runs, Write(p) PROVE FALSE
  <2>1. PICK k \in 1..Len(pending[p]) : file' = file \o SubSeq(pending[p], 1, k)
    BY <1>1 DEF Write
  <2>2. /\ pending[p] \in Seq(Unit) /\ Len(pending[p]) \in Nat
        /\ file \in Seq(Unit) /\ Len(file) \in Nat
    BY DEF TypeOK
  <2>3. SubSeq(pending[p], 1, k) \in Seq(Unit) /\ Len(SubSeq(pending[p], 1, k)) \in Nat
    BY <2>2, SubSeqProperties
  <2>4. Len(file') >= Len(file)
    BY <2>1, <2>2, <2>3, ConcatProperties
  <2> QED BY <2>2, <2>4
<1>2. file' # file
  BY DEF TypeOK
<1> QED
  BY <1>1, <1>2 DEF Next, Step, Start, ReadHeader, ClaimLockf, ClaimFlock, CheckSize,
     ReadTail, Sample, End, vars

(* The file shrinks only in the hands of a run that holds both locks.      *)
THEOREM TruncationClaimed == Spec => TruncationIsClaimed
<1>1. TypeOK /\ ClaimInv /\ [Next]_vars
        => [Len(file') < Len(file)
              => \E p \in Truncates : lockfBy = p /\ flockBy[HostOf[p]] = p]_vars
  <2> SUFFICES ASSUME TypeOK, ClaimInv, [Next]_vars, Len(file') < Len(file)
               PROVE  \E p \in Truncates : lockfBy = p /\ flockBy[HostOf[p]] = p
    OBVIOUS
  <2>1. PICK p \in Runs : Truncate(p)
    BY OnlyTruncateShrinks
  <2>2. p \in Truncates
    BY <2>1 DEF ClaimInv, ClaimHeld, Truncate, Truncates
  <2> QED BY <2>1, <2>2 DEF ClaimInv, ClaimHeld, Truncate
<1> QED BY <1>1, TypeCorrect, ClaimInvCorrect, PTL DEF Spec, TruncationIsClaimed

(* What a truncating run has recorded is never destroyed while it runs.    *)
THEOREM RecordingKept == Spec => RecordingIsKept
<1>1. TypeOK /\ ClaimInv /\ [Next]_vars
        => [Len(file') < Len(file)
              => \A i \in DOMAIN file :
                    file[i].by \in Truncates => ~Live(file[i].by)]_vars
  <2> SUFFICES ASSUME TypeOK, ClaimInv, [Next]_vars, Len(file') < Len(file),
                      NEW i \in DOMAIN file, file[i].by \in Truncates,
                      Live(file[i].by)
               PROVE  FALSE
    OBVIOUS
  <2>1. PICK p \in Runs : Truncate(p)
    BY OnlyTruncateShrinks
  <2>2. pc[p] = "truncate"
    BY <2>1 DEF Truncate
  <2>3. pc[file[i].by] = "loop"
    BY DEF ClaimInv, WrittenInLoop, Truncates, Live
  <2>4. lockfBy = file[i].by
    BY <2>3 DEF ClaimInv, ClaimHeld
  <2>5. lockfBy = p
    BY <2>2 DEF ClaimInv, ClaimHeld, Truncates
  <2> QED BY <2>2, <2>3, <2>4, <2>5
<1> QED BY <1>1, TypeCorrect, ClaimInvCorrect, PTL DEF Spec, RecordingIsKept

(* Both halves: truncation is safe for whoever else records.               *)
THEOREM TruncationSafe == Spec => TruncationIsSafe
BY TruncationClaimed, RecordingKept DEF TruncationIsSafe

-----------------------------------------------------------------------------
(* No splice without an overlap.  What a run is about to write is tied to  *)
(* what the file ends in, but only as long as nobody else could write.     *)

(* A run that met no other is the only one alive. *)
Alone ==
    \A p \in Runs : Live(p) /\ p \notin met => \A q \in Runs : Live(q) => q = p

(* u carries on f: it ends, or completes, what f leaves unfinished, and    *)
(* leaves nothing unfinished itself.                                       *)
CarriesOn(f, u) ==
    /\ IF u = <<>> THEN ~Unterminated(f)
       ELSE IF Unterminated(f) THEN u[1].half = "newline" \/ Follows(f[Len(f)], u[1])
       ELSE u[1].half \in {"head1", "row1"}
    /\ \A i \in 1..Len(u) :
          IF u[i].half \in {"head1", "row1"} THEN i < Len(u) /\ Follows(u[i], u[i + 1])
          ELSE i < Len(u) => u[i + 1].half \in {"head1", "row1"}

(* Such a run truncated the file if it had to, and what it has still to    *)
(* write carries on what is there.                                         *)
SoloCarriesOn ==
    /\ \A p \in Runs : pc[p] # "loop" => pending[p] = <<>>
    /\ \A p \in Runs : Live(p) /\ p \notin met =>
          /\ p \in Truncates /\ pc[p] = "size" => file = <<>>
          /\ pc[p] = "loop" => CarriesOn(file, pending[p])

SpliceInv == Alone /\ SoloCarriesOn /\ SpliceNeedsOverlap

(* The elements of the file and of the payload after a write of k units.   *)
LEMMA WriteShape ==
    ASSUME TypeOK, NEW p \in Runs, Write(p)
    PROVE  \E k \in 1..Len(pending[p]) :
              /\ Len(file') = Len(file) + k
              /\ \A i \in 1..Len(file) + k :
                    file'[i] = IF i <= Len(file) THEN file[i]
                               ELSE pending[p][i - Len(file)]
              /\ Len(pending'[p]) = Len(pending[p]) - k
              /\ \A i \in 1..Len(pending[p]) - k : pending'[p][i] = pending[p][k + i]
              /\ \A q \in Runs : q # p => pending'[q] = pending[q]
<1>1. PICK k \in 1..Len(pending[p]) :
         /\ file' = file \o SubSeq(pending[p], 1, k)
         /\ pending' = [pending EXCEPT ![p] = SubSeq(@, k + 1, Len(@))]
  BY DEF Write
<1>2. pending[p] \in Seq(Unit) /\ Len(pending[p]) \in Nat /\ file \in Seq(Unit)
  BY DEF TypeOK
<1> DEFINE new == SubSeq(pending[p], 1, k)
<1>3. /\ new \in Seq(Unit) /\ Len(new) = k
      /\ \A j \in 1..k : new[j] = pending[p][j]
  BY <1>2, SubSeqProperties
<1>4. /\ Len(file') = Len(file) + k
      /\ \A i \in 1..Len(file) + k :
            file'[i] = IF i <= Len(file) THEN file[i] ELSE new[i - Len(file)]
  <2> HIDE DEF new
  <2> QED BY <1>1, <1>2, <1>3, ConcatProperties DEF new
<1>5. \A i \in 1..Len(file) + k : i <= Len(file) \/ i - Len(file) \in 1..k
  BY <1>2
<1>6. pending'[p] = SubSeq(pending[p], k + 1, Len(pending[p]))
  BY <1>1 DEF TypeOK
<1>7. /\ Len(pending'[p]) = Len(pending[p]) - k
      /\ \A i \in 1..Len(pending[p]) - k : pending'[p][i] = pending[p][k + i]
  BY <1>2, <1>6
<1>8. \A q \in Runs : q # p => pending'[q] = pending[q]
  BY <1>1 DEF TypeOK
<1> QED BY <1>3, <1>4, <1>5, <1>7, <1>8

(* What is left of a payload carries on what has been written of it.       *)
LEMMA RestCarriesOn ==
    ASSUME NEW f \in Seq(Unit), NEW u \in Seq(Unit), NEW k \in 1..Len(u),
           NEW g \in Seq(Unit), NEW v \in Seq(Unit),
           Len(g) = Len(f) + k,
           \A i \in 1..Len(f) + k : g[i] = IF i <= Len(f) THEN f[i] ELSE u[i - Len(f)],
           Len(v) = Len(u) - k, \A i \in 1..Len(u) - k : v[i] = u[k + i],
           CarriesOn(f, u)
    PROVE  CarriesOn(g, v)
<1>1. /\ Len(f) \in Nat /\ Len(u) \in Nat /\ Len(g) \in Nat /\ Len(v) \in Nat
      /\ g # <<>> /\ (v = <<>> <=> Len(v) = 0)
  OBVIOUS
<1>2. g[Len(g)] = u[k]
  BY <1>1
<1>3. \A i \in 1..Len(u) :
         IF u[i].half \in {"head1", "row1"} THEN i < Len(u) /\ Follows(u[i], u[i + 1])
         ELSE i < Len(u) => u[i + 1].half \in {"head1", "row1"}
  BY DEF CarriesOn
<1>4. ASSUME v = <<>> PROVE ~Unterminated(g)
  <2>1. k = Len(u)
    BY <1>1, <1>4
  <2> QED BY <1>2, <1>3, <2>1 DEF Unterminated
<1>5. ASSUME v # <<>>
      PROVE  IF Unterminated(g) THEN v[1].half = "newline" \/ Follows(g[Len(g)], v[1])
             ELSE v[1].half \in {"head1", "row1"}
  <2>1. k < Len(u) /\ v[1] = u[k + 1]
    BY <1>1, <1>5
  <2>2. Unterminated(g) <=> u[k].half \in {"head1", "row1"}
    BY <1>1, <1>2 DEF Unterminated
  <2> QED BY <1>2, <1>3, <2>1, <2>2
<1>6. ASSUME NEW i \in 1..Len(v)
      PROVE  IF v[i].half \in {"head1", "row1"} THEN i < Len(v) /\ Follows(v[i], v[i + 1])
             ELSE i < Len(v) => v[i + 1].half \in {"head1", "row1"}
  <2>1. k + i \in 1..Len(u) /\ v[i] = u[k + i]
    BY <1>1
  <2>2. i < Len(v) <=> k + i < Len(u)
    BY <1>1
  <2>3. i < Len(v) => v[i + 1] = u[k + i + 1]
    BY <1>1
  <2> QED BY <1>3, <2>1, <2>2, <2>3
<1> QED BY <1>4, <1>5, <1>6 DEF CarriesOn

(* What a lone run writes cuts no line and loses no beginning of one.      *)
LEMMA WriteSplices ==
    ASSUME TypeOK, ClaimInv, SpliceInv, NEW p \in Runs, Write(p)
    PROVE  SpliceNeedsOverlap'
<1>1. PICK k \in 1..Len(pending[p]) :
         /\ Len(file') = Len(file) + k
         /\ \A i \in 1..Len(file) + k :
               file'[i] = IF i <= Len(file) THEN file[i]
                          ELSE pending[p][i - Len(file)]
  BY WriteShape
<1> DEFINE u == pending[p]
           L == Len(file)
<1>2. /\ file \in Seq(Unit) /\ L \in Nat /\ u \in Seq(Unit) /\ Len(u) \in Nat
      /\ \A j \in 1..Len(u) : u[j].by = p
  BY DEF TypeOK, ClaimInv, OwnPayload
<1>3. file' \in Seq(Unit) /\ met' = met /\ DOMAIN file' = 1..L + k /\ DOMAIN file = 1..L
  <2>1. file' \in Seq(Unit)
    <3>1. PICK m \in 1..Len(u) : file' = file \o SubSeq(u, 1, m)
      BY DEF Write
    <3>2. SubSeq(u, 1, m) \in Seq(Unit)
      BY <1>2, SubSeqProperties
    <3> QED BY <1>2, <3>1, <3>2
  <2> QED BY <2>1, <1>1, <1>2 DEF Write
<1>4. p \in met \/ CarriesOn(file, u)
  BY DEF SpliceInv, SoloCarriesOn, Write, Live
<1>5. \A j \in 1..L + k : j <= L \/ (j - L \in 1..k /\ j - L \in 1..Len(u))
  BY <1>2
<1>6. \A j \in L + 1..L + k : file'[j] = u[j - L] /\ file'[j].by = p
  BY <1>1, <1>2, <1>5
<1> HIDE DEF u
<1>7. ASSUME NEW i \in 1..L + k, CutAt(file', i) PROVE file'[i + 1].by \in met
  <2>1. /\ file'[i].half \in {"head1", "row1"} /\ i < L + k
        /\ ~Follows(file'[i], file'[i + 1]) /\ file'[i + 1].half # "newline"
    BY <1>1, <1>7 DEF CutAt
  <2>2. CASE i + 1 <= L
    <3>1. file'[i] = file[i] /\ file'[i + 1] = file[i + 1] /\ i \in DOMAIN file
      BY <1>1, <1>2, <1>3, <2>2
    <3>2. CutAt(file, i)
      BY <2>1, <2>2, <3>1, <1>2 DEF CutAt
    <3> QED BY <3>1, <3>2 DEF SpliceInv, SpliceNeedsOverlap
  <2>3. CASE i + 1 > L /\ p \in met
    <3>1. i + 1 \in L + 1..L + k
      BY <2>1, <2>3, <1>2
    <3> QED BY <3>1, <1>6, <2>3
  <2>4. CASE i = L /\ CarriesOn(file, u)
    <3>1. file'[i] = file[L] /\ file # <<>> /\ file'[i + 1] = u[1] /\ u # <<>>
      <4>1. L + 1 \in L + 1..L + k /\ L + 1 - L = 1
        BY <1>2
      <4>2. file'[L + 1] = u[1]
        BY <4>1, <1>6
      <4>3. L \in 1..L + k /\ 1 \in 1..Len(u)
        BY <1>2, <2>4 DEF u
      <4> QED BY <4>2, <4>3, <1>1, <1>2, <2>4
    <3>2. Unterminated(file)
      BY <3>1, <2>1 DEF Unterminated
    <3> QED BY <2>1, <2>4, <3>1, <3>2 DEF CarriesOn
  <2>5. CASE i > L /\ CarriesOn(file, u)
    <3>1. /\ file'[i] = u[i - L] /\ file'[i + 1] = u[i - L + 1]
          /\ i - L \in 1..Len(u)
      <4>1. i \in L + 1..L + k /\ i + 1 \in L + 1..L + k
        BY <2>1, <2>5, <1>2
      <4>2. i + 1 - L = i - L + 1
        BY <1>2
      <4> QED BY <4>1, <4>2, <1>5, <1>6, <2>5, <1>2
    <3> QED BY <2>1, <2>5, <3>1 DEF CarriesOn
  <2> QED BY <2>2, <2>3, <2>4, <2>5, <1>2, <1>4
<1>8. ASSUME NEW i \in 1..L + k, OrphanAt(file', i) PROVE file'[i].by \in met
  <2>1. /\ file'[i].half \in {"head2", "row2"}
        /\ i = 1 \/ ~Follows(file'[i - 1], file'[i])
    BY <1>8 DEF OrphanAt
  <2>2. CASE i <= L
    <3>1. file'[i] = file[i] /\ i \in DOMAIN file
      BY <1>1, <1>3, <2>2
    <3>2. i = 1 \/ file'[i - 1] = file[i - 1]
      BY <1>1, <1>2, <2>2
    <3>3. OrphanAt(file, i)
      BY <2>1, <3>1, <3>2 DEF OrphanAt
    <3> QED BY <3>1, <3>3 DEF SpliceInv, SpliceNeedsOverlap
  <2>3. CASE i > L /\ p \in met
    BY <2>3, <1>2, <1>6
  <2>4. CASE i = L + 1 /\ CarriesOn(file, u)
    <3>1. file'[i] = u[1] /\ u # <<>> /\ 1 \in 1..Len(u)
      BY <1>2, <1>6, <2>4 DEF u
    <3>2. Unterminated(file) => L > 0 /\ i # 1 /\ i - 1 = L /\ file'[i - 1] = file[L]
      <4>1. file # <<>> => L > 0
        BY <1>2
      <4> QED BY <4>1, <1>1, <1>2, <2>4 DEF Unterminated
    <3> QED BY <2>1, <2>4, <3>1, <3>2 DEF CarriesOn
  <2>5. CASE i > L + 1 /\ CarriesOn(file, u)
    <3>1. /\ file'[i] = u[i - L] /\ file'[i - 1] = u[i - L - 1]
          /\ i - L - 1 \in 1..Len(u) /\ i - L - 1 < Len(u) /\ i # 1
      <4>1. i \in L + 1..L + k /\ i - 1 \in L + 1..L + k
        BY <2>5, <1>2
      <4>2. i - 1 - L = i - L - 1
        BY <1>2
      <4>3. file'[i] = u[i - L] /\ file'[i - 1] = u[i - L - 1]
        BY <4>1, <4>2, <1>6
      <4>4. i - L - 1 \in 1..k /\ i - L - 1 < k /\ i # 1
        BY <1>2, <2>5
      <4> QED BY <4>3, <4>4, <1>2, <1>5, <2>5
    <3>2. i - L - 1 + 1 = i - L
      BY <1>2
    <3> QED BY <2>1, <2>5, <3>1, <3>2 DEF CarriesOn
  <2> QED BY <2>2, <2>3, <2>4, <2>5, <1>2, <1>4
<1> QED BY <1>3, <1>7, <1>8 DEF SpliceNeedsOverlap

(* A step of p moves no other run and brings none to life but p itself.    *)
LEMMA OnlyStartRevives ==
    ASSUME TypeOK, NEW p \in Runs, Step(p)
    PROVE  /\ met \subseteq met'
           /\ \A q \in Runs : q # p => pc'[q] = pc[q]
           /\ Start(p) \/ (Live(p) /\ met' = met)
<1>1. CASE Start(p)
  BY <1>1 DEF TypeOK, Start, Goto
<1>2. CASE ReadHeader(p) \/ Truncate(p) \/ CheckSize(p) \/ ReadTail(p) \/ Sample(p) \/ Write(p)
  BY <1>2 DEF TypeOK, ReadHeader, Truncate, CheckSize, ReadTail, Sample, Write, Goto, Live
<1>3. CASE ClaimLockf(p) \/ ClaimFlock(p)
  BY <1>3 DEF TypeOK, ClaimLockf, ClaimFlock, Busy, Goto, Live
<1>4. CASE End(p)
  BY <1>4 DEF TypeOK, End, Goto, Live
<1> QED BY <1>1, <1>2, <1>3, <1>4 DEF Step

(* A run that has met no other stays the only one alive.                   *)
LEMMA AloneStep ==
    ASSUME TypeOK, Alone, NEW p \in Runs, Step(p)
    PROVE  Alone'
<1>1. SUFFICES ASSUME NEW r \in Runs, Live(r)', r \notin met',
                      NEW q \in Runs, Live(q)'
               PROVE  q = r
  BY DEF Alone
<1>2. /\ met \subseteq met'
      /\ \A o \in Runs : o # p => pc'[o] = pc[o]
      /\ Start(p) \/ (Live(p) /\ met' = met)
  BY OnlyStartRevives
<1>3. CASE Start(p)
  <2>1. ~Live(p)
    BY <1>3 DEF Start, Live
  <2> DEFINE others == {o \in Runs : Live(o)}
  <2>2. met' = IF others = {} THEN met ELSE met \cup others \cup {p}
    BY <1>3 DEF Start
  <2>3. CASE others = {}
    BY <2>3, <1>1, <1>2 DEF Live
  <2>4. CASE others # {}
    <3>1. r # p /\ r \notin others
      BY <2>2, <2>4, <1>1
    <3> QED BY <3>1, <1>1, <1>2 DEF Live
  <2> QED BY <2>3, <2>4
<1>4. CASE Live(p) /\ met' = met
  <2>1. Live(q) /\ Live(r)
    BY <1>1, <1>2, <1>4 DEF Live
  <2> QED BY <2>1, <1>1, <1>4 DEF Alone
<1> QED BY <1>2, <1>3, <1>4

(* A step of p leaves what a lone run q # p relies on as it was, because   *)
(* there is no such q.                                                     *)
LEMMA SoloIsOwnStep ==
    ASSUME TypeOK, Alone, NEW p \in Runs, Step(p),
           NEW q \in Runs, Live(q)', q \notin met', q # p, ~Start(p)
    PROVE  FALSE
<1>1. Live(q) /\ Live(p) /\ q \notin met
  BY OnlyStartRevives DEF Live
<1> QED BY <1>1 DEF Alone

(* A run that has met no other after a start is the one that started.      *)
LEMMA SoloIsNotStarted ==
    ASSUME TypeOK, NEW p \in Runs, Start(p),
           NEW q \in Runs, Live(q)', q \notin met'
    PROVE  /\ q = p
           /\ pc'[p] = IF p \in Appends THEN "layout" ELSE "lockf"
<1>1. /\ pc' = [pc EXCEPT ![p] = IF p \in Appends THEN "layout" ELSE "lockf"]
      /\ met' = IF {o \in Runs : Live(o)} = {} THEN met
                ELSE met \cup {o \in Runs : Live(o)} \cup {p}
  BY DEF Start, Goto
<1>2. q = p
  <2>1. SUFFICES ASSUME q # p PROVE FALSE
    OBVIOUS
  <2>2. Live(q)
    BY <1>1, <2>1 DEF Live, TypeOK
  <2> QED BY <1>1, <2>2
<1> QED BY <1>1, <1>2 DEF TypeOK

(* Steps that neither write nor enter or leave the loop.                   *)
LEMMA SoloPlain ==
    ASSUME TypeOK, SpliceInv, NEW p \in Runs, Step(p), UNCHANGED <<file, pending>>,
           pc[p] # "loop", pc'[p] # "loop",
           p \in Truncates => pc'[p] # "size"
    PROVE  SpliceInv'
<1>1. Alone'
  BY AloneStep DEF SpliceInv
<1>2. SpliceNeedsOverlap'
  BY OnlyStartRevives DEF SpliceInv, SpliceNeedsOverlap
<1>3. ASSUME NEW q \in Runs, pc'[q] # "loop" PROVE pending'[q] = <<>>
  BY <1>3, OnlyStartRevives DEF SpliceInv, SoloCarriesOn
<1>4. ASSUME NEW q \in Runs, Live(q)', q \notin met'
      PROVE  /\ q \in Truncates /\ pc'[q] = "size" => file' = <<>>
             /\ pc'[q] = "loop" => CarriesOn(file', pending'[q])
  <2>1. q = p
    BY <1>4, SoloIsOwnStep, SoloIsNotStarted DEF SpliceInv
  <2> QED BY <2>1
<1> QED BY <1>1, <1>2, <1>3, <1>4 DEF SpliceInv, SoloCarriesOn

(* SpliceInv is inductive: whatever the runs before a lone one left, the   *)
(* newline of _terminate_partial_last_record and the order of the payloads *)
(* keep its own lines whole.                                               *)
THEOREM SpliceInvCorrect == Spec => []SpliceInv
<1>1. Init => SpliceInv
  <2> SUFFICES ASSUME Init PROVE SpliceInv
    OBVIOUS
  <2>1. Alone /\ SoloCarriesOn
    BY DEF Init, Alone, SoloCarriesOn, Live
  <2>2. SpliceNeedsOverlap
    BY ExistingAssumption DEF Init, SpliceNeedsOverlap
  <2> QED BY <2>1, <2>2 DEF SpliceInv
<1>2. TypeOK /\ ClaimInv /\ SpliceInv /\ [Next]_vars => SpliceInv'
  <2> SUFFICES ASSUME TypeOK, ClaimInv, SpliceInv, [Next]_vars PROVE SpliceInv'
    OBVIOUS
  <2>1. ASSUME NEW p \in Runs, Start(p) \/ ReadHeader(p) PROVE SpliceInv'
    BY <2>1, SoloPlain DEF Step, Start, ReadHeader, Goto, TypeOK
  <2>2. ASSUME NEW p \in Runs, ClaimLockf(p) PROVE SpliceInv'
    <3>1. pc[p] = "lockf" /\ pc'[p] \in {"flock", "refused"} \cup
             (IF p \in Appends THEN {"size"} ELSE {})
      BY <2>2 DEF ClaimLockf, Busy, Goto, TypeOK
    <3> QED BY <2>2, <3>1, SoloPlain DEF Step, ClaimLockf, Truncates
  <2>3. ASSUME NEW p \in Runs, ClaimFlock(p) PROVE SpliceInv'
    <3>1. pc[p] = "flock" /\ pc'[p] \in {"truncate", "refused"} \cup
             (IF p \in Appends THEN {"size"} ELSE {})
      BY <2>3 DEF ClaimFlock, Busy, Goto, TypeOK
    <3> QED BY <2>3, <3>1, SoloPlain DEF Step, ClaimFlock, Truncates
  <2>4. ASSUME NEW p \in Runs, Truncate(p) PROVE SpliceInv'
    <3>1. Step(p) /\ file' = <<>> /\ pending' = pending /\ pc[p] = "truncate" /\ pc'[p] = "size"
      BY <2>4 DEF Step, Truncate, Goto, TypeOK
    <3>2. Alone' /\ SpliceNeedsOverlap'
      BY <3>1, AloneStep DEF SpliceInv, SpliceNeedsOverlap
    <3>3. ASSUME NEW q \in Runs, pc'[q] # "loop" PROVE pending'[q] = <<>>
      BY <3>1, <3>3, OnlyStartRevives DEF SpliceInv, SoloCarriesOn
    <3>4. ASSUME NEW q \in Runs, Live(q)', q \notin met' PROVE pc'[q] # "loop"
      BY <3>1, <3>4, <2>4, SoloIsOwnStep DEF SpliceInv, Start
    <3> QED BY <3>1, <3>2, <3>3, <3>4 DEF SpliceInv, SoloCarriesOn
  <2>5. ASSUME NEW p \in Runs, CheckSize(p) PROVE SpliceInv'
    <3>1. /\ Step(p) /\ UNCHANGED <<file, pending, met>> /\ pc[p] = "size"
          /\ pc'[p] = IF p \in Appends /\ file # <<>> THEN "tail" ELSE "loop"
      BY <2>5 DEF Step, CheckSize, Goto, TypeOK
    <3>2. Alone' /\ SpliceNeedsOverlap'
      BY <3>1, AloneStep DEF SpliceInv, SpliceNeedsOverlap
    <3>3. ASSUME NEW q \in Runs, pc'[q] # "loop" PROVE pending'[q] = <<>>
      BY <3>1, <3>3, OnlyStartRevives DEF SpliceInv, SoloCarriesOn
    <3>4. ASSUME NEW q \in Runs, Live(q)', q \notin met'
          PROVE  pc'[q] # "size" /\ (pc'[q] = "loop" => CarriesOn(file', pending'[q]))
      <4>1. q = p
        BY <3>1, <3>4, <2>5, SoloIsOwnStep DEF SpliceInv, Start
      <4>2. pc'[p] = "loop" => file = <<>> /\ pending[p] = <<>>
        <5>1. Live(p) /\ p \notin met
          BY <3>1, <3>4, <4>1 DEF Live
        <5> QED BY <5>1, <3>1 DEF SpliceInv, SoloCarriesOn, Truncates
      <4>3. CarriesOn(<<>>, <<>>)
        BY DEF CarriesOn, Unterminated
      <4> QED BY <3>1, <4>1, <4>2, <4>3
    <3> QED BY <3>1, <3>2, <3>3, <3>4 DEF SpliceInv, SoloCarriesOn
  <2>6. ASSUME NEW p \in Runs, ReadTail(p) PROVE SpliceInv'
    <3>1. /\ Step(p) /\ UNCHANGED <<file, met>> /\ pc[p] = "tail" /\ pc'[p] = "loop"
          /\ pending'[p] = IF Unterminated(file) THEN Newline(p) ELSE <<>>
          /\ \A q \in Runs : q # p => pending'[q] = pending[q]
      BY <2>6 DEF Step, ReadTail, Goto, TypeOK
    <3>2. Alone' /\ SpliceNeedsOverlap'
      BY <3>1, AloneStep DEF SpliceInv, SpliceNeedsOverlap
    <3>3. ASSUME NEW q \in Runs, pc'[q] # "loop" PROVE pending'[q] = <<>>
      BY <3>1, <3>3, OnlyStartRevives DEF SpliceInv, SoloCarriesOn
    <3>4. CarriesOn(file, pending'[p])
      <4>1. CASE Unterminated(file)
        <5>1. /\ pending'[p] # <<>> /\ Len(pending'[p]) = 1
              /\ pending'[p][1].half = "newline"
          BY <3>1, <4>1 DEF Newline
        <5> QED BY <4>1, <5>1 DEF CarriesOn
      <4>2. CASE ~Unterminated(file)
        BY <3>1, <4>2 DEF CarriesOn
      <4> QED BY <4>1, <4>2
    <3>5. ASSUME NEW q \in Runs, Live(q)', q \notin met' PROVE q = p
      BY <3>1, <3>5, <2>6, SoloIsOwnStep DEF SpliceInv, Start
    <3> QED BY <3>1, <3>2, <3>3, <3>4, <3>5 DEF SpliceInv, SoloCarriesOn
  <2>7. ASSUME NEW p \in Runs, Sample(p) PROVE SpliceInv'
    <3> DEFINE head == Line(p, "head1", "head2")
               row == Line(p, "row1", "row2")
    <3>1. /\ Step(p) /\ UNCHANGED <<pc, file, met>> /\ pc[p] = "loop" /\ pending[p] = <<>>
          /\ pending'[p] \in {head \o row, row}
          /\ \A q \in Runs : q # p => pending'[q] = pending[q]
      BY <2>7 DEF Step, Sample, TypeOK
    <3>2. Alone' /\ SpliceNeedsOverlap'
      BY <3>1, AloneStep DEF SpliceInv, SpliceNeedsOverlap
    <3>3. ASSUME NEW q \in Runs, pc'[q] # "loop" PROVE pending'[q] = <<>>
      BY <3>1, <3>3 DEF SpliceInv, SoloCarriesOn
    <3>4. ~Unterminated(file) => CarriesOn(file, row)
      BY DEF Line, CarriesOn, Follows
    <3>5. ~Unterminated(file) => CarriesOn(file, head \o row)
      <4>1. head \in Seq(Unit) /\ row \in Seq(Unit) /\ Len(head) = 2 /\ Len(row) = 2
        BY LineType DEF Half, Line
      <4>2. /\ head[1].half = "head1" /\ head[2].half = "head2" /\ Follows(head[1], head[2])
            /\ row[1].half = "row1" /\ row[2].half = "row2" /\ Follows(row[1], row[2])
        BY DEF Line, Follows
      <4> HIDE DEF head, row
      <4> DEFINE u == head \o row
      <4>3. /\ Len(u) = 4 /\ u # <<>> /\ u[1] = head[1] /\ u[2] = head[2]
            /\ u[3] = row[1] /\ u[4] = row[2]
        BY <4>1, ConcatPairs, ConcatProperties
      <4> HIDE DEF u
      <4>4. \A i \in 1..Len(u) : i = 1 \/ i = 2 \/ i = 3 \/ i = 4
        BY <4>3
      <4>5. \A i \in 1..Len(u) :
               IF u[i].half \in {"head1", "row1"} THEN i < Len(u) /\ Follows(u[i], u[i + 1])
               ELSE i < Len(u) => u[i + 1].half \in {"head1", "row1"}
        BY <4>2, <4>3, <4>4
      <4>6. ~Unterminated(file) => CarriesOn(file, u)
        BY <4>2, <4>3, <4>5 DEF CarriesOn
      <4> QED BY <4>6 DEF u
    <3> HIDE DEF head, row
    <3>6. ASSUME NEW q \in Runs, Live(q)', q \notin met'
          PROVE  /\ q = p
                 /\ CarriesOn(file, pending'[p])
      <4>1. q = p
        BY <3>1, <3>6, <2>7, SoloIsOwnStep DEF SpliceInv, Start
      <4>2. Live(p) /\ p \notin met
        BY <3>1, <3>6, <4>1 DEF Live
      <4>3. CarriesOn(file, <<>>)
        BY <3>1, <4>2 DEF SpliceInv, SoloCarriesOn
      <4>4. ~Unterminated(file)
        BY <4>3 DEF CarriesOn
      <4> QED BY <3>1, <3>4, <3>5, <4>1, <4>4
    <3> QED BY <3>1, <3>2, <3>3, <3>6 DEF SpliceInv, SoloCarriesOn
  <2>8. ASSUME NEW p \in Runs, Write(p) PROVE SpliceInv'
    <3>1. /\ Step(p) /\ UNCHANGED <<pc, met>> /\ pc[p] = "loop"
      BY <2>8 DEF Step, Write
    <3>2. Alone' /\ SpliceNeedsOverlap'
      BY <3>1, <2>8, AloneStep, WriteSplices DEF SpliceInv
    <3>3. ASSUME NEW q \in Runs, pc'[q] # "loop" PROVE pending'[q] = <<>>
      BY <3>1, <3>3, <2>8, WriteShape DEF SpliceInv, SoloCarriesOn
    <3>4. ASSUME NEW q \in Runs, Live(q)', q \notin met'
          PROVE  /\ q = p
                 /\ CarriesOn(file', pending'[p])
      <4>1. q = p
        BY <3>1, <3>4, <2>8, SoloIsOwnStep DEF SpliceInv, Start
      <4>2. Live(p) /\ p \notin met
        BY <3>1, <3>4, <4>1 DEF Live
      <4>3. CarriesOn(file, pending[p])
        BY <3>1, <4>2 DEF SpliceInv, SoloCarriesOn
      <4>4. TypeOK'
        BY TypeStep
      <4>5. /\ file \in Seq(Unit) /\ file' \in Seq(Unit)
            /\ pending[p] \in Seq(Unit) /\ pending'[p] \in Seq(Unit)
        BY <4>4 DEF TypeOK
      <4>6. PICK k \in 1..Len(pending[p]) :
               /\ Len(file') = Len(file) + k
               /\ \A i \in 1..Len(file) + k :
                     file'[i] = IF i <= Len(file) THEN file[i]
                                ELSE pending[p][i - Len(file)]
               /\ Len(pending'[p]) = Len(pending[p]) - k
               /\ \A i \in 1..Len(pending[p]) - k : pending'[p][i] = pending[p][k + i]
        BY <2>8, WriteShape
      <4>7. CarriesOn(file', pending'[p])
        BY <4>3, <4>5, <4>6, RestCarriesOn
      <4> QED BY <4>1, <4>7
    <3> QED BY <3>1, <3>2, <3>3, <3>4 DEF SpliceInv, SoloCarriesOn
  <2>9. ASSUME NEW p \in Runs, End(p) PROVE SpliceInv'
    <3>1. /\ Step(p) /\ UNCHANGED <<file, met>> /\ pc'[p] = "done" /\ pending'[p] = <<>>
          /\ \A q \in Runs : q # p => pending'[q] = pending[q]
      BY <2>9 DEF Step, End, Goto, TypeOK
    <3>2. Alone' /\ SpliceNeedsOverlap'
      BY <3>1, AloneStep DEF SpliceInv, SpliceNeedsOverlap
    <3>3. ASSUME NEW q \in Runs, pc'[q] # "loop" PROVE pending'[q] = <<>>
      BY <3>1, <3>3, OnlyStartRevives DEF SpliceInv, SoloCarriesOn
    <3>4. ASSUME NEW q \in Runs, Live(q)', q \notin met' PROVE FALSE
      <4>1. q # p
        BY <3>1, <3>4 DEF Live
      <4>2. ~Start(p)
        BY <3>1 DEF TypeOK, Start, Goto
      <4> QED BY <3>1, <3>4, <4>1, <4>2, SoloIsOwnStep DEF SpliceInv
    <3> QED BY <3>2, <3>3, <3>4 DEF SpliceInv, SoloCarriesOn
  <2>10. CASE UNCHANGED vars
    BY <2>10 DEF SpliceInv, Alone, SoloCarriesOn, SpliceNeedsOverlap, Live, vars
  <2> QED
    BY <2>1, <2>2, <2>3, <2>4, <2>5, <2>6, <2>7, <2>8, <2>9, <2>10 DEF Next, Step
<1> QED BY <1>1, <1>2, TypeCorrect, ClaimInvCorrect, PTL DEF Spec

-----------------------------------------------------------------------------
(* No displaced column: what a lone run has read of the file's layout      *)
(* before its lock is still so when it writes.                             *)

(* The layout a lone run writes is the file's: it read that one before its *)
(* lock, or is going to write the header itself.                           *)
LayoutAgrees(p) ==
    /\ p \in Appends /\ pc[p] \in {"lockf", "flock", "size", "tail"}
          => forced[p] = HeaderOf(file)
    /\ pc[p] = "tail" => file # <<>> /\ ~needHeader[p]
    /\ pc[p] = "loop" =>
          /\ needHeader[p] => file = <<>> /\ pending[p] = <<>>
          /\ ~needHeader[p] =>
                HeaderOf(IF file = <<>> THEN pending[p] ELSE file) = RowLayout(p)
          /\ \A i \in DOMAIN pending[p] :
                pending[p][i].half = "row1" => pending[p][i].layout = RowLayout(p)

HeadingInv ==
    /\ \A p \in Truncates : forced[p] = NULL
    /\ met = {} =>
          /\ file # <<>> => file[1].half = "head1"
          /\ RowsUnder(HeaderOf(file))
          /\ \A p \in Runs : Live(p) => LayoutAgrees(p)

(* The only live run of a file no two runs have shared.                    *)
LEMMA OnlyOneLive ==
    ASSUME TypeOK, Alone, NEW p \in Runs, Step(p), met' = {},
           NEW q \in Runs, Live(q)'
    PROVE  /\ met = {} /\ q = p
           /\ Start(p) => pc'[p] \in {"layout", "lockf"} /\ (p \in Appends => pc'[p] = "layout")
<1>1. met = {}
  BY OnlyStartRevives
<1>2. CASE Start(p)
  BY <1>1, <1>2, SoloIsNotStarted
<1>3. CASE ~Start(p)
  BY <1>1, <1>3, SoloIsOwnStep
<1> QED BY <1>2, <1>3

(* Steps that leave the file, and so what stands in it, alone.             *)
LEMMA HeadingPlain ==
    ASSUME TypeOK, Alone, HeadingInv, NEW p \in Runs, Step(p), UNCHANGED file,
           \A q \in Truncates : forced'[q] = NULL,
           met' = {} /\ Live(p)' => LayoutAgrees(p)'
    PROVE  HeadingInv'
<1>1. ASSUME met' = {}
      PROVE  /\ file' # <<>> => file'[1].half = "head1"
             /\ RowsUnder(HeaderOf(file))'
             /\ \A q \in Runs : Live(q)' => LayoutAgrees(q)'
  <2>1. met = {}
    BY <1>1, OnlyStartRevives
  <2>2. \A q \in Runs : Live(q)' => LayoutAgrees(q)'
    BY <1>1, OnlyOneLive
  <2> QED BY <2>1, <2>2 DEF HeadingInv, RowsUnder, HeaderOf
<1> QED BY <1>1 DEF HeadingInv

(* HeadingInv is inductive: a layout is read before any lock is held, and  *)
(* still agrees with the file, or is the one the run heads it with.        *)
THEOREM HeadingInvCorrect == Spec => []HeadingInv
<1>1. Init => HeadingInv
  <2> SUFFICES ASSUME Init PROVE HeadingInv
    OBVIOUS
  <2>1. file # <<>> => file[1].half = "head1"
    BY ExistingAssumption, LogFileAssumption DEF Init
  <2>2. RowsUnder(HeaderOf(file))
    <3> SUFFICES ASSUME NEW i \in DOMAIN file, file[i].half = "row1"
                 PROVE  HeaderOf(file) # NULL /\ file[i].layout = HeaderOf(file)
      BY DEF RowsUnder
    <3>1. /\ file \in Seq(Unit) /\ file # <<>> /\ file[1] \in Unit
          /\ file[1].half = "head1" /\ file[i].layout = file[1].layout
      BY ExistingAssumption, LogFileAssumption DEF Init
    <3> QED BY <3>1, LogFileAssumption DEF HeaderOf, Unit
  <2>3. \A p \in Truncates : forced[p] = NULL
    BY DEF Init, Truncates
  <2>4. \A p \in Runs : ~Live(p)
    BY DEF Init, Live
  <2> QED BY <2>1, <2>2, <2>3, <2>4 DEF HeadingInv
<1>2. TypeOK /\ ClaimInv /\ SpliceInv /\ HeadingInv /\ [Next]_vars => HeadingInv'
  <2> SUFFICES ASSUME TypeOK, ClaimInv, SpliceInv, HeadingInv, [Next]_vars PROVE HeadingInv'
    OBVIOUS
  <2> USE DEF SpliceInv
  <2>1. ASSUME NEW p \in Runs, Start(p) PROVE HeadingInv'
    <3>1. Step(p) /\ UNCHANGED <<file, forced>>
      BY <2>1 DEF Step, Start
    <3>2. met' = {} /\ Live(p)' => LayoutAgrees(p)'
      <4> SUFFICES ASSUME met' = {}, Live(p)' PROVE LayoutAgrees(p)'
        OBVIOUS
      <4>1. pc'[p] \in {"layout", "lockf"} /\ (p \in Appends => pc'[p] = "layout")
        BY <2>1, <3>1, OnlyOneLive
      <4> QED BY <4>1 DEF LayoutAgrees
    <3> QED BY <3>1, <3>2, HeadingPlain DEF HeadingInv
  <2>2. ASSUME NEW p \in Runs, ReadHeader(p) PROVE HeadingInv'
    <3>1. /\ Step(p) /\ UNCHANGED file /\ pc[p] = "layout" /\ pc'[p] = "lockf"
          /\ forced'[p] = HeaderOf(file)
          /\ \A q \in Runs : q # p => forced'[q] = forced[q]
      BY <2>2 DEF Step, ReadHeader, Goto, TypeOK
    <3>2. p \notin Truncates
      BY <3>1 DEF ClaimInv, ClaimHeld
    <3>3. LayoutAgrees(p)'
      BY <3>1 DEF LayoutAgrees, HeaderOf
    <3>4. \A q \in Truncates : forced'[q] = NULL
      BY <3>1, <3>2 DEF HeadingInv, Truncates
    <3> QED BY <3>1, <3>3, <3>4, HeadingPlain
  <2>3. ASSUME NEW p \in Runs, ClaimLockf(p) \/ ClaimFlock(p) PROVE HeadingInv'
    <3>1. Step(p) /\ UNCHANGED <<file, forced, needHeader, pending, met>>
      BY <2>3 DEF Step, ClaimLockf, ClaimFlock
    <3>2. /\ pc[p] \in {"lockf", "flock"}
          /\ pc'[p] \in {"flock", "truncate", "size", "refused"}
      BY <2>3 DEF ClaimLockf, ClaimFlock, Busy, Goto, TypeOK
    <3>3. met' = {} /\ Live(p)' => LayoutAgrees(p)'
      <4> SUFFICES ASSUME met' = {} PROVE LayoutAgrees(p)'
        OBVIOUS
      <4>1. LayoutAgrees(p)
        BY <3>1, <3>2 DEF HeadingInv, Live
      <4> QED BY <3>1, <3>2, <4>1 DEF LayoutAgrees, HeaderOf
    <3> QED BY <3>1, <3>3, HeadingPlain DEF HeadingInv
  <2>4. ASSUME NEW p \in Runs, Truncate(p) PROVE HeadingInv'
    <3>1. /\ Step(p) /\ file' = <<>> /\ UNCHANGED forced /\ pc'[p] = "size" /\ ~Start(p)
          /\ pc[p] = "truncate"
      BY <2>4 DEF Step, Truncate, Goto, TypeOK, Start
    <3>2. p \notin Appends
      BY <3>1 DEF ClaimInv, ClaimHeld
    <3>3. LayoutAgrees(p)'
      BY <3>1, <3>2 DEF LayoutAgrees
    <3>4. RowsUnder(HeaderOf(file))'
      BY <3>1 DEF RowsUnder
    <3>5. met' = {} => \A q \in Runs : Live(q)' => LayoutAgrees(q)'
      BY <3>1, <3>3, OnlyOneLive
    <3> QED BY <3>1, <3>4, <3>5 DEF HeadingInv
  <2>5. ASSUME NEW p \in Runs, CheckSize(p) PROVE HeadingInv'
    <3>1. /\ Step(p) /\ UNCHANGED <<file, forced, pending, met>> /\ pc[p] = "size"
          /\ needHeader'[p] = (file = <<>>)
          /\ pc'[p] = IF p \in Appends /\ file # <<>> THEN "tail" ELSE "loop"
      BY <2>5 DEF Step, CheckSize, Goto, TypeOK
    <3>2. met' = {} /\ Live(p)' => LayoutAgrees(p)'
      <4> SUFFICES ASSUME met' = {} PROVE LayoutAgrees(p)'
        OBVIOUS
      <4>1. pending'[p] = <<>>
        BY <3>1 DEF SoloCarriesOn
      <4>2. p \in Truncates => file = <<>>
        BY <3>1 DEF SoloCarriesOn, Live
      <4>3. IF file = <<>> THEN pc'[p] = "loop" ELSE pc'[p] = "tail"
        BY <3>1, <4>2 DEF Truncates
      <4>4. CASE file = <<>>
        <5>1. file' = <<>> /\ needHeader'[p] /\ pc'[p] = "loop"
          BY <3>1, <4>3, <4>4
        <5> QED BY <4>1, <5>1 DEF LayoutAgrees
      <4>5. CASE file # <<>>
        <5>1. file' # <<>> /\ ~needHeader'[p] /\ pc'[p] = "tail" /\ p \in Appends
          BY <3>1, <4>3, <4>5
        <5>2. forced'[p] = HeaderOf(file)'
          BY <3>1, <5>1 DEF HeadingInv, Live, LayoutAgrees, HeaderOf
        <5> QED BY <5>1, <5>2 DEF LayoutAgrees
      <4> QED BY <4>4, <4>5
    <3> QED BY <3>1, <3>2, HeadingPlain DEF HeadingInv
  <2>6. ASSUME NEW p \in Runs, ReadTail(p) PROVE HeadingInv'
    <3>1. /\ Step(p) /\ UNCHANGED <<file, forced, needHeader, met>>
          /\ pc[p] = "tail" /\ pc'[p] = "loop"
          /\ pending'[p] \in {<<>>, Newline(p)}
      BY <2>6 DEF Step, ReadTail, Goto, TypeOK
    <3>2. met' = {} /\ Live(p)' => LayoutAgrees(p)'
      <4> SUFFICES ASSUME met' = {} PROVE LayoutAgrees(p)'
        OBVIOUS
      <4>1. LayoutAgrees(p) /\ file # <<>> /\ file[1].half = "head1"
        BY <3>1 DEF HeadingInv, Live, LayoutAgrees
      <4>2. p \in Appends
        BY <3>1 DEF ClaimInv, ClaimHeld, Truncates
      <4>3. file[1] \in Unit
        BY <4>1 DEF TypeOK
      <4>4. HeaderOf(file) = RowLayout(p)
        BY <3>1, <4>1, <4>2, <4>3, LogFileAssumption DEF LayoutAgrees, RowLayout, HeaderOf, Unit
      <4>5. RowLayout(p)' = RowLayout(p)
        BY <3>1 DEF RowLayout
      <4>6. \A i \in DOMAIN pending'[p] : pending'[p][i].half # "row1"
        BY <3>1 DEF Newline
      <4>7. ~needHeader'[p] /\ file' # <<>> /\ HeaderOf(file') = RowLayout(p)'
        BY <3>1, <4>1, <4>4, <4>5 DEF LayoutAgrees
      <4> QED BY <3>1, <4>6, <4>7 DEF LayoutAgrees
    <3> QED BY <3>1, <3>2, HeadingPlain DEF HeadingInv
  <2>7. ASSUME NEW p \in Runs, Sample(p) PROVE HeadingInv'
    <3> DEFINE head == Line(p, "head1", "head2")
               row == Line(p, "row1", "row2")
    <3>1. /\ Step(p) /\ UNCHANGED <<pc, file, forced, met>> /\ pc[p] = "loop"
          /\ pending[p] = <<>> /\ ~needHeader'[p]
          /\ pending'[p] = IF needHeader[p] THEN head \o row ELSE row
      BY <2>7 DEF Step, Sample, TypeOK
    <3>2. met' = {} /\ Live(p)' => LayoutAgrees(p)'
      <4> SUFFICES ASSUME met' = {} PROVE LayoutAgrees(p)'
        OBVIOUS
      <4>1. LayoutAgrees(p)
        BY <3>1 DEF HeadingInv, Live
      <4>2. RowLayout(p)' = RowLayout(p)
        BY <3>1 DEF RowLayout
      <4>3. head \in Seq(Unit) /\ row \in Seq(Unit) /\ Len(head) = 2 /\ Len(row) = 2
        BY LineType DEF Half, Line
      <4>4. /\ head[1].half = "head1" /\ head[1].layout = RowLayout(p)
            /\ \A i \in 1..2 : head[i].half # "row1" /\ row[i].layout = RowLayout(p)
        BY DEF Line
      <4> HIDE DEF head, row
      <4>5. CASE needHeader[p]
        <5> DEFINE u == head \o row
        <5>1. DOMAIN u = 1..4 /\ \A i \in 1..4 : u[i] = IF i <= 2 THEN head[i] ELSE row[i - 2]
          BY <4>3, ConcatPairs
        <5>2. \A i \in 1..4 : i <= 2 \/ i - 2 \in 1..2
          OBVIOUS
        <5>3. \A i \in DOMAIN u : u[i].half = "row1" => u[i].layout = RowLayout(p)
          BY <4>4, <5>1, <5>2
        <5>4. u # <<>> /\ u[1].half = "head1" /\ u[1].layout = RowLayout(p)
          BY <4>4, <5>1
        <5>5. HeaderOf(u) = RowLayout(p)
          <6> HIDE DEF u
          <6> QED BY <5>4 DEF HeaderOf
        <5>6. file = <<>>
          BY <3>1, <4>1, <4>5 DEF LayoutAgrees
        <5>7. pending'[p] = u
          BY <3>1, <4>5
        <5> HIDE DEF u
        <5> QED BY <3>1, <4>2, <5>3, <5>5, <5>6, <5>7 DEF LayoutAgrees
      <4>6. CASE ~needHeader[p]
        <5>1. HeaderOf(IF file = <<>> THEN <<>> ELSE file) = RowLayout(p)
          BY <3>1, <4>1, <4>6 DEF LayoutAgrees
        <5>2. RowLayout(p) # NULL
          BY LogFileAssumption DEF RowLayout, TypeOK
        <5>3. file # <<>> /\ HeaderOf(file) = RowLayout(p)
          BY <5>1, <5>2 DEF HeaderOf
        <5>4. \A i \in DOMAIN row : row[i].layout = RowLayout(p)
          BY <4>3, <4>4
        <5> QED BY <3>1, <4>2, <4>6, <5>3, <5>4 DEF LayoutAgrees
      <4> QED BY <4>5, <4>6
    <3> QED BY <3>1, <3>2, HeadingPlain DEF HeadingInv
  <2>8. ASSUME NEW p \in Runs, Write(p) PROVE HeadingInv'
    <3>1. /\ Step(p) /\ UNCHANGED <<pc, forced, needHeader, met>> /\ pc[p] = "loop"
          /\ pending[p] # <<>>
      BY <2>8 DEF Step, Write
    <3>2. PICK k \in 1..Len(pending[p]) :
             /\ Len(file') = Len(file) + k
             /\ \A i \in 1..Len(file) + k :
                   file'[i] = IF i <= Len(file) THEN file[i]
                              ELSE pending[p][i - Len(file)]
             /\ Len(pending'[p]) = Len(pending[p]) - k
             /\ \A i \in 1..Len(pending[p]) - k : pending'[p][i] = pending[p][k + i]
      BY <2>8, WriteShape
    <3>3. ASSUME met' = {}
          PROVE  /\ file' # <<>> => file'[1].half = "head1"
                 /\ RowsUnder(HeaderOf(file))'
                 /\ LayoutAgrees(p)'
      <4> DEFINE u == pending[p]
                 L == Len(file)
      <4>1. LayoutAgrees(p) /\ RowLayout(p)' = RowLayout(p)
        BY <3>1, <3>3 DEF HeadingInv, Live, RowLayout
      <4>2. ~needHeader[p] /\ HeaderOf(IF file = <<>> THEN u ELSE file) = RowLayout(p)
        BY <3>1, <4>1 DEF LayoutAgrees
      <4>3. TypeOK'
        BY TypeStep
      <4>4. /\ file \in Seq(Unit) /\ L \in Nat /\ u \in Seq(Unit) /\ Len(u) \in Nat
            /\ file' \in Seq(Unit) /\ pending'[p] \in Seq(Unit)
            /\ u # <<>> /\ (file = <<>> <=> L = 0)
        BY <3>1, <4>3 DEF TypeOK
      <4>5. RowLayout(p) # NULL
        BY LogFileAssumption DEF RowLayout, TypeOK
      <4>6. \A i \in 1..Len(u) : u[i].half = "row1" => u[i].layout = RowLayout(p)
        BY <4>1, <4>4, <3>1 DEF LayoutAgrees
      <4> HIDE DEF u
      <4>7. /\ file' # <<>>
            /\ file'[1] = IF file = <<>> THEN u[1] ELSE file[1]
        BY <3>2, <4>4 DEF u
      <4>8. file'[1].half = "head1" /\ file'[1].layout = RowLayout(p)
        BY <4>2, <4>4, <4>5, <4>7 DEF HeaderOf
      <4>9. HeaderOf(file') = RowLayout(p)
        BY <4>7, <4>8 DEF HeaderOf
      <4>10. ASSUME NEW i \in DOMAIN file', file'[i].half = "row1"
             PROVE  file'[i].layout = RowLayout(p)
        <5>1. i \in 1..L + k
          BY <3>2, <4>4
        <5>2. CASE i <= L
          <6>1. file # <<>> /\ file'[i] = file[i] /\ i \in DOMAIN file
            BY <3>2, <4>4, <5>1, <5>2
          <6>2. RowsUnder(HeaderOf(file)) /\ HeaderOf(file) = RowLayout(p)
            BY <3>1, <3>3, <4>2, <6>1 DEF HeadingInv
          <6> QED BY <4>10, <6>1, <6>2 DEF RowsUnder
        <5>3. CASE i > L
          <6>1. i - L \in 1..Len(u)
            BY <4>4, <5>1, <5>3 DEF u
          <6>2. file'[i] = u[i - L]
            BY <3>2, <4>4, <5>1, <5>3 DEF u
          <6> QED BY <4>6, <4>10, <6>1, <6>2
        <5> QED BY <4>4, <5>1, <5>2, <5>3
      <4>11. RowsUnder(HeaderOf(file))'
        BY <4>5, <4>9, <4>10 DEF RowsUnder
      <4>12. ASSUME NEW i \in DOMAIN pending'[p], pending'[p][i].half = "row1"
             PROVE  pending'[p][i].layout = RowLayout(p)
        <5>1. Len(pending'[p]) = Len(u) - k /\ i \in 1..Len(u) - k
          BY <3>2, <4>4 DEF u
        <5>2. k + i \in 1..Len(u)
          BY <4>4, <5>1
        <5>3. pending'[p][i] = u[k + i]
          BY <3>2, <5>1 DEF u
        <5> QED BY <4>6, <4>12, <5>2, <5>3
      <4>13. LayoutAgrees(p)'
        BY <3>1, <4>1, <4>2, <4>7, <4>9, <4>12 DEF LayoutAgrees
      <4> QED BY <4>8, <4>11, <4>13
    <3>4. ASSUME met' = {}, NEW q \in Runs, Live(q)' PROVE LayoutAgrees(q)'
      BY <3>1, <3>3, <3>4, OnlyOneLive
    <3> QED BY <3>1, <3>3, <3>4 DEF HeadingInv
  <2>9. ASSUME NEW p \in Runs, End(p) PROVE HeadingInv'
    <3>1. /\ Step(p) /\ UNCHANGED file /\ pc'[p] = "done" /\ forced'[p] = NULL
          /\ \A q \in Runs : q # p => forced'[q] = forced[q]
      BY <2>9 DEF Step, End, Goto, TypeOK
    <3>2. \A q \in Truncates : forced'[q] = NULL
      BY <3>1 DEF HeadingInv, Truncates
    <3>3. ~Live(p)'
      BY <3>1 DEF Live
    <3> QED BY <3>1, <3>2, <3>3, HeadingPlain
  <2>10. CASE UNCHANGED vars
    BY <2>10 DEF HeadingInv, LayoutAgrees, RowLayout, HeaderOf, RowsUnder, Live, vars
  <2> QED
    BY <2>1, <2>2, <2>3, <2>4, <2>5, <2>6, <2>7, <2>8, <2>9, <2>10 DEF Next, Step
<1> QED BY <1>1, <1>2, TypeCorrect, ClaimInvCorrect, SpliceInvCorrect, PTL DEF Spec

(* A log resumed after any interruption, and written by one run at a time, *)
(* is whole, however many runs there are and whatever layouts they have.   *)
THEOREM ResumedLogWhole == Spec => []ResumedLogIsWhole
<1>1. SpliceInv /\ HeadingInv => ResumedLogIsWhole
  BY DEF SpliceInv, HeadingInv, ResumedLogIsWhole, SoloRowsUnderHeading
<1> QED BY <1>1, SpliceInvCorrect, HeadingInvCorrect, PTL

=============================================================================
