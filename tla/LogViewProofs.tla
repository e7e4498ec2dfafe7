---------------------------- MODULE LogViewProofs ----------------------------
(***************************************************************************)
(* Proofs about LogView and the pure LogTail under it.                     *)
(*                                                                         *)
(* First the operators: what a fold does with one more character, that the *)
(* fast path of the line assembler computes what the slow one does, what   *)
(* the bytes between two offsets are, what a body of rows and notes shows. *)
(* Then the records a read goes through, and last the invariant of the     *)
(* viewer, step by step.                                                   *)
(***************************************************************************)
EXTENDS LogView, SetLemmas

-----------------------------------------------------------------------------
(* Sequences, one element after the other. *)

(* A set with the empty sequence, and with every sequence that is one of   *)
(* its own and one element more, has all of them: a shortest one it had    *)
(* not would be neither.                                                   *)
LEMMA SequencesGrow ==
    ASSUME NEW X, NEW Good, <<>> \in Good,
           \A s \in Seq(X) : \A c \in X : s \in Good => Append(s, c) \in Good
    PROVE  Seq(X) \subseteq Good
<1> DEFINE Bad == {s \in Seq(X) : s \notin Good}
           Lengths == {Len(s) : s \in Bad}
<1> SUFFICES ASSUME Bad # {} PROVE FALSE
  OBVIOUS
<1>1. PICK n \in Lengths : \A m \in Lengths : n <= m
  <2>1. Lengths \in SUBSET Nat /\ Lengths # {}
    BY LenProperties
  <2> HIDE DEF Lengths
  <2> QED BY <2>1, LeastNumber
<1>2. PICK s \in Bad : Len(s) = n
  BY <1>1
<1>3. s # <<>>
  BY <1>2
<1>4. PICK t \in Seq(X), c \in X : s = Append(t, c)
  BY <1>2, <1>3, SequenceEmptyOrAppend
<1>5. Len(s) = Len(t) + 1 /\ Len(t) \in Nat
  BY <1>4, AppendProperties, LenProperties
<1>6. Len(t) \notin Lengths
  <2>1. \A m \in Nat : n = m + 1 => ~(n <= m)
    OBVIOUS
  <2> QED BY <1>1, <1>2, <1>5, <2>1
<1>7. t \in Good
  BY <1>4, <1>6
<1> QED BY <1>2, <1>4, <1>7

-----------------------------------------------------------------------------
(* Folds.  FoldLeft is one entry of a recursive function on the subsets of *)
(* the places of the sequence, which takes the last place first.  Both     *)
(* folds of LogTail are treated at once, told apart by their name.         *)

PartStep(parts, c) ==
    IF c = NL THEN Append(parts, <<>>) ELSE [parts EXCEPT ![Len(parts)] = Append(@, c)]

StepOf(name, a, c) == IF name = "byte" THEN FeedByte(a, c) ELSE PartStep(a, c)

IsFold(name, a, text, S, it) ==
    it = [s \in SUBSET S |-> IF s = {} THEN a
                             ELSE StepOf(name, it[s \ {Max(s)}], text[Max(s)])]

Numbers(S) == S \in SUBSET Nat /\ IsFiniteSet(S)

(* One step of the recursive function.                                     *)
LEMMA FoldStep ==
    ASSUME NEW name, NEW a, NEW text, NEW S, Numbers(S), NEW it, IsFold(name, a, text, S, it)
    PROVE  \A s \in SUBSET S :
             /\ s = {} => it[s] = a
             /\ s # {} => /\ Max(s) \in s /\ s \ {Max(s)} \in SUBSET S
                          /\ s \ {Max(s)} # s
                          /\ it[s] = StepOf(name, it[s \ {Max(s)}], text[Max(s)])
<1> SUFFICES ASSUME NEW s \in SUBSET S
             PROVE  /\ s = {} => it[s] = a
                    /\ s # {} => /\ Max(s) \in s /\ s \ {Max(s)} \in SUBSET S
                                 /\ s \ {Max(s)} # s
                                 /\ it[s] = StepOf(name, it[s \ {Max(s)}], text[Max(s)])
  OBVIOUS
<1>1. it[s] = IF s = {} THEN a ELSE StepOf(name, it[s \ {Max(s)}], text[Max(s)])
  BY DEF IsFold
<1>2. s # {} => Max(s) \in s
  <2>1. IsFiniteSet(s) /\ s \in SUBSET Nat
    BY FS_Subset DEF Numbers
  <2> QED BY <2>1, MaxBounds
<1> QED BY <1>1, <1>2

(* Two such functions agree where their sequences do.                      *)
LEMMA FoldUnique ==
    ASSUME NEW name, NEW a, NEW text, NEW S, Numbers(S), NEW it,
           IsFold(name, a, text, S, it),
           NEW other, NEW T \in SUBSET S, NEW jt, IsFold(name, a, other, T, jt),
           \A i \in T : text[i] = other[i]
    PROVE  \A s \in SUBSET T : it[s] = jt[s]
<1> DEFINE Bad == {s \in SUBSET T : it[s] # jt[s]}
<1> SUFFICES ASSUME Bad # {} PROVE FALSE
  OBVIOUS
<1>0. Numbers(T) /\ IsFiniteSet(T)
  BY FS_Subset DEF Numbers
<1>1. PICK s \in Bad : \A t \in SUBSET s : t # s => t \notin Bad
  <2>2. Bad \in SUBSET (SUBSET T)
    OBVIOUS
  <2> HIDE DEF Bad
  <2> QED BY <1>0, <2>2, SmallestSubset
<1>2. s \in SUBSET T /\ s \in SUBSET S
  BY <1>1
<1>3. s # {}
  <2>1. s = {} => it[s] = a
    BY <1>2, FoldStep
  <2>2. s = {} => jt[s] = a
    BY <1>0, <1>2, FoldStep
  <2> QED BY <1>1, <2>1, <2>2
<1>4. /\ Max(s) \in s /\ s \ {Max(s)} # s
      /\ it[s] = StepOf(name, it[s \ {Max(s)}], text[Max(s)])
  BY <1>2, <1>3, FoldStep
<1>5. jt[s] = StepOf(name, jt[s \ {Max(s)}], other[Max(s)])
  BY <1>0, <1>2, <1>3, FoldStep
<1>6. it[s \ {Max(s)}] = jt[s \ {Max(s)}] /\ text[Max(s)] = other[Max(s)]
  BY <1>1, <1>2, <1>4
<1>7. it[s] = jt[s]
  BY <1>4, <1>5, <1>6
<1> QED BY <1>1, <1>7

(* There is such a function.                                               *)
LEMMA FoldExists ==
    ASSUME NEW name, NEW a, NEW text, NEW S, Numbers(S)
    PROVE  IsFold(name, a, text, S, CHOOSE it : IsFold(name, a, text, S, it))
<1> DEFINE H(T) == CHOOSE it : IsFold(name, a, text, T, it)
           Bad == {T \in SUBSET S : ~IsFold(name, a, text, T, H(T))}
<1> SUFFICES ASSUME Bad # {} PROVE FALSE
  OBVIOUS
<1>1. PICK T \in Bad : \A U \in SUBSET T : U # T => U \notin Bad
  <2>1. Bad \in SUBSET (SUBSET S) /\ IsFiniteSet(S)
    BY DEF Numbers
  <2> HIDE DEF Bad
  <2> QED BY <2>1, SmallestSubset
<1>2. \A U \in SUBSET T : U # T => IsFold(name, a, text, U, H(U))
  BY <1>1
<1>0. T \in SUBSET Nat /\ IsFiniteSet(T)
  BY <1>1, FS_Subset DEF Numbers
<1>a. \A s \in SUBSET T : s \in SUBSET Nat /\ IsFiniteSet(s) /\ Numbers(s)
  BY <1>0, FS_Subset DEF Numbers
<1> DEFINE below(s) == H(s \ {Max(s)})[s \ {Max(s)}]
           h == [s \in SUBSET T |-> IF s # T THEN H(s)[s]
                                    ELSE IF T = {} THEN a ELSE StepOf(name, below(s), text[Max(s)])]
<1> HIDE DEF H
<1>3. ASSUME NEW s \in SUBSET T
      PROVE  h[s] = IF s = {} THEN a ELSE StepOf(name, h[s \ {Max(s)}], text[Max(s)])
  <2>1. s # {} => /\ Max(s) \in s /\ s \ {Max(s)} \in SUBSET T /\ s \ {Max(s)} # T
                  /\ h[s \ {Max(s)}] = H(s \ {Max(s)})[s \ {Max(s)}]
    <3>1. s # {} => Max(s) \in s
      BY <1>a, MaxBounds
    <3> QED BY <3>1
  <2>2. CASE s = T
    BY <2>1, <2>2
  <2>3. CASE s # T
    <3>1. h[s] = H(s)[s] /\ IsFold(name, a, text, s, H(s))
      BY <1>2, <2>3
    <3>2. CASE s = {}
      <4>1. s \in SUBSET s /\ Numbers(s)
        BY <1>a
      <4>2. \A g : IsFold(name, a, text, s, g) => g[s] = a
        BY <3>2, <4>1, FoldStep
      <4> QED BY <3>1, <3>2, <4>2
    <3>3. CASE s # {}
      <4>0. s \in SUBSET s /\ Numbers(s)
        BY <1>a
      <4>1. H(s)[s] = StepOf(name, H(s)[s \ {Max(s)}], text[Max(s)])
        BY <3>1, <3>3, <4>0, FoldStep
      <4>2. IsFold(name, a, text, s \ {Max(s)}, H(s \ {Max(s)}))
        BY <1>2, <2>1, <3>3
      <4>4. H(s)[s \ {Max(s)}] = H(s \ {Max(s)})[s \ {Max(s)}]
        <5>1. s \ {Max(s)} \in SUBSET s /\ s \ {Max(s)} \in SUBSET (s \ {Max(s)})
          OBVIOUS
        <5> QED BY <3>1, <4>0, <4>2, <5>1, FoldUnique
      <4> QED BY <2>1, <3>1, <3>3, <4>1, <4>4
    <3> QED BY <3>2, <3>3
  <2> QED BY <2>2, <2>3
<1>4. IsFold(name, a, text, T, h)
  <2>1. h = [s \in SUBSET T |-> h[s]]
    OBVIOUS
  <2> HIDE DEF h
  <2>2. h = [s \in SUBSET T |-> IF s = {} THEN a ELSE StepOf(name, h[s \ {Max(s)}], text[Max(s)])]
    BY <1>3, <2>1
  <2> QED BY <2>2 DEF IsFold
<1> HIDE DEF h
<1>5. IsFold(name, a, text, T, H(T))
  BY <1>4 DEF H
<1> QED BY <1>1, <1>5

FoldOf(name, a, text) ==
    (CHOOSE it : IsFold(name, a, text, DOMAIN text, it))[DOMAIN text]

(* A fold over nothing, and over one element more.                         *)
LEMMA FoldOfNone ==
    ASSUME NEW name, NEW a, NEW text, DOMAIN text = {}
    PROVE  FoldOf(name, a, text) = a
<1>1. Numbers({})
  BY FS_EmptySet DEF Numbers
<1>2. IsFold(name, a, text, {}, CHOOSE it : IsFold(name, a, text, {}, it))
  BY <1>1, FoldExists
<1>3. ASSUME NEW g, IsFold(name, a, text, {}, g) PROVE g[{}] = a
  BY <1>3 DEF IsFold
<1> QED BY <1>2, <1>3 DEF FoldOf

(* The fold of a text is a step from the fold of what comes before its end. *)
LEMMA FoldSplits ==
    ASSUME NEW name, NEW a, NEW S, Numbers(S), S # {}, NEW T, T = S \ {Max(S)},
           NEW text, DOMAIN text = S, NEW other, DOMAIN other = T,
           \A i \in T : text[i] = other[i]
    PROVE  FoldOf(name, a, text) = StepOf(name, FoldOf(name, a, other), text[Max(S)])
<1> DEFINE It == CHOOSE it : IsFold(name, a, text, S, it)
           Jt == CHOOSE it : IsFold(name, a, other, T, it)
<1>1. T \in SUBSET S /\ S \in SUBSET S /\ T \in SUBSET T
  OBVIOUS
<1>2. Numbers(T)
  BY <1>1, FS_Subset DEF Numbers
<1>3. IsFold(name, a, text, S, It) /\ IsFold(name, a, other, T, Jt)
  BY <1>2, FoldExists
<1>4. FoldOf(name, a, text) = It[S] /\ FoldOf(name, a, other) = Jt[T]
  BY DEF FoldOf
<1> HIDE DEF It, Jt
<1>5. It[S] = StepOf(name, It[S \ {Max(S)}], text[Max(S)])
  BY <1>1, <1>3, FoldStep
<1>6. It[T] = Jt[T]
  BY <1>1, <1>3, FoldUnique
<1> QED BY <1>4, <1>5, <1>6

(* The last place of a text, and those before it.                          *)
LEMMA MaxOfInterval ==
    ASSUME NEW n \in Nat
    PROVE  Max(1..(n + 1)) = n + 1 /\ (1..(n + 1)) \ {n + 1} = 1..n
           /\ 1..(n + 1) \in SUBSET Nat /\ IsFiniteSet(1..(n + 1)) /\ 1..(n + 1) # {}
<1>1. IsFiniteSet(1..(n + 1)) /\ 1..(n + 1) \in SUBSET Nat /\ n + 1 \in 1..(n + 1)
  BY FS_Interval
<1>2. \A y \in 1..(n + 1) : y <= n + 1
  OBVIOUS
<1>3. Max(1..(n + 1)) \in 1..(n + 1) /\ \A y \in 1..(n + 1) : y <= Max(1..(n + 1))
  <2>1. 1..(n + 1) # {}
    BY <1>1
  <2> QED BY <1>1, <2>1, MaxBounds
<1>4. \A m \in 1..(n + 1) : n + 1 <= m => m = n + 1
  OBVIOUS
<1>5. Max(1..(n + 1)) = n + 1
  BY <1>1, <1>3, <1>4
<1> QED BY <1>1, <1>5

(* The same for texts whose places are numbered from one.                  *)
LEMMA FoldOfMore ==
    ASSUME NEW name, NEW a, NEW n \in Nat
    PROVE  \A text, other :
             /\ DOMAIN text = 1..(n + 1) /\ DOMAIN other = 1..n
             /\ \A i \in 1..n : text[i] = other[i]
             => FoldOf(name, a, text) = StepOf(name, FoldOf(name, a, other), text[n + 1])
<1> DEFINE S == 1..(n + 1)
           T == 1..n
           m == n + 1
<1>1. Numbers(S) /\ S # {} /\ T = S \ {Max(S)} /\ Max(S) = m
  BY MaxOfInterval DEF Numbers
<1> HIDE DEF S, T, m
<1>2. \A text, other :
        /\ DOMAIN text = S /\ DOMAIN other = T /\ \A i \in T : text[i] = other[i]
        => FoldOf(name, a, text) = StepOf(name, FoldOf(name, a, other), text[m])
  BY <1>1, FoldSplits
<1> QED BY <1>2 DEF S, T, m

(* The same for a character appended.                                      *)
LEMMA FoldAppends ==
    ASSUME NEW name, NEW a, NEW X, NEW s \in Seq(X), NEW c \in X
    PROVE  /\ FoldOf(name, a, <<>>) = a
           /\ FoldOf(name, a, Append(s, c)) = StepOf(name, FoldOf(name, a, s), c)
<1>1. FoldOf(name, a, <<>>) = a
  <2>1. DOMAIN <<>> = {}
    OBVIOUS
  <2> QED BY <2>1, FoldOfNone
<1> DEFINE n == Len(s)
           t == Append(s, c)
<1>2. /\ n \in Nat /\ DOMAIN s = 1..n /\ t \in Seq(X) /\ Len(t) = n + 1
      /\ \A i \in 1..n : t[i] = s[i]
      /\ t[n + 1] = c
  BY LenProperties, AppendProperties
<1>3. DOMAIN t = 1..(n + 1)
  BY <1>2, LenProperties
<1> HIDE DEF n, t
<1>4. FoldOf(name, a, t) = StepOf(name, FoldOf(name, a, s), t[n + 1])
  BY <1>2, <1>3, FoldOfMore
<1> QED BY <1>1, <1>2, <1>4 DEF t

(* The folds of LogTail are these.                                         *)
LEMMA FoldsAre ==
    ASSUME NEW a, NEW X, NEW text \in Seq(X)
    PROVE  /\ FeedBytes(a, text) = FoldOf("byte", a, text)
           /\ Parts(text) = FoldOf("part", << <<>> >>, text)
<1> DEFINE S == DOMAIN text
           IsByteFold(it) == it = [s \in SUBSET S |-> IF s = {} THEN a
                                     ELSE FeedByte(it[s \ {Max(s)}], text[Max(s)])]
           IsPartFold(it) == it = [s \in SUBSET S |-> IF s = {} THEN << <<>> >>
                                     ELSE PartStep(it[s \ {Max(s)}], text[Max(s)])]
<1>1. \A it : IsByteFold(it) <=> IsFold("byte", a, text, S, it)
  BY DEF IsFold, StepOf
<1>2. \A it : IsPartFold(it) <=> IsFold("part", << <<>> >>, text, S, it)
  BY DEF IsFold, StepOf
<1>3. FeedBytes(a, text) = (CHOOSE it : IsByteFold(it))[S]
  BY DEF FeedBytes, FoldLeft, MapThenFoldSet
<1>4. Parts(text) = (CHOOSE it : IsPartFold(it))[S]
  BY DEF Parts, FoldLeft, MapThenFoldSet, PartStep
<1> QED BY <1>1, <1>2, <1>3, <1>4 DEF FoldOf

-----------------------------------------------------------------------------
(* _LineAssembler. *)

Char == Int \cup {NL, CR}
Texts == Seq(Char)
Lines == [lines : Seq(Texts), cells : Texts, col : Nat]

IsLine(a) == a \in Lines /\ a.col <= Len(a.cells) /\ Len(a.cells) <= MaxCells

CellsAfter(cells, col, c) ==
    IF c = NL THEN <<>>
    ELSE IF c = CR THEN cells
    ELSE IF col < Len(cells) THEN [cells EXCEPT ![col + 1] = c]
    ELSE IF Len(cells) < MaxCells THEN Append(cells, c)
    ELSE cells

ColAfter(cells, col, c) ==
    IF c = NL \/ c = CR THEN 0
    ELSE IF col < Len(cells) \/ Len(cells) < MaxCells THEN col + 1
    ELSE col

(* What feed does with one byte.                                           *)
LEMMA FeedByteIs ==
    ASSUME NEW a, IsLine(a), NEW c \in Char
    PROVE  FeedByte(a, c) = [lines |-> IF c = NL THEN Append(a.lines, a.cells) ELSE a.lines,
                             cells |-> CellsAfter(a.cells, a.col, c),
                             col |-> ColAfter(a.cells, a.col, c)]
<1>1. /\ a = [lines |-> a.lines, cells |-> a.cells, col |-> a.col]
      /\ a.col \in Nat /\ Len(a.cells) \in Nat /\ MaxCells \in Nat /\ a.col <= Len(a.cells)
  BY LogTailAssumption DEF IsLine, Lines, Texts
<1>2. CASE c = NL
  <2>1. FeedByte(a, c) = [lines |-> Append(a.lines, a.cells), cells |-> <<>>, col |-> 0]
    BY <1>2, LogTailAssumption DEF FeedByte
  <2> QED BY <1>2, <2>1 DEF CellsAfter, ColAfter
<1>3. CASE c = CR
  <2>1. FeedByte(a, c) = [a EXCEPT !.col = 0] /\ c # NL
    BY <1>3, LogTailAssumption DEF FeedByte
  <2>2. [a EXCEPT !.col = 0] = [lines |-> a.lines, cells |-> a.cells, col |-> 0]
    BY <1>1
  <2> QED BY <1>3, <2>1, <2>2 DEF CellsAfter, ColAfter
<1>4. CASE c \notin {NL, CR} /\ a.col < Len(a.cells)
  <2>1. FeedByte(a, c) = [a EXCEPT !.cells[a.col + 1] = c, !.col = @ + 1]
    BY <1>4 DEF FeedByte
  <2>2. [a EXCEPT !.cells[a.col + 1] = c, !.col = @ + 1]
        = [lines |-> a.lines, cells |-> [a.cells EXCEPT ![a.col + 1] = c], col |-> a.col + 1]
    <3>1. ASSUME NEW q, q = [a EXCEPT !.cells[a.col + 1] = c, !.col = @ + 1]
          PROVE  q = [lines |-> a.lines, cells |-> [a.cells EXCEPT ![a.col + 1] = c],
                      col |-> a.col + 1]
      <4>1. /\ q = [lines |-> q.lines, cells |-> q.cells, col |-> q.col] /\ q.lines = a.lines
            /\ q.cells = [a.cells EXCEPT ![a.col + 1] = c] /\ q.col = a.col + 1
        BY <1>1, <3>1
      <4> QED BY <4>1
    <3> QED BY <3>1
  <2> QED BY <1>4, <2>1, <2>2 DEF CellsAfter, ColAfter
<1>5. CASE c \notin {NL, CR} /\ a.col = Len(a.cells) /\ Len(a.cells) < MaxCells
  <2>1. FeedByte(a, c) = [a EXCEPT !.cells = Append(@, c), !.col = @ + 1]
    BY <1>1, <1>5 DEF FeedByte
  <2>2. [a EXCEPT !.cells = Append(@, c), !.col = @ + 1]
        = [lines |-> a.lines, cells |-> Append(a.cells, c), col |-> a.col + 1]
    <3>1. ASSUME NEW q, q = [a EXCEPT !.cells = Append(@, c), !.col = @ + 1]
          PROVE  q = [lines |-> a.lines, cells |-> Append(a.cells, c), col |-> a.col + 1]
      <4>1. /\ q = [lines |-> q.lines, cells |-> q.cells, col |-> q.col] /\ q.lines = a.lines
            /\ q.cells = Append(a.cells, c) /\ q.col = a.col + 1
        BY <1>1, <3>1
      <4> QED BY <4>1
    <3> QED BY <3>1
  <2> QED BY <1>1, <1>5, <2>1, <2>2 DEF CellsAfter, ColAfter
<1>6. CASE c \notin {NL, CR} /\ a.col = Len(a.cells) /\ ~(Len(a.cells) < MaxCells)
  <2>1. FeedByte(a, c) = a
    BY <1>1, <1>6 DEF FeedByte
  <2> QED BY <1>1, <1>6, <2>1 DEF CellsAfter, ColAfter
<1>7. a.col < Len(a.cells) \/ a.col = Len(a.cells)
  BY <1>1
<1> QED BY <1>2, <1>3, <1>4, <1>5, <1>6, <1>7

(* The cursor stays within the line, and the line within its cap.          *)
LEMMA FeedByteKeeps ==
    ASSUME NEW a, IsLine(a), NEW c \in Char
    PROVE  IsLine(FeedByte(a, c))
<1> DEFINE cells == CellsAfter(a.cells, a.col, c)
           col == ColAfter(a.cells, a.col, c)
<1>1. /\ a.lines \in Seq(Texts) /\ a.cells \in Seq(Char) /\ a.col \in Nat
      /\ Len(a.cells) \in Nat /\ MaxCells \in Nat
      /\ a.col <= Len(a.cells) /\ Len(a.cells) <= MaxCells
  BY LogTailAssumption DEF IsLine, Lines, Texts
<1>2. cells \in Seq(Char) /\ col \in Nat /\ col <= Len(cells) /\ Len(cells) <= MaxCells
  <2>1. CASE c = NL
    BY <1>1, <2>1 DEF CellsAfter, ColAfter
  <2>2. CASE c # NL /\ c = CR
    BY <1>1, <2>2 DEF CellsAfter, ColAfter
  <2>3. CASE c # NL /\ c # CR /\ a.col < Len(a.cells)
    <3>1. a.col + 1 \in 1..Len(a.cells) /\ a.col + 1 <= Len(a.cells) /\ a.col + 1 \in Nat
      BY <1>1, <2>3
    <3>2. cells = [a.cells EXCEPT ![a.col + 1] = c] /\ col = a.col + 1
      BY <2>3 DEF CellsAfter, ColAfter
    <3>3. cells \in Seq(Char) /\ Len(cells) = Len(a.cells)
      BY <1>1, <3>1, <3>2, ExceptSeq
    <3> QED BY <1>1, <3>1, <3>2, <3>3
  <2>4. CASE c # NL /\ c # CR /\ ~(a.col < Len(a.cells)) /\ Len(a.cells) < MaxCells
    <3>1. cells = Append(a.cells, c) /\ col = a.col + 1
      BY <2>4 DEF CellsAfter, ColAfter
    <3>2. cells \in Seq(Char) /\ Len(cells) = Len(a.cells) + 1
      BY <1>1, <3>1, AppendProperties
    <3>3. a.col + 1 <= Len(a.cells) + 1 /\ Len(a.cells) + 1 <= MaxCells /\ a.col + 1 \in Nat
      BY <1>1, <2>4
    <3> QED BY <3>1, <3>2, <3>3
  <2>5. CASE c # NL /\ c # CR /\ ~(a.col < Len(a.cells)) /\ ~(Len(a.cells) < MaxCells)
    BY <1>1, <2>5 DEF CellsAfter, ColAfter
  <2> QED BY <2>1, <2>2, <2>3, <2>4, <2>5
<1> HIDE DEF cells, col
<1>3. (IF c = NL THEN Append(a.lines, a.cells) ELSE a.lines) \in Seq(Texts)
  BY <1>1, AppendProperties DEF Texts
<1>4. FeedByte(a, c) = [lines |-> IF c = NL THEN Append(a.lines, a.cells) ELSE a.lines,
                        cells |-> cells, col |-> col]
  BY FeedByteIs DEF cells, col
<1> QED BY <1>2, <1>3, <1>4 DEF IsLine, Lines, Texts

(* Bytes are fed one after the other.                                      *)
LEMMA FeedAppends ==
    ASSUME NEW a
    PROVE  /\ FeedBytes(a, <<>>) = a
           /\ \A s \in Texts : \A c \in Char :
                FeedBytes(a, Append(s, c)) = FeedByte(FeedBytes(a, s), c)
<1>1. FeedBytes(a, <<>>) = a
  <2>1. <<>> \in Seq(Char)
    OBVIOUS
  <2>2. FeedBytes(a, <<>>) = FoldOf("byte", a, <<>>)
    BY <2>1, FoldsAre
  <2>3. DOMAIN <<>> = {}
    OBVIOUS
  <2> QED BY <2>2, <2>3, FoldOfNone
<1>2. ASSUME NEW s \in Texts, NEW c \in Char
      PROVE  FeedBytes(a, Append(s, c)) = FeedByte(FeedBytes(a, s), c)
  <2>1. s \in Seq(Char) /\ Append(s, c) \in Seq(Char)
    BY AppendProperties DEF Texts
  <2>2. FeedBytes(a, s) = FoldOf("byte", a, s) /\ FeedBytes(a, Append(s, c)) = FoldOf("byte", a, Append(s, c))
    BY <2>1, FoldsAre
  <2>3. FoldOf("byte", a, Append(s, c)) = StepOf("byte", FoldOf("byte", a, s), c)
    BY <2>1, FoldAppends
  <2> QED BY <2>2, <2>3 DEF StepOf
<1> QED BY <1>1, <1>2

(* And keep a line one.                                                    *)
LEMMA FeedKeeps ==
    ASSUME NEW a, IsLine(a), NEW s \in Texts
    PROVE  IsLine(FeedBytes(a, s))
<1> DEFINE Good == {t \in Texts : IsLine(FeedBytes(a, t))}
<1>1. <<>> \in Good
  BY FeedAppends DEF Texts
<1>2. ASSUME NEW t \in Seq(Char), NEW c \in Char, t \in Good PROVE Append(t, c) \in Good
  <2>1. IsLine(FeedBytes(a, t)) /\ t \in Texts /\ Append(t, c) \in Texts
    BY <1>2, AppendProperties DEF Texts
  <2>2. FeedBytes(a, Append(t, c)) = FeedByte(FeedBytes(a, t), c)
    BY <2>1, FeedAppends
  <2>3. IsLine(FeedByte(FeedBytes(a, t), c))
    BY <2>1, FeedByteKeeps
  <2> QED BY <2>1, <2>2, <2>3
<1> HIDE DEF Good
<1>3. Seq(Char) \subseteq Good
  BY <1>1, <1>2, SequencesGrow
<1> QED BY <1>3 DEF Good, Texts

(* A text fed in two parts is fed.                                         *)
LEMMA FeedConcat ==
    ASSUME NEW a, NEW s \in Texts, NEW t \in Texts
    PROVE  FeedBytes(a, s \o t) = FeedBytes(FeedBytes(a, s), t)
<1> DEFINE Good == {u \in Texts : FeedBytes(a, s \o u) = FeedBytes(FeedBytes(a, s), u)}
<1>1. <<>> \in Good
  <2>1. s \o <<>> = s /\ <<>> \in Texts
    BY ConcatEmptySeq DEF Texts
  <2>2. FeedBytes(FeedBytes(a, s), <<>>) = FeedBytes(a, s)
    BY FeedAppends
  <2> QED BY <2>1, <2>2
<1>2. ASSUME NEW u \in Seq(Char), NEW c \in Char, u \in Good PROVE Append(u, c) \in Good
  <2>1. u \in Texts /\ Append(u, c) \in Texts /\ s \o u \in Texts
    BY <1>2, AppendProperties, ConcatProperties DEF Texts
  <2>2. s \o Append(u, c) = Append(s \o u, c)
    <3>1. <<c>> \in Seq(Char)
      OBVIOUS
    <3>2. (s \o u) \o <<c>> = s \o (u \o <<c>>)
      BY <3>1, ConcatAssociative DEF Texts
    <3>3. Append(u, c) = u \o <<c>>
      BY AppendIsConcat
    <3>4. Append(s \o u, c) = (s \o u) \o <<c>>
      BY <2>1, AppendIsConcat DEF Texts
    <3> QED BY <3>2, <3>3, <3>4
  <2>3. FeedBytes(a, Append(s \o u, c)) = FeedByte(FeedBytes(a, s \o u), c)
    BY <2>1, FeedAppends
  <2>4. FeedBytes(FeedBytes(a, s), Append(u, c)) = FeedByte(FeedBytes(FeedBytes(a, s), u), c)
    BY <2>1, FeedAppends
  <2>5. FeedBytes(a, s \o u) = FeedBytes(FeedBytes(a, s), u)
    BY <1>2
  <2> QED BY <2>1, <2>2, <2>3, <2>4, <2>5
<1> HIDE DEF Good
<1>3. Seq(Char) \subseteq Good
  BY <1>1, <1>2, SequencesGrow
<1> QED BY <1>3 DEF Good, Texts

(* Of the lines before it the assembler knows nothing: they are only added *)
(* to.                                                                     *)
LEMMA FeedAddsLines ==
    ASSUME NEW a, IsLine(a), NEW b, IsLine(b), b.lines = <<>>, a.cells = b.cells, a.col = b.col,
           NEW text \in Texts
    PROVE  LET x == FeedBytes(a, text)  y == FeedBytes(b, text)
           IN  x.lines = a.lines \o y.lines /\ x.cells = y.cells /\ x.col = y.col
<1> DEFINE X(t) == FeedBytes(a, t)
           Y(t) == FeedBytes(b, t)
           Same(t) == X(t).lines = a.lines \o Y(t).lines /\ X(t).cells = Y(t).cells /\ X(t).col = Y(t).col
           Good == {t \in Texts : Same(t)}
<1>1. a.lines \in Seq(Texts)
  BY DEF IsLine, Lines
<1>2. <<>> \in Good
  <2>1. X(<<>>) = a /\ Y(<<>>) = b
    BY FeedAppends
  <2>2. a.lines \o b.lines = a.lines
    BY <1>1, ConcatEmptySeq
  <2> HIDE DEF X, Y
  <2>3. Same(<<>>)
    BY <2>1, <2>2
  <2>4. <<>> \in Texts
    BY DEF Texts
  <2> HIDE DEF Same
  <2> QED BY <2>3, <2>4
<1>3. ASSUME NEW t \in Seq(Char), NEW c \in Char, t \in Good PROVE Append(t, c) \in Good
  <2>1. t \in Texts /\ Append(t, c) \in Texts
    BY AppendProperties DEF Texts
  <2>2. IsLine(X(t)) /\ IsLine(Y(t))
    BY <2>1, FeedKeeps
  <2>3. X(Append(t, c)) = FeedByte(X(t), c) /\ Y(Append(t, c)) = FeedByte(Y(t), c)
    BY <2>1, FeedAppends
  <2> DEFINE u == Append(t, c)
             x == X(t)
             y == Y(t)
  <2>4. x.lines = a.lines \o y.lines /\ x.cells = y.cells /\ x.col = y.col
    BY <1>3
  <2>5. y.lines \in Seq(Texts) /\ y.cells \in Texts
    BY <2>2 DEF IsLine, Lines
  <2>6. Append(a.lines \o y.lines, y.cells) = a.lines \o Append(y.lines, y.cells)
    <3> HIDE DEF y
    <3>1. a.lines \o y.lines \in Seq(Texts) /\ <<y.cells>> \in Seq(Texts)
      BY <1>1, <2>5, ConcatProperties
    <3>0. \A p, q, r \in Seq(Texts) : (p \o q) \o r = p \o (q \o r)
      BY ConcatAssociative
    <3>2. (a.lines \o y.lines) \o <<y.cells>> = a.lines \o (y.lines \o <<y.cells>>)
      BY <1>1, <2>5, <3>1, <3>0
    <3>3. Append(y.lines, y.cells) = y.lines \o <<y.cells>>
      BY <2>5, AppendIsConcat
    <3>4. Append(a.lines \o y.lines, y.cells) = (a.lines \o y.lines) \o <<y.cells>>
      BY <2>5, <3>1, AppendIsConcat
    <3> QED BY <3>2, <3>3, <3>4
  <2> HIDE DEF X, Y
  <2>7. /\ X(u) = [lines |-> IF c = NL THEN Append(x.lines, x.cells) ELSE x.lines,
                   cells |-> CellsAfter(x.cells, x.col, c), col |-> ColAfter(x.cells, x.col, c)]
        /\ Y(u) = [lines |-> IF c = NL THEN Append(y.lines, y.cells) ELSE y.lines,
                   cells |-> CellsAfter(y.cells, y.col, c), col |-> ColAfter(y.cells, y.col, c)]
    BY <2>2, <2>3, FeedByteIs
  <2> HIDE DEF x, y, u
  <2>8. X(u).lines = a.lines \o Y(u).lines
    <3>1. /\ X(u).lines = IF c = NL THEN Append(x.lines, x.cells) ELSE x.lines
          /\ Y(u).lines = IF c = NL THEN Append(y.lines, y.cells) ELSE y.lines
      BY <2>7
    <3>2. Append(x.lines, x.cells) = a.lines \o Append(y.lines, y.cells)
      BY <2>4, <2>6
    <3>3. CASE c = NL
      <4>1. X(u).lines = Append(x.lines, x.cells) /\ Y(u).lines = Append(y.lines, y.cells)
        BY <3>1, <3>3
      <4> QED BY <3>2, <4>1
    <3>4. CASE c # NL
      BY <2>4, <3>1, <3>4
    <3> QED BY <3>3, <3>4
  <2>9. X(u).cells = Y(u).cells /\ X(u).col = Y(u).col
    BY <2>4, <2>7
  <2>10. Same(u)
    BY <2>8, <2>9
  <2> HIDE DEF Same
  <2> QED BY <2>1, <2>10 DEF u
<1> HIDE DEF Good
<1>4. Seq(Char) \subseteq Good
  BY <1>2, <1>3, SequencesGrow
<1>5. text \in Good
  BY <1>4 DEF Texts
<1> QED BY <1>5 DEF Good

-----------------------------------------------------------------------------
(* The fast path of feed. *)

(* str.split, one byte after the other.                                    *)
LEMMA PartsAppend ==
    /\ Parts(<<>>) = << <<>> >>
    /\ \A s \in Texts : \A c \in Char : Parts(Append(s, c)) = PartStep(Parts(s), c)
<1>1. Parts(<<>>) = << <<>> >>
  <2>1. <<>> \in Seq(Char) /\ DOMAIN <<>> = {}
    OBVIOUS
  <2>2. Parts(<<>>) = FoldOf("part", << <<>> >>, <<>>)
    BY <2>1, FoldsAre
  <2> QED BY <2>1, <2>2, FoldOfNone
<1>2. ASSUME NEW s \in Texts, NEW c \in Char PROVE Parts(Append(s, c)) = PartStep(Parts(s), c)
  <2>1. s \in Seq(Char) /\ Append(s, c) \in Seq(Char)
    BY AppendProperties DEF Texts
  <2>2. Parts(s) = FoldOf("part", << <<>> >>, s) /\ Parts(Append(s, c)) = FoldOf("part", << <<>> >>, Append(s, c))
    BY <2>1, FoldsAre
  <2>3. FoldOf("part", << <<>> >>, Append(s, c)) = StepOf("part", FoldOf("part", << <<>> >>, s), c)
    BY <2>1, FoldAppends
  <2> QED BY <2>2, <2>3 DEF StepOf
<1> QED BY <1>1, <1>2

(* What the last part takes.                                               *)
LEMMA PartStepIs ==
    ASSUME NEW parts \in Seq(Texts), Len(parts) > 0, NEW c \in Char
    PROVE  /\ PartStep(parts, c) \in Seq(Texts)
           /\ c = NL => /\ Len(PartStep(parts, c)) = Len(parts) + 1
                        /\ \A i \in 1..Len(parts) : PartStep(parts, c)[i] = parts[i]
                        /\ PartStep(parts, c)[Len(parts) + 1] = <<>>
           /\ c # NL => /\ Len(PartStep(parts, c)) = Len(parts)
                        /\ \A i \in 1..Len(parts) : i # Len(parts) => PartStep(parts, c)[i] = parts[i]
                        /\ PartStep(parts, c)[Len(parts)] = Append(parts[Len(parts)], c)
<1> DEFINE n == Len(parts)
<1>1. n \in Nat /\ n \in 1..n
  BY LenProperties
<1>2. CASE c = NL
  <2>1. PartStep(parts, c) = Append(parts, <<>>) /\ <<>> \in Texts
    BY <1>2 DEF PartStep, Texts
  <2> QED BY <1>2, <2>1, AppendProperties
<1>3. CASE c # NL
  <2>1. PartStep(parts, c) = [parts EXCEPT ![n] = Append(parts[n], c)]
    BY <1>3 DEF PartStep
  <2>2. Append(parts[n], c) \in Texts
    <3>1. parts[n] \in Seq(Char)
      BY <1>1, ElementOfSeq DEF Texts
    <3> QED BY <3>1, AppendProperties DEF Texts
  <2> QED BY <1>1, <1>3, <2>1, <2>2, ExceptSeq
<1> QED BY <1>2, <1>3

(* A text has at least one part.                                           *)
LEMMA PartsType ==
    ASSUME NEW s \in Texts
    PROVE  Parts(s) \in Seq(Texts) /\ Len(Parts(s)) > 0
<1> DEFINE Good == {t \in Texts : Parts(t) \in Seq(Texts) /\ Len(Parts(t)) > 0}
<1>1. <<>> \in Good
  <2>1. << <<>> >> \in Seq(Texts) /\ Len(<< <<>> >>) > 0 /\ <<>> \in Texts
    BY DEF Texts
  <2> QED BY <2>1, PartsAppend
<1>2. ASSUME NEW t \in Seq(Char), NEW c \in Char, t \in Good PROVE Append(t, c) \in Good
  <2>1. t \in Texts /\ Append(t, c) \in Texts /\ Parts(t) \in Seq(Texts) /\ Len(Parts(t)) > 0
    BY <1>2, AppendProperties DEF Texts
  <2>2. Parts(Append(t, c)) = PartStep(Parts(t), c)
    BY <2>1, PartsAppend
  <2>3. PartStep(Parts(t), c) \in Seq(Texts)
    BY <2>1, PartStepIs
  <2>4. Len(PartStep(Parts(t), c)) = Len(Parts(t)) + 1 \/ Len(PartStep(Parts(t), c)) = Len(Parts(t))
    BY <2>1, PartStepIs
  <2>5. Len(Parts(t)) \in Nat
    BY <2>1, LenProperties
  <2>6. Len(PartStep(Parts(t), c)) > 0
    BY <2>1, <2>4, <2>5
  <2> QED BY <2>1, <2>2, <2>3, <2>6
<1> HIDE DEF Good
<1>3. Seq(Char) \subseteq Good
  BY <1>1, <1>2, SequencesGrow
<1> QED BY <1>3 DEF Good, Texts

(* What the cap leaves of a line.                                          *)
LEMMA ClipIs ==
    ASSUME NEW s \in Texts
    PROVE  /\ Clip(s) \in Texts /\ Len(Clip(s)) <= MaxCells /\ Len(Clip(s)) <= Len(s)
           /\ Len(s) <= MaxCells => Clip(s) = s
           /\ ~(Len(s) <= MaxCells) => Len(Clip(s)) = MaxCells
           /\ \A i \in 1..Len(Clip(s)) : Clip(s)[i] = s[i]
<1> DEFINE m == Min({Len(s), MaxCells})
<1>1. s \in Seq(Char) /\ Len(s) \in Nat /\ MaxCells \in Nat
  BY LogTailAssumption, LenProperties DEF Texts
<1>2. m \in {Len(s), MaxCells} /\ m <= Len(s) /\ m <= MaxCells
  <2>1. \A x, y \in Nat : Min({x, y}) \in {x, y} /\ Min({x, y}) <= x /\ Min({x, y}) <= y
    <3>1. \A x \in Nat : x \in Int
      OBVIOUS
    <3> QED BY <3>1, MinOfTwo
  <2> QED BY <1>1, <2>1
<1>3. m \in Nat /\ (Len(s) <= MaxCells => m = Len(s)) /\ (~(Len(s) <= MaxCells) => m = MaxCells)
  BY <1>1, <1>2
<1> HIDE DEF m
<1>4. Clip(s) = SubSeq(s, 1, m)
  BY DEF Clip, m
<1>5. \A i \in 1..m : s[i] \in Char
  <2>1. \A i \in 1..m : i \in 1..Len(s)
    BY <1>1, <1>2, <1>3
  <2> QED BY <1>1, <2>1, ElementOfSeq
<1>6. /\ Clip(s) \in Seq(Char) /\ Len(Clip(s)) = IF 1 <= m THEN m - 1 + 1 ELSE 0
      /\ \A i \in 1..(m - 1 + 1) : Clip(s)[i] = s[1 + i - 1]
  BY <1>3, <1>4, <1>5, SubSeqProperties
<1>7. Len(Clip(s)) = m /\ m - 1 + 1 = m /\ \A i \in 1..m : 1 + i - 1 = i
  BY <1>3, <1>6
<1>8. \A i \in 1..m : Clip(s)[i] = s[i]
  BY <1>6, <1>7
<1>9. Len(s) <= MaxCells => Clip(s) = s
  BY <1>1, <1>3, <1>4, SubSeqFull
<1> QED BY <1>2, <1>3, <1>6, <1>7, <1>8, <1>9 DEF Texts

(* One cell more is one cell more of what is left, or nothing.             *)
LEMMA ClipAppends ==
    ASSUME NEW s \in Texts, NEW c \in Char
    PROVE  Clip(Append(s, c)) = IF Len(Clip(s)) < MaxCells THEN Append(Clip(s), c) ELSE Clip(s)
<1>1. s \in Seq(Char) /\ Len(s) \in Nat /\ MaxCells \in Nat
  BY LogTailAssumption, LenProperties DEF Texts
<1> DEFINE t == Append(s, c)
<1>2. /\ t \in Texts /\ Len(t) = Len(s) + 1 /\ \A i \in 1..Len(s) : t[i] = s[i]
  BY <1>1, AppendProperties DEF Texts
<1> HIDE DEF t
<1>3. CASE Len(s) < MaxCells
  <2>1. Clip(s) = s /\ Clip(t) = t
    BY <1>1, <1>2, <1>3, ClipIs
  <2> QED BY <1>3, <2>1 DEF t
<1>4. CASE ~(Len(s) < MaxCells)
  <2>1. /\ Clip(s) \in Texts /\ Clip(t) \in Texts
        /\ \A i \in 1..Len(Clip(s)) : Clip(s)[i] = s[i]
        /\ \A i \in 1..Len(Clip(t)) : Clip(t)[i] = t[i]
        /\ Len(s) <= MaxCells => Clip(s) = s
        /\ ~(Len(s) <= MaxCells) => Len(Clip(s)) = MaxCells
        /\ ~(Len(t) <= MaxCells) => Len(Clip(t)) = MaxCells
    BY <1>2, ClipIs
  <2>2. Len(Clip(s)) = MaxCells
    <3>1. CASE Len(s) <= MaxCells
      BY <1>1, <1>4, <2>1, <3>1
    <3> QED BY <2>1, <3>1
  <2>3. ~(Len(t) <= MaxCells)
    BY <1>1, <1>2, <1>4
  <2>4. \A i \in 1..MaxCells : i \in 1..Len(s)
    BY <1>1, <1>4
  <2>5. \A i \in 1..MaxCells : Clip(t)[i] = Clip(s)[i]
    BY <1>2, <2>1, <2>2, <2>3, <2>4
  <2>6. Clip(s) = Clip(t)
    BY <2>1, <2>2, <2>3, <2>5, SeqEqual DEF Texts
  <2>7. ~(Len(Clip(s)) < MaxCells)
    BY <1>1, <2>2
  <2> QED BY <2>6, <2>7 DEF t
<1> QED BY <1>3, <1>4

Row(a, parts, i) == IF i = 1 THEN Clip(a.cells \o parts[1]) ELSE Clip(parts[i])

Plain(a, parts) ==
    [lines |-> a.lines \o [i \in 1..(Len(parts) - 1) |-> Row(a, parts, i)],
     cells |-> Row(a, parts, Len(parts)), col |-> Len(Row(a, parts, Len(parts)))]

(* The fast path, in terms of the parts of the text.                       *)
LEMMA PlainIs ==
    ASSUME NEW a, NEW text
    PROVE  FeedPlain(a, text) = Plain(a, Parts(text))
BY DEF FeedPlain, Plain, Row

(* The cursor of what the fast path makes is at its end.                   *)
LEMMA RowsType ==
    ASSUME NEW a, IsLine(a), NEW parts \in Seq(Texts), Len(parts) > 0
    PROVE  /\ \A i \in 1..Len(parts) : Row(a, parts, i) \in Texts /\ Len(Row(a, parts, i)) <= MaxCells
           /\ IsLine(Plain(a, parts))
<1>1. a.cells \in Texts /\ a.lines \in Seq(Texts)
  BY DEF IsLine, Lines
<1>2. ASSUME NEW i \in 1..Len(parts) PROVE Row(a, parts, i) \in Texts /\ Len(Row(a, parts, i)) <= MaxCells
  <2>1. parts[i] \in Texts
    BY <1>2, ElementOfSeq
  <2>2. i = 1 => a.cells \o parts[1] \in Texts
    BY <1>1, <2>1, ConcatProperties DEF Texts
  <2> QED BY <2>1, <2>2, ClipIs DEF Row
<1> DEFINE n == Len(parts)
           rows == [i \in 1..(n - 1) |-> Row(a, parts, i)]
           last == Row(a, parts, n)
<1>3. n \in Nat /\ n - 1 \in Nat /\ n \in 1..n /\ \A i \in 1..(n - 1) : i \in 1..n
  BY LenProperties
<1>4. rows \in Seq(Texts)
  <2>1. rows \in [1..(n - 1) -> Texts]
    <3> HIDE DEF n
    <3> QED BY <1>2, <1>3 DEF n
  <2> HIDE DEF rows, n
  <2> QED BY <1>3, <2>1, LenIs
<1>5. last \in Texts /\ Len(last) <= MaxCells /\ Len(last) \in Nat /\ Len(last) <= Len(last)
  <2>1. last \in Texts /\ Len(last) <= MaxCells
    BY <1>2, <1>3
  <2> HIDE DEF last
  <2>2. Len(last) \in Nat
    BY <2>1, LenProperties DEF Texts
  <2> QED BY <2>1, <2>2
<1>6. a.lines \o rows \in Seq(Texts)
  <2> HIDE DEF rows
  <2> QED BY <1>1, <1>4, ConcatProperties
<1>7. Plain(a, parts) = [lines |-> a.lines \o rows, cells |-> last, col |-> Len(last)]
  BY DEF Plain
<1> HIDE DEF rows, last
<1> QED BY <1>2, <1>5, <1>6, <1>7 DEF IsLine, Lines

(* The fast path takes a byte as feed does.                                *)
LEMMA PlainStep ==
    ASSUME NEW a, IsLine(a), NEW parts \in Seq(Texts), Len(parts) > 0, NEW c \in Char, c # CR
    PROVE  Plain(a, PartStep(parts, c)) = FeedByte(Plain(a, parts), c)
<1> DEFINE more == PartStep(parts, c)
           n == Len(parts)
           rows == [i \in 1..(n - 1) |-> Row(a, parts, i)]
           last == Row(a, parts, n)
           b == Plain(a, parts)
<1>1. n \in Nat /\ n - 1 \in Nat /\ n \in 1..n /\ n > 0 /\ \A i \in 1..(n - 1) : i \in 1..n
  BY LenProperties
<1>2. b = [lines |-> a.lines \o rows, cells |-> last, col |-> Len(last)] /\ IsLine(b)
  BY RowsType DEF Plain
<1>3. a.cells \in Texts /\ a.lines \in Seq(Texts) /\ last \in Texts /\ Len(last) \in Nat /\ MaxCells \in Nat
      /\ Len(last) <= MaxCells
  <2>1. last \in Texts /\ Len(last) <= MaxCells
    BY <1>1, RowsType
  <2> HIDE DEF last
  <2>2. Len(last) \in Nat
    BY <2>1, LenProperties DEF Texts
  <2> QED BY <2>1, <2>2, LogTailAssumption DEF IsLine, Lines
<1>4. rows \in Seq(Texts) /\ Len(rows) = n - 1 /\ \A i \in 1..(n - 1) : rows[i] = Row(a, parts, i)
  <2>1. \A i \in 1..(n - 1) : Row(a, parts, i) \in Texts
    BY <1>1, RowsType
  <2>2. rows \in [1..(n - 1) -> Texts]
    <3> HIDE DEF n
    <3> QED BY <2>1
  <2>3. \A i \in 1..(n - 1) : rows[i] = Row(a, parts, i)
    OBVIOUS
  <2> HIDE DEF rows, n
  <2> QED BY <1>1, <2>2, <2>3, LenIs
<1>5. CASE c = NL
  <2>1. Len(more) = n + 1 /\ more[n + 1] = <<>> /\ \A i \in 1..n : more[i] = parts[i]
    BY <1>5, PartStepIs
  <2> HIDE DEF more
  <2>2. \A i \in 1..n : Row(a, more, i) = Row(a, parts, i)
    <3>1. 1 \in 1..n
      BY <1>1
    <3>2. more[1] = parts[1]
      BY <2>1, <3>1
    <3> QED BY <2>1, <3>2 DEF Row
  <2>3. Row(a, more, n + 1) = <<>>
    <3>1. n + 1 # 1
      BY <1>1
    <3>2. <<>> \in Texts /\ Len(<<>>) <= MaxCells
      BY <1>3 DEF Texts
    <3> QED BY <2>1, <3>1, <3>2, ClipIs DEF Row
  <2>4. [i \in 1..(n + 1 - 1) |-> Row(a, more, i)] = Append(rows, last)
    <3> DEFINE u == [i \in 1..n |-> Row(a, parts, i)]
               v == Append(rows, last)
    <3>1. n + 1 - 1 = n /\ n - 1 + 1 = n
      BY <1>1
    <3>2. u \in [1..n -> Texts]
      BY RowsType
    <3>3. u \in Seq(Texts) /\ Len(u) = n
      <4> HIDE DEF u, n
      <4> QED BY <1>1, <3>2, LenIs
    <3>4. v \in Seq(Texts) /\ Len(v) = n /\ v[n] = last /\ \A i \in 1..(n - 1) : v[i] = rows[i]
      <4> HIDE DEF rows, last, n
      <4> QED BY <1>3, <1>4, <3>1, AppendProperties
    <3>5. \A i \in 1..n : i = n \/ i \in 1..(n - 1)
      BY <1>1
    <3>6. \A i \in 1..n : u[i] = Row(a, parts, i)
      OBVIOUS
    <3> HIDE DEF u, v
    <3>7. \A i \in 1..n : u[i] = v[i]
      BY <1>4, <3>4, <3>5, <3>6
    <3>8. u = v
      BY <3>3, <3>4, <3>7, SeqEqual
    <3>9. [i \in 1..(n + 1 - 1) |-> Row(a, more, i)] = u
      BY <2>2, <3>1 DEF u
    <3> QED BY <3>8, <3>9 DEF v
  <2>5. Plain(a, more) = [lines |-> a.lines \o Append(rows, last), cells |-> <<>>, col |-> 0]
    <3>1. Len(<<>>) = 0
      OBVIOUS
    <3> DEFINE k == n + 1
           u == [i \in 1..(k - 1) |-> Row(a, more, i)]
           v == Append(rows, last)
    <3>2. Len(more) = k
      BY <2>1
    <3>3. Row(a, more, k) = <<>>
      BY <2>3
    <3>4. u = v
      <4> HIDE DEF rows, last
      <4> QED BY <2>4
    <3>5. Plain(a, more) = [lines |-> a.lines \o u, cells |-> Row(a, more, k), col |-> Len(Row(a, more, k))]
      <4> HIDE DEF k
      <4> QED BY <3>2 DEF Plain
    <3> HIDE DEF k, u, v
    <3>6. Plain(a, more) = [lines |-> a.lines \o v, cells |-> <<>>, col |-> 0]
      BY <3>1, <3>3, <3>4, <3>5
    <3> QED BY <3>6 DEF v
  <2>6. a.lines \o Append(rows, last) = Append(a.lines \o rows, last)
    <3> HIDE DEF rows, last
    <3>0. \A p, q, r \in Seq(Texts) : (p \o q) \o r = p \o (q \o r)
      BY ConcatAssociative
    <3>1. a.lines \o rows \in Seq(Texts) /\ <<last>> \in Seq(Texts)
      BY <1>3, <1>4, ConcatProperties
    <3>2. Append(rows, last) = rows \o <<last>> /\ Append(a.lines \o rows, last) = (a.lines \o rows) \o <<last>>
      BY <1>3, <1>4, <3>1, AppendIsConcat
    <3>3. (a.lines \o rows) \o <<last>> = a.lines \o (rows \o <<last>>)
      BY <1>3, <1>4, <3>0, <3>1
    <3> QED BY <3>2, <3>3
  <2>7. FeedByte(b, c) = [lines |-> Append(a.lines \o rows, last), cells |-> <<>>, col |-> 0]
    <3> HIDE DEF b, rows, last
    <3>1. b.lines = a.lines \o rows /\ b.cells = last
      BY <1>2
    <3> QED BY <1>2, <1>5, <3>1, FeedByteIs DEF CellsAfter, ColAfter
  <2> QED BY <2>5, <2>6, <2>7 DEF more
<1>6. CASE c # NL
  <2>1. /\ Len(more) = n /\ more[n] = Append(parts[n], c)
        /\ \A i \in 1..n : i # n => more[i] = parts[i]
    BY <1>6, PartStepIs
  <2> HIDE DEF more
  <2>2. \A i \in 1..(n - 1) : Row(a, more, i) = Row(a, parts, i)
    <3>1. \A i \in 1..(n - 1) : more[i] = parts[i]
      BY <1>1, <2>1
    <3> QED BY <3>1 DEF Row
  <2> DEFINE w == IF n = 1 THEN a.cells \o parts[1] ELSE parts[n]
  <2>3. w \in Texts /\ last = Clip(w)
    <3>1. parts[n] \in Texts
      BY <1>1, ElementOfSeq
    <3>2. n = 1 => a.cells \o parts[1] \in Texts
      BY <1>3, <3>1, ConcatProperties DEF Texts
    <3> QED BY <3>1, <3>2 DEF Row
  <2>4. Row(a, more, n) = Clip(Append(w, c))
    <3>1. CASE n = 1
      <4>1. a.cells \in Seq(Char) /\ parts[1] \in Seq(Char) /\ <<c>> \in Seq(Char)
        <5>1. 1 \in 1..Len(parts)
          BY <1>1
        <5>2. parts[1] \in Texts
          BY <5>1, ElementOfSeq
        <5>3. <<c>> \in Seq(Char)
          OBVIOUS
        <5> QED BY <1>3, <5>2, <5>3 DEF Texts
      <4>2. Append(parts[1], c) = parts[1] \o <<c>>
        BY <4>1, AppendIsConcat
      <4>3. a.cells \o parts[1] \in Seq(Char)
        BY <4>1, ConcatProperties
      <4>4. Append(a.cells \o parts[1], c) = (a.cells \o parts[1]) \o <<c>>
        BY <4>3, AppendIsConcat
      <4>5. \A p, q, r \in Seq(Char) : (p \o q) \o r = p \o (q \o r)
        BY ConcatAssociative
      <4>8. (a.cells \o parts[1]) \o <<c>> = a.cells \o (parts[1] \o <<c>>)
        BY <4>1, <4>5
      <4>6. a.cells \o Append(parts[1], c) = Append(a.cells \o parts[1], c)
        BY <4>2, <4>4, <4>8
      <4>7. more[1] = Append(parts[1], c)
        BY <2>1, <3>1
      <4> QED BY <3>1, <4>6, <4>7 DEF Row
    <3>2. CASE n # 1
      BY <2>1, <3>2 DEF Row
    <3> QED BY <3>1, <3>2
  <2> HIDE DEF w
  <2>5. Clip(Append(w, c)) = IF Len(last) < MaxCells THEN Append(last, c) ELSE last
    BY <2>3, ClipAppends
  <2>6. Plain(a, more) = [lines |-> a.lines \o rows, cells |-> Clip(Append(w, c)), col |-> Len(Clip(Append(w, c)))]
    BY <2>1, <2>2, <2>4 DEF Plain
  <2>7. CellsAfter(last, Len(last), c) = IF Len(last) < MaxCells THEN Append(last, c) ELSE last
    <3>1. ~(Len(last) < Len(last))
      BY <1>3
    <3> QED BY <1>6, <3>1 DEF CellsAfter
  <2>8. ColAfter(last, Len(last), c) = Len(Clip(Append(w, c)))
    <3> HIDE DEF last
    <3>1. Len(Append(last, c)) = Len(last) + 1
      BY <1>3, AppendProperties DEF Texts
    <3>2. ~(Len(last) < Len(last))
      BY <1>3
    <3>3. CASE Len(last) < MaxCells
      BY <1>6, <2>5, <3>1, <3>3 DEF ColAfter
    <3>4. CASE ~(Len(last) < MaxCells)
      BY <1>6, <2>5, <3>2, <3>4 DEF ColAfter
    <3> QED BY <3>3, <3>4
  <2>9. FeedByte(b, c) = [lines |-> a.lines \o rows, cells |-> CellsAfter(last, Len(last), c),
                          col |-> ColAfter(last, Len(last), c)]
    <3> HIDE DEF b, rows, last
    <3>1. b.lines = a.lines \o rows /\ b.cells = last /\ b.col = Len(last)
      BY <1>2
    <3> QED BY <1>2, <1>6, <3>1, FeedByteIs
  <2> QED BY <2>5, <2>6, <2>7, <2>8, <2>9 DEF more
<1> QED BY <1>5, <1>6

(* Text that goes through the fast path becomes what it would byte by byte.*)
THEOREM FastPath ==
    ASSUME NEW a, IsLine(a), NEW text \in Texts
    PROVE  Feed(a, text) = FeedBytes(a, text)
<1> SUFFICES ASSUME CR \notin Range(text), a.col = Len(a.cells)
             PROVE  FeedPlain(a, text) = FeedBytes(a, text)
  BY DEF Feed
<1> DEFINE Good == {t \in Texts : CR \notin Range(t) => FeedPlain(a, t) = FeedBytes(a, t)}
<1>0. a = [lines |-> a.lines, cells |-> a.cells, col |-> a.col] /\ a.cells \in Texts /\ a.lines \in Seq(Texts)
      /\ Len(a.cells) <= MaxCells
  BY DEF IsLine, Lines
<1>1. <<>> \in Good
  <2>1. FeedBytes(a, <<>>) = a /\ Parts(<<>>) = << <<>> >> /\ <<>> \in Texts
    BY FeedAppends, PartsAppend DEF Texts
  <2>2. Row(a, << <<>> >>, 1) = a.cells
    <3>1. a.cells \o <<>> = a.cells
      BY <1>0, ConcatEmptySeq DEF Texts
    <3>2. Clip(a.cells) = a.cells
      BY <1>0, ClipIs
    <3> QED BY <3>1, <3>2 DEF Row
  <2>3. a.lines \o [i \in 1..0 |-> Row(a, << <<>> >>, i)] = a.lines
    <3>1. [i \in 1..0 |-> Row(a, << <<>> >>, i)] = <<>>
      OBVIOUS
    <3> QED BY <1>0, <3>1, ConcatEmptySeq
  <2>4. Plain(a, << <<>> >>) = [lines |-> a.lines, cells |-> a.cells, col |-> Len(a.cells)]
    <3>1. Len(<< <<>> >>) = 1 /\ 1 - 1 = 0
      OBVIOUS
    <3> QED BY <2>2, <2>3, <3>1 DEF Plain
  <2> QED BY <1>0, <2>1, <2>4, PlainIs
<1>2. ASSUME NEW t \in Seq(Char), NEW c \in Char, t \in Good PROVE Append(t, c) \in Good
  <2>1. t \in Texts /\ Append(t, c) \in Texts
    BY AppendProperties DEF Texts
  <2>2. ASSUME CR \notin Range(Append(t, c)) PROVE CR \notin Range(t) /\ c # CR
    <3>1. /\ DOMAIN t = 1..Len(t) /\ DOMAIN Append(t, c) = 1..(Len(t) + 1) /\ Len(t) \in Nat
          /\ \A i \in 1..Len(t) : Append(t, c)[i] = t[i]
          /\ Append(t, c)[Len(t) + 1] = c
      BY LenProperties, AppendProperties
    <3>2. \A i \in 1..Len(t) : i \in 1..(Len(t) + 1)
      BY <3>1
    <3>3. Len(t) + 1 \in 1..(Len(t) + 1)
      BY <3>1
    <3> QED BY <2>2, <3>1, <3>2, <3>3 DEF Range
  <2>3. ASSUME CR \notin Range(Append(t, c)) PROVE FeedPlain(a, Append(t, c)) = FeedBytes(a, Append(t, c))
    <3>1. FeedPlain(a, t) = FeedBytes(a, t) /\ c # CR
      BY <1>2, <2>2, <2>3
    <3>2. Parts(Append(t, c)) = PartStep(Parts(t), c) /\ Parts(t) \in Seq(Texts) /\ Len(Parts(t)) > 0
      BY <2>1, PartsAppend, PartsType
    <3>3. Plain(a, PartStep(Parts(t), c)) = FeedByte(Plain(a, Parts(t)), c)
      BY <3>1, <3>2, PlainStep
    <3>4. FeedBytes(a, Append(t, c)) = FeedByte(FeedBytes(a, t), c)
      BY <2>1, FeedAppends
    <3> QED BY <3>1, <3>2, <3>3, <3>4, PlainIs
  <2> QED BY <2>1, <2>3
<1> HIDE DEF Good
<1>3. Seq(Char) \subseteq Good
  BY <1>1, <1>2, SequencesGrow
<1> QED BY <1>3 DEF Good, Texts

(* Wherever the reads and their chunks cut a file in two, even inside a    *)
(* line or between a carriage return and what it goes back over, and       *)
(* whichever of the two paths each part takes, the rows are those of one   *)
(* pass over the whole.                                                    *)
THEOREM ReadInPieces ==
    ASSUME NEW a, IsLine(a), NEW s \in Texts, NEW t \in Texts
    PROVE  Feed(Feed(a, s), t) = Feed(a, s \o t)
<1>1. Feed(a, s) = FeedBytes(a, s) /\ IsLine(FeedBytes(a, s))
  BY FastPath, FeedKeeps
<1>2. Feed(FeedBytes(a, s), t) = FeedBytes(FeedBytes(a, s), t)
  BY <1>1, FastPath
<1>3. s \o t \in Texts
  BY ConcatProperties DEF Texts
<1>4. Feed(a, s \o t) = FeedBytes(a, s \o t)
  BY <1>3, FastPath
<1> QED BY <1>1, <1>2, <1>4, FeedConcat

-----------------------------------------------------------------------------
(* Ends of sequences. *)

(* What a suffix is, place by place.                                       *)
LEMMA SuffixIs ==
    ASSUME NEW X, NEW s \in Seq(X), NEW t \in Seq(X)
    PROVE  IsSuffix(s, t) <=> /\ Len(s) <= Len(t)
                              /\ \A i \in 1..Len(s) : s[i] = t[Len(t) - Len(s) + i]
<1> DEFINE m == Len(s)
           n == Len(t)
           r == Reverse(s)
           q == Reverse(t)
<1>1. m \in Nat /\ n \in Nat /\ s \in [1..m -> X] /\ t \in [1..n -> X]
  BY LenProperties
<1>2. \A i \in 1..m : m - i + 1 \in 1..m
  BY <1>1
<1>3. \A i \in 1..n : n - i + 1 \in 1..n
  BY <1>1
<1>4. r \in [1..m -> X] /\ \A i \in 1..m : r[i] = s[m - i + 1]
  BY <1>1, <1>2 DEF Reverse
<1>5. q \in [1..n -> X] /\ \A i \in 1..n : q[i] = t[n - i + 1]
  BY <1>1, <1>3 DEF Reverse
<1> HIDE DEF m, n, r, q
<1>6. r \in Seq(X) /\ Len(r) = m /\ q \in Seq(X) /\ Len(q) = n
  BY <1>1, <1>4, <1>5, LenIs
<1>7. IsSuffix(s, t) <=> m <= n /\ SubSeq(r, 1, m) = SubSeq(q, 1, m)
  BY <1>6 DEF IsSuffix, IsPrefix, r, q
<1>8. ASSUME m <= n
      PROVE  SubSeq(r, 1, m) = SubSeq(q, 1, m) <=> \A i \in 1..m : s[i] = t[n - m + i]
  <2>1. SubSeq(r, 1, m) = [i \in 1..m |-> r[i]] /\ SubSeq(q, 1, m) = [i \in 1..m |-> q[i]]
    <3>1. m <= m
      BY <1>1
    <3> QED BY <1>1, <1>4, <1>5, <1>8, <3>1, Prefix
  <2>2. SubSeq(r, 1, m) = SubSeq(q, 1, m) <=> \A i \in 1..m : r[i] = q[i]
    BY <2>1
  <2>3. \A i \in 1..m : i \in 1..n
    BY <1>1, <1>8
  <2>4. \A i \in 1..m : r[i] = s[m - i + 1] /\ q[i] = t[n - i + 1]
    BY <1>4, <1>5, <2>3
  <2>5. \A i \in 1..m : m - (m - i + 1) + 1 = i /\ n - (m - i + 1) + 1 = n - m + i
                        /\ n - m + (m - i + 1) = n - i + 1
    BY <1>1
  <2>6. ASSUME \A i \in 1..m : r[i] = q[i], NEW i \in 1..m PROVE s[i] = t[n - m + i]
    <3> DEFINE j == m - i + 1
    <3>1. j \in 1..m /\ m - j + 1 = i /\ n - j + 1 = n - m + i
      BY <1>2, <2>5
    <3> HIDE DEF j
    <3>2. r[j] = s[m - j + 1] /\ q[j] = t[n - j + 1] /\ r[j] = q[j]
      BY <2>4, <2>6, <3>1
    <3> QED BY <3>1, <3>2
  <2>7. ASSUME \A i \in 1..m : s[i] = t[n - m + i], NEW i \in 1..m PROVE r[i] = q[i]
    <3> DEFINE j == m - i + 1
    <3>1. j \in 1..m /\ n - m + j = n - i + 1
      BY <1>2, <2>5
    <3>2. r[i] = s[j]
      BY <2>4
    <3> HIDE DEF j
    <3>3. s[j] = t[n - m + j]
      BY <2>7, <3>1
    <3>4. q[i] = t[n - i + 1]
      BY <2>4
    <3> QED BY <3>1, <3>2, <3>3, <3>4
  <2> QED BY <2>2, <2>6, <2>7
<1> QED BY <1>7, <1>8 DEF m, n

(* Suffixes grow with what they are suffixes of.                           *)
LEMMA SuffixGrows ==
    ASSUME NEW X, NEW s \in Seq(X), NEW t \in Seq(X), IsSuffix(s, t), NEW u \in Seq(X)
    PROVE  IsSuffix(s \o u, t \o u)
<1> DEFINE l == Len(s)
           m == Len(t)
           n == Len(u)
           a == s \o u
           b == t \o u
<1>1. l \in Nat /\ m \in Nat /\ n \in Nat
  BY LenProperties
<1>2. l <= m /\ \A i \in 1..l : s[i] = t[m - l + i]
  BY SuffixIs
<1>3. /\ a \in Seq(X) /\ Len(a) = l + n
      /\ \A i \in 1..(l + n) : a[i] = IF i <= l THEN s[i] ELSE u[i - l]
  BY ConcatProperties
<1>4. /\ b \in Seq(X) /\ Len(b) = m + n
      /\ \A i \in 1..(m + n) : b[i] = IF i <= m THEN t[i] ELSE u[i - m]
  BY ConcatProperties
<1> HIDE DEF a, b, l, m, n
<1>5. ASSUME NEW i \in 1..(l + n) PROVE a[i] = b[(m + n) - (l + n) + i]
  <2>1. (m + n) - (l + n) + i = m - l + i /\ m - l + i \in 1..(m + n) /\ m - l + i - m = i - l
    BY <1>1, <1>2
  <2>2. CASE i <= l
    <3>1. i \in 1..l /\ m - l + i <= m
      BY <1>1, <2>2
    <3>2. a[i] = s[i] /\ b[m - l + i] = t[m - l + i]
      BY <1>3, <1>4, <2>1, <2>2, <3>1
    <3> QED BY <1>2, <2>1, <3>1, <3>2
  <2>3. CASE ~(i <= l)
    <3>1. ~(m - l + i <= m)
      BY <1>1, <2>3
    <3>2. a[i] = u[i - l]
      BY <1>3, <2>3
    <3>3. b[m - l + i] = u[m - l + i - m]
      <4> DEFINE j == m - l + i
      <4>1. j \in 1..(m + n) /\ ~(j <= m)
        BY <2>1, <3>1
      <4> HIDE DEF j
      <4>2. b[j] = u[j - m]
        BY <1>4, <4>1
      <4> QED BY <1>1, <4>2 DEF j
    <3> QED BY <2>1, <3>2, <3>3
  <2> QED BY <2>2, <2>3
<1>6. l + n <= m + n
  BY <1>1, <1>2
<1>7. IsSuffix(a, b)
  BY <1>3, <1>4, <1>5, <1>6, SuffixIs
<1> QED BY <1>7 DEF a, b

(* The end of the second of two sequences is an end of both.               *)
LEMMA EndIsSuffix ==
    ASSUME NEW X, NEW t \in Seq(X), NEW u \in Seq(X), NEW k \in Nat, k <= Len(u)
    PROVE  /\ SubSeq(u, k + 1, Len(u)) \in Seq(X)
           /\ Len(SubSeq(u, k + 1, Len(u))) = Len(u) - k
           /\ IsSuffix(SubSeq(u, k + 1, Len(u)), t \o u)
<1> DEFINE m == Len(t)
           n == Len(u)
           a == SubSeq(u, k + 1, n)
           b == t \o u
<1>1. m \in Nat /\ n \in Nat
  BY LenProperties
<1>2. \A i \in (k + 1)..n : u[i] \in X
  <2>1. \A i \in (k + 1)..n : i \in 1..n
    BY <1>1
  <2> QED BY <2>1, ElementOfSeq
<1>3. /\ a \in Seq(X) /\ Len(a) = (IF k + 1 <= n THEN n - (k + 1) + 1 ELSE 0)
      /\ \A i \in 1..(n - (k + 1) + 1) : a[i] = u[k + 1 + i - 1]
  <2>1. k + 1 \in Int /\ n \in Int
    BY <1>1
  <2> HIDE DEF n
  <2> QED BY <1>2, <2>1, SubSeqProperties
<1>4. /\ b \in Seq(X) /\ Len(b) = m + n
      /\ \A i \in 1..(m + n) : b[i] = IF i <= m THEN t[i] ELSE u[i - m]
  BY ConcatProperties
<1>5. k <= n
  OBVIOUS
<1> HIDE DEF a, b, m, n
<1>6. Len(a) = n - k /\ n - (k + 1) + 1 = n - k
  BY <1>1, <1>3, <1>5
<1>7. ASSUME NEW i \in 1..(n - k) PROVE a[i] = b[(m + n) - (n - k) + i]
  <2>1. (m + n) - (n - k) + i = m + k + i /\ m + k + i \in 1..(m + n) /\ ~(m + k + i <= m)
        /\ m + k + i - m = k + i /\ k + 1 + i - 1 = k + i
    BY <1>1, <1>5
  <2>2. a[i] = u[k + 1 + i - 1]
    BY <1>3, <1>6
  <2>3. b[m + k + i] = u[m + k + i - m]
    <3> DEFINE j == m + k + i
    <3>1. j \in 1..(m + n) /\ ~(j <= m)
      BY <2>1
    <3> HIDE DEF j
    <3>2. b[j] = u[j - m]
      BY <1>4, <3>1
    <3> QED BY <1>1, <3>2 DEF j
  <2> QED BY <2>1, <2>2, <2>3
<1>8. n - k <= m + n
  BY <1>1, <1>5
<1>9. IsSuffix(a, b)
  BY <1>3, <1>4, <1>6, <1>7, <1>8, SuffixIs
<1> QED BY <1>3, <1>6, <1>9 DEF a, b, n

-----------------------------------------------------------------------------
(* What a body shows. *)

Entries == [kind : {"line", "restarted", "skipped", "notice"}, file : {Out, Err}, cells : Texts]

ShownIn(body) == LET lines == AtPlaces(body, LinesIn(body))
                 IN  [i \in DOMAIN lines |-> lines[i].cells]

(* What a body shows are the lines at some of its places.                  *)
LEMMA ShownIs ==
    ASSUME NEW body \in Seq(Entries)
    PROVE  LET I == LinesIn(body)  c == Cardinality(I)
           IN  /\ I \in SUBSET (1..Len(body)) /\ I \in SUBSET Nat /\ IsFiniteSet(I) /\ c \in Nat
               /\ \A k \in 1..c : Ascending(I)[k] \in 1..Len(body)
               /\ ShownIn(body) = [k \in 1..c |-> body[Ascending(I)[k]].cells]
               /\ ShownIn(body) \in Seq(Texts) /\ Len(ShownIn(body)) = c
<1> DEFINE I == LinesIn(body)
           c == Cardinality(I)
           n == Len(body)
<1>1. n \in Nat /\ DOMAIN body = 1..n
  BY LenProperties
<1>2. I \in SUBSET (1..n) /\ I \in SUBSET Nat
  BY <1>1 DEF LinesIn
<1>3. IsFiniteSet(I) /\ c \in Nat
  <2>1. IsFiniteSet(1..n)
    BY <1>1, FS_Interval
  <2> HIDE DEF I, n
  <2> QED BY <1>2, <2>1, FS_Subset, FS_CardinalityType
<1>4. Ascending(I) \in [1..c -> I]
  <2> HIDE DEF I
  <2> QED BY <1>2, <1>3, AscendingIs
<1>5. AtPlaces(body, I) = [k \in 1..c |-> body[Ascending(I)[k]]]
  BY DEF AtPlaces
<1>6. ShownIn(body) = [k \in 1..c |-> body[Ascending(I)[k]].cells]
  BY <1>5 DEF ShownIn
<1>7. \A k \in 1..c : Ascending(I)[k] \in 1..n
  <2> HIDE DEF I, c, n
  <2> QED BY <1>2, <1>4
<1>8. \A i \in 1..n : body[i].cells \in Texts
  <2>1. \A i \in 1..n : body[i] \in Entries
    BY ElementOfSeq
  <2> QED BY <2>1 DEF Entries
<1> HIDE DEF I, n
<1>9. ShownIn(body) \in [1..c -> Texts]
  BY <1>6, <1>7, <1>8
<1> HIDE DEF c
<1>10. ShownIn(body) \in Seq(Texts) /\ Len(ShownIn(body)) = c
  BY <1>3, <1>9, LenIs
<1> QED BY <1>2, <1>3, <1>6, <1>7, <1>10 DEF I, c, n

(* Places added at the end come at the end.                                *)
LEMMA AscendingExtends ==
    ASSUME NEW n \in Nat, NEW I \in SUBSET (1..n), NEW k \in Nat
    PROVE  LET c == Cardinality(I)  J == I \cup (n + 1)..(n + k)
           IN  /\ c \in Nat /\ Cardinality(J) = c + k
               /\ Ascending(J) = [i \in 1..(c + k) |-> IF i <= c THEN Ascending(I)[i] ELSE n + (i - c)]
<1> DEFINE c == Cardinality(I)
           J == I \cup (n + 1)..(n + k)
           a == Ascending(I)
           s == [i \in 1..(c + k) |-> IF i <= c THEN a[i] ELSE n + (i - c)]
<1>1. I \in SUBSET Nat /\ IsFiniteSet(I) /\ c \in Nat
  <2>1. IsFiniteSet(1..n)
    BY FS_Interval
  <2>2. IsFiniteSet(I)
    BY <2>1, FS_Subset
  <2> QED BY <2>2, FS_CardinalityType
<1>2. /\ a \in [1..c -> I] /\ \A i, j \in 1..c : i < j => a[i] < a[j]
      /\ \A x \in I : \E i \in 1..c : a[i] = x
  <2>1. a \in [1..c -> I] /\ Climbs(a) /\ \A x \in I : \E i \in 1..c : a[i] = x
    BY <1>1, AscendingIs
  <2>2. DOMAIN a = 1..c
    BY <2>1
  <2> HIDE DEF a, c
  <2> QED BY <2>1, <2>2 DEF Climbs
<1>3. J \in SUBSET Nat /\ IsFiniteSet(J)
  <2>1. IsFiniteSet((n + 1)..(n + k)) /\ (n + 1)..(n + k) \in SUBSET Nat
    BY FS_Interval
  <2> QED BY <1>1, <2>1, FS_Union
<1> HIDE DEF c, a
<1>4. /\ \A i \in 1..c : s[i] = a[i] /\ a[i] \in 1..n
      /\ \A i \in (c + 1)..(c + k) : s[i] = n + (i - c) /\ n + (i - c) \in (n + 1)..(n + k)
      /\ \A i \in 1..(c + k) : i \in 1..c \/ i \in (c + 1)..(c + k)
  <2>1. \A i \in 1..c : i \in 1..(c + k) /\ i <= c /\ a[i] \in I
    BY <1>1, <1>2
  <2>2. \A i \in (c + 1)..(c + k) : i \in 1..(c + k) /\ ~(i <= c) /\ n + (i - c) \in (n + 1)..(n + k)
    BY <1>1
  <2>3. \A i \in 1..(c + k) : i \in 1..c \/ i \in (c + 1)..(c + k)
    BY <1>1
  <2> QED BY <2>1, <2>2, <2>3
<1>5. DOMAIN s = 1..(c + k)
  OBVIOUS
<1>a. \A i \in (c + 1)..(c + k) : i \in Int
  OBVIOUS
<1> HIDE DEF s
<1>6. \A i, j \in 1..(c + k) : i < j => s[i] < s[j]
  <2> SUFFICES ASSUME NEW i \in 1..(c + k), NEW j \in 1..(c + k), i < j PROVE s[i] < s[j]
    OBVIOUS
  <2>1. CASE j \in 1..c
    <3>1. i \in 1..c
      BY <1>1, <2>1
    <3> QED BY <1>2, <1>4, <2>1, <3>1
  <2>2. CASE i \in 1..c /\ j \in (c + 1)..(c + k)
    <3>1. a[i] \in 1..n /\ n + (j - c) \in (n + 1)..(n + k)
      BY <1>4, <2>2
    <3>2. \A x, y \in Int : x \in 1..n /\ y \in (n + 1)..(n + k) => x < y
      OBVIOUS
    <3>3. a[i] \in Int /\ n + (j - c) \in Int
      BY <3>1
    <3>4. a[i] < n + (j - c)
      <4> DEFINE u == a[i]
                 w == n + (j - c)
      <4>1. u \in Int /\ w \in Int /\ u \in 1..n /\ w \in (n + 1)..(n + k)
        BY <3>1, <3>3
      <4> HIDE DEF u, w
      <4>2. u < w
        BY <3>2, <4>1
      <4> QED BY <4>2 DEF u, w
    <3> QED BY <1>4, <2>2, <3>4
  <2>3. CASE i \in (c + 1)..(c + k) /\ j \in (c + 1)..(c + k)
    <3>1. n + (i - c) < n + (j - c)
      BY <1>1
    <3> QED BY <1>4, <2>3, <3>1
  <2>4. i \in (c + 1)..(c + k) => j \in (c + 1)..(c + k)
    BY <1>1
  <2> QED BY <1>4, <2>1, <2>2, <2>3, <2>4
<1>7. \A x : x \in J <=> \E i \in 1..(c + k) : x = s[i]
  <2>1. ASSUME NEW x \in I PROVE \E i \in 1..(c + k) : x = s[i]
    <3>1. PICK i \in 1..c : a[i] = x
      BY <1>2
    <3>2. i \in 1..(c + k)
      BY <1>1
    <3> QED BY <1>4, <3>1, <3>2
  <2>2. ASSUME NEW x \in (n + 1)..(n + k) PROVE \E i \in 1..(c + k) : x = s[i]
    <3>1. c + (x - n) \in (c + 1)..(c + k) /\ c + (x - n) \in 1..(c + k) /\ n + (c + (x - n) - c) = x
      BY <1>1
    <3> DEFINE i == c + (x - n)
    <3>2. i \in (c + 1)..(c + k) /\ i \in 1..(c + k) /\ n + (i - c) = x
      BY <1>1, <3>1
    <3> HIDE DEF i
    <3>3. s[i] = n + (i - c)
      BY <1>4, <3>2
    <3> QED BY <3>2, <3>3
  <2>3. ASSUME NEW i \in 1..(c + k) PROVE s[i] \in J
    BY <1>2, <1>4
  <2> QED BY <2>1, <2>2, <2>3
<1>8. c + k \in Nat /\ \A i, j \in 1..(c + k) : s[i] = s[j] => i = j
  <2> SUFFICES ASSUME NEW i \in 1..(c + k), NEW j \in 1..(c + k), s[i] = s[j], i # j PROVE FALSE
    BY <1>1
  <2>1. i < j \/ j < i
    BY <1>1
  <2>2. s[i] \in Nat /\ s[j] \in Nat
    BY <1>3, <1>7
  <2>3. s[i] < s[j] \/ s[j] < s[i]
    BY <1>6, <2>1
  <2> QED BY <2>2, <2>3
<1> HIDE DEF J
<1>9. Cardinality(J) = c + k
  BY <1>5, <1>7, <1>8, CountDistinct
<1>10. s \in [1..(c + k) -> J]
  <2>1. s = [i \in 1..(c + k) |-> s[i]]
    BY DEF s
  <2> DEFINE d == 1..(c + k)
  <2>2. s = [i \in d |-> s[i]] /\ \A i \in d : s[i] \in J
    BY <1>7, <2>1
  <2> HIDE DEF d
  <2>3. s \in [d -> J]
    BY <2>2
  <2> QED BY <2>3 DEF d
<1>11. Climbs(s)
  BY <1>5, <1>6 DEF Climbs
<1>12. Ascending(J) = s
  BY <1>3, <1>9, <1>10, <1>11, AscendingIs
<1> QED BY <1>1, <1>9, <1>12 DEF s, a, c, J

(* A body without lines and without skipped ones shows nothing.            *)
Plainless(body) == \A i \in DOMAIN body : body[i].kind \notin {"line", "skipped"}

(* It shows nothing, indeed.                                               *)
LEMMA ShowsNothing ==
    ASSUME NEW body \in Seq(Entries), Plainless(body)
    PROVE  SkipsIn(body) = {} /\ ShownIn(body) = <<>>
<1>1. SkipsIn(body) = {} /\ LinesIn(body) = {}
  BY DEF SkipsIn, LinesIn, Plainless
<1>2. Cardinality(LinesIn(body)) = 0
  BY <1>1, FS_EmptySet
<1>3. ShownIn(body) \in Seq(Texts) /\ Len(ShownIn(body)) = 0
  BY <1>2, ShownIs
<1> QED BY <1>1, <1>3, EmptySeq

(* Elements of two sequences in a row.                                     *)
LEMMA ConcatIs ==
    ASSUME NEW X, NEW s \in Seq(X), NEW t \in Seq(X)
    PROVE  /\ s \o t \in Seq(X) /\ Len(s) \in Nat /\ Len(t) \in Nat /\ Len(s \o t) = Len(s) + Len(t)
           /\ DOMAIN s = 1..Len(s) /\ DOMAIN t = 1..Len(t) /\ DOMAIN (s \o t) = 1..(Len(s) + Len(t))
           /\ \A i \in 1..Len(s) : (s \o t)[i] = s[i]
           /\ \A i \in (Len(s) + 1)..(Len(s) + Len(t)) : (s \o t)[i] = t[i - Len(s)]
OBVIOUS

(* A sequence of lines added to a body is added to what it shows.          *)
LEMMA LinesAdd ==
    ASSUME NEW body \in Seq(Entries), NEW rows \in Seq(Entries),
           \A i \in DOMAIN rows : rows[i].kind = "line"
    PROVE  /\ body \o rows \in Seq(Entries)
           /\ SkipsIn(body \o rows) = SkipsIn(body)
           /\ ShownIn(body \o rows) = ShownIn(body) \o [i \in DOMAIN rows |-> rows[i].cells]
<1> DEFINE all == body \o rows
           n == Len(body)
           k == Len(rows)
           I == LinesIn(body)
           J == I \cup (n + 1)..(n + k)
           c == Cardinality(I)
           cells == [i \in DOMAIN rows |-> rows[i].cells]
<1>1. /\ all \in Seq(Entries) /\ n \in Nat /\ k \in Nat /\ Len(all) = n + k
      /\ DOMAIN body = 1..n /\ DOMAIN rows = 1..k /\ DOMAIN all = 1..(n + k)
      /\ \A i \in 1..n : all[i] = body[i]
      /\ \A i \in (n + 1)..(n + k) : all[i] = rows[i - n]
  BY ConcatIs
<1>2. /\ 1..(n + k) = (1..n) \cup ((n + 1)..(n + k))
      /\ \A i \in (n + 1)..(n + k) : i - n \in 1..k /\ i > n
      /\ \A i \in 1..k : n + i \in (n + 1)..(n + k) /\ n + i - n = i
  BY <1>1
<1> HIDE DEF all, n, k
<1>3. \A i \in (n + 1)..(n + k) : all[i].kind = "line"
  <2> SUFFICES ASSUME NEW i \in (n + 1)..(n + k) PROVE all[i].kind = "line"
    OBVIOUS
  <2> DEFINE j == i - n
  <2>1. j \in DOMAIN rows /\ all[i] = rows[j]
    BY <1>1, <1>2
  <2> HIDE DEF j
  <2>2. rows[j].kind = "line"
    BY <2>1
  <2> QED BY <2>1, <2>2
<1>4. SkipsIn(all) = SkipsIn(body)
  BY <1>1, <1>2, <1>3 DEF SkipsIn
<1>5. Max({0} \cup SkipsIn(body)) \in Nat /\ Max({0} \cup SkipsIn(body)) <= n
  <2> DEFINE S == {0} \cup SkipsIn(body)
  <2>1. SkipsIn(body) \in SUBSET (1..n)
    BY <1>1 DEF SkipsIn
  <2>2. IsFiniteSet(0..n)
    BY <1>1, FS_Interval
  <2>3. S \in SUBSET (0..n) /\ S # {}
    BY <1>1, <2>1
  <2> HIDE DEF S
  <2>4. IsFiniteSet(S)
    BY <2>2, <2>3, FS_Subset
  <2>5. S \in SUBSET Nat
    BY <2>3
  <2>6. Max(S) \in S
    BY <2>3, <2>4, <2>5, MaxBounds
  <2>7. Max(S) \in 0..n
    BY <2>3, <2>6
  <2>8. Max(S) \in Nat /\ Max(S) <= n
    <3> DEFINE m == Max(S)
    <3> HIDE DEF m
    <3>1. m \in 0..n => m \in Nat /\ m <= n
      BY <1>1
    <3> QED BY <2>7, <3>1 DEF m
  <2> QED BY <2>8 DEF S
<1>6. LinesIn(all) = J
  <2> DEFINE m == Max({0} \cup SkipsIn(body))
  <2>1. \A i : i \in LinesIn(all) <=> i \in 1..(n + k) /\ all[i].kind = "line" /\ i > m
    BY <1>1, <1>4 DEF LinesIn
  <2>2. \A i : i \in I <=> i \in 1..n /\ body[i].kind = "line" /\ i > m
    BY <1>1 DEF LinesIn
  <2>3. m \in Nat /\ m <= n
    BY <1>5
  <2> HIDE DEF m, I
  <2>4. \A i \in (n + 1)..(n + k) : i > m
    BY <1>1, <2>3
  <2>5. \A i : i \in LinesIn(all) => i \in J
    BY <1>1, <1>2, <2>1, <2>2
  <2>6. \A i : i \in J => i \in LinesIn(all)
    BY <1>1, <1>2, <1>3, <2>1, <2>2, <2>4
  <2> QED BY <2>5, <2>6
<1>7. /\ I \in SUBSET (1..n) /\ c \in Nat
      /\ ShownIn(body) = [i \in 1..c |-> body[Ascending(I)[i]].cells]
      /\ \A i \in 1..c : Ascending(I)[i] \in 1..n
      /\ ShownIn(body) \in Seq(Texts) /\ Len(ShownIn(body)) = c
  BY ShownIs DEF n
<1>8. ShownIn(all) = [i \in 1..Cardinality(J) |-> all[Ascending(J)[i]].cells]
  BY <1>1, <1>6, ShownIs
<1>9. /\ Cardinality(J) = c + k
      /\ Ascending(J) = [i \in 1..(c + k) |-> IF i <= c THEN Ascending(I)[i] ELSE n + (i - c)]
  <2>1. n \in Nat /\ k \in Nat /\ I \in SUBSET (1..n)
    BY <1>1, <1>7
  <2> HIDE DEF I
  <2>2. LET d == Cardinality(I)  K == I \cup (n + 1)..(n + k)
        IN  /\ d \in Nat /\ Cardinality(K) = d + k
            /\ Ascending(K) = [i \in 1..(d + k) |-> IF i <= d THEN Ascending(I)[i] ELSE n + (i - d)]
    BY ONLY <2>1, AscendingExtends
  <2> QED BY <2>2
<1>10. cells \in Seq(Texts) /\ Len(cells) = k
  <2>1. \A i \in 1..k : rows[i] \in Entries
    BY <1>1, ElementOfSeq
  <2>2. \A i \in 1..k : rows[i].cells \in Texts
    BY <2>1 DEF Entries
  <2>3. cells \in [1..k -> Texts]
    BY <1>1, <2>2
  <2> QED BY <1>1, <2>3, LenIs
<1>11. \A i \in 1..k : cells[i] = rows[i].cells
  BY <1>1
<1> HIDE DEF I, J, c, cells
<1>12. /\ ShownIn(body) \o cells \in Seq(Texts)
       /\ DOMAIN (ShownIn(body) \o cells) = 1..(c + k)
       /\ \A i \in 1..c : (ShownIn(body) \o cells)[i] = ShownIn(body)[i]
       /\ \A i \in (c + 1)..(c + k) : (ShownIn(body) \o cells)[i] = cells[i - c]
  <2> DEFINE shown == ShownIn(body)
  <2>1. shown \in Seq(Texts) /\ Len(shown) = c /\ cells \in Seq(Texts) /\ Len(cells) = k
    BY <1>7, <1>10
  <2> HIDE DEF shown
  <2>2. /\ shown \o cells \in Seq(Texts)
        /\ DOMAIN (shown \o cells) = 1..(Len(shown) + Len(cells))
        /\ \A i \in 1..Len(shown) : (shown \o cells)[i] = shown[i]
        /\ \A i \in (Len(shown) + 1)..(Len(shown) + Len(cells)) : (shown \o cells)[i] = cells[i - Len(shown)]
    <3>1. shown \in Seq(Texts) /\ cells \in Seq(Texts)
      BY <2>1
    <3> QED BY ONLY <3>1, ConcatIs
  <2> QED BY <2>1, <2>2 DEF shown
<1>13. /\ \A i \in 1..(c + k) : i \in 1..c \/ i \in (c + 1)..(c + k)
       /\ \A i \in 1..c : i \in 1..(c + k) /\ i <= c
       /\ \A i \in (c + 1)..(c + k) : i \in 1..(c + k) /\ ~(i <= c) /\ i - c \in 1..k
  BY <1>1, <1>7
<1>14. \A i \in 1..(c + k) : ShownIn(all)[i] = (ShownIn(body) \o cells)[i]
  <2>1. \A i \in 1..(c + k) : ShownIn(all)[i] = all[Ascending(J)[i]].cells
    BY <1>8, <1>9
  <2>2. ASSUME NEW i \in 1..c PROVE ShownIn(all)[i] = (ShownIn(body) \o cells)[i]
    <3>1. Ascending(J)[i] = Ascending(I)[i] /\ Ascending(I)[i] \in 1..n
      BY <1>7, <1>9, <1>13
    <3>2. all[Ascending(J)[i]] = body[Ascending(I)[i]]
      BY <1>1, <3>1
    <3>3. ShownIn(body)[i] = body[Ascending(I)[i]].cells
      BY <1>7
    <3> QED BY <1>12, <1>13, <2>1, <3>2, <3>3
  <2>3. ASSUME NEW i \in (c + 1)..(c + k) PROVE ShownIn(all)[i] = (ShownIn(body) \o cells)[i]
    <3>1. Ascending(J)[i] = n + (i - c) /\ i - c \in 1..k
      BY <1>9, <1>13
    <3>2. all[n + (i - c)] = rows[i - c]
      <4> DEFINE j == i - c
      <4>1. j \in 1..k
        BY <3>1
      <4> HIDE DEF j
      <4>2. all[n + j] = rows[j]
        BY <1>1, <1>2, <4>1
      <4> QED BY <4>2 DEF j
    <3>3. cells[i - c] = rows[i - c].cells
      BY <1>11, <3>1
    <3>4. (ShownIn(body) \o cells)[i] = cells[i - c]
      BY <1>12
    <3>5. ShownIn(all)[i] = all[n + (i - c)].cells
      BY <1>13, <2>1, <3>1
    <3> QED BY <3>2, <3>3, <3>4, <3>5
  <2> QED BY <1>13, <2>2, <2>3
<1>15. ShownIn(all) = ShownIn(body) \o cells
  <2>1. DOMAIN ShownIn(all) = 1..(c + k)
    BY <1>8, <1>9
  <2>2. ShownIn(all) = [i \in 1..(c + k) |-> ShownIn(all)[i]]
    BY <1>8, <1>9
  <2>3. ShownIn(body) \o cells = [i \in 1..(c + k) |-> (ShownIn(body) \o cells)[i]]
    <3> DEFINE both == ShownIn(body) \o cells
    <3>1. both \in Seq(Texts) /\ DOMAIN both = 1..(c + k)
      BY <1>12
    <3> HIDE DEF both
    <3>2. both = [i \in DOMAIN both |-> both[i]]
      BY <3>1
    <3> QED BY <3>1, <3>2 DEF both
  <2> QED BY <1>14, <2>2, <2>3
<1> QED BY <1>1, <1>4, <1>15 DEF all, cells

(* The rows a read adds to the body.                                       *)
Rows(f, lines) == [i \in DOMAIN lines |-> Line(f, lines[i])]

(* They are added to what the body shows.                                  *)
LEMMA RowsAdd ==
    ASSUME NEW body \in Seq(Entries), NEW f \in {Out, Err}, NEW lines \in Seq(Texts)
    PROVE  /\ body \o Rows(f, lines) \in Seq(Entries)
           /\ SkipsIn(body \o Rows(f, lines)) = SkipsIn(body)
           /\ ShownIn(body \o Rows(f, lines)) = ShownIn(body) \o lines
           /\ Len(lines) = 0 => body \o Rows(f, lines) = body
           /\ Len(lines) # 0 => body \o Rows(f, lines) # <<>>
<1> DEFINE rows == Rows(f, lines)
           k == Len(lines)
<1>1. k \in Nat /\ DOMAIN lines = 1..k /\ \A i \in 1..k : lines[i] \in Texts
  BY LenProperties, ElementOfSeq
<1>2. /\ rows = [i \in 1..k |-> Line(f, lines[i])]
      /\ \A i \in 1..k : rows[i].kind = "line" /\ rows[i].cells = lines[i] /\ rows[i] \in Entries
  BY <1>1 DEF Rows, Line, Entries
<1>3. rows \in [1..k -> Entries]
  BY <1>2
<1>4. rows \in Seq(Entries) /\ Len(rows) = k /\ DOMAIN rows = 1..k
  BY <1>1, <1>2, <1>3, LenIs
<1>5. [i \in DOMAIN rows |-> rows[i].cells] = lines
  <2>1. lines = [i \in 1..k |-> lines[i]]
    BY <1>1
  <2> HIDE DEF k, rows
  <2> QED BY <1>2, <1>4, <2>1
<1> HIDE DEF rows
<1>6. /\ body \o rows \in Seq(Entries) /\ SkipsIn(body \o rows) = SkipsIn(body)
      /\ ShownIn(body \o rows) = ShownIn(body) \o [i \in DOMAIN rows |-> rows[i].cells]
  BY <1>2, <1>4, LinesAdd
<1>7. lines = <<>> => body \o rows = body
  BY <1>4, EmptySeq
<1>8. lines # <<>> => body \o rows # <<>>
  <2>1. lines # <<>> => k > 0
    BY EmptySeq
  <2>2. Len(body \o rows) = Len(body) + k /\ Len(body) \in Nat
    <3>1. rows \in Seq(Entries) /\ Len(rows) = k
      BY <1>4
    <3> HIDE DEF k
    <3>2. Len(body \o rows) = Len(body) + Len(rows) /\ Len(body) \in Nat
      BY <3>1, ConcatIs
    <3> QED BY <3>1, <3>2
  <2>3. k > 0 => Len(body \o rows) # 0
    BY <1>1, <2>2
  <2> QED BY <2>1, <2>3, EmptySeq
<1>9. lines = <<>> <=> Len(lines) = 0
  BY EmptySeq
<1> QED BY <1>5, <1>6, <1>7, <1>8, <1>9 DEF rows

(* A note that lines were skipped hides those before it.                   *)
LEMMA SkipHides ==
    ASSUME NEW body \in Seq(Entries)
    PROVE  LET all == body \o << Note("skipped") >>
           IN  all \in Seq(Entries) /\ SkipsIn(all) # {} /\ ShownIn(all) = <<>>
<1> DEFINE note == << Note("skipped") >>
           all == body \o note
           n == Len(body)
<1>1. note \in Seq(Entries) /\ Len(note) = 1 /\ note[1] = Note("skipped") /\ Note("skipped").kind = "skipped"
  <2>1. <<>> \in Texts
    BY DEF Texts
  <2>2. Note("skipped") \in Entries
    BY <2>1 DEF Note, Entries
  <2> QED BY <2>2 DEF Note
<1> HIDE DEF note
<1>2. /\ all \in Seq(Entries) /\ n \in Nat /\ Len(all) = n + 1 /\ DOMAIN all = 1..(n + 1)
      /\ \A i \in (n + 1)..(n + 1) : all[i] = note[i - n]
  <2>1. /\ all \in Seq(Entries) /\ n \in Nat /\ Len(all) = n + Len(note) /\ DOMAIN all = 1..(n + Len(note))
        /\ \A i \in (n + 1)..(n + Len(note)) : all[i] = note[i - n]
    <3>1. body \in Seq(Entries) /\ note \in Seq(Entries)
      BY <1>1
    <3> QED BY ONLY <3>1, ConcatIs
  <2> HIDE DEF all, n
  <2> QED BY <1>1, <2>1
<1> HIDE DEF all, n
<1>3. n + 1 \in SkipsIn(all)
  <2>1. n + 1 \in (n + 1)..(n + 1) /\ n + 1 - n = 1 /\ n + 1 \in 1..(n + 1)
    BY <1>2
  <2>2. all[n + 1] = note[1]
    BY <1>2, <2>1
  <2> QED BY <1>1, <1>2, <2>1, <2>2 DEF SkipsIn
<1>4. Max({0} \cup SkipsIn(all)) \in Nat /\ n + 1 <= Max({0} \cup SkipsIn(all))
  <2> DEFINE S == {0} \cup SkipsIn(all)
  <2>1. SkipsIn(all) \in SUBSET (1..(n + 1))
    BY <1>2 DEF SkipsIn
  <2>2. IsFiniteSet(0..(n + 1))
    BY <1>2, FS_Interval
  <2>3. S \in SUBSET (0..(n + 1)) /\ S # {} /\ n + 1 \in S
    BY <1>2, <1>3, <2>1
  <2> HIDE DEF S
  <2>4. IsFiniteSet(S)
    BY <2>2, <2>3, FS_Subset
  <2>5. S \in SUBSET Nat
    BY <1>2, <2>3
  <2>6. Max(S) \in S /\ n + 1 <= Max(S)
    BY <2>3, <2>4, <2>5, MaxBounds
  <2> QED BY <2>5, <2>6 DEF S
<1>5. LinesIn(all) = {}
  <2> DEFINE m == Max({0} \cup SkipsIn(all))
  <2>1. \A i : i \in LinesIn(all) => i \in 1..(n + 1) /\ i > m
    BY <1>2 DEF LinesIn
  <2>2. m \in Nat /\ n + 1 <= m
    BY <1>4
  <2> HIDE DEF m
  <2>3. \A i \in 1..(n + 1) : ~(i > m)
    BY <1>2, <2>2
  <2> QED BY <2>1, <2>3
<1>6. Cardinality(LinesIn(all)) = 0
  BY <1>5, FS_EmptySet
<1>7. ShownIn(all) \in Seq(Texts) /\ Len(ShownIn(all)) = 0
  BY <1>2, <1>6, ShownIs
<1>8. ShownIn(all) = <<>>
  BY <1>7, EmptySeq
<1> QED BY <1>2, <1>3, <1>8 DEF all, note

-----------------------------------------------------------------------------
(* Pieces of a file: what stands between two offsets, the second of which  *)
(* is in the file unless nothing was there to be read.                     *)

Piece(data, from, to) == SubSeq(data, from + 1, to)
ReadUpTo(from, to, data) == from <= to /\ (to <= Len(data) \/ to = from)

(* What a piece consists of.                                               *)
LEMMA PieceIs ==
    ASSUME NEW data \in Texts, NEW from \in Nat, NEW to \in Nat, ReadUpTo(from, to, data)
    PROVE  /\ Piece(data, from, to) \in Texts
           /\ Piece(data, from, to) \in Seq(Char)
           /\ Len(Piece(data, from, to)) = to - from
           /\ DOMAIN Piece(data, from, to) = 1..(to - from)
           /\ \A i \in 1..(to - from) : Piece(data, from, to)[i] = data[from + i]
<1> DEFINE n == Len(data)
           p == Piece(data, from, to)
<1>1. data \in Seq(Char) /\ n \in Nat /\ DOMAIN data = 1..n
  BY LenProperties DEF Texts
<1>2. from <= to /\ (to <= n \/ to = from)
  BY DEF ReadUpTo
<1> HIDE DEF n
<1>3. \A i \in (from + 1)..to : i \in 1..n
  BY <1>1, <1>2
<1>4. \A i \in (from + 1)..to : data[i] \in Char
  BY <1>1, <1>3, ElementOfSeq DEF n
<1>5. /\ p \in Seq(Char) /\ Len(p) = (IF from + 1 <= to THEN to - (from + 1) + 1 ELSE 0)
      /\ \A i \in 1..(to - (from + 1) + 1) : p[i] = data[from + 1 + i - 1]
  <2>1. from + 1 \in Int /\ to \in Int
    OBVIOUS
  <2> QED BY <1>1, <1>4, <2>1, SubSeqProperties DEF Piece
<1> HIDE DEF p
<1>6. to - (from + 1) + 1 = to - from /\ (from + 1 <= to => Len(p) = to - from) /\ (~(from + 1 <= to) => Len(p) = to - from)
  BY <1>2, <1>5
<1>7. Len(p) = to - from
  BY <1>6
<1>8. \A i \in 1..(to - from) : from + 1 + i - 1 = from + i
  OBVIOUS
<1>9. \A i \in 1..(to - from) : p[i] = data[from + i]
  BY <1>5, <1>6, <1>8
<1>10. DOMAIN p = 1..Len(p)
  BY <1>5, LenProperties
<1> QED BY <1>5, <1>7, <1>9, <1>10 DEF p, Texts

(* Two texts with the same characters are the same.                        *)
LEMMA SameText ==
    ASSUME NEW n \in Nat, NEW s \in Seq(Char), DOMAIN s = 1..n, NEW t \in Seq(Char), DOMAIN t = 1..n,
           \A i \in 1..n : s[i] = t[i]
    PROVE  s = t
<1>1. s = [i \in 1..n |-> s[i]] /\ t = [i \in 1..n |-> t[i]]
  OBVIOUS
<1> QED BY <1>1

(* Two pieces in a row are a piece.                                        *)
LEMMA PiecesJoin ==
    ASSUME NEW data \in Texts, NEW a \in Nat, NEW b \in Nat, NEW c \in Nat,
           ReadUpTo(a, b, data), ReadUpTo(b, c, data)
    PROVE  /\ ReadUpTo(a, c, data)
           /\ Piece(data, a, c) = Piece(data, a, b) \o Piece(data, b, c)
<1> DEFINE n == Len(data)
           p == Piece(data, a, b)
           q == Piece(data, b, c)
           r == Piece(data, a, c)
<1>1. n \in Nat /\ a <= b /\ b <= c /\ (b <= n \/ b = a) /\ (c <= n \/ c = b)
  BY LenProperties DEF ReadUpTo, Texts
<1>2. ReadUpTo(a, c, data)
  <2>1. a <= c /\ (c <= n \/ c = a)
    BY <1>1
  <2> QED BY <2>1 DEF ReadUpTo
<1>3. p \in Seq(Char) /\ Len(p) = b - a /\ \A i \in 1..(b - a) : p[i] = data[a + i]
  BY PieceIs
<1>4. q \in Seq(Char) /\ Len(q) = c - b /\ \A i \in 1..(c - b) : q[i] = data[b + i]
  BY PieceIs
<1>5. r \in Seq(Char) /\ DOMAIN r = 1..(c - a) /\ \A i \in 1..(c - a) : r[i] = data[a + i]
  BY <1>2, PieceIs
<1> HIDE DEF n, p, q, r
<1>6. /\ p \o q \in Seq(Char) /\ DOMAIN (p \o q) = 1..(Len(p) + Len(q))
      /\ \A i \in 1..Len(p) : (p \o q)[i] = p[i]
      /\ \A i \in (Len(p) + 1)..(Len(p) + Len(q)) : (p \o q)[i] = q[i - Len(p)]
  <2>1. p \in Seq(Char) /\ q \in Seq(Char)
    BY <1>3, <1>4
  <2> QED BY ONLY <2>1, ConcatIs
<1>7. Len(p) + Len(q) = c - a /\ c - a \in Nat
  BY <1>1, <1>3, <1>4
<1>8. ASSUME NEW i \in 1..(c - a) PROVE (p \o q)[i] = r[i]
  <2>1. CASE i <= b - a
    <3>1. i \in 1..(b - a)
      BY <1>1, <2>1
    <3> QED BY <1>3, <1>5, <1>6, <3>1
  <2>2. CASE ~(i <= b - a)
    <3> DEFINE j == i - (b - a)
    <3>1. i \in ((b - a) + 1)..((b - a) + (c - b)) /\ j \in 1..(c - b) /\ b + j = a + i
      BY <1>1, <2>2
    <3> HIDE DEF j
    <3>2. (p \o q)[i] = q[j]
      BY <1>3, <1>4, <1>6, <3>1 DEF j
    <3>3. q[j] = data[b + j]
      BY <1>4, <3>1
    <3>4. r[i] = data[a + i]
      BY <1>5
    <3> QED BY <3>1, <3>2, <3>3, <3>4
  <2> QED BY <2>1, <2>2
<1>9. p \o q = r
  <2>1. p \o q \in Seq(Char) /\ DOMAIN (p \o q) = 1..(c - a)
    BY <1>6, <1>7
  <2> DEFINE s == p \o q
  <2>2. s \in Seq(Char) /\ DOMAIN s = 1..(c - a) /\ \A i \in 1..(c - a) : s[i] = r[i]
    BY <1>8, <2>1
  <2> HIDE DEF s
  <2>3. s = r
    BY <1>5, <1>7, <2>2, SameText
  <2> QED BY <2>3 DEF s
<1> QED BY <1>2, <1>9 DEF p, q, r

(* What is written later changes no piece.                                 *)
LEMMA PieceStays ==
    ASSUME NEW data \in Texts, NEW c \in Char, NEW from \in Nat, NEW to \in Nat, ReadUpTo(from, to, data)
    PROVE  /\ ReadUpTo(from, to, Append(data, c))
           /\ Piece(Append(data, c), from, to) = Piece(data, from, to)
<1> DEFINE n == Len(data)
           more == Append(data, c)
           p == Piece(data, from, to)
           q == Piece(more, from, to)
<1>1. /\ n \in Nat /\ from <= to /\ (to <= n \/ to = from)
      /\ more \in Texts /\ Len(more) = n + 1 /\ \A i \in 1..n : more[i] = data[i]
  BY LenProperties, AppendProperties DEF ReadUpTo, Texts
<1>2. ReadUpTo(from, to, more)
  <2>1. to <= n + 1 \/ to = from
    BY <1>1
  <2> QED BY <1>1, <2>1 DEF ReadUpTo
<1> HIDE DEF more
<1>3. p \in Seq(Char) /\ DOMAIN p = 1..(to - from) /\ \A i \in 1..(to - from) : p[i] = data[from + i]
  BY PieceIs
<1>4. q \in Seq(Char) /\ DOMAIN q = 1..(to - from) /\ \A i \in 1..(to - from) : q[i] = more[from + i]
  BY <1>1, <1>2, PieceIs
<1> HIDE DEF n, p, q
<1>5. to - from \in Nat /\ \A i \in 1..(to - from) : from + i \in 1..n
  BY <1>1
<1>6. \A i \in 1..(to - from) : p[i] = q[i]
  BY <1>1, <1>3, <1>4, <1>5
<1>7. p = q
  BY <1>3, <1>4, <1>5, <1>6, SameText
<1> QED BY <1>2, <1>7 DEF p, q, more

(* What a read gets is a piece, and so is what is left of it when a        *)
(* fragment at its start is dropped.                                       *)
LEMMA BytesAre ==
    ASSUME NEW content \in Texts, NEW at \in Nat
    PROVE  LET data == Bytes(content, at)  to == PosAfter(at, data)
           IN  /\ data \in Texts /\ data \in Seq(Char) /\ Len(data) \in Nat /\ to \in Nat
               /\ \A k \in 0..Len(data) :
                    /\ ReadUpTo(at + k, to, content)
                    /\ SubSeq(data, k + 1, Len(data)) = Piece(content, at + k, to)
<1> DEFINE n == Len(content)
           to == IF at <= n THEN n ELSE at
           data == Bytes(content, at)
<1>1. n \in Nat
  BY LenProperties DEF Texts
<1>2. to \in Nat /\ at <= to /\ (to <= n \/ to = at) /\ to - at \in Nat
  BY <1>1
<1>3. ReadUpTo(at, to, content)
  BY <1>2 DEF ReadUpTo
<1>4. data = Piece(content, at, to)
  <2>1. CASE at <= n
    BY <2>1 DEF Bytes, Piece
  <2>2. CASE ~(at <= n)
    <3>1. to = at
      BY <2>2
    <3>2. Len(Piece(content, at, at)) = at - at /\ Piece(content, at, at) \in Seq(Char)
      BY <1>3, <3>1, PieceIs
    <3>3. Piece(content, at, at) = <<>>
      <4>1. at - at = 0
        OBVIOUS
      <4> QED BY <3>2, <4>1, EmptySeq
    <3>4. data = <<>>
      <4>1. at + 1 \in Int /\ n \in Int /\ ~(at + 1 <= n) /\ \A i \in (at + 1)..n : content[i] \in Char
        BY <1>1, <2>2
      <4> HIDE DEF n
      <4>2. SubSeq(content, at + 1, n) \in Seq(Char) /\ Len(SubSeq(content, at + 1, n)) = (IF at + 1 <= n THEN n - (at + 1) + 1 ELSE 0)
        BY <4>1, SubSeqProperties DEF Texts
      <4>3. Len(SubSeq(content, at + 1, n)) = 0
        BY <4>1, <4>2
      <4>4. SubSeq(content, at + 1, n) = <<>>
        BY <4>2, <4>3, EmptySeq
      <4> QED BY <4>4 DEF Bytes, n
    <3> QED BY <3>1, <3>3, <3>4
  <2> QED BY <2>1, <2>2
<1> HIDE DEF to, data
<1>5. /\ data \in Texts /\ data \in Seq(Char) /\ Len(data) = to - at
      /\ \A i \in 1..(to - at) : data[i] = content[at + i]
  BY <1>2, <1>3, <1>4, PieceIs
<1>6. PosAfter(at, data) = to
  <2>1. at + (to - at) = to
    BY <1>2
  <2> QED BY <1>5, <2>1 DEF PosAfter
<1>7. ASSUME NEW k \in 0..(to - at)
      PROVE  /\ ReadUpTo(at + k, to, content)
             /\ SubSeq(data, k + 1, to - at) = Piece(content, at + k, to)
  <2>1. at + k \in Nat /\ k \in Nat /\ at + k <= to /\ (to <= n \/ to = at + k) /\ to - (at + k) = (to - at) - k
    BY <1>1, <1>2
  <2>2. ReadUpTo(at + k, to, content)
    BY <2>1 DEF ReadUpTo
  <2> DEFINE m == (to - at) - k
             s == Piece(content, at + k, to)
             u == Piece(data, k, to - at)
  <2>3. s \in Seq(Char) /\ DOMAIN s = 1..m /\ \A i \in 1..m : s[i] = content[(at + k) + i]
    BY <1>2, <2>1, <2>2, PieceIs
  <2>4. ReadUpTo(k, to - at, data)
    <3>1. k <= to - at /\ to - at <= to - at
      BY <1>2
    <3> QED BY <1>5, <3>1 DEF ReadUpTo
  <2>5. u \in Seq(Char) /\ DOMAIN u = 1..m /\ \A i \in 1..m : u[i] = data[k + i]
    BY <1>2, <1>5, <2>1, <2>4, PieceIs
  <2> HIDE DEF s, u
  <2>6. m \in Nat /\ \A i \in 1..m : k + i \in 1..(to - at) /\ at + (k + i) = (at + k) + i
    BY <1>2, <2>1
  <2>7. \A i \in 1..m : s[i] = u[i]
    <3> SUFFICES ASSUME NEW i \in 1..m PROVE s[i] = u[i]
      OBVIOUS
    <3>1. data[k + i] = content[at + (k + i)]
      BY <1>5, <2>6
    <3> QED BY <2>3, <2>5, <2>6, <3>1
  <2> HIDE DEF m
  <2>8. s = u
    BY <2>3, <2>5, <2>6, <2>7, SameText
  <2> QED BY <2>2, <2>8 DEF s, u, Piece
<1>8. Len(data) \in Nat
  BY <1>2, <1>5
<1> QED BY <1>2, <1>5, <1>6, <1>7, <1>8 DEF data

(* The leading fragment is in what was read.                               *)
LEMMA FragmentIs ==
    ASSUME NEW data \in Seq(Char)
    PROVE  LeadingFragment(data) \in 0..Len(data)
<1>1. Len(data) \in Nat
  BY LenProperties
<1>2. ASSUME NEW c PROVE FirstOf(c, data) \in 0..Len(data)
  <2> DEFINE I == {i \in 1..Len(data) : data[i] = c}
  <2>1. FirstOf(c, data) = IF I # {} THEN Min(I) ELSE 0
    BY DEF FirstOf, SelectInSeq
  <2>2. I \in SUBSET (1..Len(data)) /\ I \in SUBSET Nat
    OBVIOUS
  <2> HIDE DEF I
  <2>3. I # {} => Min(I) \in I
    BY <2>2, LeastNumber DEF Min
  <2>4. I # {} => FirstOf(c, data) \in 1..Len(data)
    BY <2>1, <2>2, <2>3
  <2>5. I = {} => FirstOf(c, data) = 0
    BY <2>1
  <2> QED BY <1>1, <2>4, <2>5
<1> QED BY <1>2 DEF LeadingFragment

-----------------------------------------------------------------------------
(* The records of the model. *)

LineStates == {a \in Lines : IsLine(a)}
Tails == [pos : Nat, ident : Nat, started : BOOLEAN, line : LineStates]
Files == [ident : Nat, data : Texts, swaps : Nat]
Messages == {"", "missing", "error", "nothing", "noFile"}
Views == [which : {Out, Err}, tail : Tails, body : Seq(Entries), live : Texts,
          message : Messages, hasContent : BOOLEAN, tailOnly : BOOLEAN]
Chunks == [lines : Seq(Texts), partial : Texts, reset : BOOLEAN, error : {"", "missing", "error"},
           tailOnly : BOOLEAN, dropped : Nat, size : Nat]
Starts == [at : Nat, swaps : Nat, ident : Nat]
Readers == [at : {"idle", "stat", "open", "answer", "closed"}, file : {Out, Err}, own : BOOLEAN,
            tail : Tails, fresh : BOOLEAN, size : Nat, chunk : Chunks, base : Starts]

(* The records things start with.                                          *)
LEMMA StartRecords ==
    /\ <<>> \in Texts /\ <<>> \in Seq(Texts) /\ <<>> \in Seq(Entries)
    /\ Blank \in LineStates /\ Blank.lines = <<>> /\ Blank.cells = <<>> /\ Blank.col = 0
    /\ NewTail \in Tails /\ ~NewTail.started
    /\ NoChunk \in Chunks /\ NoChunk.error = ""
    /\ MissingChunk \in Chunks /\ MissingChunk.error = "missing" /\ ~MissingChunk.reset
    /\ ErrorChunk \in Chunks /\ ErrorChunk.error = "error" /\ ~ErrorChunk.reset
    /\ Nowhere \in Starts
    /\ Idle \in Readers /\ Idle.at = "idle"
    /\ \A f \in {Out, Err}, v \in Views, kind \in Messages : << Note("notice") >> \in Seq(Entries)
<1>1. <<>> \in Texts /\ <<>> \in Seq(Texts) /\ <<>> \in Seq(Entries)
  BY DEF Texts
<1>2. Blank \in LineStates /\ Blank.lines = <<>> /\ Blank.cells = <<>> /\ Blank.col = 0
  <2>1. Blank \in Lines /\ Blank.lines = <<>> /\ Blank.cells = <<>> /\ Blank.col = 0
    BY <1>1 DEF Blank, Lines
  <2>2. Len(<<>>) = 0 /\ 0 <= MaxCells
    BY LogTailAssumption
  <2>3. IsLine(Blank)
    BY <2>1, <2>2 DEF IsLine
  <2> QED BY <2>1, <2>3 DEF LineStates
<1>3. NewTail \in Tails /\ ~NewTail.started
  BY <1>2 DEF NewTail, Tails, NoIdent
<1>4. NoChunk \in Chunks /\ NoChunk.error = ""
  BY <1>1 DEF NoChunk, Chunks
<1>5. MissingChunk \in Chunks /\ MissingChunk.error = "missing" /\ ~MissingChunk.reset
  BY <1>1 DEF MissingChunk, NoChunk, Chunks
<1>6. ErrorChunk \in Chunks /\ ErrorChunk.error = "error" /\ ~ErrorChunk.reset
  BY <1>1 DEF ErrorChunk, NoChunk, Chunks
<1>7. Nowhere \in Starts
  BY DEF Nowhere, Starts, NoIdent
<1>8. Idle \in Readers /\ Idle.at = "idle"
  BY <1>3, <1>4, <1>7 DEF Idle, Readers
<1>9. << Note("notice") >> \in Seq(Entries)
  <2>1. Note("notice") \in Entries
    BY <1>1 DEF Note, Entries
  <2> QED BY <2>1
<1> QED BY <1>1, <1>2, <1>3, <1>4, <1>5, <1>6, <1>7, <1>8, <1>9

(* A read that starts.                                                     *)
LEMMA ReadingIs ==
    ASSUME NEW f \in {Out, Err}, NEW t \in Tails
    PROVE  LET r == Reading(f, t)
           IN  /\ r \in Readers /\ r.at = "stat" /\ r.file = f /\ r.own /\ r.tail = t /\ ~r.fresh
<1>1. Idle \in Readers /\ NewTail \in Tails /\ NoChunk \in Chunks /\ Nowhere \in Starts
  BY StartRecords
<1>2. Reading(f, t) = [at |-> "stat", file |-> f, own |-> TRUE, tail |-> t, fresh |-> FALSE,
                       size |-> 0, chunk |-> NoChunk, base |-> Nowhere]
  <2> DEFINE q == Idle
  <2>1. /\ q = [at |-> q.at, file |-> q.file, own |-> q.own, tail |-> q.tail, fresh |-> q.fresh,
                size |-> q.size, chunk |-> q.chunk, base |-> q.base]
        /\ q.own = TRUE /\ q.fresh = FALSE /\ q.size = 0 /\ q.chunk = NoChunk /\ q.base = Nowhere
    BY DEF Idle
  <2>2. Reading(f, t) = [q EXCEPT !.at = "stat", !.file = f, !.tail = t]
    BY DEF Reading
  <2> HIDE DEF q
  <2>3. ASSUME NEW r, r = [q EXCEPT !.at = "stat", !.file = f, !.tail = t]
        PROVE  r = [at |-> "stat", file |-> f, own |-> q.own, tail |-> t, fresh |-> q.fresh,
                    size |-> q.size, chunk |-> q.chunk, base |-> q.base]
    <3>1. /\ r = [at |-> r.at, file |-> r.file, own |-> r.own, tail |-> r.tail, fresh |-> r.fresh,
                  size |-> r.size, chunk |-> r.chunk, base |-> r.base]
          /\ r.at = "stat" /\ r.file = f /\ r.own = q.own /\ r.tail = t /\ r.fresh = q.fresh
          /\ r.size = q.size /\ r.chunk = q.chunk /\ r.base = q.base
      BY <2>1, <2>3
    <3> QED BY <3>1
  <2> QED BY <2>1, <2>2, <2>3
<1> QED BY <1>1, <1>2 DEF Readers

(* A view of nothing, and one that keeps its last row.                     *)
LEMMA ViewOfIs ==
    ASSUME NEW f \in {Out, Err}, NEW live \in Texts
    PROVE  /\ LET v == ViewOf(f)
              IN  /\ v \in Views /\ v.which = f /\ ~v.tail.started /\ v.message = ""
                  /\ v.body = <<>> /\ v.hasContent = FALSE
           /\ LET v == [ViewOf(f) EXCEPT !.live = live]
              IN  /\ v \in Views /\ v.which = f /\ ~v.tail.started /\ v.message = ""
                  /\ v.body = <<>> /\ v.hasContent = FALSE
<1>1. NewTail \in Tails /\ ~NewTail.started /\ <<>> \in Texts /\ <<>> \in Seq(Entries)
  BY StartRecords
<1>2. ViewOf(f) \in Views
  BY <1>1 DEF ViewOf, Views, Messages
<1>3. [ViewOf(f) EXCEPT !.live = live] \in Views
  BY <1>2 DEF Views
<1> QED BY <1>1, <1>2, <1>3 DEF ViewOf

(* A tail that starts over.                                                *)
LEMMA RestartIs ==
    ASSUME NEW t \in Tails
    PROVE  Restart(t) = [pos |-> 0, ident |-> t.ident, started |-> t.started, line |-> Blank]
<1>1. t = [pos |-> t.pos, ident |-> t.ident, started |-> t.started, line |-> t.line]
  BY DEF Tails
<1>2. ASSUME NEW q, q = [t EXCEPT !.pos = 0, !.line = Blank]
      PROVE  q = [pos |-> 0, ident |-> t.ident, started |-> t.started, line |-> Blank]
  <2>1. /\ q = [pos |-> q.pos, ident |-> q.ident, started |-> q.started, line |-> q.line]
        /\ q.pos = 0 /\ q.ident = t.ident /\ q.started = t.started /\ q.line = Blank
    BY <1>1, <1>2
  <2> QED BY <2>1
<1> QED BY <1>2 DEF Restart

(* The tail after the stat.                                                *)
LEMMA AfterStatIs ==
    ASSUME NEW t \in Tails, NEW ident \in Nat, NEW size \in Nat
    PROVE  LET u == AfterStat(t, ident, size)
           IN  /\ u \in Tails /\ u.ident = ident
               /\ IsFresh(t, ident, size) \in BOOLEAN
               /\ IsFresh(t, ident, size) => u.pos = 0 /\ u.line = Blank
               /\ ~IsFresh(t, ident, size) => u = t /\ t.started /\ ident = t.ident
<1>1. /\ t.pos \in Nat /\ t.ident \in Nat /\ t.started \in BOOLEAN /\ t.line \in LineStates
      /\ t = [pos |-> t.pos, ident |-> t.ident, started |-> t.started, line |-> t.line]
  BY DEF Tails
<1>2. IsFresh(t, ident, size) \in BOOLEAN
  BY DEF IsFresh, FreshIfShorter
<1>3. ASSUME IsFresh(t, ident, size)
      PROVE  AfterStat(t, ident, size) = [pos |-> 0, ident |-> ident, started |-> t.started, line |-> Blank]
  <2> DEFINE q == Restart(t)
  <2>1. q = [pos |-> 0, ident |-> t.ident, started |-> t.started, line |-> Blank]
    BY RestartIs
  <2>2. AfterStat(t, ident, size) = [q EXCEPT !.ident = ident]
    BY <1>3 DEF AfterStat
  <2> HIDE DEF q
  <2> QED BY <2>1, <2>2
<1>4. ASSUME ~IsFresh(t, ident, size)
      PROVE  AfterStat(t, ident, size) = t /\ t.started /\ ident = t.ident
  <2>1. t.started /\ ident = t.ident
    BY <1>4 DEF IsFresh, FreshIfShorter
  <2>2. AfterStat(t, ident, size) = [t EXCEPT !.ident = ident]
    BY <1>4 DEF AfterStat
  <2>3. [t EXCEPT !.ident = ident] = [pos |-> t.pos, ident |-> ident, started |-> t.started, line |-> t.line]
    BY <1>1
  <2> QED BY <1>1, <2>1, <2>2, <2>3
<1>5. CASE IsFresh(t, ident, size)
  <2>1. AfterStat(t, ident, size) = [pos |-> 0, ident |-> ident, started |-> t.started, line |-> Blank]
    BY <1>3, <1>5
  <2>2. Blank \in LineStates
    BY StartRecords
  <2> QED BY <1>1, <1>2, <1>5, <2>1, <2>2 DEF Tails
<1>6. CASE ~IsFresh(t, ident, size)
  BY <1>2, <1>4, <1>6
<1> QED BY <1>5, <1>6

(* The tail when there is no file, and when it could not be read.          *)
LEMMA AfterFailureIs ==
    ASSUME NEW t \in Tails
    PROVE  /\ AfterMissing(t) \in Tails /\ ~AfterMissing(t).started
           /\ AfterReadError(t, TRUE) \in Tails /\ ~AfterReadError(t, TRUE).started
           /\ AfterReadError(t, FALSE) = t
<1>1. /\ t.pos \in Nat /\ t.ident \in Nat /\ t.started \in BOOLEAN /\ t.line \in LineStates
      /\ t = [pos |-> t.pos, ident |-> t.ident, started |-> t.started, line |-> t.line]
  BY DEF Tails
<1>2. Blank \in LineStates
  BY StartRecords
<1>3. AfterMissing(t) = [pos |-> 0, ident |-> t.ident, started |-> FALSE, line |-> Blank]
  <2> DEFINE q == Restart(t)
  <2>1. q = [pos |-> 0, ident |-> t.ident, started |-> t.started, line |-> Blank]
    BY RestartIs
  <2>2. AfterMissing(t) = [q EXCEPT !.started = FALSE]
    BY DEF AfterMissing
  <2> HIDE DEF q
  <2> QED BY <2>1, <2>2
<1>4. AfterReadError(t, TRUE) = [pos |-> t.pos, ident |-> t.ident, started |-> FALSE, line |-> t.line]
  BY <1>1 DEF AfterReadError
<1>5. AfterReadError(t, FALSE) = t
  BY DEF AfterReadError
<1>6. AfterMissing(t) \in Tails /\ ~AfterMissing(t).started
  BY <1>1, <1>2, <1>3 DEF Tails
<1>7. AfterReadError(t, TRUE) \in Tails /\ ~AfterReadError(t, TRUE).started
  <2> DEFINE q == AfterReadError(t, TRUE)
  <2>1. q = [pos |-> t.pos, ident |-> t.ident, started |-> FALSE, line |-> t.line]
    BY <1>4
  <2> HIDE DEF q
  <2>2. q \in Tails /\ ~q.started
    BY <1>1, <2>1 DEF Tails
  <2> QED BY <2>2 DEF q
<1> QED BY <1>5, <1>6, <1>7

(* What one pass over a piece of a file gives.                             *)
Whole(data, from, to) == FeedBytes(Blank, Piece(data, from, to))

(* The tail after a read: its line is that of one pass over what was read, *)
(* on from the line that was being written.                                *)
LEMMA AfterReadIs ==
    ASSUME NEW t \in Tails, NEW content \in Texts, NEW fresh \in BOOLEAN, NEW size \in Nat
    PROVE  LET u     == AfterRead(t, content, fresh, size)
               at    == ReadFrom(t, fresh, size)
               start == at + Skipped(t, content, fresh, size)
           IN  /\ u \in Tails /\ u.started /\ u.ident = t.ident /\ at \in Nat /\ start \in Nat
               /\ ReadUpTo(start, u.pos, content)
               /\ u.line = FeedBytes([t.line EXCEPT !.lines = <<>>], Piece(content, start, u.pos))
               /\ start > 0 <=> at > 0 \/ (~fresh /\ t.pos > 0)
               /\ ~fresh => start = t.pos
<1> DEFINE at == ReadFrom(t, fresh, size)
           k == Skipped(t, content, fresh, size)
           data == Bytes(content, at)
           to == PosAfter(at, data)
           text == SubSeq(data, k + 1, Len(data))
           from == [t.line EXCEPT !.lines = <<>>]
<1>1. /\ t.pos \in Nat /\ t.ident \in Nat /\ t.started \in BOOLEAN /\ t.line \in LineStates
      /\ t = [pos |-> t.pos, ident |-> t.ident, started |-> t.started, line |-> t.line]
  BY DEF Tails
<1>2. at \in Nat /\ (~fresh => at = t.pos)
  <2>1. Window \in Nat
    BY LogTailAssumption
  <2>2. \A x \in Int : Max({0, x}) \in Int /\ 0 <= Max({0, x})
    <3> SUFFICES ASSUME NEW x \in Int PROVE Max({0, x}) \in Int /\ 0 <= Max({0, x})
      OBVIOUS
    <3>1. Max({0, x}) \in {0, x} /\ 0 <= Max({0, x})
      BY MaxOfTwo
    <3> QED BY <3>1
  <2>3. size - Window \in Int
    BY <2>1
  <2>4. Max({0, size - Window}) \in Nat
    BY <2>2, <2>3
  <2> QED BY <1>1, <2>4 DEF ReadFrom
<1>3. /\ data \in Texts /\ data \in Seq(Char) /\ Len(data) \in Nat /\ to \in Nat
      /\ \A i \in 0..Len(data) :
           /\ ReadUpTo(at + i, to, content)
           /\ SubSeq(data, i + 1, Len(data)) = Piece(content, at + i, to)
  <2> HIDE DEF at
  <2> QED BY <1>2, BytesAre
<1>4. k \in 0..Len(data) /\ (~fresh => k = 0) /\ (k > 0 => at > 0)
  <2>1. LeadingFragment(data) \in 0..Len(data)
    <3> HIDE DEF data
    <3> QED BY <1>3, FragmentIs
  <2>2. k = IF fresh /\ at > 0 THEN LeadingFragment(data) ELSE 0
    BY DEF Skipped
  <2> HIDE DEF k, at, data
  <2>3. 0 \in 0..Len(data) /\ ~(0 > 0)
    BY <1>3
  <2> QED BY <2>1, <2>2, <2>3
<1>5. AfterRead(t, content, fresh, size) = [pos |-> to, ident |-> t.ident, started |-> TRUE, line |-> Feed(from, text)]
  <2>1. AfterRead(t, content, fresh, size)
          = [t EXCEPT !.pos = to, !.started = TRUE, !.line = Feed([@ EXCEPT !.lines = <<>>], text)]
    BY DEF AfterRead
  <2> HIDE DEF to, text
  <2> QED BY <1>1, <2>1
<1> HIDE DEF at, k, data, to
<1>6. k \in Nat /\ at + k \in Nat
  BY <1>2, <1>3, <1>4
<1>7. ReadUpTo(at + k, to, content) /\ text = Piece(content, at + k, to)
  BY <1>3, <1>4
<1>8. text \in Texts
  BY <1>3, <1>6, <1>7, PieceIs
<1>9. from \in LineStates /\ IsLine(from)
  <2>1. t.line \in Lines /\ IsLine(t.line)
    BY <1>1 DEF LineStates
  <2>2. /\ from \in Lines /\ from.cells = t.line.cells /\ from.col = t.line.col
    BY <2>1, StartRecords DEF Lines
  <2> HIDE DEF from
  <2> QED BY <2>1, <2>2 DEF IsLine, LineStates
<1> HIDE DEF from, text
<1>10. Feed(from, text) = FeedBytes(from, text) /\ IsLine(FeedBytes(from, text))
  BY <1>8, <1>9, FastPath, FeedKeeps
<1>11. Feed(from, text) \in LineStates
  BY <1>10 DEF IsLine, LineStates
<1>12. /\ at + k > 0 <=> at > 0 \/ (~fresh /\ t.pos > 0)
       /\ ~fresh => at + k = t.pos
  BY <1>1, <1>2, <1>4, <1>6
<1> QED BY <1>1, <1>2, <1>3, <1>5, <1>6, <1>7, <1>10, <1>11, <1>12 DEF Tails, at, k, from

(* What a read hands back.                                                 *)
ChunkOf(chunk, tail, at) ==
    LET lines == tail.line.lines
        over  == Max({0, Len(lines) - MaxLines})
    IN  /\ chunk.lines = SubSeq(lines, over + 1, Len(lines)) /\ chunk.dropped = over
        /\ chunk.partial = tail.line.cells
        /\ chunk.tailOnly <=> over > 0 \/ (chunk.reset /\ at > 0)

(* No less than nothing.                                                   *)
LEMMA MaxOfZero == \A x \in Int : Max({0, x}) \in {0, x} /\ 0 <= Max({0, x})
<1> SUFFICES ASSUME NEW x \in Int PROVE Max({0, x}) \in {0, x} /\ 0 <= Max({0, x})
  OBVIOUS
<1> QED BY MaxOfTwo

(* How many lines are more than a read hands back.                         *)
LEMMA OverIs ==
    ASSUME NEW lines \in Seq(Texts)
    PROVE  LET over == Max({0, Len(lines) - MaxLines})
           IN  /\ over \in Nat /\ over <= Len(lines) /\ Len(lines) \in Nat
               /\ SubSeq(lines, over + 1, Len(lines)) \in Seq(Texts)
               /\ over = 0 => SubSeq(lines, over + 1, Len(lines)) = lines
               /\ over > 0 => SubSeq(lines, over + 1, Len(lines)) # <<>>
<1> DEFINE n == Len(lines)
           over == Max({0, n - MaxLines})
<1>1. n \in Nat /\ MaxLines \in Nat /\ MaxLines > 0
  BY LenProperties, LogTailAssumption
<1> HIDE DEF n
<1>2. over \in {0, n - MaxLines} /\ 0 <= over
  <2>1. \A x \in Int : Max({0, x}) \in {0, x} /\ 0 <= Max({0, x})
    BY ONLY MaxOfZero
  <2>2. n - MaxLines \in Int
    BY <1>1
  <2> QED BY <2>1, <2>2
<1> HIDE DEF over
<1>3. over \in Nat /\ over <= n /\ (over > 0 => n - over > 0)
  BY <1>1, <1>2
<1> DEFINE end == SubSeq(lines, over + 1, n)
<1>4. end \in Seq(Texts) /\ Len(end) = n - over
  BY <1>3, EndIsSuffix DEF n
<1>5. over = 0 => end = lines
  <2>1. SubSeq(lines, 1, Len(lines)) = lines
    OBVIOUS
  <2> QED BY <2>1 DEF n
<1> HIDE DEF end
<1>6. over > 0 => end # <<>>
  <2>1. over > 0 => Len(end) # 0
    BY <1>1, <1>3, <1>4
  <2> QED BY <1>4, <2>1, EmptySeq
<1> QED BY <1>1, <1>3, <1>4, <1>5, <1>6 DEF end, over, n

(* What a read hands back is that.                                         *)
LEMMA ChunkIs ==
    ASSUME NEW t \in Tails, NEW after \in Tails, NEW fresh \in BOOLEAN, NEW size \in Nat,
           ReadFrom(t, fresh, size) \in Nat
    PROVE  LET chunk == Chunk(t, fresh, size, after)
           IN  /\ chunk \in Chunks /\ chunk.error = "" /\ chunk.reset = fresh
               /\ ChunkOf(chunk, after, ReadFrom(t, fresh, size))
<1> DEFINE lines == after.line.lines
           over == Max({0, Len(lines) - MaxLines})
           end == SubSeq(lines, over + 1, Len(lines))
           only == over > 0 \/ (fresh /\ ReadFrom(t, fresh, size) > 0)
<1>1. lines \in Seq(Texts) /\ after.line.cells \in Texts
  BY DEF Tails, LineStates, Lines
<1>2. over \in Nat /\ end \in Seq(Texts)
  <2> HIDE DEF lines
  <2> QED BY <1>1, OverIs
<1>3. Chunk(t, fresh, size, after)
        = [lines |-> end, partial |-> after.line.cells, reset |-> fresh, error |-> "",
           tailOnly |-> only, dropped |-> over, size |-> size]
  BY DEF Chunk
<1>a. only \in BOOLEAN
  OBVIOUS
<1> SUFFICES ASSUME NEW chunk, chunk = Chunk(t, fresh, size, after)
             PROVE  /\ chunk \in Chunks /\ chunk.error = "" /\ chunk.reset = fresh
                    /\ ChunkOf(chunk, after, ReadFrom(t, fresh, size))
  OBVIOUS
<1>b. chunk = [lines |-> end, partial |-> after.line.cells, reset |-> fresh, error |-> "",
               tailOnly |-> only, dropped |-> over, size |-> size]
  BY <1>3
<1>4. chunk \in Chunks
  <2> HIDE DEF end, over, only
  <2> QED BY ONLY <1>1, <1>2, <1>a, <1>b DEF Chunks
<1>5. /\ chunk.lines = end /\ chunk.dropped = over /\ chunk.partial = after.line.cells
      /\ chunk.tailOnly = only /\ chunk.error = "" /\ chunk.reset = fresh
  <2> HIDE DEF end, over, only
  <2> QED BY ONLY <1>b
<1>6. ChunkOf(chunk, after, ReadFrom(t, fresh, size))
  BY <1>5 DEF ChunkOf
<1> QED BY <1>4, <1>5, <1>6

-----------------------------------------------------------------------------
(* What the screen makes of an answer. *)

(* A notice stands alone; content is on the screen when there is any, and  *)
(* without it there is neither a line nor a note of skipped ones.          *)
NoticeAlone(v) == v.message # "" => v.body = << Note("notice") >> /\ v.live = <<>> /\ ~v.hasContent
Content(v) == IF v.hasContent THEN v.body # <<>> ELSE Plainless(v.body)

(* The screen's own notes, but that of skipped lines, show nothing.        *)
LEMMA NotesShowNothing ==
    \A kind \in {"notice", "restarted"} :
       /\ << Note(kind) >> \in Seq(Entries) /\ << Note(kind) >> # <<>> /\ Plainless(<< Note(kind) >>)
       /\ SkipsIn(<< Note(kind) >>) = {} /\ ShownIn(<< Note(kind) >>) = <<>>
<1> SUFFICES ASSUME NEW kind \in {"notice", "restarted"}
             PROVE  /\ << Note(kind) >> \in Seq(Entries) /\ << Note(kind) >> # <<>> /\ Plainless(<< Note(kind) >>)
                    /\ SkipsIn(<< Note(kind) >>) = {} /\ ShownIn(<< Note(kind) >>) = <<>>
  OBVIOUS
<1> DEFINE s == << Note(kind) >>
<1>1. Note(kind) \in Entries /\ Note(kind).kind = kind
  BY StartRecords DEF Note, Entries
<1>2. s \in Seq(Entries) /\ Len(s) = 1 /\ DOMAIN s = 1..1 /\ s[1] = Note(kind)
  BY <1>1
<1> HIDE DEF s
<1>3. s # <<>>
  BY <1>2, EmptySeq
<1>4. Plainless(s)
  BY <1>1, <1>2 DEF Plainless
<1>5. SkipsIn(s) = {} /\ ShownIn(s) = <<>>
  BY <1>2, <1>4, ShowsNothing
<1> QED BY <1>2, <1>3, <1>4, <1>5 DEF s

(* Nor does an empty body.                                                 *)
LEMMA NothingShowsNothing ==
    <<>> \in Seq(Entries) /\ Plainless(<<>>) /\ SkipsIn(<<>>) = {} /\ ShownIn(<<>>) = <<>>
<1>1. <<>> \in Seq(Entries) /\ Plainless(<<>>)
  BY DEF Plainless
<1> QED BY <1>1, ShowsNothing

(* The fields of a view.                                                   *)
LEMMA ViewFields ==
    ASSUME NEW v \in Views
    PROVE  /\ v.which \in {Out, Err} /\ v.tail \in Tails /\ v.body \in Seq(Entries) /\ v.live \in Texts
           /\ v.message \in Messages /\ v.hasContent \in BOOLEAN /\ v.tailOnly \in BOOLEAN
           /\ v = [which |-> v.which, tail |-> v.tail, body |-> v.body, live |-> v.live,
                   message |-> v.message, hasContent |-> v.hasContent, tailOnly |-> v.tailOnly]
BY DEF Views

(* After a notice there is nothing else on the screen.                     *)
LEMMA NoticeIs ==
    ASSUME NEW v \in Views, NEW kind \in Messages, kind # "", NoticeAlone(v), Content(v)
    PROVE  LET w == Notice(v, kind)
           IN  /\ w \in Views /\ w.which = v.which /\ w.tail = v.tail /\ w.tailOnly = v.tailOnly
               /\ w.message = kind /\ NoticeAlone(w) /\ Content(w)
               /\ w.body = << Note("notice") >> /\ w.live = <<>> /\ ~w.hasContent
<1>1. << Note("notice") >> \in Seq(Entries) /\ Plainless(<< Note("notice") >>) /\ <<>> \in Texts
  BY NotesShowNothing, StartRecords
<1>2. CASE v.message = kind
  <2>1. Notice(v, kind) = v
    BY <1>2 DEF Notice
  <2>2. v.body = << Note("notice") >> /\ v.live = <<>> /\ ~v.hasContent
    BY <1>2 DEF NoticeAlone
  <2> QED BY <1>2, <2>1, <2>2
<1>3. CASE v.message # kind
  <2>1. ASSUME NEW w, w = [v EXCEPT !.body = << Note("notice") >>, !.live = <<>>,
                                    !.message = kind, !.hasContent = FALSE]
        PROVE  /\ w \in Views /\ w.which = v.which /\ w.tail = v.tail /\ w.tailOnly = v.tailOnly
               /\ w.message = kind /\ NoticeAlone(w) /\ Content(w)
               /\ w.body = << Note("notice") >> /\ w.live = <<>> /\ ~w.hasContent
    <3>0. v = [which |-> v.which, tail |-> v.tail, body |-> v.body, live |-> v.live,
               message |-> v.message, hasContent |-> v.hasContent, tailOnly |-> v.tailOnly]
      BY ViewFields
    <3>1. /\ w = [which |-> w.which, tail |-> w.tail, body |-> w.body, live |-> w.live,
                  message |-> w.message, hasContent |-> w.hasContent, tailOnly |-> w.tailOnly]
          /\ w.which = v.which /\ w.tail = v.tail /\ w.body = << Note("notice") >> /\ w.live = <<>>
          /\ w.message = kind /\ w.hasContent = FALSE /\ w.tailOnly = v.tailOnly
      BY ONLY <2>1, <3>0
    <3>2. w \in Views
      BY <1>1, <3>1, ViewFields DEF Views
    <3> QED BY <1>1, <3>1, <3>2 DEF NoticeAlone, Content
  <2> QED BY <1>3, <2>1 DEF Notice
<1> QED BY <1>2, <1>3

(* The screen before the lines of a chunk are written on it.               *)
LEMMA ClearedIs ==
    ASSUME NEW v \in Views, NEW chunk \in Chunks, NoticeAlone(v), Content(v)
    PROVE  LET c == Cleared(v, chunk)
           IN  /\ c \in Views /\ c.which = v.which /\ c.tail = v.tail /\ c.tailOnly = v.tailOnly
               /\ c.message = "" /\ Content(c)
               /\ chunk.reset => ~c.hasContent
               /\ ~chunk.reset => /\ c.hasContent = v.hasContent
                                  /\ SkipsIn(c.body) = SkipsIn(v.body)
                                  /\ ShownIn(c.body) = ShownIn(v.body)
<1>1. chunk.reset \in BOOLEAN
  BY DEF Chunks
<1>2. /\ << Note("notice") >> \in Seq(Entries) /\ << Note("restarted") >> \in Seq(Entries)
      /\ Plainless(<< Note("restarted") >>)
      /\ SkipsIn(<< Note("notice") >>) = {} /\ ShownIn(<< Note("notice") >>) = <<>>
  BY NotesShowNothing
<1>3. <<>> \in Seq(Entries) /\ Plainless(<<>>) /\ SkipsIn(<<>>) = {} /\ ShownIn(<<>>) = <<>>
  BY NothingShowsNothing
<1>4. CASE v.message # "" \/ Restarted(v, chunk)
  <2> DEFINE body == IF Restarted(v, chunk) THEN << Note("restarted") >> ELSE <<>>
  <2>1. body \in Seq(Entries) /\ Plainless(body)
    BY <1>2, <1>3
  <2>2. ~chunk.reset => v.message # "" /\ ~Restarted(v, chunk)
    BY <1>4 DEF Restarted
  <2>3. ~chunk.reset => body = <<>> /\ v.body = << Note("notice") >> /\ v.hasContent = FALSE
    BY <2>2, ViewFields DEF NoticeAlone
  <2>4. Cleared(v, chunk) = [v EXCEPT !.body = body, !.message = "", !.hasContent = FALSE]
    BY <1>4 DEF Cleared
  <2> HIDE DEF body
  <2>5. ASSUME NEW c, c = [v EXCEPT !.body = body, !.message = "", !.hasContent = FALSE]
        PROVE  /\ c \in Views /\ c.which = v.which /\ c.tail = v.tail /\ c.tailOnly = v.tailOnly
               /\ c.message = "" /\ c.hasContent = FALSE /\ c.body = body
    <3>0. v = [which |-> v.which, tail |-> v.tail, body |-> v.body, live |-> v.live,
               message |-> v.message, hasContent |-> v.hasContent, tailOnly |-> v.tailOnly]
      BY ViewFields
    <3>1. /\ c = [which |-> c.which, tail |-> c.tail, body |-> c.body, live |-> c.live,
                  message |-> c.message, hasContent |-> c.hasContent, tailOnly |-> c.tailOnly]
          /\ c.which = v.which /\ c.tail = v.tail /\ c.body = body /\ c.live = v.live
          /\ c.message = "" /\ c.hasContent = FALSE /\ c.tailOnly = v.tailOnly
      BY ONLY <2>5, <3>0
    <3> QED BY <2>1, <3>1, ViewFields DEF Views, Messages
  <2> QED BY <1>2, <1>3, <2>1, <2>3, <2>4, <2>5 DEF Content
<1>5. CASE ~(v.message # "" \/ Restarted(v, chunk))
  <2>1. Cleared(v, chunk) = v
    BY <1>5 DEF Cleared
  <2>2. v.message = "" /\ (chunk.reset => ~v.hasContent)
    BY <1>5 DEF Restarted
  <2> QED BY <2>1, <2>2
<1> QED BY <1>4, <1>5

(* The screen after an answer without an error.                            *)
LEMMA RenderedIs ==
    ASSUME NEW v \in Views, NEW f \in {Out, Err}, NEW chunk \in Chunks, NoticeAlone(v), Content(v),
           chunk.dropped > 0 => chunk.lines # <<>>
    PROVE  LET w == Rendered(v, f, chunk)
           IN  /\ w \in Views /\ w.which = v.which /\ w.tail = v.tail
               /\ w.tailOnly = TailOnly(v, chunk)
               /\ w.message \in {"", "nothing"} /\ NoticeAlone(w) /\ Content(w)
               /\ w.body # <<>> \/ w.live # <<>>
               /\ w.live = chunk.partial
               /\ chunk.dropped > 0 => SkipsIn(w.body) # {} /\ ShownIn(w.body) = chunk.lines
               /\ ~(chunk.dropped > 0) /\ chunk.reset => SkipsIn(w.body) = {} /\ ShownIn(w.body) = chunk.lines
               /\ ~(chunk.dropped > 0) /\ ~chunk.reset =>
                     /\ SkipsIn(w.body) = SkipsIn(v.body)
                     /\ ShownIn(w.body) = ShownIn(v.body) \o chunk.lines
<1> DEFINE u == [v EXCEPT !.tailOnly = TailOnly(v, chunk)]
           c == Cleared(u, chunk)
           skip == chunk.dropped > 0
           kept == c.body \o (IF skip THEN << Note("skipped") >> ELSE <<>>)
           body == kept \o Rows(f, chunk.lines)
           filled == [c EXCEPT !.body = body, !.hasContent = @ \/ chunk.lines # <<>>, !.live = chunk.partial]
<1>1. /\ chunk.reset \in BOOLEAN /\ chunk.tailOnly \in BOOLEAN /\ chunk.lines \in Seq(Texts)
      /\ chunk.partial \in Texts /\ chunk.dropped \in Nat
  BY DEF Chunks
<1>2. /\ u \in Views /\ u.which = v.which /\ u.tail = v.tail /\ u.body = v.body
      /\ u.message = v.message /\ u.hasContent = v.hasContent /\ u.tailOnly = TailOnly(v, chunk)
      /\ NoticeAlone(u) /\ Content(u)
  <2>1. TailOnly(v, chunk) \in BOOLEAN
    BY DEF TailOnly
  <2>2. /\ u \in Views /\ u.which = v.which /\ u.tail = v.tail /\ u.body = v.body /\ u.live = v.live
        /\ u.message = v.message /\ u.hasContent = v.hasContent /\ u.tailOnly = TailOnly(v, chunk)
    BY <2>1, ViewFields DEF Views
  <2> HIDE DEF u
  <2> QED BY <2>2 DEF NoticeAlone, Content
<1> HIDE DEF u
<1>3. /\ c \in Views /\ c.which = v.which /\ c.tail = v.tail /\ c.tailOnly = TailOnly(v, chunk)
      /\ c.message = "" /\ Content(c)
      /\ chunk.reset => ~c.hasContent
      /\ ~chunk.reset => /\ c.hasContent = v.hasContent
                         /\ SkipsIn(c.body) = SkipsIn(v.body)
                         /\ ShownIn(c.body) = ShownIn(v.body)
  <2>1. u \in Views /\ chunk \in Chunks /\ NoticeAlone(u) /\ Content(u)
    BY <1>2
  <2>2. /\ c \in Views /\ c.which = u.which /\ c.tail = u.tail /\ c.tailOnly = u.tailOnly
        /\ c.message = "" /\ Content(c)
        /\ chunk.reset => ~c.hasContent
        /\ ~chunk.reset => /\ c.hasContent = u.hasContent
                           /\ SkipsIn(c.body) = SkipsIn(u.body)
                           /\ ShownIn(c.body) = ShownIn(u.body)
    BY ONLY <2>1, ClearedIs
  <2> HIDE DEF c
  <2> QED BY <1>2, <2>2
<1> HIDE DEF c
<1>4. c.body \in Seq(Entries) /\ c.hasContent \in BOOLEAN
  BY <1>3, ViewFields
<1>5. /\ kept \in Seq(Entries)
      /\ skip => SkipsIn(kept) # {} /\ ShownIn(kept) = <<>>
      /\ ~skip => kept = c.body
  <2>1. skip => kept = c.body \o << Note("skipped") >>
    OBVIOUS
  <2>2. ~skip => kept = c.body
    <3>1. c.body \o <<>> = c.body
      BY <1>4, ConcatEmptySeq
    <3> QED BY <3>1
  <2> HIDE DEF kept, skip
  <2>3. /\ c.body \o << Note("skipped") >> \in Seq(Entries)
        /\ SkipsIn(c.body \o << Note("skipped") >>) # {}
        /\ ShownIn(c.body \o << Note("skipped") >>) = <<>>
    BY <1>4, SkipHides
  <2> QED BY <1>4, <2>1, <2>2, <2>3
<1> HIDE DEF kept
<1>6. /\ body \in Seq(Entries) /\ SkipsIn(body) = SkipsIn(kept)
      /\ ShownIn(body) = ShownIn(kept) \o chunk.lines
      /\ chunk.lines = <<>> => body = kept
      /\ chunk.lines # <<>> => body # <<>>
  <2>1. kept \in Seq(Entries) /\ f \in {Out, Err} /\ chunk.lines \in Seq(Texts)
    BY <1>1, <1>5
  <2> DEFINE lines == chunk.lines
  <2>2. lines \in Seq(Texts)
    BY <2>1
  <2> HIDE DEF lines
  <2>3. /\ kept \o Rows(f, lines) \in Seq(Entries)
        /\ SkipsIn(kept \o Rows(f, lines)) = SkipsIn(kept)
        /\ ShownIn(kept \o Rows(f, lines)) = ShownIn(kept) \o lines
        /\ lines = <<>> => kept \o Rows(f, lines) = kept
        /\ lines # <<>> => kept \o Rows(f, lines) # <<>>
    <3>1. kept \in Seq(Entries) /\ f \in {Out, Err}
      BY <2>1
    <3>2. SkipsIn(kept \o Rows(f, lines)) = SkipsIn(kept) /\ kept \o Rows(f, lines) \in Seq(Entries)
      BY ONLY <3>1, <2>2, RowsAdd
    <3>3. ShownIn(kept \o Rows(f, lines)) = ShownIn(kept) \o lines
      BY ONLY <3>1, <2>2, RowsAdd
    <3>4. Len(lines) = 0 => kept \o Rows(f, lines) = kept
      BY ONLY <3>1, <2>2, RowsAdd
    <3>5. Len(lines) # 0 => kept \o Rows(f, lines) # <<>>
      BY ONLY <3>1, <2>2, RowsAdd
    <3>6. lines = <<>> <=> Len(lines) = 0
      BY <2>2, EmptySeq
    <3> QED BY ONLY <3>2, <3>3, <3>4, <3>5, <3>6
  <2> QED BY <2>3 DEF lines
<1> HIDE DEF body
<1>7. /\ filled \in Views /\ filled.which = v.which /\ filled.tail = v.tail /\ filled.body = body
      /\ filled.tailOnly = TailOnly(v, chunk) /\ filled.message = "" /\ filled.live = chunk.partial
      /\ filled.hasContent = (c.hasContent \/ chunk.lines # <<>>)
  <2> DEFINE has == c.hasContent \/ chunk.lines # <<>>
  <2>1. has \in BOOLEAN
    OBVIOUS
  <2>2. ASSUME NEW w, w = [c EXCEPT !.body = body, !.hasContent = has, !.live = chunk.partial]
        PROVE  /\ w \in Views /\ w.which = v.which /\ w.tail = v.tail /\ w.body = body
               /\ w.tailOnly = TailOnly(v, chunk) /\ w.message = "" /\ w.live = chunk.partial
               /\ w.hasContent = has
    <3> HIDE DEF has
    <3>0. c = [which |-> c.which, tail |-> c.tail, body |-> c.body, live |-> c.live,
               message |-> c.message, hasContent |-> c.hasContent, tailOnly |-> c.tailOnly]
      BY <1>3, ViewFields
    <3>1. /\ w = [which |-> w.which, tail |-> w.tail, body |-> w.body, live |-> w.live,
                  message |-> w.message, hasContent |-> w.hasContent, tailOnly |-> w.tailOnly]
          /\ w.which = c.which /\ w.tail = c.tail /\ w.body = body /\ w.live = chunk.partial
          /\ w.message = c.message /\ w.hasContent = has /\ w.tailOnly = c.tailOnly
      BY ONLY <2>2, <3>0
    <3> QED BY <1>1, <1>3, <1>6, <2>1, <3>1, ViewFields DEF Views
  <2>3. filled = [c EXCEPT !.body = body, !.hasContent = has, !.live = chunk.partial]
    OBVIOUS
  <2> HIDE DEF filled, has
  <2>4. filled.hasContent = has /\ filled \in Views /\ filled.which = v.which /\ filled.tail = v.tail /\ filled.body = body
        /\ filled.tailOnly = TailOnly(v, chunk) /\ filled.message = "" /\ filled.live = chunk.partial
    BY <2>2, <2>3
  <2> QED BY <2>4 DEF has
<1>8. Rendered(v, f, chunk) = IF filled.hasContent \/ chunk.partial # <<>> THEN filled ELSE Notice(filled, "nothing")
  BY DEF Rendered, Rows, u, c, kept, body, skip
<1> HIDE DEF filled
<1>9. /\ skip => SkipsIn(body) # {} /\ ShownIn(body) = chunk.lines
      /\ ~skip /\ chunk.reset => SkipsIn(body) = {} /\ ShownIn(body) = chunk.lines
      /\ ~skip /\ ~chunk.reset => SkipsIn(body) = SkipsIn(v.body) /\ ShownIn(body) = ShownIn(v.body) \o chunk.lines
  <2> HIDE DEF skip
  <2>1. <<>> \o chunk.lines = chunk.lines
    BY <1>1, ConcatEmptySeq
  <2>2. chunk.reset => SkipsIn(c.body) = {} /\ ShownIn(c.body) = <<>>
    BY <1>3, <1>4, ShowsNothing DEF Content
  <2> QED BY <1>3, <1>5, <1>6, <2>1, <2>2
<1>10. ~filled.hasContent => chunk.lines = <<>> /\ ~skip /\ ~c.hasContent /\ body = c.body /\ Plainless(body)
  <2>1. ~filled.hasContent => chunk.lines = <<>> /\ ~c.hasContent
    BY <1>7
  <2>2. chunk.lines = <<>> => ~skip
    OBVIOUS
  <2> HIDE DEF skip
  <2> QED BY <1>3, <1>5, <1>6, <2>1, <2>2 DEF Content
<1>11. filled.hasContent => body # <<>>
  <2>1. CASE chunk.lines # <<>>
    BY <1>6, <2>1
  <2>2. CASE chunk.lines = <<>>
    <3>1. filled.hasContent => c.hasContent
      BY <1>7, <2>2
    <3>2. body = kept /\ ~skip
      BY <1>6, <2>2
    <3> HIDE DEF skip
    <3> QED BY <1>3, <1>5, <3>1, <3>2 DEF Content
  <2> QED BY <2>1, <2>2
<1>12. NoticeAlone(filled) /\ Content(filled)
  BY <1>7, <1>10, <1>11 DEF NoticeAlone, Content
<1> HIDE DEF skip
<1>13. CASE filled.hasContent \/ chunk.partial # <<>>
  <2>1. Rendered(v, f, chunk) = filled
    BY <1>8, <1>13
  <2>2. body # <<>> \/ chunk.partial # <<>>
    BY <1>11, <1>13
  <2> QED BY <1>7, <1>9, <1>12, <2>1, <2>2 DEF skip
<1>14. CASE ~(filled.hasContent \/ chunk.partial # <<>>)
  <2> DEFINE w == Notice(filled, "nothing")
  <2>1. Rendered(v, f, chunk) = w
    BY <1>8, <1>14
  <2>2. /\ w \in Views /\ w.which = v.which /\ w.tail = v.tail /\ w.tailOnly = TailOnly(v, chunk)
        /\ w.message = "nothing" /\ NoticeAlone(w) /\ Content(w)
        /\ w.body = << Note("notice") >> /\ w.live = <<>>
    <3>1. "nothing" \in Messages
      BY DEF Messages
    <3> QED BY <1>7, <1>12, <3>1, NoticeIs
  <2>3. chunk.partial = <<>> /\ ~skip /\ chunk.lines = <<>> /\ Plainless(body)
    BY <1>10, <1>14
  <2>4. SkipsIn(body) = {} /\ ShownIn(body) = <<>>
    BY <1>6, <2>3, ShowsNothing
  <2>5. SkipsIn(w.body) = SkipsIn(body) /\ ShownIn(w.body) = ShownIn(body) /\ w.body # <<>>
    BY <2>2, <2>4, NotesShowNothing
  <2> HIDE DEF w
  <2>6. /\ ~skip /\ chunk.reset => SkipsIn(w.body) = {} /\ ShownIn(w.body) = chunk.lines
        /\ ~skip /\ ~chunk.reset => SkipsIn(w.body) = SkipsIn(v.body) /\ ShownIn(w.body) = ShownIn(v.body) \o chunk.lines
    BY <1>9, <2>5
  <2> QED BY <2>1, <2>2, <2>3, <2>5, <2>6 DEF skip
<1> QED BY <1>13, <1>14

-----------------------------------------------------------------------------
(* The screen and the file. *)

(* The screen shows the file from the offset where it starts up to the one *)
(* it was read to, and says whether it starts at the start.                *)
Fits(v, b, data) ==
    LET whole == Whole(data, b.at, v.tail.pos)
    IN  /\ ReadUpTo(b.at, v.tail.pos, data)
        /\ v.tail.line.cells = whole.cells /\ v.tail.line.col = whole.col
        /\ v.live = whole.cells
        /\ IsSuffix(ShownIn(v.body), whole.lines)
        /\ SkipsIn(v.body) = {} => ShownIn(v.body) = whole.lines
        /\ v.tailOnly <=> b.at > 0 \/ SkipsIn(v.body) # {}

(* What one pass over a piece gives is a line state.                       *)
LEMMA WholeIs ==
    ASSUME NEW data \in Texts, NEW from \in Nat, NEW to \in Nat, ReadUpTo(from, to, data)
    PROVE  IsLine(Whole(data, from, to))
<1>1. Piece(data, from, to) \in Texts
  BY PieceIs
<1>2. IsLine(Blank)
  BY StartRecords DEF LineStates
<1> QED BY <1>1, <1>2, FeedKeeps DEF Whole

(* The job writes: what is on the screen still is what it was of the file. *)
LEMMA FitsGrows ==
    ASSUME NEW v \in Views, NEW b \in Starts, NEW data \in Texts, NEW c \in Char, Fits(v, b, data)
    PROVE  Fits(v, b, Append(data, c))
<1>1. b.at \in Nat /\ v.tail.pos \in Nat /\ ReadUpTo(b.at, v.tail.pos, data)
  BY DEF Starts, Views, Tails, Fits
<1>2. /\ ReadUpTo(b.at, v.tail.pos, Append(data, c))
      /\ Piece(Append(data, c), b.at, v.tail.pos) = Piece(data, b.at, v.tail.pos)
  BY <1>1, PieceStays
<1> QED BY <1>2 DEF Fits, Whole

(* A chunk whose lines are the end of the lines of a tail.                 *)
LEMMA ChunkSays ==
    ASSUME NEW chunk \in Chunks, NEW t \in Tails, NEW at, ChunkOf(chunk, t, at), NEW before \in Seq(Texts)
    PROVE  /\ chunk.dropped > 0 => chunk.lines # <<>>
           /\ chunk.dropped > 0 <=> ~(chunk.dropped = 0)
           /\ chunk.dropped = 0 => chunk.lines = t.line.lines
           /\ chunk.partial = t.line.cells
           /\ chunk.tailOnly <=> chunk.dropped > 0 \/ (chunk.reset /\ at > 0)
           /\ IsSuffix(chunk.lines, before \o t.line.lines)
           /\ t.line.lines \in Seq(Texts) /\ chunk.lines \in Seq(Texts)
<1> DEFINE lines == t.line.lines
           over == Max({0, Len(lines) - MaxLines})
           end == SubSeq(lines, over + 1, Len(lines))
<1>1. lines \in Seq(Texts)
  BY DEF Tails, LineStates, Lines
<1>2. /\ chunk.lines = end /\ chunk.dropped = over /\ chunk.partial = t.line.cells
      /\ chunk.tailOnly <=> over > 0 \/ (chunk.reset /\ at > 0)
  BY DEF ChunkOf
<1> HIDE DEF lines
<1>3. /\ over \in Nat /\ over <= Len(lines) /\ Len(lines) \in Nat /\ end \in Seq(Texts)
      /\ over = 0 => end = lines
      /\ over > 0 => end # <<>>
  BY <1>1, OverIs
<1> HIDE DEF over
<1>4. IsSuffix(end, before \o lines)
  BY <1>1, <1>3, EndIsSuffix
<1> HIDE DEF end
<1> QED BY <1>1, <1>2, <1>3, <1>4 DEF lines

(* A read that starts over puts on the screen what it read.                *)
LEMMA FitsAnew ==
    ASSUME NEW data \in Texts, NEW b \in Starts, NEW v \in Views, NEW f \in {Out, Err},
           NoticeAlone(v), Content(v),
           ReadUpTo(b.at, v.tail.pos, data), v.tail.line = Whole(data, b.at, v.tail.pos),
           NEW chunk \in Chunks, chunk.reset, ChunkOf(chunk, v.tail, b.at)
    PROVE  Fits(Rendered(v, f, chunk), b, data)
<1> DEFINE w == Rendered(v, f, chunk)
           t == v.tail
           whole == Whole(data, b.at, t.pos)
           skip == chunk.dropped > 0
<1>1. t \in Tails /\ chunk.reset \in BOOLEAN /\ chunk.tailOnly \in BOOLEAN
  BY DEF Views, Chunks
<1>2. /\ skip => chunk.lines # <<>>
      /\ skip <=> ~(chunk.dropped = 0)
      /\ chunk.dropped = 0 => chunk.lines = t.line.lines
      /\ chunk.partial = t.line.cells
      /\ chunk.tailOnly <=> skip \/ (chunk.reset /\ b.at > 0)
      /\ IsSuffix(chunk.lines, <<>> \o t.line.lines)
      /\ t.line.lines \in Seq(Texts)
  <2>1. <<>> \in Seq(Texts)
    OBVIOUS
  <2> HIDE DEF t
  <2> QED BY <1>1, <2>1, ChunkSays DEF t
<1>3. IsSuffix(chunk.lines, t.line.lines)
  <2>1. <<>> \o t.line.lines = t.line.lines
    BY <1>2, ConcatEmptySeq
  <2> QED BY <1>2, <2>1
<1>4. /\ w.tail = t /\ w.tailOnly = TailOnly(v, chunk) /\ w.live = chunk.partial
      /\ skip => SkipsIn(w.body) # {} /\ ShownIn(w.body) = chunk.lines
      /\ ~skip => SkipsIn(w.body) = {} /\ ShownIn(w.body) = chunk.lines
  BY <1>2, RenderedIs
<1> HIDE DEF w
<1>5. w.tailOnly <=> b.at > 0 \/ SkipsIn(w.body) # {}
  <2>1. w.tailOnly = chunk.tailOnly
    BY <1>1, <1>4 DEF TailOnly
  <2> HIDE DEF skip
  <2> QED BY <1>1, <1>2, <1>4, <2>1
<1>6. IsSuffix(ShownIn(w.body), whole.lines) /\ (SkipsIn(w.body) = {} => ShownIn(w.body) = whole.lines)
  <2> HIDE DEF skip
  <2> QED BY <1>2, <1>3, <1>4
<1> QED BY <1>2, <1>4, <1>5, <1>6 DEF Fits, w

(* A read that goes on adds to the screen what it read.                    *)
LEMMA FitsMore ==
    ASSUME NEW data \in Texts, NEW b \in Starts, NEW v \in Views, NEW f \in {Out, Err},
           Fits(v, b, data), NEW t \in Tails, NEW u \in Views, u.tail = t, u.body = v.body,
           u.tailOnly = v.tailOnly, NoticeAlone(u), Content(u),
           ReadUpTo(v.tail.pos, t.pos, data),
           t.line = FeedBytes([v.tail.line EXCEPT !.lines = <<>>], Piece(data, v.tail.pos, t.pos)),
           NEW chunk \in Chunks, ~chunk.reset, NEW at, ChunkOf(chunk, t, at)
    PROVE  Fits(Rendered(u, f, chunk), b, data)
<1> DEFINE w == Rendered(u, f, chunk)
           a == Whole(data, b.at, v.tail.pos)
           from == [v.tail.line EXCEPT !.lines = <<>>]
           q == Piece(data, v.tail.pos, t.pos)
           y == t.line
           x == Whole(data, b.at, t.pos)
           skip == chunk.dropped > 0
<1>1. /\ b.at \in Nat /\ v.tail \in Tails /\ v.tail.pos \in Nat /\ t.pos \in Nat /\ v.tail.line \in LineStates
      /\ chunk.reset \in BOOLEAN /\ chunk.tailOnly \in BOOLEAN /\ v.tailOnly \in BOOLEAN
      /\ chunk.lines \in Seq(Texts) /\ v.body \in Seq(Entries)
  BY DEF Starts, Views, Tails, Chunks
<1>2. /\ ReadUpTo(b.at, v.tail.pos, data)
      /\ v.tail.line.cells = a.cells /\ v.tail.line.col = a.col
      /\ IsSuffix(ShownIn(v.body), a.lines)
      /\ SkipsIn(v.body) = {} => ShownIn(v.body) = a.lines
      /\ v.tailOnly <=> b.at > 0 \/ SkipsIn(v.body) # {}
  BY DEF Fits
<1>3. /\ ReadUpTo(b.at, t.pos, data)
      /\ Piece(data, b.at, t.pos) = Piece(data, b.at, v.tail.pos) \o q
  BY <1>1, <1>2, PiecesJoin
<1>4. Piece(data, b.at, v.tail.pos) \in Texts /\ q \in Texts
  BY <1>1, <1>2, PieceIs
<1>5. x = FeedBytes(a, q)
  BY <1>3, <1>4, FeedConcat DEF Whole
<1>6. IsLine(a)
  BY <1>1, <1>2, WholeIs
<1>7. /\ IsLine(from) /\ from.lines = <<>> /\ from.cells = v.tail.line.cells /\ from.col = v.tail.line.col
  <2>1. v.tail.line \in Lines /\ IsLine(v.tail.line)
    BY <1>1 DEF LineStates
  <2>2. /\ from \in Lines /\ from.cells = v.tail.line.cells /\ from.col = v.tail.line.col
        /\ from.lines = <<>>
    BY <2>1, StartRecords DEF Lines
  <2> HIDE DEF from
  <2> QED BY <2>1, <2>2 DEF IsLine
<1>8. y = FeedBytes(from, q)
  OBVIOUS
<1> HIDE DEF a, from, q, x
<1>9. x.lines = a.lines \o y.lines /\ x.cells = y.cells /\ x.col = y.col
  <2>1. /\ IsLine(a) /\ IsLine(from) /\ from.lines = <<>> /\ a.cells = from.cells /\ a.col = from.col
        /\ q \in Texts
    BY <1>2, <1>4, <1>6, <1>7
  <2>2. LET z == FeedBytes(a, q)  s == FeedBytes(from, q)
        IN  z.lines = a.lines \o s.lines /\ z.cells = s.cells /\ z.col = s.col
    BY ONLY <2>1, FeedAddsLines
  <2> QED BY <1>5, <1>8, <2>2
<1>10. a.lines \in Seq(Texts)
  BY <1>6 DEF IsLine, Lines
<1>11. /\ skip => chunk.lines # <<>>
       /\ skip <=> ~(chunk.dropped = 0)
       /\ chunk.dropped = 0 => chunk.lines = y.lines
       /\ chunk.partial = y.cells
       /\ chunk.tailOnly <=> skip \/ (chunk.reset /\ at > 0)
       /\ IsSuffix(chunk.lines, a.lines \o y.lines)
       /\ y.lines \in Seq(Texts)
  BY <1>10, ChunkSays
<1>12. /\ w.tail = t /\ w.tailOnly = TailOnly(u, chunk) /\ w.live = chunk.partial
       /\ skip => SkipsIn(w.body) # {} /\ ShownIn(w.body) = chunk.lines
       /\ ~skip => SkipsIn(w.body) = SkipsIn(v.body) /\ ShownIn(w.body) = ShownIn(v.body) \o chunk.lines
  <2>1. /\ u \in Views /\ f \in {Out, Err} /\ chunk \in Chunks /\ NoticeAlone(u) /\ Content(u)
        /\ (chunk.dropped > 0 => chunk.lines # <<>>)
    BY <1>11
  <2>2. /\ w.tail = u.tail /\ w.tailOnly = TailOnly(u, chunk) /\ w.live = chunk.partial
        /\ chunk.dropped > 0 => SkipsIn(w.body) # {} /\ ShownIn(w.body) = chunk.lines
        /\ ~(chunk.dropped > 0) /\ ~chunk.reset =>
              SkipsIn(w.body) = SkipsIn(u.body) /\ ShownIn(w.body) = ShownIn(u.body) \o chunk.lines
    BY ONLY <2>1, RenderedIs
  <2>3. u.tail = t /\ u.body = v.body /\ ~chunk.reset
    OBVIOUS
  <2> HIDE DEF w
  <2> QED BY <2>2, <2>3
<1> HIDE DEF w, y
<1>13. w.tailOnly <=> b.at > 0 \/ SkipsIn(w.body) # {}
  <2>1. w.tailOnly <=> v.tailOnly \/ chunk.tailOnly
    BY <1>1, <1>12 DEF TailOnly
  <2>2. chunk.tailOnly <=> skip
    BY <1>11
  <2> HIDE DEF skip
  <2> QED BY <1>2, <1>12, <2>1, <2>2
<1>14. IsSuffix(ShownIn(w.body), x.lines) /\ (SkipsIn(w.body) = {} => ShownIn(w.body) = x.lines)
  <2>1. ShownIn(v.body) \in Seq(Texts)
    BY <1>1, ShownIs
  <2>2. IsSuffix(ShownIn(v.body) \o y.lines, a.lines \o y.lines)
    <3> DEFINE shown == ShownIn(v.body)
               before == a.lines
               new == y.lines
    <3>1. shown \in Seq(Texts) /\ before \in Seq(Texts) /\ IsSuffix(shown, before) /\ new \in Seq(Texts)
      BY <1>2, <1>10, <1>11, <2>1
    <3> HIDE DEF shown, before, new
    <3>2. IsSuffix(shown \o new, before \o new)
      BY ONLY <3>1, SuffixGrows
    <3> QED BY <3>2 DEF shown, before, new
  <2> HIDE DEF skip
  <2>3. CASE skip
    BY <1>9, <1>11, <1>12, <2>3
  <2>4. CASE ~skip
    <3>1. chunk.lines = y.lines
      BY <1>11, <2>4
    <3> QED BY <1>2, <1>9, <1>12, <2>2, <2>4, <3>1
  <2> QED BY <2>3, <2>4
<1> QED BY <1>3, <1>9, <1>11, <1>12, <1>13, <1>14 DEF Fits, w, x, y

-----------------------------------------------------------------------------
(* The inductive invariant. *)

(* A tail has an identity the file has had; what the screen was read from  *)
(* is under that identity, or the file has none like it any more.          *)
Known(t, b, now) ==
    /\ t.ident # NoIdent /\ t.ident < now.swaps + 3
    /\ t.ident = b.ident \/ t.ident # now.ident
    /\ b.swaps <= now.swaps

(* What the screen shows is of the file, and is the file as long as that   *)
(* has not been swapped.                                                   *)
ViewFits(v, b, d, now) ==
    v.tail.started /\ d = {} =>
       /\ v.message \in {"", "nothing"}
       /\ Known(v.tail, b, now)
       /\ b.swaps = now.swaps => Fits(v, b, now.data)

(* A read between its stat and its open: one that starts over, or one that *)
(* goes on from what the screen shows.                                     *)
OpenFits(r, v, b, d, now) ==
    IF r.fresh
    THEN r.tail.line = Blank /\ r.tail.ident # NoIdent /\ r.tail.ident < now.swaps + 3
    ELSE r.tail = v.tail /\ v.tail.started /\ (d = {} => v.tail.ident = b.ident)

(* An answer that starts over is the file as it was read.                  *)
AnewFits(r, now) ==
    /\ Known(r.tail, r.base, now)
    /\ r.base.swaps = now.swaps => /\ ReadUpTo(r.base.at, r.tail.pos, now.data)
                                   /\ r.tail.line = Whole(now.data, r.base.at, r.tail.pos)

(* An answer that goes on is what the file has after the place the screen  *)
(* was read to.                                                            *)
MoreFits(r, v, b, d, now) ==
    /\ v.tail.started /\ r.base.swaps <= now.swaps
    /\ d = {} =>
         /\ r.tail.ident = b.ident /\ r.tail.ident = v.tail.ident
         /\ r.base.swaps = b.swaps /\ b.swaps = now.swaps =>
              /\ ReadUpTo(v.tail.pos, r.tail.pos, now.data)
              /\ r.tail.line = FeedBytes([v.tail.line EXCEPT !.lines = <<>>],
                                         Piece(now.data, v.tail.pos, r.tail.pos))

AnswerFits(r, v, b, d, now) ==
    /\ r.chunk.error # "" => ~r.chunk.reset
    /\ r.chunk.error = "missing" => ~r.tail.started
    /\ r.chunk.error = "error" => IF r.fresh THEN ~r.tail.started ELSE r.tail = v.tail
    /\ r.chunk.error = "" /\ r.chunk.reset => AnewFits(r, now)
    /\ r.chunk.error = "" /\ ~r.chunk.reset => MoreFits(r, v, b, d, now)

Busy(r) == r.at \in {"stat", "open", "answer"}

(* A read for the file and the tail the screen has.                        *)
ReaderFits(r, v, b, d, now) ==
    /\ r.file = v.which
    /\ r.at = "stat" => r.tail = v.tail /\ ~r.fresh
    /\ r.at = "open" => OpenFits(r, v, b, d, now)
    /\ r.at = "answer" => AnswerFits(r, v, b, d, now)

LogViewTypes ==
    /\ file \in [{Out, Err} -> Files] /\ pathKnown \in BOOLEAN /\ view \in Views
    /\ reader \in Readers /\ base \in Starts /\ doubt \in SUBSET Doubts

LogViewIInv ==
    /\ LogViewTypes
    /\ \A f \in {Out, Err} : file[f].ident < file[f].swaps + 3
    /\ NoticeAlone(view) /\ Content(view)
    /\ ViewFits(view, base, doubt, file[view.which])
    /\ view.tail.started => HasPath(view.which)
    /\ Busy(reader) => HasPath(reader.file) /\ (reader.own \/ ~view.tail.started)
    /\ Busy(reader) /\ reader.own => ReaderFits(reader, view, base, doubt, file[view.which])
    /\ reader.at = "answer" /\ reader.chunk.error = "" => ChunkOf(reader.chunk, reader.tail, reader.base.at)
    /\ NeverBlank

-----------------------------------------------------------------------------
(* The file moves on. *)

(* What may become of a file: written to, or swapped for another.          *)
Later(now, later) ==
    \/ later = now
    \/ /\ later.ident = now.ident /\ later.swaps = now.swaps
       /\ \E c \in Char : later.data = Append(now.data, c)
    \/ later.swaps = now.swaps + 1 /\ later.ident \in {now.ident, NoIdent, now.swaps + 3}

(* A file has as many swaps as before or more, and once it is not the one  *)
(* an identity named it never is again.                                    *)
LEMMA LaterIs ==
    ASSUME NEW now \in Files, NEW later \in Files, Later(now, later), now.ident < now.swaps + 3
    PROVE  /\ now.swaps \in Nat /\ later.swaps \in Nat /\ now.swaps <= later.swaps
           /\ later.ident < later.swaps + 3
           /\ \A t \in Tails, b \in Starts : Known(t, b, now) => Known(t, b, later)
           /\ later.swaps = now.swaps => later.data = now.data \/ \E c \in Char : later.data = Append(now.data, c)
<1>1. /\ now.swaps \in Nat /\ later.swaps \in Nat /\ now.ident \in Nat /\ later.ident \in Nat
  BY DEF Files
<1>2. now.swaps <= later.swaps /\ later.ident < later.swaps + 3
  BY <1>1 DEF Later, NoIdent
<1>3. later.swaps = now.swaps => later.data = now.data \/ \E c \in Char : later.data = Append(now.data, c)
  <2>1. ~(now.swaps = now.swaps + 1)
    BY <1>1
  <2> QED BY <2>1 DEF Later
<1>4. ASSUME NEW t \in Tails, NEW b \in Starts, Known(t, b, now) PROVE Known(t, b, later)
  <2>1. t.ident \in Nat /\ b.swaps \in Nat
    BY DEF Tails, Starts
  <2>2. t.ident # NoIdent /\ t.ident < now.swaps + 3 /\ (t.ident = b.ident \/ t.ident # now.ident) /\ b.swaps <= now.swaps
    BY <1>4 DEF Known
  <2>3. t.ident < later.swaps + 3 /\ b.swaps <= later.swaps
    BY <1>1, <1>2, <2>1, <2>2
  <2>4. later.ident = now.ident \/ later.ident = NoIdent \/ later.ident = now.swaps + 3
    BY DEF Later
  <2>5. t.ident # now.swaps + 3
    BY <1>1, <2>1, <2>2
  <2>6. t.ident = b.ident \/ t.ident # later.ident
    BY <2>2, <2>4, <2>5
  <2> QED BY <2>2, <2>3, <2>6 DEF Known
<1> QED BY <1>1, <1>2, <1>3, <1>4

(* What the screen shows stays true of the file.                           *)
LEMMA ViewFitsLater ==
    ASSUME NEW now \in Files, NEW later \in Files, Later(now, later), now.ident < now.swaps + 3,
           NEW v \in Views, NEW b \in Starts, NEW d, ViewFits(v, b, d, now)
    PROVE  ViewFits(v, b, d, later)
<1> SUFFICES ASSUME v.tail.started, d = {}
             PROVE  /\ v.message \in {"", "nothing"} /\ Known(v.tail, b, later)
                    /\ b.swaps = later.swaps => Fits(v, b, later.data)
  BY DEF ViewFits
<1>1. /\ v.message \in {"", "nothing"} /\ Known(v.tail, b, now)
      /\ b.swaps = now.swaps => Fits(v, b, now.data)
  BY DEF ViewFits
<1>2. v.tail \in Tails /\ b.swaps \in Nat /\ now.data \in Texts
  BY DEF Views, Starts, Files
<1>3. Known(v.tail, b, later)
  BY <1>1, <1>2, LaterIs
<1>4. ASSUME b.swaps = later.swaps PROVE Fits(v, b, later.data)
  <2>1. now.swaps \in Nat /\ later.swaps \in Nat /\ now.swaps <= later.swaps /\ b.swaps <= now.swaps
    BY <1>1, LaterIs DEF Known
  <2>2. b.swaps = now.swaps /\ later.swaps = now.swaps
    BY <1>2, <1>4, <2>1
  <2>3. later.data = now.data \/ \E c \in Char : later.data = Append(now.data, c)
    BY <2>2, LaterIs
  <2> QED BY <1>1, <1>2, <2>2, <2>3, FitsGrows
<1> QED BY <1>1, <1>3, <1>4

(* What the thread has read stays true of the file.                        *)
LEMMA ReaderFitsLater ==
    ASSUME NEW now \in Files, NEW later \in Files, Later(now, later), now.ident < now.swaps + 3,
           NEW r \in Readers, NEW v \in Views, NEW b \in Starts, NEW d, ReaderFits(r, v, b, d, now)
    PROVE  ReaderFits(r, v, b, d, later)
<1>1. /\ r.tail \in Tails /\ r.base \in Starts /\ r.tail.pos \in Nat /\ r.tail.ident \in Nat /\ r.base.at \in Nat
      /\ r.base.swaps \in Nat /\ v.tail.pos \in Nat /\ b.swaps \in Nat /\ now.data \in Texts
  BY DEF Readers, Views, Tails, Starts, Files
<1>2. now.swaps \in Nat /\ later.swaps \in Nat /\ now.swaps <= later.swaps
  BY LaterIs
<1>3. \A from, to \in Nat : later.swaps = now.swaps /\ ReadUpTo(from, to, now.data) =>
         ReadUpTo(from, to, later.data) /\ Piece(later.data, from, to) = Piece(now.data, from, to)
  <2> SUFFICES ASSUME NEW from \in Nat, NEW to \in Nat, later.swaps = now.swaps, ReadUpTo(from, to, now.data)
               PROVE  ReadUpTo(from, to, later.data) /\ Piece(later.data, from, to) = Piece(now.data, from, to)
    OBVIOUS
  <2>1. later.data = now.data \/ \E c \in Char : later.data = Append(now.data, c)
    BY LaterIs
  <2>2. CASE later.data = now.data
    BY <2>2
  <2>3. ASSUME NEW c \in Char, later.data = Append(now.data, c)
        PROVE  ReadUpTo(from, to, later.data) /\ Piece(later.data, from, to) = Piece(now.data, from, to)
    <3> DEFINE s == now.data
    <3>1. s \in Texts /\ ReadUpTo(from, to, s)
      BY <1>1
    <3> HIDE DEF s
    <3>2. ReadUpTo(from, to, Append(s, c)) /\ Piece(Append(s, c), from, to) = Piece(s, from, to)
      BY <3>1, PieceStays
    <3> QED BY <2>3, <3>2 DEF s
  <2> QED BY <2>1, <2>2, <2>3
<1>4. ASSUME OpenFits(r, v, b, d, now) PROVE OpenFits(r, v, b, d, later)
  <2>1. r.tail.ident < now.swaps + 3 => r.tail.ident < later.swaps + 3
    BY <1>1, <1>2
  <2> QED BY <1>4, <2>1 DEF OpenFits
<1>5. ASSUME AnewFits(r, now) PROVE AnewFits(r, later)
  <2>1. Known(r.tail, r.base, later)
    BY <1>1, <1>5, LaterIs DEF AnewFits
  <2>2. ASSUME r.base.swaps = later.swaps
        PROVE  ReadUpTo(r.base.at, r.tail.pos, later.data) /\ r.tail.line = Whole(later.data, r.base.at, r.tail.pos)
    <3>1. r.base.swaps <= now.swaps
      BY <1>5 DEF AnewFits, Known
    <3>2. r.base.swaps = now.swaps /\ later.swaps = now.swaps
      BY <1>1, <1>2, <2>2, <3>1
    <3>3. ReadUpTo(r.base.at, r.tail.pos, now.data) /\ r.tail.line = Whole(now.data, r.base.at, r.tail.pos)
      BY <1>5, <3>2 DEF AnewFits
    <3> QED BY <1>1, <1>3, <3>2, <3>3 DEF Whole
  <2> QED BY <2>1, <2>2 DEF AnewFits
<1>6. ASSUME MoreFits(r, v, b, d, now) PROVE MoreFits(r, v, b, d, later)
  <2>1. v.tail.started /\ r.base.swaps <= now.swaps
    BY <1>6 DEF MoreFits
  <2>2. r.base.swaps <= later.swaps
    BY <1>1, <1>2, <2>1
  <2>3. ASSUME d = {}
        PROVE  /\ r.tail.ident = b.ident /\ r.tail.ident = v.tail.ident
               /\ r.base.swaps = b.swaps /\ b.swaps = later.swaps =>
                    /\ ReadUpTo(v.tail.pos, r.tail.pos, later.data)
                    /\ r.tail.line = FeedBytes([v.tail.line EXCEPT !.lines = <<>>],
                                               Piece(later.data, v.tail.pos, r.tail.pos))
    <3>1. r.tail.ident = b.ident /\ r.tail.ident = v.tail.ident
      BY <1>6, <2>3 DEF MoreFits
    <3>2. ASSUME r.base.swaps = b.swaps, b.swaps = later.swaps
          PROVE  /\ ReadUpTo(v.tail.pos, r.tail.pos, later.data)
                 /\ r.tail.line = FeedBytes([v.tail.line EXCEPT !.lines = <<>>],
                                            Piece(later.data, v.tail.pos, r.tail.pos))
      <4>1. later.swaps = now.swaps /\ b.swaps = now.swaps
        BY <1>1, <1>2, <2>1, <3>2
      <4>2. /\ ReadUpTo(v.tail.pos, r.tail.pos, now.data)
            /\ r.tail.line = FeedBytes([v.tail.line EXCEPT !.lines = <<>>], Piece(now.data, v.tail.pos, r.tail.pos))
        BY <1>6, <2>3, <3>2, <4>1 DEF MoreFits
      <4>3. /\ ReadUpTo(v.tail.pos, r.tail.pos, later.data)
            /\ Piece(later.data, v.tail.pos, r.tail.pos) = Piece(now.data, v.tail.pos, r.tail.pos)
        BY <1>1, <1>3, <4>1, <4>2
      <4> QED BY <4>2, <4>3
    <3> QED BY <3>1, <3>2
  <2> QED BY <2>1, <2>2, <2>3 DEF MoreFits
<1>7. ASSUME AnswerFits(r, v, b, d, now) PROVE AnswerFits(r, v, b, d, later)
  BY <1>5, <1>6, <1>7 DEF AnswerFits
<1> QED BY <1>4, <1>7 DEF ReaderFits

(* A step that only changes the files keeps the invariant.                 *)
LEMMA FilesMove ==
    ASSUME LogViewIInv, UNCHANGED <<pathKnown, view, reader, base, doubt>>,
           file' \in [{Out, Err} -> Files], \A f \in {Out, Err} : Later(file[f], file'[f])
    PROVE  LogViewIInv'
<1>1. LogViewTypes /\ view.which \in {Out, Err}
  BY DEF LogViewIInv, LogViewTypes, Views
<1> DEFINE now == file[view.which]
           later == file'[view.which]
<1>2. now \in Files /\ later \in Files /\ Later(now, later) /\ now.ident < now.swaps + 3
  BY <1>1 DEF LogViewIInv, LogViewTypes
<1>3. \A f \in {Out, Err} : file'[f].ident < file'[f].swaps + 3
  <2> SUFFICES ASSUME NEW f \in {Out, Err} PROVE file'[f].ident < file'[f].swaps + 3
    OBVIOUS
  <2>1. file[f] \in Files /\ file'[f] \in Files /\ Later(file[f], file'[f]) /\ file[f].ident < file[f].swaps + 3
    BY <1>1 DEF LogViewIInv, LogViewTypes
  <2> QED BY <2>1, LaterIs
<1> HIDE DEF now, later
<1>4. view \in Views /\ base \in Starts /\ reader \in Readers
  BY <1>1 DEF LogViewTypes
<1>5. ViewFits(view, base, doubt, later)
  <2>1. ViewFits(view, base, doubt, now)
    BY DEF LogViewIInv, now
  <2> QED BY <1>2, <1>4, <2>1, ViewFitsLater
<1>6. Busy(reader) /\ reader.own => ReaderFits(reader, view, base, doubt, later)
  <2>1. Busy(reader) /\ reader.own => ReaderFits(reader, view, base, doubt, now)
    BY DEF LogViewIInv, now
  <2> QED BY <1>2, <1>4, <2>1, ReaderFitsLater
<1>7. LogViewTypes'
  BY <1>1 DEF LogViewTypes
<1> QED BY <1>3, <1>5, <1>6, <1>7 DEF LogViewIInv, HasPath, NeverBlank, later

-----------------------------------------------------------------------------
(* The steps. *)

(* The job writes, truncates, rotates or removes the file.                 *)
LEMMA JobKeeps ==
    ASSUME LogViewIInv, Write \/ Truncate \/ Rotate \/ Unlink
    PROVE  LogViewIInv'
<1>1. file \in [{Out, Err} -> Files] /\ Out \in {Out, Err} /\ file[Out] \in Files
  BY DEF LogViewIInv, LogViewTypes
<1>2. /\ file[Out].ident \in Nat /\ file[Out].data \in Texts /\ file[Out].swaps \in Nat
      /\ file[Out] = [ident |-> file[Out].ident, data |-> file[Out].data, swaps |-> file[Out].swaps]
  BY <1>1 DEF Files
<1>3. ASSUME NEW later \in Files, Later(file[Out], later), file' = [file EXCEPT ![Out] = later]
      PROVE  file' \in [{Out, Err} -> Files] /\ \A f \in {Out, Err} : Later(file[f], file'[f])
  <2>1. file' \in [{Out, Err} -> Files]
    BY <1>1, <1>3
  <2>2. file'[Out] = later /\ \A f \in {Out, Err} : f # Out => file'[f] = file[f]
    BY <1>1, <1>3
  <2> QED BY <1>3, <2>1, <2>2 DEF Later
<1>4. CASE Write
  <2>1. PICK c \in {Len(file[Out].data) + 1 + 10 * file[Out].swaps, NL, CR} :
          file' = [file EXCEPT ![Out].data = Append(@, c)]
    BY <1>4 DEF Write
  <2>2. c \in Char
    <3>1. Len(file[Out].data) \in Nat
      BY <1>2, LenProperties DEF Texts
    <3>2. Len(file[Out].data) + 1 + 10 * file[Out].swaps \in Int
      BY <1>2, <3>1
    <3> QED BY <3>2 DEF Char
  <2> DEFINE later == [file[Out] EXCEPT !.data = Append(@, c)]
  <2>3. later.ident = file[Out].ident /\ later.swaps = file[Out].swaps /\ later.data = Append(file[Out].data, c)
        /\ later = [ident |-> later.ident, data |-> later.data, swaps |-> later.swaps]
    BY <1>2
  <2>4. Append(file[Out].data, c) \in Texts
    BY <1>2, <2>2, AppendProperties DEF Texts
  <2>5. file' = [file EXCEPT ![Out] = later]
    BY <1>1, <2>1
  <2> HIDE DEF later
  <2>6. later \in Files /\ Later(file[Out], later)
    BY <1>2, <2>2, <2>3, <2>4 DEF Files, Later
  <2>7. UNCHANGED <<pathKnown, view, reader, base, doubt>>
    BY <1>4 DEF Write
  <2> QED BY <1>3, <2>5, <2>6, <2>7, FilesMove
<1>5. ASSUME NEW ident \in {file[Out].ident, NoIdent, file[Out].swaps + 3}, NEW data \in Texts, Swap(ident, data)
      PROVE  LogViewIInv'
  <2> DEFINE later == [ident |-> ident, data |-> data, swaps |-> file[Out].swaps + 1]
  <2>1. file' = [file EXCEPT ![Out] = later]
    BY <1>5 DEF Swap
  <2>2. ident \in Nat /\ file[Out].swaps + 1 \in Nat
    BY <1>2 DEF NoIdent
  <2>3. later \in Files /\ Later(file[Out], later)
    BY <2>2 DEF Files, Later
  <2> HIDE DEF later
  <2>4. UNCHANGED <<pathKnown, view, reader, base, doubt>>
    BY <1>5 DEF Swap
  <2> QED BY <1>3, <2>1, <2>3, <2>4, FilesMove
<1>6. <<>> \in Texts /\ << 100 + file[Out].swaps, NL >> \in Texts
  <2>1. 100 + file[Out].swaps \in Char /\ NL \in Char
    BY <1>2 DEF Char
  <2> QED BY <2>1 DEF Texts
<1>7. CASE Truncate
  BY <1>5, <1>6, <1>7 DEF Truncate
<1>8. CASE Rotate
  BY <1>5, <1>6, <1>8 DEF Rotate
<1>9. CASE Unlink
  BY <1>5, <1>6, <1>9 DEF Unlink
<1> QED BY <1>4, <1>7, <1>8, <1>9

(* A view that starts a read, or says that there is no file, or waits for  *)
(* an answer that is no longer for it.                                     *)
LEMMA KickKeeps ==
    ASSUME LogViewIInv, NEW v \in Views, NoticeAlone(v), Content(v), v.tail.started => HasPath(v.which),
           Kick(v), base' \in Starts, doubt' \in SUBSET Doubts,
           ViewFits(v, base', doubt', file[v.which]),
           reader.at = "idle" \/ ~v.tail.started, reader.at # "closed", UNCHANGED <<file, pathKnown>>
    PROVE  LogViewIInv'
<1>1. /\ LogViewTypes /\ reader \in Readers /\ v.which \in {Out, Err} /\ v.tail \in Tails
      /\ \A f \in {Out, Err} : file[f].ident < file[f].swaps + 3
  BY DEF LogViewIInv, LogViewTypes, Views
<1>2. \A f : HasPath(f)' <=> HasPath(f)
  BY DEF HasPath
<1>3. CASE reader.at = "idle" /\ ~HasPath(v.which)
  <2> DEFINE w == Notice(v, "noFile")
  <2>1. "noFile" \in Messages
    BY DEF Messages
  <2>2. /\ w \in Views /\ w.which = v.which /\ w.tail = v.tail /\ NoticeAlone(w) /\ Content(w)
        /\ w.body = << Note("notice") >>
    BY <2>1, NoticeIs
  <2>3. view' = w /\ reader' = reader
    BY <1>3 DEF Kick
  <2> HIDE DEF w
  <2>4. ~w.tail.started
    BY <1>3, <2>2
  <2>5. LogViewTypes'
    BY <1>1, <2>2, <2>3 DEF LogViewTypes
  <2>6. ViewFits(w, base', doubt', file[w.which])
    BY <2>4 DEF ViewFits
  <2>7. w.body # <<>>
    BY <2>2, NotesShowNothing
  <2>8. ~Busy(reader) /\ reader.at # "answer"
    BY <1>3 DEF Busy
  <2> QED BY <1>1, <1>2, <2>2, <2>3, <2>4, <2>5, <2>6, <2>7, <2>8 DEF LogViewIInv, NeverBlank
<1>4. CASE reader.at = "idle" /\ HasPath(v.which)
  <2> DEFINE r == Reading(v.which, v.tail)
  <2>1. r \in Readers /\ r.at = "stat" /\ r.file = v.which /\ r.own /\ r.tail = v.tail /\ ~r.fresh
    BY <1>1, ReadingIs
  <2>2. view' = v /\ reader' = r
    BY <1>4 DEF Kick
  <2> HIDE DEF r
  <2>3. LogViewTypes'
    BY <1>1, <2>1, <2>2 DEF LogViewTypes
  <2>4. ReaderFits(r, v, base', doubt', file[v.which])
    BY <2>1 DEF ReaderFits
  <2> QED BY <1>1, <1>2, <1>4, <2>1, <2>2, <2>3, <2>4 DEF LogViewIInv, NeverBlank
<1>5. CASE reader.at # "idle"
  <2>1. view' = v /\ reader' = [reader EXCEPT !.own = FALSE] /\ ~v.tail.started
    BY <1>5 DEF Kick
  <2>2. /\ reader' \in Readers /\ reader'.at = reader.at /\ reader'.file = reader.file /\ reader'.own = FALSE
        /\ reader'.tail = reader.tail /\ reader'.chunk = reader.chunk /\ reader'.base = reader.base
    BY <1>1, <2>1 DEF Readers
  <2>3. LogViewTypes'
    BY <1>1, <2>1, <2>2 DEF LogViewTypes
  <2>4. Busy(reader) => HasPath(reader.file)
    BY DEF LogViewIInv
  <2>5. reader.at = "answer" /\ reader.chunk.error = "" => ChunkOf(reader.chunk, reader.tail, reader.base.at)
    BY DEF LogViewIInv
  <2>6. Busy(reader') <=> Busy(reader)
    BY <2>2 DEF Busy
  <2> QED BY <1>1, <1>2, <1>5, <2>1, <2>2, <2>3, <2>4, <2>5, <2>6 DEF LogViewIInv, NeverBlank
<1> QED BY <1>3, <1>4, <1>5

(* The clock starts a read.                                                *)
LEMMA PollKeeps == ASSUME LogViewIInv, Poll PROVE LogViewIInv'
<1>1. /\ reader.at = "idle" /\ reader.at # "closed" /\ Kick(view) /\ base' = base /\ doubt' = doubt
      /\ UNCHANGED <<file, pathKnown>>
  BY DEF Poll
<1>2. /\ view \in Views /\ base' \in Starts /\ doubt' \in SUBSET Doubts
      /\ NoticeAlone(view) /\ Content(view) /\ (view.tail.started => HasPath(view.which))
      /\ ViewFits(view, base', doubt', file[view.which])
  BY <1>1 DEF LogViewIInv, LogViewTypes
<1> QED BY <1>1, <1>2, KickKeeps

(* Another file, or another width.                                         *)
LEMMA AnewKeeps ==
    ASSUME LogViewIInv, NEW v \in Views, ~v.tail.started, v.message = "", v.body = <<>>, v.hasContent = FALSE, Anew(v)
    PROVE  LogViewIInv'
<1>1. /\ reader.at # "closed" /\ Kick(v) /\ base' = Nowhere /\ doubt' = {} /\ UNCHANGED <<file, pathKnown>>
  BY DEF Anew
<1>2. base' \in Starts /\ doubt' \in SUBSET Doubts
  BY <1>1, StartRecords
<1>3. NoticeAlone(v) /\ Content(v) /\ ViewFits(v, base', doubt', file[v.which])
  BY NothingShowsNothing DEF NoticeAlone, Content, ViewFits
<1> QED BY <1>1, <1>2, <1>3, KickKeeps

(* The user shows the other file, or resizes the terminal.                 *)
LEMMA UserKeeps ==
    ASSUME LogViewIInv, (\E f \in {Out, Err} : ShowFile(f)) \/ Retail
    PROVE  LogViewIInv'
<1>1. ASSUME NEW f \in {Out, Err}, ShowFile(f) PROVE LogViewIInv'
  <2>1. Anew(ViewOf(f))
    BY <1>1 DEF ShowFile
  <2>2. <<>> \in Texts
    BY StartRecords
  <2>3. LET v == ViewOf(f)
        IN  v \in Views /\ ~v.tail.started /\ v.message = "" /\ v.body = <<>> /\ v.hasContent = FALSE
    BY <2>2, ViewOfIs
  <2> QED BY <2>1, <2>3, AnewKeeps
<1>2. CASE Retail
  <2>1. Anew([ViewOf(view.which) EXCEPT !.live = view.live])
    BY <1>2 DEF Retail
  <2>2. view.which \in {Out, Err} /\ view.live \in Texts
    BY DEF LogViewIInv, LogViewTypes, Views
  <2>3. LET v == [ViewOf(view.which) EXCEPT !.live = view.live]
        IN  v \in Views /\ ~v.tail.started /\ v.message = "" /\ v.body = <<>> /\ v.hasContent = FALSE
    BY <2>2, ViewOfIs
  <2> QED BY <2>1, <2>3, AnewKeeps
<1> QED BY <1>1, <1>2

(* The screen is gone.                                                     *)
LEMMA CloseKeeps == ASSUME LogViewIInv, Close PROVE LogViewIInv'
<1>1. reader' = [Idle EXCEPT !.at = "closed"] /\ UNCHANGED <<file, pathKnown, view, base, doubt>>
  BY DEF Close
<1>2. reader' \in Readers /\ reader'.at = "closed"
  BY <1>1, StartRecords DEF Readers
<1>3. ~Busy(reader')
  BY <1>2 DEF Busy
<1>4. LogViewTypes'
  BY <1>1, <1>2 DEF LogViewIInv, LogViewTypes
<1>5. \A f : HasPath(f)' <=> HasPath(f)
  BY <1>1 DEF HasPath
<1> QED BY <1>1, <1>2, <1>3, <1>4, <1>5 DEF LogViewIInv, NeverBlank

(* A read that goes a step further.                                        *)
LEMMA ReaderMoves ==
    ASSUME LogViewIInv, Busy(reader), UNCHANGED <<file, pathKnown, view, base, doubt>>,
           reader' \in Readers, Busy(reader'), reader'.file = reader.file, reader'.own = reader.own,
           reader.own => ReaderFits(reader', view, base, doubt, file[view.which]),
           reader'.at = "answer" /\ reader'.chunk.error = "" => ChunkOf(reader'.chunk, reader'.tail, reader'.base.at)
    PROVE  LogViewIInv'
<1>1. LogViewTypes'
  BY DEF LogViewIInv, LogViewTypes
<1>2. reader'.at # "idle"
  BY DEF Busy
<1>3. \A f : HasPath(f)' <=> HasPath(f)
  BY DEF HasPath
<1> QED BY <1>1, <1>2, <1>3 DEF LogViewIInv, NeverBlank

(* The fields of the reader.                                               *)
LEMMA ReaderFields ==
    ASSUME NEW r \in Readers
    PROVE  /\ r.at \in {"idle", "stat", "open", "answer", "closed"} /\ r.file \in {Out, Err} /\ r.own \in BOOLEAN
           /\ r.tail \in Tails /\ r.fresh \in BOOLEAN /\ r.size \in Nat /\ r.chunk \in Chunks /\ r.base \in Starts
           /\ r = [at |-> r.at, file |-> r.file, own |-> r.own, tail |-> r.tail, fresh |-> r.fresh,
                   size |-> r.size, chunk |-> r.chunk, base |-> r.base]
BY DEF Readers

(* The thread has an answer: no file, or an error.                         *)
LEMMA AnsweredIs ==
    ASSUME reader \in Readers, NEW t \in Tails, NEW chunk \in Chunks, Answered(t, chunk)
    PROVE  /\ reader' \in Readers /\ reader'.at = "answer" /\ reader'.file = reader.file
           /\ reader'.own = reader.own /\ reader'.tail = t /\ reader'.fresh = reader.fresh
           /\ reader'.chunk = chunk /\ reader'.base = reader.base
<1>1. reader = [at |-> reader.at, file |-> reader.file, own |-> reader.own, tail |-> reader.tail, fresh |-> reader.fresh,
                size |-> reader.size, chunk |-> reader.chunk, base |-> reader.base]
  BY ReaderFields
<1>2. ASSUME NEW r, r = [reader EXCEPT !.at = "answer", !.tail = t, !.chunk = chunk]
      PROVE  /\ r = [at |-> r.at, file |-> r.file, own |-> r.own, tail |-> r.tail, fresh |-> r.fresh,
                     size |-> r.size, chunk |-> r.chunk, base |-> r.base]
             /\ r.at = "answer" /\ r.file = reader.file /\ r.own = reader.own /\ r.tail = t
             /\ r.fresh = reader.fresh /\ r.size = reader.size /\ r.chunk = chunk /\ r.base = reader.base
  BY ONLY <1>1, <1>2
<1>3. ASSUME NEW r, r = [reader EXCEPT !.at = "answer", !.tail = t, !.chunk = chunk]
      PROVE  r \in Readers
  BY <1>2, <1>3, ReaderFields DEF Readers
<1> QED BY <1>2, <1>3 DEF Answered

(* The stat.                                                               *)
LEMMA StatKeeps == ASSUME LogViewIInv, Stat PROVE LogViewIInv'
<1> DEFINE now == file[reader.file]
<1>1. /\ reader \in Readers /\ reader.file \in {Out, Err} /\ reader.tail \in Tails /\ reader.own \in BOOLEAN
      /\ now \in Files /\ view \in Views
  BY ReaderFields DEF LogViewIInv, LogViewTypes
<1>2. now.ident \in Nat /\ now.data \in Texts /\ Len(now.data) \in Nat /\ now.ident < now.swaps + 3
  <2>1. now.ident \in Nat /\ now.data \in Texts /\ now.ident < now.swaps + 3
    BY <1>1 DEF Files, LogViewIInv
  <2> HIDE DEF now
  <2> QED BY <2>1, LenProperties DEF Texts
<1>3. /\ reader.at = "stat" /\ Busy(reader) /\ UNCHANGED <<file, pathKnown, view, base, doubt>>
  BY DEF Stat, Busy
<1>4. reader.own => /\ reader.file = view.which /\ reader.tail = view.tail /\ ~reader.fresh
                    /\ ViewFits(view, base, doubt, now)
  BY <1>3 DEF LogViewIInv, ReaderFits
<1>5. CASE now.ident = NoIdent /\ Answered(AfterMissing(reader.tail), MissingChunk)
  <2>1. AfterMissing(reader.tail) \in Tails /\ ~AfterMissing(reader.tail).started
    BY <1>1, AfterFailureIs
  <2>2. MissingChunk \in Chunks /\ MissingChunk.error = "missing" /\ ~MissingChunk.reset
    BY StartRecords
  <2>3. /\ reader' \in Readers /\ reader'.at = "answer" /\ reader'.file = reader.file /\ reader'.own = reader.own
        /\ ~reader'.tail.started /\ reader'.chunk.error = "missing" /\ ~reader'.chunk.reset
    BY <1>1, <1>5, <2>1, <2>2, AnsweredIs
  <2>4. reader.own => ReaderFits(reader', view, base, doubt, file[view.which])
    BY <1>4, <2>3 DEF ReaderFits, AnswerFits
  <2>5. Busy(reader')
    BY <2>3 DEF Busy
  <2>6. ~(reader'.chunk.error = "")
    BY <2>3
  <2> QED BY <1>3, <2>3, <2>4, <2>5, <2>6, ReaderMoves
<1>6. CASE now.ident # NoIdent /\ Answered(reader.tail, ErrorChunk)
  <2>1. ErrorChunk \in Chunks /\ ErrorChunk.error = "error" /\ ~ErrorChunk.reset
    BY StartRecords
  <2>2. /\ reader' \in Readers /\ reader'.at = "answer" /\ reader'.file = reader.file /\ reader'.own = reader.own
        /\ reader'.tail = reader.tail /\ reader'.fresh = reader.fresh
        /\ reader'.chunk.error = "error" /\ ~reader'.chunk.reset
    BY <1>1, <1>6, <2>1, AnsweredIs
  <2>3. reader.own => ReaderFits(reader', view, base, doubt, file[view.which])
    BY <1>4, <2>2 DEF ReaderFits, AnswerFits
  <2>4. Busy(reader')
    BY <2>2 DEF Busy
  <2>5. ~(reader'.chunk.error = "")
    BY <2>2
  <2> QED BY <1>3, <2>2, <2>3, <2>4, <2>5, ReaderMoves
<1>7. CASE /\ now.ident # NoIdent
           /\ reader' = [reader EXCEPT
                !.at = "open", !.size = Len(now.data),
                !.fresh = IsFresh(reader.tail, now.ident, Len(now.data)),
                !.tail = AfterStat(reader.tail, now.ident, Len(now.data))]
  <2> DEFINE fresh == IsFresh(reader.tail, now.ident, Len(now.data))
             t == AfterStat(reader.tail, now.ident, Len(now.data))
             size == Len(now.data)
  <2>1. /\ t \in Tails /\ t.ident = now.ident /\ fresh \in BOOLEAN
        /\ fresh => t.pos = 0 /\ t.line = Blank
        /\ ~fresh => t = reader.tail /\ reader.tail.started /\ now.ident = reader.tail.ident
    <3> DEFINE old == reader.tail
               ident == now.ident
    <3>1. old \in Tails /\ ident \in Nat /\ size \in Nat
      BY <1>1, <1>2
    <3> HIDE DEF size, old, ident
    <3>2. LET u == AfterStat(old, ident, size)
          IN  /\ u \in Tails /\ u.ident = ident
              /\ IsFresh(old, ident, size) \in BOOLEAN
              /\ IsFresh(old, ident, size) => u.pos = 0 /\ u.line = Blank
              /\ ~IsFresh(old, ident, size) => u = old /\ old.started /\ ident = old.ident
      BY ONLY <3>1, AfterStatIs
    <3> QED BY <3>2 DEF size, old, ident
  <2>2. reader' = [reader EXCEPT !.at = "open", !.size = size, !.fresh = fresh, !.tail = t]
    BY <1>7
  <2>a. size \in Nat
    BY <1>2
  <2> HIDE DEF fresh, t, size
  <2>b. reader = [at |-> reader.at, file |-> reader.file, own |-> reader.own, tail |-> reader.tail, fresh |-> reader.fresh,
                size |-> reader.size, chunk |-> reader.chunk, base |-> reader.base]
    BY <1>1, ReaderFields
  <2>c. ASSUME NEW r, r = [reader EXCEPT !.at = "open", !.size = size, !.fresh = fresh, !.tail = t]
        PROVE  /\ r = [at |-> r.at, file |-> r.file, own |-> r.own, tail |-> r.tail, fresh |-> r.fresh,
                       size |-> r.size, chunk |-> r.chunk, base |-> r.base]
               /\ r.at = "open" /\ r.file = reader.file /\ r.own = reader.own /\ r.tail = t
               /\ r.fresh = fresh /\ r.size = size /\ r.chunk = reader.chunk /\ r.base = reader.base
    BY ONLY <2>b, <2>c
  <2>d. ASSUME NEW r, r = [reader EXCEPT !.at = "open", !.size = size, !.fresh = fresh, !.tail = t]
        PROVE  r \in Readers
    BY <1>1, <2>1, <2>a, <2>c, <2>d, ReaderFields DEF Readers
  <2>3. /\ reader' \in Readers /\ reader'.at = "open" /\ reader'.file = reader.file /\ reader'.own = reader.own
        /\ reader'.tail = t /\ reader'.fresh = fresh
    BY <2>2, <2>c, <2>d
  <2>4. ASSUME reader.own PROVE OpenFits(reader', view, base, doubt, now)
    <3>1. CASE fresh
      <4>1. t.line = Blank /\ t.ident # NoIdent /\ t.ident < now.swaps + 3
        <5> HIDE DEF now
        <5> QED BY <1>2, <1>7, <2>1, <3>1 DEF now
      <4> QED BY <2>3, <3>1, <4>1 DEF OpenFits
    <3>2. CASE ~fresh
      <4>1. t = view.tail /\ view.tail.started /\ now.ident = view.tail.ident
        BY <1>4, <2>1, <2>4, <3>2
      <4>2. doubt = {} => view.tail.ident = base.ident
        <5>1. doubt = {} => Known(view.tail, base, now)
          BY <1>4, <2>4, <4>1 DEF ViewFits
        <5> QED BY <4>1, <5>1 DEF Known
      <4> QED BY <2>3, <3>2, <4>1, <4>2 DEF OpenFits
    <3> QED BY <2>1, <3>1, <3>2
  <2>5. reader.own => ReaderFits(reader', view, base, doubt, file[view.which])
    <3>1. reader'.at # "stat" /\ reader'.at # "answer"
      BY <2>3
    <3> QED BY <1>4, <2>3, <2>4, <3>1 DEF ReaderFits
  <2>6. Busy(reader') /\ ~(reader'.at = "answer")
    BY <2>3 DEF Busy
  <2> QED BY <1>3, <2>3, <2>5, <2>6, ReaderMoves
<1> QED BY <1>5, <1>6, <1>7 DEF Stat

(* The open or the read fails.                                             *)
LEMMA OpenFailsKeeps == ASSUME LogViewIInv, OpenFails PROVE LogViewIInv'
<1>1. /\ reader \in Readers /\ reader.tail \in Tails /\ reader.own \in BOOLEAN /\ reader.fresh \in BOOLEAN
  BY ReaderFields DEF LogViewIInv, LogViewTypes
<1>2. /\ reader.at = "open" /\ Busy(reader) /\ UNCHANGED <<file, pathKnown, view, base, doubt>>
      /\ Answered(AfterReadError(reader.tail, reader.fresh), ErrorChunk)
  BY DEF OpenFails, Busy
<1> DEFINE t == AfterReadError(reader.tail, reader.fresh)
<1>3. /\ t \in Tails /\ (reader.fresh => ~t.started) /\ (~reader.fresh => t = reader.tail)
  <2>1. CASE reader.fresh
    <3>1. t = AfterReadError(reader.tail, TRUE)
      BY <1>1, <2>1
    <3> HIDE DEF t
    <3> QED BY <1>1, <2>1, <3>1, AfterFailureIs
  <2>2. CASE ~reader.fresh
    <3>1. t = reader.tail
      BY <2>2 DEF AfterReadError
    <3> QED BY <1>1, <2>2, <3>1
  <2> QED BY <2>1, <2>2
<1>4. ErrorChunk \in Chunks /\ ErrorChunk.error = "error" /\ ~ErrorChunk.reset
  BY StartRecords
<1>5. Answered(t, ErrorChunk)
  BY <1>2
<1> HIDE DEF t
<1>6. /\ reader' \in Readers /\ reader'.at = "answer" /\ reader'.file = reader.file /\ reader'.own = reader.own
      /\ reader'.tail = t /\ reader'.fresh = reader.fresh
      /\ reader'.chunk.error = "error" /\ ~reader'.chunk.reset
  BY <1>1, <1>3, <1>4, <1>5, AnsweredIs
<1>7. reader.own => /\ reader.file = view.which
                    /\ ~reader.fresh => reader.tail = view.tail
  BY <1>2 DEF LogViewIInv, ReaderFits, OpenFits
<1>8. reader.own => ReaderFits(reader', view, base, doubt, file[view.which])
  BY <1>3, <1>6, <1>7 DEF ReaderFits, AnswerFits
<1>9. Busy(reader') /\ ~(reader'.chunk.error = "")
  BY <1>6 DEF Busy
<1> QED BY <1>2, <1>6, <1>8, <1>9, ReaderMoves

(* The open and the read.                                                  *)
LEMMA ReadKeeps == ASSUME LogViewIInv, OpenAndRead PROVE LogViewIInv'
<1> DEFINE now == file[reader.file]
           old == reader.tail
           t == AfterRead(reader.tail, now.data, reader.fresh, reader.size)
           at == ReadFrom(reader.tail, reader.fresh, reader.size)
           start == at + Skipped(reader.tail, now.data, reader.fresh, reader.size)
           chunk == Chunk(reader.tail, reader.fresh, reader.size, t)
           b == [at |-> start, swaps |-> now.swaps, ident |-> now.ident]
<1>1. /\ reader \in Readers /\ reader.file \in {Out, Err} /\ reader.tail \in Tails /\ reader.own \in BOOLEAN
      /\ reader.fresh \in BOOLEAN /\ reader.size \in Nat /\ now \in Files /\ view \in Views /\ base \in Starts
  BY ReaderFields DEF LogViewIInv, LogViewTypes
<1>2. now.ident \in Nat /\ now.data \in Texts /\ now.swaps \in Nat /\ now.ident < now.swaps + 3
  BY <1>1 DEF Files, LogViewIInv
<1>3. /\ reader.at = "open" /\ Busy(reader) /\ UNCHANGED <<file, pathKnown, view, base, doubt>>
      /\ now.ident # NoIdent
      /\ reader' = [reader EXCEPT !.at = "answer", !.tail = t, !.chunk = chunk, !.base = b]
  BY DEF OpenAndRead, Busy
<1>4. /\ t \in Tails /\ t.started /\ t.ident = old.ident /\ at \in Nat /\ start \in Nat
      /\ ReadUpTo(start, t.pos, now.data)
      /\ t.line = FeedBytes([old.line EXCEPT !.lines = <<>>], Piece(now.data, start, t.pos))
      /\ start > 0 <=> at > 0 \/ (~reader.fresh /\ old.pos > 0)
      /\ ~reader.fresh => start = old.pos
  <2> HIDE DEF now
  <2> QED BY <1>1, <1>2, AfterReadIs
<1>5. chunk \in Chunks /\ chunk.error = "" /\ chunk.reset = reader.fresh /\ ChunkOf(chunk, t, at)
  <2> HIDE DEF t
  <2> QED BY <1>1, <1>4, ChunkIs
<1>6. b \in Starts /\ b.at = start /\ b.swaps = now.swaps /\ b.ident = now.ident
  <2> HIDE DEF start, now
  <2> QED BY <1>2, <1>4 DEF Starts
<1> HIDE DEF t, at, start, chunk, b
<1>a. reader = [at |-> reader.at, file |-> reader.file, own |-> reader.own, tail |-> reader.tail, fresh |-> reader.fresh,
                size |-> reader.size, chunk |-> reader.chunk, base |-> reader.base]
  BY <1>1, ReaderFields
<1>b. ASSUME NEW r, r = [reader EXCEPT !.at = "answer", !.tail = t, !.chunk = chunk, !.base = b]
      PROVE  /\ r = [at |-> r.at, file |-> r.file, own |-> r.own, tail |-> r.tail, fresh |-> r.fresh,
                     size |-> r.size, chunk |-> r.chunk, base |-> r.base]
             /\ r.at = "answer" /\ r.file = reader.file /\ r.own = reader.own /\ r.tail = t
             /\ r.fresh = reader.fresh /\ r.size = reader.size /\ r.chunk = chunk /\ r.base = b
  BY ONLY <1>a, <1>b
<1>c. ASSUME NEW r, r = [reader EXCEPT !.at = "answer", !.tail = t, !.chunk = chunk, !.base = b]
      PROVE  r \in Readers
  BY <1>1, <1>4, <1>5, <1>6, <1>b, <1>c, ReaderFields DEF Readers
<1>7. /\ reader' \in Readers /\ reader'.at = "answer" /\ reader'.file = reader.file /\ reader'.own = reader.own
      /\ reader'.tail = t /\ reader'.chunk = chunk /\ reader'.base = b
  BY <1>3, <1>b, <1>c
<1>8. ChunkOf(chunk, t, start)
  <2>1. chunk.reset /\ at > 0 <=> chunk.reset /\ start > 0
    BY <1>4, <1>5
  <2> QED BY <1>5, <2>1 DEF ChunkOf
<1>9. ASSUME reader.own PROVE AnswerFits(reader', view, base, doubt, now)
  <2>1. OpenFits(reader, view, base, doubt, now)
    BY <1>3, <1>9 DEF LogViewIInv, ReaderFits
  <2>2. ASSUME reader.fresh PROVE AnewFits(reader', now)
    <3>1. old.line = Blank /\ old.ident # NoIdent /\ old.ident < now.swaps + 3
      BY <2>1, <2>2 DEF OpenFits
    <3>2. [Blank EXCEPT !.lines = <<>>] = Blank
      BY DEF Blank
    <3>3. t.line = Whole(now.data, start, t.pos)
      BY <1>4, <3>1, <3>2 DEF Whole
    <3>4. Known(t, b, now)
      <4>1. b.swaps <= now.swaps
        BY <1>2, <1>6
      <4> QED BY <1>4, <1>6, <3>1, <4>1 DEF Known
    <3> QED BY <1>4, <1>6, <1>7, <3>3, <3>4 DEF AnewFits
  <2>3. ASSUME ~reader.fresh PROVE MoreFits(reader', view, base, doubt, now)
    <3>1. old = view.tail /\ view.tail.started /\ (doubt = {} => view.tail.ident = base.ident)
      BY <2>1, <2>3 DEF OpenFits
    <3>2. start = view.tail.pos /\ t.ident = view.tail.ident
      BY <1>4, <2>3, <3>1
    <3>3. b.swaps <= now.swaps
      BY <1>2, <1>6
    <3>4. /\ ReadUpTo(view.tail.pos, t.pos, now.data)
          /\ t.line = FeedBytes([view.tail.line EXCEPT !.lines = <<>>], Piece(now.data, view.tail.pos, t.pos))
      BY <1>4, <3>1, <3>2
    <3> QED BY <1>7, <3>1, <3>2, <3>3, <3>4 DEF MoreFits
  <2> QED BY <1>5, <1>7, <2>2, <2>3 DEF AnswerFits
<1>10. reader.own => ReaderFits(reader', view, base, doubt, file[view.which])
  <2>1. reader.own => reader.file = view.which
    BY <1>3 DEF LogViewIInv, ReaderFits
  <2> QED BY <1>7, <1>9, <2>1 DEF ReaderFits
<1>11. Busy(reader')
  BY <1>7 DEF Busy
<1> QED BY <1>3, <1>6, <1>7, <1>8, <1>10, <1>11, ReaderMoves

(* Nothing is in doubt after an answer only if it is the screen's own, no  *)
(* error took the place of what is shown, and an answer that goes on is of *)
(* the content the screen has.                                             *)
LEMMA DoubtIs ==
    ASSUME reader \in Readers, base \in Starts, doubt \in SUBSET Doubts
    PROVE  /\ DoubtAfter(reader.chunk) \in SUBSET Doubts
           /\ DoubtAfter(reader.chunk) = {} =>
                /\ reader.own
                /\ reader.chunk.error = "error" => reader.fresh
                /\ ~reader.chunk.reset => doubt = {}
                /\ reader.chunk.error = "" /\ ~reader.chunk.reset =>
                     \/ reader.base.swaps = base.swaps
                     \/ reader.base.ident # base.ident /\ reader.base.ident = reader.tail.ident
<1> DEFINE chunk == reader.chunk
           other == chunk.error = "" /\ ~chunk.reset /\ reader.base.swaps # base.swaps
           same == reader.base.ident = base.ident
           torn == reader.base.ident # reader.tail.ident
           A == IF ~reader.own THEN {"foreign"} ELSE {}
           B == IF chunk.error = "error" /\ ~reader.fresh THEN {"cleared"} ELSE {}
           C == IF other /\ same THEN {"rewritten"} ELSE {}
           D == IF other /\ torn THEN {"torn"} ELSE {}
           new == A \cup B \cup C \cup D
<1>1. DoubtAfter(chunk) = IF chunk.reset THEN new ELSE doubt \cup new
  BY DEF DoubtAfter
<1>2. new \in SUBSET Doubts
  BY DEF Doubts
<1>3. new = {} => A = {} /\ B = {} /\ C = {} /\ D = {}
  <2> HIDE DEF A, B, C, D
  <2> QED OBVIOUS
<1>4. /\ A = {} => reader.own
      /\ B = {} => (chunk.error = "error" => reader.fresh)
      /\ C = {} => ~(other /\ same)
      /\ D = {} => ~(other /\ torn)
  <2> HIDE DEF other, same, torn
  <2> QED OBVIOUS
<1> HIDE DEF A, B, C, D
<1>5. DoubtAfter(chunk) = {} => new = {} /\ (~chunk.reset => doubt = {})
  <2> HIDE DEF new
  <2>1. CASE chunk.reset
    BY <1>1, <2>1
  <2>2. CASE ~chunk.reset
    BY <1>1, <2>2
  <2> QED BY <2>1, <2>2
<1>6. DoubtAfter(chunk) \in SUBSET Doubts
  <2> HIDE DEF new
  <2> QED BY <1>1, <1>2
<1> HIDE DEF new
<1> QED BY <1>3, <1>4, <1>5, <1>6

(* The answer is shown.                                                    *)
LEMMA AnswerKeeps == ASSUME LogViewIInv, Answer PROVE LogViewIInv'
<1> DEFINE chunk == reader.chunk
           v == IF reader.own THEN [view EXCEPT !.tail = reader.tail] ELSE view
           now == file[view.which]
<1>1. /\ reader \in Readers /\ reader.file \in {Out, Err} /\ reader.tail \in Tails /\ reader.own \in BOOLEAN
      /\ reader.fresh \in BOOLEAN /\ reader.base \in Starts /\ chunk \in Chunks
      /\ view \in Views /\ view.which \in {Out, Err} /\ base \in Starts /\ doubt \in SUBSET Doubts
      /\ now \in Files /\ NoticeAlone(view) /\ Content(view)
  BY ReaderFields, ViewFields DEF LogViewIInv, LogViewTypes
<1>2. chunk.error \in {"", "missing", "error"} /\ chunk.reset \in BOOLEAN
  BY <1>1 DEF Chunks
<1>3. /\ reader.at = "answer" /\ Busy(reader)
      /\ view' = IF chunk.error # "" THEN Notice(v, chunk.error) ELSE Rendered(v, reader.file, chunk)
      /\ reader' = Idle
      /\ base' = CASE chunk.reset -> reader.base
                   [] chunk.error = "" /\ ~chunk.reset -> [base EXCEPT !.swaps = reader.base.swaps]
                   [] OTHER -> base
      /\ doubt' = DoubtAfter(chunk)
      /\ UNCHANGED <<file, pathKnown>>
  BY DEF Answer, Busy
<1>4. /\ v \in Views /\ v.which = view.which /\ v.body = view.body /\ v.live = view.live
      /\ v.message = view.message /\ v.hasContent = view.hasContent /\ v.tailOnly = view.tailOnly
      /\ (reader.own => v.tail = reader.tail) /\ (~reader.own => v = view)
  <2>1. CASE reader.own
    <3>1. v = [view EXCEPT !.tail = reader.tail]
      BY <2>1
    <3>2. /\ [view EXCEPT !.tail = reader.tail] \in Views
          /\ [view EXCEPT !.tail = reader.tail].which = view.which
          /\ [view EXCEPT !.tail = reader.tail].body = view.body
          /\ [view EXCEPT !.tail = reader.tail].live = view.live
          /\ [view EXCEPT !.tail = reader.tail].message = view.message
          /\ [view EXCEPT !.tail = reader.tail].hasContent = view.hasContent
          /\ [view EXCEPT !.tail = reader.tail].tailOnly = view.tailOnly
          /\ [view EXCEPT !.tail = reader.tail].tail = reader.tail
      BY <1>1 DEF Views
    <3> HIDE DEF v
    <3> QED BY <2>1, <3>1, <3>2
  <2>2. CASE ~reader.own
    BY <1>1, <2>2
  <2> QED BY <1>1, <2>1, <2>2
<1> HIDE DEF v
<1>5. NoticeAlone(v) /\ Content(v)
  BY <1>1, <1>4 DEF NoticeAlone, Content
<1>6. ASSUME chunk.error = ""
      PROVE  /\ ChunkOf(chunk, reader.tail, reader.base.at) /\ (chunk.dropped > 0 => chunk.lines # <<>>)
             /\ view' = Rendered(v, reader.file, chunk)
  <2>1. ChunkOf(chunk, reader.tail, reader.base.at)
    BY <1>3, <1>6 DEF LogViewIInv
  <2>2. <<>> \in Seq(Texts)
    OBVIOUS
  <2> DEFINE t == reader.tail
             c == reader.chunk
             at == reader.base.at
  <2>3. t \in Tails /\ c \in Chunks /\ ChunkOf(c, t, at)
    BY <1>1, <2>1
  <2> HIDE DEF t, c, at
  <2>4. c.dropped > 0 => c.lines # <<>>
    BY <2>2, <2>3, ChunkSays
  <2> QED BY <1>3, <1>6, <2>1, <2>4 DEF c
<1>7. /\ view' \in Views /\ view'.which = view.which /\ view'.tail = v.tail /\ NoticeAlone(view') /\ Content(view')
      /\ view'.body # <<>> \/ view'.live # <<>>
      /\ chunk.error = "" => view'.message \in {"", "nothing"}
  <2>1. CASE chunk.error = ""
    <3> DEFINE f == reader.file
               c == reader.chunk
               w == Rendered(v, f, c)
    <3>1. f \in {Out, Err} /\ c \in Chunks /\ (c.dropped > 0 => c.lines # <<>>) /\ view' = w
      BY <1>1, <1>6, <2>1
    <3> HIDE DEF f, c
    <3>2. /\ w \in Views /\ w.which = v.which /\ w.tail = v.tail /\ w.message \in {"", "nothing"}
          /\ NoticeAlone(w) /\ Content(w) /\ (w.body # <<>> \/ w.live # <<>>)
      BY <1>4, <1>5, <3>1, RenderedIs
    <3> HIDE DEF w
    <3> QED BY <1>4, <3>1, <3>2
  <2>2. CASE chunk.error # ""
    <3> DEFINE kind == chunk.error
               w == Notice(v, kind)
    <3>1. kind \in Messages /\ kind # "" /\ view' = w
      BY <1>2, <1>3, <2>2 DEF Messages
    <3> HIDE DEF kind
    <3>2. /\ w \in Views /\ w.which = v.which /\ w.tail = v.tail /\ NoticeAlone(w) /\ Content(w)
          /\ w.body = << Note("notice") >>
      BY <1>4, <1>5, <3>1, NoticeIs
    <3>3. w.body # <<>>
      BY <3>2, NotesShowNothing
    <3> HIDE DEF w
    <3> QED BY <1>4, <2>2, <3>1, <3>2, <3>3
  <2> QED BY <2>1, <2>2
<1>8. /\ doubt' \in SUBSET Doubts
      /\ doubt' = {} =>
                /\ reader.own
                /\ chunk.error = "error" => reader.fresh
                /\ ~chunk.reset => doubt = {}
                /\ chunk.error = "" /\ ~chunk.reset =>
                     \/ reader.base.swaps = base.swaps
                     \/ reader.base.ident # base.ident /\ reader.base.ident = reader.tail.ident
  BY <1>1, <1>3, DoubtIs
<1>9. base.swaps \in Nat /\ base.at \in Nat /\ base.ident \in Nat /\ reader.base.swaps \in Nat
      /\ base = [at |-> base.at, swaps |-> base.swaps, ident |-> base.ident]
  BY <1>1 DEF Starts
<1>10. base' \in Starts
  <2>1. CASE chunk.reset
    BY <1>1, <1>3, <2>1
  <2>2. CASE chunk.error = "" /\ ~chunk.reset
    <3>1. base' = [base EXCEPT !.swaps = reader.base.swaps]
      BY <1>3, <2>2
    <3>2. [base EXCEPT !.swaps = reader.base.swaps] \in Starts
      BY <1>1, <1>9 DEF Starts
    <3> QED BY <3>1, <3>2
  <2>3. CASE ~chunk.reset /\ ~(chunk.error = "")
    BY <1>1, <1>3, <2>3
  <2> QED BY <2>1, <2>2, <2>3
<1>11. ASSUME reader.own PROVE reader.file = view.which /\ AnswerFits(reader, view, base, doubt, now)
  BY <1>3, <1>11 DEF LogViewIInv, ReaderFits
<1>12. ~reader.own => ~view.tail.started
  BY <1>3 DEF LogViewIInv
<1>13. view'.tail.started => HasPath(view'.which)
  <2>1. HasPath(reader.file)
    BY <1>3 DEF LogViewIInv
  <2> QED BY <1>1, <1>4, <1>7, <1>11, <1>12, <2>1
<1>14. ViewFits(view', base', doubt', now)
  <2> SUFFICES ASSUME view'.tail.started, doubt' = {}
               PROVE  /\ view'.message \in {"", "nothing"} /\ Known(view'.tail, base', now)
                      /\ base'.swaps = now.swaps => Fits(view', base', now.data)
    BY DEF ViewFits
  <2>1. reader.own /\ view'.tail = reader.tail /\ reader.tail.started /\ v.tail = reader.tail
    BY <1>4, <1>7, <1>8
  <2>2. AnswerFits(reader, view, base, doubt, now) /\ reader.file = view.which
    BY <1>11, <2>1
  <2>3. chunk.error = ""
    BY <1>2, <1>8, <2>1, <2>2 DEF AnswerFits
  <2>4. view'.message \in {"", "nothing"}
    BY <1>7, <2>3
  <2>5. now.data \in Texts
    BY <1>1 DEF Files
  <2>6. CASE chunk.reset
    <3>1. AnewFits(reader, now) /\ base' = reader.base
      BY <1>3, <2>2, <2>3, <2>6 DEF AnswerFits
    <3>2. Known(view'.tail, base', now)
      BY <2>1, <3>1 DEF AnewFits
    <3>3. ASSUME base'.swaps = now.swaps PROVE Fits(view', base', now.data)
      <4> DEFINE data == now.data
                 b == reader.base
                 f == reader.file
                 c == reader.chunk
      <4>1. /\ ReadUpTo(b.at, v.tail.pos, data) /\ v.tail.line = Whole(data, b.at, v.tail.pos)
            /\ data \in Texts /\ b \in Starts /\ f \in {Out, Err} /\ c \in Chunks /\ c.reset
            /\ ChunkOf(c, v.tail, b.at)
        BY <1>1, <1>6, <2>1, <2>3, <2>5, <2>6, <3>1, <3>3 DEF AnewFits
      <4>2. view' = Rendered(v, f, c) /\ base' = b
        BY <1>6, <2>3, <3>1
      <4> HIDE DEF data, b, f, c
      <4>3. Fits(Rendered(v, f, c), b, data)
        BY <1>4, <1>5, <4>1, FitsAnew
      <4> QED BY <4>2, <4>3 DEF data
    <3> QED BY <2>4, <3>2, <3>3
  <2>7. CASE ~chunk.reset
    <3>1. /\ MoreFits(reader, view, base, doubt, now) /\ base' = [base EXCEPT !.swaps = reader.base.swaps]
          /\ doubt = {}
      BY <1>3, <1>8, <2>2, <2>3, <2>7 DEF AnswerFits
    <3>2. /\ view.tail.started /\ reader.base.swaps <= now.swaps
          /\ reader.tail.ident = base.ident /\ reader.tail.ident = view.tail.ident
      BY <3>1 DEF MoreFits
    <3>3. reader.base.swaps = base.swaps
      BY <1>8, <2>3, <2>7, <3>2
    <3>4. base' = base
      BY <1>9, <3>1, <3>3
    <3>5. ViewFits(view, base, doubt, now)
      BY DEF LogViewIInv
    <3>6. Known(view.tail, base, now) /\ (base.swaps = now.swaps => Fits(view, base, now.data))
      BY <3>1, <3>2, <3>5 DEF ViewFits
    <3>7. Known(view'.tail, base', now)
      BY <2>1, <3>2, <3>4, <3>6 DEF Known
    <3>8. ASSUME base'.swaps = now.swaps PROVE Fits(view', base', now.data)
      <4> DEFINE data == now.data
                 b == base
                 f == reader.file
                 c == reader.chunk
                 t == reader.tail
                 at == reader.base.at
                 old == view
      <4>1. /\ Fits(old, b, data)
            /\ ReadUpTo(old.tail.pos, t.pos, data)
            /\ t.line = FeedBytes([old.tail.line EXCEPT !.lines = <<>>], Piece(data, old.tail.pos, t.pos))
        BY <3>1, <3>3, <3>4, <3>6, <3>8 DEF MoreFits
      <4>2. /\ data \in Texts /\ b \in Starts /\ f \in {Out, Err} /\ c \in Chunks /\ ~c.reset
            /\ t \in Tails /\ old \in Views /\ ChunkOf(c, t, at) /\ v.tail = t /\ v.body = old.body /\ v.tailOnly = old.tailOnly
        BY <1>1, <1>4, <1>6, <2>1, <2>3, <2>5, <2>7
      <4>3. view' = Rendered(v, f, c) /\ base' = b
        BY <1>6, <2>3, <3>4
      <4> HIDE DEF data, b, f, c, t, at, old
      <4>4. Fits(Rendered(v, f, c), b, data)
        BY <1>4, <1>5, <4>1, <4>2, FitsMore
      <4> QED BY <4>3, <4>4 DEF data
    <3> QED BY <2>4, <3>7, <3>8
  <2> QED BY <1>2, <2>6, <2>7
<1>15. /\ Idle \in Readers /\ ~Busy(Idle) /\ Idle.at # "answer"
  BY StartRecords DEF Busy
<1>16. LogViewTypes'
  BY <1>3, <1>7, <1>8, <1>10, <1>15 DEF LogViewIInv, LogViewTypes
<1>18. NeverBlank'
  BY <1>7 DEF NeverBlank
<1>19. \A f \in {Out, Err} : file'[f].ident < file'[f].swaps + 3
  BY <1>3 DEF LogViewIInv
<1>20. ViewFits(view', base', doubt', file'[view'.which])
  BY <1>3, <1>7, <1>14
<1>21. view'.tail.started => HasPath(view.which)'
  BY <1>3, <1>7, <1>13 DEF HasPath
<1>22. ~Busy(reader') /\ reader'.at # "answer"
  BY <1>3, <1>15
<1> QED BY <1>7, <1>16, <1>18, <1>19, <1>20, <1>21, <1>22 DEF LogViewIInv

-----------------------------------------------------------------------------

(* The first read is about to start, and nothing is shown.                 *)
LEMMA LogViewStart == LogViewInit => LogViewIInv
<1> SUFFICES ASSUME LogViewInit PROVE LogViewIInv
  OBVIOUS
<1>1. <<>> \in Texts /\ << 1, NL >> \in Texts
  <2>1. 1 \in Char /\ NL \in Char
    BY DEF Char
  <2> QED BY <2>1 DEF Texts
<1>2. /\ file \in [{Out, Err} -> Files]
      /\ \A f \in {Out, Err} : file[f].ident < file[f].swaps + 3
  BY <1>1 DEF LogViewInit, Files
<1>3. /\ view = ViewOf(Out) /\ view \in Views /\ view.which = Out /\ ~view.tail.started /\ view.message = ""
      /\ view.body = <<>> /\ view.hasContent = FALSE /\ view.tail = NewTail
  <2>1. LET v == ViewOf(Out)
        IN  v \in Views /\ v.which = Out /\ ~v.tail.started /\ v.message = "" /\ v.body = <<>> /\ v.hasContent = FALSE
    BY <1>1, ViewOfIs
  <2>2. ViewOf(Out).tail = NewTail
    BY DEF ViewOf
  <2> QED BY <2>1, <2>2 DEF LogViewInit
<1>4. reader \in Readers /\ reader.at = "stat" /\ reader.file = Out /\ reader.own /\ reader.tail = NewTail /\ ~reader.fresh
  BY StartRecords, ReadingIs DEF LogViewInit
<1>5. base \in Starts /\ doubt \in SUBSET Doubts /\ pathKnown \in BOOLEAN
  BY StartRecords DEF LogViewInit
<1>6. LogViewTypes
  BY <1>2, <1>3, <1>4, <1>5 DEF LogViewTypes
<1>7. NoticeAlone(view) /\ Content(view) /\ ViewFits(view, base, doubt, file[view.which])
  BY <1>3, NothingShowsNothing DEF NoticeAlone, Content, ViewFits
<1>8. ReaderFits(reader, view, base, doubt, file[view.which])
  BY <1>3, <1>4 DEF ReaderFits
<1> QED BY <1>2, <1>3, <1>4, <1>6, <1>7, <1>8 DEF LogViewIInv, HasPath, NeverBlank

(* Every step keeps the invariant.                                         *)
LEMMA LogViewStep == LogViewIInv /\ [LogViewNext]_logViewVars => LogViewIInv'
<1> SUFFICES ASSUME LogViewIInv, [LogViewNext]_logViewVars PROVE LogViewIInv'
  OBVIOUS
<1>1. CASE Write \/ Truncate \/ Rotate \/ Unlink
  BY <1>1, JobKeeps
<1>2. CASE (\E f \in {Out, Err} : ShowFile(f)) \/ Retail
  BY <1>2, UserKeeps
<1>3. CASE Close
  BY <1>3, CloseKeeps
<1>4. CASE Poll
  BY <1>4, PollKeeps
<1>5. CASE Stat
  BY <1>5, StatKeeps
<1>6. CASE OpenFails
  BY <1>6, OpenFailsKeeps
<1>7. CASE OpenAndRead
  BY <1>7, ReadKeeps
<1>8. CASE Answer
  BY <1>8, AnswerKeeps
<1>9. CASE UNCHANGED logViewVars
  <2>1. UNCHANGED <<pathKnown, view, reader, base, doubt>> /\ file' = file
    BY <1>9 DEF logViewVars
  <2>2. file' \in [{Out, Err} -> Files] /\ \A f \in {Out, Err} : Later(file[f], file'[f])
    BY <2>1 DEF LogViewIInv, LogViewTypes, Later
  <2> QED BY <2>1, <2>2, FilesMove
<1> QED BY <1>1, <1>2, <1>3, <1>4, <1>5, <1>6, <1>7, <1>8, <1>9 DEF LogViewNext

(* What the screen shows, what the thread has read and what the job has   *)
(* written fit together: the inductive invariant of the viewer.            *)
THEOREM LogViewIInvCorrect == LogViewSpec => []LogViewIInv
BY LogViewStart, LogViewStep, PTL DEF LogViewSpec

(* Whatever the job does to its file and the user to the screen, and       *)
(* wherever the reads fall in between, the screen shows the file from      *)
(* where it starts, and says whether that is its start.                    *)
THEOREM FileShown == LogViewSpec => []ViewIsTheFile
<1>1. LogViewIInv => ViewIsTheFile
  <2> SUFFICES ASSUME LogViewIInv, Trusted PROVE ViewIsTheFile
    BY DEF ViewIsTheFile, BodyIsTheFile, StartIsOwned
  <2>1. Fits(view, base, file[view.which].data)
    BY DEF LogViewIInv, ViewFits, Trusted
  <2>2. Shown = ShownIn(view.body) /\ SkipNotes = SkipsIn(view.body)
    BY DEF Shown, ShownIn, SkipNotes
  <2> QED BY <2>1, <2>2 DEF Fits, Whole, Piece, ViewIsTheFile, BodyIsTheFile, StartIsOwned
<1> QED BY <1>1, LogViewIInvCorrect, PTL

(* Between two reads the screen is never a blank box.                      *)
THEOREM ScreenNotBlank == LogViewSpec => []NeverBlank
<1>1. LogViewIInv => NeverBlank
  BY DEF LogViewIInv
<1> QED BY <1>1, LogViewIInvCorrect, PTL
=============================================================================
