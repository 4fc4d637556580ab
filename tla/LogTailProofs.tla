---------------------------- MODULE LogTailProofs ----------------------------
(***************************************************************************)
(* Proofs about LogTail for any number of lines, files, names and faults,  *)
(* and for any limits of a batch.                                          *)
(*                                                                         *)
(* The first invariant relates what a tail has read ahead of its position  *)
(* to the file it reads: the records of the batch, the open record, and a  *)
(* staged or partial line follow each other without a gap.  The second     *)
(* adds the order of the files and what makes a record whole.              *)
(***************************************************************************)
EXTENDS LogTail, FiniteSetTheorems, TLAPS

\* A file that lost no bytes.
Intact(f) == f \notin cut \cup {None}

\* The lines of records, and how far the records and the open record of a tail go.
LinesOf(records) == UNION {ToSet(records[j]) : j \in DOMAIN records}
Flushed(t, b) == IF b.end = None THEN t.position.off ELSE b.end
ReadTo(t, b) == Flushed(t, b) + 2 * Len(t.open)

\* The files of the server: what is followed exists, and only a file with lines
\* lacks a newline.
FilesInv ==
    /\ \A f \in FileIds : Len(log[f]) <= written
    /\ at[current] \in FileIds /\ at[name] \in FileIds
    /\ half => log[at[current]] # <<>>

\* A start may resume here: between two lines, and in an intact file not past
\* its end and behind no line that was not admitted.
GoodPoint(p) ==
    /\ p.off % 2 = 0
    /\ Intact(p.file) =>
          /\ p.off <= Size(p.file)
          /\ \A i \in DOMAIN log[p.file] : 2 * i <= p.off => log[p.file][i] \in Accounted

PointsInv == \A p \in ResumePoints : GoodPoint(p)

\* The records of the batch and the open record end where they say.
Framed(t, b) ==
    /\ t \in TailRecords /\ b \in BatchRecords
    /\ t.position.off % 2 = 0 /\ b.end % 2 = 0
    /\ t.open # <<>> => t.end = ReadTo(t, b)
    /\ b.end # None => b.end > t.position.off
    /\ b.end = None <=> b.records = <<>>

\* After them comes a staged line or part of a line.
Shape(t, b) ==
    /\ Framed(t, b)
    /\ t.scan = ReadTo(t, b) + (IF t.staged = None THEN 0 ELSE 2) + (IF t.partial = None THEN 0 ELSE 1)
    /\ t.staged # None => t.open = <<>> /\ t.partial = None

\* The open record is what an intact file holds, and the records of the batch
\* leave out no line of it.
Faithful(t, b) ==
    LET f == t.position.file IN
    Intact(f) =>
        /\ \A k \in DOMAIN t.open, i \in DOMAIN log[f] :
              2 * i = Flushed(t, b) + 2 * k => t.open[k] = log[f][i]
        /\ \A i \in DOMAIN log[f] :
              t.position.off < 2 * i /\ 2 * i <= Flushed(t, b) => log[f][i] \in LinesOf(b.records)

\* So are a staged line and part of a line.
Content(t, b) ==
    /\ Faithful(t, b)
    /\ LET f == t.position.file IN
       Intact(f) =>
          /\ t.scan <= Size(f)
          /\ \A i \in DOMAIN log[f] : t.staged # None /\ 2 * i = t.scan => t.staged = log[f][i]
          /\ \A i \in DOMAIN log[f] : t.partial # None /\ 2 * i = t.scan + 1 => t.partial = log[f][i]

\* What the collector holds of a batch at each of its steps.
StepInv ==
    /\ pc \in {"scan", "admit"} => tail.position.file = batch.file /\ batch.file \in FileIds
    /\ pc = "admit" => tail.pending = batch.end
    /\ pc \notin {"admit", "dying"} => tail.pending = None
    /\ pc \notin {"scan", "admit", "dying"} => batch = NoBatch

IInv ==
    TypeOK /\ FilesInv /\ PointsInv /\ Shape(tail, batch) /\ Content(tail, batch) /\ StepInv

-----------------------------------------------------------------------------
(* The second invariant. *)

\* As long as no file lost bytes, the files hold the lines in the order they
\* were written, each file from the start of a record on.
FilesInOrder ==
    /\ \A f \in FileIds : \A i \in DOMAIN log[f] : log[f][i] <= written
    /\ \A f \in FileIds : \A i, j \in DOMAIN log[f] : log[f][j] = log[f][i] + (j - i)
    /\ \A f \in FileIds : log[f] # <<>> => log[f][1] \in Heads
    /\ \A f, g \in FileIds : f < g => \A i \in DOMAIN log[f], j \in DOMAIN log[g] : log[f][i] < log[g][j]
    /\ IF log[at[current]] = <<>>
       THEN written + 1 \in Lines => written + 1 \in Heads
       ELSE log[at[current]][Len(log[at[current]])] = written

\* Files and names are used in their order.
NamesInOrder ==
    /\ \A n \in Names : n > current => at[n] = None
    /\ \A m, n \in Names : m < n /\ at[n] # None => at[m] < at[n]
    /\ \A f \in FileIds : f > at[current] => log[f] = <<>>

LinesInv == NamesInOrder /\ (cut = {} => FilesInOrder) /\ (cut # {} => replay)

\* A record of lines that follow each other, of which only the first may open
\* one; a CSV record is complete.
Whole(r) ==
    /\ r # <<>>
    /\ \A k \in DOMAIN r : r[k] = r[1] + (k - 1)
    /\ \A k \in 2..Len(r) : r[k] \notin Heads
    /\ format = "quoted" => r[1] \in Heads /\ (r[Len(r)] + 1 \in Lines => r[Len(r)] + 1 \in Heads)

\* A record opens with its first line, or comes right after one of these lines.
Preceded(r, lines) == r[1] \in Heads \/ r[1] - 1 \in lines

\* In a CSV log, a record ends at the offset.
Boundary(f, off) ==
    format = "quoted" =>
        \A i \in DOMAIN log[f] : 2 * i = off /\ log[f][i] + 1 \in Lines => log[f][i] + 1 \in Heads

\* A line of the file between two offsets.
InStretch(l, f, from, to) == \E i \in DOMAIN log[f] : from < 2 * i /\ 2 * i <= to /\ l = log[f][i]

\* Records in the order of their lines.
InOrder(records) ==
    \A i, j \in DOMAIN records : i < j => records[i][Len(records[i])] < records[j][1]

\* What a tail has read is made of whole records of the file, in its order.
Sound(t, b) ==
    LET f == t.position.file IN
    cut = {} /\ f # None =>
        /\ \A k \in 2..Len(t.open) : t.open[k] \notin Heads
        /\ Boundary(f, Flushed(t, b))
        /\ InOrder(b.records)
        /\ \A j \in DOMAIN b.records :
              /\ Whole(b.records[j])
              /\ Preceded(b.records[j], Accounted \cup LinesOf(b.records))
              /\ \A k \in DOMAIN b.records[j] :
                    InStretch(b.records[j][k], f, t.position.off, Flushed(t, b))

\* So is what was admitted, and a record ends wherever a start may resume.
WholeInv ==
    cut = {} =>
        /\ \A i \in DOMAIN admitted : Whole(admitted[i]) /\ Preceded(admitted[i], Accounted)
        /\ \A p \in ResumePoints : p.file # None => Boundary(p.file, p.off)

\* Every line of the file past the offset comes after what was admitted.
Ahead(f, off) ==
    \A i \in DOMAIN log[f] : 2 * i > off => \A l \in Accounted : l < log[f][i]

\* Names are followed in their order, and no position is of a later file.
FollowInv ==
    /\ name <= current
    /\ tail.position.file <= at[name]
    /\ \A found \in older \cup {saved, offsets}, n \in Names :
          /\ found[n].file <= at[n]
          /\ n > name => found[n] = NoPosition

\* Unless records may appear again, whatever is read next comes after what was
\* admitted.
OrderInv ==
    ~replay =>
        /\ \A l \in Accounted : l <= written
        /\ pc = "down" => offsets = saved
        /\ \A p \in {tail.position, offsets[name]} : p.file # None => Ahead(p.file, p.off)
        /\ offsets[name].file = at[name] \/ Ahead(at[name], 0)
        /\ tail.position.file = at[name] \/ pc = "down" \/ Ahead(at[name], 0)
        /\ \A n \in Names : n > name /\ at[n] # None => Ahead(at[n], 0)

SInv == LinesInv /\ Sound(tail, batch) /\ WholeInv /\ FollowInv /\ OrderInv /\ RecordedOnceInOrder

USE BoundsAssumption, LinesAssumption, BudgetAssumption

-----------------------------------------------------------------------------
(* Values. *)

\* The values that the constants range over.
LEMMA ConstantTypes ==
    /\ MaxLine \in Nat /\ Lines \subseteq Nat /\ None \notin Lines /\ None \notin FileIds
    /\ FileIds \subseteq Nat /\ Names \subseteq Nat /\ Offsets \subseteq Nat /\ 0 \in Offsets
    /\ \A o \in Nat : o \in Offsets <=> o <= 2 * MaxLine
    /\ NoPosition \in Positions /\ NoBatch \in BatchRecords /\ NoOffsets \in [Names -> Positions]
  <1>1. MaxLine \in Nat /\ MaxFile \in Nat /\ MaxName \in Nat /\ RawLimit \in Nat
    BY DEF BoundsAssumption
  <1>2. /\ Lines \subseteq Nat /\ None \notin Lines /\ None \notin FileIds
        /\ FileIds \subseteq Nat /\ Names \subseteq Nat /\ Offsets \subseteq Nat /\ 0 \in Offsets
        /\ \A o \in Nat : o \in Offsets <=> o <= 2 * MaxLine
    BY <1>1 DEF Lines, None, FileIds, Names, Offsets
  <1>3. NoPosition \in Positions
    BY <1>2 DEF NoPosition, Positions
  <1>4. NoBatch \in BatchRecords
    BY <1>2 DEF NoBatch, BatchRecords, None
  <1> QED
    BY <1>1, <1>2, <1>3, <1>4 DEF NoOffsets

\* A tail that was just opened at a position.
LEMMA NewTailTypes ==
    ASSUME NEW p \in Positions
    PROVE  /\ NewTail(p) \in TailRecords
           /\ NewTail(p).position = p /\ NewTail(p).scan = p.off /\ NewTail(p).open = <<>>
           /\ NewTail(p).partial = None /\ NewTail(p).staged = None /\ NewTail(p).pending = None
  BY ConstantTypes DEF NewTail, TailRecords, Positions, None

\* The size of a file, in cells.
LEMMA SizeBounds ==
    ASSUME TypeOK, FilesInv, NEW f \in FileIds
    PROVE  Size(f) \in Offsets /\ Size(f) <= 2 * Len(log[f])
  <1>1. PICK n \in Nat : n = Len(log[f]) /\ n <= MaxLine
    BY ConstantTypes DEF TypeOK, FilesInv
  <1>2. half /\ f = at[current] => n > 0
    BY <1>1 DEF FilesInv, TypeOK
  <1>3. 2 * n \in Nat /\ 2 * n <= 2 * MaxLine /\ (n > 0 => 2 * n - 1 \in Nat)
    BY <1>1, ConstantTypes
  <1>4. CASE half /\ f = at[current]
    <2>1. Size(f) = 2 * n - 1
      BY <1>1, <1>4 DEF Size
    <2> QED
      BY <1>1, <1>2, <1>3, <1>4, <2>1, ConstantTypes
  <1>5. CASE ~(half /\ f = at[current])
    <2>1. Size(f) = 2 * n - 0
      BY <1>1, <1>5, Zenon DEF Size
    <2> QED
      BY <1>1, <1>3, <2>1, ConstantTypes
  <1> QED
    BY <1>4, <1>5

-----------------------------------------------------------------------------
(* The server's files. *)

FileTypes ==
    /\ log \in [FileIds -> Seq(Lines)]
    /\ half \in BOOLEAN /\ cut \subseteq FileIds
    /\ at \in [Names -> FileIds \cup {None}]
    /\ current \in Names /\ name \in Names /\ written \in 0..MaxLine

\* Every step that is not the server's, a truncation's or a power loss's leaves
\* the files alone, and follows the same name or the current one.
LEMMA FilesUnchanged ==
    ASSUME [Next]_vars, ~WriteHalf, ~Rotate, ~Truncate, ~PowerLoss
    PROVE  UNCHANGED fileVars /\ name' \in {name, current}
  BY DEF Next, vars, tailVars, Collector, BeginRead, ReadCell, EndRead, StartCycle, SourceLimitReached,
         NothingToAcknowledge, Accept, Save, Rescan, Start, ReadFails, Reject, AdmissionFatal, Kill

\* A step keeps the types of the files and the names in their order.
LEMMA FilesStep ==
    ASSUME FileTypes, FilesInv, [Next]_vars
    PROVE  FileTypes' /\ FilesInv'
  <1> USE DEF FileTypes, FilesInv
  <1>1. CASE WriteHalf
    <2>1. CASE half
      BY <1>1, <2>1 DEF WriteHalf, tailVars
    <2>2. CASE ~half
      <3>1. PICK w \in Nat : w = written /\ w < MaxLine /\ w + 1 \in Lines /\ w + 1 \in 0..MaxLine
        BY <1>1, <2>2, ConstantTypes DEF WriteHalf, Lines
      <3>2. PICK f \in FileIds : f = at[current]
        OBVIOUS
      <3>3. log' = [log EXCEPT ![f] = Append(@, w + 1)] /\ written' = w + 1
        BY <1>1, <2>2, <3>1, <3>2 DEF WriteHalf
      <3>4. /\ log' \in [FileIds -> Seq(Lines)] /\ log'[f] # <<>>
            /\ \A g \in FileIds : Len(log'[g]) <= Len(log[g]) + 1
        BY <3>1, <3>3
      <3>5. \A g \in FileIds : Len(log[g]) <= w /\ Len(log[g]) \in Nat /\ Len(log'[g]) \in Nat
        BY <3>1, <3>4
      <3>6. \A g \in FileIds : Len(log'[g]) <= w + 1
        BY <3>1, <3>4, <3>5
      <3>7. /\ half' = TRUE
            /\ UNCHANGED <<cut, at, current, name>>
        BY <1>1, <2>2 DEF WriteHalf, tailVars
      <3> QED
        BY <3>1, <3>2, <3>3, <3>4, <3>6, <3>7
    <2> QED
      BY <2>1, <2>2
  <1>2. CASE Rotate
    <2>1. PICK n \in Names : at' = [at EXCEPT ![n] = at[current] + 1] /\ current' = n
      BY <1>2 DEF Rotate
    <2>2. at[current] + 1 \in FileIds
      BY <1>2, ConstantTypes DEF Rotate, FileIds, BoundsAssumption
    <2>3. ~half' /\ UNCHANGED <<log, half, cut, written, name>>
      BY <1>2 DEF Rotate, tailVars
    <2> QED
      BY <2>1, <2>2, <2>3
  <1>3. CASE Truncate
    <2>1. /\ log' = [log EXCEPT ![at[current]] = <<>>] /\ half' = FALSE
          /\ cut' = cut \cup {at[current]} /\ UNCHANGED <<at, current, written, name>>
      BY <1>3 DEF Truncate, tailVars
    <2>2. log' \in [FileIds -> Seq(Lines)] /\ \A f \in FileIds : Len(log'[f]) <= Len(log[f])
      BY <2>1
    <2>3. \A f \in FileIds : Len(log'[f]) <= written
      BY <2>2
    <2> QED
      BY <2>1, <2>2, <2>3
  <1>4. CASE PowerLoss
    <2>1. PICK kept \in 0..Len(log[at[current]]) :
              /\ log' = [log EXCEPT ![at[current]] = SubSeq(@, 1, kept)]
              /\ half' = (half /\ ~(kept < Len(log[at[current]])))
              /\ cut' = IF kept < Len(log[at[current]]) THEN cut \cup {at[current]} ELSE cut
      BY <1>4 DEF PowerLoss
    <2>2. UNCHANGED <<at, current, written, name>>
      BY <1>4 DEF PowerLoss
    <2>3. PICK s \in Seq(Lines) : s = log[at[current]]
      OBVIOUS
    <2>4. SubSeq(s, 1, kept) \in Seq(Lines) /\ Len(SubSeq(s, 1, kept)) = kept
      BY <2>1, <2>3
    <2>5. log' \in [FileIds -> Seq(Lines)] /\ \A f \in FileIds : Len(log'[f]) <= Len(log[f])
      BY <2>1, <2>3, <2>4
    <2>6. \A f \in FileIds : Len(log'[f]) <= written
      BY <2>5
    <2>7. half' => log'[at[current]] # <<>>
      <3>1. half' => half /\ ~(kept < Len(s)) /\ s # <<>>
        BY <2>1, <2>3, Zenon
      <3>2. Len(s) \in Nat /\ (s # <<>> => Len(s) # 0) /\ kept \in 0..Len(s)
        BY <2>1, <2>3
      <3>3. half' => Len(log'[at[current]]) # 0
        BY <2>1, <2>3, <2>4, <3>1, <3>2
      <3> QED
        BY <3>3
    <2> QED
      BY <2>1, <2>2, <2>5, <2>6, <2>7
  <1>5. CASE ~WriteHalf /\ ~Rotate /\ ~Truncate /\ ~PowerLoss
    BY <1>5, FilesUnchanged DEF fileVars
  <1> QED
    BY <1>1, <1>2, <1>3, <1>4, <1>5

SizeRule ==
    \A f \in FileIds : IF half /\ f = at[current] THEN Size(f) = 2 * Len(log[f]) - 1
                                                  ELSE Size(f) = 2 * Len(log[f])

\* The size of a file in half lines: two for each line, one less for a line half written.
LEMMA SizeIs == FileTypes => SizeRule
  <1> SUFFICES ASSUME FileTypes, NEW f \in FileIds
               PROVE  IF half /\ f = at[current] THEN Size(f) = 2 * Len(log[f]) - 1
                                                 ELSE Size(f) = 2 * Len(log[f])
    BY DEF SizeRule
  <1>1. 2 * Len(log[f]) \in Int
    BY DEF FileTypes
  <1>2. CASE half /\ f = at[current]
    BY <1>2, Zenon DEF Size
  <1>3. CASE ~(half /\ f = at[current])
    <2>1. Size(f) = 2 * Len(log[f]) - 0
      BY <1>3, Zenon DEF Size
    <2> QED
      BY <1>1, <1>3, <2>1
  <1> QED
    BY <1>2, <1>3

\* A file that lost nothing only grows, and by a line at most.
Extends(f) ==
    \/ log'[f] = log[f] /\ Size(f) <= Size(f)'
    \/ /\ Size(f) <= Size(f)'
       /\ ~half /\ half' /\ f = at[current] /\ UNCHANGED <<at, current>>
       /\ written + 1 \in Lines /\ written' = written + 1
       /\ log'[f] = Append(log[f], written + 1)

\* A cut file stays cut, and a file that is not cut only grows.
LEMMA IntactGrows ==
    ASSUME FileTypes, FilesInv, [Next]_vars
    PROVE  /\ cut \subseteq cut'
           /\ \A f \in FileIds : f \notin cut' => Extends(f)
  <1> SUFFICES ASSUME NEW f \in FileIds, f \notin cut'
               PROVE  Extends(f)
    <2>1. cut \subseteq cut'
      BY FilesUnchanged DEF WriteHalf, Rotate, Truncate, PowerLoss, fileVars
    <2> QED
      BY <2>1
  <1>0. FileTypes'
    BY FilesStep
  <1>1. IF half /\ f = at[current] THEN Size(f) = 2 * Len(log[f]) - 1 ELSE Size(f) = 2 * Len(log[f])
    BY SizeIs DEF SizeRule
  <1>2. IF half' /\ f = at'[current'] THEN Size(f)' = 2 * Len(log'[f]) - 1
                                     ELSE Size(f)' = 2 * Len(log'[f])
    <2>1. FileTypes' => SizeRule'
      BY SizeIs, PTL
    <2> QED
      BY <1>0, <2>1 DEF SizeRule
  <1>3. PICK n \in Nat : n = Len(log[f])
    BY DEF FileTypes
  <1>4. PICK s \in Int, t \in Int : s = Size(f) /\ t = Size(f)'
    <2>1. Len(log'[f]) \in Nat
      BY <1>0 DEF FileTypes
    <2> QED
      BY <1>1, <1>2, <1>3, <2>1
  <1>5. CASE log'[f] = log[f] /\ (half' => half) /\ UNCHANGED <<at, current>>
    BY <1>1, <1>2, <1>3, <1>4, <1>5 DEF Extends
  <1>6. CASE log'[f] = log[f] /\ ~half' 
    BY <1>1, <1>2, <1>3, <1>4, <1>6 DEF Extends
  <1>7. CASE WriteHalf
    <2>1. CASE half
      BY <1>5, <1>7, <2>1 DEF WriteHalf
    <2>2. CASE ~half
      <3>1. /\ half' = TRUE /\ log' = [log EXCEPT ![at[current]] = Append(@, written + 1)]
            /\ UNCHANGED <<at, current, cut>> /\ written' = written + 1 /\ written < MaxLine
        BY <1>7, <2>2 DEF WriteHalf
      <3>2. written + 1 \in Lines
        BY <3>1, ConstantTypes DEF Lines, FileTypes
      <3>3. CASE f = at[current]
        <4>1. log'[f] = Append(log[f], written + 1) /\ Len(log'[f]) = n + 1
          BY <1>3, <3>1, <3>2, <3>3 DEF FileTypes
        <4>2. s = 2 * n /\ t = 2 * (n + 1) - 1
          BY <1>1, <1>2, <1>3, <1>4, <2>2, <3>1, <3>3, <4>1
        <4> QED
          BY <1>4, <2>2, <3>1, <3>2, <3>3, <4>1, <4>2 DEF Extends
      <3>4. CASE f # at[current]
        <4>1. log'[f] = log[f]
          BY <3>1, <3>4 DEF FileTypes
        <4>2. s = 2 * n /\ t = 2 * n
          BY <1>1, <1>2, <1>3, <1>4, <3>1, <3>4, <4>1
        <4> QED
          BY <1>4, <4>1, <4>2 DEF Extends
      <3> QED
        BY <3>3, <3>4
    <2> QED
      BY <2>1, <2>2
  <1>8. CASE Rotate
    BY <1>6, <1>8 DEF Rotate
  <1>9. CASE Truncate
    <2>1. log' = [log EXCEPT ![at[current]] = <<>>] /\ f # at[current] /\ half' = FALSE
      BY <1>9 DEF Truncate
    <2> QED
      BY <1>6, <2>1 DEF FileTypes
  <1>10. CASE PowerLoss
    <2>1. PICK kept \in 0..Len(log[at[current]]) :
              /\ log' = [log EXCEPT ![at[current]] = SubSeq(@, 1, kept)]
              /\ half' = (half /\ ~(kept < Len(log[at[current]])))
              /\ cut' = IF kept < Len(log[at[current]]) THEN cut \cup {at[current]} ELSE cut
      BY <1>10 DEF PowerLoss
    <2>2. UNCHANGED <<at, current>> /\ (half' => half)
      BY <1>10, <2>1 DEF PowerLoss
    <2>3. CASE f # at[current]
      BY <1>5, <2>1, <2>2, <2>3 DEF FileTypes
    <2>4. CASE f = at[current]
      <3>1. PICK q \in Seq(Lines) : q = log[f]
        BY DEF FileTypes
      <3>2. kept = Len(q)
        BY <2>1, <2>4, <3>1
      <3>3. SubSeq(q, 1, Len(q)) = q
        OBVIOUS
      <3> QED
        BY <1>5, <2>1, <2>2, <2>4, <3>1, <3>2, <3>3 DEF FileTypes
    <2> QED
      BY <2>3, <2>4
  <1>11. CASE ~WriteHalf /\ ~Rotate /\ ~Truncate /\ ~PowerLoss
    BY <1>5, <1>11, FilesUnchanged DEF fileVars
  <1> QED
    BY <1>7, <1>8, <1>9, <1>10, <1>11

\* What lies before an offset of such a file stays as it is.
LEMMA KeptBefore ==
    ASSUME FileTypes, FilesInv, [Next]_vars,
           NEW f \in FileIds, f \notin cut', NEW off \in Nat, off <= Size(f)
    PROVE  /\ off <= Size(f)'
           /\ \A i \in DOMAIN log'[f] :
                 2 * i <= off + 1 => i \in DOMAIN log[f] /\ log'[f][i] = log[f][i]
  <1>1. Extends(f) /\ log[f] \in Seq(Lines)
    BY IntactGrows DEF FileTypes
  <1>2. FileTypes'
    BY FilesStep
  <1>3. PICK n \in Nat : n = Len(log[f])
    BY <1>1
  <1>4. Size(f) \in Int /\ Size(f) <= 2 * n
    BY <1>3, SizeIs DEF SizeRule
  <1>5. Size(f)' \in Int
    <2>1. SizeRule'
      BY <1>2, SizeIs, PTL
    <2>2. Len(log'[f]) \in Nat
      BY <1>2 DEF FileTypes
    <2> QED
      BY <2>1, <2>2 DEF SizeRule
  <1>6. off <= Size(f)'
    BY <1>1, <1>4, <1>5 DEF Extends
  <1>7. ASSUME NEW i \in DOMAIN log'[f], 2 * i <= off + 1
        PROVE  i \in DOMAIN log[f] /\ log'[f][i] = log[f][i]
    <2>1. CASE log'[f] = log[f]
      BY <2>1
    <2>2. CASE log'[f] = Append(log[f], written + 1)
      <3>1. i \in 1..n + 1
        BY <1>1, <1>3, <2>2 DEF FileTypes
      <3>2. i <= n
        BY <1>3, <1>4, <1>7, <3>1
      <3> QED
        BY <1>1, <1>3, <2>2, <3>1, <3>2
    <2> QED
      BY <1>1, <2>1, <2>2 DEF Extends
  <1> QED
    BY <1>6, <1>7

-----------------------------------------------------------------------------
(* What was admitted. *)

\* The lines of a sequence of records are those of one of its records.
LEMMA InLinesOf ==
    ASSUME NEW records, NEW l
    PROVE  l \in LinesOf(records) <=>
              \E j \in DOMAIN records : \E k \in DOMAIN records[j] : l = records[j][k]
  BY DEF LinesOf, ToSet

\* The lines of two sequences of records, one after the other.
LEMMA LinesOfConcat ==
    \A S : \A s, t \in Seq(S) : LinesOf(s \o t) = LinesOf(s) \cup LinesOf(t)
  <1> SUFFICES ASSUME NEW S, NEW s \in Seq(S), NEW t \in Seq(S)
               PROVE  LinesOf(s \o t) = LinesOf(s) \cup LinesOf(t)
    OBVIOUS
  <1> DEFINE c == s \o t
  <1>1. ASSUME NEW l \in LinesOf(c)
        PROVE  l \in LinesOf(s) \cup LinesOf(t)
    <2>1. PICK j \in DOMAIN c : \E k \in DOMAIN c[j] : l = c[j][k]
      <3> HIDE DEF c
      <3> QED
        BY InLinesOf
    <2>2. CASE j <= Len(s)
      <3>1. j \in DOMAIN s /\ c[j] = s[j]
        BY <2>1, <2>2
      <3> QED
        BY <2>1, <3>1, InLinesOf
    <2>3. CASE j > Len(s)
      <3>1. j - Len(s) \in DOMAIN t /\ c[j] = t[j - Len(s)]
        BY <2>1, <2>3
      <3> QED
        BY <2>1, <3>1, InLinesOf
    <2> QED
      BY <2>1, <2>2, <2>3
  <1>2. ASSUME NEW l \in LinesOf(s)
        PROVE  l \in LinesOf(c)
    <2>1. PICK j \in DOMAIN s : \E k \in DOMAIN s[j] : l = s[j][k]
      BY InLinesOf
    <2>2. j \in DOMAIN c /\ c[j] = s[j]
      OBVIOUS
    <2> HIDE DEF c
    <2> QED
      BY <2>1, <2>2, InLinesOf
  <1>3. ASSUME NEW l \in LinesOf(t)
        PROVE  l \in LinesOf(c)
    <2>1. PICK j \in DOMAIN t : \E k \in DOMAIN t[j] : l = t[j][k]
      BY InLinesOf
    <2>2. Len(s) + j \in DOMAIN c /\ c[Len(s) + j] = t[j]
      OBVIOUS
    <2> HIDE DEF c
    <2> QED
      BY <2>1, <2>2, InLinesOf
  <1> HIDE DEF c
  <1>4. LinesOf(c) = LinesOf(s) \cup LinesOf(t)
    BY <1>1, <1>2, <1>3
  <1> QED
    BY <1>4 DEF c

\* The lines of a sequence of records and one more record.
LEMMA LinesOfAppend ==
    ASSUME NEW S, NEW s \in Seq(Seq(S)), NEW r \in Seq(S)
    PROVE  LinesOf(Append(s, r)) = LinesOf(s) \cup ToSet(r)
  <1> DEFINE one == <<r>>
  <1>1. Append(s, r) = s \o one /\ one \in Seq(Seq(S))
    OBVIOUS
  <1>2. LinesOf(one) = ToSet(r)
    BY DEF LinesOf
  <1> HIDE DEF one
  <1>3. LinesOf(s \o one) = LinesOf(s) \cup LinesOf(one)
    BY <1>1, LinesOfConcat
  <1> QED
    BY <1>1, <1>2, <1>3

\* Records hold lines of the log.
LEMMA LinesOfTypes ==
    ASSUME NEW records \in Seq(Seq(Lines))
    PROVE  LinesOf(records) \subseteq Lines
  BY InLinesOf

\* Records are only added, and they are those of the batch.
LEMMA AdmittedStep ==
    ASSUME admitted \in Seq(Seq(Lines)), batch.records \in Seq(Seq(Lines)), [Next]_vars
    PROVE  /\ admitted' \in Seq(Seq(Lines))
           /\ \/ admitted' = admitted /\ Accounted' = Accounted
              \/ /\ Accept \/ AdmissionFatal
                 /\ admitted' = admitted \o batch.records
                 /\ Accounted' = Accounted \cup LinesOf(batch.records)
  <1>1. \/ admitted' = admitted
        \/ (Accept \/ AdmissionFatal) /\ admitted' = admitted \o batch.records
    BY DEF Next, vars, historyVars, Collector, WriteHalf, Rotate, Truncate, BeginRead, ReadCell, EndRead,
           StartCycle, SourceLimitReached, NothingToAcknowledge, Accept, Save, Rescan, Start, ReadFails,
           Reject, AdmissionFatal, Kill, PowerLoss
  <1>2. Accounted = LinesOf(admitted) /\ Accounted' = LinesOf(admitted')
    BY DEF Accounted, LinesOf
  <1>3. admitted \o batch.records \in Seq(Seq(Lines))
    OBVIOUS
  <1>4. LinesOf(admitted \o batch.records) = LinesOf(admitted) \cup LinesOf(batch.records)
    BY LinesOfConcat
  <1> QED
    BY <1>1, <1>2, <1>3, <1>4, Zenon

\* A point from which a start may resume stays one.
LEMMA GoodPointStays ==
    ASSUME IInv, [Next]_vars, NEW p \in Positions, GoodPoint(p)
    PROVE  GoodPoint(p)'
  <1>1. FileTypes /\ FilesInv /\ p.off \in Nat /\ (Intact(p.file) => p.file \in FileIds)
    BY ConstantTypes DEF IInv, TypeOK, FileTypes, Positions, Intact
  <1>2. Accounted \subseteq Accounted'
    BY AdmittedStep DEF IInv, TypeOK, BatchRecords
  <1>3. Intact(p.file)' => Intact(p.file) /\ p.file \notin cut'
    BY <1>1, IntactGrows DEF Intact
  <1>4. ASSUME Intact(p.file)'
        PROVE  /\ p.off <= Size(p.file)'
               /\ \A i \in DOMAIN log'[p.file] : 2 * i <= p.off => log'[p.file][i] \in Accounted'
    <2>1. PICK f \in FileIds : f = p.file /\ f \notin cut'
      BY <1>1, <1>3, <1>4
    <2>2. PICK off \in Nat : off = p.off
      BY <1>1
    <2>3. /\ off <= Size(f)
          /\ \A i \in DOMAIN log[f] : 2 * i <= off => log[f][i] \in Accounted
      BY <1>3, <1>4, <2>1, <2>2 DEF GoodPoint
    <2>4. /\ off <= Size(f)'
          /\ \A i \in DOMAIN log'[f] :
                2 * i <= off + 1 => i \in DOMAIN log[f] /\ log'[f][i] = log[f][i]
      BY <1>1, <2>1, <2>3, KeptBefore
    <2>5. ASSUME NEW i \in DOMAIN log'[f], 2 * i <= off
          PROVE  log'[f][i] \in Accounted'
      <3>1. i \in Int
        <4>1. FileTypes'
          BY <1>1, FilesStep
        <4> QED
          BY <4>1 DEF FileTypes
      <3>2. 2 * i <= off + 1
        BY <2>5, <3>1
      <3> QED
        BY <1>2, <2>3, <2>4, <2>5, <3>2
    <2> QED
      BY <2>1, <2>2, <2>4, <2>5
  <1> QED
    BY <1>4 DEF GoodPoint

-----------------------------------------------------------------------------
(* One line more: push, flush_open and a staged line. *)

\* A line was read whole, and is not yet in the open record.
Before(t, b, line) ==
    /\ Framed(t, b) /\ Faithful(t, b)
    /\ line \in Lines /\ t.staged = None /\ t.partial = None
    /\ t.scan = ReadTo(t, b) + 2
    /\ Intact(t.position.file) =>
          /\ t.scan <= Size(t.position.file)
          /\ \A i \in DOMAIN log[t.position.file] : 2 * i = t.scan => log[t.position.file][i] = line

\* The numbers of a tail and a batch that fit each other.
LEMMA FramedNumbers ==
    ASSUME NEW t, NEW b, Framed(t, b)
    PROVE  /\ t.open \in Seq(Lines) /\ Len(t.open) \in Nat /\ (t.open # <<>> => Len(t.open) > 0)
           /\ t.position.off \in Nat /\ t.scan \in Nat /\ t.end \in Nat /\ b.end \in Nat
           /\ Flushed(t, b) \in Nat /\ Flushed(t, b) % 2 = 0 /\ t.position.off <= Flushed(t, b)
           /\ ReadTo(t, b) \in Nat /\ ReadTo(t, b) = Flushed(t, b) + 2 * Len(t.open)
  <1>1. /\ t.open \in Seq(Lines) /\ t.position.off \in Nat /\ t.scan \in Nat /\ t.end \in Nat
        /\ b.end \in Nat
    BY ConstantTypes DEF Framed, TailRecords, BatchRecords, Positions
  <1>2. Len(t.open) \in Nat /\ (t.open # <<>> => Len(t.open) > 0)
    BY <1>1
  <1>3. Flushed(t, b) \in Nat /\ Flushed(t, b) % 2 = 0 /\ t.position.off <= Flushed(t, b)
    BY <1>1 DEF Framed, Flushed
  <1> QED
    BY <1>1, <1>2, <1>3 DEF ReadTo

\* A natural number is twice another, or one more.
LEMMA EvenOrOdd ==
    ASSUME NEW n \in Nat
    PROVE  \E a \in Nat : n = 2 * a + (n % 2)
  <1>1. n \div 2 \in Nat /\ n = 2 * (n \div 2) + (n % 2)
    OBVIOUS
  <1> QED
    BY <1>1

\* The positions that are kept through one more line.
LEMMA PushKeeps ==
    ASSUME FileTypes, NEW t, NEW b, NEW line, Before(t, b, line)
    PROVE  Shape(Push(t, line), b) /\ Content(Push(t, line), b)
  <1> DEFINE u == Push(t, line)
             f == t.position.file
  <1>1. /\ t \in TailRecords /\ line \in Lines /\ t.scan = ReadTo(t, b) + 2
        /\ t.staged = None /\ t.partial = None
    BY DEF Before, Framed
  <1>2. /\ u \in TailRecords /\ u.position = t.position /\ u.open = Append(t.open, line)
        /\ u.scan = t.scan /\ u.end = t.scan /\ u.staged = None /\ u.partial = None
        /\ u.pending = t.pending
    <2>1. Append(t.open, line) \in Seq(Lines) /\ t.scan \in Offsets
      BY <1>1 DEF TailRecords
    <2>2. u = [t EXCEPT !.open = Append(t.open, line), !.end = t.scan]
      BY DEF Push
    <2> QED
      BY <1>1, <2>1, <2>2 DEF TailRecords
  <1> HIDE DEF u
  <1>3. PICK n \in Nat : n = Len(t.open)
    BY FramedNumbers DEF Before
  <1>4. PICK F \in Nat : F = Flushed(t, b) /\ ReadTo(t, b) = F + 2 * n
    BY <1>3, FramedNumbers DEF Before
  <1>5. Flushed(u, b) = F
    BY <1>2, <1>4 DEF Flushed
  <1>6. t.open \in Seq(Lines) /\ Len(u.open) = n + 1 /\ u.open # <<>>
    <2>1. t.open \in Seq(Lines)
      BY <1>1 DEF TailRecords
    <2>2. Len(u.open) = n + 1
      BY <1>1, <1>2, <1>3, <2>1
    <2> QED
      BY <1>3, <2>1, <2>2
  <1>7. ReadTo(u, b) = F + 2 * (n + 1)
    BY <1>5, <1>6 DEF ReadTo
  <1>8. ReadTo(u, b) = t.scan
    BY <1>1, <1>4, <1>7
  <1>9. Shape(u, b)
    <2>1. Framed(u, b)
      BY <1>2, <1>8 DEF Framed, Before
    <2>2. u.scan = ReadTo(u, b) + 0 + 0
      BY <1>2, <1>4, <1>7, <1>8
    <2> QED
      BY <1>2, <2>1, <2>2 DEF Shape
  <1>10. ASSUME Intact(f)
         PROVE  \A k \in DOMAIN u.open, i \in DOMAIN log[f] :
                    2 * i = F + 2 * k => u.open[k] = log[f][i]
    <2> SUFFICES ASSUME NEW k \in DOMAIN u.open, NEW i \in DOMAIN log[f], 2 * i = F + 2 * k
                 PROVE  u.open[k] = log[f][i]
      OBVIOUS
    <2>1. k \in 1..n + 1
      BY <1>2, <1>3, <1>6
    <2>2. CASE k <= n
      <3>1. k \in DOMAIN t.open /\ u.open[k] = t.open[k]
        BY <1>2, <1>3, <1>6, <2>1, <2>2
      <3> QED
        BY <1>4, <1>10, <3>1 DEF Before, Faithful
    <2>3. CASE k = n + 1
      <3>1. u.open[k] = line
        BY <1>2, <1>3, <1>6, <2>3
      <3>2. 2 * i = t.scan
        BY <1>1, <1>4, <2>3
      <3> QED
        BY <1>10, <3>1, <3>2 DEF Before
    <2> QED
      BY <1>3, <2>1, <2>2, <2>3
  <1>11. Faithful(u, b)
    <2>1. Intact(f) => \A i \in DOMAIN log[f] :
              t.position.off < 2 * i /\ 2 * i <= F => log[f][i] \in LinesOf(b.records)
      BY <1>4 DEF Faithful, Before
    <2> QED
      BY <1>2, <1>5, <1>10, <2>1 DEF Faithful
  <1>12. Content(u, b)
    BY <1>2, <1>11 DEF Content, Before
  <1> QED
    BY <1>9, <1>12 DEF u

\* flush_open moves the lines of the open record to the batch.
LEMMA FlushKeeps ==
    ASSUME FileTypes, NEW t, NEW b, Framed(t, b), Faithful(t, b), t.open # <<>>,
           NEW n, n = FlushOpen(t, b)
    PROVE  /\ n.tail \in TailRecords
           /\ n.tail.open = <<>> /\ n.tail.position = t.position /\ n.tail.scan = t.scan
           /\ n.tail.staged = t.staged /\ n.tail.partial = t.partial /\ n.tail.pending = t.pending
           /\ n.batch.file = b.file /\ n.batch.size = b.size /\ n.batch.raw = b.raw
           /\ n.batch.end = t.end
           /\ Framed(n.tail, n.batch) /\ Faithful(n.tail, n.batch)
           /\ ReadTo(n.tail, n.batch) = ReadTo(t, b) /\ Flushed(n.tail, n.batch) = ReadTo(t, b)
  <1>1. t \in TailRecords /\ b \in BatchRecords
    BY DEF Framed
  <1>2. /\ t.open \in Seq(Lines) /\ b.records \in Seq(Seq(Lines)) /\ t.end \in Offsets
        /\ t.open # <<>> /\ Append(b.records, t.open) \in Seq(Seq(Lines))
    BY <1>1 DEF TailRecords, BatchRecords
  <1>3. /\ n.tail = [t EXCEPT !.open = <<>>]
        /\ n.batch = [b EXCEPT !.records = Append(b.records, t.open), !.end = t.end]
    BY DEF FlushOpen
  <1>4. /\ n.tail \in TailRecords
        /\ n.tail.open = <<>> /\ n.tail.position = t.position /\ n.tail.scan = t.scan
        /\ n.tail.staged = t.staged /\ n.tail.partial = t.partial /\ n.tail.pending = t.pending
    <2>1. <<>> \in Seq(Lines)
      OBVIOUS
    <2> QED
      BY <1>1, <1>3, <2>1 DEF TailRecords
  <1>5. /\ n.batch \in BatchRecords /\ n.batch.records = Append(b.records, t.open)
        /\ n.batch.end = t.end
        /\ n.batch.file = b.file /\ n.batch.size = b.size /\ n.batch.raw = b.raw
    BY <1>1, <1>2, <1>3 DEF BatchRecords
  <1>6. PICK m \in Nat : m = Len(t.open) /\ m > 0
    BY FramedNumbers
  <1>7. PICK F \in Nat : F = Flushed(t, b) /\ F % 2 = 0 /\ t.position.off <= F /\ ReadTo(t, b) = F + 2 * m
    BY <1>6, FramedNumbers
  <1>8. PICK off \in Nat : off = t.position.off
    BY FramedNumbers
  <1>9. t.end = F + 2 * m
    BY <1>7 DEF Framed
  <1>10. t.end # None /\ t.end % 2 = 0 /\ t.end > off
    BY <1>6, <1>7, <1>8, <1>9 DEF None
  <1>11. Flushed(n.tail, n.batch) = F + 2 * m
    BY <1>5, <1>9, <1>10 DEF Flushed
  <1>12. ReadTo(n.tail, n.batch) = F + 2 * m
    BY <1>4, <1>7, <1>6, <1>11 DEF ReadTo
  <1>13. Framed(n.tail, n.batch)
    <2>1. n.batch.records # <<>>
      <3>1. Append(b.records, t.open) # <<>>
        BY <1>2
      <3> QED
        BY <1>5, <3>1
    <2> QED
      BY <1>4, <1>5, <1>8, <1>10, <2>1 DEF Framed
  <1>14. Faithful(n.tail, n.batch)
    <2> DEFINE f == t.position.file
    <2>1. SUFFICES ASSUME Intact(f), NEW i \in DOMAIN log[f], off < 2 * i, 2 * i <= F + 2 * m
                   PROVE  log[f][i] \in LinesOf(n.batch.records)
      BY <1>4, <1>8, <1>11 DEF Faithful
    <2>2. LinesOf(n.batch.records) = LinesOf(b.records) \cup ToSet(t.open)
      BY <1>2, <1>5, LinesOfAppend
    <2>3. i \in Nat
      <3>1. f \in FileIds
        BY <1>1, <2>1 DEF Intact, TailRecords, Positions
      <3> QED
        BY <2>1, <3>1 DEF FileTypes
    <2>4. CASE 2 * i <= F
      <3>1. log[f][i] \in LinesOf(b.records)
        BY <1>7, <1>8, <2>1, <2>4 DEF Faithful
      <3> QED
        BY <2>2, <3>1
    <2>5. CASE 2 * i > F
      <3>1. PICK a \in Nat : F = 2 * a
        BY <1>7, EvenOrOdd
      <3>2. PICK k \in Nat : k = i - a /\ k \in 1..m /\ 2 * i = F + 2 * k
        BY <2>1, <2>3, <2>5, <3>1
      <3>3. k \in DOMAIN t.open
        BY <1>2, <1>6, <3>2
      <3>4. t.open[k] = log[f][i]
        BY <1>7, <2>1, <3>2, <3>3 DEF Faithful
      <3> QED
        BY <2>2, <3>3, <3>4 DEF ToSet
    <2> QED
      BY <1>7, <2>3, <2>4, <2>5
  <1> QED
    BY <1>3, <1>4, <1>5, <1>7, <1>11, <1>12, <1>13, <1>14

\* Staging the line that was just read keeps the shape and the content.
LEMMA StageKeeps ==
    ASSUME FileTypes, NEW t, NEW b, NEW line, Before(t, b, line), t.open = <<>>,
           NEW u, u = [t EXCEPT !.staged = line]
    PROVE  Shape(u, b) /\ Content(u, b)
  <1>1. t \in TailRecords /\ line \in Lines /\ t.scan = ReadTo(t, b) + 2 /\ t.partial = None
    BY DEF Before, Framed
  <1>2. /\ u \in TailRecords /\ u.position = t.position /\ u.open = <<>> /\ u.open = t.open
        /\ u.scan = t.scan /\ u.end = t.end /\ u.staged = line /\ u.partial = None
    BY <1>1 DEF TailRecords
  <1>3. Flushed(u, b) = Flushed(t, b) /\ ReadTo(u, b) = ReadTo(t, b)
    BY <1>2 DEF Flushed, ReadTo
  <1>4. line # None
    BY <1>1, ConstantTypes
  <1>5. ReadTo(t, b) \in Nat
    BY FramedNumbers DEF Before
  <1>6. Framed(u, b)
    BY <1>2, <1>3 DEF Framed, Before
  <1>7. u.scan = ReadTo(u, b) + 2 + 0
    BY <1>1, <1>2, <1>3, <1>5
  <1>8. Shape(u, b)
    BY <1>2, <1>4, <1>6, <1>7 DEF Shape
  <1>9. Faithful(u, b)
    BY <1>2, <1>3 DEF Faithful, Before
  <1>10. Content(u, b)
    BY <1>2, <1>9 DEF Content, Before
  <1> QED
    BY <1>8, <1>10

-----------------------------------------------------------------------------
(* Records of a file in order. *)

\* The open record holds the n lines after the first a of the file.
OpenAt(t, b, f, n, a) ==
    /\ Flushed(t, b) = 2 * a /\ ReadTo(t, b) = 2 * (a + n) /\ a + n <= Len(log[f])
    /\ \A k \in 1..n : a + k \in DOMAIN log[f] /\ t.open[k] = log[f][a + k]

\* The lines of the open record, in an intact file in order.
LEMMA OpenLines ==
    ASSUME FileTypes, FilesInv, cut = {}, FilesInOrder,
           NEW t, NEW b, Framed(t, b), Faithful(t, b), t.open # <<>>,
           NEW f, f = t.position.file, f # None, ReadTo(t, b) <= Size(f),
           NEW n, n = Len(t.open)
    PROVE  /\ f \in FileIds /\ n \in Nat \ {0} /\ DOMAIN t.open = 1..n
           /\ \E a \in Nat : OpenAt(t, b, f, n, a)
           /\ \A k \in 1..n : t.open[k] \in Lines /\ t.open[k] = t.open[1] + (k - 1)
  <1>1. f \in FileIds
    BY DEF Framed, TailRecords, Positions
  <1>2. PICK s \in Seq(Lines) : s = t.open
    BY FramedNumbers
  <1>3. n \in Nat \ {0} /\ n = Len(s) /\ DOMAIN s = 1..n
    BY <1>2
  <1>4. PICK F \in Nat : F = Flushed(t, b) /\ F % 2 = 0 /\ ReadTo(t, b) = F + 2 * n
    BY <1>2, <1>3, FramedNumbers
  <1>5. PICK a \in Nat : F = 2 * a
    BY <1>4, EvenOrOdd
  <1>6. PICK q \in Seq(Lines) : q = log[f]
    BY <1>1 DEF FileTypes
  <1>7. PICK m \in Nat : m = Len(q) /\ DOMAIN q = 1..m
    BY <1>6
  <1>8. PICK size \in Int : size = Size(f) /\ size <= 2 * m
    <2>1. Size(f) = 2 * m - 1 \/ Size(f) = 2 * m
      BY <1>1, <1>6, <1>7, SizeIs DEF SizeRule
    <2> QED
      BY <2>1
  <1>9. F + 2 * n <= size
    <2>1. ReadTo(t, b) <= Size(f)
      OBVIOUS
    <2> QED
      BY <1>4, <1>8, <2>1
  <1>10. a + n <= m
    <2>1. 2 * (a + n) = F + 2 * n
      BY <1>3, <1>5
    <2>2. 2 * (a + n) <= 2 * m
      BY <1>3, <1>4, <1>7, <1>8, <1>9, <2>1
    <2> QED
      BY <1>3, <1>5, <1>7, <2>2
  <1>11. ASSUME NEW k \in 1..n
         PROVE  a + k \in DOMAIN q /\ s[k] = q[a + k]
    <2>1. a + k \in DOMAIN q
      BY <1>7, <1>10
    <2>2. 2 * (a + k) = F + 2 * k
      BY <1>5
    <2>3. Intact(f)
      BY <1>1 DEF Intact
    <2> QED
      BY <1>1, <1>2, <1>3, <1>4, <1>6, <2>1, <2>2, <2>3 DEF Faithful
  <1>12. ASSUME NEW k \in 1..n
         PROVE  s[k] \in Lines /\ s[k] = s[1] + (k - 1)
    <2>1. s[k] = q[a + k] /\ s[1] = q[a + 1] /\ a + k \in DOMAIN q /\ a + 1 \in DOMAIN q
      BY <1>3, <1>11
    <2>2. \A i, j \in DOMAIN q : q[j] = q[i] + (j - i)
      BY <1>1, <1>6 DEF FilesInOrder
    <2>3. q[a + k] = q[a + 1] + ((a + k) - (a + 1))
      BY <2>1, <2>2
    <2>4. (a + k) - (a + 1) = k - 1
      BY <1>12
    <2> QED
      BY <1>3, <2>1, <2>3, <2>4
  <1>13. ReadTo(t, b) = 2 * (a + n)
    BY <1>3, <1>4, <1>5
  <1>14. /\ Flushed(t, b) = 2 * a /\ a + n <= Len(log[f])
         /\ \A k \in 1..n : a + k \in DOMAIN log[f] /\ t.open[k] = log[f][a + k]
    BY <1>2, <1>4, <1>5, <1>6, <1>7, <1>10, <1>11
  <1>15. \A k \in 1..n : t.open[k] \in Lines /\ t.open[k] = t.open[1] + (k - 1)
    BY <1>2, <1>12
  <1>16. OpenAt(t, b, f, n, a)
    BY <1>13, <1>14 DEF OpenAt
  <1> QED
    BY <1>1, <1>2, <1>3, <1>15, <1>16

\* The line before a place in a file, in order.
LEMMA LineBefore ==
    ASSUME FileTypes, FilesInOrder, NEW f \in FileIds, NEW a \in Nat,
           a + 1 \in DOMAIN log[f]
    PROVE  \/ a = 0 /\ log[f][a + 1] \in Heads
           \/ a \in DOMAIN log[f] /\ log[f][a + 1] = log[f][a] + 1 /\ log[f][a] \in Lines
  <1>1. PICK q \in Seq(Lines) : q = log[f]
    BY DEF FileTypes
  <1>2. PICK m \in Nat : m = Len(q) /\ DOMAIN q = 1..m
    BY <1>1
  <1>3. CASE a = 0
    <2>1. q # <<>>
      BY <1>1, <1>2
    <2>2. q[1] \in Heads
      BY <1>1, <2>1 DEF FilesInOrder
    <2> QED
      BY <1>1, <1>3, <2>2
  <1>4. CASE a # 0
    <2>1. a \in DOMAIN q
      BY <1>1, <1>2, <1>4
    <2>2. q[a + 1] = q[a] + ((a + 1) - a)
      BY <1>1, <2>1 DEF FilesInOrder
    <2>3. (a + 1) - a = 1
      OBVIOUS
    <2> QED
      BY <1>1, <2>1, <2>2, <2>3
  <1> QED
    BY <1>3, <1>4

Consecutive(s, n, first) == \A k \in 1..n : s[k] = first + (k - 1)

\* The number of odd lines of a record whose lines follow each other.
LEMMA OddLines ==
    ASSUME NEW s, NEW n \in Nat, NEW first \in Nat,
           Consecutive(s, n, first)
    PROVE  Cardinality({i \in 1..n : s[i] \in Odd}) =
             Cardinality({l \in first..first + (n - 1) : l \in Odd})
  <1> DEFINE S == {i \in 1..n : s[i] \in Odd}
             T == {l \in first..first + (n - 1) : l \in Odd}
             M == [i \in S |-> s[i]]
  <1> USE DEF Consecutive
  <1>1. IsFiniteSet(S)
    <2>1. IsFiniteSet(1..n)
      BY FS_Interval
    <2> QED
      BY <2>1, FS_Subset
  <1>2. M \in [S -> T]
    <2>1. \A i \in S : s[i] \in T
      OBVIOUS
    <2> QED
      BY <2>1
  <1>3. \A i, j \in S : M[i] = M[j] => i = j
    OBVIOUS
  <1>4. \A l \in T : \E i \in S : M[i] = l
    <2> SUFFICES ASSUME NEW l \in T PROVE \E i \in S : M[i] = l
      OBVIOUS
    <2>1. l - first + 1 \in 1..n /\ s[l - first + 1] = l
      <3>1. PICK k \in 1..n : k = l - first + 1
        OBVIOUS
      <3> QED
        BY <3>1
    <2> QED
      BY <2>1
  <1> HIDE DEF M, S, T
  <1>5. ExistsBijection(S, T)
    BY <1>2, <1>3, <1>4 DEF ExistsBijection, Bijection, Injection, Surjection, IsInjective
  <1>6. Cardinality(T) = Cardinality(S)
    BY <1>1, <1>5, FS_Bijection
  <1> QED
    BY <1>6 DEF S, T

\* What a CSV record needs for its last line to complete it.
LEMMA QuotedRecord ==
    ASSUME NEW s \in Seq(Lines), NEW n, n = Len(s), s # <<>>,
           s[1] \in Heads, \A k \in 2..n : s[k] \notin Heads,
           \A k \in 1..n : s[k] = s[1] + (k - 1),
           s[n] + 1 \in Lines
    PROVE  s[n] + 1 \in Heads <=> Cardinality({i \in DOMAIN s : s[i] \in Odd}) % 2 = 0
  <1>1. n \in Nat \ {0} /\ DOMAIN s = 1..n /\ s[1] \in Nat /\ s[1] \in Lines
    <2>1. n \in Nat \ {0} /\ DOMAIN s = 1..n
      OBVIOUS
    <2>2. s[1] \in Lines
      BY <2>1
    <2> QED
      BY <2>1, <2>2, ConstantTypes
  <1>2. PICK first \in Nat : first = s[1]
    BY <1>1
  <1>3. PICK line \in Lines : line = s[n] /\ line = first + (n - 1)
    BY <1>1, <1>2
  <1>4. \A l \in first + 1..line : l \notin Heads
    <2> SUFFICES ASSUME NEW l \in first + 1..line PROVE l \notin Heads
      OBVIOUS
    <2>1. PICK k \in 2..n : k = l - first + 1
      <3>1. l \in Nat /\ first + 1 <= l /\ l <= first + (n - 1)
        BY <1>1, <1>2, <1>3
      <3>2. (l - first) + 1 \in 2..n
        BY <1>1, <1>2, <3>1
      <3> QED
        BY <3>2
    <2>2. s[k] = l
      <3>1. s[k] = first + (k - 1)
        <4>1. k \in 1..n
          BY <1>1, <2>1
        <4> QED
          BY <1>2, <4>1
      <3>2. l \in Nat
        BY <1>2
      <3>3. first + (k - 1) = l
        BY <2>1, <3>2
      <3> QED
        BY <3>1, <3>3
    <2> QED
      BY <2>1, <2>2
  <1>5. first <= line
    BY <1>1, <1>2, <1>3
  <1>6. line + 1 \in Heads <=> Cardinality({l \in first..line : l \in Odd}) % 2 = 0
    BY <1>1, <1>2, <1>3, <1>4, <1>5, ServerAssumption DEF ServerAssumption
  <1>7. Cardinality({i \in 1..n : s[i] \in Odd}) = Cardinality({l \in first..first + (n - 1) : l \in Odd})
    <2>1. Consecutive(s, n, first)
      BY <1>2 DEF Consecutive
    <2> QED
      BY <1>1, <2>1, OddLines
  <1> QED
    BY <1>1, <1>3, <1>6, <1>7

\* A remainder by two.
LEMMA OddCount ==
    ASSUME NEW s \in Seq(Lines)
    PROVE  LET c == Cardinality({i \in DOMAIN s : s[i] \in Odd}) IN c % 2 # 1 <=> c % 2 = 0
  <1>1. IsFiniteSet(DOMAIN s)
    BY FS_Interval
  <1>2. IsFiniteSet({i \in DOMAIN s : s[i] \in Odd})
    BY <1>1, FS_Subset
  <1>3. PICK c \in Nat : c = Cardinality({i \in DOMAIN s : s[i] \in Odd})
    BY <1>2, FS_CardinalityType
  <1>4. c % 2 # 1 <=> c % 2 = 0
    OBVIOUS
  <1> QED
    BY <1>3, <1>4, Zenon

\* In a CSV log in order, the open record began with its first line.
LEMMA OpenBegins ==
    ASSUME FileTypes, FilesInv, cut = {}, FilesInOrder,
           NEW t, NEW b, Framed(t, b), Faithful(t, b), t.open # <<>>,
           NEW f, f = t.position.file, f # None, ReadTo(t, b) <= Size(f), Sound(t, b)
    PROVE  /\ format = "quoted" => t.open[1] \in Heads
           /\ t.open[1] \in Heads \/ t.open[1] - 1 \in Lines
           /\ t.open[1] \in Heads \/ \E i \in DOMAIN log[f] : 2 * i = Flushed(t, b) /\ t.open[1] - 1 = log[f][i]
  <1>1. PICK n : n = Len(t.open)
    OBVIOUS
  <1>2. f \in FileIds /\ n \in Nat \ {0} /\ t.open[1] \in Lines
    <2>1. /\ f \in FileIds /\ n \in Nat \ {0}
          /\ \A k \in 1..n : t.open[k] \in Lines /\ t.open[k] = t.open[1] + (k - 1)
      BY <1>1, OpenLines
    <2> QED
      BY <2>1
  <1>3. PICK a \in Nat : /\ Flushed(t, b) = 2 * a
                         /\ \A k \in 1..n : a + k \in DOMAIN log[f] /\ t.open[k] = log[f][a + k]
    <2>1. PICK a \in Nat : OpenAt(t, b, f, n, a)
      BY <1>1, OpenLines
    <2> QED
      BY <2>1 DEF OpenAt
  <1>4. a + 1 \in DOMAIN log[f] /\ t.open[1] = log[f][a + 1]
    BY <1>2, <1>3
  <1>5. PICK h : h = t.open[1] /\ h \in Lines /\ h \in Nat
    BY <1>2, ConstantTypes
  <1>6. CASE a = 0 /\ log[f][a + 1] \in Heads
    BY <1>4, <1>6
  <1>7. CASE a \in DOMAIN log[f] /\ log[f][a + 1] = log[f][a] + 1 /\ log[f][a] \in Lines
    <2>1. PICK l \in Nat : l = log[f][a] /\ l \in Lines /\ h = l + 1 /\ h - 1 = l
      <3>1. PICK l \in Nat : l = log[f][a] /\ l \in Lines
        BY <1>7, ConstantTypes
      <3>2. h = l + 1
        BY <1>4, <1>5, <1>7, <3>1
      <3> QED
        BY <3>1, <3>2
    <2>2. format = "quoted" => h \in Heads
      <3>1. h = log[f][a] + 1 /\ 2 * a = Flushed(t, b)
        BY <1>3, <2>1
      <3>2. Boundary(f, Flushed(t, b))
        BY DEF Sound
      <3> QED
        BY <1>5, <1>7, <3>1, <3>2 DEF Boundary
    <2> QED
      BY <1>3, <1>5, <1>7, <2>1, <2>2
  <1> QED
    BY <1>2, <1>4, <1>6, <1>7, LineBefore

\* A line that continues the open record opens none.
LEMMA PushSound ==
    ASSUME FileTypes, FilesInv, LinesInv,
           NEW t, NEW b, NEW line, Before(t, b, line), Sound(t, b),
           t.open = <<>> \/ Continues(t.open, line)
    PROVE  Sound(Push(t, line), b)
  <1> DEFINE u == Push(t, line)
             f == t.position.file
  <1> SUFFICES Sound(u, b)
    OBVIOUS
  <1>1. t \in TailRecords /\ line \in Lines /\ line # None
    BY ConstantTypes DEF Before, Framed
  <1>2. /\ u.position = t.position /\ u.open = Append(t.open, line)
    BY <1>1 DEF Push, TailRecords
  <1> HIDE DEF u
  <1>3. Flushed(u, b) = Flushed(t, b)
    BY <1>2 DEF Flushed
  <1>4. PICK s \in Seq(Lines) : s = t.open
    BY <1>1 DEF TailRecords
  <1>5. PICK n \in Nat : n = Len(s) /\ Len(u.open) = n + 1
    BY <1>2, <1>4
  <1>6. SUFFICES ASSUME cut = {}, f # None, NEW k \in 2..n + 1
                 PROVE  u.open[k] \notin Heads
    <2>1. CASE cut = {} /\ f # None
      <3>1. \A k \in 2..Len(u.open) : u.open[k] \notin Heads
        BY <1>5, <1>6, <2>1
      <3> QED
        BY <1>2, <1>3, <2>1, <3>1 DEF Sound
    <2>2. CASE ~(cut = {} /\ f # None)
      BY <1>2, <2>2 DEF Sound
    <2> QED
      BY <2>1, <2>2
  <1>7. CASE k <= n
    <2>1. u.open[k] = s[k] /\ k \in 2..n
      BY <1>2, <1>4, <1>5, <1>7
    <2> QED
      BY <1>4, <1>5, <1>6, <2>1 DEF Sound
  <1>8. CASE k = n + 1
    <2>1. u.open[k] = line /\ n # 0 /\ s # <<>> /\ Continues(s, line)
      BY <1>2, <1>4, <1>5, <1>8
    <2>2. CASE format # "quoted"
      BY <1>1, <2>1, <2>2 DEF Continues
    <2>3. CASE format = "quoted"
      <3>1. Cardinality({i \in DOMAIN s : s[i] \in Odd}) % 2 = 1
        BY <2>1, <2>3 DEF Continues
      <3>2. Framed(t, b) /\ Faithful(t, b) /\ FilesInOrder /\ t.open # <<>> /\ n = Len(t.open)
        BY <1>4, <1>5, <1>6, <2>1 DEF Before, LinesInv
      <3>3. PICK R \in Nat : R = ReadTo(t, b)
        BY <3>2, FramedNumbers
      <3>4. t.scan = R + 2 /\ t.scan <= Size(f) /\ f \in FileIds
        BY <1>1, <1>6, <3>3 DEF Before, Intact, TailRecords, Positions
      <3>5. PICK m \in Nat, size \in Int : m = Len(log[f]) /\ size = Size(f) /\ size <= 2 * m
        <4>1. Len(log[f]) \in Nat
          BY <3>4 DEF FileTypes
        <4> QED
          BY <3>4, <4>1, SizeIs DEF SizeRule
      <3>6. R <= Size(f)
        BY <3>4, <3>5
      <3>7. /\ \A j \in 1..n : t.open[j] \in Lines /\ t.open[j] = t.open[1] + (j - 1)
        BY <1>6, <3>2, <3>3, <3>6, OpenLines
      <3>8. PICK a \in Nat : /\ R = 2 * (a + n) /\ a + n \in DOMAIN log[f] /\ t.open[n] = log[f][a + n]
        <4>1. n \in 1..n
          BY <2>1
        <4> QED
          <5>1. PICK a \in Nat : OpenAt(t, b, f, n, a)
            BY <1>6, <3>2, <3>3, <3>6, OpenLines
          <5> QED
            BY <3>3, <4>1, <5>1 DEF OpenAt
      <3>9. (a + n) + 1 \in DOMAIN log[f] /\ log[f][(a + n) + 1] = line
        <4>1. 2 * ((a + n) + 1) = t.scan /\ (a + n) + 1 <= m
          <5>1. PICK z \in Nat : z = a + n /\ R = 2 * z
            BY <1>6, <3>8
          <5>2. t.scan = 2 * z + 2 /\ 2 * z + 2 <= 2 * m
            BY <3>4, <3>5, <5>1
          <5>3. 2 * (z + 1) = 2 * z + 2 /\ z + 1 <= m
            BY <5>2
          <5> QED
            BY <5>1, <5>2, <5>3
        <4>2. (a + n) + 1 \in DOMAIN log[f]
          BY <3>4, <3>5, <4>1 DEF FileTypes
        <4> QED
          BY <1>6, <3>4, <4>1, <4>2 DEF Before, Intact
      <3>10. line = s[n] + 1
        <4>1. a + n # 0
          BY <2>1
        <4>2. log[f][(a + n) + 1] = log[f][a + n] + 1
          BY <3>2, <3>4, <3>9, <4>1, LineBefore
        <4> QED
          BY <1>4, <3>8, <3>9, <4>2
      <3>11. s[1] \in Heads
        BY <1>4, <1>6, <2>3, <3>2, <3>3, <3>6, OpenBegins
      <3>12. \A j \in 2..n : s[j] \notin Heads
        BY <1>4, <1>5, <1>6 DEF Sound
      <3>13. s[n] + 1 \in Heads => Cardinality({i \in DOMAIN s : s[i] \in Odd}) % 2 = 0
        BY <1>1, <1>4, <1>5, <2>1, <3>7, <3>10, <3>11, <3>12, QuotedRecord
      <3> QED
        BY <2>1, <3>1, <3>10, <3>13
    <2> QED
      BY <2>2, <2>3
  <1> QED
    BY <1>5, <1>6, <1>7, <1>8

\* A record that a line does not continue is whole, and one ends there.
LEMMA FlushedRecord ==
    ASSUME FileTypes, FilesInv, LinesInv, cut = {},
           NEW t, NEW b, Framed(t, b), Faithful(t, b), t.open # <<>>, Sound(t, b),
           NEW f, f = t.position.file, f # None, ReadTo(t, b) <= Size(f),
           NEW line, ~Continues(t.open, line)
    PROVE  Whole(t.open) /\ Boundary(f, ReadTo(t, b))
  <1>1. FilesInOrder
    BY DEF LinesInv
  <1>2. PICK s \in Seq(Lines) : s = t.open
    BY FramedNumbers
  <1>3. PICK n \in Nat \ {0} : /\ n = Len(s) /\ DOMAIN s = 1..n
                               /\ \A k \in 1..n : s[k] \in Lines /\ s[k] = s[1] + (k - 1)
    BY <1>1, <1>2, OpenLines
  <1>4. PICK a \in Nat : ReadTo(t, b) = 2 * (a + n) /\ s[n] = log[f][a + n] /\ f \in FileIds
    <2>1. PICK a \in Nat : OpenAt(t, b, f, n, a) /\ f \in FileIds
      BY <1>1, <1>2, <1>3, OpenLines
    <2>2. n \in 1..n
      OBVIOUS
    <2> QED
      BY <1>2, <2>1, <2>2 DEF OpenAt
  <1>5. \A k \in 2..n : s[k] \notin Heads
    BY <1>2, <1>3 DEF Sound
  <1>6. format = "quoted" => s[1] \in Heads
    BY <1>1, <1>2, OpenBegins
  <1>7. ASSUME format = "quoted", s[n] + 1 \in Lines
        PROVE  s[n] + 1 \in Heads
    <2>1. Cardinality({i \in DOMAIN s : s[i] \in Odd}) % 2 # 1
      BY <1>2, <1>7 DEF Continues
    <2>2. Cardinality({i \in DOMAIN s : s[i] \in Odd}) % 2 = 0
      BY <2>1, OddCount
    <2>3. s # <<>>
      BY <1>2
    <2> QED
      BY <1>3, <1>5, <1>6, <1>7, <2>2, <2>3, QuotedRecord
  <1>8. Whole(s)
    BY <1>2, <1>3, <1>5, <1>6, <1>7 DEF Whole
  <1>9. ASSUME format = "quoted", NEW i \in DOMAIN log[f], 2 * i = ReadTo(t, b), log[f][i] + 1 \in Lines
        PROVE  log[f][i] + 1 \in Heads
    <2>1. i \in Nat
      BY <1>4 DEF FileTypes
    <2>2. i = a + n
      BY <1>4, <1>9, <2>1
    <2> QED
      BY <1>4, <1>7, <1>9, <2>2
  <1> QED
    BY <1>2, <1>8, <1>9 DEF Boundary

\* Closing the open record, when the next line does not continue it, keeps the batch sound.
LEMMA FlushSound ==
    ASSUME FileTypes, FilesInv, LinesInv,
           NEW t, NEW b, Framed(t, b), Faithful(t, b), t.open # <<>>, Sound(t, b),
           GoodPoint(t.position), Intact(t.position.file) => ReadTo(t, b) <= Size(t.position.file),
           NEW line, ~Continues(t.open, line),
           NEW m, m = FlushOpen(t, b)
    PROVE  Sound(m.tail, m.batch)
  <1>1. PICK f : f = t.position.file
    OBVIOUS
  <1>2. PICK R \in Seq(Seq(Lines)) : R = b.records
    BY DEF Framed, BatchRecords
  <1>3. PICK s \in Seq(Lines) : s = t.open
    BY FramedNumbers
  <1>4. /\ m.tail.open = <<>> /\ m.tail.position = t.position
        /\ Flushed(m.tail, m.batch) = ReadTo(t, b)
    BY FlushKeeps
  <1>5. PICK Q \in Seq(Seq(Lines)) : Q = m.batch.records /\ Q = Append(R, s)
    <2>1. Append(R, s) \in Seq(Seq(Lines))
      OBVIOUS
    <2>2. m.batch = [b EXCEPT !.records = Append(R, s), !.end = t.end]
      BY <1>2, <1>3 DEF FlushOpen
    <2>3. b \in BatchRecords
      BY DEF Framed
    <2> QED
      BY <2>1, <2>2, <2>3 DEF BatchRecords
  <1>6. PICK c \in Nat : c = Len(R) /\ DOMAIN R = 1..c /\ DOMAIN Q = 1..c + 1
    <2>0. Len(R) \in Nat
      OBVIOUS
    <2>1. PICK c \in Nat : c = Len(R)
      BY <2>0
    <2>2. DOMAIN R = 1..c
      BY <2>1
    <2>3. Len(Q) = c + 1
      BY <1>5, <2>1
    <2>4. DOMAIN Q = 1..c + 1
      BY <2>3
    <2> QED
      BY <2>1, <2>2, <2>4
  <1>7. Q[c + 1] = s /\ \A j \in 1..c : Q[j] = R[j]
    BY <1>2, <1>3, <1>5, <1>6
  <1>8. LinesOf(Q) = LinesOf(R) \cup ToSet(s)
    BY <1>2, <1>3, <1>5, LinesOfAppend
  <1>9. ASSUME cut = {}, f # None
        PROVE  /\ Boundary(f, ReadTo(t, b))
               /\ InOrder(Q)
               /\ \A j \in DOMAIN Q :
                     /\ Whole(Q[j])
                     /\ Preceded(Q[j], Accounted \cup LinesOf(Q))
                     /\ \A k \in DOMAIN Q[j] : InStretch(Q[j][k], f, t.position.off, ReadTo(t, b))
    <2>1. FilesInOrder
      BY <1>9 DEF LinesInv
    <2>2. f \in FileIds /\ Intact(f) /\ ReadTo(t, b) <= Size(f)
      BY <1>1, <1>9 DEF Framed, TailRecords, Positions, Intact
    <2>3. Whole(s) /\ Boundary(f, ReadTo(t, b))
      BY <1>1, <1>3, <1>9, <2>2, FlushedRecord
    <2>4. PICK n \in Nat \ {0} : n = Len(s) /\ DOMAIN s = 1..n
      BY <1>3
    <2>5. PICK a \in Nat : /\ Flushed(t, b) = 2 * a /\ ReadTo(t, b) = 2 * (a + n)
                           /\ \A k \in 1..n : a + k \in DOMAIN log[f] /\ s[k] = log[f][a + k]
      <3>1. PICK a \in Nat : OpenAt(t, b, f, n, a)
        BY <1>1, <1>3, <1>9, <2>1, <2>2, <2>4, OpenLines
      <3> QED
        BY <1>3, <3>1 DEF OpenAt
    <2>6. PICK off \in Nat : off = t.position.off /\ off <= 2 * a
      BY <2>5, FramedNumbers
    <2>7. /\ InOrder(R)
          /\ \A j \in DOMAIN R :
                /\ Whole(R[j])
                /\ Preceded(R[j], Accounted \cup LinesOf(R))
                /\ \A k \in DOMAIN R[j] : InStretch(R[j][k], f, off, 2 * a)
      BY <1>1, <1>2, <1>9, <2>5, <2>6 DEF Sound
    <2>8. DOMAIN log[f] \subseteq Nat
      BY <2>2 DEF FileTypes
    <2>9. ASSUME NEW l, InStretch(l, f, off, 2 * a)
          PROVE  InStretch(l, f, off, 2 * (a + n))
      <3>1. PICK i \in DOMAIN log[f] : off < 2 * i /\ 2 * i <= 2 * a /\ l = log[f][i]
        BY <2>9 DEF InStretch
      <3>2. 2 * i <= 2 * (a + n)
        BY <2>8, <3>1
      <3> QED
        BY <3>1, <3>2 DEF InStretch
    <2>10. ASSUME NEW k \in DOMAIN s
           PROVE  InStretch(s[k], f, off, 2 * (a + n))
      <3>1. k \in 1..n
        BY <2>4
      <3>2. off < 2 * (a + k) /\ 2 * (a + k) <= 2 * (a + n)
        BY <2>6, <3>1
      <3> QED
        BY <2>5, <3>1, <3>2 DEF InStretch
    <2>11. Preceded(s, Accounted \cup LinesOf(Q))
      <3>1. CASE s[1] \in Heads
        BY <3>1 DEF Preceded
      <3>2. CASE s[1] \notin Heads
        <4>1. PICK i \in DOMAIN log[f] : 2 * i = 2 * a /\ s[1] - 1 = log[f][i]
          <5>1. \/ t.open[1] \in Heads
                \/ \E i \in DOMAIN log[f] : 2 * i = Flushed(t, b) /\ t.open[1] - 1 = log[f][i]
            BY <1>1, <1>9, <2>1, <2>2, OpenBegins
          <5> QED
            BY <1>3, <2>5, <3>2, <5>1
        <4>2. CASE 2 * i <= off
          <5>1. log[f][i] \in Accounted
            BY <1>1, <2>2, <2>6, <4>2 DEF GoodPoint
          <5> QED
            BY <4>1, <5>1 DEF Preceded
        <4>3. CASE off < 2 * i
          <5>1. 2 * i <= 2 * a
            BY <2>8, <4>1
          <5>2. log[f][i] \in LinesOf(R)
            BY <1>1, <1>2, <2>2, <2>5, <2>6, <4>3, <5>1 DEF Faithful
          <5> QED
            BY <1>8, <4>1, <5>2 DEF Preceded
        <4> QED
          BY <2>6, <2>8, <4>2, <4>3
      <3> QED
        BY <3>1, <3>2
    <2>12. ASSUME NEW j \in DOMAIN Q
           PROVE  /\ Whole(Q[j])
                  /\ Preceded(Q[j], Accounted \cup LinesOf(Q))
                  /\ \A k \in DOMAIN Q[j] : InStretch(Q[j][k], f, off, 2 * (a + n))
      <3>1. CASE j = c + 1
        BY <1>7, <2>3, <2>10, <2>11, <3>1
      <3>2. CASE j \in DOMAIN R
        <4>1. Q[j] = R[j]
          BY <1>6, <1>7, <3>2
        <4>2. Preceded(Q[j], Accounted \cup LinesOf(Q))
          BY <1>8, <2>7, <3>2, <4>1 DEF Preceded
        <4> QED
          BY <2>7, <2>9, <3>2, <4>1, <4>2
      <3> QED
        BY <1>6, <3>1, <3>2
    <2>13. ASSUME NEW i \in DOMAIN Q, NEW j \in DOMAIN Q, i < j
           PROVE  Q[i][Len(Q[i])] < Q[j][1]
      <3>1. i \in 1..c /\ Q[i] = R[i] /\ j \in 1..c + 1
        BY <1>6, <1>7, <2>13
      <3>2. CASE j \in 1..c
        BY <1>6, <1>7, <2>7, <2>13, <3>1, <3>2 DEF InOrder
      <3>3. CASE j = c + 1
        <4>1. PICK r \in Seq(Lines) : r = R[i] /\ r # <<>>
          <5>1. R[i] \in Seq(Lines) /\ i \in DOMAIN R
            BY <1>6, <3>1
          <5> QED
            BY <2>7, <5>1 DEF Whole
        <4>2. Len(r) \in DOMAIN r
          BY <4>1
        <4>3. PICK l : l = r[Len(r)] /\ InStretch(l, f, off, 2 * a)
          BY <1>6, <2>7, <3>1, <4>1, <4>2
        <4>4. PICK e \in DOMAIN log[f] : 2 * e <= 2 * a /\ l = log[f][e]
          BY <4>3 DEF InStretch
        <4>5. a + 1 \in DOMAIN log[f] /\ s[1] = log[f][a + 1]
          BY <2>4, <2>5
        <4>6. e \in Nat /\ (a + 1) - e \in Nat /\ (a + 1) - e > 0
          <5>1. e \in Nat /\ e <= a
            BY <2>8, <4>4
          <5>2. PICK x \in Nat, y \in Nat : x = e /\ y = a /\ x <= y
            BY <5>1
          <5>3. (y + 1) - x \in Nat /\ (y + 1) - x > 0
            BY <5>2
          <5> QED
            BY <5>2, <5>3
        <4>7. log[f][a + 1] = log[f][e] + ((a + 1) - e)
          BY <2>1, <2>2, <4>4, <4>5 DEF FilesInOrder
        <4>8. PICK d \in Nat : d = (a + 1) - e /\ d > 0
          BY <4>6
        <4>9. PICK x \in Nat : x = log[f][e]
          <5>1. log[f] \in Seq(Lines)
            BY <2>2 DEF FileTypes
          <5>2. log[f][e] \in Lines
            BY <4>4, <5>1
          <5> QED
            BY <5>2, ConstantTypes
        <4>10. x < x + d
          BY <4>8
        <4> QED
          BY <1>7, <3>1, <3>3, <4>1, <4>3, <4>4, <4>5, <4>7, <4>8, <4>9, <4>10
      <3> QED
        BY <1>6, <3>1, <3>2, <3>3
    <2> QED
      BY <2>3, <2>5, <2>6, <2>12, <2>13 DEF InOrder
  <1>10. \A k \in 2..Len(m.tail.open) : m.tail.open[k] \notin Heads
    <2>1. Len(m.tail.open) = 0
      BY <1>4
    <2> QED
      BY <2>1
  <1> QED
    BY <1>1, <1>4, <1>5, <1>9, <1>10 DEF Sound

\* The content depends on the position, the lines held and the flushed end alone.
LEMMA ContentSame ==
    ASSUME NEW t, NEW b, Content(t, b), NEW u,
           u.position = t.position, u.open = t.open, u.scan = t.scan, u.staged = t.staged,
           u.partial = t.partial, Flushed(u, b) = Flushed(t, b)
    PROVE  Content(u, b)
  <1>1. PICK F : F = Flushed(t, b) /\ F = Flushed(u, b)
    OBVIOUS
  <1>2. Faithful(u, b)
    BY <1>1 DEF Content, Faithful
  <1> QED
    BY <1>2 DEF Content

\* Soundness depends on the position, the open record and the batch's records alone.
LEMMA SoundSame ==
    ASSUME NEW t, NEW b, Sound(t, b), NEW u, NEW c,
           u.position = t.position, u.open = t.open, Flushed(u, c) = Flushed(t, b),
           c.records = b.records
    PROVE  Sound(u, c)
  BY DEF Sound

\* accept_line leaves no gap, whatever becomes of the line.
LEMMA AcceptLineKeeps ==
    ASSUME FileTypes, NEW t, NEW b, NEW line, Before(t, b, line),
           NEW n, n = AcceptLine(t, b, line)
    PROVE  /\ Shape(n.tail, n.batch) /\ Content(n.tail, n.batch)
           /\ n.tail.position = t.position /\ n.tail.pending = t.pending
           /\ n.batch.file = b.file /\ n.batch.size = b.size
           /\ FilesInv /\ LinesInv /\ GoodPoint(t.position) /\ Sound(t, b) => Sound(n.tail, n.batch)
  <1>1. t \in TailRecords /\ b \in BatchRecords /\ line \in Lines
    BY DEF Before, Framed
  <1>2. CASE t.open = <<>> \/ Continues(t.open, line)
    <2>1. n.tail = Push(t, line) /\ n.batch = b
      BY <1>2 DEF AcceptLine
    <2>2. Push(t, line).position = t.position /\ Push(t, line).pending = t.pending
      BY <1>1 DEF Push, TailRecords
    <2>3. FilesInv /\ LinesInv /\ Sound(t, b) => Sound(Push(t, line), b)
      BY <1>2, PushSound
    <2> QED
      BY <2>1, <2>2, <2>3, PushKeeps
  <1>3. CASE ~(t.open = <<>> \/ Continues(t.open, line))
    <2>1. PICK flushed : flushed = FlushOpen(t, b)
      OBVIOUS
    <2>2. n = IF Len(flushed.batch.records) >= MaxRecords
              THEN [flushed EXCEPT !.tail.staged = line]
              ELSE [flushed EXCEPT !.tail = Push(@, line)]
      BY <1>3, <2>1, Zenon DEF AcceptLine
    <2>3. /\ flushed = [tail |-> flushed.tail, batch |-> flushed.batch]
      BY <2>1 DEF FlushOpen
    <2>4. /\ n.batch = flushed.batch
          /\ n.tail = [flushed.tail EXCEPT !.staged = line] \/ n.tail = Push(flushed.tail, line)
      BY <2>2, <2>3
    <2>5. Framed(t, b) /\ Faithful(t, b) /\ t.open # <<>>
      BY <1>3 DEF Before
    <2>6. /\ flushed.tail.position = t.position /\ flushed.tail.pending = t.pending
          /\ flushed.batch.file = b.file /\ flushed.batch.size = b.size
          /\ flushed.tail \in TailRecords /\ flushed.tail.open = <<>>
          /\ flushed.tail.scan = t.scan
          /\ flushed.tail.staged = t.staged /\ flushed.tail.partial = t.partial
          /\ Framed(flushed.tail, flushed.batch) /\ Faithful(flushed.tail, flushed.batch)
          /\ ReadTo(flushed.tail, flushed.batch) = ReadTo(t, b)
      BY <2>1, <2>5, FlushKeeps
    <2>9. Before(flushed.tail, flushed.batch, line)
      BY <2>6 DEF Before
    <2>10. ASSUME FilesInv, LinesInv, GoodPoint(t.position), Sound(t, b)
           PROVE  Sound(flushed.tail, flushed.batch)
      <3>1. Intact(t.position.file) => ReadTo(t, b) <= Size(t.position.file)
        <4>1. SUFFICES ASSUME Intact(t.position.file)
                       PROVE  ReadTo(t, b) <= Size(t.position.file)
          OBVIOUS
        <4>2. PICK R \in Nat : R = ReadTo(t, b)
          BY <2>5, FramedNumbers
        <4>3. PICK f \in FileIds : f = t.position.file
          BY <1>1, <4>1 DEF Intact, TailRecords, Positions
        <4>4. Size(f) \in Int
          <5>1. Len(log[f]) \in Nat
            BY DEF FileTypes
          <5>2. Size(f) = 2 * Len(log[f]) - 1 \/ Size(f) = 2 * Len(log[f])
            BY SizeIs DEF SizeRule
          <5> QED
            BY <5>1, <5>2
        <4>5. R + 2 <= Size(f)
          BY <4>1, <4>2, <4>3 DEF Before
        <4> QED
          BY <4>2, <4>3, <4>4, <4>5
      <3>2. ~Continues(t.open, line)
        BY <1>3
      <3> QED
        BY <2>1, <2>5, <2>10, <3>1, <3>2, FlushSound
    <2>7. CASE n.tail = [flushed.tail EXCEPT !.staged = line]
      <3>1. Shape(n.tail, n.batch) /\ Content(n.tail, n.batch)
        BY <2>4, <2>6, <2>7, <2>9, StageKeeps
      <3>2. n.tail.position = flushed.tail.position /\ n.tail.open = flushed.tail.open
            /\ n.tail.pending = flushed.tail.pending
        BY <2>6, <2>7 DEF TailRecords
      <3>3. Sound(flushed.tail, flushed.batch) => Sound(n.tail, n.batch)
        <4>1. Flushed(n.tail, n.batch) = Flushed(flushed.tail, flushed.batch)
          BY <2>4, <3>2 DEF Flushed
        <4> QED
          BY <2>4, <3>2, <4>1, SoundSame
      <3> QED
        BY <2>4, <2>6, <2>10, <3>1, <3>2, <3>3
    <2>8. CASE n.tail = Push(flushed.tail, line)
      <3>1. Shape(n.tail, n.batch) /\ Content(n.tail, n.batch)
        BY <2>4, <2>8, <2>9, PushKeeps
      <3>2. n.tail.position = flushed.tail.position /\ n.tail.pending = flushed.tail.pending
        BY <2>6, <2>8 DEF TailRecords, Push
      <3>3. FilesInv /\ LinesInv /\ Sound(flushed.tail, flushed.batch) => Sound(n.tail, n.batch)
        BY <2>4, <2>6, <2>8, <2>9, PushSound
      <3> QED
        BY <2>4, <2>6, <2>10, <3>1, <3>2, <3>3
    <2> QED
      BY <2>4, <2>7, <2>8
  <1> QED
    BY <1>2, <1>3

-----------------------------------------------------------------------------
(* The steps of the tail. *)

\* The points a start may resume from are positions.
LEMMA PointTypes ==
    ASSUME TypeOK
    PROVE  /\ ResumePoints \subseteq Positions
           /\ tail.position \in ResumePoints
           /\ \A n \in Names : offsets[n] \in ResumePoints /\ saved[n] \in ResumePoints
           /\ \A found \in older, n \in Names : found[n] \in ResumePoints
  BY DEF TypeOK, ResumePoints, TailRecords

\* What was read of a file stays what it holds.
LEMMA ContentStays ==
    ASSUME FileTypes, FilesInv, [Next]_vars, NEW t, NEW b, Shape(t, b), Content(t, b)
    PROVE  Content(t, b)'
  <1> DEFINE f == t.position.file
  <1>1. SUFFICES ASSUME Intact(f)' PROVE Content(t, b)'
    BY DEF Content, Faithful
  <1>2. Framed(t, b)
    BY DEF Shape
  <1>3. f \in FileIds /\ f \notin cut' /\ Intact(f)
    <2>1. f \in FileIds \cup {None}
      BY <1>2 DEF Framed, TailRecords, Positions
    <2> QED
      BY <1>1, <2>1, IntactGrows DEF Intact
  <1>4. PICK s \in Nat, F \in Nat, n \in Nat :
            s = t.scan /\ F = Flushed(t, b) /\ n = Len(t.open) /\ ReadTo(t, b) = F + 2 * n
    BY <1>2, FramedNumbers
  <1>5. F + 2 * n <= s
    BY <1>4 DEF Shape
  <1>6. t.open \in Seq(Lines) /\ t.position.off \in Nat
    BY <1>2, FramedNumbers
  <1>7. s <= Size(f)
    BY <1>3, <1>4 DEF Content
  <1>8. PICK g \in FileIds : g = f
    BY <1>3
  <1>9. /\ s <= Size(f)'
        /\ \A i \in DOMAIN log'[f] :
              2 * i <= s + 1 => i \in DOMAIN log[f] /\ log'[f][i] = log[f][i]
    BY <1>3, <1>7, <1>8, KeptBefore
  <1>10. DOMAIN log'[f] \subseteq Nat
    BY <1>3, FilesStep DEF FileTypes
  <1>11. Faithful(t, b)'
    <2>1. ASSUME NEW k \in DOMAIN t.open, NEW i \in DOMAIN log'[f], 2 * i = F + 2 * k
          PROVE  t.open[k] = log'[f][i]
      <3>1. k \in 1..n
        BY <1>4, <1>6
      <3>2. 2 * i <= s + 1
        BY <1>5, <1>10, <2>1, <3>1
      <3> QED
        BY <1>3, <1>4, <1>9, <2>1, <3>2 DEF Content, Faithful
    <2>2. ASSUME NEW i \in DOMAIN log'[f], t.position.off < 2 * i, 2 * i <= F
          PROVE  log'[f][i] \in LinesOf(b.records)
      <3>1. 2 * i <= s + 1
        BY <1>4, <1>5, <1>10, <2>2
      <3> QED
        BY <1>3, <1>4, <1>9, <2>2, <3>1 DEF Content, Faithful
    <2> QED
      BY <1>4, <2>1, <2>2 DEF Faithful
  <1>12. ASSUME NEW i \in DOMAIN log'[f]
         PROVE  /\ t.staged # None /\ 2 * i = s => t.staged = log'[f][i]
                /\ t.partial # None /\ 2 * i = s + 1 => t.partial = log'[f][i]
    <2>1. CASE 2 * i <= s + 1
      BY <1>3, <1>4, <1>9, <1>12, <2>1 DEF Content
    <2>2. CASE ~(2 * i <= s + 1)
      BY <1>4, <1>10, <1>12, <2>2
    <2> QED
      BY <2>1, <2>2
  <1> QED
    BY <1>4, <1>9, <1>11, <1>12 DEF Content

\* A tail that starts at a position has read nothing.
LEMMA FreshTail ==
    ASSUME FileTypes, NEW p \in Positions, GoodPoint(p),
           NEW b \in BatchRecords, b.end = None, b.records = <<>>,
           NEW t, t = NewTail(p)
    PROVE  /\ Shape(t, b) /\ Content(t, b)
           /\ (cut = {} /\ p.file # None => Boundary(p.file, p.off)) => Sound(t, b)
  <1>1. /\ t \in TailRecords /\ t.position = p /\ t.scan = p.off /\ t.open = <<>>
        /\ t.partial = None /\ t.staged = None /\ t.pending = None
    BY NewTailTypes
  <1>2. p.off \in Nat /\ Flushed(t, b) = p.off
    BY <1>1, ConstantTypes DEF Flushed, Positions
  <1>3. ReadTo(t, b) = p.off /\ ReadTo(t, b) = p.off + 0 + 0
    BY <1>1, <1>2 DEF ReadTo
  <1>4. Shape(t, b)
    <2>1. None % 2 = 0
      BY DEF None
    <2>2. Framed(t, b)
      BY <1>1, <2>1 DEF Framed, GoodPoint
    <2> QED
      BY <1>1, <1>3, <2>2 DEF Shape
  <1>5. Faithful(t, b)
    <2>1. SUFFICES ASSUME Intact(p.file), NEW i \in DOMAIN log[p.file], p.off < 2 * i, 2 * i <= p.off
                   PROVE  FALSE
      BY <1>1, <1>2 DEF Faithful
    <2>2. i \in Nat
      BY <2>1 DEF FileTypes, Intact, Positions
    <2> QED
      BY <1>2, <2>1, <2>2
  <1>6. Content(t, b)
    BY <1>1, <1>5 DEF Content, GoodPoint
  <1>7. ASSUME cut = {} /\ p.file # None => Boundary(p.file, p.off)
        PROVE  Sound(t, b)
    <2>1. \A k \in 2..Len(t.open) : t.open[k] \notin Heads
      <3>1. Len(t.open) = 0
        BY <1>1
      <3> QED
        BY <3>1
    <2>2. DOMAIN b.records = {}
      OBVIOUS
    <2> QED
      BY <1>1, <1>2, <1>7, <2>1, <2>2 DEF Sound, InOrder
  <1> QED
    BY <1>4, <1>6, <1>7

\* The start of a file, and no position at all.
LEMMA FileStart ==
    /\ TypeOK /\ FilesInv => \A f \in FileIds : GoodPoint([file |-> f, off |-> 0])
    /\ GoodPoint(NoPosition)
  <1>1. GoodPoint(NoPosition)
    BY DEF GoodPoint, NoPosition, Intact
  <1>2. ASSUME TypeOK, FilesInv, NEW f \in FileIds
        PROVE  GoodPoint([file |-> f, off |-> 0])
    <2>1. 0 <= Size(f)
      <3>1. Size(f) \in Nat
        BY <1>2, SizeBounds, ConstantTypes
      <3> QED
        BY <3>1
    <2>2. \A i \in DOMAIN log[f] : ~(2 * i <= 0)
      BY <1>2 DEF TypeOK
    <2> QED
      BY <2>1, <2>2 DEF GoodPoint
  <1> QED
    BY <1>1, <1>2

\* The shape and the content depend on the end and the records of the batch alone.
LEMMA SameBatch ==
    ASSUME NEW t, NEW b, Shape(t, b), Content(t, b),
           NEW c \in BatchRecords, c.end = b.end, c.records = b.records
    PROVE  Shape(t, c) /\ Content(t, c)
  <1>1. Flushed(t, c) = Flushed(t, b) /\ ReadTo(t, c) = ReadTo(t, b)
    BY DEF Flushed, ReadTo
  <1> QED
    BY <1>1 DEF Shape, Framed, Content, Faithful

\* A batch that has read nothing.
Unread(b) == b.end = None /\ b.records = <<>>

\* No batch is a batch that has read nothing.
LEMMA NoBatchUnread == NoBatch \in BatchRecords /\ Unread(NoBatch)
  BY ConstantTypes DEF Unread, NoBatch

\* What a step makes of the tail and the batch, as the files were before it.
Follows(t, b) == tail' = t /\ batch' = b /\ Shape(t, b) /\ Content(t, b)

\* Beginning a read: the tail fits the new batch, and stays sound.
LEMMA BeginReadKeeps ==
    ASSUME IInv, BeginRead
    PROVE  /\ \E t, b : /\ Follows(t, b) /\ t.position.file = b.file /\ b.file \in FileIds
                        /\ t.pending = None
                        /\ LinesInv /\ Sound(tail, batch) => Sound(t, b)
           /\ tail'.position \in {tail.position, [file |-> at[name], off |-> 0]}
           /\ Observed(at[name], Size(at[name])) = tail => tail'.position = tail.position
  <1>1. PICK f \in FileIds : f = at[name]
    BY DEF IInv, FilesInv
  <1>2. PICK size \in Offsets : size = Size(f)
    BY <1>1, SizeBounds DEF IInv
  <1>3. PICK t : t = Observed(f, size)
    OBVIOUS
  <1>4. PICK b : b = [NoBatch EXCEPT !.file = f, !.size = size]
    OBVIOUS
  <1>5. PICK next : /\ next = IF t.staged = None THEN [tail |-> t, batch |-> b]
                              ELSE AcceptLine([t EXCEPT !.staged = None], b, t.staged)
                    /\ tail' = next.tail /\ batch' = next.batch
    BY <1>1, <1>2, <1>3, <1>4, Zenon DEF BeginRead
  <1>6. b \in BatchRecords /\ Unread(b) /\ b.file = f /\ b.size = size
    BY <1>1, <1>2, <1>4, ConstantTypes DEF NoBatch, BatchRecords, Unread, None
  <1>7. batch = NoBatch /\ tail.pending = None
    BY DEF IInv, StepInv, BeginRead
  <1>8. /\ Shape(t, b) /\ Content(t, b) /\ t.position.file = f /\ t.pending = None
        /\ t.position \in {tail.position, [file |-> f, off |-> 0]} /\ GoodPoint(t.position)
        /\ Sound(tail, batch) => Sound(t, b)
    <2>1. CASE t = tail
      <3>1. tail.position.file = f
        <4>1. CASE tail.position.file # f
          <5>1. t = NewTail([file |-> f, off |-> 0])
            BY <1>3, <4>1, Zenon DEF Observed
          <5> QED
            BY <2>1, <4>1, <5>1 DEF NewTail
        <4> QED
          BY <4>1
      <3>2. b.end = batch.end /\ b.records = batch.records
        BY <1>6, <1>7, NoBatchUnread DEF Unread
      <3>3. Shape(t, b) /\ Content(t, b)
        BY <1>6, <2>1, <3>2, SameBatch DEF IInv
      <3>4. GoodPoint(t.position)
        BY <2>1, PointTypes DEF IInv, PointsInv
      <3>5. Sound(tail, batch) => Sound(t, b)
        <4>1. Flushed(t, b) = Flushed(tail, batch)
          BY <2>1, <3>2 DEF Flushed
        <4> QED
          BY <2>1, <3>2, <4>1, SoundSame
      <3> QED
        BY <1>7, <2>1, <3>1, <3>3, <3>4, <3>5
    <2>2. CASE t # tail
      <3>1. t = NewTail([file |-> f, off |-> 0])
        BY <1>3, <2>2 DEF Observed
      <3>2. PICK p \in Positions : p = [file |-> f, off |-> 0]
        BY ConstantTypes DEF Positions
      <3>3. GoodPoint(p)
        BY <3>2, FileStart DEF IInv
      <3>4. Boundary(p.file, p.off)
        <4>1. DOMAIN log[f] \subseteq Nat \ {0}
          BY DEF IInv, TypeOK
        <4>2. \A i \in DOMAIN log[f] : ~(2 * i = 0)
          BY <4>1
        <4> QED
          BY <3>2, <4>2 DEF Boundary
      <3>5. Shape(t, b) /\ Content(t, b) /\ Sound(t, b)
        BY <1>6, <3>1, <3>2, <3>3, <3>4, FreshTail DEF IInv, TypeOK, FileTypes, Unread
      <3> QED
        BY <3>1, <3>2, <3>3, <3>5, NewTailTypes
    <2> QED
      BY <2>1, <2>2
  <1>9. CASE t.staged = None
    <2>1. tail' = t /\ batch' = b
      BY <1>5, <1>9
    <2> QED
      BY <1>1, <1>2, <1>3, <1>6, <1>8, <2>1 DEF Follows
  <1>10. CASE t.staged # None
    <2>1. PICK u : u = [t EXCEPT !.staged = None]
      OBVIOUS
    <2>2. next = AcceptLine(u, b, t.staged)
      BY <1>5, <1>10, <2>1
    <2>3. t \in TailRecords /\ t.staged \in Lines /\ t.open = <<>> /\ t.partial = None
      BY <1>8, <1>10 DEF Shape, Framed, TailRecords
    <2>4. /\ u \in TailRecords /\ u.position = t.position /\ u.open = t.open /\ u.scan = t.scan
          /\ u.end = t.end /\ u.staged = None /\ u.partial = None /\ u.pending = t.pending
      BY <2>1, <2>3 DEF TailRecords
    <2>5. Flushed(u, b) = Flushed(t, b) /\ ReadTo(u, b) = ReadTo(t, b)
      BY <2>4 DEF Flushed, ReadTo
    <2>6. Before(u, b, t.staged)
      <3>1. Framed(u, b)
        BY <1>8, <2>4, <2>5 DEF Shape, Framed
      <3>2. Faithful(u, b)
        BY <1>8, <2>4, <2>5 DEF Content, Faithful
      <3>3. u.scan = ReadTo(u, b) + 2
        <4>1. ReadTo(t, b) \in Nat
          BY <1>8, FramedNumbers DEF Shape
        <4>2. t.scan = ReadTo(t, b) + 2 + 0
          BY <1>8, <1>10, <2>3 DEF Shape
        <4> QED
          BY <2>4, <2>5, <4>1, <4>2
      <3> QED
        BY <1>8, <1>10, <2>3, <2>4, <3>1, <3>2, <3>3 DEF Before, Content
    <2>7. /\ Shape(next.tail, next.batch) /\ Content(next.tail, next.batch)
          /\ next.tail.position = t.position /\ next.tail.pending = t.pending
          /\ next.batch.file = b.file
          /\ LinesInv /\ Sound(u, b) => Sound(next.tail, next.batch)
      BY <1>8, <2>2, <2>4, <2>6, AcceptLineKeeps DEF IInv, TypeOK, FileTypes
    <2>8. Sound(t, b) => Sound(u, b)
      BY <2>4, <2>5, SoundSame
    <2> QED
      <3>1. tail' = next.tail /\ tail'.position = t.position
        BY <1>5, <2>7
      <3>2. Observed(at[name], Size(at[name])) = tail => tail'.position = tail.position
        BY <1>1, <1>2, <1>3, <3>1
      <3> QED
        BY <1>1, <1>5, <1>6, <1>8, <2>7, <2>8, <3>2 DEF Follows
  <1> QED
    BY <1>9, <1>10

\* Reading one cell: the tail fits the batch, and stays sound.
LEMMA ReadCellKeeps ==
    ASSUME IInv, ReadCell
    PROVE  /\ \E t, b : /\ Follows(t, b) /\ t.position.file = b.file /\ b.file \in FileIds
                        /\ t.pending = None
                        /\ LinesInv /\ Sound(tail, batch) => Sound(t, b)
           /\ tail'.position = tail.position
  <1>1. PICK f \in FileIds : f = batch.file /\ tail.position.file = f
    BY DEF IInv, StepInv, ReadCell
  <1>2. PICK s \in Nat : s = tail.scan /\ tail.staged = None /\ tail.pending = None
    BY ConstantTypes DEF IInv, TypeOK, TailRecords, StepInv, ReadCell, More
  <1>3. PICK size \in Nat : size = Size(f) /\ size <= 2 * Len(log[f]) /\ size <= 2 * MaxLine
    BY <1>1, SizeBounds, ConstantTypes DEF IInv
  <1>4. s < size
    BY <1>1, <1>2, <1>3 DEF ReadCell
  <1>5. PICK n \in Nat : n = Len(log[f])
    BY <1>1 DEF IInv, TypeOK
  <1>6. s + 1 \in Offsets
    BY <1>3, <1>4, ConstantTypes
  <1>7. PICK b : b = [batch EXCEPT !.raw = @ + 1]
    OBVIOUS
  <1>8. /\ b \in BatchRecords /\ b.end = batch.end /\ b.records = batch.records /\ b.file = f
    <2>1. batch \in BatchRecords /\ batch.raw + 1 \in Nat
      BY DEF IInv, TypeOK, BatchRecords
    <2> QED
      BY <1>1, <1>7, <2>1 DEF BatchRecords
  <1>9. Shape(tail, b) /\ Content(tail, b) /\ Framed(tail, b)
    BY <1>8, SameBatch DEF IInv, Shape
  <1>10. PICK R \in Nat : R = ReadTo(tail, b) /\ R % 2 = 0
    <2>1. PICK F \in Nat, m \in Nat : /\ F % 2 = 0
                                      /\ ReadTo(tail, b) = F + 2 * m
      BY <1>9, FramedNumbers
    <2> QED
      BY <2>1
  <1>11. FileTypes /\ FilesInv /\ GoodPoint(tail.position)
    BY PointTypes DEF IInv, TypeOK, FileTypes, PointsInv
  <1>14. Sound(tail, batch) => Sound(tail, b)
    <2>1. Flushed(tail, b) = Flushed(tail, batch)
      BY <1>8 DEF Flushed
    <2> QED
      BY <1>8, <2>1, SoundSame
  <1>12. CASE s % 2 = 0
    <2>1. PICK a \in Nat : s = 2 * a
      BY <1>12, EvenOrOdd
    <2>2. PICK line \in Lines : line = log[f][(s \div 2) + 1] /\ line = log[f][a + 1] 
      <3>1. a + 1 \in 1..n
        BY <1>3, <1>4, <1>5, <2>1
      <3>2. (s \div 2) + 1 = a + 1
        BY <2>1
      <3> QED
        <4>1. log[f] \in Seq(Lines)
          BY <1>1 DEF IInv, TypeOK
        <4>2. log[f][a + 1] \in Lines
          BY <1>5, <3>1, <4>1
        <4> QED
          BY <3>2, <4>2
    <2>3. PICK u : u = [tail EXCEPT !.scan = s + 1, !.partial = line]
      OBVIOUS
    <2>4. tail' = u /\ batch' = b
      BY <1>1, <1>2, <1>7, <1>12, <2>2, <2>3 DEF ReadCell, IInv, TypeOK, TailRecords
    <2>5. /\ u \in TailRecords /\ u.position = tail.position /\ u.open = tail.open /\ u.scan = s + 1
          /\ u.end = tail.end /\ u.staged = None /\ u.partial = line /\ u.pending = None
      BY <1>2, <1>6, <2>3 DEF IInv, TypeOK, TailRecords
    <2>6. Flushed(u, b) = Flushed(tail, b) /\ ReadTo(u, b) = R
      BY <1>10, <2>5 DEF Flushed, ReadTo
    <2>7. tail.partial = None
      <3>1. CASE tail.partial # None
        <4>1. s = R + 0 + 1
          BY <1>2, <1>9, <1>10, <3>1 DEF Shape
        <4> QED
          BY <1>10, <1>12, <4>1
      <3> QED
        BY <3>1
    <2>8. s = R
      <3>1. s = R + 0 + 0
        BY <1>2, <1>9, <1>10, <2>7 DEF Shape
      <3> QED
        BY <3>1, <1>10
    <2>9. line # None
      BY ConstantTypes
    <2>10. Shape(u, b)
      <3>1. Framed(u, b)
        BY <1>9, <2>5, <2>6, <1>10 DEF Framed
      <3>2. u.scan = R + 0 + 1
        BY <2>5, <2>8
      <3> QED
        BY <2>5, <2>6, <2>9, <3>1, <3>2 DEF Shape
    <2>11. Content(u, b)
      <3>1. Faithful(u, b)
        BY <1>9, <2>5, <2>6 DEF Content, Faithful
      <3>2. s + 1 <= Size(f)
        BY <1>3, <1>4
      <3>3. ASSUME NEW i \in DOMAIN log[f], 2 * i = (s + 1) + 1
            PROVE  line = log[f][i]
        <4>1. i = a + 1
          BY <1>1, <2>1, <3>3 DEF IInv, TypeOK
        <4> QED
          BY <2>2, <4>1
      <3> QED
        BY <1>1, <2>5, <3>1, <3>2, <3>3 DEF Content
    <2>12. Sound(tail, b) => Sound(u, b)
      BY <2>5, <2>6, SoundSame
    <2> QED
      BY <1>1, <1>8, <1>14, <2>4, <2>5, <2>10, <2>11, <2>12 DEF Follows
  <1>13. CASE s % 2 # 0
    <2>1. tail.partial # None /\ s = R + 1
      <3>1. CASE tail.partial = None
        <4>1. s = R + 0 + 0
          BY <1>2, <1>9, <1>10, <3>1 DEF Shape
        <4> QED
          BY <1>10, <1>13, <4>1
      <3>2. CASE tail.partial # None
        <4>1. s = R + 0 + 1
          BY <1>2, <1>9, <1>10, <3>2 DEF Shape
        <4> QED
          BY <1>10, <3>2, <4>1
      <3> QED
        BY <3>1, <3>2
    <2>2. PICK line \in Lines : line = tail.partial
      BY <2>1 DEF IInv, TypeOK, TailRecords
    <2>3. PICK u : u = [tail EXCEPT !.scan = s + 1, !.partial = None]
      OBVIOUS
    <2>4. PICK next : next = AcceptLine(u, b, line) /\ tail' = next.tail /\ batch' = next.batch
      <3>1. u = [[tail EXCEPT !.scan = @ + 1] EXCEPT !.partial = None]
        BY <1>2, <2>3 DEF IInv, TypeOK, TailRecords
      <3> QED
        BY <1>1, <1>2, <1>7, <1>13, <2>2, <3>1, Zenon DEF ReadCell
    <2>5. /\ u \in TailRecords /\ u.position = tail.position /\ u.open = tail.open /\ u.scan = s + 1
          /\ u.end = tail.end /\ u.staged = None /\ u.partial = None /\ u.pending = None
      BY <1>2, <1>6, <2>3 DEF IInv, TypeOK, TailRecords, None
    <2>6. Flushed(u, b) = Flushed(tail, b) /\ ReadTo(u, b) = R
      BY <1>10, <2>5 DEF Flushed, ReadTo
    <2>7. Before(u, b, line)
      <3>1. Framed(u, b)
        BY <1>9, <2>5, <2>6, <1>10 DEF Framed
      <3>2. Faithful(u, b)
        BY <1>9, <2>5, <2>6 DEF Content, Faithful
      <3>3. u.scan = ReadTo(u, b) + 2
        BY <2>1, <2>5, <2>6
      <3>4. s + 1 <= Size(f)
        BY <1>3, <1>4
      <3> QED
        BY <1>1, <1>2, <1>9, <2>1, <2>2, <2>5, <3>1, <3>2, <3>3, <3>4 DEF Before, Content
    <2>8. /\ Shape(next.tail, next.batch) /\ Content(next.tail, next.batch)
          /\ next.tail.position = u.position /\ next.tail.pending = u.pending
          /\ next.batch.file = b.file
          /\ LinesInv /\ Sound(u, b) => Sound(next.tail, next.batch)
      BY <1>11, <2>4, <2>5, <2>7, AcceptLineKeeps
    <2>9. Sound(tail, b) => Sound(u, b)
      BY <2>5, <2>6, SoundSame
    <2> QED
      BY <1>1, <1>8, <1>14, <2>4, <2>5, <2>8, <2>9 DEF Follows
  <1> QED
    BY <1>12, <1>13

\* Ending a read: the tail fits the finished batch, and stays sound.
LEMMA EndReadKeeps ==
    ASSUME IInv, EndRead
    PROVE  /\ \E t, b : /\ Follows(t, b) /\ t.position.file = b.file /\ b.file \in FileIds
                        /\ t.pending = b.end
                        /\ LinesInv /\ Sound(tail, batch) => Sound(t, b)
           /\ tail'.position = tail.position
  <1>1. batch.file \in FileIds /\ tail.position.file = batch.file
    BY DEF IInv, StepInv, EndRead
  <1>2. PICK next : /\ next = IF AtRest(tail, batch) THEN FlushOpen(tail, batch)
                              ELSE [tail |-> tail, batch |-> batch]
                    /\ tail' = [next.tail EXCEPT !.pending = next.batch.end]
                    /\ batch' = next.batch
    BY DEF EndRead
  <1>3. FileTypes /\ Framed(tail, batch) /\ Faithful(tail, batch)
    BY DEF IInv, TypeOK, FileTypes, Shape, Content
  <1>4. /\ Shape(next.tail, next.batch) /\ Content(next.tail, next.batch)
        /\ next.tail.position = tail.position /\ next.batch.file = batch.file
        /\ LinesInv /\ Sound(tail, batch) => Sound(next.tail, next.batch)
    <2>1. CASE ~AtRest(tail, batch)
      BY <1>2, <2>1 DEF IInv
    <2>2. CASE AtRest(tail, batch)
      <3>1. next = FlushOpen(tail, batch) /\ tail.open # <<>> /\ tail.staged = None /\ tail.partial = None
        BY <1>2, <2>2 DEF AtRest
      <3>2. /\ next.tail.open = <<>> /\ next.tail.position = tail.position
            /\ next.tail.scan = tail.scan
            /\ next.tail.staged = tail.staged /\ next.tail.partial = tail.partial
            /\ next.batch.file = batch.file
            /\ Framed(next.tail, next.batch) /\ Faithful(next.tail, next.batch)
            /\ ReadTo(next.tail, next.batch) = ReadTo(tail, batch)
        BY <1>3, <3>1, FlushKeeps
      <3>3. Shape(next.tail, next.batch)
        BY <3>1, <3>2 DEF IInv, Shape
      <3>4. Content(next.tail, next.batch)
        BY <3>1, <3>2 DEF IInv, Content
      <3>5. Intact(tail.position.file) => ReadTo(tail, batch) <= Size(tail.position.file)
        <4>1. tail.scan = ReadTo(tail, batch) + 0 + 0
          BY <3>1 DEF IInv, Shape
        <4>2. ReadTo(tail, batch) \in Nat
          BY <1>3, FramedNumbers
        <4>3. tail.scan = ReadTo(tail, batch)
          BY <4>1, <4>2
        <4> QED
          BY <4>3 DEF IInv, Content
      <3>6. LinesInv /\ Sound(tail, batch) => Sound(next.tail, next.batch)
        <4>1. ~Continues(tail.open, None) /\ GoodPoint(tail.position) /\ FilesInv
          BY <2>2, PointTypes DEF AtRest, IInv, PointsInv
        <4> QED
          BY <1>3, <3>1, <3>5, <4>1, FlushSound
      <3> QED
        BY <3>2, <3>3, <3>4, <3>6
    <2> QED
      BY <2>1, <2>2
  <1>5. PICK t, b : t = [next.tail EXCEPT !.pending = next.batch.end] /\ b = next.batch
    OBVIOUS
  <1>6. next.tail \in TailRecords /\ b \in BatchRecords
    BY <1>4, <1>5 DEF Shape, Framed
  <1>7. /\ t \in TailRecords /\ t.position = next.tail.position /\ t.open = next.tail.open
        /\ t.scan = next.tail.scan /\ t.end = next.tail.end /\ t.staged = next.tail.staged
        /\ t.partial = next.tail.partial /\ t.pending = b.end
    BY <1>5, <1>6 DEF TailRecords, BatchRecords
  <1>8. Flushed(t, b) = Flushed(next.tail, b) /\ ReadTo(t, b) = ReadTo(next.tail, b)
    BY <1>7 DEF Flushed, ReadTo
  <1>9. Shape(t, b)
    BY <1>4, <1>5, <1>7, <1>8 DEF Shape, Framed
  <1>10. PICK v : v = next.tail /\ Content(v, b) /\ (LinesInv /\ Sound(tail, batch) => Sound(v, b))
    BY <1>4, <1>5
  <1>14. Content(t, b)
    BY <1>7, <1>8, <1>10, ContentSame
  <1>11. Follows(t, b) /\ tail'.position = tail.position
    <2>1. tail' = t /\ batch' = b
      BY <1>2, <1>5
    <2>2. tail'.position = tail.position
      BY <1>4, <1>7, <2>1
    <2> QED
      BY <1>9, <1>14, <2>1, <2>2 DEF Follows
  <1>12. t.position.file = b.file /\ b.file \in FileIds /\ t.pending = b.end
    BY <1>1, <1>4, <1>5, <1>7
  <1>13. LinesInv /\ Sound(tail, batch) => Sound(t, b)
    <2>1. t.position = v.position /\ t.open = v.open /\ Flushed(t, b) = Flushed(v, b)
      BY <1>7, <1>8, <1>10
    <2>2. Sound(v, b) => Sound(t, b)
      BY <2>1, SoundSame
    <2> QED
      BY <1>10, <2>2
  <1> QED
    BY <1>11, <1>12, <1>13

\* The acknowledged position ends the last record of the batch.
LEMMA AcceptKeeps ==
    ASSUME IInv, Accept
    PROVE  /\ \E t, b : /\ Follows(t, b) /\ t.pending = None /\ b = NoBatch
                        /\ Sound(tail, batch) => Sound(t, b)
           /\ tail'.position = [file |-> batch.file, off |-> batch.end]
           /\ tail'.position \in Positions /\ Flushed(tail, batch) = batch.end
           /\ offsets' = [offsets EXCEPT ![name] = tail'.position]
  <1>1. /\ batch.file \in FileIds /\ tail.position.file = batch.file
        /\ tail.pending = batch.end /\ batch.end # None
    BY DEF IInv, StepInv, Accept
  <1>2. /\ tail \in TailRecords /\ batch \in BatchRecords /\ tail.position \in Positions
        /\ batch.end \in Offsets
    BY DEF IInv, TypeOK, TailRecords, BatchRecords
  <1>3. PICK p \in Positions : p = [file |-> batch.file, off |-> batch.end]
    BY <1>1, <1>2 DEF Positions
  <1>4. PICK t : t = Acknowledge(tail)
    OBVIOUS
  <1>5. /\ t \in TailRecords /\ t.position = p /\ t.open = tail.open
        /\ t.scan = tail.scan /\ t.end = tail.end /\ t.staged = tail.staged
        /\ t.partial = tail.partial /\ t.pending = None
    <2>1. t = [tail EXCEPT !.position = [tail.position EXCEPT !.off = batch.end], !.pending = None]
      BY <1>1, <1>2, <1>4 DEF Acknowledge, TailRecords
    <2>2. [tail.position EXCEPT !.off = batch.end] = p
      BY <1>1, <1>2, <1>3 DEF Positions
    <2> QED
      BY <1>2, <1>3, <2>1, <2>2, ConstantTypes DEF TailRecords, None
  <1>6. tail' = t /\ batch' = NoBatch /\ offsets' = [offsets EXCEPT ![name] = t.position]
    BY <1>4 DEF Accept, AfterBatch
  <1>7. Flushed(t, NoBatch) = Flushed(tail, batch) /\ ReadTo(t, NoBatch) = ReadTo(tail, batch)
    BY <1>1, <1>3, <1>5 DEF Flushed, ReadTo, NoBatch
  <1>8. Shape(tail, batch) /\ Content(tail, batch)
    BY DEF IInv
  <1>9. Shape(t, NoBatch)
    <2>1. Framed(t, NoBatch)
      <3>1. None % 2 = 0
        BY DEF None
      <3> QED
        BY <1>3, <1>5, <1>7, <1>8, <3>1, NoBatchUnread DEF Shape, Framed, Unread
    <2> QED
      BY <1>5, <1>7, <1>8, <2>1 DEF Shape
  <1>10. Content(t, NoBatch)
    <2>1. Flushed(t, NoBatch) = batch.end
      BY <1>1, <1>7 DEF Flushed
    <2>2. ASSUME Intact(batch.file), NEW i \in DOMAIN log[batch.file], batch.end < 2 * i, 2 * i <= batch.end
          PROVE  FALSE
      <3>1. i \in Nat
        BY <1>1, <2>2 DEF IInv, TypeOK
      <3>2. batch.end \in Nat
        BY <1>2, ConstantTypes
      <3> QED
        BY <2>2, <3>1, <3>2
    <2>3. Faithful(t, NoBatch)
      BY <1>1, <1>3, <1>5, <1>7, <1>8, <2>1, <2>2 DEF Content, Faithful
    <2> QED
      BY <1>1, <1>3, <1>5, <1>8, <2>3 DEF Content
  <1>11. Flushed(tail, batch) = batch.end
    BY <1>1 DEF Flushed
  <1>12. Sound(tail, batch) => Sound(t, NoBatch)
    <2>1. DOMAIN NoBatch.records = {}
      BY DEF NoBatch
    <2> QED
      BY <1>1, <1>3, <1>5, <1>7, <2>1 DEF Sound, InOrder
  <1> QED
    BY <1>3, <1>5, <1>6, <1>9, <1>10, <1>11, <1>12 DEF Follows

\* A step that reads nothing and acknowledges nothing.
Lands(p) == tail' = NewTail(p) /\ batch' = NoBatch

\* A tail that is opened again at a position has read nothing, and is sound there.
LEMMA LandsKeeps ==
    ASSUME FileTypes, NEW p \in Positions, GoodPoint(p), Lands(p)
    PROVE  /\ \E t, b : /\ Follows(t, b) /\ t.pending = None /\ b = NoBatch
                        /\ (cut = {} /\ p.file # None => Boundary(p.file, p.off)) => Sound(t, b)
           /\ tail'.position = p
  <1>1. PICK t : t = NewTail(p)
    OBVIOUS
  <1>2. /\ Shape(t, NoBatch) /\ Content(t, NoBatch)
        /\ (cut = {} /\ p.file # None => Boundary(p.file, p.off)) => Sound(t, NoBatch)
    BY <1>1, NoBatchUnread, FreshTail DEF Unread
  <1> QED
    BY <1>1, <1>2, NewTailTypes DEF Lands, Follows

-----------------------------------------------------------------------------
(* Any step. *)

\* Where a stop, a failure or a restart takes the tail.
LEMMA Landings ==
    ASSUME IInv, [Next]_vars
    PROVE  \/ BeginRead \/ ReadCell \/ EndRead \/ Accept
           \/ UNCHANGED <<tail, batch>>
           \/ NothingToAcknowledge
           \/ \E p \in {tail.position, NoPosition, offsets[current], saved[current]} : Lands(p)
  <1>1. CASE WriteHalf \/ Rotate \/ Truncate \/ StartCycle \/ SourceLimitReached \/ AdmissionFatal \/ UNCHANGED vars
    BY <1>1 DEF WriteHalf, Rotate, Truncate, StartCycle, SourceLimitReached, AdmissionFatal, vars,
                tailVars, cycleVars
  <1>2. CASE ReadFails
    <2>1. CASE pc = "read"
      BY <1>2, <2>1 DEF ReadFails, IInv, StepInv
    <2>2. CASE pc # "read"
      BY <1>2, <2>2 DEF ReadFails, ResetVolatile, Lands
    <2> QED
      BY <2>1, <2>2
  <1>3. CASE Reject
    BY <1>3 DEF Reject, ResetVolatile, Lands
  <1>4. CASE Save
    BY <1>4 DEF Save, Stop, Lands
  <1>5. CASE Rescan
    BY <1>5 DEF Rescan, Lands, IInv, StepInv, cycleVars
  <1>6. CASE Kill \/ PowerLoss
    BY <1>6 DEF Kill, PowerLoss, Stop, Lands
  <1>7. CASE Start
    <2>1. current \in Names /\ NoOffsets[current] = NoPosition
      BY DEF IInv, TypeOK, NoOffsets
    <2>2. batch' = NoBatch
      BY <1>7 DEF Start, IInv, StepInv, cycleVars
    <2>3. tail' = NewTail(saved[current]) \/ tail' = NewTail(NoPosition)
      BY <1>7, <2>1 DEF Start
    <2> QED
      BY <2>2, <2>3 DEF Lands
  <1> QED
    BY <1>1, <1>2, <1>3, <1>4, <1>5, <1>6, <1>7 DEF Next, Collector

\* A step leaves a tail and a batch that fit each other, at a point the offsets know of.
LEMMA TailStep ==
    ASSUME IInv, [Next]_vars
    PROVE  /\ \E t, b : Follows(t, b) /\ (LinesInv /\ WholeInv /\ Sound(tail, batch) => Sound(t, b))
           /\ \/ tail'.position \in ResumePoints \cup {NoPosition}
              \/ BeginRead /\ tail'.position = [file |-> at[name], off |-> 0]
              \/ Accept
  <1> USE DEF IInv
  <1>0. FileTypes
    BY DEF TypeOK, FileTypes
  <1>1. CASE BeginRead
    BY <1>1, BeginReadKeeps, PointTypes
  <1>2. CASE ReadCell
    BY <1>2, ReadCellKeeps, PointTypes
  <1>3. CASE EndRead
    BY <1>3, EndReadKeeps, PointTypes
  <1>4. CASE Accept
    BY <1>4, AcceptKeeps
  <1>5. CASE UNCHANGED <<tail, batch>>
    BY <1>5, PointTypes DEF Follows
  <1>6. CASE NothingToAcknowledge
    <2>1. tail' = tail /\ batch' = NoBatch
      BY <1>6 DEF NothingToAcknowledge, AfterBatch, tailVars
    <2>2. NoBatch.end = batch.end /\ NoBatch.records = batch.records
      BY <1>6 DEF NothingToAcknowledge, StepInv, Shape, Framed, NoBatch
    <2>3. Follows(tail, NoBatch)
      BY <2>1, <2>2, NoBatchUnread, SameBatch DEF Follows
    <2>4. Sound(tail, batch) => Sound(tail, NoBatch)
      <3>1. Flushed(tail, NoBatch) = Flushed(tail, batch)
        BY <2>2 DEF Flushed
      <3> QED
        BY <2>2, <3>1, SoundSame
    <2> QED
      BY <2>1, <2>3, <2>4, PointTypes
  <1>7. CASE \E p \in {tail.position, NoPosition, offsets[current], saved[current]} : Lands(p)
    <2>1. PICK p \in {tail.position, NoPosition, offsets[current], saved[current]} : Lands(p)
      BY <1>7
    <2>2. p \in ResumePoints \cup {NoPosition} /\ p \in Positions
      BY <2>1, PointTypes, ConstantTypes DEF TypeOK
    <2>3. GoodPoint(p)
      BY <2>2, FileStart DEF PointsInv
    <2>4. WholeInv /\ cut = {} /\ p.file # None => Boundary(p.file, p.off)
      BY <2>2 DEF WholeInv, NoPosition
    <2> QED
      BY <1>0, <2>1, <2>2, <2>3, <2>4, LandsKeeps
  <1> QED
    BY <1>1, <1>2, <1>3, <1>4, <1>5, <1>6, <1>7, Landings

\* No step invents a position: but for the acknowledged one, the points are
\* those of before, the start of the followed file, or none.
LEMMA PointsStep ==
    ASSUME IInv, [Next]_vars, NEW p \in ResumePoints'
    PROVE  \/ p \in ResumePoints \cup {NoPosition}
           \/ BeginRead /\ p = [file |-> at[name], off |-> 0]
           \/ Accept /\ p = [file |-> batch.file, off |-> batch.end]
  <1>1. CASE p = tail'.position
    BY <1>1, TailStep, AcceptKeeps
  <1>2. CASE \E found \in older' \cup {saved', offsets'}, n \in Names : p = found[n]
    <2>1. PICK found \in older' \cup {saved', offsets'}, n \in Names : p = found[n]
      BY <1>2
    <2>2. CASE found \in older \cup {saved, offsets}
      BY <2>1, <2>2 DEF ResumePoints
    <2>3. CASE found = NoOffsets
      BY <2>1, <2>3 DEF NoOffsets
    <2>4. CASE Accept
      <3>1. /\ offsets' = [offsets EXCEPT ![name] = [file |-> batch.file, off |-> batch.end]]
            /\ UNCHANGED <<saved, older>> /\ offsets \in [Names -> Positions]
        BY <2>4, AcceptKeeps DEF Accept, IInv, TypeOK
      <3>2. CASE found = offsets' /\ n = name
        BY <2>1, <2>4, <3>1, <3>2 DEF IInv, TypeOK
      <3>3. CASE found = offsets' /\ n # name
        <4>1. p = offsets[n]
          BY <2>1, <3>1, <3>3
        <4> QED
          BY <4>1 DEF ResumePoints
      <3>4. CASE found # offsets'
        BY <2>1, <2>2, <3>1, <3>4
      <3> QED
        BY <3>2, <3>3, <3>4
    <2>5. CASE ~Accept
      <3>1. older' \subseteq older \cup {saved} /\ saved' \in older \cup {saved, offsets}
        BY <2>5 DEF Next, vars, storeVars, Collector, WriteHalf, Rotate, Truncate, BeginRead, ReadCell, EndRead,
             StartCycle, SourceLimitReached, NothingToAcknowledge, Save, Rescan, Start, ReadFails,
             Reject, AdmissionFatal, Kill, PowerLoss
      <3>2. offsets' \in {offsets, saved, NoOffsets}
        BY <2>5 DEF Next, vars, storeVars, Collector, WriteHalf, Rotate, Truncate, BeginRead, ReadCell, EndRead,
             StartCycle, SourceLimitReached, NothingToAcknowledge, Save, Rescan, Start, ReadFails,
             Reject, AdmissionFatal, Kill, PowerLoss
      <3> QED
        BY <2>1, <2>2, <2>3, <3>1, <3>2
    <2> QED
      BY <2>4, <2>5
  <1> QED
    BY <1>1, <1>2 DEF ResumePoints

-----------------------------------------------------------------------------
(* The first invariant. *)

OtherTypes ==
    /\ format \in Formats
    /\ pc \in {"down", "idle", "read", "scan", "admit", "save", "dying"}
    /\ cycle \in Nat /\ changed \in BOOLEAN
    /\ offsets \in [Names -> Positions] /\ saved \in [Names -> Positions]
    /\ older \subseteq [Names -> Positions]
    /\ replay \in BOOLEAN
    /\ left \in 0..Budget

\* A step keeps the types of the collector's own state.
LEMMA OtherTypesStep ==
    ASSUME IInv, [Next]_vars
    PROVE  OtherTypes'
  <1>0. OtherTypes /\ batch \in BatchRecords
    BY DEF IInv, TypeOK, OtherTypes
  <1>1. left' \in 0..Budget
    <2>1. left' = left \/ (left > 0 /\ left' = left - 1)
      BY DEF Next, vars, Fault, Collector, WriteHalf, Rotate, Truncate, BeginRead, ReadCell, EndRead,
             StartCycle, SourceLimitReached, NothingToAcknowledge, Accept, Save, Rescan, Start, ReadFails,
             Reject, AdmissionFatal, Kill, PowerLoss
    <2>2. PICK m \in 0..Budget : m = left
      BY <1>0 DEF OtherTypes
    <2>3. m > 0 => m - 1 \in 0..Budget
      BY <2>2 DEF BudgetAssumption
    <2> QED
      BY <2>1, <2>2, <2>3
  <1>2. cycle' \in Nat
    <2>1. CASE EndRead
      <3>1. PICK m \in Nat : m = cycle
        BY <1>0 DEF OtherTypes
      <3>2. PICK raw \in Nat : raw = batch.raw
        BY <1>0 DEF BatchRecords
      <3>3. PICK read \in raw..(IF tail.staged = None THEN raw ELSE RawLimit) : cycle' = cycle + read
        BY <2>1, <3>2 DEF EndRead
      <3>4. read \in Nat
        BY <3>2, <3>3 DEF BoundsAssumption
      <3> QED
        BY <3>1, <3>3, <3>4
    <2>2. CASE ~EndRead
      <3>1. cycle' = cycle \/ cycle' = 0
        BY <2>2 DEF Next, vars, cycleVars, Stop, Collector, WriteHalf, Rotate, Truncate, BeginRead, ReadCell,
             StartCycle, SourceLimitReached, NothingToAcknowledge, Accept, Save, Rescan, Start, ReadFails,
             Reject, AdmissionFatal, Kill, PowerLoss
      <3> QED
        BY <1>0, <3>1 DEF OtherTypes
    <2> QED
      BY <2>1, <2>2
  <1>3. replay' \in BOOLEAN
    <2>1. \/ replay' = replay \/ replay' = TRUE
          \/ replay' = (replay \/ saved' # offsets)
          \/ replay' = (replay \/ saved # offsets)
          \/ PowerLoss
      BY DEF Next, vars, historyVars, Collector, WriteHalf, Rotate, Truncate, BeginRead, ReadCell, EndRead,
             StartCycle, SourceLimitReached, NothingToAcknowledge, Accept, Save, Rescan, Start, ReadFails,
             Reject, AdmissionFatal, Kill
    <2>2. CASE PowerLoss
      <3>1. PICK found, shorter : replay' = (replay \/ shorter \/ found # offsets)
        BY <2>2 DEF PowerLoss
      <3> QED
        BY <3>1, Zenon
    <2>3. CASE ~PowerLoss
      BY <1>0, <2>1, <2>3, Zenon DEF OtherTypes
    <2> QED
      BY <2>2, <2>3
  <1>4. format' \in Formats /\ changed' \in BOOLEAN
    BY <1>0 DEF OtherTypes, Next, vars, cycleVars, Stop, Collector, WriteHalf, Rotate, Truncate, BeginRead,
         ReadCell, EndRead, StartCycle, SourceLimitReached, NothingToAcknowledge, Accept, Save, Rescan, Start,
         ReadFails, Reject, AdmissionFatal, Kill, PowerLoss
  <1>5. pc' \in {"down", "idle", "read", "scan", "admit", "save", "dying"}
    BY <1>0 DEF OtherTypes, Next, vars, AfterBatch, Stop, Collector, WriteHalf, Rotate, Truncate, BeginRead,
         ReadCell, EndRead, StartCycle, SourceLimitReached, NothingToAcknowledge, Accept, Save, Rescan, Start,
         ReadFails, Reject, AdmissionFatal, Kill, PowerLoss
  <1>6. /\ offsets' \in [Names -> Positions] /\ saved' \in [Names -> Positions]
        /\ older' \subseteq [Names -> Positions]
    <2>1. CASE Accept
      <3>1. offsets' = [offsets EXCEPT ![name] = tail'.position] /\ tail'.position \in Positions
        BY <2>1, AcceptKeeps
      <3> QED
        BY <1>0, <2>1, <3>1 DEF OtherTypes, Accept
    <2>2. CASE ~Accept
      <3>1. older' \subseteq older \cup {saved} /\ saved' \in older \cup {saved, offsets}
        BY <2>2 DEF Next, vars, storeVars, Collector, WriteHalf, Rotate, Truncate, BeginRead, ReadCell, EndRead,
             StartCycle, SourceLimitReached, NothingToAcknowledge, Save, Rescan, Start, ReadFails,
             Reject, AdmissionFatal, Kill, PowerLoss
      <3>2. offsets' \in {offsets, saved, NoOffsets}
        BY <2>2 DEF Next, vars, storeVars, Collector, WriteHalf, Rotate, Truncate, BeginRead, ReadCell, EndRead,
             StartCycle, SourceLimitReached, NothingToAcknowledge, Save, Rescan, Start, ReadFails,
             Reject, AdmissionFatal, Kill, PowerLoss
      <3> QED
        BY <1>0, <3>1, <3>2, ConstantTypes DEF OtherTypes
    <2> QED
      BY <2>1, <2>2
  <1> QED
    BY <1>1, <1>2, <1>3, <1>4, <1>5, <1>6 DEF OtherTypes

\* An acknowledged position: the batch it ends is admitted with it.
LEMMA AcknowledgedPoint ==
    ASSUME IInv, [Next]_vars, Accept, NEW p, p = [file |-> batch.file, off |-> batch.end]
    PROVE  GoodPoint(p)'
  <1> USE DEF IInv
  <1>1. PICK f \in FileIds : f = batch.file /\ tail.position.file = f
    BY DEF StepInv, Accept
  <1>2. PICK e \in Nat : e = batch.end /\ e % 2 = 0 /\ Flushed(tail, batch) = e
    BY AcceptKeeps, FramedNumbers DEF Shape, Framed
  <1>3. UNCHANGED fileVars /\ admitted' = admitted \o batch.records
    BY DEF Accept
  <1>4. Accounted' = Accounted \cup LinesOf(batch.records)
    <2>1. Accounted = LinesOf(admitted) /\ Accounted' = LinesOf(admitted')
      BY DEF Accounted, LinesOf
    <2>2. admitted \in Seq(Seq(Lines)) /\ batch.records \in Seq(Seq(Lines))
      BY DEF TypeOK, BatchRecords
    <2>3. LinesOf(admitted \o batch.records) = LinesOf(admitted) \cup LinesOf(batch.records)
      BY <2>2, LinesOfConcat
    <2> QED
      BY <1>3, <2>1, <2>3, Zenon
  <1>5. PICK s \in Nat : s = tail.scan /\ e <= s
    <2>1. PICK n \in Nat : ReadTo(tail, batch) = e + 2 * n
      BY <1>2, FramedNumbers DEF Shape
    <2>2. tail.scan \in Nat
      BY FramedNumbers DEF Shape
    <2> QED
      BY <1>2, <2>1, <2>2 DEF Shape
  <1>6. ASSUME Intact(f)
        PROVE  /\ e <= Size(f)
               /\ \A i \in DOMAIN log[f] : 2 * i <= e => log[f][i] \in Accounted'
    <2>1. s <= Size(f) /\ Size(f) \in Int
      <3>1. Size(f) \in Nat
        BY SizeBounds, ConstantTypes
      <3> QED
        BY <1>1, <1>5, <1>6, <3>1 DEF Content
    <2>2. e <= Size(f)
      BY <1>5, <2>1
    <2>3. PICK off \in Nat : off = tail.position.off
      BY FramedNumbers DEF Shape
    <2>4. ASSUME NEW i \in DOMAIN log[f], 2 * i <= e
          PROVE  log[f][i] \in Accounted'
      <3>1. i \in Nat
        BY DEF TypeOK
      <3>2. CASE 2 * i <= off
        <4>1. GoodPoint(tail.position)
          BY PointTypes DEF PointsInv
        <4> QED
          BY <1>1, <1>4, <1>6, <2>3, <3>2, <4>1 DEF GoodPoint
      <3>3. CASE off < 2 * i
        <4>1. log[f][i] \in LinesOf(batch.records)
          BY <1>1, <1>2, <1>6, <2>3, <2>4, <3>3 DEF Content, Faithful
        <4> QED
          BY <1>4, <4>1
      <3> QED
        BY <2>3, <3>1, <3>2, <3>3
    <2> QED
      BY <2>2, <2>4
  <1>7. Intact(f)' = Intact(f) /\ Size(f)' = Size(f) /\ log' = log
    BY <1>3 DEF fileVars, Intact, Size
  <1>8. p.file = f /\ p.off = e
    BY <1>1, <1>2
  <1> QED
    BY <1>2, <1>6, <1>7, <1>8 DEF GoodPoint

\* A step keeps every point that reading may resume from a good one.
LEMMA PointsInvStep ==
    ASSUME IInv, [Next]_vars
    PROVE  PointsInv'
  <1> SUFFICES ASSUME NEW p \in ResumePoints' PROVE GoodPoint(p)'
    BY DEF PointsInv
  <1>1. CASE p \in ResumePoints \cup {NoPosition}
    <2>1. p \in Positions /\ GoodPoint(p)
      BY <1>1, PointTypes, FileStart, ConstantTypes DEF IInv, PointsInv
    <2> QED
      BY <2>1, GoodPointStays
  <1>2. CASE BeginRead /\ p = [file |-> at[name], off |-> 0]
    <2>1. p \in Positions /\ GoodPoint(p)
      BY <1>2, FileStart, ConstantTypes DEF IInv, FilesInv, Positions
    <2> QED
      BY <2>1, GoodPointStays
  <1>3. CASE Accept /\ p = [file |-> batch.file, off |-> batch.end]
    BY <1>3, AcknowledgedPoint
  <1> QED
    BY <1>1, <1>2, <1>3, PointsStep

\* A step keeps what the collector holds of a batch at each of its steps.
LEMMA StepInvStep ==
    ASSUME IInv, [Next]_vars
    PROVE  StepInv'
  <1>1. CASE BeginRead
    <2>1. PICK t, b : tail' = t /\ batch' = b /\ t.position.file = b.file /\ b.file \in FileIds /\ t.pending = None
      BY <1>1, BeginReadKeeps DEF IInv, Follows
    <2> QED
      BY <1>1, <2>1 DEF BeginRead, StepInv
  <1>2. CASE ReadCell
    <2>1. PICK t, b : tail' = t /\ batch' = b /\ t.position.file = b.file /\ b.file \in FileIds /\ t.pending = None
      BY <1>2, ReadCellKeeps DEF IInv, Follows
    <2> QED
      BY <1>2, <2>1 DEF ReadCell, StepInv
  <1>3. CASE EndRead
    <2>1. PICK t, b : tail' = t /\ batch' = b /\ t.position.file = b.file /\ b.file \in FileIds /\ t.pending = b.end
      BY <1>3, EndReadKeeps DEF IInv, Follows
    <2> QED
      BY <1>3, <2>1 DEF EndRead, StepInv
  <1>4. CASE Accept
    <2>1. tail'.pending = None /\ batch' = NoBatch
      BY <1>4, AcceptKeeps DEF Follows
    <2> QED
      BY <1>4, <2>1 DEF Accept, AfterBatch, StepInv
  <1>5. CASE ReadFails
    <2>1. tail'.pending = None /\ batch' = NoBatch /\ pc' = "save"
      BY <1>5 DEF ReadFails, IInv, StepInv, ResetVolatile, NewTail
    <2> QED
      BY <2>1 DEF StepInv
  <1>6. CASE \/ WriteHalf \/ Rotate \/ Truncate \/ StartCycle \/ SourceLimitReached
             \/ NothingToAcknowledge \/ UNCHANGED vars
    BY <1>6 DEF WriteHalf, Rotate, Truncate, StartCycle, SourceLimitReached, NothingToAcknowledge,
                AfterBatch, vars, tailVars, cycleVars, IInv, StepInv
  <1>7. CASE Reject \/ AdmissionFatal
    BY <1>7 DEF Reject, AdmissionFatal, ResetVolatile, NewTail, tailVars, cycleVars, IInv, StepInv
  <1>8. CASE Save \/ Rescan \/ Start \/ Kill \/ PowerLoss
    BY <1>8 DEF Save, Rescan, Start, Kill, PowerLoss, Stop, NewTail, cycleVars, IInv, StepInv
  <1> QED
    BY <1>1, <1>2, <1>3, <1>4, <1>5, <1>6, <1>7, <1>8 DEF Next, Collector

\* The first invariant is inductive.
LEMMA Step ==
    ASSUME IInv, [Next]_vars
    PROVE  IInv'
  <1>1. FileTypes /\ FilesInv
    BY DEF IInv, TypeOK, FileTypes
  <1>2. FileTypes' /\ FilesInv'
    BY <1>1, FilesStep
  <1>3. PICK t, b : tail' = t /\ batch' = b /\ Shape(t, b) /\ Content(t, b)
    BY TailStep DEF Follows
  <1>4. Content(t, b)'
    BY <1>1, <1>3, ContentStays
  <1>5. Shape(tail, batch)' /\ Content(tail, batch)'
    <2>1. Shape(tail, batch)'
      BY <1>3 DEF Shape, Framed, ReadTo, Flushed
    <2>2. Content(tail, batch)'
      BY <1>3, <1>4 DEF Content, Faithful, Flushed
    <2> QED
      BY <2>1, <2>2
  <1>6. TypeOK'
    <2>1. t \in TailRecords /\ b \in BatchRecords
      BY <1>3 DEF Shape, Framed
    <2>2. admitted' \in Seq(Seq(Lines))
      BY AdmittedStep DEF IInv, TypeOK, BatchRecords
    <2> QED
      BY <1>2, <1>3, <2>1, <2>2, OtherTypesStep DEF TypeOK, FileTypes, OtherTypes
  <1> QED
    BY <1>2, <1>5, <1>6, PointsInvStep, StepInvStep DEF IInv

\* The first invariant holds at the start.
LEMMA Start0 == Init => IInv
  <1> SUFFICES ASSUME Init PROVE IInv
    OBVIOUS
  <1> USE DEF Init
  <1>1. FileTypes /\ FilesInv
    <2>1. 1 \in FileIds /\ 1 \in Names /\ written \in 0..MaxLine
      BY DEF FileIds, Names, BoundsAssumption
    <2> QED
      <3>1. FileTypes
        <4>1. log \in [FileIds -> Seq(Lines)]
          <5>1. <<>> \in Seq(Lines)
            OBVIOUS
          <5> QED
            BY <5>1
        <4>2. at \in [Names -> FileIds \cup {None}]
          BY <2>1
        <4> QED
          BY <2>1, <4>1, <4>2 DEF FileTypes
      <3>2. \A f \in FileIds : Len(log[f]) = 0
        OBVIOUS
      <3> QED
        BY <2>1, <3>1, <3>2 DEF FilesInv
  <1>2. TypeOK
    <2>1. NewTail(NoPosition) \in TailRecords
      BY NewTailTypes, ConstantTypes
    <2>2. admitted \in Seq(Seq(Lines)) /\ left \in 0..Budget
      BY DEF BudgetAssumption
    <2> QED
      BY <1>1, <2>1, <2>2, ConstantTypes DEF TypeOK, FileTypes
  <1>3. \A p \in ResumePoints : p = NoPosition
    BY NewTailTypes, ConstantTypes DEF ResumePoints, NoOffsets
  <1>4. PointsInv
    BY <1>3, FileStart DEF PointsInv
  <1>5. Shape(tail, batch) /\ Content(tail, batch)
    BY <1>1, FileStart, ConstantTypes, NoBatchUnread, FreshTail DEF Unread
  <1>6. StepInv
    BY NewTailTypes, ConstantTypes DEF StepInv
  <1> QED
    BY <1>1, <1>2, <1>4, <1>5, <1>6 DEF IInv

\* What is read ahead follows the position without a gap, and every position a
\* start may resume from has only admitted lines before it, in every reachable
\* state (tail.rs, scan, accept_line, acknowledge; log_sources.rs, collect).
THEOREM Invariance == Spec => []IInv
  <1>1. Init => IInv
    BY Start0
  <1>2. IInv /\ [Next]_vars => IInv'
    BY Step
  <1> QED
    BY <1>1, <1>2, PTL DEF Spec

\* The variables keep their types (tail.rs, Tail; offsets.rs, Offsets).
THEOREM TypeCorrect == Spec => []TypeOK
  <1>1. IInv => TypeOK
    BY DEF IInv
  <1> QED
    BY <1>1, Invariance, PTL

\* No start and no later read skips a line that belongs to no admitted record
\* (collection.rs admits, then acknowledges, then saves).
THEOREM NoLineSkipped == Spec => []NothingSkipped
  <1>1. ASSUME IInv
        PROVE  NothingSkipped
    <2>1. SUFFICES ASSUME NEW p \in ResumePoints, Intact(p.file), NEW i \in 1..p.off \div 2
                   PROVE  log[p.file][i] \in Accounted
      BY DEF NothingSkipped, Intact
    <2>2. GoodPoint(p) /\ p \in Positions
      BY <1>1, PointTypes DEF IInv, PointsInv
    <2>3. PICK f \in FileIds : f = p.file
      BY <2>1, <2>2 DEF Positions, Intact
    <2>4. PICK off \in Nat : off = p.off /\ off % 2 = 0
      BY <2>2, ConstantTypes DEF GoodPoint, Positions
    <2>5. i \in Nat /\ i > 0 /\ 2 * i <= off
      BY <2>4
    <2>6. off <= Size(f) /\ Size(f) \in Int /\ Size(f) <= 2 * Len(log[f])
      <3>1. Size(f) \in Nat /\ Size(f) <= 2 * Len(log[f])
        BY <1>1, SizeBounds, ConstantTypes DEF IInv
      <3> QED
        BY <2>1, <2>2, <2>3, <2>4, <3>1 DEF GoodPoint
    <2>7. log[f] \in Seq(Lines)
      BY <1>1 DEF IInv, TypeOK
    <2>8. i \in DOMAIN log[f]
      <3>1. PICK n \in Nat : n = Len(log[f])
        BY <2>7
      <3>2. i <= n
        BY <2>5, <2>6, <2>4, <3>1
      <3> QED
        BY <2>5, <2>7, <3>1, <3>2
    <2> QED
      BY <2>1, <2>2, <2>3, <2>4, <2>5, <2>8 DEF GoodPoint
  <1> QED
    BY <1>1, Invariance, PTL

-----------------------------------------------------------------------------
(* The steps, and what order they leave. *)

\* What the first invariant says of the files.
LEMMA FileFacts ==
    ASSUME IInv
    PROVE  FileTypes /\ FilesInv
  BY DEF IInv, TypeOK, FileTypes

\* A distance, counted from one further.
OneFurther(w, x, m, i) ==
    w = x + (m - i) => w + 1 = x + ((m + 1) - i) /\ x = (w + 1) + (i - (m + 1))

\* Arithmetic: a distance, counted from one further.
LEMMA OneMore == \A w, x, m, i \in Int : OneFurther(w, x, m, i)
  BY DEF OneFurther

\* The server writes the next line to the current file.
LEMMA WriteInOrder ==
    ASSUME FileTypes, FilesInv, NamesInOrder, FilesInOrder, WriteHalf, ~half
    PROVE  FilesInOrder'
  <1>1. PICK w \in Nat : w = written /\ w + 1 \in Lines
    BY ConstantTypes DEF FileTypes, WriteHalf, Lines
  <1>2. PICK c \in FileIds : c = at[current]
    BY DEF FilesInv
  <1>3. /\ log' = [log EXCEPT ![c] = Append(@, w + 1)]
        /\ written' = w + 1 /\ UNCHANGED <<at, current>>
    BY <1>1, <1>2 DEF WriteHalf
  <1>4. PICK q \in Seq(Lines) : q = log[c]
    BY DEF FileTypes
  <1>5. PICK m \in Nat : m = Len(q) /\ DOMAIN q = 1..m
    BY <1>4
  <1>6. PICK p \in Seq(Lines) : p = log'[c] /\ p = Append(q, w + 1)
    <2>1. Append(q, w + 1) \in Seq(Lines)
      BY <1>1, <1>4
    <2>2. log'[c] = Append(q, w + 1)
      BY <1>2, <1>3, <1>4 DEF FileTypes
    <2> QED
      BY <2>1, <2>2
  <1>7. Len(p) = m + 1 /\ DOMAIN p = 1..m + 1 /\ p[m + 1] = w + 1 /\ \A i \in 1..m : p[i] = q[i]
    BY <1>1, <1>4, <1>5, <1>6
  <1>8. \A f \in FileIds \ {c} : log'[f] = log[f]
    BY <1>3 DEF FileTypes
  <1>9. \A f \in FileIds : \A i \in DOMAIN log[f] : log[f][i] \in Nat /\ log[f][i] <= w
    <2> SUFFICES ASSUME NEW f \in FileIds, NEW i \in DOMAIN log[f]
                 PROVE  log[f][i] \in Nat /\ log[f][i] <= w
      OBVIOUS
    <2>1. log[f] \in Seq(Lines)
      BY DEF FileTypes
    <2>2. log[f][i] \in Lines
      BY <2>1
    <2> QED
      BY <1>1, <2>2, ConstantTypes DEF FilesInOrder
  <1>10. m # 0 => q[m] = w
    <2>1. m # 0 => q # <<>>
      BY <1>4, <1>5
    <2> QED
      BY <1>1, <1>2, <1>4, <1>5, <2>1 DEF FilesInOrder
  <1>11. m = 0 => w + 1 \in Heads
    <2>1. m = 0 => q = <<>>
      BY <1>4, <1>5
    <2> QED
      BY <1>1, <1>2, <1>4, <2>1 DEF FilesInOrder
  <1>12. ASSUME NEW i \in DOMAIN p
         PROVE  p[i] \in Nat /\ p[i] <= w + 1 /\ (i \in 1..m => p[i] <= w)
    <2>1. CASE i \in 1..m
      BY <1>1, <1>4, <1>5, <1>7, <1>9, <2>1
    <2>2. CASE i = m + 1
      BY <1>1, <1>5, <1>7, <2>2
    <2> QED
      BY <1>5, <1>7, <2>1, <2>2
  <1>13. \A f \in FileIds : \A i \in DOMAIN log'[f] : log'[f][i] <= w + 1
    <2> SUFFICES ASSUME NEW f \in FileIds, NEW i \in DOMAIN log'[f] PROVE log'[f][i] <= w + 1
      OBVIOUS
    <2>1. CASE f = c
      BY <1>6, <1>12, <2>1
    <2>2. CASE f # c
      <3>1. PICK l \in Nat : l = log[f][i] /\ l <= w
        BY <1>8, <1>9, <2>2
      <3> QED
        BY <1>8, <2>2, <3>1
    <2> QED
      BY <2>1, <2>2
  <1>14. ASSUME NEW i \in DOMAIN p, NEW j \in DOMAIN p
         PROVE  p[j] = p[i] + (j - i)
    <2>1. \A x, y \in 1..m : q[y] = q[x] + (y - x)
      <3>1. \A x, y \in DOMAIN q : q[y] = q[x] + (y - x)
        BY <1>2, <1>4 DEF FilesInOrder
      <3> QED
        BY <1>5, <3>1
    <2>2. CASE i \in 1..m /\ j \in 1..m
      BY <1>7, <2>1, <2>2
    <2>3. CASE i = m + 1 /\ j = m + 1
      BY <1>5, <1>7, <2>3
    <2>4. CASE i \in 1..m /\ j = m + 1
      <3>1. q[m] = q[i] + (m - i) /\ q[m] = w
        BY <1>5, <1>10, <2>1, <2>4
      <3>2. PICK x \in Nat : x = q[i]
        BY <1>4, <1>5, <1>9, <2>4
      <3>3. w = x + (m - i)
        BY <3>1, <3>2
      <3>4. w + 1 = x + ((m + 1) - i)
        <4>1. i \in Int /\ m \in Int /\ x \in Int /\ w \in Int
          BY <1>1, <1>5, <2>4, <3>2
        <4>2. OneFurther(w, x, m, i)
          BY <4>1, OneMore
        <4> QED
          BY <3>3, <4>2 DEF OneFurther
      <3> QED
        BY <1>7, <2>4, <3>2, <3>4
    <2>5. CASE i = m + 1 /\ j \in 1..m
      <3>1. q[m] = q[j] + (m - j) /\ q[m] = w
        BY <1>5, <1>10, <2>1, <2>5
      <3>2. PICK x \in Nat : x = q[j]
        BY <1>4, <1>5, <1>9, <2>5
      <3>3. w = x + (m - j)
        BY <3>1, <3>2
      <3>4. x = (w + 1) + (j - (m + 1))
        <4>1. j \in Int /\ m \in Int /\ x \in Int /\ w \in Int
          BY <1>1, <1>5, <2>5, <3>2
        <4>2. OneFurther(w, x, m, j)
          BY <4>1, OneMore
        <4> QED
          BY <3>3, <4>2 DEF OneFurther
      <3> QED
        BY <1>7, <2>5, <3>2, <3>4
    <2> QED
      BY <1>5, <1>7, <2>2, <2>3, <2>4, <2>5
  <1>15. \A f \in FileIds : \A i, j \in DOMAIN log'[f] : log'[f][j] = log'[f][i] + (j - i)
    <2> SUFFICES ASSUME NEW f \in FileIds
                 PROVE  \A i, j \in DOMAIN log'[f] : log'[f][j] = log'[f][i] + (j - i)
      OBVIOUS
    <2>1. CASE f = c
      BY <1>6, <1>14, <2>1
    <2>2. CASE f # c
      BY <1>8, <2>2 DEF FilesInOrder
    <2> QED
      BY <2>1, <2>2
  <1>16. \A f \in FileIds : log'[f] # <<>> => log'[f][1] \in Heads
    <2> SUFFICES ASSUME NEW f \in FileIds, log'[f] # <<>> PROVE log'[f][1] \in Heads
      OBVIOUS
    <2>1. CASE f # c
      BY <1>8, <2>1 DEF FilesInOrder
    <2>2. CASE f = c /\ m = 0
      <3>1. p[1] = w + 1
        BY <1>7, <2>2
      <3> QED
        BY <1>6, <1>11, <2>2, <3>1
    <2>3. CASE f = c /\ m # 0
      <3>1. q # <<>> /\ 1 \in 1..m
        BY <1>4, <1>5, <2>3
      <3> QED
        BY <1>4, <1>6, <1>7, <2>3, <3>1 DEF FilesInOrder
    <2> QED
      BY <2>1, <2>2, <2>3
  <1>17. ASSUME NEW f \in FileIds, NEW g \in FileIds, f < g,
                NEW i \in DOMAIN log'[f], NEW j \in DOMAIN log'[g]
         PROVE  log'[f][i] < log'[g][j]
    <2>1. CASE f # c /\ g # c
      BY <1>8, <1>17, <2>1 DEF FilesInOrder
    <2>2. CASE f = c
      <3>1. g > c /\ g # c
        BY <1>17, <2>2, ConstantTypes
      <3>2. log[g] = <<>> /\ log'[g] = <<>>
        BY <1>2, <1>8, <3>1 DEF NamesInOrder
      <3> QED
        BY <1>17, <3>2
    <2>3. CASE f # c /\ g = c
      <3>1. PICK x \in Nat : x = log[f][i] /\ x <= w /\ log'[f][i] = x /\ i \in DOMAIN log[f]
        BY <1>8, <1>9, <2>3
      <3>2. CASE j = m + 1
        <4>1. x < w + 1
          BY <3>1
        <4> QED
          BY <1>6, <1>7, <2>3, <3>1, <3>2, <4>1
      <3>3. CASE j \in 1..m
        BY <1>4, <1>5, <1>6, <1>7, <1>17, <2>3, <3>1, <3>3 DEF FilesInOrder
      <3> QED
        <4>1. j \in 1..m + 1
          BY <1>6, <1>7, <1>17, <2>3
        <4> QED
          BY <1>5, <3>2, <3>3, <4>1
    <2> QED
      BY <2>1, <2>2, <2>3
  <1>18. log'[c] # <<>> /\ log'[c][Len(log'[c])] = w + 1
    BY <1>5, <1>6, <1>7
  <1> QED
    <2>1. log'[at'[current']] # <<>> /\ log'[at'[current']][Len(log'[at'[current']])] = written'
      BY <1>2, <1>3, <1>18
    <2>2. written' = w + 1
      BY <1>3
    <2> QED
      BY <1>13, <1>15, <1>16, <1>17, <2>1, <2>2 DEF FilesInOrder

\* A later file is another file.
LEMMA LaterFile == \A f, g \in FileIds : f > g => f # g
  <1> SUFFICES ASSUME NEW f \in FileIds, f > f PROVE FALSE
    OBVIOUS
  <1>1. f \in Nat
    BY ConstantTypes
  <1> QED
    BY <1>1

\* A step keeps the names in the order in which the server used them.
LEMMA NamesStep ==
    ASSUME FileTypes, FilesInv, NamesInOrder, [Next]_vars
    PROVE  NamesInOrder'
  <1> USE DEF NamesInOrder
  <1>1. CASE WriteHalf
    <2>1. UNCHANGED <<at, current>>
      BY <1>1 DEF WriteHalf
    <2>2. \A f \in FileIds : f # at[current] => log'[f] = log[f]
      BY <1>1 DEF WriteHalf, FileTypes
    <2>3. \A f \in FileIds : f > at[current] => f # at[current]
      BY LaterFile DEF FilesInv
    <2> QED
      BY <2>1, <2>2, <2>3
  <1>2. CASE Rotate
    <2>1. PICK n \in {current, current + 1} \cap Names :
              at' = [at EXCEPT ![n] = at[current] + 1] /\ current' = n
      BY <1>2 DEF Rotate
    <2>2. log' = log
      BY <1>2 DEF Rotate
    <2>3. PICK c \in Nat, a \in Nat : c = current /\ a = at[current] /\ n \in {c, c + 1} /\ n \in Nat
      BY <2>1, ConstantTypes DEF FileTypes, FilesInv
    <2>4. at'[n] = a + 1 /\ \A m \in Names : m # n => at'[m] = at[m]
      BY <2>1, <2>3 DEF FileTypes
    <2>5. \A m \in Names : m \in Nat /\ at[m] \in Nat
      BY ConstantTypes DEF FileTypes, None
    <2>6. \A m \in Names : m > n => at'[m] = None
      BY <2>3, <2>4, <2>5
    <2>7. \A m \in Names : m < n => at'[m] < a + 1
      <3> SUFFICES ASSUME NEW m \in Names, m < n PROVE at'[m] < a + 1
        OBVIOUS
      <3>1. at'[m] = at[m] /\ m \in Nat /\ at[m] \in Nat
        BY <2>3, <2>4, <2>5
      <3>2. m < c \/ m = c
        BY <2>3, <3>1
      <3>3. a # None /\ c \in Names
        BY <2>3, ConstantTypes DEF FilesInv, FileTypes
      <3>4. m < c => at[m] < a
        BY <2>3, <3>3
      <3>5. at[m] < a + 1
        BY <2>3, <3>1, <3>2, <3>4
      <3> QED
        BY <3>1, <3>5
    <2>8. ASSUME NEW m \in Names, NEW k \in Names, m < k, at'[k] # None
          PROVE  at'[m] < at'[k]
      <3>1. CASE k = n
        BY <2>4, <2>7, <2>8, <3>1
      <3>2. CASE k # n
        <4>1. ~(k > n) /\ k < n /\ m # n
          BY <2>3, <2>5, <2>6, <2>8, <3>2
        <4> QED
          BY <2>4, <2>8, <3>2, <4>1
      <3> QED
        BY <3>1, <3>2
    <2>9. \A f \in FileIds : f > a + 1 => log'[f] = <<>>
      <3> SUFFICES ASSUME NEW f \in FileIds, f > a + 1 PROVE log[f] = <<>>
        BY <2>2
      <3>1. f > a
        BY <2>3, ConstantTypes
      <3> QED
        BY <2>3, <3>1
    <2> QED
      BY <2>1, <2>4, <2>6, <2>8, <2>9
  <1>3. CASE Truncate
    <2>1. UNCHANGED <<at, current>> /\ log' = [log EXCEPT ![at[current]] = <<>>]
      BY <1>3 DEF Truncate
    <2>2. \A f \in FileIds : log'[f] = log[f] \/ log'[f] = <<>>
      BY <2>1 DEF FileTypes
    <2> QED
      BY <2>1, <2>2
  <1>4. CASE PowerLoss
    <2>1. UNCHANGED <<at, current>>
      BY <1>4 DEF PowerLoss
    <2>2. \A f \in FileIds : f # at[current] => log'[f] = log[f]
      BY <1>4 DEF PowerLoss, FileTypes
    <2>3. \A f \in FileIds : f > at[current] => f # at[current]
      BY LaterFile DEF FilesInv
    <2> QED
      BY <2>1, <2>2, <2>3
  <1>5. CASE ~WriteHalf /\ ~Rotate /\ ~Truncate /\ ~PowerLoss
    BY <1>5, FilesUnchanged DEF fileVars
  <1> QED
    BY <1>1, <1>2, <1>3, <1>4, <1>5

\* A step keeps the lines of the files in the order in which they were written.
LEMMA LinesStep ==
    ASSUME FileTypes, FilesInv, LinesInv, [Next]_vars
    PROVE  LinesInv'
  <1>1. NamesInOrder'
    BY NamesStep DEF LinesInv
  <1>2. cut' # {} => replay'
    <2>1. CASE cut # {}
      <3>1. replay => replay'
        BY DEF Next, vars, historyVars, Collector, WriteHalf, Rotate, Truncate, BeginRead, ReadCell, EndRead,
             StartCycle, SourceLimitReached, NothingToAcknowledge, Accept, Save, Rescan, Start, ReadFails,
             Reject, AdmissionFatal, Kill, PowerLoss
      <3> QED
        BY <2>1, <3>1 DEF LinesInv
    <2>2. CASE cut = {}
      <3>1. CASE Truncate
        BY <3>1 DEF Truncate
      <3>2. CASE PowerLoss
        BY <2>2, <3>2 DEF PowerLoss
      <3>3. CASE ~Truncate /\ ~PowerLoss
        <4>1. cut' = cut
          BY <3>3, FilesUnchanged DEF fileVars, WriteHalf, Rotate
        <4> QED
          BY <2>2, <4>1
      <3> QED
        BY <3>1, <3>2, <3>3
    <2> QED
      BY <2>1, <2>2
  <1>3. ASSUME cut' = {}
        PROVE  FilesInOrder'
    <2>1. cut = {} /\ FilesInOrder /\ NamesInOrder
      BY <1>3, IntactGrows DEF LinesInv
    <2>2. CASE WriteHalf /\ ~half
      BY <2>1, <2>2, WriteInOrder
    <2>3. CASE UNCHANGED <<log, at, current, written>>
      BY <2>1, <2>3 DEF FilesInOrder
    <2>4. CASE Rotate
      <3>1. PICK n \in Names : at' = [at EXCEPT ![n] = at[current] + 1] /\ current' = n
        BY <2>4 DEF Rotate
      <3>2. UNCHANGED <<log, written>> /\ written + 1 \in Heads /\ at[current] + 1 \in FileIds
        BY <2>4, ConstantTypes DEF Rotate, FileIds, FilesInv, BoundsAssumption
      <3>3. at'[current'] = at[current] + 1 /\ at[current] + 1 > at[current]
        <4>1. PICK a \in Nat : a = at[current]
          BY ConstantTypes DEF FilesInv
        <4>2. at'[current'] = a + 1 /\ a + 1 > a
          BY <3>1, <4>1 DEF FileTypes
        <4> QED
          BY <4>1, <4>2
      <3>4. log[at[current] + 1] = <<>>
        BY <2>1, <3>2, <3>3 DEF NamesInOrder
      <3> QED
        BY <2>1, <3>2, <3>3, <3>4 DEF FilesInOrder
    <2>5. CASE Truncate
      BY <1>3, <2>5 DEF Truncate
    <2>6. CASE PowerLoss
      <3>1. PICK kept \in 0..Len(log[at[current]]) :
                /\ log' = [log EXCEPT ![at[current]] = SubSeq(@, 1, kept)]
                /\ cut' = IF kept < Len(log[at[current]]) THEN cut \cup {at[current]} ELSE cut
        BY <2>6 DEF PowerLoss
      <3>2. PICK q \in Seq(Lines) : q = log[at[current]]
        BY DEF FileTypes, FilesInv
      <3>3. ~(kept < Len(q))
        BY <1>3, <3>1, <3>2
      <3>4. kept = Len(q)
        BY <3>1, <3>2, <3>3
      <3>5. SubSeq(q, 1, Len(q)) = q
        OBVIOUS
      <3>6. log' = log
        BY <3>1, <3>2, <3>4, <3>5 DEF FileTypes
      <3> QED
        BY <2>3, <2>6, <3>6 DEF PowerLoss
    <2>7. CASE ~WriteHalf /\ ~Rotate /\ ~Truncate /\ ~PowerLoss
      BY <2>3, <2>7, FilesUnchanged DEF fileVars
    <2>8. CASE WriteHalf /\ half
      BY <2>3, <2>8 DEF WriteHalf
    <2> QED
      BY <2>2, <2>4, <2>5, <2>6, <2>7, <2>8
  <1> QED
    BY <1>1, <1>2, <1>3 DEF LinesInv

\* The lines of a file that lost nothing.
LEMMA KeptLines ==
    ASSUME FileTypes, FilesInv, [Next]_vars, NEW f \in FileIds, f \notin cut',
           NEW i \in DOMAIN log[f]
    PROVE  i \in DOMAIN log'[f] /\ log'[f][i] = log[f][i]
  <1>1. Extends(f)
    BY IntactGrows
  <1>2. PICK q \in Seq(Lines) : q = log[f]
    BY DEF FileTypes
  <1>3. CASE log'[f] = q
    BY <1>2, <1>3
  <1>4. CASE log'[f] = Append(q, written + 1) /\ written + 1 \in Lines
    <2>1. i \in DOMAIN q
      BY <1>2
    <2>2. i \in DOMAIN Append(q, written + 1) /\ Append(q, written + 1)[i] = q[i]
      BY <1>4, <2>1
    <2> QED
      BY <1>2, <1>4, <2>2
  <1> QED
    BY <1>1, <1>2, <1>3, <1>4 DEF Extends

\* The format of the log does not change.
LEMMA FormatStays == [Next]_vars => format' = format
  BY DEF Next, vars, Collector, WriteHalf, Rotate, Truncate, BeginRead, ReadCell, EndRead,
         StartCycle, SourceLimitReached, NothingToAcknowledge, Accept, Save, Rescan, Start, ReadFails,
         Reject, AdmissionFatal, Kill, PowerLoss

\* A record that is whole stays whole.
LEMMA WholeStays ==
    ASSUME [Next]_vars, NEW r, Whole(r)
    PROVE  Whole(r)'
  BY FormatStays DEF Whole

\* The place between two records stays between two records.
LEMMA BoundaryStays ==
    ASSUME FileTypes, FilesInv, [Next]_vars, cut' = {},
           NEW f \in FileIds, NEW off \in Nat, off <= Size(f), Boundary(f, off)
    PROVE  Boundary(f, off)'
  <1>1. \A i \in DOMAIN log'[f] :
            2 * i <= off + 1 => i \in DOMAIN log[f] /\ log'[f][i] = log[f][i]
    BY KeptBefore
  <1>2. SUFFICES ASSUME format = "quoted", NEW i \in DOMAIN log'[f], 2 * i = off, log'[f][i] + 1 \in Lines
                 PROVE  log'[f][i] + 1 \in Heads
    BY FormatStays DEF Boundary
  <1>3. 2 * i <= off + 1
    BY <1>2
  <1>4. i \in DOMAIN log[f] /\ log'[f][i] = log[f][i]
    BY <1>1, <1>3
  <1> QED
    BY <1>2, <1>4 DEF Boundary

\* A line that was admitted stays admitted.
LEMMA AccountedGrows ==
    ASSUME IInv, [Next]_vars
    PROVE  Accounted \subseteq Accounted'
  BY AdmittedStep DEF IInv, TypeOK, BatchRecords

\* What was read stays sound.
LEMMA SoundStays ==
    ASSUME IInv, [Next]_vars, NEW t, NEW b, Shape(t, b), Content(t, b), Sound(t, b)
    PROVE  Sound(t, b)'
  <1>1. SUFFICES ASSUME cut' = {}, t.position.file # None
                 PROVE  Sound(t, b)'
    BY DEF Sound
  <1>2. PICK f \in FileIds : f = t.position.file
    BY <1>1 DEF Shape, Framed, TailRecords, Positions
  <1>3. FileTypes /\ FilesInv
    BY FileFacts
  <1>4. cut = {} /\ f \notin cut' /\ Intact(f)
    BY <1>1, <1>2, <1>3, IntactGrows DEF Intact
  <1>5. PICK F \in Nat, s \in Nat : F = Flushed(t, b) /\ s = t.scan /\ F <= s
    <2>1. PICK F \in Nat, n \in Nat : F = Flushed(t, b) /\ ReadTo(t, b) = F + 2 * n
      BY FramedNumbers DEF Shape
    <2>2. t.scan \in Nat /\ F <= t.scan
      <3>1. t.scan \in Nat /\ F + 2 * n \in Nat
        BY <2>1, FramedNumbers DEF Shape
      <3>2. F + 2 * n <= t.scan
        BY <2>1, <3>1 DEF Shape
      <3> QED
        BY <2>1, <3>1, <3>2
    <2> QED
      BY <2>1, <2>2
  <1>6. F <= Size(f)
    <2>1. Size(f) \in Nat
      BY <1>3, SizeBounds, ConstantTypes DEF IInv
    <2>2. s <= Size(f)
      BY <1>2, <1>4, <1>5 DEF Content
    <2> QED
      BY <1>5, <2>1, <2>2
  <1>7. Boundary(f, F)'
    BY <1>1, <1>2, <1>3, <1>4, <1>5, <1>6, BoundaryStays DEF Sound
  <1>8. ASSUME NEW l, NEW from, NEW to, InStretch(l, f, from, to)
        PROVE  InStretch(l, f, from, to)'
    BY <1>3, <1>4, <1>8, KeptLines DEF InStretch
  <1>9. ASSUME NEW r, Preceded(r, Accounted \cup LinesOf(b.records))
        PROVE  Preceded(r, Accounted' \cup LinesOf(b.records))
    BY <1>9, AccountedGrows DEF Preceded
  <1>10. /\ \A k \in 2..Len(t.open) : t.open[k] \notin Heads
         /\ InOrder(b.records)
         /\ \A j \in DOMAIN b.records :
              /\ Whole(b.records[j])
              /\ Preceded(b.records[j], Accounted \cup LinesOf(b.records))
              /\ \A k \in DOMAIN b.records[j] :
                    InStretch(b.records[j][k], f, t.position.off, F)
    BY <1>1, <1>2, <1>4, <1>5 DEF Sound
  <1>11. \A j \in DOMAIN b.records :
              /\ Whole(b.records[j])'
              /\ Preceded(b.records[j], Accounted' \cup LinesOf(b.records))
              /\ \A k \in DOMAIN b.records[j] :
                    InStretch(b.records[j][k], f, t.position.off, F)'
    BY <1>8, <1>9, <1>10, WholeStays
  <1> QED
    BY <1>2, <1>5, <1>7, <1>10, <1>11 DEF Sound

\* Soundness depends on the values of the tail and of the batch alone.
Same == \A t, b : t = tail /\ b = batch /\ Sound(t, b) => Sound(tail, batch)

\* Soundness depends on the values of the tail and of the batch alone.
LEMMA SameIsSound == Same
  BY DEF Same

\* A step keeps the tail and the batch sound.
LEMMA SoundStep ==
    ASSUME IInv, LinesInv, WholeInv, Sound(tail, batch), [Next]_vars
    PROVE  Sound(tail, batch)'
  <1>1. PICK t, b : tail' = t /\ batch' = b /\ Shape(t, b) /\ Content(t, b) /\ Sound(t, b)
    BY TailStep DEF Follows
  <1>2. Sound(t, b)'
    BY <1>1, SoundStays
  <1>3. Same'
    BY SameIsSound, PTL
  <1> QED
    BY <1>1, <1>2, <1>3 DEF Same

\* What a sequence holds that was put together from two.
Parts(s, t, c) ==
    \A i \in DOMAIN c :
        \/ i \in DOMAIN s /\ c[i] = s[i]
        \/ i \notin DOMAIN s /\ \E j \in DOMAIN t : i = Len(s) + j /\ c[i] = t[j]

\* The elements of two sequences, one after the other, by index.
LEMMA ConcatParts ==
    ASSUME NEW S, NEW s \in Seq(S), NEW t \in Seq(S), NEW c, c = s \o t
    PROVE  c \in Seq(S) /\ Parts(s, t, c)
  <1>1. c \in Seq(S) /\ Len(c) = Len(s) + Len(t)
    OBVIOUS
  <1>2. ASSUME NEW i \in DOMAIN c
        PROVE  \/ i \in DOMAIN s /\ c[i] = s[i]
               \/ i \notin DOMAIN s /\ \E j \in DOMAIN t : i = Len(s) + j /\ c[i] = t[j]
    <2>1. CASE i <= Len(s)
      BY <2>1
    <2>2. CASE i > Len(s)
      <3>1. /\ i \notin DOMAIN s /\ i - Len(s) \in DOMAIN t /\ i = Len(s) + (i - Len(s))
            /\ c[i] = t[i - Len(s)]
        BY <2>2
      <3> QED
        BY <3>1
    <2> QED
      BY <1>1, <2>1, <2>2
  <1> QED
    BY <1>1, <1>2 DEF Parts

\* A step keeps the recorded records whole.
LEMMA WholeStep ==
    ASSUME IInv, LinesInv, WholeInv, Sound(tail, batch), [Next]_vars
    PROVE  WholeInv'
  <1>1. SUFFICES ASSUME cut' = {} PROVE WholeInv'
    BY DEF WholeInv
  <1>2. FileTypes /\ FilesInv
    BY FileFacts
  <1>3. cut = {}
    BY <1>1, <1>2, IntactGrows
  <1>4. PICK A \in Seq(Seq(Lines)), Q \in Seq(Seq(Lines)) : A = admitted /\ Q = batch.records
    BY DEF IInv, TypeOK, BatchRecords
  <1>5. PICK acc : acc = Accounted'
    OBVIOUS
  <1>6. \A i \in DOMAIN A : Whole(A[i])' /\ Preceded(A[i], acc)
    <2> SUFFICES ASSUME NEW i \in DOMAIN A PROVE Whole(A[i])' /\ Preceded(A[i], acc)
      OBVIOUS
    <2>1. Whole(A[i]) /\ Preceded(A[i], Accounted)
      BY <1>3, <1>4 DEF WholeInv
    <2>2. Preceded(A[i], acc)
      BY <1>5, <2>1, AccountedGrows DEF Preceded
    <2> QED
      BY <2>1, <2>2, WholeStays
  <1>7. PICK B \in Seq(Seq(Lines)) : admitted' = B
    BY <1>4, AdmittedStep
  <1>9. \A i \in DOMAIN B : Whole(B[i])' /\ Preceded(B[i], acc)
    <2>1. CASE B = A
      BY <1>6, <2>1
    <2>2. CASE /\ Accept \/ AdmissionFatal
               /\ B = A \o Q
               /\ Accounted' = Accounted \cup LinesOf(Q)
      <3>1. tail.position.file # None
        BY <2>2, ConstantTypes DEF IInv, StepInv, Accept, AdmissionFatal
      <3>2. \A j \in DOMAIN Q : Whole(Q[j])' /\ Preceded(Q[j], acc)
        <4> SUFFICES ASSUME NEW j \in DOMAIN Q PROVE Whole(Q[j])' /\ Preceded(Q[j], acc)
          OBVIOUS
        <4>1. Whole(Q[j]) /\ Preceded(Q[j], acc)
          BY <1>3, <1>4, <1>5, <2>2, <3>1 DEF Sound
        <4> QED
          BY <4>1, WholeStays
      <3>3. ASSUME NEW i \in DOMAIN B
            PROVE  Whole(B[i])' /\ Preceded(B[i], acc)
        <4>1. \/ i \in DOMAIN A /\ B[i] = A[i]
              \/ \E j \in DOMAIN Q : B[i] = Q[j]
          BY <2>2, ConcatParts DEF Parts
        <4> QED
          BY <1>6, <3>2, <4>1
      <3> QED
        BY <3>3
    <2> QED
      BY <1>4, <1>7, <2>1, <2>2, AdmittedStep
  <1>8. ASSUME NEW p \in ResumePoints', p.file # None
        PROVE  Boundary(p.file, p.off)'
    <2>1. CASE p \in ResumePoints
      <3>1. PICK f \in FileIds, off \in Nat : f = p.file /\ off = p.off
        BY <1>8, <2>1, PointTypes, ConstantTypes DEF IInv, Positions
      <3>2. off <= Size(f)
        BY <1>3, <2>1, <3>1, ConstantTypes DEF IInv, PointsInv, GoodPoint, Intact
      <3>3. Boundary(f, off)
        BY <1>3, <1>8, <2>1, <3>1 DEF WholeInv
      <3>4. Boundary(f, off)'
        BY <1>1, <1>2, <3>2, <3>3, BoundaryStays
      <3> QED
        BY <3>1, <3>4
    <2>2. CASE p = NoPosition
      BY <1>8, <2>2 DEF NoPosition
    <2>3. CASE BeginRead /\ p = [file |-> at[name], off |-> 0]
      <3>1. p.file \in FileIds /\ p.off = 0
        BY <2>3 DEF IInv, FilesInv
      <3>2. DOMAIN log'[p.file] \subseteq Nat \ {0}
        <4>1. FileTypes'
          BY <1>2, FilesStep
        <4> QED
          BY <3>1, <4>1 DEF FileTypes
      <3>3. \A i \in DOMAIN log'[p.file] : ~(2 * i = 0)
        BY <3>2
      <3> QED
        BY <3>1, <3>3 DEF Boundary
    <2>4. CASE Accept /\ p = [file |-> batch.file, off |-> batch.end]
      <3>1. PICK f \in FileIds, e \in Nat : /\ f = p.file /\ e = p.off /\ f = tail.position.file
                                            /\ e = Flushed(tail, batch)
        BY <2>4, AcceptKeeps, FramedNumbers DEF IInv, StepInv, Accept, Shape
      <3>2. Boundary(f, e)
        BY <1>3, <1>8, <3>1 DEF Sound
      <3>3. UNCHANGED <<log, format>>
        BY <2>4 DEF Accept, fileVars
      <3>4. Boundary(f, e)'
        BY <3>2, <3>3 DEF Boundary
      <3> QED
        BY <3>1, <3>4
    <2> QED
      BY <1>8, <2>1, <2>2, <2>3, <2>4, PointsStep
  <1> QED
    BY <1>5, <1>7, <1>8, <1>9 DEF WholeInv, Whole

\* The files of the names, and the name that is followed, only go forward.
LEMMA Forward ==
    ASSUME IInv, NamesInOrder, FollowInv, [Next]_vars
    PROVE  /\ name' <= current' /\ name <= name'
           /\ \A n \in Names : at[n] <= at'[n]
  <1>0. FileTypes /\ FilesInv
    BY FileFacts
  <1>1. PICK n \in Nat, c \in Nat : n = name /\ c = current /\ n <= c
    BY <1>0, ConstantTypes DEF FileTypes, FollowInv
  <1>2. \A m \in Names : at[m] \in Nat
    BY <1>0, ConstantTypes DEF FileTypes, None
  <1>3. CASE Rotate
    <2>1. PICK m \in {current, current + 1} \cap Names :
              at' = [at EXCEPT ![m] = at[current] + 1] /\ current' = m
      BY <1>3 DEF Rotate
    <2>2. name' = name
      BY <1>3 DEF Rotate, tailVars
    <2>3. PICK a \in Nat : a = at[current] /\ at[m] <= a
      <3>1. CASE m = current
        BY <1>2, <2>1, <3>1
      <3>2. CASE m # current
        <4>1. m > current
          BY <1>1, <2>1, <3>2
        <4>2. at[m] = 0
          BY <2>1, <4>1 DEF NamesInOrder, None
        <4> QED
          BY <1>0, <1>2, <4>2 DEF FileTypes
      <3> QED
        BY <3>1, <3>2
    <2>4. at'[m] = a + 1 /\ \A k \in Names : k # m => at'[k] = at[k]
      BY <1>0, <2>1, <2>3 DEF FileTypes
    <2>5. \A k \in Names : at[k] <= at'[k]
      BY <1>2, <2>1, <2>3, <2>4
    <2> QED
      BY <1>1, <2>1, <2>2, <2>5
  <1>4. CASE ~Rotate
    <2>1. UNCHANGED <<at, current>>
      BY <1>4, FilesUnchanged DEF fileVars, WriteHalf, Truncate, PowerLoss
    <2>2. name' \in {name, current}
      BY <1>4, FilesUnchanged DEF WriteHalf, Truncate, PowerLoss, tailVars
    <2> QED
      BY <1>1, <1>2, <2>1, <2>2
  <1> QED
    BY <1>3, <1>4

\* The position of the tail after a step: that of before, the start of the
\* followed file, an acknowledged one, one resumed from, or none.
LEMMA PositionStep ==
    ASSUME IInv, [Next]_vars
    PROVE  \/ tail'.position = tail.position /\ (pc = "down" => pc' = "down") /\ name' = name
           \/ BeginRead /\ tail'.position = [file |-> at[name], off |-> 0]
           \/ Accept
           \/ tail'.position = NoPosition /\ pc' = "down" /\ name' = name
           \/ (Rescan \/ Start) /\ name' = current /\ tail'.position = offsets'[current]
  <1>1. CASE BeginRead
    BY <1>1, BeginReadKeeps DEF BeginRead
  <1>2. CASE ReadCell
    BY <1>2, ReadCellKeeps DEF ReadCell
  <1>3. CASE EndRead
    BY <1>3, EndReadKeeps DEF EndRead
  <1>4. CASE \/ WriteHalf \/ Rotate \/ Truncate \/ StartCycle \/ SourceLimitReached \/ NothingToAcknowledge
             \/ AdmissionFatal \/ UNCHANGED vars
    BY <1>4 DEF WriteHalf, Rotate, Truncate, StartCycle, SourceLimitReached, NothingToAcknowledge, AfterBatch,
                AdmissionFatal, vars, tailVars
  <1>5. CASE ReadFails \/ Reject
    BY <1>5, NewTailTypes DEF ReadFails, Reject, ResetVolatile, IInv, TypeOK, TailRecords
  <1>6. CASE Save
    BY <1>6, NewTailTypes, ConstantTypes DEF Save, Stop
  <1>7. CASE Kill \/ PowerLoss
    BY <1>7, NewTailTypes, ConstantTypes DEF Kill, PowerLoss, Stop
  <1>8. CASE Rescan
    <2>1. offsets[current] \in Positions /\ tail' = NewTail(offsets[current]) /\ offsets' = offsets /\ name' = current
      BY <1>8 DEF Rescan, IInv, TypeOK, storeVars
    <2> QED
      BY <1>8, <2>1, NewTailTypes
  <1>9. CASE Start
    <2>1. offsets' = saved \/ offsets' = NoOffsets
      BY <1>9 DEF Start
    <2>2. offsets'[current] \in Positions
      BY <2>1, ConstantTypes DEF IInv, TypeOK
    <2>3. tail' = NewTail(offsets'[current]) /\ name' = current
      BY <1>9 DEF Start
    <2> QED
      BY <1>9, <2>2, <2>3, NewTailTypes
  <1> QED
    BY <1>1, <1>2, <1>3, <1>4, <1>5, <1>6, <1>7, <1>8, <1>9 DEF Next, Collector

\* What log.offsets may hold, and what is in memory, after a step.
LEMMA StoreStep ==
    ASSUME IInv, [Next]_vars, NEW found \in older' \cup {saved', offsets'}
    PROVE  \/ found \in older \cup {saved, offsets, NoOffsets}
           \/ Accept /\ found = [offsets EXCEPT ![name] = tail'.position]
  <1>1. CASE Accept
    BY <1>1, AcceptKeeps DEF Accept
  <1>2. CASE ~Accept
    <2>1. older' \subseteq older \cup {saved} /\ saved' \in older \cup {saved, offsets}
      BY <1>2 DEF Next, vars, storeVars, Collector, WriteHalf, Rotate, Truncate, BeginRead, ReadCell, EndRead,
           StartCycle, SourceLimitReached, NothingToAcknowledge, Save, Rescan, Start, ReadFails,
           Reject, AdmissionFatal, Kill, PowerLoss
    <2>2. offsets' \in {offsets, saved, NoOffsets}
      BY <1>2 DEF Next, vars, storeVars, Collector, WriteHalf, Rotate, Truncate, BeginRead, ReadCell, EndRead,
           StartCycle, SourceLimitReached, NothingToAcknowledge, Save, Rescan, Start, ReadFails,
           Reject, AdmissionFatal, Kill, PowerLoss
    <2> QED
      BY <2>1, <2>2
  <1> QED
    BY <1>1, <1>2

\* A step keeps the tail and every offset on files that the names have reached.
LEMMA FollowStep ==
    ASSUME IInv, NamesInOrder, FollowInv, [Next]_vars
    PROVE  FollowInv'
  <1>0. FileTypes /\ FilesInv
    BY FileFacts
  <1>1. FileTypes' /\ FilesInv'
    BY <1>0, FilesStep
  <1>2. \A n \in Names : at[n] \in Nat /\ at'[n] \in Nat /\ at[n] <= at'[n]
    BY <1>0, <1>1, Forward, ConstantTypes DEF FileTypes, None
  <1>3. /\ name' <= current' /\ name <= name' /\ name \in Names /\ name' \in Names
        /\ \A n \in Names : n \in Nat
    BY <1>0, <1>1, Forward, ConstantTypes DEF FileTypes
  <1>4. \A p \in Positions : p.file \in Nat
    BY ConstantTypes DEF Positions, None
  <1>5. NoPosition.file = 0
    BY DEF NoPosition, None
  <1>6. tail.position \in Positions /\ tail.position.file <= at[name]
    BY PointTypes DEF IInv, FollowInv
  <1>7. Accept => tail'.position.file = tail.position.file /\ tail'.position \in Positions /\ name' = name
    <2>1. Accept => batch.file = tail.position.file
      BY DEF IInv, StepInv, Accept
    <2> QED
      BY <2>1, AcceptKeeps DEF Accept
  <1>8. ASSUME NEW found \in older' \cup {saved', offsets'}, NEW n \in Names
        PROVE  found[n].file <= at'[n] /\ (n > name' => found[n] = NoPosition)
    <2>1. n > name' => n > name
      BY <1>3
    <2>2. CASE found \in older \cup {saved, offsets}
      <3>1. found[n].file <= at[n] /\ (n > name => found[n] = NoPosition)
        BY <2>2 DEF FollowInv
      <3>2. found[n].file \in Nat
        BY <1>4, <2>2 DEF IInv, TypeOK
      <3> QED
        BY <1>2, <2>1, <3>1, <3>2
    <2>3. CASE found = NoOffsets
      BY <1>2, <1>5, <2>3 DEF NoOffsets
    <2>4. CASE Accept /\ found = [offsets EXCEPT ![name] = tail'.position]
      <3>1. CASE n = name
        <4>1. found[n] = tail'.position
          BY <2>4, <3>1 DEF IInv, TypeOK
        <4>2. found[n].file = tail.position.file /\ found[n].file \in Nat /\ found[n].file <= at[n]
          BY <1>4, <1>6, <1>7, <2>4, <3>1, <4>1
        <4>3. ~(n > name')
          BY <1>3, <1>7, <2>4, <3>1
        <4> QED
          BY <1>2, <4>2, <4>3
      <3>2. CASE n # name
        <4>1. found[n] = offsets[n]
          BY <2>4, <3>2 DEF IInv, TypeOK
        <4>2. offsets[n].file <= at[n] /\ (n > name => offsets[n] = NoPosition) /\ offsets[n].file \in Nat
          BY <1>4 DEF FollowInv, IInv, TypeOK
        <4> QED
          BY <1>2, <2>1, <4>1, <4>2
      <3> QED
        BY <3>1, <3>2
    <2> QED
      BY <2>2, <2>3, <2>4, StoreStep
  <1>9. tail'.position.file <= at'[name']
    <2>1. CASE tail'.position = tail.position /\ name' = name
      BY <1>2, <1>3, <1>4, <1>6, <2>1
    <2>2. CASE BeginRead /\ tail'.position = [file |-> at[name], off |-> 0]
      <3>1. name' = name
        BY <2>2 DEF BeginRead
      <3>2. tail'.position.file = at[name]
        BY <2>2
      <3> QED
        BY <1>2, <1>3, <3>1, <3>2
    <2>3. CASE Accept
      BY <1>2, <1>3, <1>4, <1>6, <1>7, <2>3
    <2>4. CASE tail'.position = NoPosition
      BY <1>2, <1>3, <1>5, <2>4
    <2>5. CASE name' = current /\ tail'.position = offsets'[current]
      BY <1>3, <1>8, <2>5
    <2> QED
      BY <2>1, <2>2, <2>3, <2>4, <2>5, PositionStep
  <1> QED
    BY <1>3, <1>8, <1>9 DEF FollowInv

-----------------------------------------------------------------------------
(* What is read next comes after what was admitted. *)

\* So does the line the server writes next.
LEMMA WriteAhead ==
    ASSUME IInv, WriteHalf, [Next]_vars, \A l \in Accounted : l <= written,
           NEW f \in FileIds, NEW off
    PROVE  (Ahead(f, off) => Ahead(f, off)') /\ \A l \in Accounted' : l <= written'
  <1>1. FileTypes /\ FilesInv
    BY FileFacts
  <1>2. Accounted' = Accounted
    BY DEF WriteHalf, historyVars, Accounted
  <1>3. CASE half
    BY <1>2, <1>3 DEF WriteHalf, Ahead
  <1>4. CASE ~half
    <2>1. PICK w \in Nat : w = written /\ w + 1 \in Lines
      BY <1>1, <1>4, ConstantTypes DEF FileTypes, WriteHalf, Lines
    <2>2. written' = w + 1 /\ log' = [log EXCEPT ![at[current]] = Append(@, w + 1)]
      BY <1>4, <2>1 DEF WriteHalf
    <2>3. \A l \in Accounted : l \in Nat /\ l <= w
      <3>1. Accounted \subseteq Lines
        <4>1. Accounted = LinesOf(admitted)
          BY DEF Accounted, LinesOf
        <4> QED
          BY <4>1, LinesOfTypes DEF IInv, TypeOK
      <3> QED
        BY <2>1, <3>1, ConstantTypes
    <2>4. \A l \in Accounted : l < w + 1
      BY <2>1, <2>3
    <2>5. CASE f = at[current]
      <3>1. PICK q \in Seq(Lines) : q = log[f] /\ log'[f] = Append(q, w + 1)
        BY <1>1, <2>1, <2>2, <2>5 DEF FileTypes
      <3>2. ASSUME Ahead(f, off), NEW i \in DOMAIN log'[f], 2 * i > off, NEW l \in Accounted
            PROVE  l < log'[f][i]
        <4>1. CASE i \in DOMAIN q
          <5>1. log'[f][i] = q[i]
            BY <2>1, <3>1, <4>1
          <5> QED
            BY <3>1, <3>2, <4>1, <5>1 DEF Ahead
        <4>2. CASE i \notin DOMAIN q
          <5>1. log'[f][i] = w + 1
            BY <2>1, <3>1, <3>2, <4>2
          <5> QED
            BY <2>4, <5>1
        <4> QED
          BY <4>1, <4>2
      <3>3. Ahead(f, off) => Ahead(f, off)'
        BY <1>2, <3>2 DEF Ahead
      <3> QED
        BY <1>2, <2>2, <2>4, <2>1, <2>3, <3>3
    <2>6. CASE f # at[current]
      <3>1. log'[f] = log[f]
        BY <1>1, <2>2, <2>6 DEF FileTypes
      <3>2. Ahead(f, off) => Ahead(f, off)'
        BY <1>2, <3>1 DEF Ahead
      <3> QED
        BY <1>2, <2>1, <2>2, <2>3, <2>4, <3>2
    <2> QED
      BY <2>5, <2>6
  <1> QED
    BY <1>3, <1>4

\* The lines of an accepted batch come from the followed file, in front of the
\* acknowledged offset.
LEMMA AcceptedLines ==
    ASSUME IInv, cut = {}, Sound(tail, batch), Accept
    PROVE  \E f \in FileIds, from \in Nat, to \in Nat :
              /\ f = tail.position.file /\ from = tail.position.off /\ from <= to
              /\ tail'.position = [file |-> f, off |-> to]
              /\ \A r \in DOMAIN batch.records : \A k \in DOMAIN batch.records[r] :
                    InStretch(batch.records[r][k], f, from, to)
              /\ \A l \in LinesOf(batch.records) : InStretch(l, f, from, to)
              /\ Accounted' = Accounted \cup LinesOf(batch.records)
  <1>1. PICK f \in FileIds : f = tail.position.file /\ f = batch.file
    BY DEF IInv, StepInv, Accept
  <1>2. PICK from \in Nat, to \in Nat : /\ from = tail.position.off /\ to = batch.end /\ from <= to
                                        /\ Flushed(tail, batch) = to
    <2>1. PICK from \in Nat, to \in Nat : from = tail.position.off /\ to = batch.end
      BY ConstantTypes DEF IInv, TypeOK, TailRecords, Positions, BatchRecords
    <2>2. batch.end # None
      BY DEF IInv, StepInv, Accept
    <2> QED
      BY <2>1, <2>2, AcceptKeeps DEF IInv, Shape, Framed
  <1>3. tail'.position = [file |-> f, off |-> to]
    BY <1>1, <1>2, AcceptKeeps
  <1>4. \A r \in DOMAIN batch.records : \A k \in DOMAIN batch.records[r] :
            InStretch(batch.records[r][k], f, from, to)
    BY <1>1, <1>2, ConstantTypes DEF Sound
  <1>5. batch.records \in Seq(Seq(Lines)) /\ admitted \in Seq(Seq(Lines))
    BY DEF IInv, TypeOK, BatchRecords
  <1>6. \A l \in LinesOf(batch.records) : InStretch(l, f, from, to)
    <2> SUFFICES ASSUME NEW l \in LinesOf(batch.records) PROVE InStretch(l, f, from, to)
      OBVIOUS
    <2>1. PICK r \in DOMAIN batch.records : \E k \in DOMAIN batch.records[r] : l = batch.records[r][k]
      BY InLinesOf
    <2> QED
      BY <1>4, <2>1
  <1>7. Accounted' = Accounted \cup LinesOf(batch.records)
    <2>1. admitted' = admitted \o batch.records
      BY DEF Accept
    <2>2. LinesOf(admitted \o batch.records) = LinesOf(admitted) \cup LinesOf(batch.records)
      BY <1>5, LinesOfConcat
    <2>3. Accounted = LinesOf(admitted) /\ Accounted' = LinesOf(admitted')
      BY DEF Accounted, LinesOf
    <2> QED
      BY <2>1, <2>2, <2>3, Zenon
  <1> QED
    BY <1>1, <1>2, <1>3, <1>4, <1>6, <1>7

\* What follows a position of the file, or a file, follows the accepted lines too.
LEMMA AcceptAhead ==
    ASSUME IInv, cut = {}, FilesInOrder, Sound(tail, batch), Accept
    PROVE  /\ Ahead(tail.position.file, tail.position.off) =>
                  Ahead(tail.position.file, tail.position.off)'
           /\ \A g \in FileIds : g > tail.position.file /\ Ahead(g, 0) => Ahead(g, 0)'
           /\ (\A l \in Accounted : l <= written) => \A l \in Accounted' : l <= written'
  <1>1. PICK f \in FileIds, from \in Nat, to \in Nat :
              /\ f = tail.position.file /\ from = tail.position.off /\ from <= to
              /\ tail'.position = [file |-> f, off |-> to]
              /\ \A l \in LinesOf(batch.records) : InStretch(l, f, from, to)
              /\ Accounted' = Accounted \cup LinesOf(batch.records)
    BY AcceptedLines
  <1>2. log' = log /\ written' = written
    BY DEF Accept, fileVars
  <1>3. \A g \in FileIds : \A i \in DOMAIN log[g] : i \in Nat /\ log[g][i] \in Nat
    <2> SUFFICES ASSUME NEW g \in FileIds, NEW i \in DOMAIN log[g] PROVE i \in Nat /\ log[g][i] \in Nat
      OBVIOUS
    <2>1. log[g] \in Seq(Lines)
      BY DEF IInv, TypeOK
    <2>2. i \in Nat /\ log[g][i] \in Lines
      BY <2>1
    <2> QED
      BY <2>2, ConstantTypes
  <1>4. ASSUME Ahead(f, from)
        PROVE  Ahead(f, to)'
    <2>1. SUFFICES ASSUME NEW i \in DOMAIN log[f], 2 * i > to, NEW l \in Accounted \cup LinesOf(batch.records)
                   PROVE  l < log[f][i]
      BY <1>1, <1>2 DEF Ahead
    <2>2. CASE l \in Accounted
      <3>1. 2 * i > from
        BY <1>1, <1>3, <2>1
      <3> QED
        BY <1>4, <2>2, <3>1 DEF Ahead
    <2>3. CASE l \in LinesOf(batch.records)
      <3>1. PICK x \in DOMAIN log[f] : 2 * x <= to /\ l = log[f][x]
        BY <1>1, <2>3 DEF InStretch
      <3>2. PICK X \in Nat, Y \in Nat : X = log[f][x] /\ Y = log[f][i] /\ Y = X + (i - x)
        BY <1>3 DEF FilesInOrder
      <3>3. x < i
        BY <1>1, <1>3, <2>1, <3>1
      <3>4. x \in Nat /\ i \in Nat
        BY <1>3
      <3>5. X < Y
        BY <3>2, <3>3, <3>4
      <3> QED
        BY <3>1, <3>2, <3>5
    <2> QED
      BY <2>1, <2>2, <2>3
  <1>5. ASSUME NEW g \in FileIds, g > f, Ahead(g, 0)
        PROVE  Ahead(g, 0)'
    <2>1. SUFFICES ASSUME NEW i \in DOMAIN log[g], 2 * i > 0, NEW l \in Accounted \cup LinesOf(batch.records)
                   PROVE  l < log[g][i]
      BY <1>1, <1>2 DEF Ahead
    <2>2. CASE l \in Accounted
      BY <1>5, <2>1, <2>2 DEF Ahead
    <2>3. CASE l \in LinesOf(batch.records)
      <3>1. PICK x \in DOMAIN log[f] : l = log[f][x]
        BY <1>1, <2>3 DEF InStretch
      <3>2. f < g
        BY <1>5, ConstantTypes
      <3> QED
        BY <3>1, <3>2 DEF FilesInOrder
    <2> QED
      BY <2>1, <2>2, <2>3
  <1>6. ASSUME \A l \in Accounted : l <= written, NEW l \in Accounted'
        PROVE  l <= written'
    <2>1. CASE l \in Accounted
      BY <1>2, <1>6, <2>1
    <2>2. CASE l \in LinesOf(batch.records)
      <3>1. PICK x \in DOMAIN log[f] : l = log[f][x]
        BY <1>1, <2>2 DEF InStretch
      <3> QED
        BY <1>2, <3>1 DEF FilesInOrder
    <2> QED
      BY <1>1, <1>6, <2>1, <2>2
  <1> QED
    <2>1. tail'.position.file = f /\ tail'.position.off = to
      BY <1>1
    <2>2. Ahead(tail.position.file, tail.position.off)' <=> Ahead(f, to)'
      BY <2>1 DEF Ahead
    <2> QED
      BY <1>1, <1>4, <1>5, <1>6, <2>2

\* A step that neither writes nor acknowledges, and entitles no record to appear
\* again, leaves the files, the records and the positions in memory alone.
LEMMA Steady ==
    ASSUME IInv, OrderInv, [Next]_vars, ~replay, ~replay', ~WriteHalf, ~Rotate, ~Accept
    PROVE  /\ UNCHANGED <<log, at, current, written, admitted, offsets>>
           /\ pc' = "down" => offsets' = saved'
  <1>1. CASE Truncate
    BY <1>1 DEF Truncate
  <1>2. CASE PowerLoss
    <2>1. PICK found \in older \cup {saved}, kept \in 0..Len(log[at[current]]) :
              /\ saved' = found
              /\ log' = [log EXCEPT ![at[current]] = SubSeq(@, 1, kept)]
              /\ replay' = (replay \/ (kept < Len(log[at[current]])) \/ found # offsets)
      BY <1>2 DEF PowerLoss
    <2>2. ~(kept < Len(log[at[current]])) /\ found = offsets
      BY <2>1, Zenon
    <2>3. PICK q \in Seq(Lines) : q = log[at[current]]
      BY FileFacts DEF FileTypes, FilesInv
    <2>4. kept = Len(q)
      BY <2>1, <2>2, <2>3
    <2>5. SubSeq(q, 1, Len(q)) = q
      OBVIOUS
    <2>6. log' = log
      BY <2>1, <2>3, <2>4, <2>5, FileFacts DEF FileTypes
    <2>7. UNCHANGED <<at, current, written, admitted, offsets>>
      BY <1>2 DEF PowerLoss
    <2> QED
      BY <2>1, <2>2, <2>6, <2>7
  <1>3. CASE Kill
    <2>1. saved = offsets
      BY <1>3, Zenon DEF Kill
    <2> QED
      BY <1>3, <2>1 DEF Kill, fileVars, storeVars
  <1>4. CASE Save
    <2>1. UNCHANGED <<log, at, current, written, admitted, offsets>>
      BY <1>4 DEF Save, fileVars
    <2>2. CASE pc = "dying"
      <3>1. saved' = offsets
        BY <1>4, <2>2, Zenon DEF Save
      <3> QED
        BY <2>1, <3>1
    <2>3. CASE pc # "dying"
      BY <1>4, <2>1, <2>3 DEF Save
    <2> QED
      BY <2>2, <2>3
  <1>5. CASE Start
    <2>1. pc = "down" /\ offsets' = saved
      BY <1>5 DEF Start
    <2>2. offsets = saved
      BY <2>1 DEF OrderInv
    <2> QED
      BY <1>5, <2>1, <2>2 DEF Start, fileVars
  <1>6. CASE AdmissionFatal
    BY <1>6 DEF AdmissionFatal, fileVars, storeVars
  <1>7. CASE UNCHANGED vars
    BY <1>7 DEF vars, fileVars, storeVars, historyVars, OrderInv
  <1>8. CASE \/ BeginRead \/ ReadCell \/ EndRead \/ StartCycle \/ SourceLimitReached \/ NothingToAcknowledge
             \/ Rescan \/ ReadFails \/ Reject
    BY <1>8 DEF BeginRead, ReadCell, EndRead, StartCycle, SourceLimitReached, NothingToAcknowledge, AfterBatch,
                Rescan, ReadFails, Reject, fileVars, storeVars, historyVars
  <1> QED
    BY <1>1, <1>2, <1>3, <1>4, <1>5, <1>6, <1>7, <1>8 DEF Next, Collector

\* A step that neither writes, rotates nor accepts keeps the order.
LEMMA SteadyOrder ==
    ASSUME IInv, LinesInv, FollowInv, OrderInv, [Next]_vars, ~replay, ~replay',
           ~WriteHalf, ~Rotate, ~Accept
    PROVE  OrderInv'
  <1>0. FileTypes /\ FilesInv /\ cut = {}
    BY FileFacts DEF LinesInv
  <1>1. /\ UNCHANGED <<log, at, current, written, admitted, offsets>>
        /\ pc' = "down" => offsets' = saved'
    BY Steady
  <1>2. Accounted' = Accounted
    BY <1>1 DEF Accounted
  <1>3. \A f, off : Ahead(f, off)' <=> Ahead(f, off)
    BY <1>1, <1>2 DEF Ahead
  <1>4. PICK p, n : p = tail'.position /\ n = name' /\ n \in Names
    <2>1. FileTypes'
      BY <1>0, FilesStep
    <2> QED
      BY <2>1 DEF FileTypes
  <1>5. n = name \/ (n = current /\ current > name)
    <2>1. name' \in {name, current}
      BY FilesUnchanged, PositionStep DEF Truncate, PowerLoss, tailVars
    <2>2. name \in Nat /\ current \in Nat /\ name <= current
      BY <1>0, ConstantTypes DEF FileTypes, FollowInv
    <2> QED
      BY <1>4, <2>1, <2>2
  <1>6. /\ \A q \in {tail.position, offsets[name]} : q.file # None => Ahead(q.file, q.off)
        /\ offsets[name].file = at[name] \/ Ahead(at[name], 0)
        /\ tail.position.file = at[name] \/ pc = "down" \/ Ahead(at[name], 0)
        /\ \A m \in Names : m > name /\ at[m] # None => Ahead(at[m], 0)
        /\ \A l \in Accounted : l <= written
    BY DEF OrderInv
  <1>7. at[n] # None
    BY <1>0, <1>4, <1>5, ConstantTypes DEF FilesInv
  <1>8. /\ offsets[n].file # None => Ahead(offsets[n].file, offsets[n].off)
        /\ offsets[n].file = at[n] \/ Ahead(at[n], 0)
    <2>1. CASE n = name
      BY <1>6, <2>1
    <2>2. CASE n > name
      <3>1. offsets[n].file = None
        BY <1>4, <2>2 DEF FollowInv, NoPosition
      <3> QED
        BY <1>4, <1>6, <1>7, <2>2, <3>1
    <2> QED
      BY <1>5, <2>1, <2>2
  <1>9. /\ p.file # None => Ahead(p.file, p.off)
        /\ p.file = at[n] \/ pc' = "down" \/ Ahead(at[n], 0)
    <2>1. CASE tail'.position = tail.position /\ (pc = "down" => pc' = "down") /\ name' = name
      BY <1>4, <1>6, <2>1
    <2>2. CASE BeginRead /\ tail'.position = [file |-> at[name], off |-> 0] /\ tail'.position # tail.position
      <3>1. tail.position.file # at[name]
        <4>1. SUFFICES ASSUME tail.position.file = at[name] PROVE FALSE
          OBVIOUS
        <4>2. at[name] \in FileIds /\ Intact(at[name])
          BY <1>0, ConstantTypes DEF FilesInv, Intact
        <4>3. tail.scan <= Size(at[name])
          BY <4>1, <4>2 DEF IInv, Content
        <4>4. tail.scan \in Nat /\ Size(at[name]) \in Nat
          BY <4>2, SizeBounds, ConstantTypes DEF IInv, TypeOK, TailRecords
        <4>5. ~(Size(at[name]) < tail.scan)
          BY <4>3, <4>4
        <4>6. Observed(at[name], Size(at[name])) = tail
          BY <4>1, <4>5 DEF Observed
        <4>7. BeginRead => tail'.position = tail.position
          BY <4>6, BeginReadKeeps
        <4> QED
          BY <2>2, <4>7
      <3>2. Ahead(at[name], 0)
        <4>1. pc # "down"
          BY <2>2 DEF BeginRead
        <4> QED
          BY <1>6, <3>1, <4>1
      <3>3. p.file = at[name] /\ p.off = 0 /\ n = name
        <4>1. name' = name
          BY <2>2 DEF BeginRead
        <4> QED
          BY <1>4, <2>2, <4>1
      <3> QED
        BY <3>2, <3>3
    <2>3. CASE tail'.position = NoPosition /\ pc' = "down"
      BY <1>4, <2>3 DEF NoPosition
    <2>4. CASE name' = current /\ tail'.position = offsets'[current]
      BY <1>1, <1>4, <1>8, <2>4
    <2>5. BeginRead => name' = name /\ pc # "down"
      BY DEF BeginRead
    <2> QED
      BY <2>1, <2>2, <2>3, <2>4, <2>5, PositionStep
  <1>10. \A m \in Names : m > n /\ at[m] # None => Ahead(at[m], 0)
    <2> SUFFICES ASSUME NEW m \in Names, m > n, at[m] # None PROVE Ahead(at[m], 0)
      OBVIOUS
    <2>1. m > name
      BY <1>0, <1>4, <1>5, ConstantTypes DEF FileTypes
    <2> QED
      BY <1>6, <2>1
  <1>11. \A l \in Accounted' : l <= written'
    BY <1>1, <1>2, <1>6
  <1> QED
    BY <1>1, <1>3, <1>4, <1>8, <1>9, <1>10, <1>11 DEF OrderInv, Ahead

\* A line that the server writes comes after every line that was admitted.
LEMMA WriteOrder ==
    ASSUME IInv, OrderInv, WriteHalf, [Next]_vars, ~replay
    PROVE  OrderInv'
  <1>1. /\ UNCHANGED <<at, name, current, tail, offsets, saved, pc>>
        /\ FilesInv /\ tail.position \in Positions /\ offsets[name] \in Positions
    BY FileFacts DEF WriteHalf, tailVars, storeVars, IInv, TypeOK, TailRecords
  <1>2. PICK p, o : p = tail.position /\ o = offsets[name] /\ p \in Positions /\ o \in Positions
    BY <1>1
  <1>3. /\ \A q \in {p, o} : q.file # None => Ahead(q.file, q.off)
        /\ o.file = at[name] \/ Ahead(at[name], 0)
        /\ p.file = at[name] \/ pc = "down" \/ Ahead(at[name], 0)
        /\ \A m \in Names : m > name /\ at[m] # None => Ahead(at[m], 0)
        /\ \A l \in Accounted : l <= written
        /\ pc = "down" => offsets = saved
    BY <1>2 DEF OrderInv
  <1>4. \A f \in FileIds : \A off : Ahead(f, off) => Ahead(f, off)'
    BY <1>3, WriteAhead
  <1>5. \A q \in {p, o} : q.file # None => Ahead(q.file, q.off)'
    BY <1>2, <1>3, <1>4 DEF Positions
  <1>6. at[name] \in FileIds /\ \A m \in Names : at[m] # None => at[m] \in FileIds
    BY FileFacts DEF FilesInv, FileTypes
  <1>7. PICK c : c = at[name] /\ c \in FileIds
    BY <1>6
  <1>8. /\ o.file = c \/ Ahead(c, 0)'
        /\ p.file = c \/ pc = "down" \/ Ahead(c, 0)'
    BY <1>3, <1>4, <1>7
  <1>9. ASSUME NEW m \in Names, m > name, NEW g, g = at[m], g # None
        PROVE  Ahead(g, 0)'
    BY <1>3, <1>4, <1>6, <1>9
  <1>10. \A l \in Accounted' : l <= written'
    BY <1>3, <1>7, WriteAhead
  <1> QED
    BY <1>1, <1>2, <1>3, <1>5, <1>7, <1>8, <1>9, <1>10 DEF OrderInv, Ahead

\* A file that the server opens comes after every line that was admitted.
LEMMA RotateOrder ==
    ASSUME IInv, LinesInv, OrderInv, Rotate, ~replay
    PROVE  OrderInv'
  <1>1. PICK n \in Names : at' = [at EXCEPT ![n] = at[current] + 1] /\ current' = n
    BY DEF Rotate
  <1>2. UNCHANGED <<log, written, admitted, name, tail, offsets, saved, pc, replay>>
    BY DEF Rotate, tailVars, storeVars, historyVars
  <1>3. PICK a \in Nat : a = at[current] /\ a + 1 \in FileIds
    BY FileFacts, ConstantTypes DEF Rotate, FileIds, FilesInv, BoundsAssumption
  <1>4. at'[n] = a + 1 /\ \A m \in Names : m # n => at'[m] = at[m]
    BY <1>1, <1>3, FileFacts DEF FileTypes
  <1>5. log[a + 1] = <<>>
    <2>1. a + 1 > a
      OBVIOUS
    <2> QED
      BY <1>3, <2>1 DEF LinesInv, NamesInOrder
  <1>6. Accounted' = Accounted
    BY <1>2 DEF Accounted
  <1>7. \A f, off : Ahead(f, off)' <=> Ahead(f, off)
    BY <1>2, <1>6 DEF Ahead
  <1>8. Ahead(at'[n], 0)
    BY <1>4, <1>5 DEF Ahead
  <1>9. name \in Names
    BY FileFacts DEF FileTypes
  <1>10. /\ \A q \in {tail.position, offsets[name]} : q.file # None => Ahead(q.file, q.off)
         /\ offsets[name].file = at[name] \/ Ahead(at[name], 0)
         /\ tail.position.file = at[name] \/ pc = "down" \/ Ahead(at[name], 0)
         /\ \A m \in Names : m > name /\ at[m] # None => Ahead(at[m], 0)
         /\ \A l \in Accounted : l <= written
         /\ pc = "down" => offsets = saved
    BY DEF OrderInv
  <1>11. /\ offsets[name].file = at'[name] \/ Ahead(at'[name], 0)
         /\ tail.position.file = at'[name] \/ pc = "down" \/ Ahead(at'[name], 0)
         /\ \A m \in Names : m > name /\ at'[m] # None => Ahead(at'[m], 0)
    BY <1>4, <1>8, <1>9, <1>10
  <1> QED
    BY <1>2, <1>6, <1>7, <1>10, <1>11 DEF OrderInv, Ahead

\* Accepting a batch admits lines that come before whatever is read next.
LEMMA AcceptOrder ==
    ASSUME IInv, LinesInv, Sound(tail, batch), FollowInv, OrderInv, Accept, ~replay
    PROVE  OrderInv'
  <1>0. cut = {} /\ FilesInOrder /\ NamesInOrder /\ FileTypes /\ FilesInv
    BY FileFacts DEF LinesInv
  <1>1. PICK f \in FileIds : f = tail.position.file /\ tail'.position.file = f
    <2>1. tail.position.file = batch.file /\ batch.file \in FileIds
      BY DEF IInv, StepInv, Accept
    <2> QED
      BY <2>1, AcceptKeeps
  <1>2. /\ UNCHANGED <<log, at, current, written, name, replay>>
        /\ pc = "admit" /\ pc' # "down"
    BY DEF Accept, AfterBatch, fileVars
  <1>3. PICK p : p = tail'.position /\ p.file = f /\ offsets'[name] = p
    <2>1. offsets' = [offsets EXCEPT ![name] = tail'.position]
      BY AcceptKeeps
    <2>2. offsets'[name] = tail'.position
      BY <1>0, <2>1 DEF IInv, TypeOK
    <2> QED
      BY <1>1, <2>2
  <1>4. /\ f # None /\ Ahead(f, tail.position.off)
        /\ f = at[name] \/ Ahead(at[name], 0)
        /\ \A m \in Names : m > name /\ at[m] # None => Ahead(at[m], 0)
        /\ \A l \in Accounted : l <= written
    BY <1>1, <1>2, ConstantTypes DEF OrderInv
  <1>5. Ahead(tail.position.file, tail.position.off)'
    BY <1>0, <1>1, <1>4, AcceptAhead
  <1>6. Ahead(f, p.off)'
    BY <1>3, <1>5 DEF Ahead
  <1>7. \A l \in Accounted' : l <= written'
    BY <1>0, <1>4, AcceptAhead
  <1>8. \A g \in FileIds : g > f /\ Ahead(g, 0) => Ahead(g, 0)'
    BY <1>0, <1>1, AcceptAhead
  <1>9. PICK c \in FileIds : c = at[name] /\ f <= c
    BY <1>0, <1>1 DEF FilesInv, FollowInv
  <1>10. f = c \/ Ahead(c, 0)'
    <2>1. f # c => c > f
      BY <1>9, ConstantTypes
    <2> QED
      BY <1>4, <1>8, <1>9, <2>1
  <1>11. ASSUME NEW m \in Names, m > name, at[m] # None, NEW g, g = at[m]
         PROVE  Ahead(g, 0)'
    <2>1. g \in FileIds /\ name \in Names
      BY <1>0, <1>11 DEF FileTypes
    <2>2. name < m
      BY <1>11, <2>1, ConstantTypes
    <2>3. c < g
      BY <1>0, <1>9, <1>11, <2>1, <2>2 DEF NamesInOrder
    <2>4. g > f
      BY <1>9, <2>1, <2>3, ConstantTypes
    <2> QED
      BY <1>4, <1>8, <1>11, <2>1, <2>4
  <1> QED
    BY <1>2, <1>3, <1>6, <1>7, <1>9, <1>10, <1>11 DEF OrderInv, Ahead

\* A step keeps the order, unless records may appear again.
LEMMA OrderStep ==
    ASSUME IInv, LinesInv, Sound(tail, batch), FollowInv, OrderInv, [Next]_vars
    PROVE  OrderInv'
  <1>1. SUFFICES ASSUME ~replay' PROVE OrderInv'
    BY DEF OrderInv
  <1>2. ~replay
    <2>1. replay => replay'
      BY DEF Next, vars, historyVars, Collector, WriteHalf, Rotate, Truncate, BeginRead, ReadCell, EndRead,
           StartCycle, SourceLimitReached, NothingToAcknowledge, Accept, Save, Rescan, Start, ReadFails,
           Reject, AdmissionFatal, Kill, PowerLoss
    <2> QED
      BY <1>1, <2>1
  <1> QED
    BY <1>1, <1>2, WriteOrder, RotateOrder, AcceptOrder, SteadyOrder

\* An accepted batch comes after what was admitted, in its own order.
LEMMA RecordedStep ==
    ASSUME IInv, LinesInv, WholeInv, Sound(tail, batch), OrderInv, RecordedOnceInOrder, [Next]_vars
    PROVE  RecordedOnceInOrder'
  <1>1. SUFFICES ASSUME ~replay' PROVE RecordedOnceInOrder'
    BY DEF RecordedOnceInOrder
  <1>2. ~replay
    <2>1. replay => replay'
      BY DEF Next, vars, historyVars, Collector, WriteHalf, Rotate, Truncate, BeginRead, ReadCell, EndRead,
           StartCycle, SourceLimitReached, NothingToAcknowledge, Accept, Save, Rescan, Start, ReadFails,
           Reject, AdmissionFatal, Kill, PowerLoss
    <2> QED
      BY <1>1, <2>1
  <1>3. CASE admitted' = admitted
    BY <1>2, <1>3 DEF RecordedOnceInOrder
  <1>4. CASE Accept
    <2>1. PICK A \in Seq(Seq(Lines)), Q \in Seq(Seq(Lines)) :
              A = admitted /\ Q = batch.records /\ admitted' = A \o Q
      BY <1>4 DEF IInv, TypeOK, BatchRecords, Accept
    <2>2. PICK B : B = A \o Q
      OBVIOUS
    <2>3. cut = {}
      BY <1>2 DEF LinesInv
    <2>4. PICK f \in FileIds, from \in Nat, to \in Nat :
              /\ f = tail.position.file /\ from = tail.position.off
              /\ \A r \in DOMAIN Q : \A k \in DOMAIN Q[r] : InStretch(Q[r][k], f, from, to)
      BY <1>4, <2>1, <2>3, AcceptedLines
    <2>5. /\ InOrder(Q) /\ \A r \in DOMAIN Q : Whole(Q[r])
          /\ \A r \in DOMAIN A : Whole(A[r])
      BY <2>1, <2>3, <2>4, ConstantTypes DEF Sound, WholeInv
    <2>6. Ahead(f, from)
      BY <1>2, <2>4, ConstantTypes DEF OrderInv
    <2>7. \A r \in DOMAIN A : A[r][Len(A[r])] \in Accounted
      <3> SUFFICES ASSUME NEW r \in DOMAIN A PROVE A[r][Len(A[r])] \in Accounted
        OBVIOUS
      <3>1. A[r] \in Seq(Lines) /\ A[r] # <<>>
        BY <2>1, <2>5 DEF Whole
      <3>2. Len(A[r]) \in DOMAIN A[r]
        BY <3>1
      <3>3. Accounted = LinesOf(A)
        BY <2>1 DEF Accounted, LinesOf
      <3> QED
        BY <3>2, <3>3, InLinesOf
    <2>8. \A r \in DOMAIN Q : \A l \in Accounted : l < Q[r][1]
      <3> SUFFICES ASSUME NEW r \in DOMAIN Q, NEW l \in Accounted PROVE l < Q[r][1]
        OBVIOUS
      <3>1. Q[r] \in Seq(Lines) /\ Q[r] # <<>>
        BY <2>1, <2>5 DEF Whole
      <3>2. 1 \in DOMAIN Q[r]
        BY <3>1
      <3>3. PICK i \in DOMAIN log[f] : from < 2 * i /\ Q[r][1] = log[f][i]
        BY <2>4, <3>2 DEF InStretch
      <3>4. 2 * i > from
        <4>1. i \in Nat
          BY FileFacts DEF FileTypes
        <4> QED
          BY <3>3, <4>1
      <3> QED
        BY <2>6, <3>3, <3>4 DEF Ahead
    <2>9. ASSUME NEW i \in DOMAIN B, NEW j \in DOMAIN B, i < j
          PROVE  B[i][Len(B[i])] < B[j][1]
      <3>0. /\ B \in Seq(Seq(Lines))
            /\ \A k \in DOMAIN B :
                  \/ k \in DOMAIN A /\ B[k] = A[k]
                  \/ k \notin DOMAIN A /\ \E x \in DOMAIN Q : k = Len(A) + x /\ B[k] = Q[x]
        <4>1. B \in Seq(Seq(Lines)) /\ Parts(A, Q, B)
          BY <2>1, <2>2, ConcatParts
        <4> QED
          BY <4>1 DEF Parts
      <3>1. /\ B \in Seq(Seq(Lines))
            /\ \/ i \in DOMAIN A /\ B[i] = A[i]
               \/ i \notin DOMAIN A /\ \E x \in DOMAIN Q : i = Len(A) + x /\ B[i] = Q[x]
            /\ \/ j \in DOMAIN A /\ B[j] = A[j]
               \/ j \notin DOMAIN A /\ \E x \in DOMAIN Q : j = Len(A) + x /\ B[j] = Q[x]
        BY <2>9, <3>0
      <3>2. CASE i \in DOMAIN A /\ j \in DOMAIN A
        <4>1. Last(A[i]) < A[j][1]
          BY <1>2, <2>1, <2>9, <3>2 DEF RecordedOnceInOrder
        <4> QED
          BY <3>1, <3>2, <4>1 DEF Last
      <3>3. CASE i \in DOMAIN A /\ j \notin DOMAIN A
        BY <2>7, <2>8, <3>1, <3>3
      <3>4. CASE i \notin DOMAIN A /\ j \in DOMAIN A
        <4>1. i \in Nat /\ j \in Nat /\ i >= 1
          BY <3>1
        <4>2. j <= Len(A) /\ ~(i <= Len(A))
          BY <3>4, <4>1, <2>1
        <4> QED
          BY <2>1, <2>9, <4>1, <4>2
      <3>5. CASE i \notin DOMAIN A /\ j \notin DOMAIN A
        <4>1. PICK x \in DOMAIN Q, y \in DOMAIN Q :
                  i = Len(A) + x /\ B[i] = Q[x] /\ j = Len(A) + y /\ B[j] = Q[y]
          BY <3>1, <3>5
        <4>2. x < y
          BY <2>1, <2>9, <4>1
        <4> QED
          BY <2>5, <4>1, <4>2 DEF InOrder
      <3> QED
        BY <3>2, <3>3, <3>4, <3>5
    <2>10. admitted' = B
      BY <2>1, <2>2
    <2> QED
      BY <2>9, <2>10 DEF RecordedOnceInOrder, Last
  <1>5. CASE AdmissionFatal
    BY <1>1, <1>3, <1>5 DEF AdmissionFatal
  <1> QED
    BY <1>3, <1>4, <1>5, AdmittedStep DEF IInv, TypeOK, BatchRecords

-----------------------------------------------------------------------------
(* The second invariant holds. *)

\* The second invariant holds at the start.
LEMMA Start1 == Init => SInv
  <1> SUFFICES ASSUME Init PROVE SInv
    OBVIOUS
  <1> USE DEF Init
  <1>1. 1 \in FileIds /\ 1 \in Names /\ 1 \in Nat /\ at[1] = 1 /\ \A n \in Names : n # 1 => at[n] = None
    BY DEF FileIds, Names, BoundsAssumption
  <1>2. \A f \in FileIds : log[f] = <<>>
    OBVIOUS
  <1>3. admitted = <<>> /\ Accounted = {}
    BY DEF Accounted
  <1>4. tail.position = NoPosition /\ offsets[name] = NoPosition /\ offsets = saved /\ older = {}
    BY <1>1, NewTailTypes, ConstantTypes DEF NoOffsets
  <1>5. LinesInv
    <2>1. \A n \in Names : n > current => at[n] = None
      BY <1>1
    <2>2. \A m, n \in Names : m < n /\ at[n] # None => at[m] < at[n]
      <3> SUFFICES ASSUME NEW m \in Names, NEW n \in Names, m < n, at[n] # None PROVE FALSE
        OBVIOUS
      <3>1. n = 1
        BY <1>1
      <3> QED
        BY <3>1 DEF Names
    <2>3. written + 1 \in Lines => written + 1 \in Heads
      BY ServerAssumption DEF ServerAssumption
    <2>4. FilesInOrder
      BY <1>1, <1>2, <2>3 DEF FilesInOrder
    <2> QED
      BY <1>2, <2>1, <2>2, <2>4 DEF LinesInv, NamesInOrder
  <1>6. Sound(tail, batch)
    BY <1>4 DEF Sound, NoPosition
  <1>7. WholeInv
    <2>1. \A p \in ResumePoints : p = NoPosition
      BY <1>4 DEF ResumePoints, NoOffsets
    <2> QED
      BY <1>3, <2>1 DEF WholeInv, NoPosition
  <1>8. FollowInv
    <2>1. \A n \in Names : 0 <= at[n]
      BY <1>1 DEF None
    <2>2. \A n \in Names : NoOffsets[n] = NoPosition
      BY DEF NoOffsets
    <2>3. name <= current
      OBVIOUS
    <2> QED
      BY <1>1, <1>4, <2>1, <2>2, <2>3 DEF FollowInv, NoPosition, None
  <1>9. OrderInv
    <2>1. \A f, off : Ahead(f, off)
      BY <1>3 DEF Ahead
    <2> QED
      BY <1>3, <1>4, <2>1 DEF OrderInv, NoPosition
  <1>10. RecordedOnceInOrder
    BY <1>3 DEF RecordedOnceInOrder
  <1> QED
    BY <1>5, <1>6, <1>7, <1>8, <1>9, <1>10 DEF SInv

\* Files hold the lines in the order they were written, batches are made of
\* whole records, a position is behind everything admitted, and no stop that
\* lost nothing changes that (tail.rs; log_sources.rs, collect; offsets.rs, save).
THEOREM OrderInvariance == Spec => []SInv
  <1>1. Init => SInv
    BY Start1
  <1>2. ASSUME IInv, SInv, [Next]_vars
        PROVE  SInv'
    <2>1. FileTypes /\ FilesInv
      BY <1>2, FileFacts
    <2>2. LinesInv'
      BY <1>2, <2>1, LinesStep DEF SInv
    <2>3. Sound(tail, batch)'
      BY <1>2, SoundStep DEF SInv
    <2>4. WholeInv'
      BY <1>2, WholeStep DEF SInv
    <2>5. FollowInv'
      BY <1>2, FollowStep DEF SInv, LinesInv
    <2>6. OrderInv'
      BY <1>2, OrderStep DEF SInv
    <2>7. RecordedOnceInOrder'
      BY <1>2, RecordedStep DEF SInv
    <2> QED
      BY <2>2, <2>3, <2>4, <2>5, <2>6, <2>7 DEF SInv
  <1> QED
    BY <1>1, <1>2, Invariance, PTL DEF Spec

\* Records are admitted once and in file order, unless a stop lost an
\* acknowledgement or the file lost bytes (Tail::retry, acknowledge;
\* log_sources.rs, collect).
THEOREM RecordedOnce == Spec => []RecordedOnceInOrder
  <1>1. SInv => RecordedOnceInOrder
    BY DEF SInv
  <1> QED
    BY <1>1, OrderInvariance, PTL

\* An admitted record is a stretch of the log with no record inside it; a CSV
\* record is complete, and any other begins with its first line or where a
\* record came to rest at the end of the file (tail.rs, scan and accept_line).
THEOREM AdmittedWhole == Spec => []RecordsAreWhole
  <1>1. ASSUME IInv, SInv
        PROVE  RecordsAreWhole
    <2> SUFFICES ASSUME cut = {}, NEW i \in DOMAIN admitted, NEW r, r = admitted[i]
                 PROVE  LET follows == {l \in Lines : l = Last(r) + 1 /\ l <= written}
                        IN /\ \A k \in DOMAIN r : r[k] = r[1] + k - 1
                           /\ \A k \in 2..Len(r) : r[k] \notin Heads
                           /\ IF format = "quoted"
                              THEN r[1] \in Heads /\ follows \subseteq Heads
                              ELSE r[1] \in Heads \/ r[1] - 1 \in Accounted
      BY DEF RecordsAreWhole
    <2>1. Whole(r) /\ Preceded(r, Accounted)
      BY <1>1 DEF SInv, WholeInv
    <2>2. r \in Seq(Lines) /\ r # <<>>
      BY <1>1, <2>1 DEF IInv, TypeOK, Whole
    <2>3. r[1] \in Nat /\ \A k \in DOMAIN r : k \in Nat
      <3>1. 1 \in DOMAIN r
        BY <2>2
      <3>2. r[1] \in Lines
        BY <2>2, <3>1
      <3>3. \A k \in DOMAIN r : k \in Nat
        BY <2>2
      <3>4. r[1] \in Nat
        BY <3>2, ConstantTypes
      <3> QED
        BY <3>3, <3>4
    <2>4. \A k \in DOMAIN r : r[k] = r[1] + k - 1
      BY <2>1, <2>3 DEF Whole
    <2>5. format = "quoted" => {l \in Lines : l = Last(r) + 1 /\ l <= written} \subseteq Heads
      BY <2>1, <2>2 DEF Whole, Last
    <2> QED
      BY <2>1, <2>4, <2>5 DEF Whole, Preceded
  <1> QED
    BY <1>1, Invariance, OrderInvariance, PTL

=============================================================================
