------------------------------- MODULE LogTail -------------------------------
(***************************************************************************)
(* One followed log file: its bounded tail, the admission protocol of the  *)
(* collector and the offsets file a restart resumes from.                  *)
(* crates/kronika-source-log/src/{tail,tail/framing,offsets,postgres}.rs,  *)
(* bins/kronika-collector/src/log_sources*.                                *)
(*                                                                         *)
(* A line occupies two cells of its file, its bytes and its newline, so an *)
(* offset is a number of cells and an odd one lies inside a line.          *)
(***************************************************************************)
EXTENDS Integers, Sequences, FiniteSets, SequencesExt

CONSTANTS
    MaxLine,      \* bound: lines the server writes
    MaxFile,      \* bound: files it writes them to
    MaxName,      \* bound: names those files have
    Heads,        \* the lines that open a record
    Odd,          \* CSV lines with an odd number of quotes
    Unparsed,     \* records that start with these lines give no event
    MaxRecords,   \* records of a batch: SECTION_WRITE_BATCH_ROWS
    RawLimit,     \* cells read for a batch: MAX_READ_BYTES
    SourceLimit,  \* cells read of a source in a cycle: MAX_SOURCE_READ_BYTES
    Budget        \* bound: faults of any kind: failed calls, stops, truncations

Lines == 1..MaxLine
FileIds == 1..MaxFile
Names == 1..MaxName
Formats == {"tabbed", "quoted"}
None == 0
Offsets == 0..2 * MaxLine

\* Position: the file an offset belongs to, and the offset.
Positions == [file : FileIds \cup {None}, off : Offsets]
NoPosition == [file |-> None, off |-> 0]
NoOffsets == [n \in Names |-> NoPosition]

ASSUME BoundsAssumption ==
    /\ MaxLine \in Nat /\ MaxFile \in Nat \ {0} /\ MaxName \in Nat \ {0}
    /\ MaxRecords \in Nat \ {0} /\ RawLimit \in Nat \ {0} /\ SourceLimit \in Nat
ASSUME LinesAssumption == Heads \subseteq Lines /\ Odd \subseteq Lines /\ Unparsed \subseteq Lines

\* What the server writes: its first line opens a record, and a CSV record ends
\* with the first line that leaves its quotes balanced.
ASSUME ServerAssumption ==
    /\ 1 \in Lines => 1 \in Heads
    /\ \A first \in Heads, line \in Lines :
          first <= line /\ line + 1 \in Lines /\ (\A l \in first + 1..line : l \notin Heads) =>
              (line + 1 \in Heads <=> Cardinality({l \in first..line : l \in Odd}) % 2 = 0)
ASSUME BudgetAssumption == Budget \in Nat

VARIABLES
    format,   \* what tells a continuation from a new record: Format::continues
    log,      \* the lines of each file
    half,     \* the last line of the current file lacks its newline
    cut,      \* history: files that lost bytes the tail may have counted
    at,       \* the file behind each name
    current,  \* the name the server writes under
    written,  \* lines written so far
    pc,       \* what the collector does next
    name,     \* the name being followed
    tail,     \* Tail: position, scan, partial, open, end, staged, pending
    batch,    \* the batch being read: file, size, raw, records, end
    cycle,    \* cells read of this source in this cycle
    offsets,  \* Offsets.positions
    changed,  \* offsets_changed
    saved,    \* log.offsets
    older,    \* what log.offsets may show after a power loss, besides saved
    admitted, \* history: the records admitted to the journal, in order; those
              \* without an event have no row there
    replay,   \* history: something happened that entitles records to appear again
    left      \* faults that may still happen

fileVars == <<log, half, cut, at, current, written>>
tailVars == <<name, tail>>
cycleVars == <<batch, cycle, changed>>
storeVars == <<offsets, saved, older>>
historyVars == <<admitted, replay>>
vars == <<format, fileVars, pc, tailVars, cycleVars, storeVars, historyVars, left>>

Fault == left > 0 /\ left' = left - 1

\* The cells of a file.
Size(f) == 2 * Len(log[f]) - (IF half /\ f = at[current] THEN 1 ELSE 0)

\* Tail::new.
NewTail(position) ==
    [position |-> position, scan |-> position.off, partial |-> None,
     open |-> <<>>, end |-> 0, staged |-> None, pending |-> None]

\* Broken variant: only the cursor goes back; what was read ahead stays.
ResetCursorOnly(t) == [t EXCEPT !.scan = t.position.off, !.pending = None]

\* Tail::retry, Tail::reset_volatile.
ResetVolatile(t) == NewTail(t.position)

NoBatch == [file |-> None, size |-> 0, raw |-> 0, records |-> <<>>, end |-> None]

-----------------------------------------------------------------------------
(* The server's log. *)

\* The bytes of a line reach the file, or the newline after them.
WriteHalf ==
    /\ IF half
       THEN half' = FALSE /\ UNCHANGED <<log, written>>
       ELSE /\ written < MaxLine
            /\ written' = written + 1
            /\ log' = [log EXCEPT ![at[current]] = Append(@, written + 1)]
            /\ half' = TRUE
    /\ UNCHANGED <<format, cut, at, current, pc, tailVars, cycleVars, storeVars, historyVars, left>>

\* Between two records the server changes to a new file: under a new name, or
\* under the same one after the old file was renamed away.
Rotate ==
    /\ ~half
    /\ written + 1 \in Heads
    /\ at[current] < MaxFile
    /\ \E n \in {current, current + 1} \cap Names :
          /\ at' = [at EXCEPT ![n] = at[current] + 1]
          /\ current' = n
    /\ UNCHANGED <<format, log, half, cut, written, pc, tailVars, cycleVars, storeVars, historyVars, left>>

\* The file is truncated in place.
Truncate ==
    /\ Fault
    /\ log[at[current]] # <<>>
    /\ log' = [log EXCEPT ![at[current]] = <<>>]
    /\ half' = FALSE
    /\ cut' = cut \cup {at[current]}
    /\ replay' = TRUE
    /\ UNCHANGED <<format, at, current, written, pc, tailVars, cycleVars, storeVars, admitted>>

-----------------------------------------------------------------------------
(* Tail::read_batch. *)

\* csvlog, stderr: does the line continue the open record?  An empty line, at
\* None, has no leading tab and no quotes.
Continues(open, line) ==
    IF format = "quoted"
    THEN Cardinality({i \in DOMAIN open : open[i] \in Odd}) % 2 = 1
    ELSE line # None /\ line \notin Heads

\* Broken variant: the candidate is where the scan is, past a staged line.
FlushToScan(t, b) ==
    [tail |-> [t EXCEPT !.open = <<>>],
     batch |-> [b EXCEPT !.records = Append(@, t.open), !.end = t.scan]]

\* flush_open: the open record ends where its last line does.
FlushOpen(t, b) ==
    [tail |-> [t EXCEPT !.open = <<>>],
     batch |-> [b EXCEPT !.records = Append(@, t.open), !.end = t.end]]

\* Broken variant: the end of a line is one past its newline.
PushPast(t, line) == [t EXCEPT !.open = Append(@, line), !.end = t.scan + 1]

\* OpenRecord::push: end is where the line just read ends.
Push(t, line) == [t EXCEPT !.open = Append(@, line), !.end = t.scan]

\* accept_line.
AcceptLine(t, b, line) ==
    IF t.open = <<>> \/ Continues(t.open, line)
    THEN [tail |-> Push(t, line), batch |-> b]
    ELSE LET flushed == FlushOpen(t, b)
         IN IF Len(flushed.batch.records) >= MaxRecords
            THEN [flushed EXCEPT !.tail.staged = line]
            ELSE [flushed EXCEPT !.tail = Push(@, line)]

\* A file that is not the one of the position, or is shorter than the cursor,
\* is read from its start: read_batch_configured.
Observed(f, size) ==
    IF tail.position.file # f \/ size < tail.scan
    THEN NewTail([file |-> f, off |-> 0])
    ELSE tail

\* Open and stat the followed file; a staged line comes first.
BeginRead ==
    /\ pc = "read"
    /\ SourceLimit - cycle >= RawLimit
    /\ LET t == Observed(at[name], Size(at[name]))
           b == [NoBatch EXCEPT !.file = at[name], !.size = Size(at[name])]
           next == IF t.staged = None THEN [tail |-> t, batch |-> b]
                   ELSE AcceptLine([t EXCEPT !.staged = None], b, t.staged)
       IN tail' = next.tail /\ batch' = next.batch
    /\ pc' = "scan"
    /\ UNCHANGED <<format, fileVars, name, cycle, changed, storeVars, historyVars, left>>

\* scan goes on while nothing is staged, below the raw limit and short of the
\* size the file had when it was opened.
More == tail.staged = None /\ batch.raw < RawLimit /\ tail.scan < batch.size

\* One more cell of the file: part of a line, or its newline.
ReadCell ==
    /\ pc = "scan"
    /\ More
    /\ tail.scan < Size(batch.file)
    /\ LET line == log[batch.file][(tail.scan \div 2) + 1]
           t == [tail EXCEPT !.scan = @ + 1]
           b == [batch EXCEPT !.raw = @ + 1]
           next == IF tail.scan % 2 = 0
                   THEN [tail |-> [t EXCEPT !.partial = line], batch |-> b]
                   ELSE AcceptLine([t EXCEPT !.partial = None], b, tail.partial)
       IN tail' = next.tail /\ batch' = next.batch
    /\ UNCHANGED <<format, fileVars, pc, name, cycle, changed, storeVars, historyVars, left>>

\* Broken variant: the end of the file completes whatever is open.
AtRestAnyway(t, b) ==
    /\ t.scan >= b.size
    /\ Len(b.records) < MaxRecords
    /\ t.staged = None /\ t.partial = None
    /\ t.open # <<>>

\* Broken variant: the last record waits for a byte beyond the end of the file.
AtRestPast(t, b) ==
    /\ t.scan > b.size
    /\ Len(b.records) < MaxRecords
    /\ t.staged = None /\ t.partial = None
    /\ t.open # <<>> /\ ~Continues(t.open, None)

\* At the end of the file a record that needs no further line is complete.
AtRest(t, b) ==
    /\ t.scan >= b.size
    /\ Len(b.records) < MaxRecords
    /\ t.staged = None /\ t.partial = None
    /\ t.open # <<>> /\ ~Continues(t.open, None)

\* The scan stops, and the batch is handed over with its candidate position.
\* Cells read after a line that was staged count for the cycle all the same.
EndRead ==
    /\ pc = "scan"
    /\ ~(More /\ tail.scan < Size(batch.file))
    /\ LET next == IF AtRest(tail, batch) THEN FlushOpen(tail, batch)
                   ELSE [tail |-> tail, batch |-> batch]
       IN /\ tail' = [next.tail EXCEPT !.pending = next.batch.end]
          /\ batch' = next.batch
    /\ \E read \in batch.raw..(IF tail.staged = None THEN batch.raw ELSE RawLimit) :
          cycle' = cycle + read
    /\ pc' = "admit"
    /\ UNCHANGED <<format, fileVars, name, changed, storeVars, historyVars, left>>

\* The file cannot be opened, read or timed: the batch is forgotten and the
\* source is left for the next cycle.
ReadFails ==
    /\ pc \in {"read", "scan"}
    /\ Fault
    /\ tail' = IF pc = "read" THEN tail ELSE ResetVolatile(tail)
    /\ batch' = NoBatch
    /\ pc' = "save"
    /\ UNCHANGED <<format, fileVars, name, cycle, changed, storeVars, historyVars>>

-----------------------------------------------------------------------------
(* LogSources::collect, collect_files. *)

\* A scheduled cycle comes to this source.
StartCycle ==
    /\ pc = "idle"
    /\ pc' = "read"
    /\ UNCHANGED <<format, fileVars, tailVars, cycleVars, storeVars, historyVars, left>>

\* Another batch might exceed what a source may read in a cycle.
SourceLimitReached ==
    /\ pc = "read"
    /\ SourceLimit - cycle < RawLimit
    /\ pc' = "save"
    /\ UNCHANGED <<format, fileVars, tailVars, cycleVars, storeVars, historyVars, left>>

\* PgLog::parse: a record it does not recognise, or too old, gives no event.
HasEvent(record) == record[1] \notin Unparsed
HasEvents == \E i \in DOMAIN batch.records : HasEvent(batch.records[i])

\* After an accepted batch: on to the next, or done with this source.
AfterBatch ==
    LET atEof == tail.scan >= batch.size /\ tail.staged = None
        progress == batch.raw # 0 \/ tail.pending # None
    IN /\ pc' = IF atEof \/ ~progress THEN "save" ELSE "read"
       /\ batch' = NoBatch

\* No record ended in this batch: nothing to admit or to acknowledge.
NothingToAcknowledge ==
    /\ pc = "admit"
    /\ tail.pending = None
    /\ AfterBatch
    /\ UNCHANGED <<format, fileVars, tailVars, cycle, changed, storeVars, historyVars, left>>

\* Tail::acknowledge: the candidate becomes the position.
Acknowledge(t) ==
    [t EXCEPT !.position.off = t.pending, !.pending = None]

\* The rows are in the journal, or there are none; the position moves.  A stop
\* in between is a stop before the position is saved.
Accept ==
    /\ pc = "admit"
    /\ tail.pending # None
    /\ admitted' = admitted \o batch.records
    /\ tail' = Acknowledge(tail)
    /\ offsets' = [offsets EXCEPT ![name] = Acknowledge(tail).position]
    /\ changed' = TRUE
    /\ AfterBatch
    /\ UNCHANGED <<format, fileVars, name, cycle, saved, older, replay, left>>

\* The window was not appended: the same input is read again in a later cycle.
Reject ==
    /\ pc = "admit"
    /\ HasEvents
    /\ Fault
    /\ tail' = ResetVolatile(tail)
    /\ batch' = NoBatch
    /\ pc' = "save"
    /\ UNCHANGED <<format, fileVars, name, cycle, changed, storeVars, historyVars>>

\* Admission fails for good, before the append or after it: the collector
\* saves the earlier acknowledgements and ends.
AdmissionFatal ==
    /\ pc = "admit"
    /\ HasEvents
    /\ Fault
    /\ \/ UNCHANGED <<admitted, replay>>
       \/ admitted' = admitted \o batch.records /\ replay' = TRUE
    /\ pc' = "dying"
    /\ UNCHANGED <<format, fileVars, tailVars, cycleVars, storeVars>>

\* A stopped process leaves only the files behind.
Stop ==
    /\ pc' = "down"
    /\ tail' = NewTail(NoPosition)
    /\ batch' = NoBatch
    /\ cycle' = 0
    /\ changed' = FALSE

\* Offsets::save once per cycle, if anything was acknowledged; a failure is
\* only logged.
Save ==
    /\ pc \in {"save", "dying"}
    /\ IF ~changed THEN UNCHANGED <<saved, older, left>>
       ELSE \/ saved' = offsets /\ older' = older \cup {saved} /\ UNCHANGED left
            \/ Fault /\ UNCHANGED <<saved, older>>
    /\ IF pc = "dying"
       THEN Stop /\ replay' = (replay \/ saved' # offsets)
       ELSE /\ pc' = "idle"
            /\ cycle' = 0 /\ changed' = FALSE
            /\ UNCHANGED <<tail, batch, replay>>
    /\ UNCHANGED <<format, fileVars, name, offsets, admitted>>

\* LogSources::rescan learns the server's current file name: the old one is no
\* longer followed.
Rescan ==
    /\ pc = "idle"
    /\ name # current
    /\ name' = current
    /\ tail' = NewTail(offsets[current])
    /\ UNCHANGED <<format, fileVars, pc, cycleVars, storeVars, historyVars, left>>

-----------------------------------------------------------------------------
(* Stops and starts. *)

Kill ==
    /\ pc # "down"
    /\ Fault
    /\ replay' = (replay \/ saved # offsets)
    /\ Stop
    /\ UNCHANGED <<format, fileVars, name, storeVars, admitted>>

\* The machine stops: log.offsets may be an older one, for its rename was never
\* synchronised, and the log may lose its last lines.
PowerLoss ==
    /\ pc # "down"
    /\ Fault
    /\ \E found \in older \cup {saved}, kept \in 0..Len(log[at[current]]) :
          LET shorter == kept < Len(log[at[current]])
          IN /\ saved' = found
             /\ log' = [log EXCEPT ![at[current]] = SubSeq(@, 1, kept)]
             /\ half' = (half /\ ~shorter)
             /\ cut' = IF shorter THEN cut \cup {at[current]} ELSE cut
             /\ replay' = (replay \/ shorter \/ found # offsets)
    /\ older' = {}
    /\ Stop
    /\ UNCHANGED <<format, at, current, written, name, offsets, admitted>>

\* LogSources::open loads the offsets and drops what does not parse; the first
\* rescan follows the current name.
Start ==
    /\ pc = "down"
    /\ \/ offsets' = saved /\ UNCHANGED <<replay, left>>
       \/ offsets' = NoOffsets /\ Fault /\ replay' = TRUE
    /\ name' = current
    /\ tail' = NewTail(offsets'[current])
    /\ pc' = "idle"
    /\ UNCHANGED <<format, fileVars, cycleVars, saved, older, admitted>>

-----------------------------------------------------------------------------
Init ==
    /\ format \in Formats
    /\ log = [f \in FileIds |-> <<>>]
    /\ half = FALSE
    /\ cut = {}
    /\ at = [n \in Names |-> IF n = 1 THEN 1 ELSE None]
    /\ current = 1
    /\ written = 0
    /\ pc = "idle"
    /\ name = 1
    /\ tail = NewTail(NoPosition)
    /\ batch = NoBatch
    /\ cycle = 0
    /\ offsets = NoOffsets
    /\ changed = FALSE
    /\ saved = NoOffsets
    /\ older = {}
    /\ admitted = <<>>
    /\ replay = FALSE
    /\ left = Budget

Collector ==
    \/ BeginRead \/ ReadCell \/ EndRead
    \/ StartCycle \/ SourceLimitReached \/ NothingToAcknowledge
    \/ Accept \/ Save \/ Rescan \/ Start

Next ==
    \/ WriteHalf \/ Rotate \/ Truncate
    \/ Collector
    \/ ReadFails \/ Reject \/ AdmissionFatal
    \/ Kill \/ PowerLoss

Spec == Init /\ [][Next]_vars

\* The collector's loop keeps running, and a supervisor starts it again; the
\* server ends a line it began.  It need not write another.
FairSpec == Spec /\ WF_vars(Collector) /\ WF_vars(half /\ WriteHalf)

-----------------------------------------------------------------------------
(* Properties. *)

TailRecords ==
    [position : Positions, scan : Offsets, partial : Lines \cup {None}, open : Seq(Lines),
     end : Offsets, staged : Lines \cup {None}, pending : Offsets]

BatchRecords ==
    [file : FileIds \cup {None}, size : Offsets, raw : Nat, records : Seq(Seq(Lines)), end : Offsets]

\* The values the variables range over.
TypeOK ==
    /\ format \in Formats
    /\ log \in [FileIds -> Seq(Lines)]
    /\ half \in BOOLEAN /\ cut \subseteq FileIds
    /\ at \in [Names -> FileIds \cup {None}]
    /\ current \in Names /\ name \in Names /\ written \in 0..MaxLine
    /\ pc \in {"down", "idle", "read", "scan", "admit", "save", "dying"}
    /\ tail \in TailRecords
    /\ batch \in BatchRecords
    /\ cycle \in Nat /\ changed \in BOOLEAN
    /\ offsets \in [Names -> Positions] /\ saved \in [Names -> Positions]
    /\ older \subseteq [Names -> Positions]
    /\ admitted \in Seq(Seq(Lines)) /\ replay \in BOOLEAN
    /\ left \in 0..Budget

\* The lines of the records admitted so far.
Accounted == UNION {ToSet(admitted[i]) : i \in DOMAIN admitted}

\* Every position a start may resume from, and the one in memory.
ResumePoints ==
    {tail.position} \cup {found[n] : found \in older \cup {saved, offsets}, n \in Names}

\* No start and no later read may skip a line: what lies before a position,
\* acknowledged or saved, belongs to a record that was admitted
\* (collection.rs admits, then acknowledges, then saves).
NothingSkipped ==
    \A p \in ResumePoints :
        p.file \notin cut \cup {None} =>
            \A i \in 1..p.off \div 2 : log[p.file][i] \in Accounted

\* Records are admitted in file order and once, through rejected batches, failed reads
\* and saves, restarts and rotations, unless a stop lost an acknowledgement or
\* the file lost bytes (Tail::retry, acknowledge; log_sources.rs, collect).
RecordedOnceInOrder ==
    ~replay => \A i, j \in DOMAIN admitted : i < j => Last(admitted[i]) < admitted[j][1]

\* An admitted record is a stretch of the log, however batches, staged
\* lines and restarts fell; a CSV record is complete, any other begins with its
\* first line or after a record that came to rest at the end of the file
\* (tail.rs, scan and accept_line).
RecordsAreWhole ==
    cut = {} =>
        \A i \in DOMAIN admitted :
            LET r == admitted[i]
                follows == {l \in Lines : l = Last(r) + 1 /\ l <= written}
            IN /\ \A k \in DOMAIN r : r[k] = r[1] + k - 1
               /\ \A k \in 2..Len(r) : r[k] \notin Heads
               /\ IF format = "quoted"
                  THEN r[1] \in Heads /\ follows \subseteq Heads
                  ELSE r[1] \in Heads \/ r[1] - 1 \in Accounted

\* A line that completes a record of the followed file is admitted, unless the
\* file is replaced, truncated or no longer followed first.
Complete(line) ==
    /\ pc # "down"
    /\ at[name] \notin cut
    /\ line \in ToSet(log[at[name]])
    /\ ~(half /\ line = Last(log[at[name]]))
    /\ line + 1 \in Heads \/ line = MaxLine

EventuallyRecorded ==
    \A line \in Lines : [](Complete(line) => <>(line \in Accounted \/ ~Complete(line)))

=============================================================================
