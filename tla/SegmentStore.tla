---------------------------- MODULE SegmentStore ----------------------------
(***************************************************************************)
(* How the collector turns windows into segments: windows are appended to  *)
(* the journal; a closed segment is written to a temporary file, linked    *)
(* under its final name, and only then cleared from the journal; a start   *)
(* does the same with what the journal still holds.                        *)
(* bins/kronika-collector/src/segments*, collector*,                       *)
(* crates/kronika-writer/src/segment.rs, crates/kronika-layout/src/root.   *)
(*                                                                         *)
(* The journal is used through JournalContract, which Journal implements;  *)
(* its variables are status, view, pending, kept, doubt and asked.         *)
(***************************************************************************)
EXTENDS Integers, FiniteSets

CONSTANTS
    MaxRow,    \* bound: rows the collector is given
    MaxId,     \* bound: segment identities (first-window timestamps)
    Strings,   \* interned values
    Uses,      \* the values each row refers to
    NoWindow,  \* no append in progress
    Budget     \* bound: how often each kind of fault may happen

Rows == 1..MaxRow
Ids == 1..MaxId
NoRow == 0
NoId == 0
Faults == {"kill", "power", "io", "clock"}

ASSUME SizesAssumption == MaxRow \in Nat /\ MaxId \in Nat
ASSUME UsesAssumption == Uses \in [Rows -> SUBSET Strings]
ASSUME BudgetAssumption == Budget \in [Faults -> Nat]

VARIABLES
    status, view, pending, kept, doubt, asked,  \* the journal: see JournalContract
    shows,      \* what active.wal may show to an open, were the process to stop now
    torn,       \* a write is under way or was cut short: an open may refuse the file
    disk,       \* how active.wal on disk differs from the page cache: see Differences
    pc,         \* what the collector does next
    row,        \* the row being appended, or NoRow
    nextRow,    \* the next row to be collected
    target,     \* identity of the segment being published
    temp,       \* the temporary file of the segment being published
    firstId,    \* SegmentState.first_id
    dict,       \* SegmentState.interner: the values flushed, and those of the window
    hasSettings,\* SegmentState.pg_settings_present
    aged,       \* SegmentState.age_deadline has passed
    segs,       \* the files under the final names
    clock,      \* the latest identity the wall clock has given
    left,       \* faults that may still happen
    acked       \* history: windows whose append returned Ok

journalVars == <<status, view, pending, kept, doubt, asked>>
fileVars == <<shows, torn, disk>>
segmentVars == <<firstId, dict, hasSettings, aged>>
rowVars == <<row, nextRow>>
publishVars == <<target, temp>>
vars == <<journalVars, fileVars, segmentVars, rowVars, publishVars,
          pc, segs, clock, left, acked>>

\* A window as it lies in the journal: its row, the identity it was appended
\* under, the dictionary entries it carries, and whether it carries the
\* instance metadata and the settings.
Windows == [row : Rows, id : Ids, defs : SUBSET Strings, meta : BOOLEAN, settings : BOOLEAN]

J == INSTANCE JournalContract WITH None <- NoWindow

\* A segment file: its windows, whether they are synchronised, and whether its
\* name is.
Files == [windows : SUBSET Windows, synced : BOOLEAN, durable : BOOLEAN]
NoFile == [windows |-> {}, synced |-> FALSE, durable |-> FALSE]

\* On disk are the same bytes, not yet the last writes of a call, or even what
\* a failed rollback has taken back in the page cache only.
Differences == {"none", "behind", "undone"}

NoDict == [flushed |-> {}, window |-> {}]

Fault(f) == left[f] > 0 /\ left' = [left EXCEPT ![f] = @ - 1]

\* The identity in the header of a journal with these windows.
IdOf(windows) == (CHOOSE w \in windows : TRUE).id
OneId(windows) == \A v, w \in windows : v.id = w.id

\* active.wal once a call on it has returned or committed: synchronised, and
\* showing these windows.
Settle(windows) == shows' = {windows} /\ torn' = FALSE /\ disk' = "none"

\* active.wal from the first write of a call to its synchronisation.
Unsettle(sets) ==
    /\ shows' = sets
    /\ torn' = TRUE
    /\ disk' = IF disk = "none" THEN "behind" ELSE disk

-----------------------------------------------------------------------------
(* Start: initialize_collector, open_collector_journal. *)

\* Journal::open succeeds.  An empty journal is ready for use; any other gets
\* one publication attempt.
OpenJournal ==
    /\ pc = "down"
    /\ \E found \in shows :
          /\ view' = found
          /\ shows' = {found}
          /\ IF found = {}
             THEN pc' = "idle" /\ UNCHANGED target
             ELSE pc' = "write" /\ target' = IdOf(found)
    /\ J!Start
    /\ torn' = FALSE
    /\ UNCHANGED <<disk, segmentVars, rowVars, temp, segs, clock, left, acked>>

\* Journal::open finishes a reset that was asked for before the stop.
OpenFinishesReset ==
    /\ pc = "down"
    /\ torn
    /\ J!CompleteReset
    /\ Settle({})
    /\ UNCHANGED <<segmentVars, rowVars, publishVars, pc, segs, clock, left, acked>>

\* Journal::open refuses what an unclean stop left, and will refuse it again.
OpenRefuses ==
    /\ pc = "down"
    /\ torn
    /\ pc' = "refused"
    /\ UNCHANGED <<journalVars, fileVars, segmentVars, rowVars, publishVars,
                   segs, clock, left, acked>>

-----------------------------------------------------------------------------
(* Appending a window: append_window, append_window_and_maybe_close. *)

\* The next row reaches the window writer.
Collect ==
    /\ pc = "idle"
    /\ nextRow \in Rows
    /\ row' = nextRow
    /\ nextRow' = nextRow + 1
    /\ pc' = "build"
    /\ UNCHANGED <<journalVars, fileVars, segmentVars, publishVars, segs, clock, left, acked>>

\* The interner once the window is buffered: a value already flushed to this
\* journal is not stored again.
Interned == [dict EXCEPT !.window = @ \cup (Uses[row] \ dict.flushed)]

\* encode_window: the first window of a segment carries the metadata, settings
\* go in until one window with them is in the journal.
Encoded(id) ==
    [row |-> row, id |-> id, defs |-> Interned.window,
     meta |-> firstId = NoId, settings |-> ~hasSettings]

\* The identity of a window: the segment's, or the wall clock for a fresh one.
\* The clock may step back.
WindowId(id) ==
    \/ /\ firstId # NoId
       /\ id = firstId
       /\ UNCHANGED <<clock, left>>
    \/ /\ firstId = NoId
       /\ id > clock
       /\ id = clock + 1
       /\ clock' = id
       /\ UNCHANGED left
    \/ /\ firstId = NoId
       /\ id <= clock
       /\ Fault("clock")
       /\ UNCHANGED clock

\* Journal::append admits the window.
AppendBegin ==
    /\ pc = "build"
    /\ \E id \in Ids :
          /\ WindowId(id)
          /\ \A w \in view : w.id = id
          /\ pending' = Encoded(id)
    /\ J!BeginAppend
    /\ Unsettle({view, view \cup {pending'}})
    /\ dict' = Interned
    /\ pc' = "appending"
    /\ UNCHANGED <<rowVars, publishVars, segs, acked, firstId, hasSettings, aged>>

\* close_open_segment: the segment state is replaced before anything is
\* published.
\* Broken variant: the identity is taken after the replacement.
CloseForgetsIdentity(id) ==
    /\ firstId' = NoId /\ hasSettings' = FALSE /\ aged' = FALSE
    /\ dict' = NoDict
    /\ target' = firstId'
    /\ pc' = "write"

\* Broken variant: the dictionary survives its segment.
CloseKeepsDictionary(id) ==
    /\ firstId' = NoId /\ hasSettings' = FALSE /\ aged' = FALSE
    /\ dict' = [flushed |-> dict.flushed \cup dict.window, window |-> {}]
    /\ target' = id
    /\ pc' = "write"

Close(id) ==
    /\ firstId' = NoId /\ hasSettings' = FALSE /\ aged' = FALSE
    /\ dict' = NoDict
    /\ target' = id
    /\ pc' = "write"

\* append returns Ok, with everything before it on disk.
Acknowledged ==
    /\ pc = "appending"
    /\ J!Acknowledge
    /\ Settle(view')
    /\ acked' = acked \cup {pending}

\* Broken variant: the row is retried after any close, not only after one that
\* made room for it.
AppendClosesRetrying ==
    /\ Acknowledged
    /\ Close(pending.id)
    /\ UNCHANGED <<rowVars, temp, segs, clock, left>>

\* The window brought the segment to its size, or its age has passed.
AppendCloses ==
    /\ Acknowledged
    /\ Close(pending.id)
    /\ row' = NoRow
    /\ UNCHANGED <<nextRow, temp, segs, clock, left>>

\* The segment stays open: the window's entries count as flushed, and its
\* settings as written.
AppendStays ==
    /\ Acknowledged
    /\ ~aged
    /\ firstId' = pending.id
    /\ dict' = [flushed |-> dict.flushed \cup dict.window, window |-> {}]
    /\ hasSettings' = (hasSettings \/ pending.settings)
    /\ row' = NoRow
    /\ pc' = "idle"
    /\ UNCHANGED <<aged, nextRow, publishVars, segs, clock, left>>

\* Broken variant: the segment counts as opened although its append failed.
AppendErrOpens ==
    /\ pc = "appending"
    /\ Fault("io")
    /\ firstId' = pending.id
    /\ J!Reject
    /\ Settle(view)
    /\ \/ pc' = "exit" /\ row' = NoRow
       \/ pc' = "idle" /\ row' = NoRow
       \/ pc' = "build" /\ UNCHANGED row
    /\ UNCHANGED <<dict, hasSettings, aged, nextRow, publishVars, segs, clock, acked>>

\* append returns Err and has undone its writes.  Fatal for a fresh segment and
\* for a PostgreSQL batch; otherwise the row is dropped, or read again by its
\* log source.
AppendErr ==
    /\ pc = "appending"
    /\ Fault("io")
    /\ J!Reject
    /\ Settle(view)
    /\ \/ pc' = "exit" /\ row' = NoRow
       \/ firstId # NoId /\ pc' = "idle" /\ row' = NoRow
       \/ firstId # NoId /\ pc' = "build" /\ UNCHANGED row
    /\ UNCHANGED <<segmentVars, nextRow, publishVars, segs, clock, acked>>

\* append could not undo its writes: stop_if_persistence_unhealthy.
AppendBroken ==
    /\ pc = "appending"
    /\ Fault("io")
    /\ J!Break
    /\ disk' = "undone"
    /\ pc' = "exit"
    /\ row' = NoRow
    /\ UNCHANGED <<shows, torn, segmentVars, nextRow, publishVars, segs, clock, acked>>

\* Full or TooManyParts with an open segment: it is closed; the row is kept to
\* be encoded again for the next one.
JournalFull ==
    /\ pc = "build"
    /\ firstId # NoId
    /\ Close(firstId)
    /\ UNCHANGED <<journalVars, fileVars, rowVars, temp, segs, clock, left, acked>>

\* Buffering, encoding or admission fails (PartTooLarge, InvalidPart, or Full in
\* an empty journal) after values were interned.  Fatal for a fresh segment and
\* for PostgreSQL and cgroup rows.
WindowFails ==
    /\ pc = "build"
    /\ dict' = Interned
    /\ row' = NoRow
    /\ \/ pc' = "exit"
       \/ firstId # NoId /\ pc' = "idle"
    /\ UNCHANGED <<journalVars, fileVars, firstId, hasSettings, aged, nextRow,
                   publishVars, segs, clock, left, acked>>

\* The age deadline of the open segment passes.
Expire ==
    /\ firstId # NoId
    /\ ~aged
    /\ aged' = TRUE
    /\ UNCHANGED <<journalVars, fileVars, firstId, dict, hasSettings, rowVars, publishVars,
                   pc, segs, clock, left, acked>>

\* The age valve of the run loop, or the close that ends a forced cycle.
Seal ==
    /\ pc = "idle"
    /\ firstId # NoId
    /\ Close(firstId)
    /\ UNCHANGED <<journalVars, fileVars, rowVars, temp, segs, clock, left, acked>>

-----------------------------------------------------------------------------
(* Publication: publish_journal, write_segment, ZmsTemp::publish. *)

\* The journal's windows are encoded into a temporary file, which is validated.
WriteTemp ==
    /\ pc = "write"
    /\ temp' = [windows |-> view, synced |-> FALSE, durable |-> FALSE]
    /\ pc' = "sync_temp"
    /\ UNCHANGED <<journalVars, fileVars, segmentVars, rowVars, target, segs, clock, left, acked>>

\* Its contents are synchronised, by write_tmp and once more by publish.
SyncTemp ==
    /\ pc = "sync_temp"
    /\ temp' = [temp EXCEPT !.synced = TRUE]
    /\ pc' = "link"
    /\ UNCHANGED <<journalVars, fileVars, segmentVars, rowVars, target, segs, clock, left, acked>>

\* Broken variant: a rename that replaces what is under the final name.
LinkReplaces ==
    /\ pc = "link"
    /\ segs' = [segs EXCEPT ![target] = temp]
    /\ pc' = "sync_day"
    /\ UNCHANGED <<journalVars, fileVars, segmentVars, rowVars, publishVars, clock, left, acked>>

\* The final name is added, unless it exists.
Link ==
    /\ pc = "link"
    /\ IF segs[target] = NoFile
       THEN segs' = [segs EXCEPT ![target] = temp] /\ pc' = "sync_day"
       ELSE UNCHANGED segs /\ pc' = "compare"
    /\ UNCHANGED <<journalVars, fileVars, segmentVars, rowVars, publishVars, clock, left, acked>>

\* Broken variant: the directory is not synchronised.
SyncDaySkipped ==
    /\ pc = "sync_day"
    /\ pc' = "unlink"
    /\ UNCHANGED <<journalVars, fileVars, segmentVars, rowVars, publishVars,
                   segs, clock, left, acked>>

\* The day directory is synchronised after the link.
SyncDay ==
    /\ pc = "sync_day"
    /\ segs' = [segs EXCEPT ![target].durable = TRUE]
    /\ pc' = "unlink"
    /\ UNCHANGED <<journalVars, fileVars, segmentVars, rowVars, publishVars, clock, left, acked>>

\* The temporary name is removed, and the directory synchronised again.
Unlink ==
    /\ pc = "unlink"
    /\ temp' = NoFile
    /\ pc' = "reset"
    /\ UNCHANGED <<journalVars, fileVars, segmentVars, rowVars, target, segs, clock, left, acked>>

\* Broken variant: an existing final name is always a conflict.
CompareRefuses ==
    /\ pc = "compare"
    /\ pc' = "exit"
    /\ UNCHANGED <<journalVars, fileVars, segmentVars, rowVars, publishVars,
                   segs, clock, left, acked>>

\* An existing final name is accepted only if it holds the same bytes.
Compare ==
    /\ pc = "compare"
    /\ pc' = IF segs[target].windows = temp.windows THEN "discard" ELSE "exit"
    /\ UNCHANGED <<journalVars, fileVars, segmentVars, rowVars, publishVars,
                   segs, clock, left, acked>>

\* Then the temporary name goes, and the directory is synchronised.
Discard ==
    /\ pc = "discard"
    /\ temp' = NoFile
    /\ segs' = [segs EXCEPT ![target].durable = TRUE]
    /\ pc' = "reset"
    /\ UNCHANGED <<journalVars, fileVars, segmentVars, rowVars, target, clock, left, acked>>

\* An I/O error anywhere in a publication is fatal; what is done stays done.
PublishFails ==
    /\ pc \in {"write", "sync_temp", "link", "sync_day", "unlink", "compare", "discard"}
    /\ Fault("io")
    /\ pc' = "exit"
    /\ UNCHANGED <<journalVars, fileVars, segmentVars, rowVars, publishVars, segs, clock, acked>>

\* Journal::reset, only after a publication returned Ok.
ResetBegin ==
    /\ pc = "reset"
    /\ J!BeginReset
    /\ Unsettle({view})
    /\ pc' = "resetting"
    /\ UNCHANGED <<segmentVars, rowVars, publishVars, segs, clock, left, acked>>

ResetCommit ==
    /\ pc = "resetting"
    /\ J!Commit
    /\ Settle({})
    /\ pc' = "finishing"
    /\ UNCHANGED <<segmentVars, rowVars, publishVars, segs, clock, left, acked>>

\* Broken variant: a reset that was undone is survived by the segment.
ResetFailsSurvived ==
    /\ pc \in {"resetting", "finishing"}
    /\ Fault("io")
    /\ \/ /\ J!RejectReset
          /\ Settle(view)
          /\ firstId' = target
          /\ pc' = "idle"
       \/ J!Break /\ pc' = "exit" /\ UNCHANGED <<fileVars, firstId>>
    /\ UNCHANGED <<dict, hasSettings, aged, rowVars, publishVars, segs, clock, acked>>

\* A failed reset is fatal, undone or not.
ResetFails ==
    /\ pc \in {"resetting", "finishing"}
    /\ Fault("io")
    /\ \/ J!RejectReset /\ Settle(view)
       \/ J!Break /\ UNCHANGED fileVars
    /\ pc' = "exit"
    /\ UNCHANGED <<segmentVars, rowVars, publishVars, segs, clock, acked>>

\* Broken variant: the settings are confirmed on the segment that replaced the
\* one they were written to.
ResetDoneConfirms ==
    /\ pc = "finishing"
    /\ J!FinishReset
    /\ hasSettings' = TRUE
    /\ target' = NoId
    /\ pc' = IF row = NoRow THEN "idle" ELSE "build"
    /\ UNCHANGED <<fileVars, firstId, dict, aged, rowVars, temp, segs, clock, left, acked>>

\* The journal is empty again; a row that did not fit is built again.
ResetDone ==
    /\ pc = "finishing"
    /\ J!FinishReset
    /\ target' = NoId
    /\ pc' = IF row = NoRow THEN "idle" ELSE "build"
    /\ UNCHANGED <<fileVars, segmentVars, rowVars, temp, segs, clock, left, acked>>

-----------------------------------------------------------------------------
(* Stops.  Exclusive ownership lets the next start remove the temporary files *)
(* of this one (remove_writer_temporaries).                                   *)

ForgetMemory ==
    /\ J!Stop
    /\ pc' = "down"
    /\ firstId' = NoId /\ hasSettings' = FALSE /\ aged' = FALSE /\ dict' = NoDict
    /\ row' = NoRow
    /\ target' = NoId /\ temp' = NoFile

\* The process ends by itself: the page cache survives.
Exit ==
    /\ pc = "exit"
    /\ ForgetMemory
    /\ UNCHANGED <<fileVars, nextRow, segs, clock, left, acked>>

\* The process is ended, by a signal or the OOM killer, during append perhaps
\* while it undoes its writes.
Kill ==
    /\ pc \notin {"down", "refused"}
    /\ Fault("kill")
    /\ ForgetMemory
    /\ disk' \in IF status = "append" THEN {disk, "undone"} ELSE {disk}
    /\ UNCHANGED <<shows, torn, nextRow, segs, clock, acked>>

\* A final name after a power loss: synchronised, or there or not, and then
\* with its windows if those were synchronised.
Survivors(file) ==
    LET found == [file EXCEPT !.windows = IF file.synced THEN @ ELSE {}, !.durable = TRUE]
    IN  IF file = NoFile THEN {NoFile}
        ELSE IF file.durable THEN {found} ELSE {NoFile, found}

\* Windows whose append was not acknowledged and that a power loss may still show.
Surfacing == IF disk = "undone" THEN doubt ELSE UNION shows

\* Power is lost: what was never synchronised may be gone.
PowerLoss ==
    /\ pc # "refused"
    /\ Fault("power")
    /\ ForgetMemory
    /\ IF disk = "none"
       THEN UNCHANGED fileVars
       ELSE /\ shows' = {found \in SUBSET (kept \cup Surfacing) : kept \subseteq found /\ OneId(found)}
            /\ torn' = TRUE
            /\ disk' = "none"
    /\ segs' \in {f \in [Ids -> UNION {Survivors(segs[i]) : i \in Ids}] :
                     \A i \in Ids : f[i] \in Survivors(segs[i])}
    /\ UNCHANGED <<nextRow, clock, acked>>

-----------------------------------------------------------------------------
Init ==
    /\ J!Init
    /\ shows = {{}} /\ torn = FALSE /\ disk = "none"
    /\ pc = "down"
    /\ row = NoRow /\ nextRow = 1
    /\ target = NoId /\ temp = NoFile
    /\ firstId = NoId /\ dict = NoDict /\ hasSettings = FALSE /\ aged = FALSE
    /\ segs = [i \in Ids |-> NoFile]
    /\ clock = 0
    /\ left = Budget
    /\ acked = {}

Startup == OpenJournal \/ OpenFinishesReset \/ OpenRefuses

Append ==
    \/ AppendBegin \/ AppendStays \/ AppendCloses
    \/ AppendErr \/ AppendBroken
    \/ JournalFull \/ WindowFails

Publish ==
    \/ WriteTemp \/ SyncTemp \/ Link \/ SyncDay \/ Unlink
    \/ Compare \/ Discard
    \/ ResetBegin \/ ResetCommit \/ ResetDone

Stops == Exit \/ Kill \/ PowerLoss

Next ==
    \/ Startup \/ Collect \/ Append \/ Expire \/ Seal
    \/ Publish \/ PublishFails \/ ResetFails
    \/ Stops

Spec == Init /\ [][Next]_vars

\* The run loop and a supervisor that restarts it (Restart=on-failure) keep
\* going; an expired segment is closed by the next tick.
Progress ==
    \/ Startup \/ Exit
    \/ AppendBegin \/ AppendStays \/ AppendCloses \/ JournalFull \/ WindowFails
    \/ aged /\ Seal
    \/ Publish

FairSpec == Spec /\ WF_vars(Progress) /\ WF_vars(Expire)

-----------------------------------------------------------------------------
(* Properties *)

Publishing == {"write", "sync_temp", "link", "sync_day", "unlink", "compare", "discard",
               "reset", "resetting", "finishing"}

\* Types; and whenever a segment is being published its identity is one that a
\* window was appended under (close_open_segment reads it before the segment
\* state is replaced).
TypeOK ==
    /\ status \in J!Statuses
    /\ view \subseteq Windows /\ kept \subseteq Windows /\ doubt \subseteq Windows
    /\ pending \in Windows \cup {NoWindow}
    /\ asked \in BOOLEAN
    /\ shows \subseteq SUBSET Windows
    /\ torn \in BOOLEAN /\ disk \in Differences
    /\ pc \in Publishing \cup {"down", "refused", "idle", "build", "appending", "exit"}
    /\ row \in Rows \cup {NoRow} /\ nextRow \in 1..MaxRow + 1
    /\ target \in Ids \cup {NoId}
    /\ pc \in Publishing => target \in Ids
    /\ temp \in Files
    /\ firstId \in Ids \cup {NoId}
    /\ dict \in [flushed : SUBSET Strings, window : SUBSET Strings]
    /\ hasSettings \in BOOLEAN /\ aged \in BOOLEAN
    /\ segs \in [Ids -> Files]
    /\ clock \in 0..MaxId
    /\ left \in [Faults -> Nat]
    /\ acked \subseteq Windows

Safe(w) == \E i \in Ids : w \in segs[i].windows /\ segs[i].synced /\ segs[i].durable

\* No acknowledged window is lost: it is in a segment whose contents and name
\* are on disk, or still in the journal with no reset under way that a restart
\* could complete (publish_journal before reset; sync, link, sync directory).
NoWindowLost == \A w \in acked : Safe(w) \/ (w \in kept /\ ~asked)

\* All windows that exist anywhere: in the journal or in a segment.
Stored == kept \cup UNION {segs[i].windows : i \in Ids}

\* A row is stored in one window only: the retry after a full journal, the
\* retry of a refused append and recovery never store it twice.
ExactlyOnce == \A v, w \in Stored : v.row = w.row => v = w

Complete(windows) ==
    /\ \E w \in windows : w.meta
    /\ \E w \in windows : w.settings
    /\ \A w \in windows : Uses[w.row] \subseteq UNION {d.defs : d \in windows}

\* Every segment can be read by itself: it has the instance metadata, the
\* settings, and a dictionary entry for every value its rows refer to.
SelfContained == \A i \in Ids : segs[i].windows # {} => Complete(segs[i].windows)

\* What the open segment believes to have written is in the journal: settings
\* that will not be repeated, dictionary entries that will not be stored again.
FlagsTruthful ==
    status = "ready" /\ pc \in {"idle", "build"} =>
        /\ hasSettings => \E w \in view : w.settings
        /\ dict.flushed \subseteq UNION {w.defs : w \in view}

\* The open segment and the journal agree: neither an identity without windows
\* nor windows that the segment state does not know, which every later append
\* would be refused for (SegmentIdMismatch).
SegmentMatchesJournal ==
    pc \in {"idle", "build", "appending"} =>
        IF firstId = NoId THEN view = {} ELSE view # {} /\ \A w \in view : w.id = firstId

\* A start finds under the final name what it wants to publish there, unless
\* the clock stepped back or power was lost: no crash or failed call makes the
\* collector refuse its own segment.
RecoveryFindsItsOwnSegment ==
    pc = "compare" /\ left["clock"] = Budget["clock"] /\ left["power"] = Budget["power"] =>
        segs[target].windows = temp.windows

\* docs/storage-recovery.md:55, "Valid nonempty journal: Save a ZMS with the
\* recorded segment ID, clear the journal": as long as identities are unique, a
\* recovered journal never conflicts with the segment under its name.
RecoveredJournalIsSaved ==
    pc = "compare" /\ left["clock"] = Budget["clock"] => segs[target].windows = temp.windows

\* A segment that is on disk is never replaced or changed, not even by a
\* segment that was given its identity.
PublishedNeverChanges ==
    [][\A i \in Ids : segs[i].windows # {} /\ segs[i].durable => segs'[i] = segs[i]]_vars

\* Every acknowledged window leaves the journal for a segment, however often
\* the process is killed or an I/O call fails, unless open refuses the file.
EventuallySealed == (kept # {}) ~> (kept = {} \/ pc = "refused")

=============================================================================
