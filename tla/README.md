# Kronika: models and proofs of collection, persistence and retention

Kronika collects PostgreSQL, PgBouncer and operating-system observations into windows, appends
each window to a journal (`active.wal`), turns the journal into immutable segments (`*.zms`) under
a calendar tree, rotates old segments, and serves them to a web program and offline tools. This
directory holds TLA+ models of the parts of it in which order, failure and restart decide whether
data survives, the TLC configurations that check them, and TLAPS proofs. Paths below are relative
to the repository root.

## Inventory

| Part | State | Operations | What makes it hard |
| --- | --- | --- | --- |
| Active journal, `crates/kronika-writer/src/journal*` | file (header, frames, reset marker); handle (end, parts, generation, identity, poisoned) | `open`, `append`, `reset`, `read_part` | crash between any two writes, failed writes and failed rollbacks, reset as a two-phase rewrite, stale part references |
| Segment writing and publication, `crates/kronika-writer/src/segment*`, `crates/kronika-layout/src/root/writer.rs` | temporary and final names in a day directory | `write_segment`, `ZmsTemp::publish`, `discard`, `remove_temporary` | crash between link, directory syncs and unlink; a ZMS that is already there |
| Collector lifecycle, `bins/kronika-collector/src/{collector,segments}*` | open segment (identity, dictionary, flags), journal, rotation | startup recovery, append with one retry, close by size, age or force, shutdown | crash between publication and reset; which failures are fatal; flags confirmed after the append that may have closed the segment |
| Buffers, interner, dictionaries, `crates/kronika-writer/src/{buffer,interner,dict}.rs` | window and flushed entries | `intern*`, `flush_window` | every part must be readable with the dictionaries of its own segment |
| Log tailing, `crates/kronika-source-log/src/{tail,offsets}.rs`, `bins/kronika-collector/src/log_sources*` | cursor, pending batch, saved offsets | `read_batch`, `acknowledge`, `retry`, `save` | truncation and replacement of the log, rejection, crash before the offset is saved |
| Rotation, `bins/kronika-collector/src/rotation*` | byte counters, pending reclaim, timers | `record_publication`, `maybe_enforce` | counters that drift, removal that stops half-way, files published by others |
| Index owner, `crates/kronika-layout/src/root/index.rs` | temporary and final IDX names | publish, garbage collection | races with the writer's rotation |
| Scheduler, `bins/kronika-collector/src/scheduler*` | last read per source | `plan`, `finish_postgres`, `recollection_due` | cooldowns across forced ticks and new segments |
| Store snapshot, `crates/kronika-store/src/local*` | pinned identity and length of the journal | snapshot, range reads | a writer that appends, rolls back, resets and refills during the read |
| Filesystem capacity helper, `bins/kronika-collector/src/filesystem_capacity.rs` | child process, deadline | collect, terminate, reap | late answers, a child that cannot be killed |
| PostgreSQL acquisition, OS sources, formats, registry, index, query, report, web, dump, demo | mostly none across calls | decoding, encoding, queries | out of scope or late candidates, see PROJECT.json |

How they interact: the collector is one thread. A tick plans sources, closes an expired segment,
streams PostgreSQL batches and cgroup portions into the journal, reads log batches and appends each
with the due OS sources, then lets rotation run. Only `append` and `reset` change the journal; only
a successful publication allows `reset`. The index owner and readers are other processes which
share nothing with the collector but the files.

## Modules

### Journal

`Journal.tla` models `active.wal` and the `Journal` handle at the grain of single I/O calls. One
action is one write, truncation or synchronisation of `journal.rs`, `journal/open.rs` or
`journal/reset.rs`; `pc` says which call is in progress and what it does next. Every one of them
may fail, leaving a part of what it was writing (`AppendFails`, `RollbackFails`, `MarkerFails`,
`FinishFails`, `OpenFails`), and the process may be killed or power lost between any two.

| State | Code |
| --- | --- |
| `hdr`, `body` | what a read of `active.wal` returns now: the decoded header; the frames, and the tail behind them (a piece of a frame, or a reset marker) |
| `diskHdrs`, `diskBodies` | the headers and bodies the disk may hold; a write adds the new one and its partial forms, `SyncFile` (`sync_data`) leaves one |
| `entry` | whether the name `active.wal` exists, and whether the root directory was synchronised since |
| `handle` | `Journal.end`, `parts`, `generation`, `segment_id`, `poisoned` |
| `cur`, `nextGen`, `config` | the append in progress, the generation counter, `JournalConfig` |
| `issued` | every `JournalPartRef` handed out by this process |
| `acked`, `owner`, `limbo`, `asked` | history: frames whose append returned Ok, the identity they were appended under, frames whose append was cut short, a reset asked for and not done |

Lengths are abstract units. Part contents are opaque, and checksums are taken to detect what they
cover: a torn header that is not a prefix of the empty one does not decode, an incomplete frame is
junk. Headers and body pages may reach the disk in any order; within the header, and within the
frame being written, an interrupted write leaves a prefix. `WriterOwner::set_aside_damaged_journal`
has no caller and is not modelled.

`JournalContract.tla` is what the journal promises its callers, with no file in it: append happens,
leaves nothing, or leaves a window in doubt until the next open; reset forgets everything at one
instant; a restart shows what was acknowledged. `JournalRefinement.tla` maps the I/O-level state to
it (`ImplementsContract`).

### SegmentStore

`SegmentStore.tla` is the collector above the journal contract: `append_window` and
`append_window_and_maybe_close`, `close_open_segment`, `publish_journal`, `write_segment`,
`ZmsTemp::publish` and `discard`, and `open_collector_journal` at a start. The journal's variables
are those of `JournalContract`, and each of its actions on the journal is an action of the contract
(`J!BeginAppend`, `J!Commit`, ...).

| State | Code |
| --- | --- |
| `pc` | the next step of the collector; the values from `write` to `finishing` are the steps of `publish_journal` |
| `firstId`, `dict`, `hasSettings`, `aged` | `SegmentState`: `first_id`, the interner (flushed values, window), `pg_settings_present`, the age deadline having passed |
| `row`, `nextRow` | the logical rows retained through a full journal, and those still to come |
| `target`, `temp` | the address being published and the `ZmsTemp` |
| `segs` | the final names: contents, whether synchronised, whether the directory entry is |
| `clock` | the latest identity given by the wall clock |
| `shows`, `torn`, `disk` | what the file of the journal adds to its contract: the windows it may show if the process stops now, whether an open may refuse it, and how the disk differs from the page cache |
| `left`, `acked` | fault budget, history of acknowledged windows |

`hasSettings` stands for the three things the code confirms after an append in the same way
(settings, user names, cgroup context). A row refers to some interned values; a window carries the
values that are new to its segment, the metadata if it is the first, the settings until one window
with them is in the journal. Settings are taken to be known when a segment opens. Writing the parts of a journal
into a ZMS is taken to be a function of the windows, so two encodings of the same journal are byte-identical, as
the comparison in `write_segment` presumes. The day directory is created and synchronised before
the link (`ensure_directory_at`) and is taken to exist.

The contract alone allows a restart after a kill to show any window in doubt. `shows` narrows that
to what a kill of a single call can leave, which is `StoppedCallIsAllOrNothing` of `Journal`.
After a power loss before the next synchronisation, only acknowledged windows are certain; others
may appear if they were in the page cache or if a rollback was not synchronised (`Surfacing`).

### LogTail

`LogTail.tla` follows one server log from its writer to the journal and to `log.offsets`:
`Tail::read_batch` and `scan`, `OpenRecord`, `collect_files`, `LogSources::collect`, `open` and
`rescan`. The log is written in cells, two for each line (its text and its newline), so that a read
can see half a line; it may be rotated under another name or the same one, truncated in place, or
lose its end in a power loss.

| State | Code |
| --- | --- |
| `log`, `half`, `at`, `current`, `written` | the files by identity, which name leads to which, the name the server writes to |
| `tail` | `Tail`: `position`, `scan_offset`, the partial line, the open record and its end, the staged line, the pending position |
| `batch`, `cycle` | the batch being read, and what the source has read of its budget in this cycle |
| `offsets`, `changed`, `saved`, `older` | `Offsets` in memory, in `log.offsets`, and what a power loss may bring back |
| `admitted`, `cut`, `replay` | history: the records admitted, in order (those without an event have no row in the journal), truncated files, whether something was lost that excuses a second reading |

`format` is `"quoted"` (csvlog: a record goes on while quotes are open) or `"tabbed"` (stderr: a
record goes on with lines that begin with a tab or the marker of a part). Which lines begin a record, leave a quote open
or give no event are constants. `NothingSkipped` exempts a truncated file: a log that is truncated and has grown past
the cursor again is read from the middle of its new content, since `tail.rs:209` notices truncation
only while the file is shorter (the comment at `tail.rs:25-26` speaks of copytruncate without that
condition). Left out: two sources that share a budget, a rejected batch of one source ending the
cycle of the others, and a path with white space, which `log.offsets` does not give back.

### Rotation

`Rotation.tla` is `Rotation::maybe_enforce` and `enforce`, with the removals of
`root/writer.rs` split where a stop can fall between the unlinks, beside the web process, which
builds and publishes missing indexes (`IdxTemp::publish`), readers that keep removed files open, and
other programs on the partition. `counter`, `pending` and `last` are `non_journal_bytes`,
`pending_reclaim` and `last_observed_used`; `current` and `todo` are the locals of a pass; `mode` is
the retention mode.

What the model showed of the code and the properties exempt:

- in automatic mode any drop of the partition's usage pays off what was unlinked, whoever caused it:
  the collector's own journal reset, other programs, or the ZMS of a pair whose second removal
  failed, which was never credited (`misread`);
- what a pass has counted may go away by itself (`shrunk`);
- the other way round, usage that rises between two readings hides the drop that would have paid
  off what was unlinked, so that rotation may sleep above its target in automatic mode. The code
  accepts it (`rotation.rs:217`); no property is about it, `ReturnsToTarget` being one of fixed mode;
- a leftover index temporary of a killed web process is counted and never removed: only ZMS
  temporaries are candidates (`rotation/files.rs:22`), while `bins/kronika-collector/README.md:58-59`
  says that leftover temporary files go first. A fixed budget then shrinks by its bytes for good.

An index without its segment is not counted in fixed mode, though its removal lowers `current`.
Updates of one directory are taken to reach the disk in order, an index temporary to have its full
size at once, and the unlinks of a failed removal to be durable. Only a missing index is built.

### CollectorLoop

`CollectorLoop.tla` is the run loop over time: `Scheduler`, `SegmentState`, `timer_sleep_delay`, and
the three passes of a tick, each of which may open, fill and close segments
(`append_window_and_maybe_close`, modelled once as `Write`).

| State | Code |
| --- | --- |
| `pc`, `wake`, `due`, `forced` | where the loop is, the sleep that is left, the `DueSources` of the tick |
| `age`, `blocked` | `ScheduledSource.last_read` as time since then, up to the interval; accelerated activity |
| `segment`, `clock` | `SegmentState`: open, time to the deadline, `pg_settings_present`; UTC modulo the period |
| `known`, `opened`, `appended`, `first`, `completed` | locals of `run`, `append_postgres` and `collect_os_and_logs` |
| `wal`, `unsaved`, `gap` | history: what the parts of the open segment hold, data of this tick in it, time since statements were read |
| `met`, `early` | history: the open segment has met the phase of the seed, a segment was closed by its age before it had |

Source groups are the kinds of `scheduler/sources.rs` as far as the properties tell them apart:
`topo` (mounts and topology), `cgroup`, other OS groups (`core`), `activity`, `instance`
(which reads settings), `statements`, `logs`. User names and cgroup context follow the pattern of
settings. Time passes while the loop sleeps and in PostgreSQL queries; UTC and the monotonic clock,
from which the code takes the phase and the time that has passed since, advance together, so a step
of the wall clock between them is not modelled here. A period of zero (`--segment-max-age-s 0`)
closes each segment at its first window. A full journal closes and
reopens in one step; the crash between those is in `SegmentStore`. Retention's timer can only wake
the loop earlier and is `TimerWakes`. `tick_secs = 0` and the probe for PSI are left out. A forced
tick in which a log batch is rejected does not save what it appended (`completed`), which
`ForcedDataSaved` exempts.

### ActiveReader

`ActiveReader.tla` is a reader in another process: `DataRoot::scan` and `list_segments` over journal
and tree, a page pinned at a position, and `read_part_range` with its validation before and after the
read. Every single read (length, header, marker, a frame's header, a cell of its body) is a step, and
so is every write of the collector: append and its rollback, publication, and reset with its marker.
Synchronisation is left out, for it is invisible to readers.

A listing in the middle of an append degrades to a warning with an empty active segment. A part whose
append failed after its header was written is visible until it is rolled back and may be replaced
under the same identity; such windows (`undone`) are exempt from `ReadsCapturedPart`, though
not the parts behind them, and the checksum of each section is what protects their readers. Left out: torn header writes (a reader
fails), damaged finished files, rotation during a listing (the request fails), ranges and
predecessors, resource limits, and `read_active_part`, `scan_from` and `scan_journal_from`, which only
tests call. A clock that gives the same identity twice is excluded here; see `SegmentStore`.

## Runs

| Run | Question | Result |
| --- | --- | --- |
| `journal` | Does the file keep what append acknowledged and stay openable, through every failed step, kill and power loss? | nine safety invariants and the type invariant hold |
| `journal_contract` | Is every I/O step a step of the contract or invisible to callers? | holds |
| `journal_lowered_cap` | Has a journal that opens always room for the reset marker? | no: after `journal_max_bytes` is lowered a journal within 32 bytes of the cap opens, is published, and can never be reset |
| `journal_finish_reset` | Does every crash while open finishes a reset leave a file that opens? | no: open does not synchronise the marker before it overwrites the header |
| `segment_store` | Does every acknowledged window end in exactly one immutable, self-contained segment? | holds |
| `segment_store_fair` | Does it get there, once faults stop? | holds, unless open refuses the file |
| `recovered_conflict` | Does a recovered journal always agree with the segment under its name, if identities are unique? | no: a start can publish a window that is only in the page cache; after a power loss every start ends in `ExistingSegmentMismatch` |
| `log_tail` | Through batches, rejections, failed saves, rotations, kills and power losses: is nothing skipped, doubled or split, and is everything recorded at last? | holds |
| `rotation` | Is what is kept the newest history without a gap, is nothing removed without need, and does a fixed budget hold again? | holds |
| `collector_loop` | Are statements spaced, is every group read, does every segment get its settings and topology, is a forced tick saved? | holds |
| `collector_topology` | Does the next OS window of a new segment carry mounts and topology, as `scheduler.rs:171-172` says? | no: a cgroup portion may open the segment after the groups of the tick were planned; topology follows one tick later |
| `active_reader` | Is a listing complete and without duplicates, and is a part that is read the one that was listed? | holds |

In the first three violation runs no acknowledged window is lost; the collector stops and an operator has
to act. In the fourth a segment that closes before the next tick has no topology of its own.

What the properties of the passing runs say:

- `NoAcknowledgedFrameLost`, `AcknowledgedBytesStayOnDisk`, `AcknowledgedFileHasDurableEntry`: in
  every image a power loss may leave, an accepted file has every acknowledged frame and none of a
  rolled-back append, a refused file still has the bytes, and the name is durable first.
- `HandleMatchesFile`, `StoppedCallIsAllOrNothing`, `AcceptedRefReadsItsPart`: the handle, the file
  and the part references issued before resets describe the same parts; a call cut short shows the
  journal before it or after it.
- `QuietCrashReopens`, `ResetSurvivesCrash`, `ResetAlwaysHasRoom`: crashes outside an append, and
  inside the second half of a reset, leave a file that opens; what was published can be cleared.
- `NoWindowLost`, `ExactlyOnce`: an acknowledged window is in a segment that is on disk, contents
  and name, or in a journal that no pending reset may clear; no row is stored twice by the retry
  after a full journal, the retry of a refused append, or recovery.
- `SelfContained`, `FlagsTruthful`, `SegmentMatchesJournal`: every segment has metadata, settings
  and all dictionary entries of its rows; the in-memory segment never claims more than the journal
  holds, and never carries another identity.
- `RecoveryFindsItsOwnSegment`, `PublishedNeverChanges`: recovery meets only its own segment unless
  power was lost or the clock stepped back, and no segment on disk changes even then.
- `EventuallySealed`: acknowledged windows leave the journal.
- `NothingSkipped`, `RecordedOnceInOrder`, `RecordsAreWhole`, `EventuallyRecorded`: no position a
  start or a later read can resume from lies behind a line that is not accounted for; rows come in
  file order and twice only if a stop lost an acknowledgement; a record is never split; and a
  complete record gets its row although nothing follows it.
- `NewestHistoryKept`, `LiveSegmentKeepsIndex`, `NoNeedlessRemoval`, `ReturnsToTarget`: retention
  removes from the old end only, through failures and stops within a pair, never by a stale
  counter, and comes back to a fixed target with the hourly recount.
- `SettingsNotedAsWritten`, `TopologyOwed`, `ForcedDataSaved`: what the loop believes the open
  segment to hold is what its parts hold, whichever pass opened it and whatever closed the one
  before; `NextOsWindowHasTopology` is the stronger claim that fails.
- `StatementsSpaced`, `EverySourceIsRead`, `DeadlineAtPhase`, `ExpiredSegmentsClose`: intervals
  survive forced ticks and slow passes without starving a group; the age of a segment ends when the
  clock first comes to the phase of the seed after the first window, not earlier, in particular not at
  that window although the clock is at the phase then, and not later, and it is closed then.
- `ListingIsExact`, `ReadsCapturedPart`: a listing misses or doubles no acknowledged window without
  a warning, and a validated read returns the bytes that were listed, with a writer anywhere between
  the reads.

### Bounds

`Journal`: header, frame header and marker of one unit; three parts, of one, one and two units, so
that offsets of a short and a long frame coincide; two identities; a cap of six units and two parts
(two short frames or a long one, and the marker, reach the boundary exactly); two resets
(`MaxGeneration`), so that a reference can outlive one journal and meet the next; at most two
appends cut short without a synchronisation between them (`FewCutShort`). Identities and the two
short parts are interchangeable. Failures, kills and power losses are not bounded.

`SegmentStore`: three rows and three identities, which allow a segment of two windows followed by
another, a repeat of a dictionary value inside a segment and across segments, and an identity given
twice; at most two kills, two power losses, two failed calls and one step back of the clock, enough
for a failure, a failed recovery and a second recovery.

`LogTail`: three lines, of which the second continues the first, in up to two files under two
names; a batch of three cells and one record, so that a record is cut by either limit, a source limit
of two batches; two faults. `Rotation`: three segments of two bytes, indexes of
one, a target of four, which holds two segments or one with its index and a temporary; two faults
with a fixed budget and one in automatic mode. `CollectorLoop`: a tick of two units,
intervals of two and three, a cooldown of statements longer than their interval, a period of three
that starts at any of its instants, and one end of the process;
`core` is left out of the instance, for nothing distinguishes it from `logs` there.
`ActiveReader`: four windows in two segments of at most two parts of one or two cells, which allow
a part to be replaced by one of the same length, and one failed append.

### Fairness

`log_tail` assumes that the collector goes on and is started again (`WF_vars(Collector)`) and that
the server ends a line it has begun, but not that it writes another. `rotation` assumes that time
passes, passes go on and the collector is started again. `collector_loop` assumes
`SF_vars(Wait)`, since time does not stop for forced ticks that come again and again,
`WF_vars(TimerWakes)` and `WF_vars(Phases)`: each pass of a tick ends, the queries being under a
timeout.

In `segment_store_fair`, `WF_vars(Progress)` is the run loop, which has no
branch that waits for anything but a timer or a call, and the supervisor of `docs/services.md`
(`Restart=on-failure`); `WF_vars(Expire)` is the passing of time, with `--interval-s` not zero,
because without the timer the age of a segment is looked at only after a signal. Nothing is assumed
of faults beyond their number. Power losses and clock steps are excluded there: `recovered_conflict`
shows what the first can do, and after the second a start can meet another segment's name for ever.
`CHECK_DEADLOCK FALSE` in the `SegmentStore` runs: a refused journal stops the collector for good,
and the rows of an instance run out.

## Proofs

`JournalProofs.tla` proves for every set of parts and identities, all lengths, configs and bounds:

- `TypeCorrect`: `Spec => []TypeOK`. Lengths are natural numbers, so no subtraction of offsets goes
  below zero.
- `AcknowledgedFramesSurvive`, `AcknowledgedBytesPreserved`, `DirectoryEntryFirst`: the invariants
  of the same subject above.
- `Invariance`: the inductive invariant they follow from.

None of the three invariants is inductive, since each speaks of what the disk may hold and a step
may only bring to the disk what an earlier one wrote. `IInv` conjoins

- `TypeOK`;
- `DiskInv`: what is read is among what the disk may hold; each header on disk is sound by itself
  (`SoundHeader`) and each body is (`SoundBody`): it holds every acknowledged frame, its frames were
  acknowledged or cut short, and a marker in it belongs to a reset that was asked for or leaves
  nothing acknowledged;
- `EntryInv`: nothing is acknowledged, and no handle exists, before the entry is durable;
- `OpenInv`, `ResetInv`, `AppendInv`: at each step of a call, what it has already established (for
  instance that the new frame is complete and last in the file when a later append writes its
  header, and that nothing is acknowledged once a reset truncates);
- `HandleInv`: a usable handle ends behind every acknowledged frame, and at the end of the valid
  region between operations, so that neither the next frame nor a truncation touches one.

Lemmas first say what tearing, truncating and appending do to headers and bodies; then there is one lemma per action,
and `Invariance` combines them. The assumptions are `LengthsAssumption`, `PartsAssumption`, `IdsAssumption` and
`ConfigsAssumption`: lengths are positive naturals, `NoId` is no identity, and every config caps
the file at no less than a header and admits at least one part.

`JournalHandleProofs.tla` goes on from there with what the process believes of the file:

- `HandleAgreesWithFile`, `CallsAreAllOrNothing`, `QuietCrashesReopen`, `CommittedResetsReopen`,
  `AcceptedReferencesReadTheirPart`: `HandleMatchesFile`, `StoppedCallIsAllOrNothing`,
  `QuietCrashReopens`, `ResetSurvivesCrash` and `AcceptedRefReadsItsPart`.
- `RoomForReset`: `ResetAlwaysHasRoom`, if all configs have the same size cap (`SameCap`). The run
  `journal_lowered_cap` shows that without this hypothesis it is false.
- `HandleInvariance`: the inductive invariant they follow from, relative to `IInv`.

`IInv` knows that a handle ends behind what was acknowledged, not that it lists exactly the frames in
front of its end, nor how the file stands to the limits. `HInv` adds that no two frames of any
image share an offset (`MediumInv`); that the handle's parts are the spans of the frames it knows, within
`max_journal_bytes` and `max_parts` (`KnownInv`), and the header is the one it stands for
(`HeaderInv`); that an admitted append leaves room for a marker (`AdmittedInv`); that between calls the
disk holds nothing but what is read (`QuietInv`); what the second phase of a reset may leave
(`FinishInv`), what a handle that failed for good may (`LeftInv`); and that references of the current
generation name frames the handle knows (`RefInv`).

`JournalRefinementProofs.tla` proves `JournalImplementsContract`: `Spec => C!Spec`, with the map of
`JournalRefinement`. Each I/O step is matched with an action of the contract or with stuttering; `View`
says what a caller sees at each `pc`. With it, what is proved of `SegmentStore`, which knows only
the contract, rests on the I/O-level journal.

`SegmentStoreProofs.tla` proves for any number of rows, identities, values and faults:

- `TypeCorrect`: `Spec => []TypeOK`.
- `RowsAreStoredOnce`, `SegmentsAreSelfContained`, `OwnSegmentIsRecognised`: `ExactlyOnce`,
  `SelfContained` and `RecoveryFindsItsOwnSegment`.
- `WindowsSurvive`, `SegmentAgreesWithJournal`, `OpenSegmentIsTruthful`, `PublishedIsImmutable`:
  `NoWindowLost`, `SegmentMatchesJournal`, `FlagsTruthful` and `PublishedNeverChanges`.

`NoWindowLost` is not inductive: whether a reset may begin depends on what the publication before it
has done. `IInv` adds that a usable journal shows every acknowledged window (`JournalInv`), that a
window in flight fits the open segment and the interner (`AppendInv`, `FlagsInv`), that nothing is
published with an open segment (`ClosedInv`), that no file gets a final name before it is
synchronised (`NamesInv`), and, step by step, that a temporary file and then the segment hold exactly
what the journal shows (`PublishInv`): so `ResetBegin` finds every kept window in a segment whose
contents and name are synchronised. What a step may do to a directory and to the kept windows is
summarised once each (`SegsStep`, `KeptStep`); the theorems about loss and immutability follow from
those summaries.

Whether a row is stored twice depends on windows that no one acknowledged and a restart may find. The
second invariant, `SInv`, therefore speaks of every window there is (`Live`): rows are handed
out once, and the row in hand is in no window but the one in flight (`RowsInv`); a window in doubt is
readable on top of those acknowledged, or alone (`ContentsInv`, `StandsOn`); what the file may show
has one identity, and is exactly the handle's view outside an append (`ShowsInv`); and while
no power was lost and the clock did not step back, the name of a journal's identity is free until the
journal itself is published under it (`OwnInv`).

The journal enters only through `JournalContract`. The assumptions are
`SizesAssumption`, `UsesAssumption` and `BudgetAssumption`, which only type the constants.

`CollectorLoopProofs.tla` proves for all intervals, ticks, periods and seeds:

- `SettingsAreNotedAsWritten`, `TopologyIsOwed`, `ForcedDataIsSaved`: from `LoopInv`, which says
  at each pass who still owes what: `Owed` that an open segment has topology, or had it given up, or
  the scheduler's mark is unread, or this tick's OS window is still to come with it; `OpenedHasTopology` what
  `opening_os_collected` means after the PostgreSQL pass; `UnsavedIsOpen` and `Rested` what a tick
  leaves behind. `WriteLemma` summarises `append_window_and_maybe_close` once for its four callers.
- `StatementsAreSpaced`: from `Spaced`, that the scheduler never takes statements to be older than
  they are, except while the pass they are due in has not ended.
- `DeadlinesAreAtPhase`: from `Timed`, that clock and remaining time add up to the phase of this
  period or the next until the phase is met, and that none remains then; `FreshEndsAtPhase` says that
  a delay is a whole period at the phase and never zero, but for a period of zero, which is not
  assumed away. The modulo arithmetic is in three lemmas.
- `TypesAreKept`: `TypeOK`, that is, that the loop never sleeps longer than a tick nor for a negative
  time. From `Spans`, with the least of the remaining times by the well-foundedness of `Nat`.

The assumptions are `TimesAssumption` and `IntervalAssumption`, which type the constants and say that
a tick is not zero and topology is enabled with any OS group.

`RotationProofs.tla` proves for any number of segments, all sizes, targets, modes and faults:

- `TypesAreKept`, `TheNewestIsKept`, `LiveIndexesStay`, `RemovalsAreNeeded`: `TypeOK`,
  `NewestHistoryKept`, `LiveSegmentKeepsIndex` and `NoNeedlessRemoval`.

The invariant has two halves. `TreeInv` says of a pass that its candidates agree with the tree
(`InOrder`): no orphan has its segment in place, and each segment is the oldest that is left and not
the newest. That a scan lists them so rests on `AscendingLemma` (the ranks of a finite set are a
bijection onto an interval) and `ScanLemma`; that a removal leaves them so, on `TailInOrder` and
`TailInOrderWithout`. `Accounted` relates the counters to what is stored: in automatic mode, what
readers hold and what the use can drop by are pending or belong to the pair being removed
(`ReclaimKnown`), so `ReconciledLemma` bounds what a reading of the partition is taken for; and a
pass never counts more than is stored (`PassCounts`), where the index of the pair counts as long as
it is there. Sizes enter as products with cardinalities, of which `OneMore` says what one file
changes. The assumptions are `SizesAssumption` and `ModesAssumption`; the exemptions `shrunk` and
`misread` of the property are used as they stand. `ReturnsToTarget` is liveness and stays with TLC.

`LogTailProofs.tla` proves for any number of lines, files, names and faults, all limits of a batch
and both formats:

- `TypeCorrect`, `NoLineSkipped`: `TypeOK` and `NothingSkipped`, from the inductive invariant `IInv`
  (`Invariance`).
- `RecordedOnce`, `AdmittedWhole`: `RecordedOnceInOrder` and `RecordsAreWhole`, from `IInv` and a second
  invariant `SInv` (`OrderInvariance`).

`NothingSkipped` speaks of positions that may be resumed from; between an acknowledgement and the next,
a tail has read further. `IInv` says where: the records of the batch, the open record, a staged line and
a partial one follow each other from the tail's position to its scan offset without a gap
(`Framed`, `Shape`), and if the file lost no bytes they are its lines (`Faithful`, `Content`). So
the end that an acknowledgement makes the next position is behind admitted lines only (`PointsInv`), and a
rejection, which returns to the position, loses nothing. `SInv` adds that files and names are used
in order (`LinesInv`), that batches and admitted records are whole (`Sound`, `WholeInv`), that
names are followed in their order (`FollowInv`), and that whatever is read next is ahead of all that
was admitted, unless something was lost that excuses a second reading (`OrderInv`). Each step of a
read (`read_batch` opens, scans a line, ends a record, fills a batch) is a lemma about rigid tails and
batches, which the lemmas about actions instantiate. Of `ServerAssumption`, that the
first line opens a record and that a CSV record ends where its quotes balance, is what `SInv` needs to
know of the server.

`ActiveReaderProofs.tla` proves for any number of windows, segments, parts and failures, and parts of
any length:

- `ListingsAreExact`, `CapturedPartsAreRead`: `ListingIsExact` and `ReadsCapturedPart`.
- `WriterInvariance`, `ReaderInvariance`: the two halves of the invariant they follow from.

A reader compares nothing but lengths and the identity in the header, and each at another moment, so
the proof turns on what an identity read now says of reads made before. `WInv` is the collector's half:
which segment `active.wal` holds (`Gen`) at every step of an append, a rollback and a reset; that
identities are taken in their order, so a segment that has left the file (`Dead`) never comes back;
what lies in front of the handle's end and behind it (`CellsInv`). `RInv` says of a part that was read
that it is in place, was rolled back, or went with its segment (`Kept`, which no step of the collector
ends); that a scan is exact or its segment is dead (`ExactInv`), and likewise the cells of a part
(`PartInv`), so that a header with the identity of the scan, read afterwards, settles it; that a scan
neither jumps over a part an earlier page had nor begins inside one (`ScanFrameLemma`), for which the parts of
a scan cover it without a gap (`LayoutInv`); and that a window which is not yet in a finished segment is in
what is read of the journal (`CompleteInv`), so that one of the two scans of a listing finds it. The
assumptions are `BoundsAssumption` and `PartsAssumption`.

Only model-checked: liveness (`EventuallySealed`, `EventuallyRecorded`, `ReturnsToTarget`, `EverySourceIsRead`,
`ExpiredSegmentsClose`), which rests on fairness and `ENABLED`. The properties of the four violation
runs are false, so there is nothing to prove of them.

## Not modelled

Most of the repository is computation without state across calls, and stays out: the parsers of
`/proc`, of PostgreSQL rows and of log lines, the container formats and registry, the derive
macros, building an index, the query engine (`crates/kronika-query`, by far the largest part: pure
functions of immutable segments, whose cursors are encoded in the request), slice and report, and the
presentation in web, dump and demo. Their correctness is a matter of values, where a model would be
a second implementation. The filesystem capacity helper and the PostgreSQL pool do have state; they
are small and share nothing with the persisted data, and are listed in PROJECT.json.

Within the modelled parts: the contents of parts, dictionary placements (strings, blobs, hot
values), the validation of a generated segment, an I/O error of `Journal::open` that changes
nothing, removal of finished segments, and failure to remove a stale temporary file, whose name is
never reused.

## Plan

1. `Journal`: every step of the journal file, its invariants, its contract. (done, with proofs)
2. `SegmentStore`: the collector's use of the journal contract, publication of segments, startup
   recovery. (done, with proofs)
3. `LogTail`: tail, admission, offsets and a log that is appended, truncated and replaced. (done,
   with proofs)
4. `Rotation` with the index owner. (done, with proofs)
5. `CollectorLoop`: scheduler, age deadline and the passes of a tick. (done, with proofs)
6. `ActiveReader`: a reader between the steps of the writer. (done, with proofs)
7. Proofs of the journal handle and its contract, and of `ExactlyOnce` and `SelfContained` of
   `SegmentStore`. (done)
8. The filesystem capacity helper and the PostgreSQL pool.
