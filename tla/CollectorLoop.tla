--------------------------- MODULE CollectorLoop ---------------------------
(***************************************************************************)
(* The collector's loop: the scheduler picks the source groups that are    *)
(* due, the tick writes their windows in three passes (cgroup portions,    *)
(* PostgreSQL batches, OS and log windows), and a segment is closed by its *)
(* age, by its size, by a full journal or by a forced tick anywhere among  *)
(* them.                                                                   *)
(* bins/kronika-collector/src/{collector,scheduler,segments}* and          *)
(* cgroup_discovery.rs.                                                    *)
(***************************************************************************)
EXTENDS Integers

CONSTANTS
    Tick,         \* --interval-s
    Interval,     \* of each enabled source group
    Blocked,      \* the activity interval while sessions are blocked
    Cooldown,     \* MIN_PG_STATEMENTS_INTERVAL_SECS
    Period,       \* segment_max_age; zero closes a segment at its first window
    Seed,         \* the seal seed
    MaxKills      \* bound: ends of the process

Enabled == DOMAIN Interval
OsGroups == {"topo", "cgroup", "core"}
PgGroups == {"activity", "instance", "statements"}
Groups == OsGroups \cup PgGroups \cup {"logs"}
Unread == -1

ASSUME TimesAssumption ==
    /\ Tick \in Nat \ {0} /\ Blocked \in Nat /\ Cooldown \in Nat /\ Period \in Nat /\ Seed \in Nat
    /\ MaxKills \in Nat
ASSUME IntervalAssumption ==
    /\ Enabled \subseteq Groups
    /\ \A s \in Enabled : Interval[s] \in Nat
    /\ "topo" \in Enabled <=> \E s \in OsGroups : s \in Enabled

VARIABLES
    pc,         \* what the loop does
    wake,       \* time that is left to sleep
    age,        \* time since each group was last read, up to its interval
    blocked,    \* activity is accelerated
    due,        \* the groups due in this tick
    forced,     \* the tick was requested by SIGUSR2
    segment,    \* SegmentState: is it open, when does it expire, are settings noted
    wal,        \* what the parts of the open segment hold
    known,      \* the settings of this server generation are known
    opened,     \* opening_os_collected
    appended,   \* a window of this tick was appended
    first,      \* no window has carried this tick's OS groups
    completed,  \* no log batch was rejected
    clock,      \* UTC, modulo the period
    met,        \* history: since its first window the segment has met the phase of the seed
    early,      \* history: a segment was closed by its age before it had
    gap,        \* history: time since statements were read, up to their interval
    unsaved,    \* history: the open segment holds data of this tick
    kills       \* ends of the process so far

timeVars == <<age, clock, gap, wake>>
segmentVars == <<segment, wal, unsaved, met, early>>
tickVars == <<forced, opened, appended, first, completed>>
vars == <<pc, timeVars, blocked, due, segmentVars, known, tickVars, kills>>

MinOf(a, b) == IF a < b THEN a ELSE b
MaxOf(a, b) == IF a < b THEN b ELSE a
LeastOf(set) == CHOOSE x \in set : \A y \in set : x <= y

-----------------------------------------------------------------------------
(* Segments. *)

\* UTC modulo the period; a period of zero has one instant.
Cycle == IF Period = 0 THEN 1 ELSE Period

\* Broken variant: nothing is left when the clock is at the phase.
UntilPhaseOrNow(utc) ==
    LET phase == Seed % Period
        position == utc % Period
    IN IF Period = 0 THEN 0
       ELSE IF position <= phase THEN phase - position ELSE Period - (position - phase)

\* until_next_phase: a whole period when the clock is at the phase.
UntilNextPhase(utc) ==
    LET phase == Seed % Period
        position == utc % Period
    IN IF Period = 0 THEN 0
       ELSE IF position < phase THEN phase - position ELSE Period - (position - phase)

Closed == [open |-> FALSE, left |-> 0, settings |-> FALSE]

\* The state of a segment whose first part has just been appended.
Fresh == [open |-> TRUE, left |-> UntilNextPhase(clock), settings |-> FALSE]

AgeExpired == segment.open /\ segment.left = 0

\* Broken variant: a close is not told to the scheduler.
NotMarked(ages) == ages

\* mark_segment_opened: mounts and topology are unread again.
MarkOpened(ages) == [s \in DOMAIN ages |-> IF s = "topo" THEN Unread ELSE ages[s]]

\* Broken variant: the settings stay noted.
CloseKeepsNotes ==
    segment' = [Closed EXCEPT !.settings = segment.settings] /\ wal' = {} /\ unsaved' = FALSE
    /\ met' = FALSE

\* close_open_segment publishes the segment.
Close == segment' = Closed /\ wal' = {} /\ unsaved' = FALSE /\ met' = FALSE

\* Its age is the reason, of a segment that has met the phase or not.
ClosedByAge(hasMet) == early' = (early \/ ~hasMet)

-----------------------------------------------------------------------------
(* Scheduler. *)

\* Scheduler::new holds statements apart; finish_postgres accelerates activity.
IntervalOf(s, fast) ==
    CASE s = "statements" -> MaxOf(Interval[s], Cooldown)
      [] s = "activity" /\ fast -> MinOf(Interval[s], Blocked)
      [] OTHER -> Interval[s]

\* plan: a forced tick bypasses every interval but that of statements.
Planned(force) ==
    {s \in Enabled : \/ force /\ s # "statements"
                     \/ age[s] = Unread
                     \/ age[s] >= IntervalOf(s, blocked)}

\* Broken variant: groups that are not read are marked, too.
MarkedAll(set) == [s \in Enabled |-> 0]

\* What plan leaves of the ages.
Marked(set) == [s \in Enabled |-> IF s \in set THEN 0 ELSE age[s]]

\* recollection_due: what is read again starts its interval, but for statements.
Recollected(ages, again) ==
    [s \in Enabled |-> IF s \in again \ {"statements"} THEN 0 ELSE ages[s]]

\* Broken variant: an interval that has passed is subtracted without a floor.
SleepDelayUnfloored(ages, fast, seg) ==
    LET ends == {s \in Enabled : ages[s] # Unread /\ IntervalOf(s, fast) # 0}
    IN LeastOf({Tick} \cup {IntervalOf(s, fast) - ages[s] : s \in ends}
               \cup (IF seg.open THEN {seg.left} ELSE {}))

\* timer_sleep_delay: the tick, the next interval that ends, the segment's age.
SleepDelay(ages, fast, seg) ==
    LET ends == {s \in Enabled : ages[s] # Unread /\ IntervalOf(s, fast) # 0}
        left(s) == IF ages[s] >= IntervalOf(s, fast) THEN 0 ELSE IntervalOf(s, fast) - ages[s]
    IN LeastOf({Tick} \cup {left(s) : s \in ends} \cup (IF seg.open THEN {seg.left} ELSE {}))

Sleep == pc' = "sleep" /\ wake' = SleepDelay(age', blocked', segment') /\ due' = {}
         /\ forced' = FALSE /\ opened' = FALSE /\ appended' = FALSE /\ first' = TRUE
         /\ completed' = TRUE

-----------------------------------------------------------------------------
(* Time. *)

\* One unit of time.  Statements are queried until the end of the pass they are
\* due in.
TimePasses ==
    /\ age' = [s \in Enabled |-> IF age[s] = Unread THEN Unread ELSE MinOf(age[s] + 1, IntervalOf(s, FALSE))]
    /\ segment' = [segment EXCEPT !.left = IF @ > 0 THEN @ - 1 ELSE 0]
    /\ clock' = (clock + 1) % Cycle
    /\ met' = (met \/ (segment.open /\ clock' = Seed % Cycle))
    /\ gap' = IF gap = Unread \/ (pc = "postgres" /\ "statements" \in due) THEN gap
              ELSE MinOf(gap + 1, IntervalOf("statements", FALSE))

Wait ==
    /\ pc = "sleep"
    /\ wake > 0
    /\ wake' = wake - 1
    /\ TimePasses
    /\ UNCHANGED <<pc, blocked, due, wal, unsaved, early, known, tickVars, kills>>

\* A query of the PostgreSQL pass takes its time.
Query ==
    /\ pc = "postgres"
    /\ due \cap PgGroups # {}
    /\ TimePasses
    /\ UNCHANGED <<pc, wake, blocked, due, wal, unsaved, early, known, tickVars, kills>>

-----------------------------------------------------------------------------
(* The start of a tick. *)

\* Broken variant: only appends close an expired segment.
StartTickNoValve(force) ==
    /\ pc = "sleep"
    /\ blocked' = blocked
    /\ age' = Marked(Planned(force))
    /\ gap' = IF "statements" \in Planned(force) THEN 0 ELSE gap
    /\ unsaved' = FALSE
    /\ UNCHANGED <<segment, met, early>>
    /\ IF Planned(force) = {} THEN Sleep
       ELSE /\ pc' = "cgroup" /\ due' = Planned(force) /\ forced' = force
            /\ wake' = 0
            /\ UNCHANGED <<opened, appended, first, completed>>
    /\ UNCHANGED <<wal, known, clock, kills>>

\* plan, then the age valve, which closes an expired segment whatever is due.
StartTick(force) ==
    /\ pc = "sleep"
    /\ blocked' = blocked
    /\ age' = IF AgeExpired THEN MarkOpened(Marked(Planned(force))) ELSE Marked(Planned(force))
    /\ gap' = IF "statements" \in Planned(force) THEN 0 ELSE gap
    /\ IF AgeExpired THEN Close /\ ClosedByAge(met)
       ELSE UNCHANGED <<segment, wal, met, early>> /\ unsaved' = FALSE
    /\ IF Planned(force) = {} THEN Sleep
       ELSE /\ pc' = "cgroup" /\ due' = Planned(force) /\ forced' = force
            /\ wake' = 0
            /\ UNCHANGED <<opened, appended, first, completed>>
    /\ UNCHANGED <<known, clock, kills>>

\* The timer, or earlier the timer of retention.
TimerWakes == StartTick(FALSE)

SignalWakes == StartTick(TRUE)

-----------------------------------------------------------------------------
(* Appends. *)

\* The settings that accompany a window until the segment has noted them.
OpeningSettings(fresh) ==
    IF known /\ (fresh \/ ~segment.settings) THEN {"settings"} ELSE {}

\* What a window of these groups holds.
RowsOf(groups) ==
    (IF groups \cap OsGroups # {} THEN {"os"} ELSE {}) \cup (groups \cap {"topo"})

\* append_window_and_maybe_close, and its callers' retry: a window with these
\* rows is written to the open segment, or to a fresh one, where it brings rows
\* of the groups in again as well; a full journal closes the segment first.
\* The segment that took the window is closed when it is too large, or too old;
\* what the window held is noted only if the segment is still open.
Write(full, large, rows, again) ==
    LET fresh == ~segment.open \/ full
        target == IF fresh THEN Fresh ELSE segment
        held == rows \cup OpeningSettings(fresh)
                \cup (IF fresh THEN RowsOf(again \cap Enabled) ELSE {})
        before == IF full THEN MarkOpened(age) ELSE age
        read == IF fresh THEN Recollected(before, again) ELSE before
        hasMet == IF fresh THEN Period = 0 ELSE met
    IN /\ full => segment.open
       /\ IF large \/ target.left = 0
          THEN /\ Close
               /\ age' = MarkOpened(read)
               /\ IF large THEN UNCHANGED early ELSE ClosedByAge(hasMet)
          ELSE /\ segment' = [target EXCEPT !.settings = @ \/ "settings" \in held]
               /\ wal' = (IF fresh THEN {} ELSE wal) \cup held
               /\ unsaved' = TRUE
               /\ age' = read
               /\ met' = hasMet
               /\ UNCHANGED early

\* Broken variant: a tick does not know of the portions appended in it.
CgroupPortionUncounted ==
    /\ pc = "cgroup"
    /\ "cgroup" \in due
    /\ \E full, large \in BOOLEAN : Write(full, large, {}, {})
    /\ UNCHANGED <<pc, wake, clock, gap, blocked, due, known, tickVars, kills>>

\* Appender::flush: a portion of cgroups carries no topology.
CgroupPortion ==
    /\ pc = "cgroup"
    /\ "cgroup" \in due
    /\ \E full, large \in BOOLEAN : Write(full, large, {}, {})
    /\ appended' = TRUE
    /\ UNCHANGED <<pc, wake, clock, gap, blocked, due, known, forced, opened, first, completed, kills>>

CgroupsEnd ==
    /\ pc = "cgroup"
    /\ pc' = "postgres"
    /\ UNCHANGED <<timeVars, blocked, due, segmentVars, known, tickVars, kills>>

\* append_postgres: a batch that opens a segment brings mounts and topology.
PgBatch ==
    /\ pc = "postgres"
    /\ due \cap PgGroups # {}
    /\ \E full, large \in BOOLEAN, batch \in {"settings", "other"} :
        /\ batch = "settings" => "instance" \in due
        /\ Write(full, large, {batch} \cap {"settings"}, {"topo"})
        /\ known' = (known \/ batch = "settings")
        /\ opened' = (opened \/ ~segment.open \/ full)
    /\ appended' = TRUE
    /\ UNCHANGED <<pc, wake, clock, gap, blocked, due, forced, first, completed, kills>>

\* The server is another one, whose settings have not been read.
Reconnect ==
    /\ pc = "postgres"
    /\ due \cap PgGroups # {}
    /\ known' = FALSE
    /\ UNCHANGED <<pc, timeVars, blocked, due, segmentVars, tickVars, kills>>

\* Broken variant: statements keep the start of the pass.
PgEndsUnmarked ==
    /\ pc = "postgres"
    /\ pc' = "logs"
    /\ blocked' \in IF "activity" \in due THEN BOOLEAN ELSE {blocked}
    /\ due' = IF opened /\ segment.open THEN due \ {"topo"} ELSE due
    /\ UNCHANGED <<timeVars, segmentVars, known, tickVars, kills>>

\* finish_postgres: statements start their interval at the end of the pass, and
\* a lock query that succeeded sets the pace of activity.
PgEnds ==
    /\ pc = "postgres"
    /\ pc' = "logs"
    /\ age' = [s \in Enabled |-> IF s = "statements" /\ s \in due THEN 0 ELSE age[s]]
    /\ blocked' \in IF "activity" \in due THEN BOOLEAN ELSE {blocked}
    /\ due' = IF opened /\ segment.open THEN due \ {"topo"} ELSE due
    /\ UNCHANGED <<wake, clock, gap, segmentVars, known, tickVars, kills>>

\* append_window: what a window opens, it recollects.
Window(groups) ==
    \E full, large \in BOOLEAN : Write(full, large, RowsOf(groups), groups \cup {"topo"})

\* The first log batch carries the groups that are due.
BatchGroups == IF first THEN due ELSE {"logs"}

LogBatch ==
    /\ pc = "logs"
    /\ "logs" \in due
    /\ Window(BatchGroups)
    /\ first' = FALSE
    /\ appended' = TRUE
    /\ UNCHANGED <<pc, wake, clock, gap, blocked, due, known, forced, opened, completed, kills>>

\* A window that cannot be written to a segment with parts is given up; its
\* groups wait for their next interval.
Lose(groups) ==
    /\ segment.open
    /\ wal' = wal \cup (IF "topo" \in groups THEN {"lost"} ELSE {})

LogBatchRejected ==
    /\ pc = "logs"
    /\ "logs" \in due
    /\ Lose(BatchGroups)
    /\ pc' = "end"
    /\ completed' = FALSE
    /\ first' = FALSE
    /\ UNCHANGED <<timeVars, blocked, due, segment, unsaved, met, early, known, forced, opened, appended, kills>>

LogsEnd ==
    /\ pc = "logs"
    /\ pc' = IF first THEN "window" ELSE "end"
    /\ UNCHANGED <<timeVars, blocked, due, segmentVars, known, tickVars, kills>>

\* No log batch carried the groups that are due.
OsWindow ==
    /\ pc = "window"
    /\ Window(due)
    /\ appended' = TRUE
    /\ pc' = "end"
    /\ UNCHANGED <<wake, clock, gap, blocked, due, known, forced, opened, first, completed, kills>>

\* It is rejected, or has no rows.
OsWindowLost ==
    /\ pc = "window"
    /\ Lose(due)
    /\ pc' = "end"
    /\ UNCHANGED <<timeVars, blocked, due, segment, unsaved, met, early, known, tickVars, kills>>

\* A forced tick that appended closes the segment once.
EndTick ==
    /\ pc = "end"
    /\ IF completed /\ appended /\ forced /\ segment.open
       THEN Close /\ age' = MarkOpened(age)
       ELSE UNCHANGED <<segment, wal, met, age>> /\ unsaved' = (unsaved /\ forced /\ completed)
    /\ blocked' = blocked
    /\ Sleep
    /\ UNCHANGED <<early, clock, gap, known, kills>>

\* The process ends, on a fatal error or a signal; its successor publishes the
\* journal it recovers and reads every group.
Restart ==
    /\ kills < MaxKills
    /\ kills' = kills + 1
    /\ Close
    /\ age' = [s \in Enabled |-> Unread]
    /\ blocked' = FALSE /\ known' = FALSE
    /\ pc' = "sleep" /\ wake' = 0 /\ due' = {}
    /\ forced' = FALSE /\ opened' = FALSE /\ appended' = FALSE /\ first' = TRUE /\ completed' = TRUE
    /\ gap' = Unread
    /\ UNCHANGED <<clock, early>>

-----------------------------------------------------------------------------
Init ==
    /\ pc = "sleep" /\ wake = 0 /\ due = {} /\ forced = FALSE
    /\ age = [s \in Enabled |-> Unread] /\ blocked = FALSE
    /\ segment = Closed /\ wal = {} /\ known = FALSE
    /\ opened = FALSE /\ appended = FALSE /\ first = TRUE /\ completed = TRUE
    /\ clock \in 0..Cycle - 1 /\ gap = Unread /\ unsaved = FALSE /\ kills = 0
    /\ met = FALSE /\ early = FALSE

Phases == CgroupsEnd \/ PgEnds \/ LogsEnd \/ OsWindow \/ OsWindowLost \/ EndTick

Next ==
    \/ Wait \/ Query \/ TimerWakes \/ SignalWakes
    \/ CgroupPortion \/ PgBatch \/ Reconnect \/ LogBatch \/ LogBatchRejected
    \/ Phases \/ Restart

Spec == Init /\ [][Next]_vars

\* Time passes, the timer wakes the loop, and each pass ends.
FairSpec == Spec /\ SF_vars(Wait) /\ WF_vars(TimerWakes) /\ WF_vars(Phases)

-----------------------------------------------------------------------------
(* Properties. *)

\* The values the variables range over.
TypeOK ==
    /\ pc \in {"sleep", "cgroup", "postgres", "logs", "window", "end"}
    /\ wake \in 0..Tick
    /\ age \in [Enabled -> Nat \cup {Unread}]
    /\ due \subseteq Enabled
    /\ segment \in [open : BOOLEAN, left : 0..Period, settings : BOOLEAN]
    /\ wal \subseteq {"os", "topo", "settings", "lost"}
    /\ {blocked, forced, known, opened, appended, first, completed, unsaved,
        met, early} \subseteq BOOLEAN
    /\ clock \in 0..Cycle - 1
    /\ gap \in Nat \cup {Unread}
    /\ kills \in 0..MaxKills

\* A segment's age ends exactly when the clock is at the phase of the seal seed
\* for the first time after its first window, and nothing closes it by its age
\* before: a segment that is opened at the phase itself lives for a period and is
\* not closed by the window that opens it, unless the period is zero
\* (until_next_phase, on_window_appended, close_reason, the age valve of run).
DeadlineAtPhase == ~early /\ (segment.open => (AgeExpired <=> met))

\* Settings count as written exactly when the open segment's parts hold them,
\* through closes by size, age and a full journal within the window that
\* carries them (append_window, append_postgres, Appender::flush).
SettingsNotedAsWritten == segment.settings <=> "settings" \in wal

\* Between ticks an open segment holds mounts and topology, or the next tick
\* reads them, whichever pass opened the segment and whatever closed the one
\* before.  Exempt is a segment whose window with them was given up
\* (mark_segment_opened, recollection_due, opening_os_collected).
TopologyOwed ==
    pc = "sleep" /\ segment.open /\ "topo" \in Enabled
        => "topo" \in wal \/ "lost" \in wal \/ age["topo"] = Unread

\* What a forced tick has appended is in a published segment when it ends,
\* unless a log batch was rejected (collect_os_and_logs, already_appended).
ForcedDataSaved == pc = "sleep" => ~unsaved

\* Statements are not read again until their interval has passed since the end
\* of the pass that read them, however often ticks are forced and however long
\* the pass took (plan, finish_postgres, recollection_due).
StatementsSpaced ==
    [][pc = "sleep" /\ "statements" \in due' => gap \in {Unread, IntervalOf("statements", FALSE)}]_vars

\* Every enabled group is read again and again, also when ticks are forced
\* without end; topology also by the segments that are opened (plan,
\* timer_sleep_delay, recollection_due).
EverySourceIsRead == \A s \in Enabled : []<>(s \in due \/ (s = "topo" /\ age[s] = 0))

\* A segment whose age has ended is closed, also when no source returns rows
\* (the age valve of run, close_reason).
ExpiredSegmentsClose == AgeExpired ~> ~AgeExpired

\* mark_segment_opened: the next OS window needs fresh mounts and topology in
\* the new segment, even if their interval has not elapsed.
NextOsWindowHasTopology ==
    [][(OsWindow \/ LogBatch) /\ "os" \in wal' => "topo" \in wal' \/ "lost" \in wal']_vars

=============================================================================
