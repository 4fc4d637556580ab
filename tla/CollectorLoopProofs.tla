------------------------ MODULE CollectorLoopProofs ------------------------
(***************************************************************************)
(* Proofs about CollectorLoop, for all intervals, periods and seeds: what  *)
(* the segment and the scheduler's marks say agrees with what was written, *)
(* whichever pass wrote it and whatever closed the segment.                *)
(***************************************************************************)
EXTENDS CollectorLoop, NaturalsInduction, WellFoundedInduction, TLAPS

Segments == [open : BOOLEAN, left : Int, settings : BOOLEAN]
Passes == {"sleep", "cgroup", "postgres", "logs", "window", "end"}

Types ==
    /\ pc \in Passes
    /\ age \in [Enabled -> Int]
    /\ due \subseteq Enabled
    /\ segment \in Segments
    /\ clock \in Int
    /\ forced \in BOOLEAN /\ opened \in BOOLEAN /\ appended \in BOOLEAN
    /\ first \in BOOLEAN /\ completed \in BOOLEAN /\ unsaved \in BOOLEAN

\* Between ticks nothing of a tick is left over, and the first pass opens no
\* segment for the others.
Rested == (pc = "sleep" => ~unsaved) /\ (pc \in {"sleep", "cgroup"} => ~opened /\ first)

\* What is unsaved was appended in this tick and is in the open segment.
UnsavedIsOpen == unsaved => appended /\ segment.open

\* A segment opened in the PostgreSQL pass, or since, holds mounts and topology.
OpenedHasTopology == opened /\ segment.open /\ "topo" \in Enabled => "topo" \in wal

\* This tick's OS window is still to come, and brings mounts and topology.
StillToCome == first /\ "topo" \in due /\ pc \in {"cgroup", "postgres", "logs", "window"}

\* The open segment has mounts and topology, or this tick or the next brings
\* them; so does the segment that is not open yet.
Owed ==
    "topo" \in Enabled => \/ segment.open /\ ("topo" \in wal \/ "lost" \in wal)
                          \/ age["topo"] = Unread
                          \/ StillToCome

LoopInv ==
    /\ Types /\ Rested /\ UnsavedIsOpen
    /\ SettingsNotedAsWritten
    /\ OpenedHasTopology /\ Owed

\* The interval of statements, which nothing accelerates.
Apart == IntervalOf("statements", FALSE)

\* The scheduler never takes statements to be older than they are, except while
\* the pass they are due in has not ended.
Spaced ==
    /\ pc = "sleep" => due = {}
    /\ gap \in Int
    /\ "statements" \in Enabled =>
          /\ age["statements"] = Unread <=> gap = Unread
          /\ gap # Unread => age["statements"] \in 0..Apart /\ gap \in 0..Apart
          /\ IF pc \in {"cgroup", "postgres"} /\ "statements" \in due
             THEN gap = 0
             ELSE age["statements"] <= gap

\* An open segment's age ends at the phase of this period or of the next, and
\* has ended once the phase was met; no age ended before.
Phase == Seed % Cycle

Timed ==
    /\ clock \in 0..Cycle - 1
    /\ segment.left \in 0..Period
    /\ met \in BOOLEAN /\ early = FALSE
    /\ segment.open /\ met => segment.left = 0
    /\ segment.open /\ ~met => segment.left > 0 /\ clock + segment.left \in {Phase, Phase + Period}

-----------------------------------------------------------------------------
(* Lemmas. *)

\* The clock goes round, at every instant if the period is zero.
LEMMA CycleLemma == Cycle \in Nat \ {0} /\ (Period # 0 => Cycle = Period)
  BY TimesAssumption DEF Cycle

\* A fresh segment's state, whatever the clock (UntilNextPhase).
LEMMA FreshIsSegment == ASSUME clock \in Int PROVE Fresh \in Segments /\ Fresh.open /\ ~Fresh.settings
<1>1. Period \in Nat /\ Seed \in Nat
  BY TimesAssumption
<1>2. Period # 0 => Seed % Period \in Int /\ clock % Period \in Int
  BY <1>1
<1>3. UntilNextPhase(clock) \in Int
  BY <1>1, <1>2 DEF UntilNextPhase
<1> QED
  BY <1>3 DEF Fresh, Segments

\* What one write to the open or to a fresh segment does.
LEMMA WriteLemma ==
    ASSUME Types, SettingsNotedAsWritten,
           NEW full \in BOOLEAN, NEW large \in BOOLEAN, NEW rows, NEW again,
           Write(full, large, rows, again)
    PROVE  /\ segment' \in Segments /\ age' \in [Enabled -> Int] /\ unsaved' \in BOOLEAN
           /\ SettingsNotedAsWritten'
           /\ unsaved' => segment'.open
           /\ ~segment'.open /\ "topo" \in Enabled => age'["topo"] = Unread
           /\ segment'.open /\ "topo" \in rows => "topo" \in wal'
           /\ segment'.open /\ segment.open /\ ~full => wal \subseteq wal' /\ age' = age
           /\ segment'.open /\ "topo" \in again \cap Enabled /\ (~segment.open \/ full) =>
                 "topo" \in wal'
           /\ segment'.open /\ "topo" \in Enabled /\ "topo" \notin again /\ (~segment.open \/ full) =>
                 age'["topo"] = (IF full THEN Unread ELSE age["topo"])
<1> DEFINE fresh == ~segment.open \/ full
           target == IF fresh THEN Fresh ELSE segment
           held == rows \cup OpeningSettings(fresh)
                   \cup (IF fresh THEN RowsOf(again \cap Enabled) ELSE {})
           before == IF full THEN MarkOpened(age) ELSE age
           read == IF fresh THEN Recollected(before, again) ELSE before
<1>1. /\ full => segment.open
      /\ IF large \/ target.left = 0
         THEN Close /\ age' = MarkOpened(read)
         ELSE /\ segment' = [target EXCEPT !.settings = @ \/ "settings" \in held]
              /\ wal' = (IF fresh THEN {} ELSE wal) \cup held
              /\ unsaved' = TRUE
              /\ age' = read
  BY DEF Write
<1>2. Fresh \in Segments /\ Fresh.open /\ ~Fresh.settings
  BY FreshIsSegment DEF Types
<1>3. target \in Segments /\ target.open
  BY <1>2 DEF Types, Segments
<1>4. before \in [Enabled -> Int] /\ read \in [Enabled -> Int]
  <2>1. before \in [Enabled -> Int]
    BY DEF MarkOpened, Types, Unread
  <2>2. Recollected(before, again) \in [Enabled -> Int]
    BY <2>1 DEF Recollected
  <2> QED
    BY <2>1, <2>2
<1>5. CASE large \/ target.left = 0
  <2>1. segment' = Closed /\ wal' = {} /\ unsaved' = FALSE /\ age' = MarkOpened(read)
    BY <1>1, <1>5 DEF Close
  <2>2. age' \in [Enabled -> Int]
    BY <2>1, <1>4 DEF MarkOpened, Unread
  <2>3. segment' \in Segments /\ ~segment'.open /\ ~segment'.settings
    BY <2>1 DEF Closed, Segments
  <2>4. SettingsNotedAsWritten'
    BY <2>1, <2>3 DEF SettingsNotedAsWritten
  <2>5. "topo" \in Enabled => age'["topo"] = Unread
    BY <2>1, <1>4 DEF MarkOpened
  <2> QED
    BY <2>1, <2>2, <2>3, <2>4, <2>5
<1>6. CASE ~(large \/ target.left = 0)
  <2>1. /\ segment' = [target EXCEPT !.settings = @ \/ "settings" \in held]
        /\ wal' = (IF fresh THEN {} ELSE wal) \cup held
        /\ unsaved' = TRUE
        /\ age' = read
    BY <1>1, <1>6
  <2>2. /\ segment' \in Segments /\ segment'.open
        /\ segment'.settings <=> (target.settings \/ "settings" \in held)
    BY <2>1, <1>3 DEF Segments
  <2>3. "settings" \in wal' <=> (target.settings \/ "settings" \in held)
    BY <2>1, <1>2 DEF SettingsNotedAsWritten
  <2>4. fresh /\ "topo" \in again \cap Enabled => "topo" \in held
    BY DEF RowsOf
  <2>5. fresh /\ "topo" \in Enabled /\ "topo" \notin again =>
           read["topo"] = (IF full THEN Unread ELSE age["topo"])
    <3>1. fresh /\ "topo" \in Enabled /\ "topo" \notin again => read["topo"] = before["topo"]
      BY DEF Recollected
    <3>2. "topo" \in Enabled => before["topo"] = (IF full THEN Unread ELSE age["topo"])
      BY DEF MarkOpened, Types
    <3> QED
      BY <3>1, <3>2
  <2>6. ~fresh => read = age /\ wal \subseteq wal'
    BY <2>1
  <2>7. "topo" \in rows => "topo" \in wal'
    BY <2>1
  <2> QED
    BY <2>1, <2>2, <2>3, <2>4, <2>5, <2>6, <2>7, <1>4 DEF SettingsNotedAsWritten
<1> QED
  BY <1>5, <1>6

\* The passing of time changes no mark (TimePasses).
LEMMA TimeLemma ==
    ASSUME LoopInv, TimePasses, UNCHANGED <<pc, due, wal, unsaved, known, tickVars>>
    PROVE  LoopInv'
<1> USE DEF LoopInv
<1>1. segment' \in Segments /\ segment'.open = segment.open /\ segment'.settings = segment.settings
  BY DEF TimePasses, Types, Segments
<1>2. age' \in [Enabled -> Int] /\ \A s \in Enabled : age[s] = Unread => age'[s] = Unread
  <2> DEFINE next(s) == IF age[s] = Unread THEN Unread ELSE MinOf(age[s] + 1, IntervalOf(s, FALSE))
  <2>2. age' = [s \in Enabled |-> next(s)]
    BY DEF TimePasses
  <2>3. ASSUME NEW s \in Enabled PROVE next(s) \in Int
    <3>1. age[s] \in Int /\ Interval[s] \in Int /\ Cooldown \in Int
      BY IntervalAssumption, TimesAssumption DEF Types
    <3> QED
      BY <3>1 DEF IntervalOf, MaxOf, MinOf, Unread
  <2>4. \A s \in Enabled : age[s] = Unread => next(s) = Unread
    OBVIOUS
  <2> HIDE DEF next
  <2> QED
    BY <2>2, <2>3, <2>4
<1>3. clock' \in Int
  BY CycleLemma DEF TimePasses, Types
<1>4. Types'
  BY <1>1, <1>2, <1>3 DEF Types, tickVars
<1>5. Rested' /\ UnsavedIsOpen' /\ SettingsNotedAsWritten' /\ OpenedHasTopology'
  BY <1>1 DEF Rested, UnsavedIsOpen, SettingsNotedAsWritten, OpenedHasTopology, tickVars
<1>6. Owed'
  BY <1>1, <1>2 DEF Owed, StillToCome, tickVars
<1> QED
  BY <1>4, <1>5, <1>6

\* What a tick leaves behind (Sleep).
LEMMA SleepLemma ==
    ASSUME Sleep, LoopInv, segment' \in Segments, age' \in [Enabled -> Int], clock' \in Int,
           unsaved' = FALSE, SettingsNotedAsWritten',
           "topo" \in Enabled => \/ segment'.open /\ ("topo" \in wal' \/ "lost" \in wal')
                                 \/ age'["topo"] = Unread
    PROVE  LoopInv'
<1>1. /\ pc' = "sleep" /\ due' = {} /\ forced' = FALSE /\ opened' = FALSE
      /\ appended' = FALSE /\ first' = TRUE /\ completed' = TRUE
  BY DEF Sleep
<1>2. Types'
  BY <1>1 DEF Types, Passes
<1>3. Rested' /\ UnsavedIsOpen' /\ OpenedHasTopology' /\ Owed'
  BY <1>1 DEF Rested, UnsavedIsOpen, OpenedHasTopology, Owed
<1> QED
  BY <1>2, <1>3 DEF LoopInv

\* A tick begins with what is due, or sleeps again (StartTick).
LEMMA StartLemma == ASSUME LoopInv, NEW force \in BOOLEAN, StartTick(force) PROVE LoopInv'
<1> USE DEF LoopInv
<1> DEFINE plan == Planned(force)
<1>1. plan \subseteq Enabled /\ ("topo" \in Enabled /\ age["topo"] = Unread => "topo" \in plan)
  BY DEF Planned
<1>2. Marked(plan) \in [Enabled -> Int] /\ MarkOpened(Marked(plan)) \in [Enabled -> Int]
  <2>1. Marked(plan) \in [Enabled -> Int]
    BY DEF Marked, Types
  <2> QED
    BY <2>1 DEF MarkOpened, Unread
<1>3. age' \in [Enabled -> Int] /\ clock' = clock /\ pc = "sleep"
  BY <1>2 DEF StartTick
<1>4. /\ segment' \in Segments /\ unsaved' = FALSE
      /\ SettingsNotedAsWritten'
      /\ segment.open /\ ~segment'.open /\ "topo" \in Enabled => age'["topo"] = Unread
      /\ segment'.open => wal' = wal
      /\ segment'.open => segment.open
      /\ "topo" \in Enabled /\ "topo" \notin plan => age'["topo"] \in {age["topo"], Unread}
  <2>1. CASE AgeExpired
    <3>1. segment' = Closed /\ wal' = {} /\ unsaved' = FALSE /\ age' = MarkOpened(Marked(plan))
      BY <2>1 DEF StartTick, Close
    <3>2. segment' \in Segments /\ ~segment'.open /\ ~segment'.settings
      BY <3>1 DEF Closed, Segments
    <3>3. SettingsNotedAsWritten'
      BY <3>1, <3>2 DEF SettingsNotedAsWritten
    <3>4. "topo" \in Enabled => age'["topo"] = Unread
      BY <3>1, <1>2 DEF MarkOpened
    <3> QED
      BY <3>1, <3>2, <3>3, <3>4
  <2>2. CASE ~AgeExpired
    <3>1. segment' = segment /\ wal' = wal /\ unsaved' = FALSE /\ age' = Marked(plan)
      BY <2>2 DEF StartTick
    <3>2. "topo" \in Enabled /\ "topo" \notin plan => age'["topo"] = age["topo"]
      BY <3>1 DEF Marked
    <3> QED
      BY <3>1, <3>2 DEF SettingsNotedAsWritten, Types
  <2> QED
    BY <2>1, <2>2
<1>5. "topo" \in Enabled => \/ segment'.open /\ ("topo" \in wal' \/ "lost" \in wal')
                            \/ age'["topo"] = Unread
                            \/ "topo" \in plan
  BY <1>1, <1>3, <1>4 DEF Owed, StillToCome
<1>6. CASE plan = {}
  <2>1. Sleep
    BY <1>6 DEF StartTick
  <2> QED
    BY <2>1, <1>3, <1>4, <1>5, <1>6, SleepLemma DEF Types
<1>7. CASE plan # {}
  <2>1. /\ pc' = "cgroup" /\ due' = plan /\ forced' = force
        /\ UNCHANGED <<opened, appended, first, completed>>
    BY <1>7 DEF StartTick
  <2>2. Types'
    BY <2>1, <1>1, <1>3, <1>4 DEF Types, Passes
  <2>3. Rested' /\ UnsavedIsOpen' /\ OpenedHasTopology'
    BY <2>1, <1>3, <1>4 DEF Rested, UnsavedIsOpen, OpenedHasTopology
  <2>4. Owed'
    BY <2>1, <1>3, <1>5 DEF Owed, StillToCome, Rested
  <2> QED
    BY <2>2, <2>3, <2>4, <1>4
<1> QED
  BY <1>6, <1>7

\* A portion of cgroups may open a segment; the tick or the next owes it
\* topology (CgroupPortion).
LEMMA CgroupLemma == ASSUME LoopInv, CgroupPortion PROVE LoopInv'
<1> USE DEF LoopInv
<1>1. PICK full \in BOOLEAN, large \in BOOLEAN : Write(full, large, {}, {})
  BY DEF CgroupPortion
<1>2. /\ pc = "cgroup" /\ appended' = TRUE
      /\ UNCHANGED <<pc, due, clock, forced, opened, first, completed>>
  BY DEF CgroupPortion
<1>3. Types'
  BY <1>1, <1>2, WriteLemma DEF Types
<1>4. Rested' /\ UnsavedIsOpen' /\ SettingsNotedAsWritten' /\ OpenedHasTopology'
  BY <1>1, <1>2, WriteLemma DEF Rested, UnsavedIsOpen, OpenedHasTopology
<1>5. Owed'
  <2>1. CASE ~segment'.open
    BY <2>1, <1>1, WriteLemma DEF Owed
  <2>2. CASE segment'.open /\ segment.open /\ ~full
    BY <2>2, <1>1, <1>2, WriteLemma DEF Owed, StillToCome
  <2>3. CASE segment'.open /\ (~segment.open \/ full)
    <3>1. "topo" \in Enabled => age'["topo"] = (IF full THEN Unread ELSE age["topo"])
      BY <2>3, <1>1, WriteLemma
    <3> QED
      BY <3>1, <2>3, <1>2 DEF Owed, StillToCome
  <2> QED
    BY <2>1, <2>2, <2>3
<1> QED
  BY <1>3, <1>4, <1>5

\* A PostgreSQL batch that opens a segment brings topology (PgBatch).
LEMMA PgBatchLemma == ASSUME LoopInv, PgBatch PROVE LoopInv'
<1> USE DEF LoopInv
<1>1. PICK full \in BOOLEAN, large \in BOOLEAN, batch \in {"settings", "other"} :
          /\ Write(full, large, {batch} \cap {"settings"}, {"topo"})
          /\ opened' = (opened \/ ~segment.open \/ full)
  BY DEF PgBatch
<1>2. /\ pc = "postgres" /\ appended' = TRUE
      /\ UNCHANGED <<pc, due, clock, forced, first, completed>>
  BY DEF PgBatch
<1>3. Types'
  BY <1>1, <1>2, WriteLemma DEF Types, Segments
<1>4. Rested' /\ UnsavedIsOpen' /\ SettingsNotedAsWritten'
  BY <1>1, <1>2, WriteLemma DEF Rested, UnsavedIsOpen
<1>5. OpenedHasTopology' /\ Owed'
  <2>1. CASE ~segment'.open
    BY <2>1, <1>1, WriteLemma DEF Owed, OpenedHasTopology
  <2>2. CASE segment'.open /\ segment.open /\ ~full
    BY <2>2, <1>1, <1>2, WriteLemma DEF Owed, StillToCome, OpenedHasTopology
  <2>3. CASE segment'.open /\ (~segment.open \/ full)
    BY <2>3, <1>1, WriteLemma DEF Owed, OpenedHasTopology
  <2> QED
    BY <2>1, <2>2, <2>3
<1> QED
  BY <1>3, <1>4, <1>5

\* The window that carries this tick's groups carries topology if it is due,
\* and any window that opens a segment does (LogBatch, OsWindow).
LEMMA WindowLemma ==
    ASSUME LoopInv, NEW groups, Window(groups),
           "topo" \in groups \/ ~StillToCome,
           pc \in {"logs", "window"}, pc' \in {"logs", "end"}, appended' = TRUE,
           first' \in BOOLEAN, UNCHANGED <<due, clock, forced, opened, completed>>
    PROVE  LoopInv'
<1> USE DEF LoopInv
<1>1. PICK full \in BOOLEAN, large \in BOOLEAN : Write(full, large, RowsOf(groups), groups \cup {"topo"})
  BY DEF Window
<1>2. Types'
  BY <1>1, WriteLemma DEF Types, Passes
<1>3. Rested' /\ UnsavedIsOpen' /\ SettingsNotedAsWritten'
  BY <1>1, WriteLemma DEF Rested, UnsavedIsOpen
<1>4. OpenedHasTopology' /\ Owed'
  <2>1. CASE ~segment'.open
    BY <2>1, <1>1, WriteLemma DEF Owed, OpenedHasTopology
  <2>2. CASE segment'.open /\ segment.open /\ ~full
    <3>1. wal \subseteq wal' /\ age' = age /\ ("topo" \in RowsOf(groups) => "topo" \in wal')
      BY <2>2, <1>1, WriteLemma
    <3>2. "topo" \in groups => "topo" \in wal'
      BY <3>1 DEF RowsOf
    <3> QED
      BY <3>1, <3>2, <2>2 DEF Owed, OpenedHasTopology
  <2>3. CASE segment'.open /\ (~segment.open \/ full)
    <3>1. "topo" \in Enabled => "topo" \in wal'
      BY <2>3, <1>1, WriteLemma
    <3> QED
      BY <3>1, <2>3 DEF Owed, OpenedHasTopology
  <2> QED
    BY <2>1, <2>2, <2>3
<1> QED
  BY <1>2, <1>3, <1>4

\* A window that is given up takes its topology with it (Lose).
LEMMA LoseLemma ==
    ASSUME LoopInv, NEW groups, Lose(groups),
           "topo" \in groups \/ ~StillToCome,
           pc \in {"logs", "window"}, pc' = "end", first' \in BOOLEAN, completed' \in BOOLEAN,
           UNCHANGED <<age, due, clock, segment, unsaved, forced, opened, appended>>
    PROVE  LoopInv'
<1> USE DEF LoopInv
<1>1. segment.open /\ wal' = wal \cup (IF "topo" \in groups THEN {"lost"} ELSE {})
  BY DEF Lose
<1>2. Types'
  BY DEF Types, Passes
<1>3. Rested' /\ UnsavedIsOpen' /\ SettingsNotedAsWritten' /\ OpenedHasTopology'
  BY <1>1 DEF Rested, UnsavedIsOpen, SettingsNotedAsWritten, OpenedHasTopology
<1>4. Owed'
  BY <1>1 DEF Owed
<1> QED
  BY <1>2, <1>3, <1>4

\* The passes end, and what a PostgreSQL batch has brought in is not due any
\* more (CgroupsEnd, PgEnds, LogsEnd).
LEMMA PassLemma == ASSUME LoopInv, CgroupsEnd \/ PgEnds \/ LogsEnd PROVE LoopInv'
<1> USE DEF LoopInv
<1>1. /\ UNCHANGED <<clock, segment, wal, unsaved, forced, opened, appended, first, completed>>
      /\ pc \in {"cgroup", "postgres", "logs"} /\ pc' \in {"postgres", "logs", "window", "end"}
      /\ (pc' = "end" => ~first)
  BY DEF CgroupsEnd, PgEnds, LogsEnd, timeVars, segmentVars, tickVars
<1>2. /\ age' \in [Enabled -> Int] /\ ("topo" \in Enabled => age'["topo"] = age["topo"])
      /\ due' \subseteq Enabled
      /\ due' = due \/ (opened /\ segment.open)
  BY DEF CgroupsEnd, PgEnds, LogsEnd, timeVars, Types
<1>3. Types'
  BY <1>1, <1>2 DEF Types, Passes
<1>4. Rested' /\ UnsavedIsOpen' /\ SettingsNotedAsWritten' /\ OpenedHasTopology'
  BY <1>1 DEF Rested, UnsavedIsOpen, SettingsNotedAsWritten, OpenedHasTopology
<1>5. Owed'
  <2>1. CASE due' = due
    BY <2>1, <1>1, <1>2 DEF Owed, StillToCome
  <2>2. CASE opened /\ segment.open
    BY <2>2, <1>1 DEF Owed, OpenedHasTopology
  <2> QED
    BY <2>1, <2>2, <1>2
<1> QED
  BY <1>3, <1>4, <1>5

\* A tick that was forced and appended has nothing left to save (EndTick).
LEMMA EndLemma == ASSUME LoopInv, EndTick PROVE LoopInv'
<1> USE DEF LoopInv
<1>1. pc = "end" /\ Sleep /\ clock' = clock
  BY DEF EndTick
<1>2. CASE completed /\ appended /\ forced /\ segment.open
  <2>1. segment' = Closed /\ wal' = {} /\ unsaved' = FALSE /\ age' = MarkOpened(age)
    BY <1>2 DEF EndTick, Close
  <2>2. segment' \in Segments /\ ~segment'.open /\ ~segment'.settings
    BY <2>1 DEF Closed, Segments
  <2>3. age' \in [Enabled -> Int] /\ ("topo" \in Enabled => age'["topo"] = Unread)
    BY <2>1 DEF MarkOpened, Types, Unread
  <2>4. SettingsNotedAsWritten'
    BY <2>1, <2>2 DEF SettingsNotedAsWritten
  <2> QED
    BY <1>1, <2>1, <2>2, <2>3, <2>4, SleepLemma DEF Types
<1>3. CASE ~(completed /\ appended /\ forced /\ segment.open)
  <2>1. segment' = segment /\ wal' = wal /\ age' = age
        /\ unsaved' = (unsaved /\ forced /\ completed)
    BY <1>3 DEF EndTick
  <2>2. unsaved' = FALSE
    BY <2>1, <1>3 DEF UnsavedIsOpen, Types
  <2>3. SettingsNotedAsWritten'
    BY <2>1 DEF SettingsNotedAsWritten
  <2>4. "topo" \in Enabled => \/ segment'.open /\ ("topo" \in wal' \/ "lost" \in wal')
                              \/ age'["topo"] = Unread
    BY <2>1, <1>1 DEF Owed, StillToCome
  <2> QED
    BY <1>1, <2>1, <2>2, <2>3, <2>4, SleepLemma DEF Types
<1> QED
  BY <1>2, <1>3

-----------------------------------------------------------------------------
(* Theorems. *)

\* The inductive invariant: settings, topology and the data of a forced tick
\* are accounted for at every step of every pass, for all intervals, periods
\* and seeds.
THEOREM Invariance == Spec => []LoopInv
<1>1. Init => LoopInv
  <2> SUFFICES ASSUME Init PROVE LoopInv
    OBVIOUS
  <2>1. segment \in Segments /\ ~segment.open /\ ~segment.settings
    BY DEF Init, Closed, Segments
  <2>2. age \in [Enabled -> Int] /\ ("topo" \in Enabled => age["topo"] = Unread)
    BY DEF Init, Unread
  <2>3. clock \in Int
    BY TimesAssumption DEF Init
  <2>4. Types
    BY <2>1, <2>2, <2>3 DEF Init, Types, Passes
  <2>5. Rested /\ UnsavedIsOpen /\ SettingsNotedAsWritten /\ OpenedHasTopology /\ Owed
    BY <2>1, <2>2 DEF Init, Rested, UnsavedIsOpen, SettingsNotedAsWritten, OpenedHasTopology, Owed
  <2> QED
    BY <2>4, <2>5 DEF LoopInv
<1>2. LoopInv /\ [Next]_vars => LoopInv'
  <2> SUFFICES ASSUME LoopInv, [Next]_vars PROVE LoopInv'
    OBVIOUS
  <2>1. CASE Wait \/ Query
    BY <2>1, TimeLemma DEF Wait, Query
  <2>2. CASE TimerWakes \/ SignalWakes
    BY <2>2, StartLemma DEF TimerWakes, SignalWakes
  <2>3. CASE CgroupPortion
    BY <2>3, CgroupLemma
  <2>4. CASE PgBatch
    BY <2>4, PgBatchLemma
  <2>5. CASE Reconnect
    BY <2>5 DEF Reconnect, timeVars, segmentVars, tickVars, LoopInv, Types, Rested, UnsavedIsOpen,
                SettingsNotedAsWritten, OpenedHasTopology, Owed, StillToCome
  <2>6. CASE LogBatch
    BY <2>6, WindowLemma DEF LogBatch, BatchGroups, StillToCome
  <2>7. CASE LogBatchRejected
    BY <2>7, LoseLemma DEF LogBatchRejected, BatchGroups, StillToCome, timeVars
  <2>8. CASE OsWindow
    BY <2>8, WindowLemma DEF OsWindow, StillToCome, LoopInv, Types
  <2>9. CASE OsWindowLost
    BY <2>9, LoseLemma DEF OsWindowLost, StillToCome, timeVars, tickVars, LoopInv, Types
  <2>10. CASE CgroupsEnd \/ PgEnds \/ LogsEnd
    BY <2>10, PassLemma
  <2>11. CASE EndTick
    BY <2>11, EndLemma
  <2>12. CASE Restart
    <3>1. /\ segment' = Closed /\ wal' = {} /\ unsaved' = FALSE
          /\ age' = [s \in Enabled |-> Unread] /\ pc' = "sleep" /\ due' = {} /\ clock' = clock
          /\ forced' = FALSE /\ opened' = FALSE /\ appended' = FALSE /\ first' = TRUE /\ completed' = TRUE
      BY <2>12 DEF Restart, Close
    <3>2. segment' \in Segments /\ ~segment'.open /\ ~segment'.settings
      BY <3>1 DEF Closed, Segments
    <3>3. age' \in [Enabled -> Int] /\ ("topo" \in Enabled => age'["topo"] = Unread)
      BY <3>1 DEF Unread
    <3>4. Types'
      BY <3>1, <3>2, <3>3 DEF LoopInv, Types, Passes
    <3>5. Rested' /\ UnsavedIsOpen' /\ SettingsNotedAsWritten' /\ OpenedHasTopology' /\ Owed'
      BY <3>1, <3>2, <3>3 DEF Rested, UnsavedIsOpen, SettingsNotedAsWritten, OpenedHasTopology, Owed
    <3> QED
      BY <3>4, <3>5 DEF LoopInv
  <2>13. CASE UNCHANGED vars
    BY <2>13 DEF vars, timeVars, segmentVars, tickVars, LoopInv, Types, Rested, UnsavedIsOpen,
                 SettingsNotedAsWritten, OpenedHasTopology, Owed, StillToCome
  <2> QED
    BY <2>1, <2>2, <2>3, <2>4, <2>5, <2>6, <2>7, <2>8, <2>9, <2>10, <2>11, <2>12, <2>13 DEF Next, Phases
<1> QED
  BY <1>1, <1>2, PTL DEF Spec

\* Settings count as written exactly when the open segment's parts hold them,
\* whichever pass wrote them and whatever closed the segment within the window
\* (append_window, append_postgres, Appender::flush).
THEOREM SettingsAreNotedAsWritten == Spec => []SettingsNotedAsWritten
<1>1. LoopInv => SettingsNotedAsWritten
  BY DEF LoopInv
<1> QED
  BY <1>1, Invariance, PTL

\* Between ticks an open segment holds mounts and topology, has given them up
\* with a window, or the next tick reads them (mark_segment_opened,
\* recollection_due, opening_os_collected).
THEOREM TopologyIsOwed == Spec => []TopologyOwed
<1>1. LoopInv => TopologyOwed
  BY DEF LoopInv, Owed, StillToCome, TopologyOwed
<1> QED
  BY <1>1, Invariance, PTL

\* What a forced tick has appended, over all its passes, is in a published
\* segment when the tick ends without a rejected batch (collect_os_and_logs).
THEOREM ForcedDataIsSaved == Spec => []ForcedDataSaved
<1>1. LoopInv => ForcedDataSaved
  BY DEF LoopInv, Rested, ForcedDataSaved
<1> QED
  BY <1>1, Invariance, PTL

-----------------------------------------------------------------------------
(* Statements. *)

\* Blocked sessions do not accelerate statements (Scheduler::new).
LEMMA ApartIsInterval ==
    ASSUME "statements" \in Enabled
    PROVE  Apart \in Nat /\ \A fast : IntervalOf("statements", fast) = Apart
<1>1. Interval["statements"] \in Nat /\ Cooldown \in Nat
  BY IntervalAssumption, TimesAssumption
<1> QED
  BY <1>1 DEF Apart, IntervalOf, MaxOf

\* No write, recollection or close restarts the interval of statements (Write).
LEMMA WriteKeepsStatements ==
    ASSUME Types, "statements" \in Enabled,
           NEW full, NEW large, NEW rows, NEW again, Write(full, large, rows, again)
    PROVE  age'["statements"] = age["statements"]
<1> DEFINE fresh == ~segment.open \/ full
           before == IF full THEN MarkOpened(age) ELSE age
           read == IF fresh THEN Recollected(before, again) ELSE before
<1>1. age' = MarkOpened(read) \/ age' = read
  BY DEF Write
<1>2. before["statements"] = age["statements"] /\ DOMAIN before = Enabled
  BY DEF MarkOpened, Types
<1>3. read["statements"] = age["statements"] /\ DOMAIN read = Enabled
  BY <1>2 DEF Recollected
<1> QED
  BY <1>1, <1>3 DEF MarkOpened

\* Time passes for the scheduler at least as slowly (TimePasses).
LEMMA TimeKeepsSpaced ==
    ASSUME Types, Spaced, TimePasses, UNCHANGED <<pc, due>>, pc \in {"sleep", "postgres"}
    PROVE  Spaced'
<1>1. gap' = IF gap = Unread \/ (pc = "postgres" /\ "statements" \in due) THEN gap ELSE MinOf(gap + 1, Apart)
  BY DEF TimePasses, Apart
<1>2. CASE "statements" \in Enabled
  <2>1. Apart \in Nat
    BY <1>2, ApartIsInterval
  <2>2. age'["statements"] = IF age["statements"] = Unread THEN Unread
                             ELSE MinOf(age["statements"] + 1, Apart)
    BY <1>2 DEF TimePasses, Apart
  <2>3. age["statements"] \in Int
    BY <1>2 DEF Types
  <2> QED
    BY <1>1, <1>2, <2>1, <2>2, <2>3 DEF Spaced, MinOf, Unread
<1>3. CASE "statements" \notin Enabled
  <2>1. gap' = gap \/ gap' = gap + 1 \/ gap' = Apart
    BY <1>1 DEF MinOf
  <2>2. gap # gap' => gap + 1 \in Int
    BY DEF Spaced
  <2> QED
    BY <1>1, <1>3, <2>1, <2>2 DEF Spaced, MinOf
<1> QED
  BY <1>2, <1>3

\* Statements are planned only when their interval has passed, and then both
\* start together (StartTick).
LEMMA StartKeepsSpaced ==
    ASSUME Types, Spaced, NEW force \in BOOLEAN, StartTick(force)
    PROVE  Spaced' /\ ("statements" \in due' => gap \in {Unread, Apart})
<1> DEFINE plan == Planned(force)
<1>1. /\ pc = "sleep" /\ due = {} /\ plan \subseteq Enabled
      /\ gap' = IF "statements" \in plan THEN 0 ELSE gap
  BY DEF StartTick, Spaced, Planned
<1>2. \/ pc' = "sleep" /\ due' = {} /\ plan = {}
      \/ pc' = "cgroup" /\ due' = plan
  BY DEF StartTick, Sleep
<1>3. CASE "statements" \in Enabled
  <2>1. age'["statements"] = IF "statements" \in plan THEN 0 ELSE age["statements"]
    BY <1>3 DEF StartTick, MarkOpened, Marked
  <2>2. Apart \in Nat /\ age["statements"] \in Int /\ gap \in Int
    BY <1>3, ApartIsInterval DEF Types, Spaced
  <2>3. "statements" \in plan => age["statements"] = Unread \/ age["statements"] >= Apart
    BY <1>3, ApartIsInterval DEF Planned
  <2>4. "statements" \in plan => gap \in {Unread, Apart}
    BY <1>1, <1>3, <2>2, <2>3 DEF Spaced, Unread
  <2>5. Spaced'
    BY <1>1, <1>2, <1>3, <2>1, <2>2 DEF Spaced, Unread
  <2> QED
    BY <1>2, <2>4, <2>5
<1>4. CASE "statements" \notin Enabled
  BY <1>1, <1>2, <1>4 DEF Spaced
<1> QED
  BY <1>3, <1>4

\* Statements are not read again until their interval has passed since the end
\* of the pass that read them, whatever is forced, recollected or slow in
\* between (plan, finish_postgres, recollection_due).
THEOREM StatementsAreSpaced == Spec => StatementsSpaced
<1>1. Init => Spaced
  BY DEF Init, Spaced, Unread
<1>2. LoopInv /\ Spaced /\ [Next]_vars =>
          Spaced' /\ (pc = "sleep" /\ "statements" \in due' => gap \in {Unread, Apart})
  <2> SUFFICES ASSUME LoopInv, Spaced, [Next]_vars
               PROVE  Spaced' /\ (pc = "sleep" /\ "statements" \in due' => gap \in {Unread, Apart})
    OBVIOUS
  <2> Types
    BY DEF LoopInv
  <2>1. CASE Wait \/ Query
    BY <2>1, TimeKeepsSpaced DEF Wait, Query, Spaced
  <2>2. CASE TimerWakes \/ SignalWakes
    BY <2>2, StartKeepsSpaced DEF TimerWakes, SignalWakes
  <2>3. CASE CgroupPortion \/ PgBatch \/ LogBatch \/ OsWindow
    <3>1. /\ UNCHANGED <<due, gap>> /\ pc # "sleep" /\ pc' # "sleep"
          /\ pc' = pc \/ (pc = "window" /\ pc' = "end")
      BY <2>3 DEF CgroupPortion, PgBatch, LogBatch, OsWindow
    <3>2. "statements" \in Enabled => age'["statements"] = age["statements"]
      BY <2>3, WriteKeepsStatements DEF CgroupPortion, PgBatch, LogBatch, OsWindow, Window
    <3> QED
      BY <3>1, <3>2 DEF Spaced
  <2>4. CASE Reconnect \/ LogBatchRejected \/ OsWindowLost \/ CgroupsEnd \/ LogsEnd
    <3>1. /\ UNCHANGED <<due, gap, age>> /\ pc # "sleep" /\ pc' # "sleep"
          /\ pc \in {"cgroup", "postgres"} <=> pc' \in {"cgroup", "postgres"}
      BY <2>4 DEF Reconnect, LogBatchRejected, OsWindowLost, CgroupsEnd, LogsEnd, timeVars
    <3> QED
      BY <3>1 DEF Spaced
  <2>5. CASE PgEnds
    <3>1. /\ gap' = gap /\ pc = "postgres" /\ pc' = "logs"
          /\ "statements" \in Enabled =>
                age'["statements"] = IF "statements" \in due THEN 0 ELSE age["statements"]
      BY <2>5 DEF PgEnds
    <3>2. "statements" \in Enabled => Apart \in Nat
      BY ApartIsInterval
    <3> QED
      BY <3>1, <3>2 DEF Spaced, Unread
  <2>6. CASE EndTick
    <3>1. gap' = gap /\ pc = "end" /\ pc' = "sleep" /\ due' = {}
      BY <2>6 DEF EndTick, Sleep
    <3>2. "statements" \in Enabled => age'["statements"] = age["statements"]
      BY <2>6 DEF EndTick, MarkOpened, Types
    <3> QED
      BY <3>1, <3>2 DEF Spaced
  <2>7. CASE Restart
    BY <2>7 DEF Restart, Spaced, Unread
  <2>8. CASE UNCHANGED vars
    BY <2>8 DEF vars, timeVars, Spaced
  <2> QED
    BY <2>1, <2>2, <2>3, <2>4, <2>5, <2>6, <2>7, <2>8 DEF Next, Phases
<1>3. LoopInv /\ Spaced /\ [Next]_vars =>
          [pc = "sleep" /\ "statements" \in due' => gap \in {Unread, IntervalOf("statements", FALSE)}]_vars
  BY <1>2 DEF Apart
<1> QED
  BY <1>1, <1>2, <1>3, Invariance, PTL DEF Spec, StatementsSpaced

-----------------------------------------------------------------------------
(* The age of segments. *)

\* Arithmetic of a clock that goes round, for any period.
LEMMA ModRange == ASSUME NEW p \in Nat \ {0}, NEW x \in Int PROVE x % p \in 0..p - 1
  OBVIOUS

\* A position within the period.
LEMMA ModSmall == ASSUME NEW p \in Nat \ {0}, NEW x \in 0..p - 1 PROVE x % p = x
  OBVIOUS

\* A position within the next period.
LEMMA ModOver == ASSUME NEW p \in Nat \ {0}, NEW x \in 0..p - 1 PROVE (x + p) % p = x
  OBVIOUS

\* A delay until the phase is never zero and never more than a period, but for a
\* period of zero (until_next_phase).
LEMMA FreshEndsAtPhase ==
    ASSUME clock \in 0..Cycle - 1
    PROVE  IF Period = 0 THEN Fresh.left = 0
           ELSE Fresh.left \in 1..Period /\ clock + Fresh.left \in {Phase, Phase + Period}
<1>1. CASE Period = 0
  BY <1>1 DEF Fresh, UntilNextPhase
<1>2. CASE Period # 0
  <2>1. Period \in Nat \ {0} /\ Seed \in Int /\ Cycle = Period
    BY <1>2, TimesAssumption, CycleLemma
  <2>2. Phase \in 0..Period - 1 /\ clock \in 0..Period - 1 /\ clock % Period = clock
    BY <2>1, ModRange, ModSmall DEF Phase
  <2>3. Fresh.left = IF clock < Phase THEN Phase - clock ELSE Period - (clock - Phase)
    BY <1>2, <2>1, <2>2 DEF Fresh, UntilNextPhase, Phase
  <2> QED
    BY <1>2, <2>1, <2>2, <2>3
<1> QED
  BY <1>1, <1>2

\* A segment that was closed at the phase leaves nothing to be timed (Close).
LEMMA CloseKeepsDeadline ==
    ASSUME Timed, clock' = clock, segment' = Closed, met' = FALSE, early' = FALSE
    PROVE  Timed'
<1>1. segment'.left = 0 /\ segment'.open = FALSE
  BY DEF Closed
<1>2. 0 \in 0..Period
  BY TimesAssumption
<1>3. clock' \in 0..Cycle - 1
  BY DEF Timed
<1> QED
  BY <1>1, <1>2, <1>3, Zenon DEF Timed

\* A write leaves the deadline of the segment it was written to, and closes it by
\* its age only at the phase (Write).
LEMMA WriteKeepsDeadline ==
    ASSUME Types, Timed, clock' = clock,
           NEW full, NEW large, NEW rows, NEW again, Write(full, large, rows, again)
    PROVE  Timed'
<1> DEFINE fresh == ~segment.open \/ full
           target == IF fresh THEN Fresh ELSE segment
           hasMet == IF fresh THEN Period = 0 ELSE met
<1>1. \/ /\ segment' = Closed /\ met' = FALSE
         /\ \/ early' = early
            \/ target.left = 0 /\ early' = (early \/ ~hasMet)
      \/ /\ target.left # 0 /\ met' = hasMet /\ early' = early
         /\ \E noted : segment' = [target EXCEPT !.settings = noted]
  BY DEF Write, Close, ClosedByAge
<1>2. /\ target.left \in 0..Period /\ hasMet \in BOOLEAN
      /\ hasMet => target.left = 0
      /\ ~hasMet => target.left > 0 /\ clock + target.left \in {Phase, Phase + Period}
  <2>1. CASE fresh
    <3>1. IF Period = 0 THEN Fresh.left = 0
          ELSE Fresh.left \in 1..Period /\ clock + Fresh.left \in {Phase, Phase + Period}
      BY FreshEndsAtPhase DEF Timed
    <3>2. target = Fresh /\ hasMet = (Period = 0)
      BY <2>1
    <3>3. Period \in Nat
      BY TimesAssumption
    <3>4. CASE Period = 0
      <4>1. Fresh.left = 0 /\ 0 \in 0..Period
        BY <3>1, <3>3, <3>4
      <4> QED
        BY <3>2, <3>4, <4>1, Zenon
    <3>5. CASE Period # 0
      <4>1. Fresh.left \in 0..Period /\ Fresh.left > 0 /\ clock + Fresh.left \in {Phase, Phase + Period}
        BY <3>1, <3>3, <3>5
      <4> QED
        BY <3>2, <3>5, <4>1, Zenon
    <3> QED
      BY <3>4, <3>5
  <2>2. CASE ~fresh
    BY <2>2 DEF Timed
  <2> QED
    BY <2>1, <2>2
<1>3. target \in Segments
  BY FreshIsSegment DEF Types
<1>4. CASE segment' = Closed /\ met' = FALSE /\ early' = FALSE
  BY <1>4, CloseKeepsDeadline
<1>5. CASE target.left # 0 /\ met' = hasMet /\ early' = early
           /\ \E noted : segment' = [target EXCEPT !.settings = noted]
  <2>1. segment'.left = target.left
    BY <1>3, <1>5 DEF Segments
  <2> QED
    BY <1>2, <1>5, <2>1 DEF Timed
<1>6. early = FALSE
  BY DEF Timed
<1>7. target.left = 0 => hasMet
  <2>1. ASSUME target.left = 0 PROVE ~ (target.left > 0)
    BY <2>1
  <2> QED
    BY <1>2, <2>1, Zenon
<1>8. target.left = 0 /\ early' = (early \/ ~hasMet) => early' = FALSE
  BY <1>6, <1>7, Zenon
<1> QED
  BY <1>1, <1>4, <1>5, <1>6, <1>8, Zenon

\* The clock and the time that is left move together, and reach the phase
\* together (TimePasses).
LEMMA TimeKeepsDeadline == ASSUME Types, Timed, TimePasses, early' = early PROVE Timed'
<1> DEFINE left == IF segment.left > 0 THEN segment.left - 1 ELSE 0
<1>1. Cycle \in Nat \ {0} /\ Phase \in 0..Cycle - 1 /\ Period \in Nat /\ (Period # 0 => Cycle = Period)
  BY TimesAssumption, CycleLemma, ModRange DEF Phase
<1>2. segment'.left = left /\ segment'.open = segment.open
  BY DEF TimePasses, Types, Segments
<1>3. clock' = IF clock + 1 = Cycle THEN 0 ELSE clock + 1
  <2>1. CASE clock + 1 = Cycle
    BY <2>1, <1>1, ModOver, 0 + Cycle = Cycle, 0 \in 0..Cycle - 1 DEF TimePasses, Timed
  <2>2. CASE clock + 1 # Cycle
    <3>1. clock + 1 \in 0..Cycle - 1
      BY <2>2, <1>1 DEF Timed
    <3> QED
      BY <3>1, <2>2, <1>1, ModSmall DEF TimePasses
  <2> QED
    BY <2>1, <2>2
<1>4. met' = (met \/ (segment.open /\ clock' = Phase))
  BY DEF TimePasses, Phase
<1>5. /\ clock \in 0..Cycle - 1 /\ segment.left \in 0..Period /\ met \in BOOLEAN
      /\ segment.open /\ met => segment.left = 0
      /\ segment.open /\ ~met => segment.left > 0 /\ clock + segment.left \in {Phase, Phase + Period}
  BY DEF Timed
<1>6. clock' \in 0..Cycle - 1 /\ left \in 0..Period
  BY <1>1, <1>3, <1>5
<1>7. ASSUME segment.open
      PROVE  /\ met' => left = 0
             /\ ~met' => left > 0 /\ clock' + left \in {Phase, Phase + Period}
  <2>1. CASE met
    <3>1. met'
      BY <1>4, <2>1, Zenon
    <3>2. segment.left = 0
      BY <1>5, <1>7, <2>1, Zenon
    <3>3. left = 0
      BY <3>2
    <3> QED
      BY <3>1, <3>3, Zenon
  <2>2. CASE ~met
    <3>1. segment.left > 0 /\ clock + segment.left \in {Phase, Phase + Period} /\ Cycle = Period
      BY <1>1, <1>5, <1>7, <2>2
    <3>2. left = segment.left - 1
      BY <3>1
    <3>3. clock' = Phase <=> left = 0
      BY <1>1, <1>3, <1>5, <3>1, <3>2
    <3>4. left > 0 => clock' + left \in {Phase, Phase + Period}
      BY <1>1, <1>3, <1>5, <3>1, <3>2
    <3>5. met' <=> left = 0
      BY <1>4, <1>7, <2>2, <3>3
    <3>6. left # 0 => left > 0
      <4>1. PICK n : n = segment.left
        OBVIOUS
      <4>2. n \in Nat /\ n > 0
        BY <1>1, <1>5, <3>1, <4>1
      <4>3. n - 1 # 0 => n - 1 > 0
        BY <4>2
      <4> QED
        BY <3>2, <4>1, <4>3, Zenon
    <3> QED
      BY <3>4, <3>5, <3>6, Zenon
  <2> QED
    BY <1>5, <2>1, <2>2
<1>8. met' \in BOOLEAN
  BY <1>4, <1>5, <1>7 DEF Types, Segments
<1> QED
  BY <1>2, <1>6, <1>7, <1>8 DEF Timed

\* An open segment's deadline is at the phase, at every step of the loop.
LEMMA DeadlineInvariance == Spec => []Timed
<1>1. Init => Timed
  <2> SUFFICES ASSUME Init PROVE Timed
    OBVIOUS
  <2>1. segment.left = 0 /\ segment.open = FALSE /\ met = FALSE /\ early = FALSE
    BY DEF Init, Closed
  <2>2. 0 \in 0..Period
    BY TimesAssumption
  <2>3. clock \in 0..Cycle - 1
    BY DEF Init
  <2> QED
    BY <2>1, <2>2, <2>3, Zenon DEF Timed
<1>2. LoopInv /\ Timed /\ [Next]_vars => Timed'
  <2> SUFFICES ASSUME LoopInv, Timed, [Next]_vars PROVE Timed'
    OBVIOUS
  <2> Types
    BY DEF LoopInv
  <2>1. CASE Wait \/ Query
    BY <2>1, TimeKeepsDeadline DEF Wait, Query
  <2>2. CASE TimerWakes \/ SignalWakes
    <3>1. PICK force \in BOOLEAN : StartTick(force)
      BY <2>2 DEF TimerWakes, SignalWakes
    <3>2. CASE AgeExpired
      <4>1. met = TRUE
        BY <3>2 DEF Timed, AgeExpired
      <4>2. segment' = Closed /\ met' = FALSE /\ early' = (early \/ ~met) /\ clock' = clock
        BY <3>1, <3>2 DEF StartTick, Close, ClosedByAge
      <4>3. early = FALSE
        BY DEF Timed
      <4>4. early' = FALSE
        BY <4>1, <4>2, <4>3, Zenon
      <4> QED
        BY <4>2, <4>4, CloseKeepsDeadline
    <3>3. CASE ~AgeExpired
      BY <3>1, <3>3 DEF StartTick, Timed
    <3> QED
      BY <3>2, <3>3
  <2>3. CASE CgroupPortion \/ PgBatch \/ LogBatch \/ OsWindow
    BY <2>3, WriteKeepsDeadline DEF CgroupPortion, PgBatch, LogBatch, OsWindow, Window
  <2>4. CASE Reconnect \/ LogBatchRejected \/ OsWindowLost \/ CgroupsEnd \/ PgEnds \/ LogsEnd
    BY <2>4 DEF Reconnect, LogBatchRejected, OsWindowLost, CgroupsEnd, PgEnds, LogsEnd, timeVars,
                segmentVars, Timed
  <2>5. CASE EndTick \/ Restart
    <3>1. clock' = clock /\ early' = early
          /\ ((segment' = Closed /\ met' = FALSE) \/ UNCHANGED <<segment, met>>)
      BY <2>5 DEF EndTick, Restart, Close
    <3>2. CASE UNCHANGED <<segment, met>>
      BY <3>1, <3>2 DEF Timed
    <3>3. CASE segment' = Closed /\ met' = FALSE
      <4>1. early' = FALSE
        BY <3>1 DEF Timed
      <4> QED
        BY <3>1, <3>3, <4>1, CloseKeepsDeadline
    <3> QED
      BY <3>1, <3>2, <3>3
  <2>6. CASE UNCHANGED vars
    BY <2>6 DEF vars, timeVars, segmentVars, Timed
  <2> QED
    BY <2>1, <2>2, <2>3, <2>4, <2>5, <2>6 DEF Next, Phases
<1> QED
  BY <1>1, <1>2, Invariance, PTL DEF Spec

\* The age of a segment ends exactly when the clock is at the phase of the seal
\* seed for the first time after its first window, and closes no segment before,
\* however the period, the seed and the time of day lie: a window at the phase
\* itself opens a segment that lives for a whole period, and only a period of zero
\* closes a segment by the age it has at its first window (until_next_phase,
\* on_window_appended, close_reason).
THEOREM DeadlinesAreAtPhase == Spec => []DeadlineAtPhase
<1>1. Timed => DeadlineAtPhase
  <2> SUFFICES ASSUME Timed PROVE DeadlineAtPhase
    OBVIOUS
  <2>1. segment.open => (met => segment.left = 0) /\ (~met => segment.left > 0)
    BY DEF Timed
  <2>2. segment.left \in Nat /\ met \in BOOLEAN /\ early = FALSE
    BY TimesAssumption DEF Timed
  <2> QED
    BY <2>1, <2>2 DEF DeadlineAtPhase, AgeExpired
<1> QED
  BY <1>1, DeadlineInvariance, PTL

-----------------------------------------------------------------------------
(* The sleep. *)

\* What LoopInv and Timed leave open of the types: ages do not fall below zero,
\* and the loop never sleeps longer than a tick.
Spans ==
    /\ \A s \in Enabled : age[s] \in Nat \cup {Unread}
    /\ gap \in Nat \cup {Unread} /\ ("statements" \in Enabled \/ gap = Unread)
    /\ wake \in 0..Tick
    /\ wal \subseteq {"os", "topo", "settings", "lost"}
    /\ blocked \in BOOLEAN /\ known \in BOOLEAN
    /\ kills \in 0..MaxKills

\* A set of naturals has a least one.
LEMMA LeastLemma ==
    ASSUME NEW T, T \subseteq Nat, T # {}
    PROVE  LeastOf(T) \in T /\ \A n \in T : LeastOf(T) <= n
<1> DEFINE R == OpToRel(<, Nat)
<1>1. IsWellFoundedOn(R, Nat)
  BY NatLessThanWellFounded
<1>2. \E x \in T : \A y \in T : ~ (<<y, x>> \in R)
  <2> HIDE DEF R
  <2> QED
    BY <1>1, WFMin
<1>3. \A x, y \in Nat : y < x => <<y, x>> \in R
  BY DEF OpToRel
<1>4. \E x \in T : \A y \in T : x <= y
  <2> HIDE DEF R
  <2>1. PICK x \in T : \A y \in T : ~ (<<y, x>> \in R)
    BY <1>2
  <2>2. \A y \in T : x <= y
    <3> SUFFICES ASSUME NEW y \in T PROVE x <= y
      OBVIOUS
    <3>1. x \in Nat /\ y \in Nat
      OBVIOUS
    <3>2. ~ (y < x)
      BY <2>1, <3>1, <1>3
    <3> QED
      BY <3>1, <3>2
  <2> QED
    BY <2>2
<1> QED
  BY <1>4 DEF LeastOf

\* Intervals are times, accelerated or held apart (Scheduler::new).
LEMMA IntervalsAreTimes == \A s \in Enabled, fast \in BOOLEAN : IntervalOf(s, fast) \in Nat
<1> SUFFICES ASSUME NEW s \in Enabled, NEW fast \in BOOLEAN PROVE IntervalOf(s, fast) \in Nat
  OBVIOUS
<1>1. Interval[s] \in Nat /\ Cooldown \in Nat /\ Blocked \in Nat
  BY IntervalAssumption, TimesAssumption
<1> QED
  BY <1>1 DEF IntervalOf, MaxOf, MinOf

\* The lesser of two times is one.
LEMMA MinIsTime == ASSUME NEW a \in Nat, NEW b \in Nat PROVE MinOf(a, b) \in Nat
  BY DEF MinOf

\* The timer is never set to more than a tick, nor to a time that has passed
\* (timer_sleep_delay).
LEMMA DelayLemma ==
    ASSUME NEW ages, \A s \in Enabled : ages[s] \in Nat \cup {Unread},
           NEW fast \in BOOLEAN, NEW seg, seg.left \in Nat
    PROVE  SleepDelay(ages, fast, seg) \in 0..Tick
<1> DEFINE ends == {s \in Enabled : ages[s] # Unread /\ IntervalOf(s, fast) # 0}
           left(s) == IF ages[s] >= IntervalOf(s, fast) THEN 0 ELSE IntervalOf(s, fast) - ages[s]
           T == {Tick} \cup {left(s) : s \in ends} \cup (IF seg.open THEN {seg.left} ELSE {})
<1>1. \A s \in ends : left(s) \in Nat
  <2> SUFFICES ASSUME NEW s \in ends PROVE left(s) \in Nat
    OBVIOUS
  <2>1. IntervalOf(s, fast) \in Nat /\ ages[s] \in Nat
    BY IntervalsAreTimes
  <2> QED
    BY <2>1
<1>2. Tick \in Nat /\ Tick \in T
  BY TimesAssumption
<1>3. T \subseteq Nat
  BY <1>1, <1>2
<1>4. LeastOf(T) \in Nat /\ LeastOf(T) <= Tick
  <2> HIDE DEF T
  <2> QED
    BY <1>2, <1>3, LeastLemma
<1>5. SleepDelay(ages, fast, seg) = LeastOf(T)
  BY DEF SleepDelay
<1> HIDE DEF T
<1> QED
  BY <1>2, <1>4, <1>5

\* A write carries rows the segment may hold, and marks only the time of reads.
LEMMA WriteKeepsSpans ==
    ASSUME Types, Spans, UNCHANGED <<wake, gap, blocked, kills>>, known' \in BOOLEAN,
           NEW full, NEW large, NEW rows, NEW again,
           rows \subseteq {"os", "topo", "settings"}, Write(full, large, rows, again)
    PROVE  Spans'
<1>1. \A s \in Enabled : age'[s] \in {age[s], 0, Unread}
  <2>1. age' \in [Enabled -> Int] /\ \A s \in Enabled : age'[s] \in {age[s], 0, Unread}
    BY DEF Write, Types, MarkOpened, Recollected, Unread
  <2> QED
    BY <2>1
<1>2. wal' \subseteq {"os", "topo", "settings", "lost"}
  <2>1. \A groups : RowsOf(groups) \subseteq {"os", "topo"}
    BY DEF RowsOf
  <2>2. \A fresh : OpeningSettings(fresh) \subseteq {"settings"}
    BY DEF OpeningSettings
  <2> QED
    BY <2>1, <2>2 DEF Write, Close, Spans
<1> QED
  BY <1>1, <1>2 DEF Spans

\* So does the passing of time (TimePasses).
LEMMA TimeKeepsSpans ==
    ASSUME Types, Spans, TimePasses, UNCHANGED <<wal, blocked, known, kills>>, wake' \in 0..Tick
    PROVE  Spans'
<1>1. \A s \in Enabled : age'[s] \in Nat \cup {Unread}
  <2> SUFFICES ASSUME NEW s \in Enabled PROVE age'[s] \in Nat \cup {Unread}
    OBVIOUS
  <2>1. IntervalOf(s, FALSE) \in Nat /\ age[s] \in Nat \cup {Unread}
    BY IntervalsAreTimes DEF Spans
  <2>2. age'[s] = IF age[s] = Unread THEN Unread ELSE MinOf(age[s] + 1, IntervalOf(s, FALSE))
    BY DEF TimePasses
  <2>3. CASE age[s] = Unread
    BY <2>2, <2>3
  <2>4. CASE age[s] \in Nat
    <3>1. MinOf(age[s] + 1, IntervalOf(s, FALSE)) \in Nat
      <4>1. age[s] + 1 \in Nat
        BY <2>4
      <4> QED
        BY <2>1, <4>1, MinIsTime
    <3> QED
      BY <2>2, <2>4, <3>1 DEF Unread
  <2> QED
    BY <2>1, <2>3, <2>4
<1>2. gap' \in Nat \cup {Unread} /\ ("statements" \in Enabled \/ gap' = Unread)
  <2>1. gap = Unread => gap' = Unread
    BY DEF TimePasses
  <2>2. ASSUME gap # Unread PROVE gap' \in Nat /\ "statements" \in Enabled
    <3>1. gap \in Nat /\ "statements" \in Enabled
      BY <2>2 DEF Spans
    <3>2. IntervalOf("statements", FALSE) \in Nat
      BY <3>1, IntervalsAreTimes
    <3>3. MinOf(gap + 1, IntervalOf("statements", FALSE)) \in Nat
      <4>1. gap + 1 \in Nat
        BY <3>1
      <4> QED
        BY <3>2, <4>1, MinIsTime
    <3>4. gap' \in {gap, MinOf(gap + 1, IntervalOf("statements", FALSE))}
      BY DEF TimePasses
    <3> QED
      BY <3>1, <3>3, <3>4
  <2> QED
    BY <2>1, <2>2
<1> QED
  BY <1>1, <1>2 DEF Spans

\* The loop sleeps again (Sleep).
LEMMA SleepKeepsSpans ==
    ASSUME Sleep, Spans, UNCHANGED <<blocked, known, kills>>,
           \A s \in Enabled : age'[s] \in Nat \cup {Unread},
           gap' \in Nat \cup {Unread}, "statements" \in Enabled \/ gap' = Unread,
           wal' \subseteq wal, segment'.left \in Nat
    PROVE  Spans'
<1>1. wake' = SleepDelay(age', blocked', segment')
  BY DEF Sleep
<1>2. blocked' \in BOOLEAN
  BY DEF Spans
<1>3. wake' \in 0..Tick
  BY <1>1, <1>2, DelayLemma
<1> QED
  BY <1>2, <1>3 DEF Spans

\* The spans are kept by every step of the loop.
LEMMA SpansInvariance == Spec => []Spans
<1>1. Init => Spans
  <2> SUFFICES ASSUME Init PROVE Spans
    OBVIOUS
  <2>1. \A s \in Enabled : age[s] \in Nat \cup {Unread}
    BY DEF Init
  <2>2. 0 \in 0..Tick /\ 0 \in 0..MaxKills
    BY TimesAssumption
  <2> QED
    BY <2>1, <2>2 DEF Init, Spans
<1>2. LoopInv /\ Timed /\ Timed' /\ Spans /\ [Next]_vars => Spans'
  <2> SUFFICES ASSUME LoopInv, Timed, Timed', Spans, [Next]_vars PROVE Spans'
    OBVIOUS
  <2> Types
    BY DEF LoopInv
  <2>0. segment'.left \in Nat
    BY TimesAssumption DEF Timed
  <2>1. CASE Wait
    <3>1. wake' \in 0..Tick
      BY <2>1, TimesAssumption DEF Wait, Spans
    <3> QED
      BY <2>1, <3>1, TimeKeepsSpans DEF Wait
  <2>2. CASE Query
    <3>1. wake' \in 0..Tick
      BY <2>2 DEF Query, Spans
    <3> QED
      BY <2>2, <3>1, TimeKeepsSpans DEF Query
  <2>3. ASSUME NEW force \in BOOLEAN, StartTick(force) PROVE Spans'
    <3>1. Planned(force) \subseteq Enabled
      BY DEF Planned
    <3>2. \A s \in Enabled : age'[s] \in {age[s], 0, Unread}
      BY <2>3 DEF StartTick, Marked, MarkOpened
    <3>3. \A s \in Enabled : age'[s] \in Nat \cup {Unread}
      BY <3>2 DEF Spans
    <3>4. gap' \in Nat \cup {Unread} /\ ("statements" \in Enabled \/ gap' = Unread)
      BY <2>3, <3>1 DEF StartTick, Spans
    <3>5. wal' \subseteq wal /\ UNCHANGED <<blocked, known, kills>>
      BY <2>3 DEF StartTick, Close
    <3>6. CASE Planned(force) = {}
      <4>1. Sleep
        BY <2>3, <3>6 DEF StartTick
      <4> QED
        BY <4>1, <3>3, <3>4, <3>5, <2>0, SleepKeepsSpans
    <3>7. CASE Planned(force) # {}
      <4>1. wake' \in 0..Tick
        BY <2>3, <3>7, TimesAssumption DEF StartTick
      <4> QED
        BY <4>1, <3>3, <3>4, <3>5 DEF Spans
    <3> QED
      BY <3>6, <3>7
  <2>4. CASE CgroupPortion
    BY <2>4, WriteKeepsSpans DEF CgroupPortion, Spans
  <2>5. CASE PgBatch
    <3>1. PICK full, large \in BOOLEAN, batch \in {"settings", "other"} :
             /\ Write(full, large, {batch} \cap {"settings"}, {"topo"})
             /\ known' = (known \/ batch = "settings")
      BY <2>5 DEF PgBatch
    <3>2. known' \in BOOLEAN
      BY <3>1
    <3>3. {batch} \cap {"settings"} \subseteq {"os", "topo", "settings"}
      OBVIOUS
    <3>4. UNCHANGED <<wake, gap, blocked, kills>>
      BY <2>5 DEF PgBatch
    <3> QED
      BY <3>1, <3>2, <3>3, <3>4, WriteKeepsSpans
  <2>6. CASE LogBatch \/ OsWindow
    <3>1. UNCHANGED <<wake, gap, blocked, kills, known>>
      BY <2>6 DEF LogBatch, OsWindow
    <3>0. PICK groups : Window(groups)
      BY <2>6 DEF LogBatch, OsWindow
    <3>2. PICK full, large \in BOOLEAN : Write(full, large, RowsOf(groups), groups \cup {"topo"})
      BY <3>0 DEF Window
    <3>3. RowsOf(groups) \subseteq {"os", "topo", "settings"} /\ known' \in BOOLEAN
      BY <3>1 DEF RowsOf, Spans
    <3> QED
      BY <3>1, <3>2, <3>3, WriteKeepsSpans
  <2>7. CASE Reconnect \/ CgroupsEnd \/ LogsEnd
    BY <2>7 DEF Reconnect, CgroupsEnd, LogsEnd, timeVars, segmentVars, Spans
  <2>8. CASE LogBatchRejected \/ OsWindowLost
    <3>1. wal' \subseteq wal \cup {"lost"} /\ UNCHANGED <<timeVars, blocked, known, kills>>
      BY <2>8 DEF LogBatchRejected, OsWindowLost, Lose
    <3> QED
      BY <3>1 DEF timeVars, Spans
  <2>9. CASE PgEnds
    <3>1. \A s \in Enabled : age'[s] \in {age[s], 0}
      BY <2>9 DEF PgEnds
    <3>2. \A s \in Enabled : age'[s] \in Nat \cup {Unread}
      BY <3>1 DEF Spans
    <3>3. blocked' \in BOOLEAN
      BY <2>9 DEF PgEnds, Spans
    <3> QED
      BY <2>9, <3>2, <3>3 DEF PgEnds, segmentVars, Spans
  <2>10. CASE EndTick
    <3>1. Sleep /\ UNCHANGED <<blocked, known, kills, gap>> /\ wal' \subseteq wal
      BY <2>10 DEF EndTick, Close
    <3>2. \A s \in Enabled : age'[s] \in {age[s], Unread}
      BY <2>10 DEF EndTick, MarkOpened, Types
    <3>3. \A s \in Enabled : age'[s] \in Nat \cup {Unread}
      BY <3>2 DEF Spans
    <3> QED
      BY <3>1, <3>3, <2>0, SleepKeepsSpans DEF Spans
  <2>11. CASE Restart
    <3>1. \A s \in Enabled : age'[s] \in Nat \cup {Unread}
      BY <2>11 DEF Restart
    <3>2. kills' \in 0..MaxKills
      BY <2>11, TimesAssumption DEF Restart, Spans
    <3>3. wake' \in 0..Tick
      BY <2>11, TimesAssumption DEF Restart
    <3>4. wal' = {} /\ ~blocked' /\ ~known' /\ gap' = Unread
          /\ blocked' \in BOOLEAN /\ known' \in BOOLEAN
      BY <2>11 DEF Restart, Close
    <3> QED
      BY <3>1, <3>2, <3>3, <3>4 DEF Spans
  <2>12. CASE UNCHANGED vars
    BY <2>12 DEF vars, timeVars, segmentVars, Spans
  <2> QED
    BY <2>1, <2>2, <2>3, <2>4, <2>5, <2>6, <2>7, <2>8, <2>9, <2>10, <2>11, <2>12
       DEF Next, Phases, TimerWakes, SignalWakes
<1> QED
  BY <1>1, <1>2, Invariance, DeadlineInvariance, PTL DEF Spec

\* The variables stay in their ranges for all intervals, periods and ticks; in
\* particular the loop never sleeps past a tick (timer_sleep_delay) and no age
\* or deadline becomes negative.
THEOREM TypesAreKept == Spec => []TypeOK
<1>1. LoopInv /\ Timed /\ Spans => TypeOK
  <2> SUFFICES ASSUME LoopInv, Timed, Spans PROVE TypeOK
    OBVIOUS
  <2>1. age \in [Enabled -> Nat \cup {Unread}]
    BY DEF LoopInv, Types, Spans
  <2>2. segment \in [open : BOOLEAN, left : 0..Period, settings : BOOLEAN]
    BY DEF LoopInv, Types, Timed, Segments
  <2>3. {blocked, forced, known, opened, appended, first, completed, unsaved,
         met, early} \subseteq BOOLEAN
    BY DEF LoopInv, Types, Spans, Timed
  <2> QED
    BY <2>1, <2>2, <2>3 DEF TypeOK, LoopInv, Types, Passes, Spans, Timed
<1> QED
  BY <1>1, Invariance, DeadlineInvariance, SpansInvariance, PTL

=============================================================================
