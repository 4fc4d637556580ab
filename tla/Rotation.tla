------------------------------ MODULE Rotation ------------------------------
(***************************************************************************)
(* Retention: the collector publishes segments and removes the oldest ones *)
(* once the storage exceeds its target, while the web process publishes    *)
(* index sidecars next to the segments and readers hold removed files.     *)
(* bins/kronika-collector/src/rotation*, run_rotation of collector.rs,     *)
(* crates/kronika-layout/src/root/{index,writer}.rs,                       *)
(* crates/kronika-index/src/store.rs.                                      *)
(***************************************************************************)
EXTENDS Integers, Sequences, FiniteSets

CONSTANTS
    MaxSegment,   \* bound: segments the collector publishes
    ZmsSize,      \* bytes of a segment
    IdxSize,      \* bytes of an index, or of an index temporary
    TempSize,     \* bytes of a segment temporary
    MaxJournal,   \* bound: bytes of active.wal
    MaxOthers,    \* bound: bytes other programs use on the partition
    Target,       \* the budget, or the percentage of the partition in bytes
    Modes,        \* the retention modes of the instance
    Budget        \* bound, for each mode: failed calls, killed processes, changes by
                  \* other programs

Segments == 1..MaxSegment
NoUse == -1
RetentionModes == {"fixed", "auto"}

ASSUME SizesAssumption ==
    /\ MaxSegment \in Nat
    /\ ZmsSize \in Nat \ {0} /\ IdxSize \in Nat \ {0} /\ TempSize \in Nat \ {0}
    /\ MaxJournal \in Nat /\ MaxOthers \in Nat /\ Target \in Nat
ASSUME ModesAssumption == Modes \subseteq RetentionModes /\ Budget \in [Modes -> Nat]

VARIABLES
    mode,       \* RetentionConfig
    zms, idx,   \* the segments that have a ZMS, and an index
    temp,       \* a failed publication left its segment temporary
    lost,       \* index temporaries of killed web processes
    next,       \* the next segment to be published
    journal,    \* bytes of active.wal
    others,     \* bytes of other programs
    held,       \* bytes of removed files that readers still have open
    web,        \* the index owner: what it does, and for which segment
    pc,         \* the collector
    due,        \* the periodic tick is due
    recount,    \* the hourly recount is due
    counter,    \* Rotation.non_journal_bytes
    pending,    \* Rotation.pending_reclaim
    last,       \* Rotation.last_observed_used
    todo,       \* the candidates of this pass that are left
    current,    \* the bytes this pass still counts
    freed,      \* bytes of the ZMS of the pair being removed
    shrunk,     \* history: bytes that this pass counted went away by themselves
    misread,    \* history: in auto mode, a drop in use that was not a reclaim was taken
                \* for one, or a reclaim to come is not known of
    left        \* faults that may still happen

treeVars == <<zms, idx, temp, lost, next>>
outsideVars == <<others, held, web>>
passVars == <<todo, current, freed>>
counterVars == <<counter, pending, last>>
timerVars == <<due, recount>>
historyVars == <<shrunk, misread>>
vars == <<mode, treeVars, journal, outsideVars, pc, timerVars, counterVars, passVars,
          historyVars, left>>

Fault == left > 0 /\ left' = left - 1

\* The parts of the tree a scan returns the sizes of: countable_bytes.
WebTemps == lost + (IF web.pc = "idle" THEN 0 ELSE 1)
Countable ==
    ZmsSize * Cardinality(zms) + IdxSize * Cardinality(idx \cap zms)
    + (IF temp THEN TempSize ELSE 0) + IdxSize * WebTemps

\* What the partition reports as used, and what of it would be left once the
\* readers have closed the removed files.
Live == Countable + IdxSize * Cardinality(idx \ zms) + journal + others
Used == Live + held

\* The collector's own journal shrinks, a temporary goes or another program
\* frees space: usage drops, and the next reading takes it for a reclaim.
Drops(bytes) ==
    /\ shrunk' = (shrunk \/ (bytes > 0 /\ pc \in {"remove", "pair"}))
    /\ misread' = (misread \/ (mode = "auto" /\ bytes > 0))

-----------------------------------------------------------------------------
(* The collector outside retention. *)

\* Windows reach the journal.
AppendJournal ==
    /\ pc = "run"
    /\ journal < MaxJournal
    /\ journal' = journal + 1
    /\ UNCHANGED <<mode, treeVars, outsideVars, pc, timerVars, counterVars, passVars, historyVars, left>>

\* A segment is published and the journal reset; run_rotation counts it unless
\* its metadata cannot be read, and enforces.
Publish ==
    /\ pc = "run"
    /\ next \in Segments
    /\ zms' = zms \cup {next}
    /\ next' = next + 1
    /\ journal' = 0
    /\ \/ counter' = counter + ZmsSize /\ UNCHANGED left
       \/ Fault /\ UNCHANGED counter
    /\ Drops(journal)
    /\ pc' = "enforce"
    /\ UNCHANGED <<mode, idx, temp, lost, outsideVars, timerVars, pending, last, passVars>>

\* A publication fails and its temporary cannot be discarded.
PublishFails ==
    /\ pc = "run"
    /\ next \in Segments
    /\ ~temp
    /\ Fault
    /\ temp' = TRUE
    /\ UNCHANGED <<mode, zms, idx, lost, next, journal, outsideVars, pc, timerVars, counterVars,
                   passVars, historyVars>>

\* Time passes: a minute, read before a pass, or an hour.
Minute ==
    /\ pc = "run"
    /\ ~due
    /\ due' = TRUE
    /\ UNCHANGED <<mode, treeVars, journal, outsideVars, pc, recount, counterVars, passVars, historyVars, left>>

Hour ==
    /\ mode = "fixed" /\ ~recount
    /\ due' = TRUE /\ recount' = TRUE
    /\ UNCHANGED <<mode, treeVars, journal, outsideVars, pc, counterVars, passVars, historyVars, left>>

-----------------------------------------------------------------------------
(* Rotation::enforce. *)

\* maybe_enforce: the timer wakes the collector when the tick is due.
Tick ==
    /\ pc = "run"
    /\ due
    /\ pc' = "enforce"
    /\ UNCHANGED <<mode, treeVars, journal, outsideVars, timerVars, counterVars, passVars, historyVars, left>>

\* Broken variant: the drop is subtracted without a floor at zero.
ReconciledUnfloored == IF last = NoUse \/ last < Used THEN pending ELSE pending - (last - Used)

\* reconcile_pending_reclaim: any drop in use pays off what was unlinked.
Reconciled ==
    LET drop == IF last = NoUse \/ last < Used THEN 0 ELSE last - Used
    IN IF drop > pending THEN 0 ELSE pending - drop

Minus(a, b) == IF a < b THEN 0 ELSE a - b

\* usage: what is compared with the target, once the counter is that.
Usage(count) ==
    IF mode = "fixed" THEN count + journal ELSE Minus(Used, Reconciled)

\* In auto mode a reading of the partition is remembered.
Observe ==
    IF mode = "fixed" THEN UNCHANGED <<pending, last>>
    ELSE pending' = Reconciled /\ last' = Used

\* Broken variant: an under-counted tree is never counted again.
NeverRecount == FALSE

RecountDue == mode = "fixed" /\ recount

EnforceBegins ==
    /\ pc = "enforce"
    /\ due' = FALSE
    /\ Observe
    /\ pc' = IF Usage(counter) <= Target /\ ~RecountDue THEN "run" ELSE "scan"
    /\ UNCHANGED <<mode, treeVars, journal, outsideVars, recount, counter, passVars, historyVars, left>>

\* The partition cannot be read, or the tree cannot be scanned: no pass.
EnforceFails ==
    /\ \/ pc = "enforce" /\ mode = "auto"
       \/ pc = "scan"
    /\ Fault
    /\ due' = FALSE
    /\ pc' = "run"
    /\ UNCHANGED <<mode, treeVars, journal, outsideVars, recount, counterVars, passVars, historyVars>>

\* The members of a set of segments, oldest first.
Ascending(set) ==
    [i \in 1..Cardinality(set) |-> CHOOSE s \in set : Cardinality({r \in set : r <= s}) = i]

Candidates(kind, set) == [i \in 1..Cardinality(set) |-> [kind |-> kind, id |-> Ascending(set)[i]]]

\* Every segment but the newest.
ButNewest(set) == {s \in set : \E r \in set : r > s}

\* deletion_candidates: segment temporaries, indexes without a segment, then
\* segments from the oldest, never the newest.
DeletionCandidates ==
    (IF temp THEN <<[kind |-> "temporary", id |-> next]>> ELSE <<>>)
    \o Candidates("orphan", idx \ zms) \o Candidates("segment", ButNewest(zms))

\* A scan of the tree replaces the counter, and lists the candidates.
Scan ==
    /\ pc = "scan"
    /\ counter' = Countable
    /\ recount' = FALSE
    /\ Observe
    /\ current' = Usage(Countable)
    /\ todo' = DeletionCandidates
    /\ shrunk' = FALSE
    /\ pc' = "remove"
    /\ UNCHANGED <<mode, treeVars, journal, outsideVars, due, freed, misread, left>>

\* The pass goes on with its next candidate.
Removing(kind) ==
    /\ pc = "remove"
    /\ current > Target
    /\ todo # <<>>
    /\ Head(todo).kind = kind

\* Bytes go at once, or when the readers that have them open are done.
Unlinked(bytes) ==
    IF mode = "fixed" THEN UNCHANGED held ELSE held' \in {held, held + bytes}

\* Broken variant: unlinked bytes that readers hold are not credited.
CreditTreeOnly(bytes, counted) ==
    /\ counter' = IF counted THEN Minus(counter, bytes) ELSE counter
    /\ UNCHANGED pending
    /\ current' = Minus(current, bytes)
    /\ todo' = Tail(todo)
    /\ pc' = "remove"

\* enforce credits a removal once.
Credit(bytes, counted) ==
    /\ counter' = IF counted THEN Minus(counter, bytes) ELSE counter
    /\ pending' = IF mode = "auto" THEN pending + bytes ELSE pending
    /\ current' = Minus(current, bytes)
    /\ todo' = Tail(todo)
    /\ pc' = "remove"

RemoveTemporary ==
    /\ Removing("temporary")
    /\ temp' = FALSE
    /\ Credit(TempSize, TRUE)
    /\ UNCHANGED <<mode, zms, idx, lost, next, journal, outsideVars, timerVars, last, freed,
                   historyVars, left>>

\* An index no longer there frees nothing.
RemoveOrphan ==
    /\ Removing("orphan")
    /\ LET id == Head(todo).id
           bytes == IF id \in idx THEN IdxSize ELSE 0
       IN idx' = idx \ {id} /\ Unlinked(bytes) /\ Credit(bytes, FALSE)
    /\ UNCHANGED <<mode, zms, temp, lost, next, journal, others, web, timerVars, last, freed,
                   historyVars, left>>

\* Broken variant: the index goes first.
RemoveIndexFirst ==
    /\ Removing("segment")
    /\ idx' = idx \ {Head(todo).id}
    /\ freed' = ZmsSize
    /\ Unlinked(ZmsSize)
    /\ pc' = "pair"
    /\ UNCHANGED <<mode, zms, temp, lost, next, journal, others, web, timerVars, counterVars,
                   todo, current, historyVars, left>>

\* remove_finished_segment unlinks the segment first.
RemoveSegment ==
    /\ Removing("segment")
    /\ zms' = zms \ {Head(todo).id}
    /\ freed' = ZmsSize
    /\ Unlinked(ZmsSize)
    /\ pc' = "pair"
    /\ UNCHANGED <<mode, idx, temp, lost, next, journal, others, web, timerVars, counterVars,
                   todo, current, historyVars, left>>

\* Then its index, if it has one, and synchronises the day.
RemoveItsIndex ==
    /\ pc = "pair"
    /\ LET id == Head(todo).id
           bytes == IF id \in idx THEN IdxSize ELSE 0
       IN idx' = idx \ {id} /\ Unlinked(bytes) /\ Credit(freed + bytes, TRUE)
    /\ freed' = 0
    /\ UNCHANGED <<mode, zms, temp, lost, next, journal, others, web, timerVars, last,
                   historyVars, left>>

\* Broken variant: the pass goes on after a removal that failed.
RemoveFailsGoesOn ==
    /\ pc = "remove" /\ current > Target /\ todo # <<>>
    /\ Fault
    /\ todo' = Tail(todo)
    /\ UNCHANGED <<mode, treeVars, journal, outsideVars, pc, timerVars, counterVars, current, freed,
                   historyVars>>

\* A removal fails, before anything is unlinked or within the pair: the pass
\* ends and nothing is credited, the bytes of an unlinked segment included.
RemoveFails ==
    /\ \/ pc = "remove" /\ current > Target /\ todo # <<>>
       \/ pc = "pair"
    /\ Fault
    /\ misread' = (misread \/ (mode = "auto" /\ freed > 0))
    /\ freed' = 0
    /\ todo' = <<>> /\ current' = 0
    /\ pc' = "run"
    /\ UNCHANGED <<mode, treeVars, journal, outsideVars, timerVars, counterVars, shrunk>>

\* Enough was removed, or only protected files are left.
EndPass ==
    /\ pc = "remove"
    /\ current <= Target \/ todo = <<>>
    /\ todo' = <<>> /\ current' = 0
    /\ pc' = "run"
    /\ UNCHANGED <<mode, treeVars, journal, outsideVars, timerVars, counterVars, freed, historyVars, left>>

-----------------------------------------------------------------------------
(* The web process, readers and other programs. *)

Idle == [pc |-> "idle", id |-> 0]

\* resource_selected: a missing index is built by the owner of the index lock,
\* in a temporary beside the segment it has opened.
BuildIndex ==
    /\ web.pc = "idle"
    /\ \E id \in zms \ idx : web' = [pc |-> "build", id |-> id]
    /\ UNCHANGED <<mode, treeVars, journal, others, held, pc, timerVars, counterVars, passVars,
                   historyVars, left>>

\* IdxTemp::publish finds the segment it has read still in place,
ConfirmSource ==
    /\ web.pc = "build"
    /\ web.id \in zms
    /\ web' = [web EXCEPT !.pc = "rename"]
    /\ UNCHANGED <<mode, treeVars, journal, others, held, pc, timerVars, counterVars, passVars,
                   historyVars, left>>

\* and renames the temporary, whatever has become of the segment since.
PublishIndex ==
    /\ web.pc = "rename"
    /\ idx' = idx \cup {web.id}
    /\ web' = Idle
    /\ shrunk' = (shrunk \/ web.id \notin zms)
    /\ UNCHANGED <<mode, zms, temp, lost, next, journal, others, held, pc, timerVars, counterVars,
                   passVars, misread, left>>

\* The segment is gone or a call fails: the temporary is dropped.
AbandonIndex ==
    /\ \/ web.pc = "build" /\ web.id \notin zms /\ UNCHANGED left
       \/ web.pc # "idle" /\ Fault
    /\ web' = Idle
    /\ Drops(IdxSize)
    /\ UNCHANGED <<mode, treeVars, journal, others, held, pc, timerVars, counterVars, passVars>>

\* The web process is killed and leaves its temporary.
KillWeb ==
    /\ web.pc # "idle"
    /\ Fault
    /\ web' = Idle
    /\ lost' = lost + 1
    /\ UNCHANGED <<mode, zms, idx, temp, next, journal, others, held, pc, timerVars, counterVars,
                   passVars, historyVars>>

\* Readers close removed files.
CloseFiles ==
    /\ held > 0
    /\ held' \in 0..held - 1
    /\ UNCHANGED <<mode, treeVars, journal, others, web, pc, timerVars, counterVars, passVars,
                   historyVars, left>>

\* Other programs write to the partition or free space on it.
OthersChange ==
    /\ mode = "auto"
    /\ Fault
    /\ others' \in 0..MaxOthers
    /\ Drops(Minus(others, others'))
    /\ UNCHANGED <<mode, treeVars, journal, held, web, pc, timerVars, counterVars, passVars>>

-----------------------------------------------------------------------------
(* Stops and starts of the collector. *)

Down ==
    /\ pc' = "down"
    /\ todo' = <<>> /\ current' = 0 /\ freed' = 0
    /\ counter' = 0 /\ pending' = 0 /\ last' = NoUse
    /\ misread' = (misread \/ (mode = "auto" /\ held > 0))

Kill ==
    /\ pc # "down"
    /\ Fault
    /\ Down
    /\ UNCHANGED <<mode, treeVars, journal, outsideVars, timerVars, shrunk>>

\* The machine stops within the removal of a pair: the segment may be back.
PowerLoss ==
    /\ pc = "pair"
    /\ Fault
    /\ Down
    /\ zms' \in {zms, zms \cup {Head(todo).id}}
    /\ lost' = WebTemps
    /\ web' = Idle
    /\ held' = 0
    /\ UNCHANGED <<mode, idx, temp, next, journal, others, timerVars, shrunk>>

\* remove_writer_temporaries, and Rotation::new seeds the counter with a scan.
Start ==
    /\ pc = "down"
    /\ pc' = "run"
    /\ \/ temp' = FALSE /\ UNCHANGED left
       \/ temp /\ temp' = TRUE /\ Fault
    /\ counter' = Countable - (IF temp /\ ~temp' THEN TempSize ELSE 0)
    /\ due' = FALSE /\ recount' = FALSE
    /\ UNCHANGED <<mode, zms, idx, lost, next, journal, outsideVars, pending, last, passVars, historyVars>>

-----------------------------------------------------------------------------
Init ==
    /\ mode \in Modes
    /\ zms = {} /\ idx = {} /\ temp = FALSE /\ lost = 0 /\ next = 1
    /\ journal = 0 /\ others = 0 /\ held = 0 /\ web = Idle
    /\ pc = "run" /\ due = FALSE /\ recount = FALSE
    /\ counter = 0 /\ pending = 0 /\ last = NoUse
    /\ todo = <<>> /\ current = 0 /\ freed = 0
    /\ shrunk = FALSE /\ misread = FALSE
    /\ left = Budget[mode]

Pass ==
    \/ Tick \/ EnforceBegins \/ Scan \/ EndPass
    \/ RemoveTemporary \/ RemoveOrphan \/ RemoveSegment \/ RemoveItsIndex

Next ==
    \/ AppendJournal \/ Publish \/ PublishFails \/ Minute \/ Hour
    \/ Pass \/ EnforceFails \/ RemoveFails
    \/ BuildIndex \/ ConfirmSource \/ PublishIndex \/ AbandonIndex \/ KillWeb
    \/ CloseFiles \/ OthersChange
    \/ Kill \/ PowerLoss \/ Start

Spec == Init /\ [][Next]_vars

\* Time passes, the collector's loop runs, and a supervisor starts it again.
FairSpec == Spec /\ WF_vars(Pass) /\ WF_vars(Minute) /\ WF_vars(Hour) /\ WF_vars(Start)

-----------------------------------------------------------------------------
(* Properties. *)

\* The values the variables range over.
TypeOK ==
    /\ mode \in Modes
    /\ zms \subseteq Segments /\ idx \subseteq Segments
    /\ temp \in BOOLEAN /\ lost \in Nat /\ next \in 1..MaxSegment + 1
    /\ journal \in 0..MaxJournal /\ others \in 0..MaxOthers /\ held \in Nat
    /\ web \in [pc : {"idle", "build", "rename"}, id : Segments \cup {0}]
    /\ pc \in {"down", "run", "enforce", "scan", "remove", "pair"}
    /\ due \in BOOLEAN /\ recount \in BOOLEAN
    /\ counter \in Nat /\ pending \in Nat /\ last \in Nat \cup {NoUse}
    /\ todo \in Seq([kind : {"temporary", "orphan", "segment"}, id : 1..MaxSegment + 1])
    /\ current \in Nat /\ freed \in Nat
    /\ shrunk \in BOOLEAN /\ misread \in BOOLEAN
    /\ left \in 0..Budget[mode]

\* What is retained is the newest part of the history without a gap, and never
\* nothing, whatever removals failed or were cut short (deletion_candidates:
\* oldest first, the last segment is kept; enforce: an error ends the pass).
NewestHistoryKept ==
    /\ next > 1 => next - 1 \in zms
    /\ \A old \in zms : old..next - 1 \subseteq zms

\* A segment in place never loses its index to retention, even when a stop cuts
\* a removal in two: only an index without its segment may stay behind
\* (remove_finished_segment, remove_orphan_index).
LiveSegmentKeepsIndex ==
    [][\A id \in idx \cap zms : id \in zms' => id \in idx']_vars

\* The bytes that removing an old segment must be for: the counted files and the
\* journal, or what the partition will use once readers close removed files.
Need == IF mode = "fixed" THEN Countable + journal ELSE Live

\* A segment is removed only while what is stored exceeds the target: neither a
\* stale counter, nor a removal that failed, nor bytes that readers still hold
\* make a pass remove more history.  Exempt are what the pass counted and the
\* web process dropped since, and, in auto mode, drops in use that are not
\* reclaims (usage, reconcile_pending_reclaim, enforce).
NoNeedlessRemoval ==
    [][RemoveSegment => Need > Target \/ shrunk \/ misread]_vars

\* With a fixed budget the files it counts return below the target, or one
\* segment is left, however they came to exceed it: uncounted publications,
\* indexes of the web process, failed and partial removals, restarts
\* (maybe_enforce, and the hourly recount of enforce).
WithinTarget == Countable + journal <= Target \/ Cardinality(zms) <= 1
ReturnsToTarget == mode = "fixed" => []<>WithinTarget
=============================================================================
