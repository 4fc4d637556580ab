------------------------- MODULE SegmentStoreProofs -------------------------
(***************************************************************************)
(* Proofs about SegmentStore for any number of rows, identities, values    *)
(* and faults.  The invariant says, beside what is proved, what each step  *)
(* of a publication has already established for the steps after it.        *)
(***************************************************************************)
EXTENDS SegmentStore, TLAPS

Usable == {"ready", "append", "reset", "cleared"}

\* The journal's status is the one the next step of the collector needs, and a
\* usable journal shows every window it was acknowledged.
JournalInv ==
    /\ pc = "appending" => status = "append"
    /\ pc = "resetting" => status = "reset" /\ asked
    /\ pc = "finishing" => status = "cleared"
    /\ status \in Usable => kept \subseteq view
    /\ status = "cleared" => view = {}

\* A row in hand is being appended; a window in flight has the identity of the
\* journal.
AppendInv ==
    /\ pc \in {"build", "appending"} => row \in Rows
    /\ pc = "appending" => pending \in Windows /\ \A w \in view : w.id = pending.id

\* Nothing is published, and the collector does not start, with an open segment.
ClosedInv ==
    pc \in Publishing \cup {"down"} => firstId = NoId /\ ~hasSettings /\ dict = NoDict

\* What the open segment believes to have written is in the journal, also while
\* a window is in flight, which carries all that is to count as written next.
FlagsInv ==
    /\ pc \in {"idle", "build", "appending"} =>
          /\ hasSettings => \E w \in view : w.settings
          /\ dict.flushed \subseteq UNION {w.defs : w \in view}
    /\ pc = "appending" => pending.defs = dict.window

\* No file gets a final name before its windows are synchronised.
NamesInv == \A i \in Ids : segs[i] = NoFile \/ segs[i].synced

\* What a publication has done so far.
PublishInv ==
    /\ pc \in {"sync_temp", "link", "compare", "discard"} => temp.windows = view
    /\ pc \in {"link", "compare", "discard"} => temp.synced
    /\ pc = "compare" => segs[target] # NoFile
    /\ pc \in {"sync_day", "discard", "unlink", "reset", "resetting"} =>
          segs[target].windows = view /\ segs[target].synced
    /\ pc \in {"unlink", "reset", "resetting"} => segs[target].durable

IInv ==
    /\ TypeOK /\ NoWindowLost /\ SegmentMatchesJournal
    /\ JournalInv /\ AppendInv /\ ClosedInv /\ FlagsInv /\ NamesInv /\ PublishInv

USE SizesAssumption, UsesAssumption, BudgetAssumption

-----------------------------------------------------------------------------
(* Values. *)

\* A fault that happens leaves a number of faults of each kind.
LEMMA FaultTypes ==
    ASSUME TypeOK, NEW f \in Faults, Fault(f)
    PROVE  left' \in [Faults -> Nat]
  BY DEF TypeOK, Fault

\* A settled file shows one set of windows.
LEMMA SettleTypes ==
    ASSUME NEW windows \in SUBSET Windows, Settle(windows)
    PROVE  shows' \subseteq SUBSET Windows /\ torn' \in BOOLEAN /\ disk' \in Differences
  BY DEF Settle, Differences

\* What an append adds is a window.
LEMMA EncodedTypes ==
    ASSUME TypeOK, row \in Rows
    PROVE  /\ Interned \in [flushed : SUBSET Strings, window : SUBSET Strings]
           /\ Interned.flushed = dict.flushed
           /\ \A id \in Ids :
                 /\ Encoded(id) \in Windows
                 /\ Encoded(id).id = id /\ Encoded(id).defs = Interned.window
  BY DEF TypeOK, Interned, Encoded, Windows

\* The identity of a nonempty journal is that of one of its windows.
LEMMA IdentityTypes ==
    ASSUME NEW windows \in SUBSET Windows, windows # {}
    PROVE  IdOf(windows) \in Ids
  BY DEF IdOf, Windows

-----------------------------------------------------------------------------
(* Files under their final names. *)

\* A power loss leaves every synchronised file under a synchronised name as it
\* was, and brings no file back whose windows were not synchronised.
LEMMA SurvivorsOf ==
    ASSUME NEW file \in Files, file = NoFile \/ file.synced, NEW found \in Survivors(file)
    PROVE  /\ found \in Files
           /\ found = NoFile \/ found.synced
           /\ found = NoFile \/ (file # NoFile /\ found.windows = file.windows)
           /\ file.durable => found = file
  <1>1. CASE file = NoFile
    BY <1>1 DEF NoFile, Survivors
  <1>2. CASE file # NoFile
    <2>1. file.synced /\ file \in Files
      BY <1>2
    <2>2. PICK named : named = [file EXCEPT !.windows = file.windows, !.durable = TRUE]
      OBVIOUS
    <2>3. found \in IF file.durable THEN {named} ELSE {NoFile, named}
      BY <1>2, <2>1, <2>2 DEF Survivors
    <2>4. file.durable => named = file
      BY <2>1, <2>2 DEF Files
    <2>5. named \in Files /\ NoFile \in Files /\ named.synced /\ named.windows = file.windows
      BY <2>1, <2>2 DEF Files, NoFile
    <2> QED
      BY <1>2, <2>3, <2>4, <2>5
  <1> QED
    BY <1>1, <1>2

\* Every change of a directory is one of these.
SegsStep ==
    \/ UNCHANGED segs
    \/ pc = "link" /\ segs[target] = NoFile /\ segs' = [segs EXCEPT ![target] = temp]
    \/ pc \in {"sync_day", "discard"} /\ segs' = [segs EXCEPT ![target].durable = TRUE]
    \/ segs' \in [Ids -> Files] /\ \A i \in Ids : segs'[i] \in Survivors(segs[i])

\* What a step may do to the segment files.
LEMMA SegsChanges ==
    ASSUME TypeOK, NamesInv, [Next]_vars
    PROVE  SegsStep
  <1>1. CASE UNCHANGED vars
    BY <1>1 DEF SegsStep, vars
  <1>2. CASE Startup \/ Collect \/ Append \/ Expire \/ Seal \/ PublishFails \/ ResetFails
    BY <1>2
    DEF SegsStep, Startup, OpenJournal, OpenFinishesReset, OpenRefuses, Collect, Append,
        AppendBegin, AppendStays, AppendCloses, AppendErr, AppendBroken, JournalFull, WindowFails,
        Expire, Seal, PublishFails, ResetFails
  <1>3. CASE Publish
    BY <1>3
    DEF SegsStep, Publish, WriteTemp, SyncTemp, Link, SyncDay, Unlink, Compare, Discard,
        ResetBegin, ResetCommit, ResetDone
  <1>4. CASE Exit \/ Kill
    BY <1>4 DEF SegsStep, Exit, Kill
  <1>5. CASE PowerLoss
    <2>1. \A i \in Ids : segs'[i] \in Survivors(segs[i]) /\ segs'[i] \in Files
      BY <1>5, SurvivorsOf DEF PowerLoss, TypeOK, NamesInv
    <2>2. \E S : segs' \in [Ids -> S]
      BY <1>5 DEF PowerLoss
    <2> QED
      BY <2>1, <2>2 DEF SegsStep
  <1> QED
    BY <1>1, <1>2, <1>3, <1>4, <1>5 DEF Next, Stops

\* A segment that is on disk stays there as it is, whatever the step.
LEMMA DurableStays ==
    ASSUME IInv, [Next]_vars, NEW i \in Ids, segs[i].durable
    PROVE  segs'[i] = segs[i]
  <1>1. segs \in [Ids -> Files] /\ segs[i] # NoFile /\ segs[i].synced
    BY DEF IInv, TypeOK, NamesInv, NoFile
  <1>2. SegsStep
    BY SegsChanges DEF IInv
  <1>3. CASE pc \in {"sync_day", "discard"} /\ segs' = [segs EXCEPT ![target].durable = TRUE]
    BY <1>1, <1>3 DEF Files
  <1>4. CASE segs' \in [Ids -> Files] /\ \A j \in Ids : segs'[j] \in Survivors(segs[j])
    BY <1>1, <1>4, SurvivorsOf
  <1> QED
    BY <1>1, <1>2, <1>3, <1>4 DEF SegsStep

\* So a window that is safe stays safe.
LEMMA SafeStays ==
    ASSUME IInv, [Next]_vars
    PROVE  \A w : Safe(w) => Safe(w)'
  BY DurableStays DEF Safe

\* Files keep their type, and no final name is given before the windows are
\* synchronised: link follows SyncTemp.
LEMMA NamesStep ==
    ASSUME IInv, [Next]_vars
    PROVE  NamesInv' /\ segs' \in [Ids -> Files]
  <1>1. SegsStep /\ segs \in [Ids -> Files] /\ temp \in Files /\ NamesInv
    BY SegsChanges DEF IInv, TypeOK
  <1>2. CASE UNCHANGED segs
    BY <1>1, <1>2 DEF NamesInv
  <1>3. CASE pc = "link" /\ segs' = [segs EXCEPT ![target] = temp]
    <2>1. temp.synced
      BY <1>3 DEF IInv, PublishInv
    <2> QED
      BY <1>1, <1>3, <2>1 DEF NamesInv
  <1>4. CASE pc \in {"sync_day", "discard"} /\ segs' = [segs EXCEPT ![target].durable = TRUE]
    <2>1. segs[target].synced
      BY <1>4 DEF IInv, PublishInv
    <2> QED
      BY <1>1, <1>4, <2>1 DEF NamesInv, Files
  <1>5. CASE segs' \in [Ids -> Files] /\ \A i \in Ids : segs'[i] \in Survivors(segs[i])
    BY <1>1, <1>5, SurvivorsOf DEF NamesInv
  <1> QED
    BY <1>1, <1>2, <1>3, <1>4, <1>5 DEF SegsStep

-----------------------------------------------------------------------------
(* Acknowledged windows. *)

\* Every change of what the journal has to keep is one of these: none, an append
\* that returned Ok, a reset that is asked for, a reset that happens.
KeptStep ==
    \/ UNCHANGED <<kept, acked>> /\ asked' \in {FALSE, asked}
    \/ /\ pc = "appending" /\ status = "append"
       /\ kept' = view \cup {pending} /\ acked' = acked \cup {pending} /\ asked' = FALSE
    \/ pc = "reset" /\ status = "ready" /\ UNCHANGED <<kept, acked>> /\ asked' = TRUE
    \/ (asked \/ kept = {}) /\ kept' = {} /\ asked' = FALSE /\ UNCHANGED acked

\* What a step may do to the windows in the journal.
LEMMA KeptChanges ==
    ASSUME IInv, [Next]_vars
    PROVE  KeptStep
  <1> USE DEF KeptStep, journalVars, ForgetMemory, Acknowledged
  <1>1. CASE UNCHANGED vars
    BY <1>1 DEF vars
  <1>2. CASE Startup \/ Collect \/ Expire \/ Seal
    BY <1>2
    DEF Startup, OpenJournal, OpenFinishesReset, OpenRefuses, Collect, Expire, Seal,
        J!Start, J!CompleteReset
  <1>3. CASE Append
    BY <1>3
    DEF Append, AppendBegin, AppendStays, AppendCloses, AppendErr, AppendBroken, JournalFull,
        WindowFails, J!BeginAppend, J!Acknowledge, J!Reject, J!Break
  <1>4. CASE Publish \/ PublishFails \/ ResetFails
    BY <1>4
    DEF IInv, JournalInv, Publish, WriteTemp, SyncTemp, Link, SyncDay, Unlink, Compare, Discard,
        ResetBegin, ResetCommit, ResetDone, PublishFails, ResetFails,
        J!BeginReset, J!Commit, J!FinishReset, J!RejectReset, J!Break
  <1>5. CASE Stops
    BY <1>5 DEF Stops, Exit, Kill, PowerLoss, J!Stop
  <1> QED
    BY <1>1, <1>2, <1>3, <1>4, <1>5 DEF Next

\* A reset is only asked for when every window the journal shows is safe in the
\* segment published before.
LEMMA LossStep ==
    ASSUME IInv, [Next]_vars
    PROVE  NoWindowLost'
  <1> SUFFICES ASSUME NEW w \in acked' PROVE Safe(w)' \/ (w \in kept' /\ ~asked')
    BY DEF NoWindowLost
  <1>1. KeptStep /\ (Safe(w) => Safe(w)')
    BY KeptChanges, SafeStays
  <1>2. w \in acked => Safe(w) \/ (w \in kept /\ ~asked)
    BY DEF IInv, NoWindowLost
  <1>3. CASE UNCHANGED <<kept, acked>> /\ asked' \in {FALSE, asked}
    BY <1>1, <1>2, <1>3
  <1>4. CASE /\ pc = "appending" /\ status = "append"
             /\ kept' = view \cup {pending} /\ acked' = acked \cup {pending} /\ asked' = FALSE
    <2>1. kept \subseteq view
      BY <1>4 DEF IInv, JournalInv, Usable
    <2> QED
      BY <1>1, <1>2, <1>4, <2>1
  <1>5. CASE pc = "reset" /\ status = "ready" /\ UNCHANGED <<kept, acked>> /\ asked' = TRUE
    <2>1. kept \subseteq view /\ target \in Ids
      BY <1>5 DEF IInv, JournalInv, Usable, TypeOK, Publishing
    <2>2. segs[target].windows = view /\ segs[target].synced /\ segs[target].durable
      BY <1>5 DEF IInv, PublishInv
    <2>3. w \in kept => Safe(w)
      BY <2>1, <2>2 DEF Safe
    <2> QED
      BY <1>1, <1>2, <1>5, <2>3
  <1>6. CASE (asked \/ kept = {}) /\ kept' = {} /\ asked' = FALSE /\ UNCHANGED acked
    BY <1>1, <1>2, <1>6
  <1> QED
    BY <1>1, <1>3, <1>4, <1>5, <1>6 DEF KeptStep

-----------------------------------------------------------------------------
(* The steps, without what NamesStep and LossStep say of them. *)

Control ==
    /\ SegmentMatchesJournal /\ JournalInv /\ AppendInv /\ ClosedInv /\ FlagsInv
    /\ PublishInv

\* A start publishes what the journal shows, under the identity it shows.
LEMMA StartStep ==
    ASSUME IInv, Startup
    PROVE  TypeOK' /\ Control'
  <1> USE DEF IInv, TypeOK, Control, SegmentMatchesJournal, JournalInv, AppendInv, ClosedInv,
              FlagsInv, PublishInv, Publishing, Usable, J!Statuses
  <1>1. CASE OpenJournal
    <2>1. PICK found \in shows :
              /\ view' = found /\ shows' = {found}
              /\ IF found = {}
                 THEN pc' = "idle" /\ UNCHANGED target
                 ELSE pc' = "write" /\ target' = IdOf(found)
      BY <1>1 DEF OpenJournal
    <2>2. found \subseteq Windows /\ (found # {} => IdOf(found) \in Ids)
      BY <2>1, IdentityTypes
    <2>3. TypeOK'
      <3>1. shows' \subseteq SUBSET Windows /\ view' \subseteq Windows
        BY <2>1, <2>2
      <3>2. target' \in Ids \cup {NoId} /\ (pc' # "idle" => target' \in Ids)
        BY <2>1, <2>2
      <3> QED
        BY <1>1, <2>1, <3>1, <3>2 DEF OpenJournal, J!Start, segmentVars, rowVars
    <2>4. Control'
      BY <1>1, <2>1, <2>2 DEF OpenJournal, J!Start, NoDict, segmentVars, rowVars
    <2> QED
      BY <2>3, <2>4
  <1>2. CASE OpenFinishesReset
    BY <1>2
    DEF OpenFinishesReset, J!CompleteReset, Settle, segmentVars, rowVars, publishVars, Differences
  <1>3. CASE OpenRefuses
    BY <1>3 DEF OpenRefuses, journalVars, fileVars, segmentVars, rowVars, publishVars
  <1> QED
    BY <1>1, <1>2, <1>3 DEF Startup

\* The segment and the journal keep agreeing whatever becomes of an append.
LEMMA AppendStep ==
    ASSUME IInv, Append
    PROVE  TypeOK' /\ Control'
  <1> USE DEF IInv, TypeOK, Control, SegmentMatchesJournal, JournalInv, AppendInv, ClosedInv,
              FlagsInv, PublishInv, Publishing, Usable, J!Statuses, Differences
  <1>1. CASE AppendBegin
    <2>1. PICK id \in Ids :
              WindowId(id) /\ (\A w \in view : w.id = id) /\ pending' = Encoded(id)
      BY <1>1 DEF AppendBegin
    <2>2. /\ Interned \in [flushed : SUBSET Strings, window : SUBSET Strings]
          /\ Interned.flushed = dict.flushed
          /\ pending' \in Windows /\ pending'.id = id /\ pending'.defs = Interned.window
      BY <1>1, <2>1, EncodedTypes DEF AppendBegin
    <2>3. clock' \in 0..MaxId /\ left' \in [Faults -> Nat]
      <3>1. clock' \in {clock, id} /\ (UNCHANGED left \/ Fault("clock"))
        BY <2>1 DEF WindowId
      <3>2. left' \in [Faults -> Nat]
        BY <3>1, FaultTypes DEF Faults
      <3>3. id \in 0..MaxId /\ clock \in 0..MaxId
        BY DEF Ids
      <3> QED
        BY <3>1, <3>2, <3>3
    <2>4. TypeOK'
      BY <1>1, <2>2, <2>3
      DEF AppendBegin, J!BeginAppend, Unsettle, rowVars, publishVars
    <2>5. Control'
      BY <1>1, <2>1, <2>2 DEF AppendBegin, J!BeginAppend, rowVars, publishVars
    <2> QED
      BY <2>4, <2>5
  <1>2. CASE AppendStays
    <2>1. pending.id \in Ids
      BY <1>2 DEF AppendStays, Acknowledged, Windows
    <2>2. TypeOK'
      BY <1>2, <2>1
      DEF AppendStays, Acknowledged, J!Acknowledge, Settle, publishVars
    <2>3. Control'
      BY <1>2, <2>1
      DEF AppendStays, Acknowledged, J!Acknowledge, publishVars, Ids, NoId
    <2> QED
      BY <2>2, <2>3
  <1>3. CASE AppendCloses
    <2>1. pending.id \in Ids
      BY <1>3 DEF AppendCloses, Acknowledged, Windows
    <2>2. TypeOK'
      BY <1>3, <2>1
      DEF AppendCloses, Acknowledged, J!Acknowledge, Settle, Close, NoDict
    <2>3. Control'
      BY <1>3, <2>1 DEF AppendCloses, Acknowledged, J!Acknowledge, Close
    <2> QED
      BY <2>2, <2>3
  <1>4. CASE AppendErr
    <2>1. left' \in [Faults -> Nat]
      BY <1>4, FaultTypes DEF AppendErr, Faults
    <2>2. TypeOK'
      <3>1. shows' \subseteq SUBSET Windows /\ torn' \in BOOLEAN /\ disk' \in Differences
        <4>1. view \in SUBSET Windows /\ Settle(view)
          BY <1>4 DEF AppendErr
        <4> QED
          BY <4>1, SettleTypes
      <3>2. doubt' \subseteq Windows /\ status' \in J!Statuses /\ asked' \in BOOLEAN
            /\ pending' \in Windows \cup {NoWindow}
        BY <1>4 DEF AppendErr, J!Reject
      <3> QED
        BY <1>4, <2>1, <3>1, <3>2 DEF AppendErr, J!Reject, segmentVars, publishVars
    <2>3. Control'
      BY <1>4 DEF AppendErr, J!Reject, segmentVars, publishVars
    <2> QED
      BY <2>2, <2>3
  <1>5. CASE AppendBroken
    <2>1. left' \in [Faults -> Nat]
      BY <1>5, FaultTypes DEF AppendBroken, Faults
    <2>2. TypeOK'
      BY <1>5, <2>1 DEF AppendBroken, J!Break, segmentVars, publishVars
    <2>3. Control'
      BY <1>5 DEF AppendBroken, J!Break, segmentVars, publishVars
    <2> QED
      BY <2>2, <2>3
  <1>6. CASE JournalFull
    <2>1. TypeOK'
      BY <1>6 DEF JournalFull, Close, NoDict, journalVars, fileVars, rowVars
    <2>2. Control'
      BY <1>6 DEF JournalFull, Close, NoDict, journalVars, fileVars, rowVars
    <2> QED
      BY <2>1, <2>2
  <1>7. CASE WindowFails
    <2>1. /\ dict' \in [flushed : SUBSET Strings, window : SUBSET Strings]
          /\ dict'.flushed = dict.flushed
      BY <1>7, EncodedTypes DEF WindowFails
    <2> QED
      BY <1>7, <2>1 DEF WindowFails, journalVars, fileVars, publishVars
  <1> QED
    BY <1>1, <1>2, <1>3, <1>4, <1>5, <1>6, <1>7 DEF Append

\* What happens beside appending and publishing.
LEMMA LoopStep ==
    ASSUME IInv, Collect \/ Expire \/ Seal
    PROVE  TypeOK' /\ Control'
  <1> USE DEF IInv, TypeOK, Control, SegmentMatchesJournal, JournalInv, AppendInv, ClosedInv,
              FlagsInv, PublishInv, Publishing, Usable, J!Statuses
  <1>1. CASE Collect
    BY <1>1 DEF Collect, Rows, NoRow, journalVars, fileVars, segmentVars, publishVars
  <1>2. CASE Expire
    BY <1>2 DEF Expire, journalVars, fileVars, rowVars, publishVars
  <1>3. CASE Seal
    <2>1. TypeOK'
      BY <1>3 DEF Seal, Close, NoDict, journalVars, fileVars, rowVars
    <2>2. Control'
      BY <1>3 DEF Seal, Close, NoDict, journalVars, fileVars, rowVars
    <2> QED
      BY <2>1, <2>2
  <1> QED
    BY <1>1, <1>2, <1>3

\* Each step of a publication hands on what it has established; reset leaves an
\* empty journal and no open segment.
LEMMA PublishStep ==
    ASSUME IInv, Publish
    PROVE  TypeOK' /\ Control'
  <1> USE DEF IInv, TypeOK, Control, SegmentMatchesJournal, JournalInv, AppendInv, ClosedInv,
              FlagsInv, PublishInv, Publishing, Usable, J!Statuses
  <1>0. segs' \in [Ids -> Files]
    BY NamesStep DEF Next
  <1>1. CASE WriteTemp
    <2>1. temp' \in Files /\ temp'.windows = view
      BY <1>1 DEF WriteTemp, Files
    <2> QED
      BY <1>1, <2>1 DEF WriteTemp, journalVars, fileVars, segmentVars, rowVars
  <1>2. CASE SyncTemp
    <2>1. temp' \in Files /\ temp'.windows = view /\ temp'.synced
      BY <1>2 DEF SyncTemp, Files
    <2> QED
      BY <1>2, <2>1 DEF SyncTemp, journalVars, fileVars, segmentVars, rowVars
  <1>3. CASE Link
    <2>1. target \in Ids /\ temp.windows = view /\ temp.synced
      BY <1>3 DEF Link
    <2>2. CASE segs[target] = NoFile
      BY <1>0, <1>3, <2>1, <2>2
      DEF Link, journalVars, fileVars, segmentVars, rowVars, publishVars
    <2>3. CASE segs[target] # NoFile
      BY <1>3, <2>1, <2>3
      DEF Link, journalVars, fileVars, segmentVars, rowVars, publishVars
    <2> QED
      BY <2>2, <2>3
  <1>4. CASE SyncDay
    <2>1. /\ target \in Ids
          /\ segs'[target].windows = view /\ segs'[target].synced /\ segs'[target].durable
      BY <1>4 DEF SyncDay, Files
    <2> QED
      BY <1>0, <1>4, <2>1 DEF SyncDay, journalVars, fileVars, segmentVars, rowVars, publishVars
  <1>5. CASE Unlink
    BY <1>5 DEF Unlink, NoFile, Files, journalVars, fileVars, segmentVars, rowVars
  <1>6. CASE Compare
    <2>1. target \in Ids /\ segs[target].synced
      BY <1>6 DEF Compare, NamesInv
    <2> QED
      BY <1>6, <2>1 DEF Compare, journalVars, fileVars, segmentVars, rowVars, publishVars
  <1>7. CASE Discard
    <2>1. /\ target \in Ids
          /\ segs'[target].windows = view /\ segs'[target].synced /\ segs'[target].durable
      BY <1>7 DEF Discard, Files
    <2> QED
      BY <1>0, <1>7, <2>1 DEF Discard, NoFile, Files, journalVars, fileVars, segmentVars, rowVars
  <1>8. CASE ResetBegin
    BY <1>8
    DEF ResetBegin, J!BeginReset, Unsettle, Differences, segmentVars, rowVars, publishVars
  <1>9. CASE ResetCommit
    BY <1>9 DEF ResetCommit, J!Commit, Settle, Differences, segmentVars, rowVars, publishVars
  <1>10. CASE ResetDone
    BY <1>10 DEF ResetDone, J!FinishReset, NoDict, fileVars, segmentVars, rowVars
  <1> QED
    BY <1>1, <1>2, <1>3, <1>4, <1>5, <1>6, <1>7, <1>8, <1>9, <1>10 DEF Publish

\* A failed publication or reset ends the process.
LEMMA FailStep ==
    ASSUME IInv, PublishFails \/ ResetFails
    PROVE  TypeOK' /\ Control'
  <1> USE DEF IInv, TypeOK, Control, SegmentMatchesJournal, JournalInv, AppendInv, ClosedInv,
              FlagsInv, PublishInv, Publishing, Usable, J!Statuses
  <1>1. left' \in [Faults -> Nat]
    BY FaultTypes DEF PublishFails, ResetFails, Faults
  <1>2. CASE PublishFails
    BY <1>1, <1>2
    DEF PublishFails, journalVars, fileVars, segmentVars, rowVars, publishVars
  <1>3. CASE ResetFails
    <2>1. shows' \subseteq SUBSET Windows /\ torn' \in BOOLEAN /\ disk' \in Differences
      <3>1. view \in SUBSET Windows /\ (Settle(view) \/ UNCHANGED fileVars)
        BY <1>3 DEF ResetFails
      <3>2. CASE Settle(view)
        BY <3>1, <3>2, SettleTypes
      <3> QED
        BY <3>1, <3>2 DEF fileVars
    <2>2. /\ status' \in {"ready", "broken"} /\ view' \in {view, {}} /\ asked' \in BOOLEAN
          /\ pending' \in {pending, NoWindow} /\ UNCHANGED <<kept, doubt>>
          /\ status' # "broken" => view' = view
      BY <1>3 DEF ResetFails, J!RejectReset, J!Break
    <2>3. TypeOK'
      BY <1>1, <1>3, <2>1, <2>2 DEF ResetFails, segmentVars, rowVars, publishVars
    <2>4. Control'
      BY <1>3, <2>2 DEF ResetFails, segmentVars, rowVars, publishVars
    <2> QED
      BY <2>3, <2>4
  <1> QED
    BY <1>2, <1>3

\* A stop leaves files, and of the memory nothing.
LEMMA StopStep ==
    ASSUME IInv, Stops
    PROVE  TypeOK' /\ Control'
  <1> USE DEF IInv, TypeOK, Control, SegmentMatchesJournal, JournalInv, AppendInv, ClosedInv,
              FlagsInv, PublishInv, Publishing, Usable, J!Statuses, Differences
  <1>1. segs' \in [Ids -> Files]
    BY NamesStep DEF Next
  <1>2. ForgetMemory
    BY DEF Stops, Exit, Kill, PowerLoss
  <1>3. Control'
    BY <1>2 DEF ForgetMemory, J!Stop
  <1>4. /\ left' \in [Faults -> Nat] /\ UNCHANGED <<nextRow, clock, acked>>
        /\ shows' \subseteq SUBSET Windows /\ torn' \in BOOLEAN /\ disk' \in Differences
    <2>1. CASE Exit
      BY <2>1 DEF Exit, fileVars
    <2>2. CASE Kill
      BY <2>2, FaultTypes DEF Kill, Faults
    <2>3. CASE PowerLoss
      <3>1. left' \in [Faults -> Nat]
        BY <2>3, FaultTypes DEF PowerLoss, Faults
      <3>2. UNION shows \subseteq Windows
        OBVIOUS
      <3>3. kept \cup Surfacing \subseteq Windows
        BY <3>2 DEF Surfacing
      <3>4. UNCHANGED <<nextRow, clock, acked>>
        BY <2>3 DEF PowerLoss
      <3>5. CASE disk = "none"
        BY <2>3, <3>1, <3>4, <3>5 DEF PowerLoss, fileVars
      <3>6. CASE disk # "none"
        <4>1. \A found \in SUBSET (kept \cup Surfacing) : found \subseteq Windows
          BY <3>3
        <4> QED
          BY <2>3, <3>1, <3>4, <3>6, <4>1 DEF PowerLoss
      <3> QED
        BY <3>5, <3>6
    <2> QED
      BY <2>1, <2>2, <2>3 DEF Stops
  <1>5. TypeOK'
    BY <1>1, <1>2, <1>4 DEF ForgetMemory, J!Stop, NoDict, NoFile, Files
  <1> QED
    BY <1>3, <1>5

-----------------------------------------------------------------------------
(* Theorems. *)

\* The first invariant holds at the start.
LEMMA Start == Init => IInv
  <1> SUFFICES ASSUME Init PROVE IInv
    OBVIOUS
  <1>1. TypeOK
    <2>1. nextRow \in 1..MaxRow + 1 /\ clock \in 0..MaxId /\ left \in [Faults -> Nat]
      BY DEF Init
    <2>2. shows \subseteq SUBSET Windows /\ torn \in BOOLEAN /\ disk \in Differences
      BY DEF Init, Differences
    <2>3. NoFile \in Files
      BY DEF NoFile, Files
    <2> QED
      BY <2>1, <2>2, <2>3 DEF Init, TypeOK, J!Init, J!Statuses, NoDict, Publishing
  <1>2. NoWindowLost /\ NamesInv
    BY DEF Init, NoWindowLost, NamesInv
  <1>3. Control
    BY DEF Init, J!Init, Control, SegmentMatchesJournal, JournalInv, AppendInv, ClosedInv,
           FlagsInv, PublishInv, Usable
  <1> QED
    BY <1>1, <1>2, <1>3 DEF IInv, Control

\* The first invariant is inductive.
LEMMA Step == IInv /\ [Next]_vars => IInv'
  <1> SUFFICES ASSUME IInv, [Next]_vars PROVE IInv'
    OBVIOUS
  <1>1. NamesInv' /\ NoWindowLost'
    BY NamesStep, LossStep
  <1>2. TypeOK' /\ Control'
    <2>1. CASE UNCHANGED vars
      BY <2>1
      DEF IInv, TypeOK, Control, SegmentMatchesJournal, JournalInv, AppendInv, ClosedInv,
          FlagsInv, PublishInv, vars, journalVars, fileVars, segmentVars, rowVars, publishVars
    <2> QED
      BY <2>1, StartStep, AppendStep, LoopStep, PublishStep, FailStep, StopStep DEF Next
  <1> QED
    BY <1>1, <1>2 DEF IInv, Control

\* The inductive invariant holds in every reachable state.
THEOREM Invariance == Spec => []IInv
  BY Start, Step, PTL DEF Spec

\* Type correctness, and an identity for every segment that is published.
THEOREM TypeCorrect == Spec => []TypeOK
  <1>1. IInv => TypeOK
    BY DEF IInv
  <1> QED
    BY <1>1, Invariance, PTL

\* An acknowledged window is in a synchronised segment under a synchronised
\* name, or in the journal with no reset that a restart could complete: through
\* kills, power losses, failed calls and identities given twice.
THEOREM WindowsSurvive == Spec => []NoWindowLost
  <1>1. IInv => NoWindowLost
    BY DEF IInv
  <1> QED
    BY <1>1, Invariance, PTL

\* Between operations the open segment's identity is that of every window in
\* the journal, and absent when the journal is empty.
THEOREM SegmentAgreesWithJournal == Spec => []SegmentMatchesJournal
  <1>1. IInv => SegmentMatchesJournal
    BY DEF IInv
  <1> QED
    BY <1>1, Invariance, PTL

\* Settings that will not be repeated and dictionary entries that will not be
\* stored again are in a window of the journal.
THEOREM OpenSegmentIsTruthful == Spec => []FlagsTruthful
  <1>1. IInv => FlagsTruthful
    BY DEF IInv, FlagsInv, FlagsTruthful
  <1> QED
    BY <1>1, Invariance, PTL

\* A segment on disk is never replaced, shortened or removed by the collector,
\* whatever is published under its identity later.
THEOREM PublishedIsImmutable == Spec => PublishedNeverChanges
  <1>1. IInv /\ [Next]_vars =>
            [\A i \in Ids : segs[i].windows # {} /\ segs[i].durable => segs'[i] = segs[i]]_vars
    BY DurableStays
  <1> QED
    BY <1>1, Invariance, PTL DEF Spec, PublishedNeverChanges

-----------------------------------------------------------------------------
(* A second invariant, of states where IInv holds: where windows come from,  *)
(* what they carry, and what an open of the journal may find.                *)

\* Every window there is, also where only a restart would see it.
Live == kept \cup doubt \cup view \cup temp.windows \cup (UNION shows)
            \cup (UNION {segs[i].windows : i \in Ids})

\* Rows are handed out once; a row in hand lies in no window but the one in
\* flight, which is nowhere but in the journal.
RowsInv ==
    /\ row < nextRow
    /\ \A w \in Live : w.row < nextRow
    /\ \A v, w \in Live : v.row = w.row => v = w
    /\ row # NoRow => \A w \in Live : w.row = row => pc = "appending" /\ w = pending
    /\ pc = "appending" =>
          /\ pending.row = row
          /\ pending \notin view /\ pending \notin temp.windows
          /\ \A i \in Ids : pending \notin segs[i].windows

\* The window is readable beside those of base, and alone if there are none.
StandsOn(w, base) ==
    /\ Uses[w.row] \subseteq w.defs \cup UNION {d.defs : d \in base}
    /\ base = {} => w.meta /\ w.settings

\* What was acknowledged is complete, and each window in doubt stands on it: so
\* whatever an open finds of them is complete.
ContentsInv ==
    /\ kept # {} => Complete(kept)
    /\ \A w \in doubt : StandsOn(w, kept)
    /\ view # {} => kept \subseteq view /\ view \subseteq kept \cup doubt
    /\ pc = "down" => view = {}
    /\ pc \in {"idle", "build", "appending"} => view = kept
    /\ pc = "appending" => pending \in doubt

\* active.wal never shows windows of two identities; a journal under
\* publication shows what the handle shows, under the identity of the target.
ShowsInv ==
    /\ \A found \in shows : OneId(found)
    /\ pc \in Publishing \ {"finishing"} => view # {} /\ \A w \in view : w.id = target
    /\ pc \in Publishing \cup {"idle", "build"} => shows = {view}
    /\ pc = "appending" => shows = {view, view \cup {pending}}

\* Faults that were spent stay spent.
WithinBudget == \A f \in Faults : left[f] <= Budget[f]

\* The clock has not stepped back and power was not lost.
NoLoss == left["clock"] = Budget["clock"] /\ left["power"] = Budget["power"]

\* Then a name is taken only by the journal's own windows, and not before they
\* are published.
OwnInv ==
    NoLoss =>
        /\ \A i \in Ids : segs[i] # NoFile => i <= clock
        /\ \A found \in shows : \A w \in found :
              w.id <= clock /\ (segs[w.id] # NoFile => segs[w.id].windows = found)
        /\ pc \in {"idle", "build", "appending"} =>
              \A found \in shows : \A w \in found : segs[w.id] = NoFile

SInv == RowsInv /\ ContentsInv /\ SelfContained /\ ShowsInv /\ WithinBudget /\ OwnInv

-----------------------------------------------------------------------------
(* Rows. *)

\* Where a live window is.
LEMMA InLive ==
    \A w : w \in Live <=> \/ w \in kept \/ w \in doubt \/ w \in view \/ w \in temp.windows
                          \/ \E found \in shows : w \in found
                          \/ \E i \in Ids : w \in segs[i].windows
  <1>1. \A w : w \in UNION {segs[i].windows : i \in Ids} <=> \E i \in Ids : w \in segs[i].windows
    OBVIOUS
  <1>2. \A w : w \in UNION shows <=> \E found \in shows : w \in found
    OBVIOUS
  <1> QED
    BY <1>1, <1>2, Zenon DEF Live

\* A live window is a window.
LEMMA LiveTypes == TypeOK => Live \subseteq Windows
  <1> SUFFICES ASSUME TypeOK, NEW w \in Live PROVE w \in Windows
    OBVIOUS
  <1>1. \A i \in Ids : segs[i].windows \subseteq Windows
    BY DEF TypeOK, Files
  <1>2. temp.windows \subseteq Windows /\ \A found \in shows : found \subseteq Windows
    BY DEF TypeOK, Files
  <1> QED
    BY <1>1, <1>2, InLive DEF TypeOK

\* No file gets windows that exist nowhere else.
LEMMA FilesCopyWindows ==
    ASSUME IInv, [Next]_vars
    PROVE  /\ \A i \in Ids : segs'[i].windows \subseteq segs[i].windows \cup temp.windows
           /\ temp'.windows \subseteq temp.windows \cup view
  <1>1. SegsStep /\ segs \in [Ids -> Files] /\ temp \in Files /\ NamesInv
    BY SegsChanges DEF IInv, TypeOK
  <1>2. NoFile.windows = {}
    BY DEF NoFile
  <1>3. ASSUME NEW i \in Ids
        PROVE  segs'[i].windows \subseteq segs[i].windows \cup temp.windows
    <2>1. CASE pc \in {"sync_day", "discard"} /\ segs' = [segs EXCEPT ![target].durable = TRUE]
      BY <1>1, <2>1 DEF Files
    <2>2. CASE segs' \in [Ids -> Files] /\ \A j \in Ids : segs'[j] \in Survivors(segs[j])
      BY <1>1, <1>2, <2>2, SurvivorsOf DEF NamesInv
    <2> QED
      BY <1>1, <2>1, <2>2 DEF SegsStep
  <1>4. temp'.windows \subseteq temp.windows \cup view
    <2>1. \/ temp' \in {temp, NoFile}
          \/ temp' = [temp EXCEPT !.synced = TRUE]
          \/ temp' = [windows |-> view, synced |-> FALSE, durable |-> FALSE]
      <3>1. CASE UNCHANGED vars
        BY <3>1 DEF vars, publishVars
      <3>2. CASE Startup \/ Collect \/ Expire \/ Seal
        BY <3>2
        DEF Startup, OpenJournal, OpenFinishesReset, OpenRefuses, Collect, Expire, Seal, publishVars
      <3>3. CASE Append
        BY <3>3
        DEF Append, AppendBegin, AppendStays, AppendCloses, AppendErr, AppendBroken, JournalFull,
            WindowFails, publishVars
      <3>4. CASE Publish \/ PublishFails \/ ResetFails
        BY <3>4
        DEF Publish, WriteTemp, SyncTemp, Link, SyncDay, Unlink, Compare, Discard, ResetBegin,
            ResetCommit, ResetDone, PublishFails, ResetFails, publishVars
      <3>5. CASE Stops
        BY <3>5 DEF Stops, Exit, Kill, PowerLoss, ForgetMemory
      <3> QED
        BY <3>1, <3>2, <3>3, <3>4, <3>5 DEF Next
    <2> QED
      BY <1>1, <1>2, <2>1 DEF Files
  <1> QED
    BY <1>3, <1>4

\* Nor does the journal, unless an append puts one there.
LEMMA JournalCopiesWindows ==
    ASSUME IInv, ContentsInv, [Next]_vars, ~AppendBegin
    PROVE  kept' \cup doubt' \cup view' \cup (UNION shows')
              \subseteq kept \cup doubt \cup view \cup (UNION shows)
  <1> USE DEF journalVars, fileVars
  <1>1. CASE UNCHANGED vars
    BY <1>1 DEF vars
  <1>2. CASE OpenJournal
    <2>1. PICK found \in shows : view' = found /\ shows' = {found}
      BY <1>2 DEF OpenJournal
    <2>2. kept' = kept /\ doubt' = doubt
      BY <1>2 DEF OpenJournal, J!Start
    <2> QED
      BY <2>1, <2>2
  <1>3. CASE OpenFinishesReset
    <2>1. kept' = {} /\ doubt' = {} /\ view' = view /\ shows' = {{}}
      BY <1>3 DEF OpenFinishesReset, J!CompleteReset, Settle
    <2> QED
      BY <2>1
  <1>4. CASE OpenRefuses \/ Collect \/ Expire \/ Seal \/ JournalFull \/ WindowFails \/ PublishFails
    BY <1>4 DEF OpenRefuses, Collect, Expire, Seal, JournalFull, WindowFails, PublishFails
  <1>5. CASE AppendStays \/ AppendCloses
    <2>1. /\ pending \in doubt /\ view' = view \cup {pending}
          /\ kept' = view' /\ doubt' = {} /\ shows' = {view'}
      BY <1>5 DEF AppendStays, AppendCloses, Acknowledged, J!Acknowledge, Settle, ContentsInv
    <2> QED
      BY <2>1
  <1>6. CASE AppendErr
    <2>1. kept' = kept /\ view' = view /\ doubt' = doubt \ {pending} /\ shows' = {view}
      BY <1>6 DEF AppendErr, J!Reject, Settle
    <2> QED
      BY <2>1
  <1>7. CASE AppendBroken \/ Exit \/ Kill
    <2>1. kept' = kept /\ view' = {} /\ doubt' = doubt /\ shows' = shows
      BY <1>7 DEF AppendBroken, Exit, Kill, ForgetMemory, J!Break, J!Stop
    <2> QED
      BY <2>1
  <1>8. CASE Publish
    <2>1. \/ UNCHANGED <<kept, doubt, view>> /\ (UNCHANGED shows \/ shows' = {view})
          \/ kept' = {} /\ doubt' = {} /\ view' = {} /\ shows' = {{}}
      BY <1>8
      DEF Publish, WriteTemp, SyncTemp, Link, SyncDay, Unlink, Compare, Discard, ResetBegin,
          ResetCommit, ResetDone, J!BeginReset, J!Commit, J!FinishReset, Settle, Unsettle
    <2> QED
      BY <2>1
  <1>9. CASE ResetFails
    <2>1. /\ UNCHANGED <<kept, doubt>> /\ view' \in {view, {}}
          /\ UNCHANGED shows \/ shows' = {view}
      BY <1>9 DEF ResetFails, J!RejectReset, J!Break, Settle
    <2> QED
      BY <2>1
  <1>10. CASE PowerLoss
    <2>1. kept' = kept /\ doubt' = doubt /\ view' = {}
      BY <1>10 DEF PowerLoss, ForgetMemory, J!Stop
    <2>2. UNCHANGED shows \/ \A found \in shows' : found \subseteq kept \cup Surfacing
      BY <1>10 DEF PowerLoss
    <2>3. Surfacing \subseteq doubt \cup (UNION shows)
      BY DEF Surfacing
    <2> QED
      BY <2>1, <2>2, <2>3
  <1> QED
    BY <1>1, <1>2, <1>3, <1>4, <1>5, <1>6, <1>7, <1>8, <1>9, <1>10
    DEF Next, Startup, Append, Stops

\* So a window is new only when an append begins.
LEMMA WindowsComeFromAppends ==
    ASSUME IInv, ContentsInv, [Next]_vars
    PROVE  IF AppendBegin THEN Live' \subseteq Live \cup {pending'} ELSE Live' \subseteq Live
  <1>1. \A w : w \in Live' =>
            \/ w \in kept' \cup doubt' \cup view' \cup (UNION shows')
            \/ w \in temp'.windows \/ \E i \in Ids : w \in segs'[i].windows
    <2>1. \A w : w \in UNION {segs'[i].windows : i \in Ids} => \E i \in Ids : w \in segs'[i].windows
      OBVIOUS
    <2> QED
      BY <2>1 DEF Live
  <1>2. \A w : w \in temp'.windows \/ (\E i \in Ids : w \in segs'[i].windows) => w \in Live
    BY FilesCopyWindows, InLive
  <1>3. CASE AppendBegin
    <2>1. /\ kept' = kept /\ view' = view /\ doubt' = doubt \cup {pending'}
          /\ shows' = {view, view \cup {pending'}}
      BY <1>3 DEF AppendBegin, J!BeginAppend, Unsettle
    <2>2. kept' \cup doubt' \cup view' \cup (UNION shows') \subseteq Live \cup {pending'}
      BY <2>1, InLive
    <2> QED
      BY <1>1, <1>2, <1>3, <2>2
  <1>4. CASE ~AppendBegin
    <2>1. kept \cup doubt \cup view \cup (UNION shows) \subseteq Live
      BY InLive
    <2> QED
      BY <1>1, <1>2, <1>4, <2>1, JournalCopiesWindows
  <1> QED
    BY <1>3, <1>4

\* Collect hands out the next row, AppendBegin stores it, and only a refused
\* append keeps it in hand, which leaves its window nowhere.
LEMMA RowsStep ==
    ASSUME IInv, IInv', RowsInv, ContentsInv, [Next]_vars
    PROVE  RowsInv'
  <1> USE DEF rowVars, publishVars
  <1>1. Live \subseteq Windows /\ Live' \subseteq Windows
    <2>1. TypeOK' => (Live \subseteq Windows)'
      BY LiveTypes, PTL
    <2> QED
      BY <2>1, LiveTypes DEF IInv
  <1>2. \A w \in Windows : w.row \in Rows /\ w.row \in Nat
    BY DEF Windows, Rows
  <1>3. row \in Nat /\ nextRow \in Nat /\ (row \in Rows \/ row = NoRow)
    BY DEF IInv, TypeOK, Rows, NoRow
  <1>4. CASE AppendBegin
    <2>1. Live' \subseteq Live \cup {pending'}
      BY <1>4, WindowsComeFromAppends
    <2>2. PICK id \in Ids : pending' = Encoded(id)
      BY <1>4 DEF AppendBegin
    <2>3. pending'.row = row /\ row' = row /\ nextRow' = nextRow /\ row \in Rows
      BY <1>4, <2>2 DEF AppendBegin, Encoded, IInv, AppendInv
    <2>4. \A w \in Live : w.row # row
      BY <1>4, <2>3 DEF AppendBegin, RowsInv, Rows, NoRow
    <2>5. pending' \notin Live
      BY <2>3, <2>4
    <2>6. /\ pending' \notin view' /\ pending' \notin temp'.windows
          /\ \A i \in Ids : pending' \notin segs'[i].windows
      BY <1>4, <2>5, InLive DEF AppendBegin, J!BeginAppend
    <2>7. pc' = "appending"
      BY <1>4 DEF AppendBegin
    <2>8. \A v, w \in Live' : v.row = w.row => v = w
      BY <2>1, <2>3, <2>4 DEF RowsInv
    <2>9. (\A w \in Live' : w.row < nextRow') /\ row' < nextRow'
      BY <2>1, <2>3 DEF RowsInv
    <2>10. \A w \in Live' : w.row = row' => w = pending'
      BY <2>1, <2>3, <2>4
    <2> QED
      BY <2>3, <2>6, <2>7, <2>8, <2>9, <2>10 DEF RowsInv
  <1>5. CASE ~AppendBegin
    <2>1. Live' \subseteq Live
      BY <1>5, WindowsComeFromAppends
    <2>2. \A v, w \in Live' : v.row = w.row => v = w
      BY <2>1 DEF RowsInv
    <2>3. CASE Collect
      <3>1. row' = nextRow /\ nextRow' = nextRow + 1 /\ pc' = "build"
        BY <2>3 DEF Collect
      <3>2. \A w \in Live' : w.row < nextRow
        BY <2>1 DEF RowsInv
      <3>3. PICK n \in Nat : n = nextRow
        BY <1>3
      <3>4. \A w \in Live' : w.row < n /\ w.row < n + 1 /\ w.row # n
        BY <1>1, <1>2, <3>2, <3>3
      <3>5. row' < nextRow'
        BY <3>1, <3>3
      <3> QED
        BY <2>2, <3>1, <3>3, <3>4, <3>5 DEF RowsInv
    <2>4. CASE ~Collect
      <3>1. /\ nextRow' = nextRow
            /\ \/ row' = NoRow /\ pc' # "appending"
               \/ row' = row /\ pc' = pc /\ UNCHANGED <<journalVars, temp, segs>>
               \/ row' = row /\ pc # "appending" /\ pc' # "appending"
               \/ AppendErr /\ row' = row
        <4>1. CASE UNCHANGED vars
          BY <4>1 DEF vars
        <4>2. CASE Startup \/ Expire \/ Seal
          BY <4>2 DEF Startup, OpenJournal, OpenFinishesReset, OpenRefuses, Expire, Seal, Close
        <4>3. CASE Append
          BY <1>5, <4>3
          DEF Append, AppendStays, AppendCloses, Acknowledged, AppendErr, AppendBroken,
              JournalFull, WindowFails, Close
        <4>4. CASE Publish \/ PublishFails \/ ResetFails
          BY <4>4
          DEF Publish, WriteTemp, SyncTemp, Link, SyncDay, Unlink, Compare, Discard, ResetBegin,
              ResetCommit, ResetDone, PublishFails, ResetFails
        <4>5. CASE Stops
          BY <4>5 DEF Stops, Exit, Kill, PowerLoss, ForgetMemory
        <4> QED
          BY <2>4, <4>1, <4>2, <4>3, <4>4, <4>5 DEF Next
      <3>2. row' < nextRow' /\ \A w \in Live' : w.row < nextRow'
        BY <1>3, <2>1, <3>1 DEF RowsInv, NoRow
      <3>3. CASE row' = NoRow /\ pc' # "appending"
        BY <2>2, <3>2, <3>3 DEF RowsInv
      <3>4. CASE row' = row /\ pc' = pc /\ UNCHANGED <<journalVars, temp, segs>>
        BY <2>1, <2>2, <3>2, <3>4 DEF RowsInv, journalVars
      <3>5. CASE row' = row /\ pc # "appending" /\ pc' # "appending"
        BY <2>1, <2>2, <3>2, <3>5 DEF RowsInv
      <3>6. CASE AppendErr /\ row' = row
        <4>1. /\ pc = "appending" /\ pc' # "appending"
              /\ kept' = kept /\ view' = view /\ doubt' = doubt \ {pending}
              /\ shows' = {view} /\ temp' = temp /\ segs' = segs
          BY <3>6 DEF AppendErr, J!Reject, Settle
        <4>2. pending \notin kept
          BY <4>1 DEF IInv, JournalInv, Usable, RowsInv
        <4>3. pending \notin Live'
          <5>1. (\A w : w \in Live <=>
                      \/ w \in kept \/ w \in doubt \/ w \in view \/ w \in temp.windows
                      \/ \E found \in shows : w \in found
                      \/ \E i \in Ids : w \in segs[i].windows)'
            BY InLive, PTL
          <5> QED
            BY <4>1, <4>2, <5>1 DEF RowsInv
        <4>4. \A w \in Live' : w.row # row \/ row = NoRow
          BY <2>1, <4>1, <4>3 DEF RowsInv
        <4> QED
          BY <2>2, <3>2, <3>6, <4>1, <4>4 DEF RowsInv
      <3> QED
        BY <3>1, <3>3, <3>4, <3>5, <3>6
    <2> QED
      BY <2>3, <2>4
  <1> QED
    BY <1>4, <1>5

-----------------------------------------------------------------------------
(* Contents. *)

\* Whatever adds windows that stand on a complete journal to it is complete.
LEMMA CompleteOn ==
    ASSUME NEW base, NEW more, NEW found,
           base # {} => Complete(base), \A w \in more : StandsOn(w, base),
           found # {}, base \subseteq found, found \subseteq base \cup more
    PROVE  Complete(found)
  <1> DEFINE entries == UNION {d.defs : d \in found}
             known == UNION {d.defs : d \in base}
  <1>1. known \subseteq entries /\ \A w \in found : w.defs \subseteq entries
    OBVIOUS
  <1>2. (\E w \in found : w.meta) /\ (\E w \in found : w.settings)
    BY DEF Complete, StandsOn
  <1>3. ASSUME NEW w \in found PROVE Uses[w.row] \subseteq entries
    <2>1. CASE w \in base
      <3>1. Uses[w.row] \subseteq known
        BY <2>1 DEF Complete
      <3> QED
        BY <1>1, <3>1
    <2>2. CASE w \in more
      <3>1. Uses[w.row] \subseteq w.defs \cup known
        BY <2>2 DEF StandsOn
      <3> QED
        BY <1>1, <3>1
    <2> QED
      BY <2>1, <2>2
  <1> QED
    BY <1>2, <1>3 DEF Complete

\* A usable handle shows a complete journal, if any.
LEMMA ViewComplete ==
    ASSUME ContentsInv, view # {}
    PROVE  Complete(view)
  <1>1. /\ kept # {} => Complete(kept)
        /\ \A w \in doubt : StandsOn(w, kept)
        /\ kept \subseteq view /\ view \subseteq kept \cup doubt
    BY DEF ContentsInv
  <1> QED
    BY <1>1, CompleteOn

\* The window of an append carries what the journal before it lacks: metadata
\* and settings if it is the first, and every value no window has stored yet.
LEMMA EncodedStands ==
    ASSUME IInv, ContentsInv, AppendBegin
    PROVE  StandsOn(pending', kept)
  <1>1. PICK id \in Ids : pending' = Encoded(id)
    BY DEF AppendBegin
  <1>2. pc = "build" /\ view = kept
    BY DEF AppendBegin, ContentsInv
  <1>3. dict.flushed \subseteq UNION {d.defs : d \in kept}
    BY <1>2 DEF IInv, FlagsInv
  <1>4. /\ pending'.row = row /\ pending'.defs = dict.window \cup (Uses[row] \ dict.flushed)
        /\ pending'.meta = (firstId = NoId) /\ pending'.settings = ~hasSettings
    BY <1>1 DEF Encoded, Interned, IInv, TypeOK
  <1>5. kept = {} => firstId = NoId /\ ~hasSettings
    BY <1>2 DEF IInv, SegmentMatchesJournal, FlagsInv
  <1> QED
    BY <1>3, <1>4, <1>5 DEF StandsOn

\* A step keeps the contents of windows and segments.
LEMMA ContentsStep ==
    ASSUME IInv, IInv', ContentsInv, [Next]_vars
    PROVE  ContentsInv'
  <1> USE DEF journalVars
  <1>1. CASE UNCHANGED vars
    BY <1>1 DEF vars, ContentsInv, Complete, StandsOn
  <1>2. CASE AppendBegin
    <2>1. /\ kept' = kept /\ view' = view /\ doubt' = doubt \cup {pending'}
          /\ pc = "build" /\ pc' = "appending"
      BY <1>2 DEF AppendBegin, J!BeginAppend
    <2>2. \A w \in doubt' : StandsOn(w, kept)
      BY <1>2, <2>1, EncodedStands DEF ContentsInv
    <2>3. view' = kept' /\ pending' \in doubt'
      BY <2>1 DEF ContentsInv
    <2> QED
      BY <2>1, <2>2, <2>3 DEF ContentsInv, Complete, StandsOn
  <1>3. CASE Acknowledged /\ pc' # "down" /\ pc' # "appending"
    <2>1. view' = view \cup {pending} /\ kept' = view' /\ doubt' = {}
      BY <1>3 DEF Acknowledged, J!Acknowledge
    <2>2. view = kept /\ pending \in doubt
      BY <1>3 DEF Acknowledged, ContentsInv
    <2>3. Complete(kept')
      <3>1. kept' # {} /\ kept \subseteq kept' /\ kept' \subseteq kept \cup doubt
        BY <2>1, <2>2
      <3>2. (kept # {} => Complete(kept)) /\ \A w \in doubt : StandsOn(w, kept)
        BY DEF ContentsInv
      <3> QED
        BY <3>1, <3>2, CompleteOn
    <2> QED
      BY <1>3, <2>1, <2>3 DEF ContentsInv, Complete, StandsOn
  <1>4. CASE /\ kept' = kept /\ doubt' \subseteq doubt
             /\ view' = {} \/ (view' = view /\ (doubt' = doubt \/ view = kept))
             /\ pc' = "down" => view' = {}
             /\ pc' \in {"idle", "build", "appending"} => view' = kept
             /\ pc' = "appending" => pending' \in doubt'
    BY <1>4 DEF ContentsInv, Complete, StandsOn
  <1>5. CASE kept' = {} /\ doubt' = {} /\ view' = {} /\ pc' # "appending"
    BY <1>5 DEF ContentsInv, Complete, StandsOn
  <1>6. CASE OpenJournal
    <2>1. /\ kept' = kept /\ doubt' = doubt /\ kept \subseteq view' /\ view' \subseteq kept \cup doubt
          /\ pc' = IF view' = {} THEN "idle" ELSE "write"
      BY <1>6 DEF OpenJournal, J!Start
    <2> QED
      BY <2>1 DEF ContentsInv, Complete, StandsOn
  <1>7. CASE OpenFinishesReset
    BY <1>5, <1>7 DEF OpenFinishesReset, J!CompleteReset, ContentsInv
  <1>8. CASE OpenRefuses \/ Collect \/ Expire \/ Seal \/ JournalFull \/ WindowFails \/ PublishFails
    BY <1>4, <1>8
    DEF OpenRefuses, Collect, Expire, Seal, JournalFull, WindowFails, PublishFails, Close, ContentsInv
  <1>9. CASE AppendStays \/ AppendCloses
    BY <1>3, <1>9 DEF AppendStays, AppendCloses, Close
  <1>10. CASE AppendErr \/ AppendBroken
    BY <1>4, <1>10 DEF AppendErr, AppendBroken, J!Reject, J!Break, ContentsInv
  <1>11. CASE Publish
    <2>1. CASE ResetCommit
      BY <1>5, <2>1 DEF ResetCommit, J!Commit
    <2>2. CASE ResetDone
      <3>1. view = {} /\ kept = {}
        BY <2>2 DEF ResetDone, J!FinishReset, IInv, JournalInv, Usable
      <3> QED
        BY <1>4, <2>2, <3>1 DEF ResetDone, J!FinishReset
    <2>3. CASE Publish /\ ~ResetCommit /\ ~ResetDone
      BY <1>4, <2>3
      DEF Publish, WriteTemp, SyncTemp, Link, SyncDay, Unlink, Compare, Discard, ResetBegin,
          J!BeginReset
    <2> QED
      BY <1>11, <2>1, <2>2, <2>3
  <1>12. CASE ResetFails
    BY <1>4, <1>12 DEF ResetFails, J!RejectReset, J!Break
  <1>13. CASE Stops
    BY <1>4, <1>13 DEF Stops, Exit, Kill, PowerLoss, ForgetMemory, J!Stop
  <1> QED
    BY <1>1, <1>2, <1>6, <1>7, <1>8, <1>9, <1>10, <1>11, <1>12, <1>13 DEF Next, Startup, Append

\* A file gets its windows from a journal that is complete.
LEMMA SelfContainedStep ==
    ASSUME IInv, ContentsInv, SelfContained, [Next]_vars
    PROVE  SelfContained'
  <1> SUFFICES ASSUME NEW i \in Ids, segs'[i].windows # {}
               PROVE  Complete(segs'[i].windows)
    BY DEF SelfContained, Complete
  <1>1. SegsStep /\ segs \in [Ids -> Files] /\ temp \in Files /\ NamesInv
    BY SegsChanges DEF IInv, TypeOK
  <1>2. segs[i].windows # {} => Complete(segs[i].windows)
    BY DEF SelfContained
  <1>3. \/ segs'[i].windows = segs[i].windows
        \/ pc = "link" /\ segs'[i].windows = temp.windows
    <2>1. CASE pc \in {"sync_day", "discard"} /\ segs' = [segs EXCEPT ![target].durable = TRUE]
      BY <1>1, <2>1 DEF Files
    <2>2. CASE segs' \in [Ids -> Files] /\ \A j \in Ids : segs'[j] \in Survivors(segs[j])
      BY <1>1, <2>2, SurvivorsOf DEF NamesInv, NoFile
    <2> QED
      BY <1>1, <2>1, <2>2 DEF SegsStep
  <1>4. CASE pc = "link" /\ segs'[i].windows = temp.windows
    <2>1. temp.windows = view
      BY <1>4 DEF IInv, PublishInv
    <2> QED
      BY <1>4, <2>1, ViewComplete
  <1> QED
    BY <1>2, <1>3, <1>4

-----------------------------------------------------------------------------
(* What a restart may find. *)

\* A step keeps what a recovery may find in the journal: windows of one segment.
LEMMA ShowsStep ==
    ASSUME IInv, ShowsInv, [Next]_vars
    PROVE  ShowsInv'
  <1> USE DEF journalVars, fileVars, rowVars, publishVars, Settle, Unsettle
  <1>1. CASE UNCHANGED vars
    BY <1>1 DEF vars, ShowsInv, OneId
  <1>2. CASE AppendBegin
    <2>1. PICK id \in Ids : (\A w \in view : w.id = id) /\ pending' = Encoded(id)
      BY <1>2 DEF AppendBegin
    <2>2. pending'.id = id /\ view' = view /\ shows' = {view, view \cup {pending'}} /\ pc' = "appending"
      BY <1>2, <2>1 DEF AppendBegin, J!BeginAppend, Encoded
    <2> QED
      BY <2>1, <2>2 DEF ShowsInv, OneId, Publishing
  <1>3. CASE AppendStays \/ AppendCloses
    <2>1. view' = view \cup {pending} /\ shows' = {view'}
      BY <1>3 DEF AppendStays, AppendCloses, Acknowledged, J!Acknowledge
    <2>2. \A w \in view' : w.id = pending.id
      BY <1>3, <2>1 DEF AppendStays, AppendCloses, Acknowledged, IInv, AppendInv
    <2>3. pc' = "idle" \/ (pc' = "write" /\ target' = pending.id)
      BY <1>3 DEF AppendStays, AppendCloses, Close
    <2> QED
      BY <2>1, <2>2, <2>3 DEF ShowsInv, OneId, Publishing
  <1>4. CASE AppendErr
    <2>1. shows' = {view} /\ view' = view /\ pc' \in {"idle", "build", "exit"} /\ view \in shows
      BY <1>4 DEF AppendErr, J!Reject, ShowsInv
    <2> QED
      BY <2>1 DEF ShowsInv, OneId, Publishing
  <1>5. CASE JournalFull \/ Seal
    <2>1. pc \in {"idle", "build"} /\ firstId # NoId /\ target' = firstId /\ pc' = "write"
      BY <1>5 DEF JournalFull, Seal, Close
    <2>2. UNCHANGED <<view, shows>>
      BY <1>5 DEF JournalFull, Seal
    <2>3. view # {} /\ \A w \in view : w.id = firstId
      BY <2>1 DEF IInv, SegmentMatchesJournal
    <2> QED
      BY <2>1, <2>2, <2>3 DEF ShowsInv, OneId, Publishing
  <1>6. CASE OpenJournal
    <2>1. PICK found \in shows :
              /\ view' = found /\ shows' = {found}
              /\ IF found = {} THEN pc' = "idle" ELSE pc' = "write" /\ target' = IdOf(found)
      BY <1>6 DEF OpenJournal
    <2>2. OneId(found)
      BY <2>1 DEF ShowsInv
    <2>3. found # {} => \A w \in found : w.id = IdOf(found)
      BY <2>2 DEF IdOf, OneId
    <2> QED
      BY <2>1, <2>2, <2>3 DEF ShowsInv, OneId, Publishing
  <1>7. CASE OpenFinishesReset
    BY <1>7 DEF OpenFinishesReset, ShowsInv, OneId, Publishing
  <1>8. CASE OpenRefuses \/ AppendBroken \/ PublishFails \/ Exit \/ Kill
    BY <1>8
    DEF OpenRefuses, AppendBroken, PublishFails, Exit, Kill, ForgetMemory, ShowsInv, OneId, Publishing
  <1>9. CASE Collect \/ WindowFails
    BY <1>9 DEF Collect, WindowFails, ShowsInv, OneId, Publishing
  <1>10. CASE Expire
    BY <1>10 DEF Expire, ShowsInv, OneId
  <1>11. CASE WriteTemp \/ SyncTemp \/ Link \/ SyncDay \/ Unlink \/ Compare \/ Discard \/ ResetBegin
    <2>1. /\ pc \in Publishing \ {"finishing"} /\ pc' \in (Publishing \ {"finishing"}) \cup {"exit"}
          /\ UNCHANGED <<view, target>> /\ (UNCHANGED shows \/ shows' = {view})
      BY <1>11
      DEF WriteTemp, SyncTemp, Link, SyncDay, Unlink, Compare, Discard, ResetBegin, J!BeginReset,
          Publishing
    <2> QED
      BY <2>1 DEF ShowsInv, OneId, Publishing
  <1>12. CASE ResetCommit
    BY <1>12 DEF ResetCommit, J!Commit, ShowsInv, OneId, Publishing
  <1>13. CASE ResetDone
    <2>1. view' = view /\ shows' = shows /\ pc = "finishing" /\ pc' \in {"idle", "build"}
      BY <1>13 DEF ResetDone, J!FinishReset
    <2> QED
      BY <2>1 DEF ShowsInv, OneId, Publishing
  <1>14. CASE ResetFails
    <2>1. (shows' = {view} \/ UNCHANGED shows) /\ pc' = "exit" /\ pc \in {"resetting", "finishing"}
      BY <1>14 DEF ResetFails
    <2> QED
      BY <2>1 DEF ShowsInv, OneId, Publishing
  <1>15. CASE PowerLoss
    <2>1. pc' = "down" /\ (UNCHANGED shows \/ \A found \in shows' : OneId(found))
      BY <1>15 DEF PowerLoss, ForgetMemory
    <2> QED
      BY <2>1 DEF ShowsInv, OneId, Publishing
  <1> QED
    BY <1>1, <1>2, <1>3, <1>4, <1>5, <1>6, <1>7, <1>8, <1>9, <1>10, <1>11, <1>12, <1>13, <1>14,
       <1>15
    DEF Next, Startup, Append, Publish, Stops

\* A step spends faults within the budget, and a loss spends one.
LEMMA LeftStep ==
    ASSUME TypeOK, WithinBudget, [Next]_vars
    PROVE  WithinBudget' /\ (NoLoss' => NoLoss /\ ~PowerLoss /\ ~Fault("clock"))
  <1>1. left \in [Faults -> Nat] /\ Budget \in [Faults -> Nat]
    BY DEF TypeOK
  <1>2. UNCHANGED left \/ \E f \in Faults : Fault(f)
    <2>1. CASE AppendBegin
      BY <2>1 DEF AppendBegin, WindowId, Faults
    <2> QED
      BY <2>1
      DEF Next, vars, Startup, OpenJournal, OpenFinishesReset, OpenRefuses, Collect, Append,
          AppendStays, AppendCloses, AppendErr, AppendBroken, JournalFull, WindowFails, Expire, Seal,
          Publish, WriteTemp, SyncTemp, Link, SyncDay, Unlink, Compare, Discard, ResetBegin,
          ResetCommit, ResetDone, PublishFails, ResetFails, Stops, Exit, Kill, PowerLoss, Faults
  <1>3. ASSUME NEW f \in Faults, Fault(f)
        PROVE  left'[f] < left[f] /\ \A g \in Faults : left'[g] <= left[g]
    BY <1>1, <1>3 DEF Fault
  <1>4. \A g \in Faults : left'[g] <= left[g] /\ left'[g] \in Nat
    <2>1. left' \in [Faults -> Nat]
      BY <1>1, <1>2 DEF Fault
    <2> QED
      BY <1>1, <1>2, <1>3, <2>1
  <1>5. WithinBudget'
    BY <1>1, <1>4 DEF WithinBudget
  <1>6. "clock" \in Faults /\ "power" \in Faults
    BY DEF Faults
  <1>7. NoLoss' => NoLoss
    BY <1>1, <1>4, <1>6 DEF NoLoss, WithinBudget
  <1>8. NoLoss' => ~PowerLoss /\ ~Fault("clock")
    <2>1. Fault("clock") => left'["clock"] < left["clock"]
      BY <1>3, <1>6
    <2>2. PowerLoss => left'["power"] < left["power"]
      BY <1>3, <1>6 DEF PowerLoss
    <2> QED
      BY <1>1, <1>4, <1>6, <2>1, <2>2 DEF NoLoss, WithinBudget
  <1> QED
    BY <1>5, <1>7, <1>8

\* As long as identities only grow and nothing synchronised late is lost, a name
\* is given once, to the windows that the journal keeps until it is reset.
LEMMA OwnStep ==
    ASSUME IInv, IInv', ShowsInv, WithinBudget, OwnInv, [Next]_vars
    PROVE  OwnInv'
  <1> SUFFICES ASSUME NoLoss'
               PROVE  /\ \A i \in Ids : segs'[i] # NoFile => i <= clock'
                      /\ \A found \in shows' : \A w \in found :
                            w.id <= clock' /\ (segs'[w.id] # NoFile => segs'[w.id].windows = found)
                      /\ pc' \in {"idle", "build", "appending"} =>
                            \A found \in shows' : \A w \in found : segs'[w.id] = NoFile
    BY DEF OwnInv
  <1> USE DEF journalVars, fileVars, rowVars, publishVars, Settle, Unsettle
  <1>1. ~PowerLoss /\ ~Fault("clock")
    BY LeftStep DEF IInv
  <1>2. /\ \A i \in Ids : segs[i] # NoFile => i <= clock
        /\ \A found \in shows : \A w \in found :
              w.id <= clock /\ (segs[w.id] # NoFile => segs[w.id].windows = found)
        /\ pc \in {"idle", "build", "appending"} =>
              \A found \in shows : \A w \in found : segs[w.id] = NoFile
    BY LeftStep DEF IInv, OwnInv
  <1>3. segs \in [Ids -> Files] /\ clock \in Int /\ \A found \in shows : \A w \in found : w.id \in Ids
    BY DEF IInv, TypeOK, Windows
  <1>4. CASE /\ clock' = clock
             /\ \A i \in Ids : segs[i] = NoFile <=> segs'[i] = NoFile
             /\ \A i \in Ids : segs'[i].windows = segs[i].windows
             /\ \A found \in shows' : found = {} \/ found \in shows
             /\ pc' \in {"idle", "build", "appending"} =>
                   pc \in {"idle", "build", "appending"} \/ \A found \in shows' : found = {}
    BY <1>2, <1>3, <1>4
  <1>5. CASE AppendBegin
    <2>1. PICK id \in Ids :
              WindowId(id) /\ (\A w \in view : w.id = id) /\ pending' = Encoded(id)
      BY <1>5 DEF AppendBegin
    <2>2. /\ pending'.id = id /\ segs' = segs /\ shows' = {view, view \cup {pending'}}
          /\ pc = "build" /\ shows = {view}
      BY <1>5, <2>1 DEF AppendBegin, Encoded, ShowsInv
    <2>3. \A i \in Ids : i \in Int
      BY DEF Ids
    <2>4. clock' \in Int /\ clock <= clock' /\ id <= clock' /\ segs[id] = NoFile
      <3>1. CASE firstId # NoId
        <4>1. id = firstId /\ clock' = clock
          BY <1>1, <2>1, <3>1 DEF WindowId
        <4>2. PICK w \in view : w.id = id
          BY <2>2, <3>1, <4>1 DEF IInv, SegmentMatchesJournal
        <4> QED
          BY <1>2, <1>3, <2>2, <2>3, <4>1, <4>2
      <3>2. CASE firstId = NoId
        <4>1. id = clock + 1 /\ clock' = id
          BY <1>1, <2>1, <3>2 DEF WindowId
        <4> QED
          BY <1>2, <1>3, <2>3, <4>1
      <3> QED
        BY <3>1, <3>2
    <2>5. ASSUME NEW found \in shows', NEW w \in found
          PROVE  w.id = id
      BY <2>1, <2>2
    <2>6. \A i \in Ids : segs'[i] # NoFile => i <= clock'
      BY <1>2, <1>3, <2>2, <2>3, <2>4
    <2> QED
      BY <2>2, <2>4, <2>5, <2>6
  <1>6. CASE Link
    <2>1. CASE segs[target] = NoFile
      <3>1. pc = "link" /\ target \in Ids /\ temp.windows = view
        BY <1>6 DEF Link, IInv, PublishInv, TypeOK, Publishing
      <3>2. /\ segs' = [segs EXCEPT ![target] = temp] /\ pc' = "sync_day" /\ clock' = clock
            /\ shows' = {view} /\ shows = {view}
        BY <1>6, <2>1, <3>1 DEF Link, ShowsInv, Publishing
      <3>3. view # {} /\ \A w \in view : w.id = target
        BY <3>1 DEF ShowsInv, Publishing
      <3>4. target <= clock
        BY <1>2, <3>2, <3>3
      <3>5. \A i \in Ids : segs'[i] # NoFile => i <= clock
        BY <1>2, <1>3, <3>2, <3>4
      <3>6. segs'[target].windows = view
        BY <1>3, <3>1, <3>2
      <3> QED
        BY <1>2, <3>2, <3>3, <3>4, <3>5, <3>6
    <2>2. CASE segs[target] # NoFile
      BY <1>4, <1>6, <2>2 DEF Link
    <2> QED
      BY <2>1, <2>2
  <1>7. CASE SyncDay \/ Discard
    <2>1. pc \in {"sync_day", "discard"} /\ target \in Ids /\ segs[target].synced
      BY <1>7 DEF SyncDay, Discard, IInv, TypeOK, PublishInv, Publishing
    <2>2. /\ segs' = [segs EXCEPT ![target].durable = TRUE] /\ clock' = clock /\ shows' = shows
          /\ pc' \in {"unlink", "reset"}
      BY <1>7 DEF SyncDay, Discard
    <2>3. segs'[target].synced /\ \A i \in Ids : segs'[i].windows = segs[i].windows
      BY <1>3, <2>1, <2>2 DEF Files
    <2>4. \A i \in Ids : segs[i] = NoFile <=> segs'[i] = NoFile
      <3>1. NoFile.synced = FALSE
        BY DEF NoFile
      <3>2. segs'[target] # NoFile /\ segs[target] # NoFile
        BY <2>1, <2>3, <3>1
      <3>3. \A i \in Ids : i # target => segs'[i] = segs[i]
        BY <1>3, <2>2
      <3> QED
        BY <3>2, <3>3
    <2> QED
      BY <1>4, <2>2, <2>3, <2>4
  <1>8. CASE AppendStays \/ AppendCloses
    <2>1. /\ view' = view \cup {pending} /\ shows' = {view'} /\ pc = "appending"
          /\ clock' = clock /\ segs' = segs
      BY <1>8 DEF AppendStays, AppendCloses, Acknowledged, J!Acknowledge
    <2>2. shows = {view, view \cup {pending}}
      BY <2>1 DEF ShowsInv
    <2> QED
      BY <1>4, <2>1, <2>2
  <1>9. CASE AppendErr
    <2>1. shows' = {view} /\ view \in shows /\ pc = "appending" /\ clock' = clock /\ segs' = segs
      BY <1>9 DEF AppendErr, ShowsInv
    <2> QED
      BY <1>4, <2>1
  <1>10. CASE OpenJournal
    <2>1. PICK found \in shows :
              shows' = {found} /\ (found # {} => pc' = "write") /\ clock' = clock /\ segs' = segs
      BY <1>10 DEF OpenJournal
    <2> QED
      BY <1>4, <2>1
  <1>11. CASE OpenFinishesReset \/ ResetCommit
    BY <1>4, <1>11 DEF OpenFinishesReset, ResetCommit
  <1>12. CASE \/ UNCHANGED vars \/ OpenRefuses \/ Collect \/ AppendBroken \/ JournalFull \/ WindowFails
              \/ Expire \/ Seal \/ WriteTemp \/ SyncTemp \/ Unlink \/ Compare \/ PublishFails
              \/ Exit \/ Kill
    <2>1. /\ UNCHANGED <<clock, segs, shows>>
          /\ pc' \in {"idle", "build", "appending"} => pc \in {"idle", "build", "appending"}
      BY <1>12
      DEF vars, OpenRefuses, Collect, AppendBroken, JournalFull, WindowFails, Expire, Seal, Close,
          WriteTemp, SyncTemp, Unlink, Compare, PublishFails, Exit, Kill, ForgetMemory
    <2> QED
      BY <1>4, <2>1
  <1>13. CASE ResetBegin \/ ResetFails
    <2>1. /\ UNCHANGED <<clock, segs>> /\ pc' \in {"resetting", "exit"}
          /\ shows' \in {shows, {view}} /\ pc \in Publishing
      BY <1>13 DEF ResetBegin, ResetFails, Publishing
    <2>2. view \in shows
      BY <2>1 DEF ShowsInv
    <2> QED
      BY <1>4, <2>1, <2>2
  <1>14. CASE ResetDone
    <2>1. UNCHANGED <<clock, segs, shows>> /\ shows = {view} /\ view = {}
      BY <1>14 DEF ResetDone, J!FinishReset, ShowsInv, Publishing, IInv, JournalInv
    <2> QED
      BY <1>4, <2>1
  <1> QED
    BY <1>1, <1>5, <1>6, <1>7, <1>8, <1>9, <1>10, <1>11, <1>12, <1>13, <1>14
    DEF Next, Startup, Append, Publish, Stops

-----------------------------------------------------------------------------
(* Theorems about segments. *)

\* The second invariant holds at the start.
LEMMA SegmentsStart == Init => SInv
  <1> SUFFICES ASSUME Init PROVE SInv
    OBVIOUS
  <1>1. \A i \in Ids : segs[i] = NoFile /\ segs[i].windows = {}
    BY DEF Init, NoFile
  <1>2. \A w : w \notin Live
    BY <1>1, InLive DEF Init, J!Init, NoFile
  <1>3. RowsInv
    BY <1>1, <1>2 DEF Init, RowsInv, NoRow
  <1>4. ContentsInv /\ SelfContained
    BY <1>1 DEF Init, J!Init, ContentsInv, SelfContained
  <1>5. ShowsInv
    BY DEF Init, ShowsInv, OneId, Publishing
  <1>6. WithinBudget
    <2>1. left = Budget /\ \A f \in Faults : Budget[f] \in Nat
      BY DEF Init
    <2> QED
      BY <2>1 DEF WithinBudget
  <1>7. OwnInv
    BY <1>1 DEF Init, OwnInv
  <1> QED
    BY <1>3, <1>4, <1>5, <1>6, <1>7 DEF SInv

\* The second invariant is inductive, given the first.
LEMMA SegmentsStep == IInv /\ IInv' /\ SInv /\ [Next]_vars => SInv'
  <1> SUFFICES ASSUME IInv, IInv', SInv, [Next]_vars PROVE SInv'
    OBVIOUS
  <1>1. RowsInv /\ ContentsInv /\ SelfContained /\ ShowsInv /\ WithinBudget /\ OwnInv
    BY DEF SInv
  <1>2. RowsInv' /\ ContentsInv' /\ SelfContained'
    BY <1>1, RowsStep, ContentsStep, SelfContainedStep
  <1>3. ShowsInv' /\ WithinBudget' /\ OwnInv'
    BY <1>1, ShowsStep, LeftStep, OwnStep DEF IInv
  <1> QED
    BY <1>2, <1>3 DEF SInv

\* The second invariant, relative to the first, holds in every reachable state.
THEOREM SegmentsInvariance == Spec => []SInv
  BY SegmentsStart, SegmentsStep, Invariance, PTL DEF Spec

\* However often an append is refused and retried, a journal is full, a process
\* dies and a journal is recovered: a row is never stored in two windows.
THEOREM RowsAreStoredOnce == Spec => []ExactlyOnce
  <1>1. SInv => ExactlyOnce
    <2> SUFFICES ASSUME SInv PROVE ExactlyOnce
      OBVIOUS
    <2>1. ASSUME NEW w \in Stored PROVE w \in Live
      <3>1. w \in kept \/ \E i \in Ids : w \in segs[i].windows
        BY DEF Stored
      <3> QED
        BY <3>1, InLive
    <2> QED
      BY <2>1 DEF SInv, RowsInv, ExactlyOnce
  <1> QED
    BY <1>1, SegmentsInvariance, PTL

\* Every segment, also one published by a recovery or cut short by a power
\* loss, has the metadata, the settings and every value its rows refer to.
THEOREM SegmentsAreSelfContained == Spec => []SelfContained
  <1>1. SInv => SelfContained
    BY DEF SInv
  <1> QED
    BY <1>1, SegmentsInvariance, PTL

\* Unless the clock stepped back or power was lost, no kill and no failed call
\* makes the collector refuse its own segment: what has the name is what it
\* wants to publish.
THEOREM OwnSegmentIsRecognised == Spec => []RecoveryFindsItsOwnSegment
  <1>1. IInv /\ SInv => RecoveryFindsItsOwnSegment
    <2> SUFFICES ASSUME IInv, SInv, pc = "compare", NoLoss
                 PROVE  segs[target].windows = temp.windows
      BY DEF RecoveryFindsItsOwnSegment, NoLoss
    <2>1. temp.windows = view /\ segs[target] # NoFile
      BY DEF IInv, PublishInv
    <2>2. PICK w \in view : w.id = target /\ shows = {view}
      BY DEF SInv, ShowsInv, Publishing
    <2> QED
      BY <2>1, <2>2 DEF SInv, OwnInv
  <1> QED
    BY <1>1, Invariance, SegmentsInvariance, PTL

=============================================================================
