----------------------- MODULE JournalRefinementProofs -----------------------
(***************************************************************************)
(* Journal implements JournalContract, for every choice of parts, lengths, *)
(* identities, configurations and bounds: the steps on active.wal that a   *)
(* caller can tell apart are steps of the contract, all others stutter.    *)
(* The collector's model, SegmentStore, is built on the contract alone.    *)
(***************************************************************************)
EXTENDS JournalHandleProofs

\* What the contract sees of a state.
Pending == IF cur = NoAppend THEN NoAppend ELSE cur.frame

\* A caller sees no difference.
Unseen == UNCHANGED <<Status, Shown, Pending, histVars>>

\* A step that a caller does not see is a stuttering step of the contract.
LEMMA UnseenStutters == Unseen => UNCHANGED C!vars
  BY DEF Unseen, C!vars, Pending, histVars

-----------------------------------------------------------------------------
(* What the contract sees, by the step the process is at. *)

View ==
    /\ handle = NoHandle => Status = "off"
    /\ handle # NoHandle /\ handle.poisoned => Status = "broken"
    /\ Healthy => Status = "ready"
    /\ Usable /\ pc # "idle" => Status = (IF cur = NoAppend THEN "reset" ELSE "append")
    /\ handle # NoHandle /\ pc \in Finishing => Status = "cleared"
    /\ Shown = IF Usable THEN Known ELSE {}

\* The windows shown are the frames the handle knows.
LEMMA ShownValues ==
    ASSUME IInv, HInv, Usable
    PROVE  {f \in body.frames : Span(f) \in handle.parts} = Known
  <1>1. Separate(body.frames) /\ handle.parts = SpansOf(Known) /\ Known \subseteq body.frames
    BY UsableShape DEF HInv, MediumInv, KnownInv, Known
  <1>2. \A f \in body.frames : Span(f) \in SpansOf(Known) => f \in Known
    BY <1>1 DEF SpansOf, Span, Separate
  <1> QED
    BY <1>1, <1>2 DEF SpansOf

\* The contract's view of a state.
LEMMA ViewOf == IInv /\ HInv => View
  <1> SUFFICES ASSUME IInv, HInv PROVE View
    OBVIOUS
  <1>1. Usable => handle # NoHandle /\ ~handle.poisoned
    BY UsableShape DEF HInv, KnownInv
  <1>2. pc \in Finishing => ~Usable /\ pc # "idle"
    BY DEF Finishing, Usable, Healthy
  <1>3. handle # NoHandle /\ pc \in Finishing => ~handle.poisoned
    BY DEF HInv, FinishInv
  <1>4. Healthy => Usable /\ pc = "idle"
    BY DEF Healthy, Usable
  <1>5. handle.poisoned => handle # NoHandle
    BY DEF NoHandle
  <1> QED
    BY <1>1, <1>2, <1>3, <1>4, <1>5, ShownValues DEF View, Status, Shown

-----------------------------------------------------------------------------
(* The steps. *)

\* A step of a call that its caller cannot see.
LEMMA SilentInside ==
    ASSUME View, View', Usable, Usable', pc # "idle", pc' # "idle", Known' = Known,
           UNCHANGED cur, UNCHANGED histVars
    PROVE  Unseen
  BY DEF View, Unseen, Pending

\* The steps of open: the handle that is handed out shows what was acknowledged,
\* and perhaps what was cut short; a reset found half-way is completed.
LEMMA OpenSteps ==
    ASSUME IInv, HInv, View, View', Open
    PROVE  C!Next \/ Unseen
  <1> USE DEF Finishing
  <1>1. CASE SyncRoot
    <2>1. /\ handle = NoHandle /\ ~Usable /\ pc = "sync_root" /\ pc' = "idle"
          /\ UNCHANGED <<body, cur, histVars>>
          /\ handle' = [end |-> FileLen(body), parts |-> SpansOf(body.frames),
                        gen |-> nextGen, id |-> hdr.id, poisoned |-> FALSE]
      BY <1>1 DEF SyncRoot, diskVars, HInv, OpeningInv, Usable, Healthy, SpansOf
    <2>2. Healthy' /\ handle'.parts = SpansOf(body.frames)
      BY <2>1 DEF Healthy
    <2>3. Status = "off" /\ Status' = "ready"
      BY <2>1, <2>2 DEF View
    <2>4. Shown' = body.frames
      BY <2>1, <2>2 DEF Shown, Usable, SpansOf
    <2>5. acked \subseteq body.frames /\ body.frames \subseteq acked \cup limbo
      <3>1. SoundBody(body) /\ body \in Bodies /\ hdr \in Headers /\ SoundHeader(hdr)
            /\ ValidJournal(hdr, body)
        BY <2>1 DEF IInv, DiskInv, TypeOK, OpenInv
      <3>2. CASE hdr.k = "active"
        BY <3>1, <3>2 DEF ValidJournal, SoundBody
      <3>3. CASE hdr.k = "empty"
        <4>1. hdr.len = 0 /\ FileLen(body) \in Nat
          BY <3>1, <3>3, HeaderTypes DEF SoundHeader, FileLen, Bodies, Tails
        <4>2. FileLen(body) = HeaderLen
          BY <3>1, <4>1, LengthsAssumption DEF ValidJournal
        <4> QED
          BY <3>1, <4>2, NothingBehindHeader DEF SoundBody
      <3> QED
        BY <3>1, <3>2, <3>3 DEF ValidJournal
    <2>6. C!Start
      BY <2>1, <2>3, <2>4, <2>5 DEF C!Start, histVars
    <2> QED
      BY <2>6 DEF C!Next
  <1>2. CASE (\E c \in Configs : OpenFile(c)) \/ InitWrite \/ InitSync \/ OpenFails
    <2>1. /\ handle = NoHandle /\ handle' = NoHandle /\ UNCHANGED <<cur, histVars>>
          /\ pc \in {"down", "init_write", "init_sync", "sync_root"}
          /\ pc' \in {"down", "init_write", "init_sync", "sync_root", "finish_header"}
      BY <1>2 DEF OpenFile, InitWrite, InitSync, OpenFails, procVars, HInv, OpeningInv
    <2>2. ~Usable /\ ~Usable'
      BY <2>1 DEF Usable, Healthy
    <2> QED
      BY <2>1, <2>2 DEF View, Unseen, Pending
  <1> QED
    BY <1>1, <1>2 DEF Open

\* The steps of append: the caller sees the call begin, and Ok.
LEMMA AppendSteps ==
    ASSUME IInv, IInv', HInv, HInv', View, View', AppendNext
    PROVE  C!Next \/ Unseen
  <1> USE DEF Appending, RollingBack, Marking
  <1>0. Usable /\ handle # NoHandle
    <2>1. Usable
      BY DEF AppendNext, AppendBegin, AppendHeader, AppendFrame, AppendBody, AppendSync,
             AppendFails, Usable
    <2> QED
      BY <2>1, UsableShape
  <1>1. ASSUME NEW id \in Ids, NEW p \in Parts, AppendBegin(id, p) PROVE C!Next
    <2>1. /\ Healthy /\ pc = "idle" /\ pc' \in {"append_header", "append_frame"} /\ Usable'
          /\ UNCHANGED <<body, handle, acked, asked>> /\ limbo' = limbo \cup {cur'.frame}
      BY <1>1 DEF AppendBegin, Healthy, Usable, fileVars
    <2>2. cur = NoAppend /\ cur' # NoAppend /\ cur'.frame \in Frames
      <3>1. cur = NoAppend
        BY <2>1 DEF IInv, AppendInv
      <3>2. cur' # NoAppend
        BY <2>1 DEF IInv, AppendInv
      <3>3. cur' \in [frame : Frames, id : Ids]
        BY <3>2 DEF IInv, TypeOK
      <3> QED
        BY <3>1, <3>2, <3>3
    <2>3. Status = "ready" /\ Status' = "append" /\ Shown' = Shown
      BY <1>0, <2>1, <2>2 DEF View, Known
    <2>4. C!BeginAppend
      BY <2>1, <2>2, <2>3 DEF C!BeginAppend
    <2> QED
      BY <2>4 DEF C!Next
  <1>2. CASE AppendHeader \/ AppendFrame \/ AppendBody \/ AppendFails
    <2>1. /\ pc \in Appending /\ pc' \in Appending \cup RollingBack /\ UNCHANGED procVars
          /\ UNCHANGED histVars
      BY <1>2 DEF AppendHeader, AppendFrame, AppendBody, AppendFails
    <2>2. Usable'
      BY <2>1 DEF Usable
    <2>3. /\ cur # NoAppend /\ cur.frame \in Frames /\ cur.frame.at = handle.end
          /\ cur.frame.len > 0 /\ handle.end \in Nat
      BY <1>0, <2>1, UsableShape DEF IInv, AppendInv, TypeOK
    <2>4. ~(End(cur.frame) <= handle.end)
      BY <2>3 DEF End, Frames
    <2>5. \/ body'.frames = body.frames \/ body'.frames = body.frames \cup {cur.frame}
      <3>1. \A t : WithTail(body, t).frames = body.frames
        BY DEF IInv, TypeOK, Bodies, WithTail
      <3>2. CASE AppendHeader \/ AppendFrame
        BY <3>1, <3>2 DEF AppendHeader, AppendFrame, WriteHeader, WriteBody
      <3>3. CASE AppendBody
        BY <3>3 DEF AppendBody, WriteBody, WithFrame
      <3>4. CASE AppendFails
        <4>1. CASE \E lens : BreakBody(lens)
          BY <3>1, <4>1 DEF BreakBody, WriteBody, fileVars
        <4>2. CASE ~ \E lens : BreakBody(lens)
          BY <3>4, <4>2 DEF AppendFails, BreakHeader, fileVars
        <4> QED
          BY <4>1, <4>2
      <3> QED
        BY <1>2, <3>2, <3>3, <3>4
    <2>6. Known' = Known
      BY <2>1, <2>4, <2>5 DEF Known, procVars
    <2>7. pc # "idle" /\ pc' # "idle" /\ UNCHANGED cur
      BY <2>1 DEF procVars
    <2> QED
      BY <1>0, <2>1, <2>2, <2>6, <2>7, SilentInside
  <1>3. CASE AppendSync
    <2>1. /\ pc = "append_sync" /\ pc' = "idle" /\ cur' = NoAppend /\ UNCHANGED body
          /\ acked' = acked \cup {cur.frame} \cup (limbo \cap body.frames)
          /\ limbo' = {} /\ asked' = FALSE /\ ~handle.poisoned
          /\ handle' = [handle EXCEPT !.end = End(cur.frame),
                                      !.parts = @ \cup {Span(cur.frame)}, !.id = cur.id]
      BY <1>0, <1>3 DEF AppendSync, SyncFile, HInv, KnownInv
    <2>2. handle \in Handles /\ cur # NoAppend /\ cur.frame \in body.frames
          /\ body.valid = End(cur.frame) /\ body.tail.k = "clean"
      BY <2>1 DEF IInv, TypeOK, AppendInv, FrameWritten
    <2>3. ~handle'.poisoned /\ handle'.end = End(cur.frame)
      BY <2>1, <2>2 DEF Handles
    <2>4. Healthy' /\ Usable'
      BY <2>1, <2>3 DEF Healthy, Usable
    <2>5. body.frames = Known \cup {cur.frame}
      BY <1>0, <2>2 DEF HInv, KnownInv, Known
    <2>6. Known' = body.frames
      <3>1. \A f \in body.frames : End(f) <= End(cur.frame)
        BY <1>0, <2>2, UsableShape DEF WellFormed
      <3> QED
        BY <2>1, <2>3, <3>1 DEF Known
    <2>7. acked \subseteq body.frames /\ body.frames \subseteq acked \cup limbo
      BY <2>2 DEF IInv, DiskInv, SoundBody
    <2>8. /\ Status = "append" /\ Status' = "ready" /\ Shown = Known /\ Shown' = body.frames
      BY <1>0, <2>1, <2>2, <2>4, <2>6 DEF View
    <2>9. acked' = Shown' /\ Shown' = Shown \cup {cur.frame}
      BY <2>1, <2>2, <2>5, <2>7, <2>8
    <2>10. C!Acknowledge
      BY <2>1, <2>2, <2>8, <2>9 DEF C!Acknowledge
    <2> QED
      BY <2>10 DEF C!Next
  <1> QED
    BY <1>1, <1>2, <1>3 DEF AppendNext

\* The steps of a rollback: the caller sees Err, or the handle break.
LEMMA RollbackSteps ==
    ASSUME IInv, IInv', HInv, HInv', View, View', Rollback
    PROVE  C!Next \/ Unseen
  <1> USE DEF Appending, RollingBack, Marking
  <1>0. pc \in RollingBack /\ Usable /\ ~handle.poisoned /\ handle \in Handles
        /\ Status = (IF cur = NoAppend THEN "reset" ELSE "append") /\ Shown = Known
    <2>1. pc \in RollingBack /\ Usable
      BY DEF Rollback, RollbackTruncate, RollbackHeader, RollbackSync, RollbackFails, Usable
    <2> QED
      BY <2>1 DEF IInv, TypeOK, HInv, KnownInv, View
  <1>1. CASE RollbackTruncate \/ RollbackHeader
    <2>1. /\ pc # "idle" /\ pc' \in RollingBack /\ UNCHANGED procVars /\ UNCHANGED histVars
          /\ UNCHANGED <<cur, handle>>
      BY <1>0, <1>1 DEF RollbackTruncate, RollbackHeader, procVars
    <2>2. body'.frames = body.frames \/ body'.frames = Known
      BY <1>1 DEF RollbackTruncate, RollbackHeader, WriteHeader, WriteBody, Truncated, Known
    <2>3. Known' = Known
      BY <2>1, <2>2 DEF Known
    <2>4. Usable' /\ pc' # "idle"
      BY <2>1 DEF Usable
    <2> QED
      BY <1>0, <2>1, <2>3, <2>4, SilentInside
  <1>2. CASE RollbackSync
    <2>1. /\ pc' = "idle" /\ cur' = NoAppend /\ UNCHANGED <<body, handle, acked>> /\ asked' = FALSE
          /\ limbo' = IF cur = NoAppend THEN limbo ELSE limbo \ {cur.frame}
      BY <1>2 DEF RollbackSync, SyncFile
    <2>2. Healthy' /\ Usable' /\ Known' = Known
      BY <1>0, <2>1 DEF Healthy, Usable, Known
    <2>3. Status' = "ready" /\ Shown' = Shown
      BY <1>0, <2>2 DEF View
    <2>4. CASE cur = NoAppend
      BY <1>0, <2>1, <2>3, <2>4 DEF C!RejectReset, C!Next
    <2>5. CASE cur # NoAppend
      BY <1>0, <2>1, <2>3, <2>5 DEF C!Reject, C!Next
    <2> QED
      BY <2>4, <2>5
  <1>3. CASE RollbackFails
    <2>1. /\ pc' = "idle" /\ cur' = NoAppend /\ UNCHANGED histVars
          /\ handle' = [handle EXCEPT !.poisoned = TRUE]
      BY <1>3 DEF RollbackFails
    <2>2. handle'.poisoned /\ handle' # NoHandle
      BY <1>0, <2>1 DEF Handles, NoHandle
    <2>3. ~Usable'
      BY <2>1, <2>2 DEF Usable, Healthy
    <2>4. Status' = "broken" /\ Shown' = {}
      BY <2>2, <2>3 DEF View
    <2> QED
      BY <1>0, <2>1, <2>4 DEF C!Break, C!Next, histVars
  <1> QED
    BY <1>1, <1>2, <1>3 DEF Rollback

\* The steps of a reset up to its commitment, which is the instant at which the
\* marker is durable.
LEMMA MarkerSteps ==
    ASSUME IInv, IInv', HInv, HInv', View, View',
           ResetBegin \/ MarkerWrite \/ MarkerSync \/ MarkerFails
    PROVE  C!Next \/ Unseen
  <1> USE DEF Appending, RollingBack, Marking, Finishing
  <1>0. Usable /\ cur = NoAppend /\ handle # NoHandle /\ Shown = Known
    <2>1. Usable /\ cur = NoAppend
      BY DEF ResetBegin, MarkerWrite, MarkerSync, MarkerFails, Usable, Healthy, IInv, AppendInv
    <2> QED
      BY <2>1, UsableShape DEF View
  <1>1. CASE ResetBegin
    <2>1. /\ Healthy /\ pc' = "marker_write" /\ UNCHANGED <<body, handle, cur, acked, limbo>>
          /\ asked' = TRUE /\ handle.parts # {}
      BY <1>1 DEF ResetBegin, fileVars
    <2>2. Usable' /\ Known' = Known
      BY <2>1 DEF Usable, Known
    <2>3. Status = "ready" /\ Status' = "reset" /\ Shown' = Shown
      BY <1>0, <2>1, <2>2 DEF View
    <2>4. Shown # {}
      BY <1>0, <2>1 DEF HInv, KnownInv, SpansOf
    <2> QED
      BY <1>0, <2>1, <2>3, <2>4 DEF C!BeginReset, C!Next
  <1>2. CASE MarkerWrite \/ MarkerFails
    <2>1. /\ pc \in Marking /\ pc' \in {"marker_sync", "rollback_truncate"}
          /\ UNCHANGED histVars /\ UNCHANGED <<handle, cur>>
      BY <1>2 DEF MarkerWrite, MarkerFails, procVars
    <2>2. body'.frames = body.frames
      <3>1. \A t : WithTail(body, t).frames = body.frames
        BY DEF IInv, TypeOK, Bodies, WithTail
      <3> QED
        BY <1>2, <3>1 DEF MarkerWrite, MarkerFails, BreakBody, WriteBody, fileVars
    <2>3. Usable' /\ Known' = Known
      BY <2>1, <2>2 DEF Usable, Known
    <2> QED
      BY <1>0, <2>1, <2>3, SilentInside
  <1>3. CASE MarkerSync
    <2>1. /\ pc = "marker_sync" /\ pc' = "finish_header" /\ UNCHANGED <<handle, cur>>
          /\ acked' = {} /\ limbo' = {} /\ asked' = FALSE
      BY <1>3 DEF MarkerSync, Forget, procVars
    <2>2. ~Usable'
      BY <2>1 DEF Usable, Healthy
    <2>3. Status = "reset" /\ Status' = "cleared" /\ Shown' = {}
      BY <1>0, <2>1, <2>2 DEF View
    <2> QED
      BY <2>1, <2>3 DEF C!Commit, C!Next
  <1> QED
    BY <1>1, <1>2, <1>3

\* The steps that finish a reset: a caller of open sees it completed, a caller
\* of reset sees Ok or the handle break.
LEMMA FinishSteps ==
    ASSUME IInv, IInv', HInv, HInv', View, View', FinishNext
    PROVE  C!Next \/ Unseen
  <1> USE DEF Appending, RollingBack, Marking, Finishing
  <1>0. pc \in Finishing /\ ~Usable /\ Shown = {} /\ cur = NoAppend
        /\ (handle = NoHandle => Status = "off") /\ (handle # NoHandle => Status = "cleared")
    <2>1. pc \in Finishing
      BY DEF FinishNext, FinishHeader, FinishHeaderSync, FinishTruncate, FinishSync, FinishFails
    <2>2. ~Usable
      BY <2>1 DEF Usable, Healthy
    <2> QED
      BY <2>1, <2>2 DEF View, IInv, AppendInv
  <1>1. CASE FinishHeaderSync
    <2>1. /\ pc = "finish_header_sync" /\ pc' = "finish_truncate" /\ UNCHANGED <<handle, cur>>
          /\ acked' = {} /\ limbo' = {} /\ asked' = FALSE /\ UNCHANGED owner
      BY <1>1 DEF FinishHeaderSync, Forget, procVars
    <2>2. ~Usable' /\ Shown' = {}
      BY <2>1 DEF Usable, Healthy, View
    <2>3. CASE handle = NoHandle
      <3>1. asked \/ acked = {}
        BY <2>1 DEF IInv, ResetInv, DiskInv, SoundBody
      <3>2. Status' = "off"
        BY <2>1, <2>3 DEF View
      <3> QED
        BY <1>0, <2>1, <2>2, <2>3, <3>1, <3>2 DEF C!CompleteReset, C!Next
    <2>4. CASE handle # NoHandle
      <3>1. acked = {} /\ limbo = {} /\ asked = FALSE
        BY <1>0, <2>4 DEF HInv, FinishInv, IInv, TypeOK
      <3>2. Status' = "cleared"
        BY <2>1, <2>4 DEF View
      <3> QED
        BY <1>0, <2>1, <2>2, <2>4, <3>1, <3>2 DEF Unseen, Pending, histVars
    <2> QED
      BY <2>3, <2>4
  <1>2. CASE FinishHeader \/ FinishTruncate
    <2>1. pc' \in Finishing /\ UNCHANGED <<handle, cur>> /\ UNCHANGED histVars
      BY <1>2 DEF FinishHeader, FinishTruncate, procVars
    <2>2. ~Usable' /\ Shown' = {} /\ Status' = Status
      BY <1>0, <2>1 DEF Usable, Healthy, View
    <2> QED
      BY <1>0, <2>1, <2>2 DEF Unseen, Pending
  <1>3. CASE FinishSync
    <2>1. UNCHANGED cur /\ UNCHANGED histVars
      BY <1>3 DEF FinishSync
    <2>2. CASE handle = NoHandle
      <3>1. handle' = NoHandle /\ pc' = "sync_root"
        BY <1>3, <2>2 DEF FinishSync
      <3>2. ~Usable' /\ Shown' = {} /\ Status' = "off"
        BY <3>1 DEF Usable, Healthy, View
      <3> QED
        BY <1>0, <2>1, <2>2, <3>2 DEF Unseen, Pending
    <2>3. CASE handle # NoHandle
      <3>1. pc' = "idle" /\ ~handle'.poisoned /\ handle'.parts = {}
        BY <1>3, <2>3 DEF FinishSync, NoHandle
      <3>2. Healthy' /\ Shown' = {}
        BY <3>1 DEF Healthy, Shown
      <3>3. Status' = "ready"
        BY <3>2 DEF View
      <3> QED
        BY <1>0, <2>1, <2>3, <3>2, <3>3 DEF C!FinishReset, C!Next, histVars
    <2> QED
      BY <2>2, <2>3
  <1>4. CASE FinishFails
    <2>1. UNCHANGED cur /\ UNCHANGED histVars
      BY <1>4 DEF FinishFails
    <2>2. CASE handle = NoHandle
      <3>1. handle' = NoHandle /\ pc' = "down"
        BY <1>4, <2>2 DEF FinishFails
      <3>2. ~Usable' /\ Shown' = {} /\ Status' = "off"
        BY <3>1 DEF Usable, Healthy, View
      <3> QED
        BY <1>0, <2>1, <2>2, <3>2 DEF Unseen, Pending
    <2>3. CASE handle # NoHandle
      <3>1. handle \in Handles
        BY DEF IInv, TypeOK
      <3>2. pc' = "idle" /\ handle'.poisoned /\ handle' # NoHandle
        BY <1>4, <2>3, <3>1 DEF FinishFails, Handles, NoHandle
      <3>3. ~Usable' /\ Shown' = {} /\ Status' = "broken"
        BY <3>2 DEF Usable, Healthy, View
      <3> QED
        BY <1>0, <2>1, <2>3, <3>3 DEF C!Break, C!Next, histVars
    <2> QED
      BY <2>2, <2>3
  <1> QED
    BY <1>1, <1>2, <1>3, <1>4 DEF FinishNext

-----------------------------------------------------------------------------
(* The theorem. *)

\* A journal never opened is one of the contract's initial states.
LEMMA InitialStates == Init => C!Init
  BY DEF Init, C!Init, Status, Shown, Usable, Healthy, NoHandle

\* Every step of the files is a step of the contract or one nobody can see.
LEMMA StepsMap == IInv /\ IInv' /\ HInv /\ HInv' /\ View /\ View' /\ [Next]_vars => [C!Next]_(C!vars)
  <1> SUFFICES ASSUME IInv, IInv', HInv, HInv', View, View', [Next]_vars
               PROVE  C!Next \/ UNCHANGED C!vars
    OBVIOUS
  <1>1. CASE Open
    BY <1>1, OpenSteps, UnseenStutters
  <1>2. CASE AppendNext
    BY <1>2, AppendSteps, UnseenStutters
  <1>3. CASE Rollback
    BY <1>3, RollbackSteps, UnseenStutters
  <1>4. CASE Reset
    BY <1>4, MarkerSteps, FinishSteps, UnseenStutters DEF Reset, FinishNext
  <1>5. CASE Kill \/ PowerLoss
    <2>1. handle' = NoHandle /\ cur' = NoAppend /\ pc' = "down" /\ UNCHANGED histVars
      BY <1>5 DEF Kill, PowerLoss, StopProcess
    <2>2. ~Usable'
      BY <2>1 DEF Usable, Healthy
    <2>3. Status' = "off" /\ Shown' = {}
      BY <2>1, <2>2 DEF View
    <2> QED
      BY <2>1, <2>3 DEF C!Stop, C!Next, histVars
  <1>6. CASE UNCHANGED vars
    BY <1>6 DEF vars, fileVars, procVars, histVars, C!vars, Status, Shown, Usable, Healthy
  <1> QED
    BY <1>1, <1>2, <1>3, <1>4, <1>5, <1>6 DEF Next

\* What append, reset and open promise (JournalContract) is what their writes,
\* truncations and synchronisations of active.wal do, whichever of them fails and
\* whenever the process or the machine stops.
THEOREM JournalImplementsContract == Spec => ImplementsContract
  <1> QED
    BY InitialStates, StepsMap, ViewOf, Invariance, HandleInvariance, PTL
    DEF Spec, ImplementsContract, C!Spec

=============================================================================
