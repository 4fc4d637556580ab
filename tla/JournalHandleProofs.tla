------------------------- MODULE JournalHandleProofs -------------------------
(***************************************************************************)
(* Proofs about the open Journal: what the handle says of the file, which  *)
(* references it accepts, and what is left of a call that stopped.         *)
(* JournalProofs says what may be on the disk; the invariant here relates  *)
(* it to the handle, its configuration and the references it has issued.   *)
(***************************************************************************)
EXTENDS JournalProofs, JournalRefinement, FiniteSetTheorems

SpansOf(frames) == {Span(f) : f \in frames}

\* The frames the handle knows: an append in progress writes behind them, and a
\* rollback cuts the file back to them.
Known == {f \in body.frames : End(f) <= handle.end}

\* Finitely many frames, no two at one place.
Separate(frames) == IsFiniteSet(frames) /\ \A f, g \in frames : f.at = g.at => f = g

\* Every file a power loss may leave has such frames, and an active header that
\* names its segment.
MediumInv ==
    /\ \A b \in diskBodies : Separate(b.frames)
    /\ \A h \in diskHdrs : h.k = "active" => h.id # NoId

\* Before there is a handle.
OpeningInv ==
    /\ pc \in {"down", "init_write", "init_sync", "sync_root"} => handle = NoHandle
    /\ pc = "sync_root" => WithinLimits(body, config)
    /\ handle = NoHandle => issued = {}

\* The handle lists the frames it knows, and they are within the limits it was
\* opened under; behind them is at most the frame of the append in progress.
KnownInv ==
    Usable =>
        /\ ~handle.poisoned
        /\ handle.parts = SpansOf(Known)
        /\ \A f \in body.frames : f \in Known \/ (cur # NoAppend /\ f = cur.frame)
        /\ handle.parts = {} <=> handle.id = NoId
        /\ handle.parts = {} => handle.end = HeaderLen
        /\ handle.end <= config.maxLen
        /\ Cardinality(Known) <= config.maxParts

\* Between two calls, and once a call has got so far, the header is the one the
\* handle stands for.
HeaderInv == Healthy \/ pc \in Marking \cup {"rollback_sync"} => hdr = CurrentHeader

\* What an append or a reset was admitted for.
AdmittedInv ==
    /\ pc \in Appending =>
          /\ End(cur.frame) + MarkerLen <= config.maxLen
          /\ Cardinality(Known) + 1 <= config.maxParts
    /\ pc \in Marking => handle.end + MarkerLen <= config.maxLen /\ handle.parts # {}

\* Nothing is left unsynchronised between calls, but for what was there before.
QuietInv ==
    (Healthy \/ pc = "sync_root") /\ ~inherited => diskHdrs = {hdr} /\ diskBodies = {body}

\* A complete marker, and what is in front of it, as the reset wrote it.
Marked(b) ==
    /\ b.tail = Marker(handle.end, handle.id) /\ b.valid = handle.end
    /\ b.frames # {}
    /\ WithinLimits(b, config)
Cleared(b) == b.frames = {} /\ b.valid = HeaderLen /\ b.tail = CleanTail

\* What the rest of a reset may leave: the old header, the empty one or a torn
\* one in front of the marker, and only then the truncated file.
FinishInv ==
    /\ pc = "marker_sync" => Marked(body)
    /\ pc \in Finishing /\ handle # NoHandle =>
          /\ acked = {} /\ limbo = {} /\ ~asked
          /\ ~handle.poisoned /\ handle.id # NoId
          /\ \A h \in diskHdrs : HeaderTransition(h, Marker(handle.end, handle.id))
          /\ \A b \in diskBodies : Marked(b) \/ (pc = "finish_sync" /\ Cleared(b))
          /\ pc \in {"finish_header", "finish_header_sync", "finish_truncate"} => Marked(body)
    /\ pc \in {"finish_truncate", "finish_sync"} => diskHdrs = {EmptyHeader}

\* The frames of the file are those of the handle, or one more at its end; a
\* reset that is past its commitment may have truncated them.
LeftInv ==
    handle # NoHandle =>
        \/ SpansOf(body.frames) = handle.parts
        \/ \E s \in SpansOf(body.frames) :
              s.at = handle.end /\ SpansOf(body.frames) = handle.parts \cup {s}
        \/ body.frames = {} /\ acked = {}

\* References: those of the handle's generation are of frames it knows, and the
\* generation a reset has taken is still unused.
RefInv ==
    /\ handle # NoHandle => handle.gen < nextGen /\ \A r \in issued : r.gen <= handle.gen
    /\ pc \in Marking \cup Finishing /\ handle # NoHandle => handle.gen < nextGen - 1
    /\ Usable =>
          \A r \in issued : r.gen = handle.gen => \E f \in Known : r = RefOf(f, handle.gen)

HInv ==
    /\ MediumInv /\ OpeningInv /\ KnownInv /\ HeaderInv /\ AdmittedInv
    /\ QuietInv /\ FinishInv /\ LeftInv /\ RefInv

-----------------------------------------------------------------------------
(* Sets of frames. *)

\* Dropping frames keeps the rest apart.
LEMMA SeparateSubset ==
    ASSUME NEW F, Separate(F), NEW G \in SUBSET F
    PROVE  Separate(G)
  <1>1. IsFiniteSet(G)
    BY FS_Subset DEF Separate
  <1> QED
    BY <1>1 DEF Separate

\* So does a frame behind all of them.
LEMMA SeparateExtended ==
    ASSUME NEW F \in SUBSET Frames, Separate(F), NEW f \in Frames, \A g \in F : g.at < f.at
    PROVE  /\ Separate(F \cup {f}) /\ f \notin F
           /\ Cardinality(F \cup {f}) = Cardinality(F) + 1
  <1>1. \A g \in F : g.at # f.at
    BY DEF Frames
  <1>2. f \notin F
    BY <1>1
  <1>3. IsFiniteSet(F \cup {f}) /\ Cardinality(F \cup {f}) = Cardinality(F) + 1
    BY <1>2, FS_AddElement DEF Separate
  <1> QED
    BY <1>1, <1>2, <1>3 DEF Separate

\* A handle counts as many parts as there are frames (Journal.parts.len()).
LEMMA SpansCount ==
    ASSUME NEW F, Separate(F)
    PROVE  IsFiniteSet(SpansOf(F)) /\ Cardinality(SpansOf(F)) = Cardinality(F)
  <1> DEFINE m == [f \in F |-> Span(f)]
  <1>1. m \in [F -> SpansOf(F)]
    BY DEF SpansOf
  <1>2. \A f, g \in F : m[f] = m[g] => f = g
    BY DEF Separate, Span
  <1>3. \A s \in SpansOf(F) : \E f \in F : m[f] = s
    BY DEF SpansOf
  <1> HIDE DEF m
  <1>4. m \in Bijection(F, SpansOf(F))
    BY <1>1, <1>2, <1>3 DEF Bijection, Injection, Surjection, IsInjective
  <1>5. ExistsBijection(F, SpansOf(F))
    BY <1>4 DEF ExistsBijection
  <1> QED
    BY <1>5, FS_Bijection DEF Separate

\* One frame more is one span more.
LEMMA SpansExtended ==
    ASSUME NEW F, NEW f
    PROVE  SpansOf(F \cup {f}) = SpansOf(F) \cup {Span(f)}
  BY DEF SpansOf

-----------------------------------------------------------------------------
(* What the steps write. *)

\* The header write of a step that runs through or stops half-way.
LEMMA HeaderKept ==
    ASSUME TypeOK, MediumInv, NEW new \in Headers, new.k = "active" => new.id # NoId,
           WriteHeader(new) \/ BreakHeader(new)
    PROVE  MediumInv'
  <1>1. diskBodies' = diskBodies
    BY DEF WriteHeader, BreakHeader, fileVars
  <1>2. \A h \in diskHdrs' : h \in diskHdrs \/ h = new \/ \E o \in diskHdrs : h = Tear(o, new)
    BY DEF WriteHeader, BreakHeader, fileVars
  <1>3. \A o \in diskHdrs : Tear(o, new).k = "active" => Tear(o, new) = o
    BY TearShape DEF TypeOK
  <1> QED
    BY <1>1, <1>2, <1>3 DEF MediumInv

\* A piece of a frame or a marker, or a truncation, adds no frame.
LEMMA BodyKept ==
    ASSUME MediumInv, UNCHANGED diskHdrs, body \in diskBodies,
           \A b \in diskBodies' : b \in diskBodies \/ b.frames \subseteq body.frames
    PROVE  MediumInv'
  BY SeparateSubset DEF MediumInv

\* What a failed write behind the header leaves.
LEMMA BrokenKept ==
    ASSUME TypeOK, MediumInv, body \in diskBodies, NEW lens, BreakBody(lens)
    PROVE  MediumInv'
  <1>1. PICK n \in lens :
            IF n = 0 THEN UNCHANGED fileVars
            ELSE WriteBody(WithTail(body, Junk(n)), {WithTail(body, Junk(m)) : m \in 1..n})
    BY DEF BreakBody
  <1>2. CASE n = 0
    BY <1>1, <1>2 DEF MediumInv, fileVars
  <1>3. CASE n # 0
    <2>1. \A b \in diskBodies' : b \in diskBodies \/ \E t : b = WithTail(body, t)
      BY <1>1, <1>3 DEF WriteBody
    <2>2. \A t : WithTail(body, t).frames = body.frames
      <3>1. body \in Bodies
        BY DEF TypeOK
      <3> QED
        BY <3>1 DEF WithTail, Bodies
    <2> QED
      BY <1>1, <1>3, <2>1, <2>2, BodyKept DEF WriteBody
  <1> QED
    BY <1>2, <1>3
-----------------------------------------------------------------------------
(* A usable handle. *)

\* A usable handle ends behind the header, and the file is well formed.
LEMMA UsableShape ==
    IInv /\ Usable =>
        /\ body \in Bodies /\ WellFormed(body) /\ body.frames \subseteq Frames
        /\ body \in diskBodies /\ hdr \in Headers
        /\ handle \in Handles /\ handle.end \in Nat /\ handle.end >= HeaderLen
        /\ handle # NoHandle
        /\ pc \notin {"down", "init_write", "init_sync", "sync_root"} \cup Finishing
  <1> SUFFICES ASSUME IInv, Usable
               PROVE  /\ body \in Bodies /\ WellFormed(body) /\ body.frames \subseteq Frames
                      /\ body \in diskBodies /\ hdr \in Headers
                      /\ handle \in Handles /\ handle.end \in Nat /\ handle.end >= HeaderLen
                      /\ handle # NoHandle
                      /\ pc \notin {"down", "init_write", "init_sync", "sync_root"} \cup Finishing
    OBVIOUS
  <1>1. Healthy \/ pc \in Appending \cup RollingBack \cup Marking
    BY DEF Usable, Appending, RollingBack, Marking
  <1>2. body \in Bodies /\ body \in diskBodies /\ WellFormed(body) /\ hdr \in Headers
    BY DEF IInv, TypeOK, DiskInv, SoundBody
  <1>3. handle \in Handles /\ handle.end >= HeaderLen
    BY <1>1 DEF IInv, TypeOK, HandleInv
  <1>4. handle # NoHandle
    BY <1>3, LengthsAssumption DEF NoHandle
  <1>5. pc \notin {"down", "init_write", "init_sync", "sync_root"} \cup Finishing
    BY <1>1 DEF Healthy, Appending, RollingBack, Marking, Finishing
  <1> QED
    BY <1>2, <1>3, <1>4, <1>5 DEF Bodies, Handles

\* The frames the handle knows lie apart, in front of its end.
LEMMA KnownApart ==
    ASSUME IInv, MediumInv, Usable
    PROVE  /\ Known \subseteq Frames /\ Separate(Known)
           /\ \A f \in Known : f.at < handle.end /\ f.len > 0
           /\ Cardinality(Known) \in Nat
           /\ KnownInv => Cardinality(handle.parts) = Cardinality(Known)
  <1>1. Known \in SUBSET body.frames
    BY DEF Known
  <1>2. Separate(body.frames)
    BY UsableShape DEF MediumInv
  <1>3. Separate(Known)
    BY <1>1, <1>2, SeparateSubset
  <1>4. \A f \in Known : f \in Frames /\ f.len > 0 /\ End(f) <= handle.end
    BY UsableShape DEF Known, WellFormed
  <1>5. \A f \in Known : f.at < handle.end
    BY <1>4, UsableShape DEF Frames, End
  <1> QED
    BY <1>3, <1>4, <1>5, SpansCount, FS_CardinalityType DEF Separate, KnownInv

\* What a usable handle knows says what is left if the process stops here.
LEMMA KnownLeft == IInv /\ KnownInv /\ Usable => LeftInv
  <1> SUFFICES ASSUME IInv, KnownInv, Usable PROVE LeftInv
    OBVIOUS
  <1>1. /\ Known \subseteq body.frames /\ handle.parts = SpansOf(Known)
        /\ \A f \in body.frames : f \in Known \/ (cur # NoAppend /\ f = cur.frame)
    BY DEF Known, KnownInv
  <1>2. CASE body.frames = Known
    BY <1>1, <1>2 DEF LeftInv
  <1>3. CASE body.frames # Known
    <2>1. cur # NoAppend /\ body.frames = Known \cup {cur.frame} /\ cur.frame \in body.frames
      BY <1>1, <1>3
    <2>2. cur.frame.at = handle.end
      BY <2>1 DEF IInv, AppendInv
    <2>3. SpansOf(body.frames) = handle.parts \cup {Span(cur.frame)}
      BY <1>1, <2>1, SpansExtended
    <2>4. Span(cur.frame) \in SpansOf(body.frames) /\ Span(cur.frame).at = handle.end
      BY <2>1, <2>2 DEF SpansOf, Span
    <2> QED
      BY <2>3, <2>4 DEF LeftInv
  <1> QED
    BY <1>2, <1>3

\* With nothing behind the end of the handle, it knows every frame.
LEMMA AllKnown ==
    ASSUME NEW b, WellFormed(b), b.frames \subseteq Frames, b.valid \in Nat, NEW end \in Nat,
           b.valid <= end
    PROVE  {f \in b.frames : End(f) <= end} = b.frames
  BY DEF WellFormed, Frames, End

\* An empty journal is within every limit (validate_config).
LEMMA EmptyWithinLimits ==
    ASSUME NEW b \in Bodies, WellFormed(b), FileLen(b) = HeaderLen, NEW c \in Configs
    PROVE  b.frames = {} /\ WithinLimits(b, c)
  <1>1. b.frames = {}
    BY NothingBehindHeader
  <1>2. Cardinality({}) = 0
    BY FS_EmptySet
  <1>3. c.maxLen \in Nat /\ c.maxParts \in Nat /\ HeaderLen <= c.maxLen
    BY ConfigsAssumption
  <1>4. 0 <= c.maxParts
    BY <1>3
  <1> QED
    BY <1>1, <1>2, <1>3, <1>4 DEF WithinLimits

\* A step inside a call that leaves the handle alone, and of the frames those it
\* knows, leaves everything that is said of them.
LEMMA InsideCall ==
    ASSUME IInv, HInv, IInv', Usable, Usable', pc' # "idle", UNCHANGED procVars, Known' = Known,
           \A f \in body'.frames : f \in Known \/ (cur # NoAppend /\ f = cur.frame),
           pc' \in Appending => pc \in Appending, pc' \in Marking => pc \in Marking
    PROVE  OpeningInv' /\ KnownInv' /\ AdmittedInv' /\ QuietInv' /\ LeftInv' /\ RefInv'
  <1>1. UNCHANGED <<handle, config, cur, nextGen, issued>>
    BY DEF procVars
  <1>2. handle # NoHandle
    BY UsableShape
  <1>3. pc' \notin {"down", "init_write", "init_sync", "sync_root"} \cup Finishing
    <2>1. (pc \notin {"down", "init_write", "init_sync", "sync_root"} \cup Finishing)'
      BY UsableShape, PTL
    <2> QED
      BY <2>1 DEF Finishing
  <1>4. OpeningInv'
    BY <1>1, <1>2, <1>3 DEF OpeningInv
  <1>5. KnownInv'
    BY <1>1 DEF HInv, KnownInv
  <1>6. AdmittedInv'
    BY <1>1 DEF HInv, AdmittedInv
  <1>7. QuietInv'
    BY <1>3 DEF QuietInv, Healthy
  <1>8. LeftInv'
    BY <1>5, KnownLeft, PTL
  <1>9. RefInv'
    BY <1>1, <1>2, <1>3 DEF HInv, RefInv
  <1> QED
    BY <1>4, <1>5, <1>6, <1>7, <1>8, <1>9
-----------------------------------------------------------------------------
(* The steps of open. *)

\* A step of open that hands out no handle.
LEMMA StillOpening ==
    ASSUME HInv, handle = NoHandle, handle' = NoHandle, UNCHANGED issued,
           pc' \in {"down", "init_write", "init_sync", "sync_root"} \cup Finishing,
           pc' = "sync_root" => WithinLimits(body, config)' /\ (QuietInv)',
           pc' \in {"finish_truncate", "finish_sync"} => diskHdrs' = {EmptyHeader}
    PROVE  OpeningInv' /\ KnownInv' /\ HeaderInv' /\ AdmittedInv' /\ QuietInv' /\ FinishInv'
           /\ LeftInv' /\ RefInv'
  <1> USE DEF Appending, RollingBack, Marking, Finishing
  <1>1. ~Usable' /\ ~Healthy' /\ pc' \notin Appending \cup Marking \cup {"rollback_sync"}
    BY DEF Usable, Healthy
  <1>2. OpeningInv'
    BY DEF OpeningInv, HInv
  <1>3. KnownInv' /\ HeaderInv' /\ AdmittedInv' /\ LeftInv'
    BY <1>1 DEF KnownInv, HeaderInv, AdmittedInv, LeftInv
  <1>4. QuietInv'
    BY <1>1 DEF QuietInv
  <1>5. FinishInv' /\ RefInv'
    BY <1>1 DEF FinishInv, RefInv
  <1> QED
    BY <1>2, <1>3, <1>4, <1>5

\* Every step of Journal::open.
LEMMA OpenHandle == IInv /\ IInv' /\ HInv /\ Open => HInv'
  <1> SUFFICES ASSUME IInv, IInv', HInv, Open PROVE HInv'
    OBVIOUS
  <1>0. /\ body \in Bodies /\ WellFormed(body) /\ body \in diskBodies /\ hdr \in diskHdrs
        /\ hdr \in Headers /\ SoundHeader(hdr) /\ config \in Configs /\ body.frames \subseteq Frames
    BY DEF IInv, TypeOK, DiskInv, SoundBody, Bodies
  <1>1. ASSUME NEW c \in Configs, OpenFile(c) PROVE HInv'
    <2>1. /\ handle = NoHandle /\ UNCHANGED <<handle, issued, hdr, body, diskHdrs, diskBodies>>
          /\ pc' \in {"init_write", "finish_header", "sync_root"} /\ config' = c
          /\ pc' = "sync_root" => WithinLimits(body, c)
          /\ inherited' = (diskHdrs # {hdr} \/ diskBodies # {body})
      BY <1>1 DEF OpenFile, Opens, HInv, OpeningInv
    <2>2. MediumInv'
      BY <2>1 DEF HInv, MediumInv
    <2>3. QuietInv' /\ (pc' = "sync_root" => WithinLimits(body, config)')
      BY <2>1 DEF QuietInv, Healthy, WithinLimits, FileLen
    <2> QED
      BY <2>1, <2>2, <2>3, StillOpening DEF HInv, Finishing
  <1>2. CASE InitWrite
    <2>1. /\ handle = NoHandle /\ UNCHANGED <<handle, issued>> /\ pc' = "init_sync"
      BY <1>2 DEF InitWrite, procVars, HInv, OpeningInv
    <2>2. MediumInv'
      BY <1>2, HeaderKept, HeaderTypes DEF InitWrite, HInv, IInv
    <2> QED
      BY <2>1, <2>2, StillOpening DEF HInv
  <1>3. CASE InitSync
    <2>1. /\ handle = NoHandle /\ UNCHANGED <<handle, issued, config, hdr, body>>
          /\ pc' = "sync_root" /\ diskHdrs' = {hdr} /\ diskBodies' = {body}
          /\ FileLen(body) = HeaderLen
      BY <1>3 DEF InitSync, SyncFile, procVars, HInv, OpeningInv, IInv, OpenInv
    <2>2. MediumInv'
      BY <1>0, <2>1 DEF HInv, MediumInv
    <2>3. WithinLimits(body, config)
      BY <1>0, <2>1, EmptyWithinLimits
    <2>4. QuietInv' /\ WithinLimits(body, config)'
      BY <2>1, <2>3 DEF QuietInv, WithinLimits, FileLen
    <2> QED
      BY <2>1, <2>2, <2>4, StillOpening DEF HInv
  <1>4. CASE SyncRoot
    <2>1. /\ ValidJournal(hdr, body) /\ WithinLimits(body, config)
          /\ pc = "sync_root" /\ pc' = "idle"
          /\ UNCHANGED <<hdr, body, diskHdrs, diskBodies, inherited, cur, config, histVars>>
          /\ handle' = [end |-> FileLen(body), parts |-> SpansOf(body.frames),
                        gen |-> nextGen, id |-> hdr.id, poisoned |-> FALSE]
          /\ nextGen' = nextGen + 1 /\ nextGen \in Nat
          /\ issued' = {RefOf(f, nextGen) : f \in body.frames}
      BY <1>4 DEF SyncRoot, diskVars, HInv, OpeningInv, IInv, OpenInv, TypeOK, SpansOf
    <2>2. /\ handle'.end = FileLen(body) /\ handle'.parts = SpansOf(body.frames)
          /\ handle'.gen = nextGen /\ handle'.id = hdr.id /\ ~handle'.poisoned
      BY <2>1
    <2>3. /\ FileLen(body) \in Nat /\ body.valid \in Nat /\ body.valid <= FileLen(body)
          /\ FileLen(body) >= HeaderLen
      BY <1>0, LengthsAssumption DEF FileLen, Bodies, Tails, WellFormed
    <2>4. Known' = body.frames
      BY <1>0, <2>1, <2>2, <2>3, AllKnown DEF Known
    <2>5. handle' # NoHandle
      BY <2>2, <2>3, LengthsAssumption DEF NoHandle
    <2>6. /\ hdr.k = "empty" => hdr = EmptyHeader /\ hdr.id = NoId /\ body.frames = {}
                                /\ FileLen(body) = HeaderLen
          /\ hdr.k = "active" => hdr.id # NoId /\ body.frames # {}
                                 /\ hdr = ActiveHeader(hdr.id, FileLen(body) - HeaderLen)
      <3>1. CASE hdr.k = "empty"
        <4>1. hdr = EmptyHeader /\ hdr.len = 0 /\ hdr.id = NoId
          BY <1>0, <3>1, HeaderTypes DEF SoundHeader
        <4>2. FileLen(body) = HeaderLen
          BY <2>1, <2>3, <4>1, LengthsAssumption DEF ValidJournal
        <4> QED
          BY <1>0, <3>1, <4>1, <4>2, NothingBehindHeader
      <3>2. CASE hdr.k = "active"
        <4>1. hdr = [k |-> hdr.k, id |-> hdr.id, len |-> hdr.len]
          BY <1>0 DEF Headers
        <4> QED
          BY <1>0, <2>1, <3>2, <4>1 DEF ValidJournal, ActiveHeader, HInv, MediumInv
      <3> QED
        BY <3>1, <3>2
    <2>7. hdr.k = "empty" \/ hdr.k = "active"
      BY <2>1 DEF ValidJournal
    <2>8. MediumInv' /\ OpeningInv'
      BY <2>1, <2>5 DEF HInv, MediumInv, OpeningInv
    <2>9. KnownInv'
      <3>1. SpansOf(body.frames) = {} <=> body.frames = {}
        BY DEF SpansOf
      <3>2. FileLen(body) <= config.maxLen /\ Cardinality(body.frames) <= config.maxParts
        BY <2>1 DEF WithinLimits
      <3> QED
        BY <2>1, <2>2, <2>4, <2>6, <2>7, <3>1, <3>2 DEF KnownInv
    <2>10. HeaderInv'
      BY <2>1, <2>2, <2>6, <2>7 DEF HeaderInv, CurrentHeader
    <2>11. AdmittedInv' /\ FinishInv'
      BY <2>1 DEF AdmittedInv, FinishInv, Appending, Marking, Finishing
    <2>12. QuietInv'
      BY <2>1 DEF HInv, QuietInv
    <2>13. Usable'
      BY <2>1, <2>2 DEF Usable, Healthy
    <2>14. LeftInv'
      BY <2>9, <2>13, KnownLeft, PTL
    <2>15. RefInv'
      <3>1. \A r \in issued' : r.gen = nextGen /\ \E f \in Known' : r = RefOf(f, nextGen)
        BY <2>1, <2>4 DEF RefOf
      <3> QED
        BY <2>1, <2>2, <3>1 DEF RefInv, Marking, Finishing
    <2> QED
      BY <2>8, <2>9, <2>10, <2>11, <2>12, <2>14, <2>15 DEF HInv
  <1>5. CASE OpenFails
    <2>1. handle = NoHandle /\ UNCHANGED <<handle, issued>> /\ pc' = "down"
      BY <1>5 DEF OpenFails, procVars, HInv, OpeningInv
    <2>2. MediumInv'
      <3>1. CASE UNCHANGED fileVars
        BY <3>1 DEF HInv, MediumInv, fileVars
      <3>2. CASE BreakHeader(EmptyHeader)
        BY <3>2, HeaderKept, HeaderTypes DEF HInv, IInv
      <3> QED
        BY <1>5, <3>1, <3>2 DEF OpenFails
    <2> QED
      BY <2>1, <2>2, StillOpening DEF HInv
  <1> QED
    BY <1>1, <1>2, <1>3, <1>4, <1>5 DEF Open
-----------------------------------------------------------------------------
(* The steps of append. *)

\* Every step of Journal::append.
LEMMA AppendHandle == IInv /\ IInv' /\ HInv /\ AppendNext => HInv'
  <1> SUFFICES ASSUME IInv, IInv', HInv, AppendNext PROVE HInv'
    OBVIOUS
  <1> USE DEF Appending, RollingBack, Marking, Finishing
  <1>0. TypeOK /\ MediumInv /\ body \in diskBodies
    BY DEF IInv, HInv, DiskInv
  <1>1. ASSUME NEW id \in Ids, NEW p \in Parts, AppendBegin(id, p) PROVE HInv'
    <2>1. /\ Usable /\ Usable' /\ pc = "idle" /\ pc' \in {"append_header", "append_frame"}
          /\ Admits(id, p) /\ ~handle.poisoned
          /\ cur'.frame = [at |-> handle.end, len |-> FrameHeaderLen + PartLen[p], part |-> p]
          /\ UNCHANGED <<hdr, body, diskHdrs, diskBodies, handle, config, nextGen, issued, acked>>
      BY <1>1 DEF AppendBegin, Usable, Healthy, fileVars
    <2>2. handle # NoHandle /\ handle.end \in Nat /\ FrameHeaderLen + PartLen[p] \in Nat
      BY <2>1, UsableShape, LengthsAssumption, PartsAssumption
    <2>3. Known' = Known
      BY <2>1 DEF Known
    <2>4. MediumInv' /\ OpeningInv'
      BY <2>1, <2>2 DEF HInv, MediumInv, OpeningInv
    <2>5. \A f \in body.frames : f \in Known
      BY <1>1 DEF HInv, KnownInv, Usable, IInv, AppendInv, AppendBegin, Healthy
    <2>6. KnownInv'
      BY <2>1, <2>3, <2>5 DEF HInv, KnownInv
    <2>7. AdmittedInv'
      <3>1. handle.end + FrameHeaderLen + PartLen[p] + MarkerLen <= config.maxLen
            /\ Cardinality(handle.parts) < config.maxParts
        BY <2>1 DEF Admits
      <3>2. End(cur'.frame) = handle.end + (FrameHeaderLen + PartLen[p])
        BY <2>1 DEF End
      <3>3. Cardinality(Known) + 1 <= config.maxParts
        <4>1. Cardinality(handle.parts) = Cardinality(Known) /\ Cardinality(Known) \in Nat
          BY <2>1, KnownApart DEF HInv
        <4>2. config.maxParts \in Nat
          BY <1>0, ConfigsAssumption DEF TypeOK
        <4> QED
          BY <3>1, <4>1, <4>2
      <3>4. End(cur'.frame) + MarkerLen <= config.maxLen
        BY <2>2, <3>1, <3>2, LengthsAssumption, PartsAssumption
      <3> QED
        BY <2>1, <2>3, <3>3, <3>4 DEF AdmittedInv, End
    <2>8. HeaderInv' /\ QuietInv' /\ FinishInv'
      BY <2>1 DEF HeaderInv, QuietInv, FinishInv, Healthy
    <2>9. LeftInv'
      BY <2>1, <2>6, KnownLeft, PTL
    <2>10. RefInv'
      BY <2>1, <2>2, <2>3 DEF HInv, RefInv
    <2> QED
      BY <2>4, <2>6, <2>7, <2>8, <2>9, <2>10 DEF HInv
  <1>2. ASSUME pc \in Appending, pc' \in Appending \cup {"rollback_truncate"}, UNCHANGED procVars,
               \/ UNCHANGED body
               \/ body'.frames = body.frames
               \/ body'.frames = body.frames \cup {cur.frame}
        PROVE  OpeningInv' /\ KnownInv' /\ AdmittedInv' /\ QuietInv' /\ LeftInv' /\ RefInv'
               /\ HeaderInv' /\ FinishInv'
    <2>1. Usable /\ Usable' /\ UNCHANGED <<handle, cur>>
      BY <1>2 DEF Usable, procVars
    <2>2. cur # NoAppend /\ cur.frame.at = handle.end /\ cur.frame.len > 0
      BY <1>2 DEF IInv, AppendInv
    <2>3. cur.frame \in Frames
      BY <1>0, <2>2 DEF TypeOK
    <2>4. ~(End(cur.frame) <= handle.end)
      BY <2>1, <2>2, <2>3, UsableShape DEF End, Frames
    <2>5. Known' = Known
      BY <1>2, <2>1, <2>4 DEF Known
    <2>6. \A f \in body'.frames : f \in Known \/ (cur # NoAppend /\ f = cur.frame)
      BY <1>2, <2>1, <2>2 DEF HInv, KnownInv
    <2>7. OpeningInv' /\ KnownInv' /\ AdmittedInv' /\ QuietInv' /\ LeftInv' /\ RefInv'
      BY <1>2, <2>1, <2>5, <2>6, InsideCall
    <2>8. HeaderInv' /\ FinishInv'
      BY <1>2 DEF HeaderInv, FinishInv, Healthy
    <2> QED
      BY <2>7, <2>8
  <1>3. CASE AppendHeader
    <2>1. NextHeader \in Headers /\ NextHeader.k = "active" /\ NextHeader.id # NoId
      <3>1. cur # NoAppend /\ cur.id \in Ids /\ cur.frame \in Frames
        BY <1>0, <1>3 DEF AppendHeader, IInv, AppendInv, TypeOK
      <3>2. handle.end >= HeaderLen /\ handle.end \in Nat /\ cur.frame.at = handle.end
        BY <1>3, UsableShape DEF AppendHeader, Usable, IInv, AppendInv
      <3>3. End(cur.frame) - HeaderLen \in Nat
        BY <3>1, <3>2, LengthsAssumption DEF End, Frames
      <3> QED
        BY <3>1, <3>3, HeaderTypes, IdsAssumption DEF NextHeader
    <2>2. MediumInv'
      BY <1>0, <1>3, <2>1, HeaderKept DEF AppendHeader
    <2>3. UNCHANGED procVars /\ UNCHANGED body /\ pc = "append_header" /\ pc' \in Appending
      BY <1>3 DEF AppendHeader, WriteHeader
    <2> QED
      BY <1>2, <2>2, <2>3 DEF HInv
  <1>4. CASE AppendFrame
    <2>1. \A t : WithTail(body, t).frames = body.frames
      BY <1>0 DEF TypeOK, Bodies, WithTail
    <2>2. MediumInv'
      BY <1>0, <1>4, <2>1, BodyKept DEF AppendFrame, WriteBody
    <2>3. UNCHANGED procVars /\ body'.frames = body.frames /\ pc = "append_frame"
          /\ pc' \in Appending
      BY <1>4, <2>1 DEF AppendFrame, WriteBody
    <2> QED
      BY <1>2, <2>2, <2>3 DEF HInv
  <1>5. CASE AppendBody
    <2>1. /\ body' = WithFrame(body, cur.frame) /\ UNCHANGED <<diskHdrs, procVars>>
          /\ \A b \in diskBodies' : b \in diskBodies \/ b = body' \/ \E t : b = WithTail(body, t)
          /\ pc = "append_body" /\ pc' \in Appending
      BY <1>5 DEF AppendBody, WriteBody
    <2>2. body'.frames = body.frames \cup {cur.frame}
      BY <2>1 DEF WithFrame
    <2>3. Separate(body'.frames)
      <3>1. Usable /\ cur # NoAppend /\ cur.frame.at = body.valid /\ body.valid \in Nat
        BY <1>0, <2>1 DEF Usable, IInv, AppendInv, TypeOK, Bodies
      <3>2. cur.frame \in Frames /\ body.frames \in SUBSET Frames /\ Separate(body.frames)
        BY <1>0, <3>1, UsableShape DEF TypeOK, MediumInv
      <3>3. \A g \in body.frames : g.at < cur.frame.at
        BY <3>1, <3>2, UsableShape DEF WellFormed, End, Frames
      <3> QED
        BY <2>2, <3>2, <3>3, SeparateExtended
    <2>4. \A t : WithTail(body, t).frames = body.frames
      BY <1>0 DEF TypeOK, Bodies, WithTail
    <2>5. MediumInv'
      BY <1>0, <2>1, <2>3, <2>4 DEF MediumInv
    <2> QED
      BY <1>2, <2>1, <2>2, <2>5 DEF HInv
  <1>6. CASE AppendSync
    <2>1. /\ pc = "append_sync" /\ pc' = "idle" /\ Usable /\ ~handle.poisoned
          /\ UNCHANGED <<hdr, body, config, nextGen>>
          /\ diskHdrs' = {hdr} /\ diskBodies' = {body} /\ cur' = NoAppend
          /\ handle' = [handle EXCEPT !.end = End(cur.frame),
                                      !.parts = @ \cup {Span(cur.frame)}, !.id = cur.id]
          /\ issued' = issued \cup {RefOf(cur.frame, handle.gen)}
      BY <1>6 DEF AppendSync, SyncFile, Usable, HInv, KnownInv
    <2>2. /\ handle \in Handles /\ handle # NoHandle /\ handle.end \in Nat
          /\ cur # NoAppend /\ cur.frame \in Frames /\ cur.id \in Ids
          /\ cur.frame.at = handle.end /\ cur.frame.len > 0
          /\ FrameWritten /\ hdr = NextHeader /\ hdr \in diskHdrs
      BY <1>0, <2>1, UsableShape DEF TypeOK, IInv, AppendInv, DiskInv
    <2>3. /\ handle'.end = End(cur.frame) /\ handle'.parts = handle.parts \cup {Span(cur.frame)}
          /\ handle'.id = cur.id /\ handle'.gen = handle.gen /\ ~handle'.poisoned
      BY <2>1, <2>2 DEF Handles
    <2>4. End(cur.frame) \in Nat /\ End(cur.frame) > handle.end /\ handle.end >= HeaderLen
      BY <2>1, <2>2, UsableShape DEF End, Frames
    <2>5. Known' = body.frames /\ body.frames = Known \cup {cur.frame}
      <3>1. body.valid = End(cur.frame) /\ cur.frame \in body.frames
        BY <2>2 DEF FrameWritten
      <3>2. {f \in body.frames : End(f) <= End(cur.frame)} = body.frames
        BY <2>1, <2>4, <3>1, UsableShape, AllKnown
      <3>3. \A f \in body.frames : f \in Known \/ f = cur.frame
        BY <2>1 DEF HInv, KnownInv
      <3> QED
        BY <2>1, <2>3, <3>1, <3>2, <3>3 DEF Known
    <2>6. MediumInv'
      BY <1>0, <2>1, <2>2 DEF MediumInv
    <2>7. OpeningInv'
      BY <2>1, <2>3, <2>4, LengthsAssumption DEF OpeningInv, NoHandle
    <2>8. KnownInv'
      <3>1. handle'.parts = SpansOf(Known')
        <4>1. handle.parts = SpansOf(Known)
          BY <2>1 DEF HInv, KnownInv
        <4>2. SpansOf(Known \cup {cur.frame}) = SpansOf(Known) \cup {Span(cur.frame)}
          BY SpansExtended
        <4>3. SpansOf(Known') = SpansOf(Known \cup {cur.frame})
          BY <2>5
        <4> QED
          BY <2>3, <4>1, <4>2, <4>3
      <3>2. handle'.parts # {} /\ handle'.id # NoId
        BY <2>2, <2>3, IdsAssumption
      <3>3. handle'.end <= config'.maxLen
        <4>1. End(cur.frame) + MarkerLen <= config.maxLen
          BY <2>1 DEF HInv, AdmittedInv
        <4>2. config.maxLen \in Nat
          BY <1>0, ConfigsAssumption DEF TypeOK
        <4>3. End(cur.frame) <= config.maxLen
          BY <2>4, <4>1, <4>2, LengthsAssumption
        <4> QED
          BY <2>1, <2>3, <4>3
      <3>4. Cardinality(Known') <= config'.maxParts
        <4>1. /\ Known \in SUBSET Frames /\ Separate(Known)
              /\ \A g \in Known : g.at < cur.frame.at
          BY <1>0, <2>1, <2>2, KnownApart
        <4>2. Cardinality(Known \cup {cur.frame}) = Cardinality(Known) + 1
          BY <2>2, <4>1, SeparateExtended
        <4>3. Cardinality(Known) + 1 <= config.maxParts
          BY <2>1 DEF HInv, AdmittedInv
        <4> QED
          BY <2>1, <2>5, <4>2, <4>3
      <3>5. \A f \in body'.frames : f \in Known'
        BY <2>1, <2>5
      <3> QED
        BY <2>3, <3>1, <3>2, <3>3, <3>4, <3>5 DEF KnownInv
    <2>9. HeaderInv'
      <3>1. CurrentHeader' = ActiveHeader(cur.id, End(cur.frame) - HeaderLen)
        BY <2>2, <2>3, IdsAssumption DEF CurrentHeader
      <3> QED
        BY <2>1, <2>2, <3>1 DEF HeaderInv, NextHeader
    <2>10. AdmittedInv' /\ QuietInv' /\ FinishInv'
      BY <2>1 DEF AdmittedInv, QuietInv, FinishInv
    <2>11. Usable'
      BY <2>1, <2>3 DEF Usable, Healthy
    <2>12. LeftInv'
      BY <2>8, <2>11, KnownLeft, PTL
    <2>13. RefInv'
      <3>1. RefOf(cur.frame, handle.gen).gen = handle.gen /\ handle.gen \in Nat
        BY <2>2 DEF RefOf, Handles
      <3>2. handle.gen < nextGen /\ \A r \in issued' : r.gen <= handle.gen
        BY <2>1, <2>2, <3>1 DEF HInv, RefInv
      <3>3. \A r \in issued' : r.gen = handle.gen =>
                \E f \in body.frames : r = RefOf(f, handle.gen)
        BY <2>1, <2>5 DEF HInv, RefInv
      <3> QED
        BY <2>1, <2>3, <2>5, <3>2, <3>3 DEF RefInv
    <2> QED
      BY <2>6, <2>7, <2>8, <2>9, <2>10, <2>12, <2>13 DEF HInv
  <1>7. CASE AppendFails
    <2>1. /\ pc \in Appending /\ pc' = "rollback_truncate" /\ UNCHANGED procVars
      BY <1>7 DEF AppendFails
    <2>2. MediumInv' /\ body'.frames = body.frames
      <3>1. CASE pc = "append_header" /\ BreakHeader(NextHeader)
        <4>1. NextHeader \in Headers /\ NextHeader.id # NoId
          <5>1. cur # NoAppend /\ cur.id \in Ids /\ cur.frame \in Frames /\ Usable
                /\ cur.frame.at = handle.end
            BY <1>0, <3>1 DEF IInv, AppendInv, TypeOK, Usable
          <5>2. End(cur.frame) - HeaderLen \in Nat
            BY <5>1, UsableShape, LengthsAssumption DEF End, Frames
          <5> QED
            BY <5>1, <5>2, HeaderTypes, IdsAssumption DEF NextHeader
        <4> QED
          BY <1>0, <3>1, <4>1, HeaderKept DEF BreakHeader, fileVars
      <3>2. CASE \E lens : BreakBody(lens)
        <4>1. \A t : WithTail(body, t).frames = body.frames
          BY <1>0 DEF TypeOK, Bodies, WithTail
        <4> QED
          BY <1>0, <3>2, <4>1, BrokenKept DEF BreakBody, WriteBody, fileVars
      <3>3. CASE UNCHANGED fileVars
        BY <1>0, <3>3 DEF MediumInv, fileVars
      <3> QED
        BY <1>7, <3>1, <3>2, <3>3 DEF AppendFails
    <2> QED
      BY <1>2, <2>1, <2>2 DEF HInv
  <1> QED
    BY <1>1, <1>3, <1>4, <1>5, <1>6, <1>7 DEF AppendNext
-----------------------------------------------------------------------------
(* The steps of rollback. *)

\* The header a rollback restores is one that a rewrite may leave.
LEMMA CurrentHeaderShape ==
    ASSUME TypeOK, handle.end >= HeaderLen
    PROVE  /\ CurrentHeader \in Headers
           /\ CurrentHeader.k = "active" => CurrentHeader.id # NoId
  <1>1. handle.end - HeaderLen \in Nat /\ handle.id \in Ids \cup {NoId}
    BY LengthsAssumption DEF TypeOK, Handles
  <1> QED
    BY <1>1, HeaderTypes DEF CurrentHeader

\* Every step of the rollback of an append or a reset marker.
LEMMA RollbackHandle == IInv /\ IInv' /\ HInv /\ Rollback => HInv'
  <1> SUFFICES ASSUME IInv, IInv', HInv, Rollback PROVE HInv'
    OBVIOUS
  <1> USE DEF Appending, RollingBack, Marking, Finishing
  <1>0. /\ TypeOK /\ MediumInv /\ body \in diskBodies /\ hdr \in diskHdrs
        /\ pc \in RollingBack /\ Usable /\ handle # NoHandle /\ ~handle.poisoned
        /\ handle.end \in Nat /\ handle.end >= HeaderLen
    <2>1. pc \in RollingBack /\ Usable
      BY DEF Rollback, RollbackTruncate, RollbackHeader, RollbackSync, RollbackFails, Usable
    <2> QED
      BY <2>1, UsableShape DEF IInv, HInv, DiskInv, KnownInv
  <1>1. CASE RollbackTruncate
    <2>1. /\ pc' = "rollback_header" /\ UNCHANGED procVars /\ UNCHANGED <<diskHdrs, handle>>
          /\ body'.frames = Known /\ diskBodies' = diskBodies \cup {body'}
      BY <1>1 DEF RollbackTruncate, WriteBody, Truncated, procVars, Known
    <2>2. Known \subseteq body.frames
      BY DEF Known
    <2>3. Usable' /\ Known' = Known
      BY <2>1 DEF Usable, Known
    <2>4. MediumInv'
      BY <1>0, <2>1, <2>2, BodyKept
    <2>5. \A f \in body'.frames : f \in Known
      BY <2>1
    <2>6. OpeningInv' /\ KnownInv' /\ AdmittedInv' /\ QuietInv' /\ LeftInv' /\ RefInv'
      BY <1>0, <2>1, <2>3, <2>5, InsideCall
    <2> QED
      BY <2>1, <2>4, <2>6 DEF HInv, HeaderInv, FinishInv, Healthy
  <1>2. CASE RollbackHeader
    <2>1. /\ pc' = "rollback_sync" /\ UNCHANGED procVars /\ UNCHANGED <<body, handle>>
          /\ hdr' = CurrentHeader /\ WriteHeader(CurrentHeader)
      BY <1>2 DEF RollbackHeader, WriteHeader, procVars
    <2>2. MediumInv'
      BY <1>0, <2>1, CurrentHeaderShape, HeaderKept
    <2>3. Usable' /\ Known' = Known
      BY <2>1 DEF Usable, Known
    <2>4. \A f \in body'.frames : f \in Known \/ (cur # NoAppend /\ f = cur.frame)
      BY <1>0, <2>1 DEF HInv, KnownInv
    <2>5. OpeningInv' /\ KnownInv' /\ AdmittedInv' /\ QuietInv' /\ LeftInv' /\ RefInv'
      BY <1>0, <2>1, <2>3, <2>4, InsideCall
    <2>6. HeaderInv'
      BY <2>1 DEF HeaderInv, Healthy, CurrentHeader
    <2> QED
      BY <2>1, <2>2, <2>5, <2>6 DEF HInv, FinishInv
  <1>3. CASE RollbackSync
    <2>1. /\ pc = "rollback_sync" /\ pc' = "idle"
          /\ UNCHANGED <<hdr, body, handle, config, nextGen, issued, acked>>
          /\ diskHdrs' = {hdr} /\ diskBodies' = {body}
      BY <1>3 DEF RollbackSync, SyncFile
    <2>2. Known' = Known /\ Usable'
      BY <1>0, <2>1 DEF Known, Usable, Healthy
    <2>3. body.frames = Known
      BY <2>1 DEF Known, IInv, HandleInv
    <2>4. MediumInv' /\ OpeningInv'
      BY <1>0, <2>1 DEF MediumInv, OpeningInv
    <2>5. KnownInv'
      BY <1>0, <2>1, <2>2, <2>3 DEF HInv, KnownInv
    <2>6. HeaderInv'
      BY <2>1 DEF HInv, HeaderInv, CurrentHeader
    <2>7. AdmittedInv' /\ QuietInv' /\ FinishInv'
      BY <2>1 DEF AdmittedInv, QuietInv, FinishInv
    <2>8. LeftInv'
      BY <2>2, <2>5, KnownLeft, PTL
    <2>9. RefInv'
      BY <1>0, <2>1, <2>2 DEF HInv, RefInv
    <2> QED
      BY <2>4, <2>5, <2>6, <2>7, <2>8, <2>9 DEF HInv
  <1>4. CASE RollbackFails
    <2>1. /\ pc' = "idle" /\ UNCHANGED <<body, config, nextGen, issued, acked>>
          /\ handle' = [handle EXCEPT !.poisoned = TRUE]
      BY <1>4 DEF RollbackFails, BreakHeader, fileVars, histVars
    <2>2. /\ handle'.poisoned /\ handle'.end = handle.end /\ handle'.parts = handle.parts
          /\ handle'.gen = handle.gen
      BY <1>0, <2>1 DEF TypeOK, Handles
    <2>3. ~Usable' /\ ~Healthy' /\ handle' # NoHandle
      BY <2>1, <2>2 DEF Usable, Healthy, NoHandle
    <2>4. MediumInv'
      <3>1. CASE UNCHANGED fileVars
        BY <1>0, <3>1 DEF MediumInv, fileVars
      <3>2. CASE BreakHeader(CurrentHeader)
        BY <1>0, <3>2, CurrentHeaderShape, HeaderKept
      <3> QED
        BY <1>4, <3>1, <3>2 DEF RollbackFails
    <2>5. OpeningInv' /\ KnownInv' /\ HeaderInv' /\ AdmittedInv' /\ QuietInv' /\ FinishInv'
      BY <2>1, <2>3 DEF OpeningInv, KnownInv, HeaderInv, AdmittedInv, QuietInv, FinishInv
    <2>6. LeftInv'
      BY <1>0, <2>1, <2>2 DEF HInv, LeftInv
    <2>7. RefInv'
      BY <1>0, <2>1, <2>2, <2>3 DEF HInv, RefInv
    <2> QED
      BY <2>4, <2>5, <2>6, <2>7 DEF HInv
  <1> QED
    BY <1>1, <1>2, <1>3, <1>4 DEF Rollback
-----------------------------------------------------------------------------
(* The steps of reset. *)

\* The steps of a reset up to its commitment.
LEMMA MarkerHandle ==
    IInv /\ IInv' /\ HInv /\ (ResetBegin \/ MarkerWrite \/ MarkerSync \/ MarkerFails) => HInv'
  <1> SUFFICES ASSUME IInv, IInv', HInv, ResetBegin \/ MarkerWrite \/ MarkerSync \/ MarkerFails
               PROVE  HInv'
    OBVIOUS
  <1> USE DEF Appending, RollingBack, Marking, Finishing
  <1>0. /\ TypeOK /\ MediumInv /\ body \in diskBodies /\ hdr \in diskHdrs /\ Usable
        /\ handle \in Handles /\ handle # NoHandle /\ handle.end \in Nat
        /\ handle.end >= HeaderLen /\ handle.id \in Ids \cup {NoId}
        /\ body.frames = Known /\ ~handle.poisoned
    <2>1. Usable /\ cur = NoAppend
      BY DEF ResetBegin, MarkerWrite, MarkerSync, MarkerFails, Usable, Healthy, IInv, AppendInv
    <2>2. body.frames = Known
      BY <2>1 DEF HInv, KnownInv, Known
    <2> QED
      BY <2>1, <2>2, UsableShape DEF IInv, HInv, DiskInv, KnownInv, Handles
  <1>1. CASE ResetBegin
    <2>1. /\ pc = "idle" /\ pc' = "marker_write" /\ nextGen' = nextGen + 1 /\ nextGen \in Nat
          /\ UNCHANGED <<hdr, body, diskHdrs, diskBodies, handle, config, cur, issued, acked>>
          /\ handle.parts # {} /\ handle.end + MarkerLen <= config.maxLen
      BY <1>0, <1>1 DEF ResetBegin, fileVars, Healthy, TypeOK
    <2>2. Usable' /\ Known' = Known
      BY <2>1 DEF Usable, Known
    <2>3. MediumInv' /\ OpeningInv'
      BY <1>0, <2>1 DEF MediumInv, OpeningInv
    <2>4. KnownInv'
      BY <1>0, <2>1, <2>2 DEF HInv, KnownInv
    <2>5. HeaderInv' /\ AdmittedInv' /\ QuietInv' /\ FinishInv'
      BY <1>0, <2>1
      DEF HInv, HeaderInv, AdmittedInv, QuietInv, FinishInv, CurrentHeader, Healthy
    <2>6. LeftInv'
      BY <2>2, <2>4, KnownLeft, PTL
    <2>7. RefInv'
      <3>1. handle.gen \in Nat /\ handle.gen < nextGen /\ \A r \in issued : r.gen <= handle.gen
        BY <1>0 DEF Handles, HInv, RefInv
      <3>2. handle.gen < nextGen' /\ handle.gen < nextGen' - 1
        BY <2>1, <3>1
      <3> QED
        BY <1>0, <2>1, <2>2, <3>1, <3>2 DEF HInv, RefInv
    <2> QED
      BY <2>3, <2>4, <2>5, <2>6, <2>7 DEF HInv
  <1>2. ASSUME pc \in Marking, pc' \in {"marker_sync", "rollback_truncate"}, UNCHANGED procVars,
               body'.frames = body.frames
        PROVE  OpeningInv' /\ KnownInv' /\ AdmittedInv' /\ QuietInv' /\ LeftInv' /\ RefInv'
    <2>1. UNCHANGED handle
      BY <1>2 DEF procVars
    <2>2. Usable' /\ Known' = Known
      BY <1>2, <2>1 DEF Usable, Known
    <2>3. \A f \in body'.frames : f \in Known
      BY <1>0, <1>2
    <2> QED
      BY <1>0, <1>2, <2>2, <2>3, InsideCall
  <1>3. \A t : /\ WithTail(body, t).frames = body.frames /\ WithTail(body, t).valid = body.valid
               /\ WithTail(body, t).tail = t
    BY <1>0 DEF TypeOK, Bodies, WithTail
  <1>4. CASE MarkerWrite
    <2>1. /\ pc = "marker_write" /\ pc' = "marker_sync" /\ UNCHANGED procVars
          /\ UNCHANGED <<hdr, diskHdrs, handle, config>>
          /\ body' = WithTail(body, Marker(handle.end, handle.id))
          /\ \A b \in diskBodies' : b \in diskBodies \/ \E t : b = WithTail(body, t)
      BY <1>4 DEF MarkerWrite, WriteBody, procVars
    <2>2. MediumInv'
      BY <1>0, <1>3, <2>1, BodyKept
    <2>3. OpeningInv' /\ KnownInv' /\ AdmittedInv' /\ QuietInv' /\ LeftInv' /\ RefInv'
      BY <1>2, <1>3, <2>1
    <2>4. HeaderInv'
      BY <2>1 DEF HInv, HeaderInv, Healthy, CurrentHeader, procVars
    <2>5. FinishInv'
      <3>1. body.valid = handle.end /\ handle.end + MarkerLen <= config.maxLen
            /\ handle.parts # {} /\ Cardinality(Known) <= config.maxParts
        BY <1>0, <2>1 DEF IInv, HandleInv, HInv, AdmittedInv, KnownInv
      <3>2. /\ body'.tail = Marker(handle.end, handle.id) /\ body'.valid = handle.end
            /\ body'.frames = Known
        BY <1>0, <1>3, <2>1, <3>1
      <3>3. Known # {}
        BY <1>0, <3>1 DEF HInv, KnownInv, SpansOf
      <3>4. FileLen(body') = handle.end + MarkerLen
        BY <3>2 DEF FileLen, Marker
      <3>5. Marked(body)'
        BY <2>1, <3>1, <3>2, <3>3, <3>4 DEF Marked, WithinLimits
      <3> QED
        BY <2>1, <3>5 DEF FinishInv
    <2> QED
      BY <2>2, <2>3, <2>4, <2>5 DEF HInv
  <1>5. CASE MarkerFails
    <2>1. pc \in Marking /\ pc' = "rollback_truncate" /\ UNCHANGED procVars
      BY <1>5 DEF MarkerFails
    <2>2. MediumInv' /\ body'.frames = body.frames
      <3>1. CASE \E lens : BreakBody(lens)
        BY <1>0, <1>3, <3>1, BrokenKept DEF BreakBody, WriteBody, fileVars
      <3>2. CASE UNCHANGED fileVars
        BY <1>0, <3>2 DEF MediumInv, fileVars
      <3> QED
        BY <1>5, <3>1, <3>2 DEF MarkerFails
    <2>3. HeaderInv' /\ FinishInv'
      BY <2>1 DEF HeaderInv, FinishInv, Healthy
    <2> QED
      BY <1>2, <2>1, <2>2, <2>3 DEF HInv
  <1>6. CASE MarkerSync
    <2>1. /\ pc = "marker_sync" /\ pc' = "finish_header"
          /\ UNCHANGED <<hdr, body, handle, config, nextGen, issued>>
          /\ diskHdrs' = {hdr} /\ diskBodies' = {body}
          /\ acked' = {} /\ limbo' = {} /\ asked' = FALSE
      BY <1>6 DEF MarkerSync, SyncFile, Forget, procVars
    <2>2. ~Usable' /\ ~Healthy'
      BY <2>1 DEF Usable, Healthy
    <2>3. MediumInv' /\ OpeningInv'
      BY <1>0, <2>1 DEF MediumInv, OpeningInv
    <2>4. KnownInv' /\ HeaderInv' /\ AdmittedInv' /\ QuietInv'
      BY <2>1, <2>2 DEF KnownInv, HeaderInv, AdmittedInv, QuietInv
    <2>5. LeftInv'
      BY <2>1 DEF HInv, LeftInv
    <2>6. RefInv'
      BY <1>0, <2>1, <2>2 DEF HInv, RefInv
    <2>7. FinishInv'
      <3>1. Marked(body) /\ handle.id # NoId
        BY <1>0, <2>1 DEF HInv, FinishInv, AdmittedInv, KnownInv
      <3>2. Marked(body)'
        BY <2>1, <3>1 DEF Marked, WithinLimits, FileLen
      <3>3. hdr = ActiveHeader(handle.id, handle.end - HeaderLen)
        BY <2>1, <3>1 DEF HInv, HeaderInv, CurrentHeader
      <3>4. HeaderTransition(hdr, Marker(handle.end, handle.id))
        BY <3>3 DEF HeaderTransition, ActiveHeader, Marker
      <3> QED
        BY <1>0, <2>1, <3>1, <3>2, <3>4 DEF FinishInv
    <2> QED
      BY <2>3, <2>4, <2>5, <2>6, <2>7 DEF HInv
  <1> QED
    BY <1>1, <1>4, <1>5, <1>6
\* A marker stays valid while the header in front of it is being cleared.
LEMMA TearEmpty ==
    ASSUME NEW h \in Headers, NEW m, HeaderTransition(h, m)
    PROVE  HeaderTransition(Tear(h, EmptyHeader), m) /\ HeaderTransition(EmptyHeader, m)
  BY DEF HeaderTransition, Tear, Headers, EmptyHeader, Plain

FinishNext ==
    FinishHeader \/ FinishHeaderSync \/ FinishTruncate \/ FinishSync \/ FinishFails

\* What finishing a reset writes.
LEMMA FinishMedium == IInv /\ MediumInv /\ FinishNext => MediumInv'
  <1> SUFFICES ASSUME IInv, MediumInv, FinishNext PROVE MediumInv'
    OBVIOUS
  <1>0. TypeOK /\ body \in diskBodies /\ hdr \in diskHdrs
    BY DEF IInv, DiskInv
  <1>1. CASE FinishHeader
    BY <1>0, <1>1, HeaderTypes, HeaderKept DEF FinishHeader
  <1>2. CASE FinishHeaderSync \/ FinishSync
    BY <1>0, <1>2 DEF FinishHeaderSync, FinishSync, SyncFile, MediumInv
  <1>3. CASE FinishTruncate
    <2>1. Truncated(body, HeaderLen).frames \subseteq body.frames
      BY DEF Truncated
    <2> QED
      BY <1>0, <1>3, <2>1, BodyKept DEF FinishTruncate, WriteBody
  <1>4. CASE FinishFails
    <2>1. CASE BreakHeader(EmptyHeader)
      BY <1>0, <2>1, HeaderTypes, HeaderKept
    <2>2. CASE UNCHANGED fileVars
      BY <2>2 DEF MediumInv, fileVars
    <2> QED
      BY <1>4, <2>1, <2>2 DEF FinishFails
  <1> QED
    BY <1>1, <1>2, <1>3, <1>4 DEF FinishNext

\* Finishing a reset in open, before there is a handle.
LEMMA FinishOpening ==
    ASSUME IInv, IInv', HInv, FinishNext, handle = NoHandle
    PROVE  HInv'
  <1> USE DEF Appending, RollingBack, Marking, Finishing
  <1>1. MediumInv'
    BY FinishMedium DEF HInv
  <1>2. CASE FinishSync
    <2>1. /\ handle' = NoHandle /\ UNCHANGED <<issued, config, body, hdr>> /\ pc' = "sync_root"
          /\ diskHdrs' = {hdr} /\ diskBodies' = {body}
      BY <1>2 DEF FinishSync, SyncFile
    <2>2. body \in Bodies /\ WellFormed(body) /\ FileLen(body) = HeaderLen /\ config \in Configs
      BY <1>2 DEF IInv, TypeOK, DiskInv, SoundBody, ResetInv, FinishSync
    <2>3. WithinLimits(body, config)' /\ QuietInv'
      BY <2>1, <2>2, EmptyWithinLimits DEF WithinLimits, FileLen, QuietInv
    <2> QED
      BY <1>1, <2>1, <2>3, StillOpening DEF HInv
  <1>3. CASE FinishHeader \/ FinishFails
    <2>1. /\ handle' = NoHandle /\ UNCHANGED issued /\ pc' \in {"finish_header_sync", "down"}
      BY <1>3 DEF FinishHeader, FinishFails, procVars
    <2> QED
      BY <1>1, <2>1, StillOpening DEF HInv
  <1>4. CASE FinishHeaderSync \/ FinishTruncate
    <2>1. /\ handle' = NoHandle /\ UNCHANGED issued /\ pc' \in {"finish_truncate", "finish_sync"}
      BY <1>4 DEF FinishHeaderSync, FinishTruncate, procVars
    <2>2. diskHdrs' = {EmptyHeader}
      BY <1>4 DEF FinishHeaderSync, FinishTruncate, SyncFile, WriteBody, IInv, ResetInv, HInv,
                  FinishInv
    <2> QED
      BY <1>1, <2>1, <2>2, StillOpening DEF HInv
  <1> QED
    BY <1>2, <1>3, <1>4 DEF FinishNext

\* A step that leaves the open handle inside the reset leaves what is said of it.
LEMMA FinishInside ==
    ASSUME HInv, handle # NoHandle, UNCHANGED procVars, pc \in Finishing, pc' \in Finishing
    PROVE  /\ ~Usable' /\ OpeningInv' /\ KnownInv' /\ HeaderInv' /\ AdmittedInv' /\ QuietInv'
           /\ RefInv'
  <1> USE DEF Appending, RollingBack, Marking, Finishing
  <1>1. ~Usable' /\ ~Healthy' /\ UNCHANGED <<handle, issued, nextGen>>
    BY DEF Usable, Healthy, procVars
  <1>2. OpeningInv' /\ KnownInv' /\ HeaderInv' /\ AdmittedInv' /\ QuietInv'
    BY <1>1 DEF OpeningInv, KnownInv, HeaderInv, AdmittedInv, QuietInv
  <1>3. RefInv'
    BY <1>1 DEF HInv, RefInv
  <1> QED
    BY <1>1, <1>2, <1>3

\* Finishing the reset of an open handle.
LEMMA FinishOpened ==
    ASSUME IInv, IInv', HInv, FinishNext, handle # NoHandle
    PROVE  HInv'
  <1> USE DEF Appending, RollingBack, Marking, Finishing
  <1>0. /\ TypeOK /\ pc \in Finishing /\ handle \in Handles /\ ~handle.poisoned
        /\ acked = {} /\ limbo = {} /\ ~asked /\ handle.id # NoId
        /\ \A h \in diskHdrs : HeaderTransition(h, Marker(handle.end, handle.id))
        /\ \A b \in diskBodies : Marked(b) \/ (pc = "finish_sync" /\ Cleared(b))
        /\ pc \in {"finish_header", "finish_header_sync", "finish_truncate"} => Marked(body)
        /\ body \in diskBodies /\ hdr \in diskHdrs
    <2>1. pc \in Finishing
      BY DEF FinishNext, FinishHeader, FinishHeaderSync, FinishTruncate, FinishSync, FinishFails
    <2> QED
      BY <2>1 DEF HInv, FinishInv, IInv, TypeOK, DiskInv
  <1>1. MediumInv'
    BY FinishMedium DEF HInv
  <1>2. CASE FinishHeader
    <2>1. /\ pc = "finish_header" /\ pc' = "finish_header_sync" /\ UNCHANGED procVars
          /\ UNCHANGED <<body, diskBodies, handle, config, acked, limbo, asked>>
          /\ diskHdrs' = diskHdrs \cup {EmptyHeader} \cup {Tear(h, EmptyHeader) : h \in diskHdrs}
      BY <1>2 DEF FinishHeader, WriteHeader, procVars, histVars
    <2>2. \A h \in diskHdrs' : HeaderTransition(h, Marker(handle.end, handle.id))
      BY <1>0, <2>1, TearEmpty DEF TypeOK
    <2>3. \A b \in diskBodies : Marked(b) => Marked(b)'
      BY <2>1 DEF Marked, WithinLimits, FileLen
    <2>4. FinishInv'
      BY <1>0, <2>1, <2>2, <2>3 DEF FinishInv
    <2>5. LeftInv'
      BY <2>1 DEF HInv, LeftInv
    <2> QED
      BY <1>0, <1>1, <2>1, <2>4, <2>5, FinishInside DEF HInv
  <1>3. CASE FinishHeaderSync
    <2>1. /\ pc = "finish_header_sync" /\ pc' = "finish_truncate" /\ UNCHANGED procVars
          /\ UNCHANGED <<hdr, body, handle, config>> /\ hdr = EmptyHeader
          /\ diskHdrs' = {hdr} /\ diskBodies' = {body}
          /\ acked' = {} /\ limbo' = {} /\ asked' = FALSE
      BY <1>3 DEF FinishHeaderSync, SyncFile, Forget, procVars, IInv, ResetInv
    <2>2. Marked(body)'
      BY <1>0, <2>1 DEF Marked, WithinLimits, FileLen
    <2>3. FinishInv'
      BY <1>0, <2>1, <2>2 DEF FinishInv
    <2>4. LeftInv'
      BY <2>1 DEF HInv, LeftInv
    <2> QED
      BY <1>0, <1>1, <2>1, <2>3, <2>4, FinishInside DEF HInv
  <1>4. CASE FinishTruncate
    <2>1. /\ pc = "finish_truncate" /\ pc' = "finish_sync" /\ UNCHANGED procVars
          /\ UNCHANGED <<hdr, diskHdrs, handle, config, acked, limbo, asked>>
          /\ body' = Truncated(body, HeaderLen) /\ diskBodies' = diskBodies \cup {body'}
          /\ diskHdrs = {EmptyHeader}
      BY <1>4 DEF FinishTruncate, WriteBody, procVars, histVars, HInv, FinishInv
    <2>2. Cleared(body')
      <3>1. body \in Bodies /\ WellFormed(body)
        BY DEF IInv, TypeOK, DiskInv, SoundBody
      <3>2. /\ body'.frames = {f \in body.frames : End(f) <= HeaderLen}
            /\ body'.valid = (IF HeaderLen < body.valid THEN HeaderLen ELSE body.valid)
            /\ body'.tail = CleanTail
        BY <2>1, <3>1, TruncatedBody, LengthsAssumption
      <3>3. body'.valid = HeaderLen
        BY <3>1, <3>2, LengthsAssumption DEF WellFormed, Bodies
      <3>4. \A f \in body.frames : ~(End(f) <= HeaderLen)
        BY <3>1, LengthsAssumption DEF WellFormed, Bodies, Frames, End
      <3> QED
        BY <3>2, <3>3, <3>4 DEF Cleared
    <2>3. \A b \in diskBodies : Marked(b) => Marked(b)'
      BY <2>1 DEF Marked, WithinLimits, FileLen
    <2>4. \A b \in diskBodies' : Marked(b)' \/ Cleared(b)
      BY <1>0, <2>1, <2>2, <2>3
    <2>5. FinishInv'
      BY <1>0, <2>1, <2>4 DEF FinishInv, Cleared
    <2>6. LeftInv'
      BY <1>0, <2>1, <2>2 DEF LeftInv, Cleared
    <2> QED
      BY <1>0, <1>1, <2>1, <2>5, <2>6, FinishInside DEF HInv
  <1>5. CASE FinishSync
    <2>1. /\ pc = "finish_sync" /\ pc' = "idle" /\ UNCHANGED <<hdr, body, config, cur, nextGen, issued>>
          /\ diskHdrs' = {hdr} /\ diskBodies' = {body} /\ hdr = EmptyHeader
          /\ handle' = [NoHandle EXCEPT !.end = HeaderLen, !.gen = nextGen - 1]
          /\ FileLen(body) = HeaderLen
      BY <1>5 DEF FinishSync, SyncFile, IInv, ResetInv
    <2>2. /\ handle'.end = HeaderLen /\ handle'.parts = {} /\ handle'.gen = nextGen - 1
          /\ handle'.id = NoId /\ ~handle'.poisoned
      BY <2>1 DEF NoHandle
    <2>3. handle' # NoHandle
      BY <2>2, LengthsAssumption DEF NoHandle
    <2>4. body.frames = {} /\ config \in Configs
      BY <2>1, NothingBehindHeader DEF IInv, TypeOK, DiskInv, SoundBody
    <2>5. Known' = {} /\ Usable'
      BY <2>1, <2>2, <2>4 DEF Known, Usable, Healthy
    <2>6. OpeningInv' /\ AdmittedInv' /\ QuietInv' /\ FinishInv'
      BY <2>1, <2>3 DEF OpeningInv, AdmittedInv, QuietInv, FinishInv
    <2>7. KnownInv'
      <3>1. SpansOf({}) = {}
        BY DEF SpansOf
      <3>2. HeaderLen <= config.maxLen /\ Cardinality({}) <= config.maxParts
        BY <2>4, ConfigsAssumption, FS_EmptySet
      <3> QED
        BY <2>1, <2>2, <2>4, <2>5, <3>1, <3>2 DEF KnownInv
    <2>8. HeaderInv'
      BY <2>1, <2>2 DEF HeaderInv, CurrentHeader
    <2>9. LeftInv'
      BY <2>5, <2>7, KnownLeft, PTL
    <2>10. RefInv'
      <3>1. /\ nextGen \in Nat /\ handle.gen \in Nat /\ handle.gen < nextGen - 1
            /\ \A r \in issued : r.gen \in Nat /\ r.gen <= handle.gen
        BY <1>0, <2>1 DEF TypeOK, Handles, Refs, HInv, RefInv
      <3>2. nextGen - 1 < nextGen /\ \A r \in issued : r.gen < nextGen - 1
        BY <3>1
      <3>3. \A r \in issued : r.gen <= nextGen - 1 /\ r.gen # nextGen - 1
        BY <3>1, <3>2
      <3> QED
        BY <2>1, <2>2, <3>2, <3>3 DEF RefInv
    <2> QED
      BY <1>1, <2>6, <2>7, <2>8, <2>9, <2>10 DEF HInv
  <1>6. CASE FinishFails
    <2>1. /\ pc' = "idle" /\ handle' = [handle EXCEPT !.poisoned = TRUE]
          /\ UNCHANGED <<body, config, nextGen, issued, acked>>
      BY <1>6 DEF FinishFails, BreakHeader, fileVars, histVars
    <2>2. /\ handle'.poisoned /\ handle'.end = handle.end /\ handle'.parts = handle.parts
          /\ handle'.gen = handle.gen
      BY <1>0, <2>1 DEF Handles
    <2>3. ~Usable' /\ ~Healthy' /\ handle' # NoHandle
      BY <2>1, <2>2 DEF Usable, Healthy, NoHandle
    <2>4. OpeningInv' /\ KnownInv' /\ HeaderInv' /\ AdmittedInv' /\ QuietInv' /\ FinishInv'
      BY <2>1, <2>3 DEF OpeningInv, KnownInv, HeaderInv, AdmittedInv, QuietInv, FinishInv
    <2>5. LeftInv'
      BY <2>1, <2>2 DEF HInv, LeftInv
    <2>6. RefInv'
      BY <2>1, <2>2, <2>3 DEF HInv, RefInv
    <2> QED
      BY <1>1, <2>4, <2>5, <2>6 DEF HInv
  <1> QED
    BY <1>2, <1>3, <1>4, <1>5, <1>6 DEF FinishNext
-----------------------------------------------------------------------------
(* Crashes, and the invariant. *)

\* Nothing is said of a handle when there is none.
LEMMA NoHandleLeft ==
    ASSUME handle = NoHandle, pc = "down", issued = {}
    PROVE  OpeningInv /\ KnownInv /\ HeaderInv /\ AdmittedInv /\ QuietInv /\ FinishInv
           /\ LeftInv /\ RefInv
  <1>1. ~Usable /\ ~Healthy
    BY DEF Usable, Healthy
  <1> QED
    BY <1>1 DEF OpeningInv, KnownInv, HeaderInv, AdmittedInv, QuietInv, FinishInv, LeftInv,
                RefInv, Appending, RollingBack, Marking, Finishing

\* After the death of the process, or of the machine.
LEMMA CrashHandle == IInv /\ HInv /\ (Kill \/ PowerLoss) => HInv'
  <1> SUFFICES ASSUME IInv, HInv, Kill \/ PowerLoss PROVE HInv'
    OBVIOUS
  <1>1. handle' = NoHandle /\ pc' = "down" /\ issued' = {}
    BY DEF Kill, PowerLoss, StopProcess
  <1>2. OpeningInv' /\ KnownInv' /\ HeaderInv' /\ AdmittedInv' /\ QuietInv' /\ FinishInv'
        /\ LeftInv' /\ RefInv'
    <2>1. ~Usable' /\ ~Healthy'
      BY <1>1 DEF Usable, Healthy
    <2> QED
      BY <1>1, <2>1 DEF OpeningInv, KnownInv, HeaderInv, AdmittedInv, QuietInv, FinishInv,
                        LeftInv, RefInv, Appending, RollingBack, Marking, Finishing
  <1>3. CASE Kill
    BY <1>2, <1>3 DEF Kill, fileVars, HInv, MediumInv
  <1>4. CASE PowerLoss
    <2>1. diskHdrs' = {hdr'} /\ diskBodies' = {body'}
      BY <1>4 DEF PowerLoss
    <2>2. Separate(body'.frames) /\ (hdr'.k = "active" => hdr'.id # NoId)
      <3>1. CASE hdr' = Plain("none") /\ body' = EmptyBody
        BY <3>1, FS_EmptySet DEF Plain, EmptyBody, Separate
      <3>2. CASE \E i \in DiskImages : hdr' = i.hdr /\ body' = i.body
        <4>1. PICK h \in diskHdrs, b \in diskBodies : hdr' = Landed(h, b) /\ body' = b
          BY <3>2 DEF DiskImages
        <4>2. hdr' = h \/ hdr'.k = "bad"
          BY <4>1 DEF Landed, Plain
        <4> QED
          BY <4>1, <4>2 DEF HInv, MediumInv
      <3> QED
        BY <1>4, <3>1, <3>2 DEF PowerLoss
    <2>3. MediumInv'
      BY <2>1, <2>2 DEF MediumInv
    <2> QED
      BY <1>2, <2>3 DEF HInv
  <1> QED
    BY <1>3, <1>4

\* A collector that has never run.
LEMMA InitialHandle == Init => HInv
  <1> SUFFICES ASSUME Init PROVE HInv
    OBVIOUS
  <1>1. MediumInv
    BY FS_EmptySet DEF Init, MediumInv, Separate, EmptyBody, Plain
  <1> QED
    BY <1>1, NoHandleLeft DEF Init, HInv

\* A step that changes nothing.
LEMMA StutterHandle == HInv /\ UNCHANGED vars => HInv'
  <1> SUFFICES ASSUME HInv, UNCHANGED vars PROVE HInv'
    OBVIOUS
  <1>0. /\ UNCHANGED <<hdr, body, diskHdrs, diskBodies, entry, inherited, pc, handle, config>>
        /\ UNCHANGED <<cur, nextGen, issued, acked, owner, limbo, asked>>
    BY DEF vars, fileVars, procVars, histVars
  <1>1. Known' = Known /\ Usable' = Usable /\ Healthy' = Healthy
    BY <1>0 DEF Known, Usable, Healthy
  <1>2. MediumInv' /\ OpeningInv'
    BY <1>0 DEF HInv, MediumInv, OpeningInv, WithinLimits, FileLen
  <1>3. KnownInv' /\ AdmittedInv' /\ RefInv'
    BY <1>0, <1>1 DEF HInv, KnownInv, AdmittedInv, RefInv
  <1>4. HeaderInv' /\ QuietInv' /\ LeftInv'
    BY <1>0, <1>1 DEF HInv, HeaderInv, CurrentHeader, QuietInv, LeftInv
  <1>5. FinishInv'
    BY <1>0 DEF HInv, FinishInv, Marked, Cleared, WithinLimits, FileLen
  <1> QED
    BY <1>2, <1>3, <1>4, <1>5 DEF HInv

\* Whatever fails, and whenever the process or the machine stops, the file stays
\* what the handle says it is.
THEOREM HandleInvariance == Spec => []HInv
  <1>1. IInv /\ IInv' /\ HInv /\ [Next]_vars => HInv'
    <2> SUFFICES ASSUME IInv, IInv', HInv, [Next]_vars PROVE HInv'
      OBVIOUS
    <2>1. CASE FinishNext
      BY <2>1, FinishOpening, FinishOpened
    <2>2. CASE Kill \/ PowerLoss
      BY <2>2, CrashHandle
    <2>3. CASE Open \/ AppendNext \/ Rollback
      BY <2>3, OpenHandle, AppendHandle, RollbackHandle
    <2>4. CASE ResetBegin \/ MarkerWrite \/ MarkerSync \/ MarkerFails
      BY <2>4, MarkerHandle
    <2>5. CASE UNCHANGED vars
      BY <2>5, StutterHandle
    <2> QED
      BY <2>1, <2>2, <2>3, <2>4, <2>5 DEF Next, Reset, FinishNext
  <1> QED
    BY <1>1, InitialHandle, Invariance, PTL DEF Spec

-----------------------------------------------------------------------------
(* The theorems. *)

\* What a healthy handle says of the file, in one place.
LEMMA HealthyFile ==
    ASSUME IInv, HInv, Healthy
    PROVE  /\ body.tail.k = "clean" /\ ValidJournal(hdr, body) /\ handle.end = FileLen(body)
           /\ handle.parts = SpansOf(body.frames) /\ handle.id = hdr.id
           /\ WithinLimits(body, config) /\ hdr.k \in {"empty", "active"}
           /\ body \in Bodies /\ WellFormed(body)
           /\ handle.parts # {} <=> body.frames # {}
  <1>1. /\ Usable /\ body \in Bodies /\ WellFormed(body) /\ handle.end \in Nat
        /\ handle.end >= HeaderLen /\ cur = NoAppend
    BY UsableShape DEF Usable, IInv, AppendInv, Healthy, Appending, RollingBack
  <1>2. body.tail.k = "clean" /\ body.valid = handle.end
    BY DEF IInv, HandleInv
  <1>3. FileLen(body) = handle.end
    BY <1>1, <1>2 DEF FileLen, WellFormed, Bodies, Tails
  <1>4. Known = body.frames
    BY <1>1 DEF HInv, KnownInv, Known
  <1>5. /\ handle.parts = SpansOf(body.frames)
        /\ handle.parts = {} <=> handle.id = NoId
        /\ handle.parts = {} => handle.end = HeaderLen
        /\ handle.end <= config.maxLen /\ Cardinality(body.frames) <= config.maxParts
    BY <1>1, <1>4 DEF HInv, KnownInv
  <1>6. handle.parts = {} <=> body.frames = {}
    BY <1>5 DEF SpansOf
  <1>7. hdr = CurrentHeader /\ handle.id \in Ids \cup {NoId}
    BY <1>1 DEF HInv, HeaderInv, IInv, TypeOK, Handles
  <1>8. CASE handle.id = NoId
    <2>1. hdr.k = "empty" /\ hdr.len = 0 /\ hdr.id = NoId
      BY <1>7, <1>8, HeaderTypes DEF CurrentHeader
    <2>2. FileLen(body) - HeaderLen = 0
      BY <1>3, <1>5, <1>8, LengthsAssumption
    <2> QED
      BY <1>1, <1>2, <1>3, <1>5, <1>6, <1>8, <2>1, <2>2 DEF ValidJournal, WithinLimits
  <1>9. CASE handle.id # NoId
    <2>1. hdr.k = "active" /\ hdr.len = handle.end - HeaderLen /\ hdr.id = handle.id
      BY <1>7, <1>9 DEF CurrentHeader, ActiveHeader
    <2> QED
      BY <1>1, <1>2, <1>3, <1>5, <1>6, <1>9, <2>1 DEF ValidJournal, WithinLimits
  <1> QED
    BY <1>8, <1>9

\* After any sequence of calls, failures and rollbacks a usable handle describes
\* exactly what a fresh Journal::open of the file would find.
THEOREM HandleAgreesWithFile == Spec => []HandleMatchesFile
  <1>1. IInv /\ HInv => HandleMatchesFile
    BY HealthyFile DEF HandleMatchesFile, CommittedReset, SpansOf
  <1> QED
    BY <1>1, Invariance, HandleInvariance, PTL

\* A process that stops inside append, rollback or reset, or after one of them
\* failed for good, leaves the journal before the call or after it.
THEOREM CallsAreAllOrNothing == Spec => []StoppedCallIsAllOrNothing
  <1>1. IInv /\ HInv => StoppedCallIsAllOrNothing
    <2> SUFFICES ASSUME IInv, HInv, handle # NoHandle, Opens(hdr, body, config)
                 PROVE  LET found == {Span(f) : f \in Recovered(hdr, body)}
                        IN  \/ found = handle.parts
                            \/ \E s \in found : s.at = handle.end
                                                /\ found = handle.parts \cup {s}
                            \/ found = {} /\ (asked \/ acked = {})
      BY DEF StoppedCallIsAllOrNothing
    <2>1. SoundBody(body) /\ asked \in BOOLEAN
      BY DEF IInv, DiskInv, TypeOK
    <2>2. CASE Recovered(hdr, body) = body.frames
      <3>1. {Span(f) : f \in Recovered(hdr, body)} = SpansOf(body.frames)
        BY <2>2 DEF SpansOf
      <3>2. SpansOf({}) = {}
        BY DEF SpansOf
      <3> QED
        BY <3>1, <3>2 DEF HInv, LeftInv
    <2>3. CASE CommittedReset(hdr, body)
      <3>1. Recovered(hdr, body) = {} /\ body.tail.k = "marker"
        BY <2>3 DEF Recovered, CommittedReset
      <3> QED
        BY <2>1, <3>1 DEF SoundBody
    <2>4. CASE hdr.k = "none"
      <3>1. Recovered(hdr, body) = {} /\ FileLen(body) = HeaderLen
        BY <2>4 DEF Recovered, IInv, EntryInv
      <3>2. body.frames = {}
        BY <2>1, <3>1, NothingBehindHeader DEF SoundBody, IInv, TypeOK
      <3> QED
        BY <2>1, <3>1, <3>2 DEF SoundBody
    <2> QED
      BY <2>2, <2>3, <2>4 DEF Recovered
  <1> QED
    BY <1>1, Invariance, HandleInvariance, PTL

\* A power loss between two calls never blocks the restart, unless the process
\* had opened a file with unsynchronised writes of its predecessor.
THEOREM QuietCrashesReopen == Spec => []QuietCrashReopens
  <1>1. IInv /\ HInv => QuietCrashReopens
    <2> SUFFICES ASSUME IInv, HInv, Healthy, ~inherited, NEW i \in DiskImages
                 PROVE  /\ Opens(i.hdr, i.body, config)
                        /\ {Span(f) : f \in Recovered(i.hdr, i.body)} = handle.parts
      BY DEF QuietCrashReopens
    <2>1. diskHdrs = {hdr} /\ diskBodies = {body}
      BY DEF HInv, QuietInv
    <2>2. i.hdr = hdr /\ i.body = body
      BY <2>1, HealthyFile DEF DiskImages, Landed
    <2> QED
      BY <2>2, HealthyFile DEF Opens, Recovered, CommittedReset, SpansOf
  <1> QED
    BY <1>1, Invariance, HandleInvariance, PTL

\* Once reset() has made its marker durable, whatever a power loss leaves opens
\* under the same configuration, and opens empty.
THEOREM CommittedResetsReopen == Spec => []ResetSurvivesCrash
  <1>1. IInv /\ HInv => ResetSurvivesCrash
    <2> SUFFICES ASSUME IInv, HInv, pc \in Finishing, handle # NoHandle, NEW i \in DiskImages
                 PROVE  Opens(i.hdr, i.body, config) /\ Recovered(i.hdr, i.body) = {}
      BY DEF ResetSurvivesCrash, Finishing
    <2>1. PICK h \in diskHdrs, b \in diskBodies : i = [hdr |-> Landed(h, b), body |-> b]
      BY DEF DiskImages
    <2>2. HeaderTransition(h, Marker(handle.end, handle.id)) /\ h.k \in {"empty", "active", "torn"}
      BY DEF HInv, FinishInv, HeaderTransition, EmptyHeader, Plain
    <2>3. i.hdr = h /\ i.body = b
      BY <2>1, <2>2 DEF Landed
    <2>4. b \in Bodies /\ WellFormed(b) /\ config \in Configs
      BY DEF IInv, TypeOK, DiskInv, SoundBody
    <2>5. CASE Marked(b)
      <3>1. /\ b.tail.k = "marker" /\ b.tail.prev = b.valid /\ b.tail.len = MarkerLen
            /\ b.valid \in Nat /\ b.frames # {} /\ WithinLimits(b, config)
            /\ HeaderTransition(h, b.tail)
        BY <2>2, <2>4, <2>5 DEF Marked, Marker, Bodies
      <3>2. b.tail.prev = FileLen(b) - MarkerLen
        BY <3>1, LengthsAssumption DEF FileLen
      <3> QED
        BY <2>3, <3>1, <3>2 DEF CommittedReset, Opens, Recovered
    <2>6. CASE pc = "finish_sync" /\ Cleared(b)
      <3>1. h = EmptyHeader /\ h.k = "empty" /\ h.len = 0
        BY <2>6, HeaderTypes DEF HInv, FinishInv
      <3>2. FileLen(b) = HeaderLen /\ FileLen(b) - HeaderLen = 0 /\ b.frames = {}
        BY <2>6, LengthsAssumption DEF Cleared, CleanTail, FileLen
      <3>3. WithinLimits(b, config)
        BY <2>4, <3>2, EmptyWithinLimits
      <3> QED
        BY <2>3, <3>1, <3>2, <3>3 DEF ValidJournal, Opens, Recovered
    <2> QED
      BY <2>5, <2>6 DEF HInv, FinishInv
  <1> QED
    BY <1>1, Invariance, HandleInvariance, PTL

\* A part reference that read_part accepts reads the part it was issued for,
\* however often its offset was used again (JournalPartRef.generation).
THEOREM AcceptedReferencesReadTheirPart == Spec => []AcceptedRefReadsItsPart
  <1>1. IInv /\ HInv => AcceptedRefReadsItsPart
    <2> SUFFICES ASSUME IInv, HInv, pc = "idle", NEW r \in issued, Accepts(r)
                 PROVE  \E f \in body.frames : Span(f) = [at |-> r.at, len |-> r.len]
                                               /\ f.part = r.part
      BY DEF AcceptedRefReadsItsPart
    <2>1. Usable /\ r.gen = handle.gen
      BY DEF Usable, Healthy, Accepts
    <2>2. PICK f \in Known : r = RefOf(f, handle.gen)
      BY <2>1 DEF HInv, RefInv
    <2> QED
      BY <2>2 DEF Known, RefOf, Span
  <1> QED
    BY <1>1, Invariance, HandleInvariance, PTL
-----------------------------------------------------------------------------
(* Room for the reset marker.  Every append reserves it, but against the cap   *)
(* of its own time: a collector restarted with a lower max_journal_len may     *)
(* find a journal it can read and cannot reset (run journal_lowered_cap).      *)

\* The journal size cap is the same at every start.
SameCap == \A c, d \in Configs : c.maxLen = d.maxLen

\* Room behind a body for a marker, if there is anything to reset.
Room(b, max) == b.frames # {} => b.valid + MarkerLen <= max
RoomInv == \A b \in diskBodies : Room(b, config.maxLen)

\* Tails and truncation take no room.
LEMMA RoomKept ==
    ASSUME TypeOK, NEW b \in Bodies, NEW max \in Nat, Room(b, max)
    PROVE  /\ \A t : Room(WithTail(b, t), max)
           /\ \A n \in Nat : Room(Truncated(b, n), max)
  <1>1. \A t : WithTail(b, t).frames = b.frames /\ WithTail(b, t).valid = b.valid
    BY DEF WithTail, Bodies
  <1>2. \A n : Truncated(b, n).frames \subseteq b.frames
    BY DEF Truncated
  <1>3. \A n \in Nat : /\ Truncated(b, n).valid \in Nat
                       /\ Truncated(b, n).valid <= b.valid
    BY DEF Truncated, Bodies
  <1>4. b.valid \in Nat
    BY DEF Bodies
  <1>5. \A n \in Nat : Room(Truncated(b, n), max)
    <2> SUFFICES ASSUME NEW n \in Nat, b.frames # {}
                 PROVE  Truncated(b, n).valid + MarkerLen <= max
      BY <1>2 DEF Room
    <2>1. PICK v \in Nat : v = Truncated(b, n).valid /\ v <= b.valid
      BY <1>3
    <2>2. b.valid + MarkerLen <= max
      BY DEF Room
    <2>3. v + MarkerLen <= max
      BY <1>4, <2>1, <2>2, LengthsAssumption
    <2> QED
      BY <2>1, <2>3
  <1> QED
    BY <1>1, <1>5 DEF Room

\* Under one cap every write leaves room for the marker.
LEMMA RoomStep ==
    ASSUME SameCap, IInv, HInv, RoomInv, [Next]_vars, TypeOK'
    PROVE  RoomInv'
  <1>0. /\ body \in Bodies /\ body \in diskBodies /\ Room(body, config.maxLen)
        /\ config \in Configs /\ config.maxLen \in Nat /\ diskBodies \subseteq Bodies
    BY ConfigsAssumption DEF IInv, TypeOK, DiskInv, RoomInv
  <1>1. config' \in Configs /\ config'.maxLen = config.maxLen
    BY <1>0 DEF TypeOK, SameCap
  <1>2. \/ \A b \in diskBodies' : \/ b \in diskBodies
                                  \/ \E t : b = WithTail(body, t)
                                  \/ \E n \in Nat : b = Truncated(body, n)
        \/ AppendBody
        \/ diskBodies' = {EmptyBody}
    <2>1. CASE Open
      BY <1>0, <2>1 DEF Open, OpenFile, InitWrite, InitSync, SyncRoot, OpenFails, WriteHeader,
                        BreakHeader, SyncFile, diskVars, fileVars
    <2>2. CASE AppendNext
      BY <1>0, <2>2 DEF AppendNext, AppendBegin, AppendHeader, AppendFrame, AppendSync,
                        AppendFails, WriteHeader, BreakHeader, WriteBody, BreakBody, SyncFile,
                        fileVars
    <2>3. CASE Rollback
      <3>1. handle.end \in Nat
        BY DEF IInv, TypeOK, Handles
      <3> QED
        BY <1>0, <2>3, <3>1 DEF Rollback, RollbackTruncate, RollbackHeader, RollbackSync,
                                RollbackFails, WriteHeader, BreakHeader, WriteBody, SyncFile, fileVars
    <2>4. CASE Reset
      <3>1. CASE ResetBegin \/ MarkerWrite \/ MarkerSync \/ MarkerFails
        BY <1>0, <3>1 DEF ResetBegin, MarkerWrite, MarkerSync, MarkerFails, WriteBody, BreakBody,
                          SyncFile, fileVars
      <3>2. CASE FinishNext
        BY <1>0, <3>2, LengthsAssumption
        DEF FinishNext, FinishHeader, FinishHeaderSync, FinishTruncate, FinishSync, FinishFails,
            WriteHeader, BreakHeader, WriteBody, SyncFile, fileVars
      <3> QED
        BY <2>4, <3>1, <3>2 DEF Reset, FinishNext
    <2>5. CASE Kill
      BY <2>5 DEF Kill, fileVars
    <2>6. CASE PowerLoss
      <3>1. diskBodies' = {body'}
        BY <2>6 DEF PowerLoss
      <3>2. body' = EmptyBody \/ body' \in diskBodies
        BY <2>6 DEF PowerLoss, DiskImages
      <3> QED
        BY <3>1, <3>2
    <2>7. CASE UNCHANGED vars
      BY <2>7 DEF vars, fileVars
    <2> QED
      BY <2>1, <2>2, <2>3, <2>4, <2>5, <2>6, <2>7 DEF Next
  <1>3. CASE \A b \in diskBodies' : \/ b \in diskBodies
                                    \/ \E t : b = WithTail(body, t)
                                    \/ \E n \in Nat : b = Truncated(body, n)
    <2>1. \A t : Room(WithTail(body, t), config.maxLen)
      BY <1>0, RoomKept DEF IInv
    <2>2. \A n \in Nat : Room(Truncated(body, n), config.maxLen)
      BY <1>0, RoomKept DEF IInv
    <2>3. \A b \in diskBodies' : Room(b, config.maxLen)
      BY <1>3, <2>1, <2>2 DEF RoomInv
    <2> QED
      BY <1>1, <2>3 DEF RoomInv
  <1>4. CASE AppendBody
    <2>1. Room(WithFrame(body, cur.frame), config.maxLen)
      BY <1>4 DEF AppendBody, HInv, AdmittedInv, Appending, Room, WithFrame
    <2>2. \A t : Room(WithTail(body, t), config.maxLen)
      BY <1>0, RoomKept DEF IInv
    <2>3. \A b \in diskBodies' : Room(b, config.maxLen)
      BY <1>4, <2>1, <2>2 DEF AppendBody, WriteBody, RoomInv
    <2> QED
      BY <1>1, <2>3 DEF RoomInv
  <1>5. CASE diskBodies' = {EmptyBody}
    BY <1>5 DEF RoomInv, Room, EmptyBody
  <1> QED
    BY <1>2, <1>3, <1>4, <1>5

\* While the cap is not lowered between two starts, a journal that holds frames
\* always has room for the marker that clears it (append reserves
\* RESET_MARKER_LEN).
THEOREM RoomForReset ==
    ASSUME SameCap
    PROVE  Spec => []ResetAlwaysHasRoom
  <1>1. Init => RoomInv
    BY DEF Init, RoomInv, Room, EmptyBody
  <1>2. IInv /\ IInv' /\ HInv /\ RoomInv /\ [Next]_vars => RoomInv'
    BY RoomStep DEF IInv
  <1>3. IInv /\ HInv /\ RoomInv => ResetAlwaysHasRoom
    <2> SUFFICES ASSUME IInv, HInv, RoomInv, Healthy, handle.parts # {}
                 PROVE  handle.end + MarkerLen <= config.maxLen
      BY DEF ResetAlwaysHasRoom
    <2>1. body.frames # {} /\ body.valid = handle.end
      BY HealthyFile DEF IInv, HandleInv
    <2> QED
      BY <2>1 DEF RoomInv, Room, IInv, DiskInv
  <1> QED
    BY <1>1, <1>2, <1>3, Invariance, HandleInvariance, PTL DEF Spec
=============================================================================
