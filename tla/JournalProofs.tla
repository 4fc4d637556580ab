---------------------------- MODULE JournalProofs ----------------------------
(***************************************************************************)
(* Proofs about Journal for every choice of parts, lengths, identities,    *)
(* configurations and bounds.  The invariant describes, beside what the    *)
(* process sees, every file a power loss may leave.                        *)
(***************************************************************************)
EXTENDS Journal, TLAPS

Appending == {"append_header", "append_frame", "append_body", "append_sync"}
RollingBack == {"rollback_truncate", "rollback_header", "rollback_sync"}
Marking == {"marker_write", "marker_sync"}
Finishing == {"finish_header", "finish_header_sync", "finish_truncate", "finish_sync"}

\* Frames lie between the header and valid; a tail has bytes exactly when it is
\* not clean.
WellFormed(b) ==
    /\ b.valid >= HeaderLen
    /\ \A f \in b.frames : f.len > 0 /\ f.at >= HeaderLen /\ End(f) <= b.valid
    /\ b.tail.k = "clean" <=> b.tail.len = 0

\* What holds of every header and every body that may be on the disk.
SoundHeader(h) ==
    /\ h.k = "empty" => h = EmptyHeader
    /\ h.k = "active" /\ acked # {} => h.id = owner
SoundBody(b) ==
    /\ WellFormed(b)
    /\ acked \subseteq b.frames
    /\ b.tail.k # "marker" => b.frames \subseteq acked \cup limbo
    /\ b.tail.k = "marker" => asked \/ acked = {}
DiskInv ==
    /\ hdr \in diskHdrs
    /\ body \in diskBodies
    /\ \A h \in diskHdrs : SoundHeader(h)
    /\ \A b \in diskBodies : SoundBody(b)
    /\ acked # {} => owner # NoId

\* Frames are acknowledged only behind a durable directory entry.
EntryInv ==
    /\ entry # "durable" => acked = {}
    /\ pc \in {"idle"} \cup Appending \cup RollingBack \cup Marking => entry = "durable"
    /\ handle # NoHandle => entry = "durable"
    /\ hdr.k = "none" => FileLen(body) = HeaderLen
    /\ pc \notin {"down", "init_write"} => hdr.k # "none"

\* The steps of open.
OpenInv ==
    /\ pc = "init_write" => FileLen(body) = HeaderLen
    /\ pc = "init_sync" => hdr = EmptyHeader /\ FileLen(body) = HeaderLen
    /\ pc = "sync_root" => ValidJournal(hdr, body)

\* The steps of reset.
ResetInv ==
    /\ pc \in Marking => asked /\ cur = NoAppend
    /\ pc \in {"marker_sync", "finish_header", "finish_header_sync"} => body.tail.k = "marker"
    /\ pc \in {"finish_header_sync", "finish_truncate", "finish_sync"} => hdr = EmptyHeader
    /\ pc \in {"finish_truncate", "finish_sync"} => acked = {}
    /\ pc = "finish_sync" => FileLen(body) = HeaderLen

\* The append in progress starts where the handle ends.  FrameWritten: its
\* frame is complete and the last one.
FrameWritten ==
    cur.frame \in body.frames /\ body.tail.k = "clean" /\ body.valid = End(cur.frame)
AppendInv ==
    /\ pc \in Appending =>
          /\ cur # NoAppend
          /\ cur.frame \in limbo
          /\ handle.id \in {NoId, cur.id}
          /\ body.tail.k # "marker"
    /\ pc \in Appending \cup RollingBack /\ cur # NoAppend =>
          cur.frame.at = handle.end /\ cur.frame.len > 0
    /\ pc \notin Appending \cup RollingBack => cur = NoAppend
    /\ pc \in {"append_frame", "append_body"} =>
          /\ body.valid = handle.end
          /\ FirstAppend => hdr = NextHeader
    /\ pc = "append_header" => IF FirstAppend THEN body.valid = handle.end ELSE FrameWritten
    /\ pc = "append_sync" => hdr = NextHeader /\ FrameWritten

\* While the handle is usable it covers every acknowledged frame, and what it
\* rolls back to is what the file held.
HandleInv ==
    /\ Healthy \/ pc \in Appending \cup RollingBack \cup Marking =>
          /\ handle.end >= HeaderLen
          /\ \A f \in acked : End(f) <= handle.end
          /\ acked # {} => handle.id = owner
    /\ Healthy \/ pc = "marker_write" =>
          body.tail.k = "clean" /\ body.valid = handle.end
    /\ pc \in {"marker_sync", "rollback_truncate"} => body.frames \subseteq acked \cup limbo
    /\ pc \in {"rollback_header", "rollback_sync"} =>
          /\ body.tail.k = "clean"
          /\ \A f \in body.frames : End(f) <= handle.end
    /\ pc = "marker_sync" => body.valid = handle.end
    /\ pc = "rollback_truncate" => body.valid >= handle.end
    /\ pc \in {"rollback_header", "rollback_sync"} => body.valid = handle.end

IInv == TypeOK /\ DiskInv /\ EntryInv /\ OpenInv /\ ResetInv /\ AppendInv /\ HandleInv

-----------------------------------------------------------------------------
(* The operators on headers and bodies. *)

USE LengthsAssumption, PartsAssumption, IdsAssumption, ConfigsAssumption

\* An interrupted rewrite is never taken for a decodable header it was not.
LEMMA TearShape ==
    ASSUME NEW old \in Headers, NEW new \in Headers
    PROVE  /\ Tear(old, new) \in Headers
           /\ Tear(old, new).k \in {"none", "empty", "active"} =>
                 Tear(old, new) = old /\ old = new
  BY DEF Tear, Headers, HeaderKinds, Plain, EmptyHeader

\* The three headers the code writes.
LEMMA HeaderTypes ==
    /\ EmptyHeader \in Headers /\ EmptyHeader.k = "empty" /\ EmptyHeader.len = 0
    /\ EmptyHeader.id = NoId
    /\ \A id \in Ids \cup {NoId}, n \in Nat :
          ActiveHeader(id, n) \in Headers /\ ActiveHeader(id, n).k = "active"
          /\ ActiveHeader(id, n).id = id /\ ActiveHeader(id, n).len = n
  BY DEF EmptyHeader, ActiveHeader, Plain, Headers, HeaderKinds

\* A piece of a frame or of a marker changes no complete frame.
LEMMA JunkTail ==
    ASSUME NEW b \in Bodies, NEW n \in Nat \ {0}, WellFormed(b)
    PROVE  LET t == WithTail(b, Junk(n))
           IN  /\ t \in Bodies /\ WellFormed(t)
               /\ t.frames = b.frames /\ t.valid = b.valid /\ t.tail.k = "junk"
  BY DEF Bodies, Tails, WellFormed, WithTail, Junk

\* A complete marker behind the frames leaves them, and what holds of a body, as
\* they were.
LEMMA MarkerTail ==
    ASSUME NEW b \in Bodies, NEW n \in Nat, NEW id \in Ids \cup {NoId}, WellFormed(b)
    PROVE  LET t == WithTail(b, Marker(n, id))
           IN  /\ t \in Bodies /\ WellFormed(t)
               /\ t.frames = b.frames /\ t.valid = b.valid /\ t.tail.k = "marker"
  BY DEF Bodies, Tails, WellFormed, WithTail, Marker

\* A frame written where the complete frames end extends them.
LEMMA FrameAppended ==
    ASSUME NEW b \in Bodies, NEW f \in Frames, WellFormed(b), f.at = b.valid, f.len > 0
    PROVE  LET t == WithFrame(b, f)
           IN  /\ t \in Bodies /\ WellFormed(t)
               /\ t.frames = b.frames \cup {f} /\ t.valid = End(f) /\ t.tail = CleanTail
  BY DEF Bodies, Tails, Frames, WellFormed, WithFrame, CleanTail, End

\* set_len drops exactly the frames that end behind it.
LEMMA TruncatedBody ==
    ASSUME NEW b \in Bodies, NEW n \in Nat, WellFormed(b), n >= HeaderLen
    PROVE  LET t == Truncated(b, n)
           IN  /\ t \in Bodies /\ WellFormed(t)
               /\ t.frames = {f \in b.frames : End(f) <= n}
               /\ t.valid = (IF n < b.valid THEN n ELSE b.valid) /\ t.tail = CleanTail
  BY DEF Bodies, Tails, Frames, WellFormed, Truncated, CleanTail, End

\* A body that ends with the header holds nothing.
LEMMA NothingBehindHeader ==
    ASSUME NEW b \in Bodies, WellFormed(b), FileLen(b) = HeaderLen
    PROVE  b.frames = {} /\ b.valid = HeaderLen /\ b.tail.k = "clean"
  BY DEF Bodies, Tails, Frames, WellFormed, FileLen, End

-----------------------------------------------------------------------------
(* The elementary writes, by what they leave on the disk. *)

DiskTypes ==
    hdr \in Headers /\ diskHdrs \subseteq Headers /\ body \in Bodies /\ diskBodies \subseteq Bodies

\* A header write that runs through keeps every part of the invariant that speaks
\* of headers and bodies only (write_header).
LEMMA HeaderWritten ==
    ASSUME TypeOK, DiskInv, NEW new \in Headers, SoundHeader(new),
           WriteHeader(new), UNCHANGED histVars
    PROVE  DiskInv' /\ DiskTypes'
  <1>1. \A h \in diskHdrs' : h \in Headers /\ SoundHeader(h)
    BY TearShape DEF WriteHeader, TypeOK, DiskInv, SoundHeader
  <1>2. \A h \in diskHdrs' : SoundHeader(h)'
    BY <1>1 DEF SoundHeader, histVars
  <1>3. \A b \in diskBodies' : SoundBody(b)'
    BY DEF WriteHeader, DiskInv, SoundBody, WellFormed, histVars
  <1> QED
    BY <1>1, <1>2, <1>3 DEF WriteHeader, TypeOK, DiskInv, DiskTypes, histVars

\* A torn header is never taken for a sound one, so nothing is asked of new.
LEMMA HeaderBroken ==
    ASSUME TypeOK, DiskInv, NEW new \in Headers, BreakHeader(new), UNCHANGED histVars
    PROVE  DiskInv' /\ DiskTypes' /\ UNCHANGED <<body, entry>>
  <1>1. CASE UNCHANGED fileVars
    BY <1>1 DEF TypeOK, DiskInv, DiskTypes, SoundHeader, SoundBody, WellFormed, fileVars, histVars
  <1>2. CASE /\ hdr' = Tear(hdr, new)
             /\ diskHdrs' = diskHdrs \cup {Tear(h, new) : h \in diskHdrs}
             /\ UNCHANGED <<body, diskBodies, entry, inherited>>
    <2>1. \A h \in diskHdrs' : h \in Headers /\ SoundHeader(h)
      BY <1>2, TearShape DEF TypeOK, DiskInv, SoundHeader
    <2>2. \A h \in diskHdrs' : SoundHeader(h)'
      BY <2>1 DEF SoundHeader, histVars
    <2>3. \A b \in diskBodies' : SoundBody(b)'
      BY <1>2 DEF DiskInv, SoundBody, WellFormed, histVars
    <2> QED
      BY <1>2, <2>1, <2>2, <2>3 DEF TypeOK, DiskInv, DiskTypes, histVars
  <1> QED
    BY <1>1, <1>2 DEF BreakHeader

\* The same of a write or truncation behind the header (write_frame, set_len).
LEMMA BodyWritten ==
    ASSUME TypeOK, DiskInv, NEW b, NEW torn,
           \A x \in {b} \cup torn : x \in Bodies /\ SoundBody(x),
           WriteBody(b, torn), UNCHANGED histVars
    PROVE  DiskInv' /\ DiskTypes'
  <1>1. \A x \in diskBodies' : x \in Bodies /\ SoundBody(x)
    BY DEF WriteBody, TypeOK, DiskInv
  <1>2. \A x \in diskBodies' : SoundBody(x)'
    BY <1>1 DEF SoundBody, WellFormed, histVars
  <1>3. \A h \in diskHdrs' : SoundHeader(h)'
    BY DEF WriteBody, DiskInv, SoundHeader, histVars
  <1> QED
    BY <1>1, <1>2, <1>3 DEF WriteBody, TypeOK, DiskInv, DiskTypes, histVars

\* Pieces of a write are sound where the frames are acknowledged or cut short.
LEMMA JunkSound ==
    ASSUME TypeOK, DiskInv, body.frames \subseteq acked \cup limbo, NEW n \in Nat \ {0}
    PROVE  LET t == WithTail(body, Junk(n))
           IN  /\ t \in Bodies /\ SoundBody(t) /\ t.tail.k = "junk"
               /\ t.frames = body.frames /\ t.valid = body.valid
  <1>1. body \in Bodies /\ WellFormed(body) /\ acked \subseteq body.frames
    BY DEF TypeOK, DiskInv, SoundBody
  <1> QED
    BY <1>1, JunkTail DEF SoundBody

\* The same of a write behind the header that failed part of the way.
LEMMA BodyBroken ==
    ASSUME TypeOK, DiskInv, body.frames \subseteq acked \cup limbo,
           NEW lens \in SUBSET Nat, BreakBody(lens), UNCHANGED histVars
    PROVE  /\ DiskInv' /\ DiskTypes'
           /\ UNCHANGED <<hdr, entry>>
           /\ body'.frames = body.frames /\ body'.valid = body.valid
           /\ body'.tail.k \in {body.tail.k, "junk"}
  <1>1. PICK n \in lens :
            IF n = 0 THEN UNCHANGED fileVars
            ELSE WriteBody(WithTail(body, Junk(n)), {WithTail(body, Junk(m)) : m \in 1..n})
    BY DEF BreakBody
  <1>2. CASE n = 0
    BY <1>1, <1>2
    DEF TypeOK, DiskInv, DiskTypes, SoundHeader, SoundBody, WellFormed, fileVars, histVars
  <1>3. CASE n # 0
    <2>1. WriteBody(WithTail(body, Junk(n)), {WithTail(body, Junk(m)) : m \in 1..n})
      BY <1>1, <1>3
    <2>2. \A x \in {WithTail(body, Junk(n))} \cup {WithTail(body, Junk(m)) : m \in 1..n} :
              x \in Bodies /\ SoundBody(x)
      BY <1>3, JunkSound
    <2>3. DiskInv' /\ DiskTypes'
      BY <2>1, <2>2, BodyWritten
    <2> QED
      BY <1>3, <2>1, <2>3, JunkSound DEF WriteBody
  <1> QED
    BY <1>2, <1>3

\* sync_data leaves what a read returns, and nothing else.
LEMMA Synchronised ==
    ASSUME TypeOK, SyncFile, SoundHeader(hdr)', SoundBody(body)', (acked # {} => owner # NoId)'
    PROVE  DiskInv' /\ DiskTypes' /\ UNCHANGED <<hdr, body, entry>>
  BY DEF SyncFile, TypeOK, DiskInv, DiskTypes

-----------------------------------------------------------------------------
(* The steps of open. *)

\* Every step of Journal::open preserves the invariant.
LEMMA OpenStep == IInv /\ Open => IInv'
  <1> SUFFICES ASSUME IInv, Open PROVE IInv'
    OBVIOUS
  <1> USE DEF Appending, RollingBack, Marking, Finishing
  <1>0. /\ body \in Bodies /\ WellFormed(body) /\ acked \subseteq body.frames
        /\ hdr \in Headers /\ SoundHeader(hdr) /\ SoundBody(body)
    BY DEF IInv, TypeOK, DiskInv, SoundBody
  <1>1. ASSUME NEW c \in Configs, OpenFile(c) PROVE IInv'
    <2>1. TypeOK'
      BY <1>1 DEF IInv, TypeOK, OpenFile, histVars
    <2>2. DiskInv'
      BY <1>1 DEF IInv, DiskInv, SoundHeader, SoundBody, WellFormed, OpenFile, histVars
    <2>3. EntryInv'
      BY <1>1 DEF IInv, EntryInv, FileLen, OpenFile, histVars
    <2>4. OpenInv'
      BY <1>1 DEF IInv, EntryInv, OpenInv, ValidJournal, FileLen, OpenFile, Opens
    <2>5. ResetInv'
      BY <1>1 DEF IInv, ResetInv, CommittedReset, OpenFile
    <2>6. AppendInv' /\ HandleInv'
      BY <1>1 DEF IInv, AppendInv, HandleInv, Healthy, OpenFile, histVars
    <2> QED
      BY <2>1, <2>2, <2>3, <2>4, <2>5, <2>6 DEF IInv
  <1>2. CASE InitWrite
    <2>1. DiskInv' /\ DiskTypes'
      BY <1>2, HeaderTypes, HeaderWritten DEF IInv, InitWrite, SoundHeader
    <2>2. TypeOK'
      BY <1>2, <2>1 DEF IInv, TypeOK, DiskTypes, InitWrite, WriteHeader, procVars, histVars
    <2>3. EntryInv' /\ OpenInv' /\ ResetInv'
      BY <1>2, HeaderTypes
      DEF IInv, EntryInv, OpenInv, ResetInv, InitWrite, WriteHeader, procVars, histVars, FileLen
    <2>4. AppendInv' /\ HandleInv'
      BY <1>2 DEF IInv, AppendInv, HandleInv, Healthy, InitWrite, procVars, histVars
    <2> QED
      BY <2>1, <2>2, <2>3, <2>4 DEF IInv
  <1>3. CASE InitSync
    <2>1. DiskInv' /\ DiskTypes' /\ UNCHANGED <<hdr, body, entry>>
      BY <1>0, <1>3, Synchronised
      DEF IInv, DiskInv, SoundHeader, SoundBody, WellFormed, InitSync, SyncFile, histVars
    <2>2. TypeOK'
      BY <1>3, <2>1 DEF IInv, TypeOK, DiskTypes, InitSync, SyncFile, procVars, histVars
    <2>3. EntryInv' /\ OpenInv' /\ ResetInv'
      BY <1>0, <1>3, <2>1, HeaderTypes
      DEF IInv, EntryInv, OpenInv, ResetInv, InitSync, procVars, histVars, FileLen, ValidJournal
    <2>4. AppendInv' /\ HandleInv'
      BY <1>3 DEF IInv, AppendInv, HandleInv, Healthy, InitSync, procVars, histVars
    <2> QED
      BY <2>1, <2>2, <2>3, <2>4 DEF IInv
  <1>4. CASE SyncRoot
    <2>0. /\ ValidJournal(hdr, body)
          /\ pc = "sync_root" /\ pc' = "idle" /\ entry' = "durable"
          /\ UNCHANGED <<hdr, body, diskHdrs, diskBodies, inherited, cur, config, histVars>>
      BY <1>4 DEF IInv, OpenInv, SyncRoot, diskVars
    <2>1. /\ body.tail.k = "clean" /\ FileLen(body) = body.valid
          /\ acked # {} => hdr.id = owner
      <3>1. CASE hdr.k = "active"
        BY <1>0, <2>0, <3>1 DEF ValidJournal, SoundHeader, WellFormed, FileLen, Bodies, Tails
      <3>2. CASE hdr.k = "empty"
        <4>1. hdr.len = 0 /\ hdr.len = FileLen(body) - HeaderLen
          BY <1>0, <2>0, <3>2, HeaderTypes DEF ValidJournal, SoundHeader
        <4>2. FileLen(body) = HeaderLen
          BY <1>0, <4>1 DEF FileLen, Bodies, Tails
        <4> QED
          BY <1>0, <4>2, NothingBehindHeader
      <3> QED
        BY <2>0, <3>1, <3>2 DEF ValidJournal
    <2>2. FileLen(body) \in Nat /\ {Span(f) : f \in body.frames} \in SUBSET Spans
      BY <1>0 DEF FileLen, Bodies, Tails, Span, Spans, Frames
    <2>3. {RefOf(f, nextGen) : f \in body.frames} \subseteq Refs
      BY <1>0 DEF IInv, TypeOK, Bodies, RefOf, Refs, Frames
    <2>4. TypeOK'
      BY <1>0, <1>4, <2>0, <2>2, <2>3 DEF IInv, TypeOK, SyncRoot, Handles, Headers, histVars
    <2>5. DiskInv'
      BY <2>0 DEF IInv, DiskInv, SoundHeader, SoundBody, WellFormed, histVars
    <2>6. EntryInv' /\ OpenInv' /\ ResetInv' /\ AppendInv'
      BY <1>4, <2>0
      DEF IInv, EntryInv, OpenInv, ResetInv, AppendInv, FileLen, histVars
    <2>7. handle'.end = body.valid /\ handle'.id = hdr.id
      BY <1>4, <2>1 DEF SyncRoot
    <2>8. HandleInv'
      BY <1>0, <2>0, <2>1, <2>7 DEF HandleInv, Healthy, WellFormed, histVars
    <2> QED
      BY <2>4, <2>5, <2>6, <2>8 DEF IInv
  <1>5. CASE OpenFails
    <2>1. pc' = "down" /\ UNCHANGED <<body, entry>>
      BY <1>5 DEF OpenFails, BreakHeader, fileVars
    <2>2. DiskInv' /\ DiskTypes'
      <3>1. CASE UNCHANGED fileVars
        BY <1>5, <3>1 DEF IInv, TypeOK, DiskTypes, DiskInv, SoundHeader, SoundBody, WellFormed,
                          OpenFails, fileVars, histVars
      <3>2. CASE BreakHeader(EmptyHeader)
        BY <1>5, <3>2, HeaderBroken, HeaderTypes DEF IInv, OpenFails
      <3> QED
        BY <1>5, <3>1, <3>2 DEF OpenFails
    <2>3. TypeOK'
      BY <1>5, <2>1, <2>2
      DEF IInv, TypeOK, DiskTypes, OpenFails, BreakHeader, fileVars, procVars, histVars
    <2>4. hdr'.k = "none" => FileLen(body') = HeaderLen
      BY <1>0, <1>5, TearShape, HeaderTypes
      DEF IInv, EntryInv, OpenFails, BreakHeader, fileVars
    <2>5. EntryInv' /\ OpenInv' /\ ResetInv'
      BY <1>5, <2>1, <2>4
      DEF IInv, EntryInv, OpenInv, ResetInv, OpenFails, procVars, histVars, FileLen
    <2>6. AppendInv' /\ HandleInv'
      BY <1>5 DEF IInv, AppendInv, HandleInv, Healthy, OpenFails, procVars, histVars
    <2> QED
      BY <2>2, <2>3, <2>5, <2>6 DEF IInv
  <1> QED
    BY <1>1, <1>2, <1>3, <1>4, <1>5 DEF Open

-----------------------------------------------------------------------------
(* The steps of append. *)

\* The append in progress is a well-typed frame behind the handle's end, and
\* the header it installs is a sound one.
LEMMA CurrentAppend ==
    ASSUME IInv, pc \in Appending
    PROVE  /\ cur \in [frame : Frames, id : Ids]
           /\ cur.frame.at = handle.end /\ cur.frame.len > 0 /\ handle.end \in Nat
           /\ End(cur.frame) \in Nat /\ End(cur.frame) > handle.end
           /\ NextHeader \in Headers /\ SoundHeader(NextHeader)
           /\ NextHeader.k = "active" /\ NextHeader.id = cur.id
           /\ NextHeader.len = End(cur.frame) - HeaderLen
  <1>1. /\ cur \in [frame : Frames, id : Ids]
        /\ cur.frame.at = handle.end /\ cur.frame.len > 0 /\ handle.end \in Nat
        /\ handle.end >= HeaderLen
    BY DEF IInv, TypeOK, AppendInv, HandleInv, Handles
  <1>2. End(cur.frame) \in Nat /\ End(cur.frame) > handle.end
        /\ End(cur.frame) - HeaderLen \in Nat
    BY <1>1 DEF End, Frames
  <1>3. cur.id \in Ids /\ (acked # {} => cur.id = owner)
    BY <1>1 DEF IInv, DiskInv, AppendInv, HandleInv
  <1> QED
    BY <1>1, <1>2, <1>3, HeaderTypes DEF NextHeader, SoundHeader

\* Every step of append preserves the invariant.
LEMMA AppendStep == IInv /\ AppendNext => IInv'
  <1> SUFFICES ASSUME IInv, AppendNext PROVE IInv'
    OBVIOUS
  <1> USE DEF Appending, RollingBack, Marking, Finishing
  <1>0. /\ body \in Bodies /\ WellFormed(body) /\ acked \subseteq body.frames
        /\ hdr \in Headers /\ SoundHeader(hdr) /\ SoundBody(body) /\ handle \in Handles
    BY DEF IInv, TypeOK, DiskInv, SoundBody
  <1>1. ASSUME NEW id \in Ids, NEW p \in Parts, AppendBegin(id, p) PROVE IInv'
    <2> DEFINE f == [at |-> handle.end, len |-> FrameHeaderLen + PartLen[p], part |-> p]
    <2>1. f \in Frames /\ f.len > 0 /\ f.at = handle.end
      BY <1>0 DEF Handles, Frames
    <2>2. /\ cur' = [frame |-> f, id |-> id] /\ cur'.frame = f /\ cur'.id = id
          /\ limbo' = limbo \cup {f}
          /\ pc = "idle" /\ Healthy
          /\ pc' = IF FirstAppend THEN "append_header" ELSE "append_frame"
          /\ handle.id \in {NoId, id}
          /\ UNCHANGED <<fileVars, handle, config, nextGen, issued, acked, owner, asked>>
      BY <1>1 DEF AppendBegin, Admits, Healthy
    <2>3. cur' # NoAppend
      BY <2>1, <2>2 DEF NoAppend
    <2>4. TypeOK'
      BY <2>1, <2>2 DEF IInv, TypeOK, fileVars
    <2>5. DiskInv'
      BY <2>2 DEF IInv, DiskInv, SoundHeader, SoundBody, WellFormed, fileVars
    <2>6. EntryInv' /\ OpenInv' /\ ResetInv'
      BY <2>2 DEF IInv, EntryInv, OpenInv, ResetInv, FileLen, fileVars
    <2>7. body.tail.k = "clean" /\ body.valid = handle.end
      BY <2>2 DEF IInv, HandleInv
    <2>8. AppendInv'
      BY <2>1, <2>2, <2>3, <2>7 DEF AppendInv, FirstAppend, NextHeader, fileVars
    <2>9. HandleInv'
      BY <2>2 DEF IInv, HandleInv, Healthy, fileVars
    <2> QED
      BY <2>4, <2>5, <2>6, <2>8, <2>9 DEF IInv
  <1>2. CASE AppendHeader
    <2>1. pc = "append_header" /\ pc \in Appending
      BY <1>2 DEF AppendHeader
    <2>2. DiskInv' /\ DiskTypes'
      BY <1>2, <2>1, CurrentAppend, HeaderWritten DEF IInv, AppendHeader
    <2>3. hdr' = NextHeader /\ NextHeader.k = "active"
          /\ UNCHANGED <<body, entry, procVars, histVars, inherited>>
          /\ pc' = IF FirstAppend THEN "append_frame" ELSE "append_sync"
      BY <1>2, <2>1, CurrentAppend DEF AppendHeader, WriteHeader
    <2>4. TypeOK'
      BY <2>2, <2>3 DEF IInv, TypeOK, DiskTypes, procVars, histVars
    <2>5. EntryInv' /\ OpenInv' /\ ResetInv'
      BY <2>1, <2>3 DEF IInv, EntryInv, OpenInv, ResetInv, FileLen, procVars, histVars
    <2>6. AppendInv'
      BY <2>1, <2>3
      DEF IInv, AppendInv, FirstAppend, FrameWritten, NextHeader, procVars, histVars
    <2>7. HandleInv'
      BY <2>1, <2>3 DEF IInv, HandleInv, Healthy, procVars, histVars
    <2> QED
      BY <2>2, <2>4, <2>5, <2>6, <2>7 DEF IInv
  <1>3. CASE AppendFrame
    <2>1. pc = "append_frame" /\ body.tail.k # "marker" /\ body.frames \subseteq acked \cup limbo
      BY <1>0, <1>3 DEF IInv, AppendInv, SoundBody, AppendFrame
    <2>2. \A x \in {WithTail(body, Junk(FrameHeaderLen))}
                    \cup {WithTail(body, Junk(n)) : n \in 1..FrameHeaderLen} :
              x \in Bodies /\ SoundBody(x) /\ x.tail.k = "junk"
              /\ x.frames = body.frames /\ x.valid = body.valid
      BY <2>1, JunkSound DEF IInv
    <2>3. DiskInv' /\ DiskTypes'
      BY <1>3, <2>2, BodyWritten DEF IInv, AppendFrame
    <2>4. /\ body'.tail.k = "junk" /\ body'.frames = body.frames /\ body'.valid = body.valid
          /\ UNCHANGED <<hdr, entry, procVars, histVars, inherited>> /\ pc' = "append_body"
      BY <1>3, <2>2 DEF AppendFrame, WriteBody
    <2>5. TypeOK'
      BY <2>3, <2>4 DEF IInv, TypeOK, DiskTypes, procVars, histVars
    <2>6. hdr.k # "none"
      BY <2>1 DEF IInv, EntryInv
    <2>7. EntryInv' /\ OpenInv' /\ ResetInv'
      BY <2>1, <2>4, <2>6 DEF IInv, EntryInv, OpenInv, ResetInv, procVars, histVars
    <2>8. AppendInv' /\ HandleInv'
      BY <2>1, <2>4
      DEF IInv, AppendInv, HandleInv, Healthy, FirstAppend, NextHeader, procVars, histVars
    <2> QED
      BY <2>3, <2>5, <2>7, <2>8 DEF IInv
  <1>4. CASE AppendBody
    <2>1. pc = "append_body" /\ pc \in Appending /\ body.tail.k # "marker"
          /\ body.frames \subseteq acked \cup limbo /\ body.valid = handle.end
          /\ cur.frame \in limbo /\ hdr.k # "none"
      BY <1>0, <1>4 DEF IInv, AppendInv, EntryInv, SoundBody, AppendBody
    <2>2. /\ cur.frame \in Frames /\ cur.frame.at = body.valid /\ cur.frame.len > 0
          /\ cur.frame.len \in Nat
      BY <2>1, CurrentAppend DEF Frames
    <2> DEFINE w == WithFrame(body, cur.frame)
    <2>3. /\ w \in Bodies /\ WellFormed(w) /\ w.frames = body.frames \cup {cur.frame}
          /\ w.valid = End(cur.frame) /\ w.tail = CleanTail /\ w.tail.k = "clean"
      BY <1>0, <2>2, FrameAppended DEF CleanTail
    <2>4. SoundBody(w)
      BY <1>0, <2>1, <2>3 DEF SoundBody
    <2>5. \A x \in {w} \cup {WithTail(body, Junk(n)) : n \in 1..cur.frame.len} :
              x \in Bodies /\ SoundBody(x)
      BY <2>1, <2>2, <2>3, <2>4, JunkSound DEF IInv
    <2>6. DiskInv' /\ DiskTypes'
      BY <1>4, <2>5, BodyWritten DEF IInv, AppendBody
    <2>7. /\ body'.frames = body.frames \cup {cur.frame} /\ body'.valid = End(cur.frame)
          /\ body'.tail.k = "clean"
          /\ UNCHANGED <<hdr, entry, procVars, histVars, inherited>>
          /\ pc' = IF FirstAppend THEN "append_sync" ELSE "append_header"
      BY <1>4, <2>3 DEF AppendBody, WriteBody
    <2>8. TypeOK'
      BY <2>6, <2>7 DEF IInv, TypeOK, DiskTypes, procVars, histVars
    <2>9. EntryInv' /\ OpenInv' /\ ResetInv'
      BY <2>1, <2>7 DEF IInv, EntryInv, OpenInv, ResetInv, procVars, histVars
    <2>10. AppendInv' /\ HandleInv'
      BY <2>1, <2>7
      DEF IInv, AppendInv, HandleInv, Healthy, FirstAppend, FrameWritten, NextHeader, End,
          procVars, histVars
    <2> QED
      BY <2>6, <2>8, <2>9, <2>10 DEF IInv
  <1>5. CASE AppendSync
    <2>1. /\ pc = "append_sync" /\ pc \in Appending /\ SyncFile /\ entry = "durable"
          /\ hdr = NextHeader /\ FrameWritten /\ body.frames \subseteq acked \cup limbo
          /\ cur \in [frame : Frames, id : Ids] /\ cur.frame \in body.frames
          /\ hdr.k = "active" /\ hdr.id = cur.id
          /\ End(cur.frame) \in Nat /\ End(cur.frame) > handle.end
      BY <1>0, <1>5, CurrentAppend
      DEF IInv, AppendInv, EntryInv, SoundBody, FrameWritten, AppendSync
    <2>2. /\ acked' = acked \cup {cur.frame} \cup (limbo \cap body.frames)
          /\ owner' = cur.id /\ limbo' = {} /\ asked' = FALSE
          /\ cur' = NoAppend /\ pc' = "idle"
          /\ handle'.end = End(cur.frame) /\ handle'.id = cur.id
          /\ UNCHANGED <<hdr, body, entry, config, nextGen>>
      BY <1>0, <1>5, <2>1 DEF AppendSync, SyncFile, Handles
    <2>3. acked' = body.frames
      BY <1>0, <2>1, <2>2
    <2>4. SoundHeader(hdr)'
      BY <2>1, <2>2 DEF SoundHeader
    <2>5. SoundBody(body)'
      BY <1>0, <2>1, <2>2, <2>3 DEF SoundBody, WellFormed, FrameWritten
    <2>6. DiskInv' /\ DiskTypes'
      BY <2>1, <2>2, <2>4, <2>5, Synchronised DEF IInv
    <2>7. handle' \in Handles
      <3>1. handle.parts \cup {Span(cur.frame)} \in SUBSET Spans
        BY <1>0, <2>1 DEF Handles, Span, Spans, Frames
      <3>2. handle' = [handle EXCEPT !.end = End(cur.frame),
                                     !.parts = @ \cup {Span(cur.frame)}, !.id = cur.id]
        BY <1>5 DEF AppendSync
      <3> QED
        BY <1>0, <2>1, <3>1, <3>2 DEF Handles
    <2>8. issued' \subseteq Refs
      BY <1>0, <1>5, <2>1 DEF IInv, TypeOK, AppendSync, RefOf, Refs, Frames, Handles
    <2>9. TypeOK'
      BY <1>0, <2>1, <2>2, <2>3, <2>6, <2>7, <2>8 DEF IInv, TypeOK, DiskTypes, SyncFile, Bodies
    <2>10. EntryInv' /\ OpenInv' /\ ResetInv' /\ AppendInv'
      BY <2>1, <2>2 DEF IInv, EntryInv, OpenInv, ResetInv, AppendInv, FileLen
    <2>11. handle.end >= HeaderLen /\ handle.end \in Nat
      BY <1>0, <2>1 DEF IInv, HandleInv, Handles
    <2>12. HandleInv'
      BY <1>0, <2>1, <2>2, <2>3, <2>11 DEF HandleInv, Healthy, FrameWritten, WellFormed
    <2> QED
      BY <2>6, <2>9, <2>10, <2>12 DEF IInv
  <1>6. CASE AppendFails
    <2>1. /\ pc \in Appending /\ body.tail.k # "marker" /\ body.frames \subseteq acked \cup limbo
          /\ hdr.k # "none" /\ entry = "durable"
          /\ body.valid \in Nat /\ handle.end \in Nat /\ body.valid >= handle.end
      <3>1. /\ pc \in Appending /\ body.tail.k # "marker"
            /\ body.frames \subseteq acked \cup limbo /\ hdr.k # "none" /\ entry = "durable"
            /\ body.valid \in Nat /\ handle.end \in Nat
        BY <1>0, <1>6
        DEF IInv, AppendInv, EntryInv, SoundBody, AppendFails, Bodies, Handles
      <3>2. body.valid = handle.end \/ body.valid = End(cur.frame)
        BY <3>1 DEF IInv, AppendInv, FrameWritten
      <3> QED
        BY <3>1, <3>2, CurrentAppend
    <2>2. /\ pc' = "rollback_truncate" /\ UNCHANGED <<procVars, histVars>>
      BY <1>6 DEF AppendFails
    <2>3. /\ DiskInv' /\ DiskTypes' /\ UNCHANGED entry
          /\ body'.frames = body.frames /\ body'.valid = body.valid /\ hdr'.k # "none"
      <3>1. CASE UNCHANGED fileVars
        BY <2>1, <2>2, <3>1 DEF IInv, TypeOK, DiskTypes, DiskInv, SoundHeader, SoundBody,
                                WellFormed, fileVars, histVars
      <3>2. CASE BreakHeader(NextHeader)
        <4>1. NextHeader \in Headers
          BY <2>1, CurrentAppend
        <4>2. hdr'.k # "none"
          BY <1>0, <2>1, <3>2, <4>1, TearShape DEF BreakHeader, fileVars
        <4> QED
          BY <2>2, <3>2, <4>1, <4>2, HeaderBroken DEF IInv
      <3>3. ASSUME NEW lens \in SUBSET Nat, BreakBody(lens)
            PROVE  /\ DiskInv' /\ DiskTypes' /\ UNCHANGED entry
                   /\ body'.frames = body.frames /\ body'.valid = body.valid
                   /\ hdr'.k # "none"
        BY <2>1, <2>2, <3>3, BodyBroken DEF IInv
      <3>4. \/ UNCHANGED fileVars \/ BreakHeader(NextHeader)
            \/ \E lens \in SUBSET Nat : BreakBody(lens)
        <4>1. cur.frame.len \in Nat
          BY <2>1, CurrentAppend DEF Frames
        <4>2. 0..(FrameHeaderLen - 1) \in SUBSET Nat
              /\ FrameHeaderLen..(cur.frame.len - 1) \in SUBSET Nat
          BY <4>1
        <4> QED
          BY <1>6, <4>2 DEF AppendFails
      <3> QED
        BY <3>1, <3>2, <3>3, <3>4
    <2>4. TypeOK'
      BY <1>6, <2>2, <2>3
      DEF IInv, TypeOK, DiskTypes, AppendFails, BreakHeader, BreakBody, WriteBody, fileVars,
          procVars, histVars
    <2>5. EntryInv' /\ OpenInv' /\ ResetInv'
      BY <2>1, <2>2, <2>3 DEF IInv, EntryInv, OpenInv, ResetInv, procVars, histVars
    <2>6. AppendInv' /\ HandleInv'
      BY <2>1, <2>2, <2>3 DEF IInv, AppendInv, HandleInv, Healthy, procVars, histVars
    <2> QED
      BY <2>3, <2>4, <2>5, <2>6 DEF IInv
  <1> QED
    BY <1>1, <1>2, <1>3, <1>4, <1>5, <1>6 DEF AppendNext

-----------------------------------------------------------------------------
(* The steps of rollback. *)

\* The header a rollback restores is sound: it carries the identity of the
\* acknowledged frames, or none.
LEMMA RestoredHeader ==
    ASSUME IInv, pc \in RollingBack
    PROVE  /\ CurrentHeader \in Headers /\ SoundHeader(CurrentHeader)
           /\ CurrentHeader.k # "none"
  <1>1. /\ handle.end \in Nat /\ handle.end >= HeaderLen /\ handle.id \in Ids \cup {NoId}
        /\ acked # {} => handle.id = owner
    BY DEF IInv, TypeOK, HandleInv, Handles
  <1>2. handle.end - HeaderLen \in Nat
    BY <1>1
  <1> QED
    BY <1>1, <1>2, HeaderTypes DEF CurrentHeader, SoundHeader

\* Every step of rollback preserves the invariant.
LEMMA RollbackStep == IInv /\ Rollback => IInv'
  <1> SUFFICES ASSUME IInv, Rollback PROVE IInv'
    OBVIOUS
  <1> USE DEF Appending, RollingBack, Marking, Finishing
  <1>0. /\ body \in Bodies /\ WellFormed(body) /\ acked \subseteq body.frames
        /\ hdr \in Headers /\ SoundHeader(hdr) /\ SoundBody(body) /\ handle \in Handles
        /\ handle.end \in Nat /\ handle.end >= HeaderLen
        /\ \A f \in acked : End(f) <= handle.end
        /\ pc \in RollingBack /\ entry = "durable" /\ hdr.k # "none"
    <2>1. pc \in RollingBack
      BY DEF Rollback, RollbackTruncate, RollbackHeader, RollbackSync, RollbackFails
    <2> QED
      BY <2>1 DEF IInv, TypeOK, DiskInv, SoundBody, EntryInv, HandleInv, Handles
  <1>1. CASE RollbackTruncate
    <2> DEFINE t == Truncated(body, handle.end)
    <2>1. /\ t \in Bodies /\ WellFormed(t) /\ t.tail.k = "clean" /\ t.valid = handle.end
          /\ t.frames = {f \in body.frames : End(f) <= handle.end}
          /\ body.frames \subseteq acked \cup limbo
      <3>1. body.valid >= handle.end /\ body.valid \in Nat
            /\ body.frames \subseteq acked \cup limbo
        BY <1>0, <1>1 DEF IInv, HandleInv, RollbackTruncate, Bodies
      <3>2. /\ t \in Bodies /\ WellFormed(t) /\ t.tail = CleanTail
            /\ t.frames = {f \in body.frames : End(f) <= handle.end}
            /\ t.valid = (IF handle.end < body.valid THEN handle.end ELSE body.valid)
        BY <1>0, TruncatedBody
      <3> HIDE DEF t
      <3> QED
        BY <1>0, <3>1, <3>2 DEF CleanTail
    <2>2. SoundBody(t)
      BY <1>0, <2>1 DEF SoundBody
    <2>3. DiskInv' /\ DiskTypes'
      BY <1>1, <2>1, <2>2, BodyWritten DEF IInv, RollbackTruncate
    <2>4. /\ body' = t /\ pc' = "rollback_header"
          /\ UNCHANGED <<hdr, entry, procVars, histVars, inherited>>
      BY <1>1 DEF RollbackTruncate, WriteBody
    <2>5. TypeOK'
      BY <2>3, <2>4 DEF IInv, TypeOK, DiskTypes, procVars, histVars
    <2>6. EntryInv' /\ OpenInv' /\ ResetInv' /\ AppendInv'
      BY <1>0, <2>4 DEF IInv, EntryInv, OpenInv, ResetInv, AppendInv, procVars, histVars
    <2>7. HandleInv'
      BY <1>0, <2>1, <2>4 DEF HandleInv, Healthy, IInv, procVars, histVars
    <2> QED
      BY <2>3, <2>5, <2>6, <2>7 DEF IInv
  <1>2. CASE RollbackHeader
    <2>1. DiskInv' /\ DiskTypes'
      BY <1>0, <1>2, RestoredHeader, HeaderWritten DEF IInv, RollbackHeader
    <2>2. /\ hdr'.k # "none" /\ pc = "rollback_header" /\ pc' = "rollback_sync"
          /\ UNCHANGED <<body, entry, procVars, histVars, inherited>>
      BY <1>0, <1>2, RestoredHeader DEF RollbackHeader, WriteHeader
    <2>3. TypeOK'
      BY <2>1, <2>2 DEF IInv, TypeOK, DiskTypes, procVars, histVars
    <2>4. EntryInv' /\ OpenInv' /\ ResetInv' /\ AppendInv' /\ HandleInv'
      BY <1>0, <2>2
      DEF IInv, EntryInv, OpenInv, ResetInv, AppendInv, HandleInv, Healthy, procVars, histVars
    <2> QED
      BY <2>1, <2>3, <2>4 DEF IInv
  <1>3. CASE RollbackSync
    <2>1. /\ body.tail.k = "clean" /\ body.valid = handle.end
          /\ \A f \in body.frames : f \in Frames /\ End(f) <= handle.end
          /\ body.frames \subseteq acked \cup limbo
      BY <1>0, <1>3 DEF IInv, HandleInv, SoundBody, RollbackSync, Bodies
    <2>2. /\ SyncFile /\ cur' = NoAppend /\ asked' = FALSE /\ pc' = "idle"
          /\ limbo' = IF cur = NoAppend THEN limbo ELSE limbo \ {cur.frame}
          /\ UNCHANGED <<hdr, body, entry, handle, config, nextGen, issued, acked, owner>>
      BY <1>3 DEF RollbackSync, SyncFile
    <2>3. cur # NoAppend => cur.frame \notin body.frames
      <3> SUFFICES ASSUME cur # NoAppend, cur.frame \in body.frames PROVE FALSE
        OBVIOUS
      <3>1. cur.frame.at = handle.end /\ cur.frame.len > 0
        BY <1>0 DEF IInv, AppendInv
      <3> QED
        BY <1>0, <2>1, <3>1 DEF End, Frames
    <2>4. SoundBody(body)'
      BY <1>0, <2>1, <2>2, <2>3 DEF SoundBody, WellFormed
    <2>5. SoundHeader(hdr)' /\ (acked # {} => owner # NoId)'
      BY <1>0, <2>2 DEF IInv, DiskInv, SoundHeader
    <2>6. DiskInv' /\ DiskTypes'
      BY <2>2, <2>4, <2>5, Synchronised DEF IInv
    <2>7. TypeOK'
      BY <2>2, <2>6 DEF IInv, TypeOK, DiskTypes, SyncFile
    <2>8. EntryInv' /\ OpenInv' /\ ResetInv' /\ AppendInv'
      BY <1>0, <2>2 DEF IInv, EntryInv, OpenInv, ResetInv, AppendInv
    <2>9. acked # {} => handle.id = owner
      BY <1>0 DEF IInv, HandleInv
    <2>10. HandleInv'
      BY <1>0, <2>1, <2>2, <2>9 DEF HandleInv, Healthy
    <2> QED
      BY <2>6, <2>7, <2>8, <2>10 DEF IInv
  <1>4. CASE RollbackFails
    <2>1. /\ pc' = "idle" /\ cur' = NoAppend
          /\ handle' = [handle EXCEPT !.poisoned = TRUE]
          /\ UNCHANGED <<config, nextGen, issued, histVars>>
          /\ UNCHANGED fileVars \/ BreakHeader(CurrentHeader)
      BY <1>4 DEF RollbackFails
    <2>2. handle' \in Handles /\ handle'.poisoned
      BY <1>0, <2>1 DEF Handles
    <2>3. DiskInv' /\ DiskTypes' /\ UNCHANGED <<body, entry>> /\ hdr'.k # "none"
      <3>1. CASE UNCHANGED fileVars
        BY <1>0, <2>1, <3>1 DEF IInv, TypeOK, DiskTypes, DiskInv, SoundHeader, SoundBody,
                                WellFormed, fileVars, histVars
      <3>2. CASE BreakHeader(CurrentHeader)
        <4>1. hdr'.k # "none"
          BY <1>0, <3>2, RestoredHeader, TearShape DEF BreakHeader, fileVars
        <4> QED
          BY <1>0, <2>1, <3>2, <4>1, RestoredHeader, HeaderBroken DEF IInv
      <3> QED
        BY <2>1, <3>1, <3>2
    <2>4. TypeOK'
      BY <2>1, <2>2, <2>3
      DEF IInv, TypeOK, DiskTypes, BreakHeader, fileVars, histVars
    <2>5. EntryInv' /\ OpenInv' /\ ResetInv' /\ AppendInv'
      BY <1>0, <2>1, <2>3 DEF IInv, EntryInv, OpenInv, ResetInv, AppendInv, FileLen, histVars
    <2>6. HandleInv'
      BY <2>1, <2>2 DEF HandleInv, Healthy
    <2> QED
      BY <2>3, <2>4, <2>5, <2>6 DEF IInv
  <1> QED
    BY <1>1, <1>2, <1>3, <1>4 DEF Rollback

-----------------------------------------------------------------------------
(* The marker half of reset, which a failure rolls back. *)

\* The first half of reset, up to the durable marker, preserves the invariant.
LEMMA MarkerStep == IInv /\ (ResetBegin \/ MarkerWrite \/ MarkerSync \/ MarkerFails) => IInv'
  <1> SUFFICES ASSUME IInv, ResetBegin \/ MarkerWrite \/ MarkerSync \/ MarkerFails PROVE IInv'
    OBVIOUS
  <1> USE DEF Appending, RollingBack, Marking, Finishing
  <1>0. /\ body \in Bodies /\ WellFormed(body) /\ acked \subseteq body.frames
        /\ hdr \in Headers /\ SoundHeader(hdr) /\ SoundBody(body) /\ handle \in Handles
        /\ handle.end \in Nat /\ handle.id \in Ids \cup {NoId}
        /\ body.valid \in Nat
        /\ body.valid = handle.end /\ body.frames \subseteq acked \cup limbo
        /\ entry = "durable" /\ hdr.k # "none" /\ cur = NoAppend
        /\ pc \in {"idle", "marker_write", "marker_sync"}
    BY DEF IInv, TypeOK, DiskInv, SoundBody, EntryInv, AppendInv, HandleInv, Handles, Bodies,
           Healthy, ResetBegin, MarkerWrite, MarkerSync, MarkerFails
  <1>1. CASE ResetBegin
    <2>1. /\ Healthy /\ asked' = TRUE /\ pc' = "marker_write" /\ nextGen' = nextGen + 1
          /\ UNCHANGED <<fileVars, handle, config, cur, issued, acked, owner, limbo>>
      BY <1>1 DEF ResetBegin
    <2>2. TypeOK'
      BY <2>1 DEF IInv, TypeOK, fileVars
    <2>3. DiskInv'
      BY <2>1 DEF IInv, DiskInv, SoundHeader, SoundBody, WellFormed, fileVars
    <2>4. EntryInv' /\ OpenInv' /\ ResetInv' /\ AppendInv'
      BY <1>0, <2>1
      DEF IInv, EntryInv, OpenInv, ResetInv, AppendInv, FileLen, fileVars
    <2>5. HandleInv'
      BY <2>1 DEF IInv, HandleInv, Healthy, fileVars
    <2> QED
      BY <2>2, <2>3, <2>4, <2>5 DEF IInv
  <1>2. CASE MarkerWrite
    <2> DEFINE t == WithTail(body, Marker(handle.end, handle.id))
    <2>1. /\ t \in Bodies /\ WellFormed(t) /\ t.tail.k = "marker"
          /\ t.frames = body.frames /\ t.valid = body.valid
      BY <1>0, MarkerTail
    <2>2. asked
      BY <1>2 DEF IInv, ResetInv, MarkerWrite
    <2>3. SoundBody(t)
      BY <1>0, <2>1, <2>2 DEF SoundBody
    <2>4. \A x \in {t} \cup {WithTail(body, Junk(n)) : n \in 1..MarkerLen} :
              x \in Bodies /\ SoundBody(x)
      BY <1>0, <2>1, <2>3, JunkSound DEF IInv
    <2>5. DiskInv' /\ DiskTypes'
      BY <1>2, <2>4, BodyWritten DEF IInv, MarkerWrite
    <2>6. /\ body' = t /\ pc = "marker_write" /\ pc' = "marker_sync"
          /\ UNCHANGED <<hdr, entry, procVars, histVars, inherited>>
      BY <1>2 DEF MarkerWrite, WriteBody
    <2> HIDE DEF t
    <2>7. TypeOK'
      BY <2>5, <2>6 DEF IInv, TypeOK, DiskTypes, procVars, histVars
    <2>8. EntryInv' /\ OpenInv' /\ ResetInv' /\ AppendInv'
      BY <1>0, <2>1, <2>2, <2>6
      DEF IInv, EntryInv, OpenInv, ResetInv, AppendInv, procVars, histVars
    <2>9. HandleInv'
      BY <1>0, <2>1, <2>6 DEF IInv, HandleInv, Healthy, procVars, histVars
    <2> QED
      BY <2>5, <2>7, <2>8, <2>9 DEF IInv
  <1>3. CASE MarkerSync
    <2>1. /\ SyncFile /\ body.tail.k = "marker" /\ pc' = "finish_header"
          /\ acked' = {} /\ limbo' = {} /\ asked' = FALSE
          /\ UNCHANGED <<hdr, body, entry, procVars, owner>>
      BY <1>3 DEF IInv, ResetInv, MarkerSync, SyncFile, Forget
    <2>2. SoundHeader(hdr)' /\ SoundBody(body)'
      BY <1>0, <2>1 DEF SoundHeader, SoundBody, WellFormed
    <2>3. DiskInv' /\ DiskTypes'
      BY <2>1, <2>2, Synchronised DEF IInv
    <2>4. TypeOK'
      BY <2>1, <2>3 DEF IInv, TypeOK, DiskTypes, SyncFile, procVars
    <2>5. EntryInv' /\ OpenInv' /\ ResetInv' /\ AppendInv' /\ HandleInv'
      BY <1>0, <2>1
      DEF IInv, EntryInv, OpenInv, ResetInv, AppendInv, HandleInv, Healthy, FileLen, procVars
    <2> QED
      BY <2>3, <2>4, <2>5 DEF IInv
  <1>4. CASE MarkerFails
    <2>1. /\ pc \in Marking /\ pc' = "rollback_truncate" /\ UNCHANGED <<procVars, histVars>>
      BY <1>4 DEF MarkerFails
    <2>2. /\ DiskInv' /\ DiskTypes' /\ UNCHANGED <<hdr, entry>>
          /\ body'.frames = body.frames /\ body'.valid = body.valid
      <3>1. CASE UNCHANGED fileVars
        BY <2>1, <3>1 DEF IInv, TypeOK, DiskTypes, DiskInv, SoundHeader, SoundBody,
                          WellFormed, fileVars, histVars
      <3>2. CASE BreakBody(0..(MarkerLen - 1))
        <4>1. 0..(MarkerLen - 1) \in SUBSET Nat
          OBVIOUS
        <4> QED
          BY <1>0, <2>1, <3>2, <4>1, BodyBroken DEF IInv
      <3> QED
        BY <1>4, <3>1, <3>2 DEF MarkerFails
    <2>3. TypeOK'
      BY <1>4, <2>1, <2>2
      DEF IInv, TypeOK, DiskTypes, MarkerFails, BreakBody, WriteBody, fileVars, procVars, histVars
    <2>4. EntryInv' /\ OpenInv' /\ ResetInv'
      BY <1>0, <2>1, <2>2 DEF IInv, EntryInv, OpenInv, ResetInv, procVars, histVars
    <2>5. AppendInv' /\ HandleInv'
      BY <1>0, <2>1, <2>2 DEF IInv, AppendInv, HandleInv, Healthy, procVars, histVars
    <2> QED
      BY <2>2, <2>3, <2>4, <2>5 DEF IInv
  <1> QED
    BY <1>1, <1>2, <1>3, <1>4

-----------------------------------------------------------------------------
(* finish_committed_reset. *)

\* finish_committed_reset, run by reset or by open, preserves the invariant.
LEMMA FinishStep ==
    IInv /\ (FinishHeader \/ FinishHeaderSync \/ FinishTruncate \/ FinishSync \/ FinishFails)
      => IInv'
  <1> SUFFICES ASSUME IInv,
                      FinishHeader \/ FinishHeaderSync \/ FinishTruncate \/ FinishSync \/ FinishFails
               PROVE IInv'
    OBVIOUS
  <1> USE DEF Appending, RollingBack, Marking, Finishing
  <1>0. /\ body \in Bodies /\ WellFormed(body) /\ acked \subseteq body.frames
        /\ hdr \in Headers /\ SoundHeader(hdr) /\ SoundBody(body) /\ handle \in Handles
        /\ pc \in Finishing /\ hdr.k # "none" /\ cur = NoAppend
        /\ handle # NoHandle => entry = "durable"
    BY DEF IInv, TypeOK, DiskInv, SoundBody, EntryInv, AppendInv,
           FinishHeader, FinishHeaderSync, FinishTruncate, FinishSync, FinishFails
  <1>1. CASE FinishHeader
    <2>1. DiskInv' /\ DiskTypes'
      BY <1>1, HeaderTypes, HeaderWritten DEF IInv, FinishHeader, SoundHeader
    <2>2. /\ hdr' = EmptyHeader /\ pc = "finish_header" /\ pc' = "finish_header_sync"
          /\ UNCHANGED <<body, entry, procVars, histVars, inherited>>
      BY <1>1 DEF FinishHeader, WriteHeader
    <2>3. TypeOK'
      BY <2>1, <2>2 DEF IInv, TypeOK, DiskTypes, procVars, histVars
    <2>4. EntryInv' /\ OpenInv' /\ ResetInv' /\ AppendInv' /\ HandleInv'
      BY <1>0, <2>2, HeaderTypes
      DEF IInv, EntryInv, OpenInv, ResetInv, AppendInv, HandleInv, Healthy, procVars, histVars
    <2> QED
      BY <2>1, <2>3, <2>4 DEF IInv
  <1>2. CASE FinishHeaderSync
    <2>1. /\ SyncFile /\ body.tail.k = "marker" /\ hdr = EmptyHeader
          /\ pc' = "finish_truncate" /\ acked' = {} /\ limbo' = {} /\ asked' = FALSE
          /\ UNCHANGED <<hdr, body, entry, procVars, owner>>
      BY <1>2 DEF IInv, ResetInv, FinishHeaderSync, SyncFile, Forget
    <2>2. SoundHeader(hdr)' /\ SoundBody(body)'
      BY <1>0, <2>1 DEF SoundHeader, SoundBody, WellFormed
    <2>3. DiskInv' /\ DiskTypes'
      BY <2>1, <2>2, Synchronised DEF IInv
    <2>4. TypeOK'
      BY <2>1, <2>3 DEF IInv, TypeOK, DiskTypes, SyncFile, procVars
    <2>5. EntryInv' /\ OpenInv' /\ ResetInv' /\ AppendInv' /\ HandleInv'
      BY <1>0, <2>1
      DEF IInv, EntryInv, OpenInv, ResetInv, AppendInv, HandleInv, Healthy, FileLen, procVars
    <2> QED
      BY <2>3, <2>4, <2>5 DEF IInv
  <1>3. CASE FinishTruncate
    <2> DEFINE t == Truncated(body, HeaderLen)
    <2>1. /\ t \in Bodies /\ WellFormed(t) /\ t.tail = CleanTail
          /\ t.frames = {f \in body.frames : End(f) <= HeaderLen}
          /\ t.valid = (IF HeaderLen < body.valid THEN HeaderLen ELSE body.valid)
      BY <1>0, TruncatedBody
    <2>2. /\ acked = {} /\ hdr = EmptyHeader /\ pc' = "finish_sync" /\ body' = t
          /\ UNCHANGED <<hdr, entry, procVars, histVars, inherited>>
      BY <1>3 DEF IInv, ResetInv, FinishTruncate, WriteBody
    <2>3. WriteBody(t, {})
      BY <1>3 DEF FinishTruncate
    <2> HIDE DEF t
    <2>4. t.frames = {} /\ FileLen(t) = HeaderLen /\ t.tail.k = "clean"
      BY <1>0, <2>1 DEF WellFormed, FileLen, CleanTail, Bodies, Frames, End
    <2>5. SoundBody(t)
      BY <2>1, <2>2, <2>4 DEF SoundBody
    <2>6. DiskInv' /\ DiskTypes'
      BY <2>1, <2>2, <2>3, <2>5, BodyWritten DEF IInv
    <2>7. TypeOK'
      BY <2>2, <2>6 DEF IInv, TypeOK, DiskTypes, procVars, histVars
    <2>8. EntryInv' /\ OpenInv' /\ ResetInv' /\ AppendInv' /\ HandleInv'
      BY <1>0, <2>2, <2>4
      DEF IInv, EntryInv, OpenInv, ResetInv, AppendInv, HandleInv, Healthy, procVars, histVars
    <2> QED
      BY <2>6, <2>7, <2>8 DEF IInv
  <1>4. CASE FinishSync
    <2>1. /\ SyncFile /\ hdr = EmptyHeader /\ acked = {} /\ FileLen(body) = HeaderLen
          /\ pc = "finish_sync"
          /\ UNCHANGED <<hdr, body, entry, config, cur, nextGen, issued, histVars>>
      BY <1>4 DEF IInv, ResetInv, FinishSync, SyncFile
    <2>2. SoundHeader(hdr)' /\ SoundBody(body)' /\ (acked # {} => owner # NoId)'
      BY <1>0, <2>1 DEF SoundHeader, SoundBody, WellFormed, histVars
    <2>3. DiskInv' /\ DiskTypes'
      BY <2>1, <2>2, Synchronised DEF IInv
    <2>4. body.frames = {} /\ body.valid = HeaderLen /\ body.tail.k = "clean"
      BY <1>0, <2>1, NothingBehindHeader
    <2>5. CASE handle = NoHandle
      <3>1. pc' = "sync_root" /\ UNCHANGED handle
        BY <1>4, <2>5 DEF FinishSync
      <3>2. TypeOK'
        BY <2>1, <2>3, <3>1 DEF IInv, TypeOK, DiskTypes, SyncFile, histVars
      <3>3. ValidJournal(hdr, body)
        BY <2>1, HeaderTypes DEF ValidJournal
      <3>4. EntryInv' /\ OpenInv' /\ ResetInv' /\ AppendInv' /\ HandleInv'
        BY <1>0, <2>1, <3>1, <3>3
        DEF IInv, EntryInv, OpenInv, ResetInv, AppendInv, HandleInv, Healthy, ValidJournal,
            FileLen, histVars
      <3> QED
        BY <2>3, <3>2, <3>4 DEF IInv
    <2>6. CASE handle # NoHandle
      <3>1. /\ pc' = "idle"
            /\ handle' = [NoHandle EXCEPT !.end = HeaderLen, !.gen = nextGen - 1]
        BY <1>4, <2>6 DEF FinishSync
      <3>2. handle' \in Handles /\ handle'.end = HeaderLen
        <4>1. handle' = [end |-> HeaderLen, parts |-> {}, gen |-> nextGen - 1, id |-> NoId,
                         poisoned |-> FALSE]
          BY <3>1 DEF NoHandle
        <4>2. nextGen - 1 \in Nat
          BY DEF IInv, TypeOK
        <4>3. handle' \in Handles
          BY <4>1, <4>2 DEF Handles
        <4> QED
          BY <3>1, <4>1, <4>2, <4>3
      <3>3. TypeOK'
        BY <2>1, <2>3, <3>1, <3>2 DEF IInv, TypeOK, DiskTypes, SyncFile, histVars
      <3>4. EntryInv' /\ OpenInv' /\ ResetInv' /\ AppendInv'
        BY <1>0, <2>1, <2>6, <3>1
        DEF IInv, EntryInv, OpenInv, ResetInv, AppendInv, FileLen, histVars
      <3>5. HandleInv'
        BY <2>1, <2>4, <3>1, <3>2 DEF HandleInv, Healthy, histVars
      <3> QED
        BY <2>3, <3>3, <3>4, <3>5 DEF IInv
    <2> QED
      BY <2>5, <2>6
  <1>5. CASE FinishFails
    <2>1. /\ UNCHANGED fileVars \/ BreakHeader(EmptyHeader)
          /\ UNCHANGED <<config, cur, nextGen, issued, histVars>>
          /\ \/ pc' = "down" /\ UNCHANGED handle
             \/ /\ pc' = "idle" /\ entry = "durable"
                /\ handle' = [handle EXCEPT !.poisoned = TRUE]
      BY <1>0, <1>5 DEF FinishFails
    <2>2. handle' \in Handles /\ (pc' = "down" \/ (handle'.poisoned /\ pc' = "idle"))
      BY <1>0, <2>1 DEF Handles
    <2>3. DiskInv' /\ DiskTypes' /\ UNCHANGED <<body, entry>> /\ hdr'.k # "none"
      <3>1. CASE UNCHANGED fileVars
        BY <1>0, <2>1, <3>1 DEF IInv, TypeOK, DiskTypes, DiskInv, SoundHeader, SoundBody,
                                WellFormed, fileVars, histVars
      <3>2. CASE BreakHeader(EmptyHeader)
        <4>1. hdr'.k # "none"
          BY <1>0, <3>2, HeaderTypes, TearShape DEF BreakHeader, fileVars
        <4> QED
          BY <2>1, <3>2, <4>1, HeaderTypes, HeaderBroken DEF IInv
      <3> QED
        BY <2>1, <3>1, <3>2
    <2>4. TypeOK'
      BY <2>1, <2>2, <2>3
      DEF IInv, TypeOK, DiskTypes, BreakHeader, fileVars, histVars
    <2>5. EntryInv' /\ OpenInv' /\ ResetInv' /\ AppendInv'
      BY <1>0, <2>1, <2>2, <2>3
      DEF IInv, EntryInv, OpenInv, ResetInv, AppendInv, FileLen, histVars
    <2>6. HandleInv'
      BY <2>2 DEF HandleInv, Healthy
    <2> QED
      BY <2>3, <2>4, <2>5, <2>6 DEF IInv
  <1> QED
    BY <1>1, <1>2, <1>3, <1>4, <1>5

-----------------------------------------------------------------------------
(* Crashes. *)

\* Every file a power loss may leave is made of a sound header and a sound body.
LEMMA ImagesSound ==
    ASSUME IInv, NEW i \in DiskImages
    PROVE  /\ i.hdr \in Headers /\ SoundHeader(i.hdr)
           /\ i.body \in Bodies /\ SoundBody(i.body) /\ i.body \in diskBodies
           /\ i.hdr.k = "none" => FileLen(i.body) = HeaderLen
  <1>1. PICK h \in diskHdrs, b \in diskBodies : i = [hdr |-> Landed(h, b), body |-> b]
    BY DEF DiskImages
  <1>2. /\ h \in Headers /\ SoundHeader(h) /\ b \in Bodies /\ SoundBody(b) /\ WellFormed(b)
    BY DEF IInv, TypeOK, DiskInv, SoundBody
  <1>3. i.body = b /\ i.hdr = Landed(h, b)
    BY <1>1
  <1>4. Landed(h, b) = h \/ Landed(h, b) = Plain("bad")
    BY DEF Landed
  <1>5. Plain("bad") \in Headers /\ Plain("bad").k = "bad"
    BY DEF Plain, Headers, HeaderKinds
  <1>6. i.hdr.k = "none" => FileLen(b) = HeaderLen
    BY <1>2, <1>3, <1>5 DEF Landed, WellFormed, FileLen, Bodies, Tails
  <1> QED
    BY <1>2, <1>3, <1>4, <1>5, <1>6 DEF SoundHeader

\* A dead process leaves well-typed variables.
LEMMA StopKeepsTypes ==
    ASSUME TypeOK, StopProcess, DiskTypes', inherited' \in BOOLEAN,
           entry' \in {"absent", "volatile", "durable"}
    PROVE  TypeOK'
  <1>1. NoHandle \in Handles
    BY DEF NoHandle, Handles
  <1> QED
    BY <1>1 DEF TypeOK, DiskTypes, StopProcess, histVars

\* The death of the process, or of the machine with any disk image left behind,
\* preserves the invariant.
LEMMA CrashStep == IInv /\ (Kill \/ PowerLoss) => IInv'
  <1> SUFFICES ASSUME IInv, Kill \/ PowerLoss PROVE IInv'
    OBVIOUS
  <1> USE DEF Appending, RollingBack, Marking, Finishing
  <1>1. StopProcess /\ pc' = "down" /\ handle' = NoHandle /\ cur' = NoAppend
        /\ UNCHANGED <<config, histVars>>
    BY DEF Kill, PowerLoss, StopProcess
  <1>2. ResetInv' /\ AppendInv' /\ HandleInv' /\ OpenInv'
    BY <1>1 DEF ResetInv, AppendInv, HandleInv, OpenInv, Healthy
  <1>3. CASE Kill
    <2>1. UNCHANGED fileVars
      BY <1>3 DEF Kill
    <2>2. DiskInv' /\ DiskTypes'
      BY <1>1, <2>1 DEF IInv, TypeOK, DiskTypes, DiskInv, SoundHeader, SoundBody, WellFormed,
                        fileVars, histVars
    <2>3. TypeOK'
      BY <1>1, <2>1, <2>2, StopKeepsTypes DEF IInv, TypeOK, fileVars
    <2>4. EntryInv'
      BY <1>1, <2>1 DEF IInv, EntryInv, FileLen, fileVars, histVars
    <2> QED
      BY <1>2, <2>2, <2>3, <2>4 DEF IInv
  <1>4. CASE PowerLoss
    <2>1. diskHdrs' = {hdr'} /\ diskBodies' = {body'} /\ inherited' = FALSE
      BY <1>4 DEF PowerLoss
    <2>2. /\ hdr' \in Headers /\ SoundHeader(hdr') /\ body' \in Bodies /\ SoundBody(body')
          /\ hdr'.k = "none" => FileLen(body') = HeaderLen
          /\ entry' \in {"absent", "volatile", "durable"}
          /\ entry' # "durable" => acked = {}
      <3>1. CASE /\ entry = "volatile" /\ entry' = "absent"
                 /\ hdr' = Plain("none") /\ body' = EmptyBody
        <4>1. acked = {}
          BY <3>1 DEF IInv, EntryInv
        <4>2. Plain("none") \in Headers /\ SoundHeader(Plain("none"))
          BY DEF Plain, Headers, HeaderKinds, SoundHeader
        <4>3. EmptyBody \in Bodies /\ SoundBody(EmptyBody) /\ FileLen(EmptyBody) = HeaderLen
          BY <4>1 DEF EmptyBody, CleanTail, Bodies, Tails, SoundBody, WellFormed, FileLen
        <4> QED
          BY <3>1, <4>1, <4>2, <4>3
      <3>2. CASE UNCHANGED entry /\ \E i \in DiskImages : hdr' = i.hdr /\ body' = i.body
        BY <3>2, ImagesSound DEF IInv, TypeOK, EntryInv
      <3> QED
        BY <1>4, <3>1, <3>2 DEF PowerLoss
    <2>3. DiskInv' /\ DiskTypes'
      <3>1. SoundHeader(hdr)' /\ SoundBody(body)' /\ (acked # {} => owner # NoId)'
        BY <1>1, <2>2 DEF IInv, DiskInv, SoundHeader, SoundBody, WellFormed, histVars
      <3> QED
        BY <2>1, <2>2, <3>1 DEF DiskInv, DiskTypes
    <2>4. TypeOK'
      BY <1>1, <2>1, <2>2, <2>3, StopKeepsTypes DEF IInv
    <2>5. EntryInv'
      BY <1>1, <2>2 DEF EntryInv, FileLen, histVars
    <2> QED
      BY <1>2, <2>3, <2>4, <2>5 DEF IInv
  <1> QED
    BY <1>3, <1>4

-----------------------------------------------------------------------------
(* The theorems. *)

\* A collector that has never run satisfies the invariant.
LEMMA InitialState == Init => IInv
  <1> SUFFICES ASSUME Init PROVE IInv
    OBVIOUS
  <1>1. Plain("none") \in Headers /\ SoundHeader(Plain("none"))
    BY DEF Plain, Headers, HeaderKinds, SoundHeader, Init
  <1>2. EmptyBody \in Bodies /\ SoundBody(EmptyBody) /\ FileLen(EmptyBody) = HeaderLen
    BY DEF EmptyBody, CleanTail, Bodies, Tails, SoundBody, WellFormed, FileLen, Init
  <1>3. NoHandle \in Handles
    BY DEF NoHandle, Handles
  <1>4. TypeOK
    <2>1. hdr \in Headers /\ diskHdrs \subseteq Headers
      BY <1>1 DEF Init
    <2>2. body \in Bodies /\ diskBodies \subseteq Bodies
      BY <1>2 DEF Init
    <2>3. nextGen \in Nat \ {0}
      BY DEF Init
    <2> QED
      BY <1>3, <2>1, <2>2, <2>3 DEF Init, TypeOK
  <1>5. DiskInv /\ EntryInv
    BY <1>1, <1>2 DEF Init, DiskInv, EntryInv, Appending, RollingBack, Marking
  <1>6. OpenInv /\ ResetInv /\ AppendInv /\ HandleInv
    BY DEF Init, OpenInv, ResetInv, AppendInv, HandleInv, Healthy, Appending, RollingBack, Marking
  <1> QED
    BY <1>4, <1>5, <1>6 DEF IInv

\* So does a step that changes nothing.
LEMMA Stutter == IInv /\ UNCHANGED vars => IInv'
  <1> SUFFICES ASSUME IInv, UNCHANGED vars PROVE IInv'
    OBVIOUS
  <1>1. TypeOK'
    BY DEF IInv, TypeOK, vars, fileVars, procVars, histVars
  <1>2. DiskInv'
    BY DEF IInv, DiskInv, SoundHeader, SoundBody, WellFormed, vars, fileVars, procVars, histVars
  <1>3. EntryInv' /\ OpenInv' /\ ResetInv'
    BY DEF IInv, EntryInv, OpenInv, ResetInv, FileLen, ValidJournal, vars, fileVars, procVars,
           histVars
  <1>4. AppendInv' /\ HandleInv'
    BY DEF IInv, AppendInv, HandleInv, Healthy, FirstAppend, FrameWritten, NextHeader,
           vars, fileVars, procVars, histVars
  <1> QED
    BY <1>1, <1>2, <1>3, <1>4 DEF IInv

\* The invariant above holds of every reachable state, for every set of parts,
\* every length of header, frame and marker, and every configuration.
THEOREM Invariance == Spec => []IInv
  <1>1. IInv /\ [Next]_vars => IInv'
    BY OpenStep, AppendStep, RollbackStep, MarkerStep, FinishStep, CrashStep, Stutter
    DEF Next, Reset
  <1> QED
    BY <1>1, InitialState, PTL DEF Spec

\* The types of all the journal's variables are what Journal.tla declares; in
\* particular no length the code computes by subtraction is negative
\* (u64 offsets in journal.rs, header.rs body_len).
THEOREM TypeCorrect == Spec => []TypeOK
  <1>1. IInv => TypeOK
    BY DEF IInv
  <1> QED
    BY <1>1, Invariance, PTL

\* Whatever a power loss leaves and open accepts, under any configuration, holds
\* every frame whose append returned Ok, and nothing that a rolled-back append
\* wrote; it is empty only if a reset had been asked for.
THEOREM AcknowledgedFramesSurvive == Spec => []NoAcknowledgedFrameLost
  <1>1. IInv => NoAcknowledgedFrameLost
    <2> SUFFICES ASSUME IInv, NEW i \in DiskImages, NEW c \in Configs, Opens(i.hdr, i.body, c)
                 PROVE  LET found == Recovered(i.hdr, i.body)
                        IN  \/ /\ acked \subseteq found
                               /\ found \subseteq acked \cup limbo
                               /\ acked # {} => i.hdr.id = owner
                            \/ asked /\ found = {}
      BY DEF NoAcknowledgedFrameLost
    <2>1. /\ i.hdr \in Headers /\ SoundHeader(i.hdr) /\ i.body \in Bodies /\ SoundBody(i.body)
          /\ WellFormed(i.body) /\ asked \in BOOLEAN
          /\ i.hdr.k = "none" => FileLen(i.body) = HeaderLen
      BY ImagesSound DEF SoundBody, IInv, TypeOK
    <2>2. CASE i.hdr.k = "none"
      <3>1. acked = {} /\ Recovered(i.hdr, i.body) = {}
        BY <2>1, <2>2, NothingBehindHeader DEF SoundBody, Recovered
      <3> QED
        BY <3>1
    <2>3. CASE i.hdr.k # "none" /\ CommittedReset(i.hdr, i.body)
      <3>1. Recovered(i.hdr, i.body) = {} /\ (asked \/ acked = {})
        BY <2>1, <2>3 DEF Recovered, CommittedReset, SoundBody
      <3> QED
        BY <3>1
    <2>4. CASE i.hdr.k # "none" /\ ~CommittedReset(i.hdr, i.body)
      <3>1. ValidJournal(i.hdr, i.body) /\ Recovered(i.hdr, i.body) = i.body.frames
        BY <2>4 DEF Opens, Recovered
      <3>2. CASE i.hdr.k = "active"
        BY <2>1, <3>1, <3>2 DEF ValidJournal, SoundBody, SoundHeader
      <3>3. CASE i.hdr.k = "empty"
        <4>1. i.hdr.len = 0 /\ i.hdr.len = FileLen(i.body) - HeaderLen
          BY <2>1, <3>1, <3>3, HeaderTypes DEF ValidJournal, SoundHeader
        <4>2. FileLen(i.body) = HeaderLen
          BY <2>1, <4>1 DEF FileLen, Bodies, Tails
        <4>3. i.body.frames = {}
          BY <2>1, <4>2, NothingBehindHeader
        <4> QED
          BY <2>1, <3>1, <4>3 DEF SoundBody
      <3> QED
        BY <3>1, <3>2, <3>3 DEF ValidJournal
    <2> QED
      BY <2>2, <2>3, <2>4
  <1> QED
    BY <1>1, Invariance, PTL

\* Even a file that open refuses still contains the bytes of every acknowledged
\* frame: neither append nor rollback nor reset ever truncates one.
THEOREM AcknowledgedBytesPreserved == Spec => []AcknowledgedBytesStayOnDisk
  <1>1. IInv => AcknowledgedBytesStayOnDisk
    BY DEF IInv, DiskInv, SoundBody, AcknowledgedBytesStayOnDisk
  <1> QED
    BY <1>1, Invariance, PTL

\* open synchronises the root directory before it hands out the handle through
\* which a frame could be acknowledged.
THEOREM DirectoryEntryFirst == Spec => []AcknowledgedFileHasDurableEntry
  <1>1. IInv => AcknowledgedFileHasDurableEntry
    BY DEF IInv, EntryInv, AcknowledgedFileHasDurableEntry
  <1> QED
    BY <1>1, Invariance, PTL

=============================================================================
