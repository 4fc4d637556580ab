------------------------------- MODULE Journal -------------------------------
(***************************************************************************)
(* The active journal of the collector, active.wal: one checksummed root   *)
(* header followed by frames, each frame one collection window (a "part"). *)
(* crates/kronika-writer/src/journal.rs, journal/open.rs, journal/reset.rs.*)
(*                                                                         *)
(* Every write, truncation and synchronisation of append, reset, rollback  *)
(* and open is a step of its own, may fail, and may be the last step of    *)
(* the process (Kill) or of the machine (PowerLoss).                       *)
(*                                                                         *)
(* What the file looks like is kept twice.  hdr and body are what a read   *)
(* returns now.  diskHdrs and diskBodies are what the disk may hold: every *)
(* header and body written since the last synchronisation, whole or torn.  *)
(* sync_data leaves one of each; a power loss picks one of each, in any    *)
(* combination, because the kernel may write pages back in any order.      *)
(***************************************************************************)
EXTENDS Integers, FiniteSets

CONSTANTS
    Parts,            \* window payloads (valid ZMS parts)
    PartLen,          \* length of each part
    Ids,              \* segment identities
    NoId,             \* "no identity": Option::None
    Configs,          \* the JournalConfigs a collector may be started with
    HeaderLen,        \* JOURNAL_HEADER_LEN, 36 in the code
    FrameHeaderLen,   \* FRAME_HEADER_LEN, 16 in the code
    MarkerLen,        \* RESET_MARKER_LEN, 32 in the code
    MaxGeneration     \* bound: journal generations of one process

ASSUME LengthsAssumption ==
    /\ HeaderLen \in Nat \ {0}
    /\ FrameHeaderLen \in Nat \ {0}
    /\ MarkerLen \in Nat \ {0}
    /\ MaxGeneration \in Nat
ASSUME PartsAssumption == PartLen \in [Parts -> Nat \ {0}]
ASSUME IdsAssumption == NoId \notin Ids
\* validate_config: the cap covers the header and admits at least one frame count.
ASSUME ConfigsAssumption ==
    /\ Configs \subseteq [maxLen : Nat, maxParts : Nat \ {0}]
    /\ \A c \in Configs : c.maxLen >= HeaderLen

VARIABLES
    hdr,          \* root header as a read sees it
    body,         \* everything behind it as a read sees it
    diskHdrs,     \* headers a power loss may leave
    diskBodies,   \* bodies a power loss may leave
    entry,        \* the directory entry: "absent", "volatile" or "durable"
    pc,           \* the next step of the process that owns the file
    handle,       \* the open Journal value
    config,       \* its JournalConfig
    cur,          \* the append in progress: its frame and identity
    nextGen,      \* NEXT_JOURNAL_GENERATION
    issued,       \* history: part references handed out by this process
    acked,        \* history: frames whose append returned Ok, reset not committed
    owner,        \* history: the identity the acknowledged frames were appended under
    limbo,        \* history: frames whose append was cut short by a failure
    asked,        \* history: reset() was called for the frames now in the file
    inherited     \* history: the process opened a file with writes that its predecessor had
                  \* not synchronised, and has not synchronised it since

fileVars == <<hdr, body, diskHdrs, diskBodies, entry, inherited>>
diskVars == <<diskHdrs, diskBodies, inherited>>
procVars == <<handle, config, cur, nextGen, issued>>
histVars == <<acked, owner, limbo, asked>>
vars == <<fileVars, pc, procVars, histVars>>

-----------------------------------------------------------------------------
(* The file. *)

\* A frame covers [at, at + len).
Frames == [at : Nat, len : Nat, part : Parts]
End(f) == f.at + f.len

\* "active" is a decodable header with an identity and a body length.  "torn" is
\* a prefix of the empty header over that active header.  "bad" fails its
\* checksum.  "none" is a file of length 0, "short" one shorter than a header.
HeaderKinds == {"none", "short", "bad", "empty", "active", "torn"}
Headers == [k : HeaderKinds, id : Ids \cup {NoId}, len : Nat]
Plain(k) == [k |-> k, id |-> NoId, len |-> 0]
EmptyHeader == Plain("empty")
ActiveHeader(id, len) == [k |-> "active", id |-> id, len |-> len]

\* What an interrupted rewrite of old by new leaves in the header region.
Tear(old, new) ==
    IF old = new THEN old
    ELSE IF new = EmptyHeader /\ old.k \in {"active", "torn"}
         THEN [old EXCEPT !.k = "torn"]
    ELSE IF old.k \in {"none", "short"} THEN Plain("short")
    ELSE Plain("bad")

\* frames are the complete valid frames, back to back, up to offset valid;
\* behind them the file may hold a piece of a frame or of a marker ("junk"), or
\* a complete reset marker with the length and identity it records.
Tails == [k : {"clean", "junk", "marker"}, len : Nat, prev : Nat, id : Ids \cup {NoId}]
Bodies == [valid : Nat, frames : SUBSET Frames, tail : Tails]
CleanTail == [k |-> "clean", len |-> 0, prev |-> 0, id |-> NoId]
Junk(n) == [k |-> "junk", len |-> n, prev |-> 0, id |-> NoId]
Marker(prev, id) == [k |-> "marker", len |-> MarkerLen, prev |-> prev, id |-> id]
EmptyBody == [valid |-> HeaderLen, frames |-> {}, tail |-> CleanTail]
FileLen(b) == b.valid + b.tail.len

WithTail(b, t) == [b EXCEPT !.tail = t]
WithFrame(b, f) ==
    [valid |-> End(f), frames |-> b.frames \cup {f}, tail |-> CleanTail]
\* set_len(n), for an n at which a frame (or the header) ends.
Truncated(b, n) ==
    [valid |-> IF n < b.valid THEN n ELSE b.valid,
     frames |-> {f \in b.frames : End(f) <= n},
     tail |-> CleanTail]

\* The files a power loss may leave.  With bytes behind it a header that never
\* reached the disk is a hole of zeros, not a short file.
Landed(h, b) ==
    IF h.k \in {"none", "short"} /\ FileLen(b) > HeaderLen THEN Plain("bad") ELSE h
DiskImages == {[hdr |-> Landed(h, b), body |-> b] : h \in diskHdrs, b \in diskBodies}

-----------------------------------------------------------------------------
(* What Journal::open makes of a file. *)

\* classify_header_transition: the header the marker names, an empty one, or a
\* rewrite of the first by the second that stopped half-way.
HeaderTransition(h, marker) ==
    \/ h = EmptyHeader
    \/ /\ h.k \in {"active", "torn"}
       /\ h.id = marker.id
       /\ h.len = marker.prev - HeaderLen

\* recover_committed_reset: a marker at the very end that names the length in
\* front of it, and frames that reach exactly up to it.
CommittedReset(h, b) ==
    /\ b.tail.k = "marker"
    /\ b.tail.prev = FileLen(b) - MarkerLen
    /\ HeaderTransition(h, b.tail)
    /\ b.frames # {}
    /\ b.valid = b.tail.prev

\* The size checks come first: FileLen against max_journal_len, and the scan's
\* frame count against max_parts.
WithinLimits(b, c) == FileLen(b) <= c.maxLen /\ Cardinality(b.frames) <= c.maxParts

\* The recorded body length must be the actual one, an empty header must have
\* no frames, an active one at least one, and the scan must reach the end.
ValidJournal(h, b) ==
    /\ h.k \in {"empty", "active"}
    /\ h.len = FileLen(b) - HeaderLen
    /\ h.k = "active" => b.tail.k = "clean" /\ b.frames # {}

Opens(h, b, c) ==
    \/ h.k = "none"
    \/ WithinLimits(b, c) /\ (CommittedReset(h, b) \/ ValidJournal(h, b))
Recovered(h, b) == IF h.k = "none" \/ CommittedReset(h, b) THEN {} ELSE b.frames

-----------------------------------------------------------------------------
(* The open Journal. *)

Span(f) == [at |-> f.at, len |-> f.len]
Spans == [at : Nat, len : Nat]
Handles ==
    [end : Nat, parts : SUBSET Spans, gen : Nat, id : Ids \cup {NoId}, poisoned : BOOLEAN]
NoHandle == [end |-> 0, parts |-> {}, gen |-> 0, id |-> NoId, poisoned |-> FALSE]

\* A JournalPartRef, with the part it was issued for (history).
Refs == [at : Nat, len : Nat, gen : Nat, part : Parts]
RefOf(f, gen) == [at |-> f.at, len |-> f.len, gen |-> gen, part |-> f.part]
\* check_part_ref: the generation and the exact span must be the handle's.
Accepts(r) ==
    /\ ~handle.poisoned
    /\ r.gen = handle.gen
    /\ [at |-> r.at, len |-> r.len] \in handle.parts
    /\ r.at + r.len <= handle.end

Healthy == pc = "idle" /\ ~handle.poisoned
FirstAppend == handle.parts = {}

\* current_header, and the header the append in progress installs.
CurrentHeader ==
    IF handle.id = NoId THEN EmptyHeader
    ELSE ActiveHeader(handle.id, handle.end - HeaderLen)
NoAppend == [id |-> NoId]
\* Broken variant: the length difference taken the wrong way round.
NextHeaderUnderflow == ActiveHeader(cur.id, handle.end - End(cur.frame))
NextHeader == ActiveHeader(cur.id, End(cur.frame) - HeaderLen)

-----------------------------------------------------------------------------
(* Elementary writes. *)

WriteHeader(new) ==
    /\ hdr' = new
    /\ diskHdrs' = diskHdrs \cup {new} \cup {Tear(h, new) : h \in diskHdrs}
    /\ UNCHANGED <<body, diskBodies, entry, inherited>>
\* write_all returned an error after some of the bytes, or before the first.
BreakHeader(new) ==
    \/ UNCHANGED fileVars
    \/ /\ hdr' = Tear(hdr, new)
       /\ diskHdrs' = diskHdrs \cup {Tear(h, new) : h \in diskHdrs}
       /\ UNCHANGED <<body, diskBodies, entry, inherited>>
WriteBody(b, torn) ==
    /\ body' = b
    /\ diskBodies' = diskBodies \cup {b} \cup torn
    /\ UNCHANGED <<hdr, diskHdrs, entry, inherited>>
\* The tail is left with n bytes of what was being written.
BreakBody(lens) ==
    \E n \in lens :
        IF n = 0 THEN UNCHANGED fileVars
        ELSE WriteBody(WithTail(body, Junk(n)), {WithTail(body, Junk(m)) : m \in 1..n})
SyncFile ==
    /\ diskHdrs' = {hdr}
    /\ diskBodies' = {body}
    /\ inherited' = FALSE
    /\ UNCHANGED <<hdr, body, entry>>

-----------------------------------------------------------------------------
(* Journal::open. *)

\* Takes the config, creates a missing file, and picks the branch.  A refused
\* open changes nothing and leaves the process down.
OpenFile(c) ==
    /\ pc = "down"
    /\ Opens(hdr, body, c)
    /\ config' = c
    /\ entry' = IF entry = "absent" THEN "volatile" ELSE entry
    /\ pc' = IF hdr.k = "none" THEN "init_write"
             ELSE IF CommittedReset(hdr, body) THEN "finish_header"
             ELSE "sync_root"
    /\ inherited' = (diskHdrs # {hdr} \/ diskBodies # {body})
    /\ UNCHANGED <<hdr, body, diskHdrs, diskBodies, handle, cur, nextGen, issued, histVars>>

InitWrite ==
    /\ pc = "init_write"
    /\ WriteHeader(EmptyHeader)
    /\ pc' = "init_sync"
    /\ UNCHANGED <<procVars, histVars>>

InitSync ==
    /\ pc = "init_sync"
    /\ SyncFile
    /\ pc' = "sync_root"
    /\ UNCHANGED <<procVars, histVars>>

\* Broken variant: the handle is built without synchronising the root directory.
SyncRootSkipped ==
    /\ pc = "sync_root"
    /\ handle' = [end |-> FileLen(body), parts |-> {Span(f) : f \in body.frames},
                  gen |-> nextGen, id |-> hdr.id, poisoned |-> FALSE]
    /\ nextGen' = nextGen + 1
    /\ issued' = {RefOf(f, nextGen) : f \in body.frames}
    /\ pc' = "idle"
    /\ UNCHANGED <<fileVars, config, cur, histVars>>

\* The last step of open: the root directory is synchronised, then the handle
\* is built from the validated file.
SyncRoot ==
    /\ pc = "sync_root"
    /\ entry' = "durable"
    /\ handle' = [end |-> FileLen(body), parts |-> {Span(f) : f \in body.frames},
                  gen |-> nextGen, id |-> hdr.id, poisoned |-> FALSE]
    /\ nextGen' = nextGen + 1
    /\ issued' = {RefOf(f, nextGen) : f \in body.frames}
    /\ pc' = "idle"
    /\ UNCHANGED <<hdr, body, diskVars, config, cur, histVars>>

\* An I/O error while opening ends the process; what was written stays.
OpenFails ==
    /\ \/ pc \in {"init_sync", "sync_root"} /\ UNCHANGED fileVars
       \/ pc = "init_write" /\ BreakHeader(EmptyHeader)
    /\ pc' = "down"
    /\ UNCHANGED <<procVars, histVars>>

-----------------------------------------------------------------------------
(* Journal::append.  The rejections (Poisoned, SegmentIdMismatch, TooManyParts, *)
(* Full) change nothing; the guards are their negations.                        *)

\* Broken variant: no space reserved for the reset marker.
AdmitsToTheBrim(id, p) ==
    /\ handle.id = NoId \/ handle.id = id
    /\ Cardinality(handle.parts) < config.maxParts
    /\ handle.end + FrameHeaderLen + PartLen[p] <= config.maxLen

Admits(id, p) ==
    /\ handle.id = NoId \/ handle.id = id
    /\ Cardinality(handle.parts) < config.maxParts
    /\ handle.end + FrameHeaderLen + PartLen[p] + MarkerLen <= config.maxLen

AppendBegin(id, p) ==
    /\ Healthy
    /\ Admits(id, p)
    /\ cur' = [frame |-> [at |-> handle.end, len |-> FrameHeaderLen + PartLen[p], part |-> p],
               id |-> id]
    /\ limbo' = limbo \cup {cur'.frame}
    /\ pc' = IF FirstAppend THEN "append_header" ELSE "append_frame"
    /\ UNCHANGED <<fileVars, handle, config, nextGen, issued, acked, owner, asked>>

\* The first append writes header, frame; later ones frame, header.
AppendHeader ==
    /\ pc = "append_header"
    /\ WriteHeader(NextHeader)
    /\ pc' = IF FirstAppend THEN "append_frame" ELSE "append_sync"
    /\ UNCHANGED <<procVars, histVars>>

AppendFrame ==
    /\ pc = "append_frame"
    /\ WriteBody(WithTail(body, Junk(FrameHeaderLen)),
                 {WithTail(body, Junk(n)) : n \in 1..FrameHeaderLen})
    /\ pc' = "append_body"
    /\ UNCHANGED <<procVars, histVars>>

AppendBody ==
    /\ pc = "append_body"
    /\ WriteBody(WithFrame(body, cur.frame),
                 {WithTail(body, Junk(n)) : n \in 1..cur.frame.len})
    /\ pc' = IF FirstAppend THEN "append_sync" ELSE "append_header"
    /\ UNCHANGED <<procVars, histVars>>

\* Broken variant: the append returns Ok without sync_data.
AppendUnsynced ==
    /\ pc = "append_sync"
    /\ handle' = [handle EXCEPT !.end = End(cur.frame),
                                !.parts = @ \cup {Span(cur.frame)},
                                !.id = cur.id]
    /\ issued' = issued \cup {RefOf(cur.frame, handle.gen)}
    /\ acked' = acked \cup {cur.frame} \cup (limbo \cap body.frames)
    /\ owner' = cur.id
    /\ limbo' = {}
    /\ asked' = FALSE
    /\ cur' = NoAppend
    /\ pc' = "idle"
    /\ UNCHANGED <<fileVars, config, nextGen>>

AppendSync ==
    /\ pc = "append_sync"
    /\ SyncFile
    /\ handle' = [handle EXCEPT !.end = End(cur.frame),
                                !.parts = @ \cup {Span(cur.frame)},
                                !.id = cur.id]
    /\ issued' = issued \cup {RefOf(cur.frame, handle.gen)}
    /\ acked' = acked \cup {cur.frame} \cup (limbo \cap body.frames)
    /\ owner' = cur.id
    /\ limbo' = {}
    /\ asked' = FALSE
    /\ cur' = NoAppend
    /\ pc' = "idle"
    /\ UNCHANGED <<config, nextGen>>

\* Broken variant: a failed append is not rolled back.
AppendFailsUnrolled ==
    /\ \/ pc = "append_header" /\ BreakHeader(NextHeader)
       \/ pc = "append_frame" /\ BreakBody(0..(FrameHeaderLen - 1))
       \/ pc = "append_body" /\ BreakBody(FrameHeaderLen..(cur.frame.len - 1))
       \/ pc = "append_sync" /\ UNCHANGED fileVars
    /\ pc' = "idle"
    /\ cur' = NoAppend
    /\ UNCHANGED <<handle, config, nextGen, issued, histVars>>

AppendFails ==
    /\ \/ pc = "append_header" /\ BreakHeader(NextHeader)
       \/ pc = "append_frame" /\ BreakBody(0..(FrameHeaderLen - 1))
       \/ pc = "append_body" /\ BreakBody(FrameHeaderLen..(cur.frame.len - 1))
       \/ pc = "append_sync" /\ UNCHANGED fileVars
    /\ pc' = "rollback_truncate"
    /\ UNCHANGED <<procVars, histVars>>

-----------------------------------------------------------------------------
(* rollback, shared by append and by the marker half of reset. *)

\* Broken variant: the rollback truncates to the header instead of to the end.
RollbackToHeader ==
    /\ pc = "rollback_truncate"
    /\ WriteBody(Truncated(body, HeaderLen), {})
    /\ pc' = "rollback_header"
    /\ UNCHANGED <<procVars, histVars>>

RollbackTruncate ==
    /\ pc = "rollback_truncate"
    /\ WriteBody(Truncated(body, handle.end), {})
    /\ pc' = "rollback_header"
    /\ UNCHANGED <<procVars, histVars>>

\* Broken variant: the rollback leaves the header the append installed.
RollbackKeepsHeader ==
    /\ pc = "rollback_header"
    /\ pc' = "rollback_sync"
    /\ UNCHANGED <<fileVars, procVars, histVars>>

RollbackHeader ==
    /\ pc = "rollback_header"
    /\ WriteHeader(CurrentHeader)
    /\ pc' = "rollback_sync"
    /\ UNCHANGED <<procVars, histVars>>

\* Broken variant: the rollback is not synchronised.
RollbackUnsynced ==
    /\ pc = "rollback_sync"
    /\ limbo' = IF cur = NoAppend THEN limbo ELSE limbo \ {cur.frame}
    /\ asked' = FALSE
    /\ cur' = NoAppend
    /\ pc' = "idle"
    /\ UNCHANGED <<fileVars, handle, config, nextGen, issued, acked, owner>>

\* The caller gets Err(Io): the append or the reset has not happened.
RollbackSync ==
    /\ pc = "rollback_sync"
    /\ SyncFile
    /\ limbo' = IF cur = NoAppend THEN limbo ELSE limbo \ {cur.frame}
    /\ asked' = FALSE
    /\ cur' = NoAppend
    /\ pc' = "idle"
    /\ UNCHANGED <<handle, config, nextGen, issued, acked, owner>>

\* RollbackFailed: the handle is poisoned and the file is left as it is.
RollbackFails ==
    /\ \/ pc \in {"rollback_truncate", "rollback_sync"} /\ UNCHANGED fileVars
       \/ pc = "rollback_header" /\ BreakHeader(CurrentHeader)
    /\ handle' = [handle EXCEPT !.poisoned = TRUE]
    /\ cur' = NoAppend
    /\ pc' = "idle"
    /\ UNCHANGED <<config, nextGen, issued, histVars>>

-----------------------------------------------------------------------------
(* Journal::reset, and finish_committed_reset, which open also runs. *)

\* The generation of the next journal is taken first, used or not.
ResetBegin ==
    /\ Healthy
    /\ handle.parts # {}
    /\ handle.end + MarkerLen <= config.maxLen
    /\ nextGen < MaxGeneration
    /\ nextGen' = nextGen + 1
    /\ asked' = TRUE
    /\ pc' = "marker_write"
    /\ UNCHANGED <<fileVars, handle, config, cur, issued, acked, owner, limbo>>

MarkerWrite ==
    /\ pc = "marker_write"
    /\ WriteBody(WithTail(body, Marker(handle.end, handle.id)),
                 {WithTail(body, Junk(n)) : n \in 1..MarkerLen})
    /\ pc' = "marker_sync"
    /\ UNCHANGED <<procVars, histVars>>

\* From here on the frames are gone, whatever happens next.
Forget == acked' = {} /\ limbo' = {} /\ asked' = FALSE /\ UNCHANGED owner

\* Broken variant: marker and empty header share one synchronisation.
MarkerUnsynced ==
    /\ pc = "marker_sync"
    /\ Forget
    /\ pc' = "finish_header"
    /\ UNCHANGED <<fileVars, procVars>>

MarkerSync ==
    /\ pc = "marker_sync"
    /\ SyncFile
    /\ Forget
    /\ pc' = "finish_header"
    /\ UNCHANGED procVars

MarkerFails ==
    /\ \/ pc = "marker_write" /\ BreakBody(0..(MarkerLen - 1))
       \/ pc = "marker_sync" /\ UNCHANGED fileVars
    /\ pc' = "rollback_truncate"
    /\ UNCHANGED <<procVars, histVars>>

FinishHeader ==
    /\ pc = "finish_header"
    /\ WriteHeader(EmptyHeader)
    /\ pc' = "finish_header_sync"
    /\ UNCHANGED <<procVars, histVars>>

FinishHeaderSync ==
    /\ pc = "finish_header_sync"
    /\ SyncFile
    /\ Forget
    /\ pc' = "finish_truncate"
    /\ UNCHANGED procVars

FinishTruncate ==
    /\ pc = "finish_truncate"
    /\ WriteBody(Truncated(body, HeaderLen), {})
    /\ pc' = "finish_sync"
    /\ UNCHANGED <<procVars, histVars>>

\* Broken variant: the handle keeps its generation across a reset.
FinishKeepsGeneration ==
    /\ pc = "finish_sync"
    /\ SyncFile
    /\ IF handle = NoHandle
       THEN pc' = "sync_root" /\ UNCHANGED handle
       ELSE /\ pc' = "idle"
            /\ handle' = [NoHandle EXCEPT !.end = HeaderLen, !.gen = handle.gen]
    /\ UNCHANGED <<config, cur, nextGen, issued, histVars>>

FinishSync ==
    /\ pc = "finish_sync"
    /\ SyncFile
    /\ IF handle = NoHandle
       THEN pc' = "sync_root" /\ UNCHANGED handle
       ELSE /\ pc' = "idle"
            /\ handle' = [NoHandle EXCEPT !.end = HeaderLen, !.gen = nextGen - 1]
    /\ UNCHANGED <<config, cur, nextGen, issued, histVars>>

\* Broken variant: a reset that could not be finished leaves the handle usable.
FinishFailsUnpoisoned ==
    /\ \/ pc = "finish_header" /\ BreakHeader(EmptyHeader)
       \/ pc \in {"finish_header_sync", "finish_truncate", "finish_sync"} /\ UNCHANGED fileVars
    /\ pc' = IF handle = NoHandle THEN "down" ELSE "idle"
    /\ UNCHANGED <<handle, config, cur, nextGen, issued, histVars>>

\* ResetIncomplete poisons an open handle; in open the process ends.
FinishFails ==
    /\ \/ pc = "finish_header" /\ BreakHeader(EmptyHeader)
       \/ pc \in {"finish_header_sync", "finish_truncate", "finish_sync"} /\ UNCHANGED fileVars
    /\ IF handle = NoHandle
       THEN pc' = "down" /\ UNCHANGED handle
       ELSE pc' = "idle" /\ handle' = [handle EXCEPT !.poisoned = TRUE]
    /\ UNCHANGED <<config, cur, nextGen, issued, histVars>>

-----------------------------------------------------------------------------
(* The environment. *)

StopProcess ==
    /\ pc' = "down"
    /\ handle' = NoHandle
    /\ cur' = NoAppend
    /\ nextGen' = 1
    /\ issued' = {}
    /\ UNCHANGED <<config, histVars>>

\* The process dies or is stopped: memory is lost, the page cache is not.
Kill ==
    /\ pc # "down"
    /\ StopProcess
    /\ UNCHANGED fileVars

\* The machine dies: the file becomes one of the images the disk may hold.
PowerLoss ==
    /\ StopProcess
    /\ \/ /\ entry = "volatile"
          /\ entry' = "absent"
          /\ hdr' = Plain("none")
          /\ body' = EmptyBody
       \/ /\ UNCHANGED entry
          /\ \E i \in DiskImages : hdr' = i.hdr /\ body' = i.body
    /\ diskHdrs' = {hdr'}
    /\ diskBodies' = {body'}
    /\ inherited' = FALSE

Init ==
    /\ hdr = Plain("none")
    /\ body = EmptyBody
    /\ diskHdrs = {hdr}
    /\ diskBodies = {body}
    /\ entry = "absent"
    /\ pc = "down"
    /\ handle = NoHandle
    /\ config \in Configs
    /\ cur = NoAppend
    /\ nextGen = 1
    /\ issued = {}
    /\ acked = {}
    /\ owner = NoId
    /\ limbo = {}
    /\ asked = FALSE
    /\ inherited = FALSE

Open == (\E c \in Configs : OpenFile(c)) \/ InitWrite \/ InitSync \/ SyncRoot \/ OpenFails
AppendNext ==
    \/ \E id \in Ids, p \in Parts : AppendBegin(id, p)
    \/ AppendHeader \/ AppendFrame \/ AppendBody \/ AppendSync \/ AppendFails
Rollback == RollbackTruncate \/ RollbackHeader \/ RollbackSync \/ RollbackFails
Reset ==
    \/ ResetBegin \/ MarkerWrite \/ MarkerSync \/ MarkerFails
    \/ FinishHeader \/ FinishHeaderSync \/ FinishTruncate \/ FinishSync \/ FinishFails

Next == Open \/ AppendNext \/ Rollback \/ Reset \/ Kill \/ PowerLoss

Spec == Init /\ [][Next]_vars

-----------------------------------------------------------------------------
(* Properties. *)

TypeOK ==
    /\ hdr \in Headers /\ diskHdrs \subseteq Headers
    /\ body \in Bodies /\ diskBodies \subseteq Bodies
    /\ entry \in {"absent", "volatile", "durable"}
    /\ pc \in {"down", "init_write", "init_sync", "sync_root", "idle",
               "append_header", "append_frame", "append_body", "append_sync",
               "rollback_truncate", "rollback_header", "rollback_sync",
               "marker_write", "marker_sync",
               "finish_header", "finish_header_sync", "finish_truncate", "finish_sync"}
    /\ handle \in Handles
    /\ config \in Configs
    /\ cur \in [frame : Frames, id : Ids] \cup {NoAppend}
    /\ nextGen \in Nat \ {0}
    /\ issued \subseteq Refs
    /\ acked \subseteq Frames /\ limbo \subseteq Frames
    /\ owner \in Ids \cup {NoId}
    /\ asked \in BOOLEAN /\ inherited \in BOOLEAN

\* Whatever a power loss leaves, a later open that accepts it (under any
\* config) finds every acknowledged frame, at its place and under its segment,
\* and nothing but frames that were acknowledged or cut short; or it finds the
\* journal empty, and then a reset had been asked for.  A failed append that was
\* rolled back leaves no trace.  (append, reset, rollback, open.)
NoAcknowledgedFrameLost ==
    \A i \in DiskImages, c \in Configs :
        LET found == Recovered(i.hdr, i.body)
        IN  Opens(i.hdr, i.body, c) =>
                \/ /\ acked \subseteq found
                   /\ found \subseteq acked \cup limbo
                   /\ acked # {} => i.hdr.id = owner
                \/ asked /\ found = {}

\* A file that open refuses is not a lost file: the bytes of every acknowledged
\* frame are still in it ("Refuse startup and preserve active.wal").
AcknowledgedBytesStayOnDisk == \A b \in diskBodies : acked \subseteq b.frames

\* Frames are only ever acknowledged into a file whose directory entry survives.
AcknowledgedFileHasDurableEntry == entry # "durable" => acked = {}

\* Between operations, after any sequence of failures and rollbacks, the handle
\* describes exactly what a fresh open of the file would find.
HandleMatchesFile ==
    Healthy =>
        /\ ~CommittedReset(hdr, body)
        /\ ValidJournal(hdr, body)
        /\ handle.end = FileLen(body)
        /\ handle.parts = {Span(f) : f \in body.frames}
        /\ handle.id = hdr.id

\* A process that stops anywhere inside a call, or after one failed for good,
\* leaves a file that open refuses, or that shows the journal before the call or
\* after it: an append adds its own frame at the old end and no other, a reset
\* takes all.
StoppedCallIsAllOrNothing ==
    handle # NoHandle /\ Opens(hdr, body, config) =>
        LET found == {Span(f) : f \in Recovered(hdr, body)}
        IN  \/ found = handle.parts
            \/ \E s \in found : s.at = handle.end /\ found = handle.parts \cup {s}
            \/ found = {} /\ (asked \/ acked = {})

\* A crash between two operations never blocks a restart: unless the process
\* found writes its predecessor had left unsynchronised, every image on disk
\* opens again under the same config and gives back exactly what the handle holds.
QuietCrashReopens ==
    Healthy /\ ~inherited =>
        \A i \in DiskImages :
            /\ Opens(i.hdr, i.body, config)
            /\ {Span(f) : f \in Recovered(i.hdr, i.body)} = handle.parts

\* Once reset() has made its marker durable, a crash at any of the remaining
\* steps never blocks a restart: every image opens, and opens empty.
ResetSurvivesCrash ==
    pc \in {"finish_header", "finish_header_sync", "finish_truncate", "finish_sync"}
      /\ handle # NoHandle =>
        \A i \in DiskImages :
            Opens(i.hdr, i.body, config) /\ Recovered(i.hdr, i.body) = {}

\* The same of the reset that open finishes for a predecessor
\* (docs/storage-recovery.md: "Verified interrupted journal reset | Finish the
\* reset.").
FinishedResetSurvivesCrash ==
    pc \in {"finish_header", "finish_header_sync", "finish_truncate", "finish_sync"} =>
        \A i \in DiskImages : Opens(i.hdr, i.body, config)

\* A part reference the handle accepts reads the part it was issued for, however
\* many resets and appends reused its offset since (JournalPartRef.generation).
AcceptedRefReadsItsPart ==
    pc = "idle" =>
        \A r \in issued :
            Accepts(r) => \E f \in body.frames : Span(f) = [at |-> r.at, len |-> r.len]
                                                 /\ f.part = r.part

\* A journal that holds frames has room for the reset marker, so that what was
\* published can be cleared ("Every append, including the first one, reserves
\* space for that marker").
ResetAlwaysHasRoom ==
    Healthy /\ handle.parts # {} => handle.end + MarkerLen <= config.maxLen

=============================================================================
