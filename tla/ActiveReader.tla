---------------------------- MODULE ActiveReader ----------------------------
(***************************************************************************)
(* Reading a data directory while the collector writes it: a listing scans *)
(* active.wal, then the tree of finished segments, opens a snapshot of the *)
(* active prefix it scanned, and reads parts of it later.                  *)
(* crates/kronika-store/src/local*, crates/kronika-reader/src/discovery.rs,*)
(* crates/kronika-query/src/hour.rs (pages of one listing).                *)
(*                                                                         *)
(* No lock is shared with the collector: each read of active.wal is a step *)
(* of its own, and any step of the collector may fall between two.  The    *)
(* collector's side shows active.wal as readers see it; Journal has its    *)
(* crashes and SegmentStore its publications.  A collector that stops is   *)
(* one that takes no further step.                                         *)
(*                                                                         *)
(* The file behind its header is a sequence of cells: a frame is its       *)
(* header cell and the cells of its body, a reset marker is one cell.      *)
(***************************************************************************)
EXTENDS Integers, Sequences, SequencesExt

CONSTANTS
    MaxWindow,  \* bound: windows the collector appends
    MaxId,      \* bound: segments
    MaxParts,   \* windows of one segment
    Lens,       \* lengths of a part, in cells
    Budget      \* bound: appends and resets that fail

Windows == 1..MaxWindow
Ids == 1..MaxId
NoId == 0
NoWindow == 0

ASSUME BoundsAssumption == MaxWindow \in Nat /\ MaxId \in Nat /\ Budget \in Nat
ASSUME PartsAssumption == MaxParts \in Nat \ {0} /\ Lens \subseteq Nat \ {0}

VARIABLES
    hdr,        \* the root header: an identity, or NoId for an empty one, and a length
    cells,      \* active.wal behind it
    finished,   \* the finished segments: the windows of each, << >> for none
    wpc,        \* the next step of the collector
    handle,     \* its Journal: identity, length, and the windows it holds
    cur,        \* its append in progress
    nextWindow, \* the next window
    lastId,     \* the identity last taken from the clock
    left,       \* calls that may still fail
    acked,      \* history: windows whose append returned Ok
    undone,     \* history: windows whose append was rolled back
    home,       \* history: the identity each window was appended under
    rpc,        \* the next step of the reader
    seen,       \* the file length and root header it has read last
    scan,       \* its scan of active.wal: JournalScan, then ActiveSnapshot
    tree,       \* its scan of the finished segments: where it looked, what it found
    warned,     \* the listing carries a warning
    part,       \* the part being read, and the cells read of it
    cursor,     \* the position an earlier page was read to: ActiveCursor
    known,      \* history: windows acknowledged before the listing began
    promise     \* history: the parts the snapshot stands for

fileVars == <<hdr, cells, finished>>
writerVars == <<wpc, handle, cur, nextWindow, lastId, left, acked, undone, home>>
readerVars == <<rpc, seen, scan, tree, warned, part, cursor, known, promise>>
vars == <<fileVars, writerVars, readerVars>>

-----------------------------------------------------------------------------
(* active.wal. *)

\* Cell k of the frame of window w, whose body has n cells; cell 0 is its header.
Frame(w, n) == [i \in 1..(n + 1) |-> [w |-> w, k |-> i - 1, n |-> n]]
\* A reset marker: the length in front of it, and the identity.
Marker(prev, id) == [w |-> NoWindow, k |-> prev, n |-> id]

Empty == [id |-> NoId, len |-> 0]
NoHandle == [id |-> NoId, end |-> 0, windows |-> << >>]
NoAppend == [w |-> NoWindow, n |-> 0, id |-> NoId]

\* committed_reset_plan: the file ends with a marker that names the length in
\* front of it and the header before it, or an empty one.
CommittedReset(h, len, cell) ==
    /\ len > 1
    /\ cell.w = NoWindow
    /\ cell.k = len - 1
    /\ h \in {Empty, [id |-> cell.n, len |-> cell.k]}

-----------------------------------------------------------------------------
(* The collector: Journal::append, rollback, publish_journal, Journal::reset. *)

Fails == left > 0 /\ left' = left - 1

\* The first window of a segment takes its identity from the clock.
AppendBegin ==
    /\ wpc = "idle"
    /\ nextWindow \in Windows
    /\ Len(handle.windows) < MaxParts
    /\ handle.id = NoId => lastId < MaxId
    /\ \E n \in Lens :
          cur' = [w |-> nextWindow, n |-> n,
                  id |-> IF handle.id = NoId THEN lastId + 1 ELSE handle.id]
    /\ home' = [home EXCEPT ![nextWindow] = cur'.id]
    /\ lastId' = cur'.id
    /\ nextWindow' = nextWindow + 1
    /\ wpc' = IF handle.windows = << >> THEN "header" ELSE "frame"
    /\ UNCHANGED <<fileVars, handle, left, acked, undone, readerVars>>

\* The first append writes the header first, later ones write it last.
AppendHeader ==
    /\ wpc = "header"
    /\ hdr' = [id |-> cur.id, len |-> handle.end + cur.n + 1]
    /\ wpc' = IF handle.windows = << >> THEN "frame" ELSE "sync"
    /\ UNCHANGED <<cells, finished, handle, cur, nextWindow, lastId, left, acked, undone, home,
                   readerVars>>

AppendFrame ==
    /\ wpc = "frame"
    /\ cells' = Append(cells, Frame(cur.w, cur.n)[1])
    /\ wpc' = "body"
    /\ UNCHANGED <<hdr, finished, handle, cur, nextWindow, lastId, left, acked, undone, home,
                   readerVars>>

AppendBody ==
    /\ wpc = "body"
    /\ cells' = cells \o Tail(Frame(cur.w, cur.n))
    /\ wpc' = IF handle.windows = << >> THEN "sync" ELSE "header"
    /\ UNCHANGED <<hdr, finished, handle, cur, nextWindow, lastId, left, acked, undone, home,
                   readerVars>>

AppendSync ==
    /\ wpc = "sync"
    /\ handle' = [id |-> cur.id, end |-> handle.end + cur.n + 1,
                  windows |-> Append(handle.windows, cur.w)]
    /\ acked' = acked \cup {cur.w}
    /\ cur' = NoAppend
    /\ wpc' = "idle"
    /\ UNCHANGED <<fileVars, nextWindow, lastId, left, undone, home, readerVars>>

AppendFails ==
    /\ wpc \in {"header", "frame", "body", "sync"}
    /\ Fails
    /\ wpc' = "rollback_truncate"
    /\ UNCHANGED <<fileVars, handle, cur, nextWindow, lastId, acked, undone, home, readerVars>>

RollbackTruncate ==
    /\ wpc = "rollback_truncate"
    /\ cells' = SubSeq(cells, 1, handle.end)
    /\ wpc' = "rollback_header"
    /\ UNCHANGED <<hdr, finished, handle, cur, nextWindow, lastId, left, acked, undone, home,
                   readerVars>>

\* The caller drops the window and goes on, or exits: a failed reset is
\* repeated by the next start.
RollbackHeader ==
    /\ wpc = "rollback_header"
    /\ hdr' = [id |-> handle.id, len |-> handle.end]
    /\ undone' = undone \cup ({cur.w} \ {NoWindow})
    /\ wpc' = IF cur = NoAppend THEN "publish" ELSE "idle"
    /\ cur' = NoAppend
    /\ UNCHANGED <<cells, finished, handle, nextWindow, lastId, left, acked, home, readerVars>>

Close ==
    /\ wpc = "idle"
    /\ handle.windows # << >>
    /\ wpc' = "publish"
    /\ UNCHANGED <<fileVars, handle, cur, nextWindow, lastId, left, acked, undone, home,
                   readerVars>>

\* write_segment links the segment under its final name.
Publish ==
    /\ wpc = "publish"
    /\ finished' = [finished EXCEPT ![handle.id] = handle.windows]
    /\ wpc' = "marker"
    /\ UNCHANGED <<hdr, cells, handle, cur, nextWindow, lastId, left, acked, undone, home,
                   readerVars>>

ResetMarker ==
    /\ wpc = "marker"
    /\ cells' = Append(cells, Marker(handle.end, handle.id))
    /\ wpc' = "empty_header"
    /\ UNCHANGED <<hdr, finished, handle, cur, nextWindow, lastId, left, acked, undone, home,
                   readerVars>>

\* The marker could not be synchronised.
ResetFails ==
    /\ wpc = "empty_header"
    /\ Fails
    /\ wpc' = "rollback_truncate"
    /\ UNCHANGED <<fileVars, handle, cur, nextWindow, lastId, acked, undone, home, readerVars>>

ResetHeader ==
    /\ wpc = "empty_header"
    /\ hdr' = Empty
    /\ wpc' = "truncate"
    /\ UNCHANGED <<cells, finished, handle, cur, nextWindow, lastId, left, acked, undone, home,
                   readerVars>>

ResetTruncate ==
    /\ wpc = "truncate"
    /\ cells' = << >>
    /\ handle' = NoHandle
    /\ wpc' = "idle"
    /\ UNCHANGED <<hdr, finished, cur, nextWindow, lastId, left, acked, undone, home, readerVars>>

-----------------------------------------------------------------------------
(* The reader. *)

End(p) == p.at + p.n + 1
Body(p) == p.at + 1
WindowsOf(parts) == [i \in DOMAIN parts |-> parts[i].w]

Unseen == [at |-> "len", len |-> 0, hdr |-> Empty, reset |-> FALSE]
NoScan == [id |-> NoId, len |-> 0, reset |-> FALSE, pos |-> 0, parts |-> << >>]
NoTree == [looked |-> {}, found |-> {}]
NoPart == [i |-> 0, got |-> << >>]
NoCursor == [id |-> NoId, position |-> 0, parts |-> << >>]

\* The request is over, answered or failed.
Over ==
    /\ rpc' = "idle"
    /\ seen' = Unseen /\ scan' = NoScan /\ tree' = NoTree /\ warned' = FALSE
    /\ part' = NoPart /\ known' = {} /\ promise' = << >>

Begin ==
    /\ rpc = "idle"
    /\ rpc' = "plan"
    /\ known' = acked
    /\ UNCHANGED <<fileVars, writerVars, seen, scan, tree, warned, part, cursor, promise>>

\* read_journal_plan and validate_active_snapshot read the length, the header
\* and, at the end of that length, what may be a marker.
ReadLen ==
    /\ rpc \in {"plan", "open", "before", "after"}
    /\ seen.at = "len"
    /\ seen' = [Unseen EXCEPT !.at = "header", !.len = Len(cells)]
    /\ UNCHANGED <<fileVars, writerVars, rpc, scan, tree, warned, part, cursor, known, promise>>

ReadHeader ==
    /\ seen.at = "header"
    /\ seen' = [seen EXCEPT !.at = IF seen.len > 1 THEN "marker" ELSE "done", !.hdr = hdr]
    /\ UNCHANGED <<fileVars, writerVars, rpc, scan, tree, warned, part, cursor, known, promise>>

ReadMarker ==
    /\ seen.at = "marker"
    /\ seen' = IF seen.len > Len(cells) THEN [seen EXCEPT !.at = "eof"]
               ELSE [seen EXCEPT !.at = "done",
                                 !.reset = CommittedReset(seen.hdr, seen.len, cells[seen.len])]
    /\ UNCHANGED <<fileVars, writerVars, rpc, scan, tree, warned, part, cursor, known, promise>>

\* read_journal_plan: an empty journal, a committed reset, or frames that end
\* where the header and the file say.
PlannedEmpty == ~seen.reset /\ seen.hdr = Empty /\ seen.len = 0
PlannedFrames ==
    /\ ~seen.reset
    /\ seen.hdr.id # NoId
    /\ seen.hdr.len = seen.len
    /\ seen.len > 0
Planned == seen.at = "done" /\ (seen.reset \/ PlannedEmpty \/ PlannedFrames)

Plan ==
    /\ rpc = "plan"
    /\ Planned
    /\ scan' = IF PlannedEmpty THEN NoScan
               ELSE [NoScan EXCEPT !.id = seen.hdr.id, !.reset = seen.reset,
                                   !.len = IF seen.reset THEN seen.len - 1 ELSE seen.len]
    /\ rpc' = IF PlannedEmpty THEN "tree" ELSE "frames"
    /\ seen' = Unseen
    /\ UNCHANGED <<fileVars, writerVars, tree, warned, part, cursor, known, promise>>

\* A checksum covers a frame, so it is read whole or not at all.
ValidFrame ==
    /\ scan.pos < Len(cells)
    /\ LET c == cells[scan.pos + 1]
       IN  /\ c.w # NoWindow
           /\ c.k = 0
           /\ scan.pos + c.n + 1 <= scan.len
           /\ scan.pos + c.n + 1 <= Len(cells)
           /\ SubSeq(cells, scan.pos + 1, scan.pos + c.n + 1) = Frame(c.w, c.n)

\* visit_journal_frames: the frames of a committed reset are only validated.
ScanFrame ==
    /\ rpc = "frames"
    /\ scan.pos < scan.len
    /\ ValidFrame
    /\ LET c == cells[scan.pos + 1]
           p == [w |-> c.w, n |-> c.n, at |-> scan.pos]
       IN  scan' = [scan EXCEPT !.pos = End(p),
                                !.parts = IF scan.reset THEN @ ELSE Append(@, p)]
    /\ UNCHANGED <<fileVars, writerVars, rpc, seen, tree, warned, part, cursor, known, promise>>

ScanEnds ==
    /\ rpc = "frames"
    /\ scan.pos = scan.len
    /\ rpc' = "tree"
    /\ UNCHANGED <<fileVars, writerVars, seen, scan, tree, warned, part, cursor, known, promise>>

\* complete_journal_scan: an active.wal that could not be read in full counts as
\* empty, and the listing says so.
Degrade ==
    /\ \/ rpc = "plan" /\ seen.at \in {"done", "eof"} /\ ~Planned
       \/ rpc = "frames" /\ scan.pos < scan.len /\ ~ValidFrame
    /\ scan' = NoScan
    /\ warned' = TRUE
    /\ seen' = Unseen
    /\ rpc' = "tree"
    /\ UNCHANGED <<fileVars, writerVars, tree, part, cursor, known, promise>>

\* root.scan: the walk of the day directories passes each name at some time.
LookUp(id) ==
    /\ rpc = "tree"
    /\ id \notin tree.looked
    /\ tree' = [looked |-> tree.looked \cup {id},
                found |-> IF finished[id] = << >> THEN tree.found ELSE tree.found \cup {id}]
    /\ UNCHANGED <<fileVars, writerVars, rpc, seen, scan, warned, part, cursor, known, promise>>

\* list_segments: a finished segment is the canonical one, and the active
\* prefix is left out beside it; else a snapshot of it is opened.
Canonical == scan.parts = << >> \/ scan.id \in tree.found

List ==
    /\ rpc = "tree"
    /\ tree.looked = Ids
    /\ rpc' = IF Canonical THEN "listed" ELSE "open"
    /\ scan' = IF Canonical THEN NoScan ELSE scan
    /\ UNCHANGED <<fileVars, writerVars, seen, tree, warned, part, cursor, known, promise>>

\* Broken variant: the identity in the header is not compared.
HoldsAnyGeneration ==
    /\ seen.at = "done"
    /\ ~seen.reset
    /\ seen.len >= scan.len
    /\ seen.hdr.id # NoId
    /\ seen.hdr.len >= scan.len

\* validate_active_snapshot.
HoldsSnapshot ==
    /\ seen.at = "done"
    /\ ~seen.reset
    /\ seen.len >= scan.len
    /\ seen.hdr.id = scan.id
    /\ seen.hdr.len >= scan.len

OpenSnapshot ==
    /\ rpc = "open"
    /\ HoldsSnapshot
    /\ rpc' = "listed"
    /\ seen' = Unseen
    /\ promise' = scan.parts
    /\ UNCHANGED <<fileVars, writerVars, scan, tree, warned, part, cursor, known>>

\* stale_active_generation, or an end of file: the request fails.
Stale ==
    /\ rpc \in {"open", "before", "after"}
    /\ seen.at \in {"done", "eof"}
    /\ ~HoldsSnapshot
    /\ Over
    /\ UNCHANGED <<fileVars, writerVars, cursor>>

\* A page ends with a cursor that names the active position it was read to.
EndPage ==
    /\ rpc = "listed"
    /\ scan.parts # << >>
    /\ cursor' = [id |-> scan.id, position |-> scan.len, parts |-> promise]
    /\ Over
    /\ UNCHANGED <<fileVars, writerVars>>

\* at_position: the parts that end by a position.
Prefix(position) == {i \in DOMAIN scan.parts : End(scan.parts[i]) <= position}

\* pin_segments, at_position: the next page goes back to the position of its
\* cursor, which must be the end of a part; any other cursor is refused.
Pin ==
    /\ rpc = "listed"
    /\ cursor # NoCursor
    /\ scan.id = cursor.id
    /\ \E i \in Prefix(cursor.position) :
          /\ i + 1 \notin Prefix(cursor.position)
          /\ End(scan.parts[i]) = cursor.position
          /\ scan' = [scan EXCEPT !.parts = SubSeq(@, 1, i), !.len = cursor.position]
    /\ promise' = cursor.parts
    /\ rpc' = "pinned"
    /\ UNCHANGED <<fileVars, writerVars, seen, tree, warned, part, cursor, known>>

\* read_part_range of a whole part: validated, read, validated again.
ReadPart(i) ==
    /\ rpc \in {"listed", "pinned"}
    /\ part' = [i |-> i, got |-> << >>]
    /\ rpc' = "before"
    /\ UNCHANGED <<fileVars, writerVars, seen, scan, tree, warned, cursor, known, promise>>

ReadBegins ==
    /\ rpc = "before"
    /\ HoldsSnapshot
    /\ rpc' = "cells"
    /\ seen' = Unseen
    /\ UNCHANGED <<fileVars, writerVars, scan, tree, warned, part, cursor, known, promise>>

\* One read of the file is not atomic either.
ReadCell ==
    /\ rpc = "cells"
    /\ LET p == scan.parts[part.i]
           at == Body(p) + Len(part.got) + 1
       IN  /\ Len(part.got) < p.n
           /\ IF at <= Len(cells)
              THEN part' = [part EXCEPT !.got = Append(@, cells[at])]
                   /\ UNCHANGED <<rpc, seen, scan, tree, warned, known, promise>>
              ELSE Over
    /\ UNCHANGED <<fileVars, writerVars, cursor>>

\* Broken variant: the generation is not validated again.
CellsReadUnchecked ==
    /\ rpc = "cells"
    /\ Len(part.got) = scan.parts[part.i].n
    /\ rpc' = "read"
    /\ UNCHANGED <<fileVars, writerVars, seen, scan, tree, warned, part, cursor, known, promise>>

CellsRead ==
    /\ rpc = "cells"
    /\ Len(part.got) = scan.parts[part.i].n
    /\ rpc' = "after"
    /\ UNCHANGED <<fileVars, writerVars, seen, scan, tree, warned, part, cursor, known, promise>>

ReadEnds ==
    /\ rpc = "after"
    /\ HoldsSnapshot
    /\ rpc' = "read"
    /\ seen' = Unseen
    /\ UNCHANGED <<fileVars, writerVars, scan, tree, warned, part, cursor, known, promise>>

Finish ==
    /\ rpc \in {"listed", "pinned", "read"}
    /\ Over
    /\ UNCHANGED <<fileVars, writerVars, cursor>>

-----------------------------------------------------------------------------
Init ==
    /\ hdr = Empty /\ cells = << >> /\ finished = [i \in Ids |-> << >>]
    /\ wpc = "idle" /\ handle = NoHandle /\ cur = NoAppend
    /\ nextWindow = 1 /\ lastId = NoId /\ left = Budget
    /\ acked = {} /\ undone = {} /\ home = [w \in Windows |-> NoId]
    /\ rpc = "idle" /\ seen = Unseen /\ scan = NoScan /\ tree = NoTree /\ warned = FALSE
    /\ part = NoPart /\ cursor = NoCursor /\ known = {} /\ promise = << >>

AppendNext ==
    \/ AppendBegin \/ AppendHeader \/ AppendFrame \/ AppendBody \/ AppendSync
    \/ AppendFails \/ RollbackTruncate \/ RollbackHeader
ResetNext == Close \/ Publish \/ ResetMarker \/ ResetFails \/ ResetHeader \/ ResetTruncate
ListNext ==
    \/ Begin \/ ReadLen \/ ReadHeader \/ ReadMarker \/ Plan \/ ScanFrame \/ ScanEnds \/ Degrade
    \/ \E id \in Ids : LookUp(id)
    \/ List \/ OpenSnapshot \/ Stale
ReadNext ==
    \/ EndPage \/ Pin
    \/ \E i \in DOMAIN scan.parts : ReadPart(i)
    \/ ReadBegins \/ ReadCell \/ CellsRead \/ ReadEnds \/ Finish
Next == AppendNext \/ ResetNext \/ ListNext \/ ReadNext

Spec == Init /\ [][Next]_vars

-----------------------------------------------------------------------------
(* Properties. *)

InFinished == UNION {ToSet(finished[i]) : i \in tree.found}
InActive == ToSet(WindowsOf(scan.parts))

\* A listing without a warning has every window that was acknowledged before it
\* began, and has none twice or under another segment's identity, though the
\* segment may be published and active.wal reset and refilled between its scan
\* of the one and of the other (local.rs, complete_journal_scan; discovery.rs,
\* list_segments; validate_active_snapshot).
ListingIsExact ==
    rpc = "listed" =>
        /\ warned \/ known \subseteq InFinished \cup InActive
        /\ InFinished \cap InActive = {}
        /\ \A w \in InActive : home[w] = scan.id

\* A part read from a snapshot is the part that was listed, or listed by the
\* page the cursor is from: a reset or refilled journal makes the read fail
\* (snapshot.rs, read_part_range and at_position).  A part whose append was
\* rolled back was never acknowledged, and others may take its place; those
\* behind it stay where they were.
ReadsCapturedPart ==
    /\ \A q \in ToSet(promise) : q.w \notin undone =>
          /\ rpc = "pinned" => q \in ToSet(scan.parts)
          /\ rpc = "read" /\ q.at = scan.parts[part.i].at => part.got = Tail(Frame(q.w, q.n))
    /\ rpc = "pinned" /\ (\A q \in ToSet(promise) : q.w \notin undone) =>
          ToSet(scan.parts) = ToSet(promise)
=============================================================================
