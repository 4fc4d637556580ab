------------------------- MODULE ActiveReaderProofs -------------------------
(***************************************************************************)
(* Proofs about ActiveReader for any number of windows, segments, parts    *)
(* and failures, and for parts of any length.                              *)
(*                                                                         *)
(* The first invariant is about the collector alone: which segment's       *)
(* windows active.wal holds at each step of an append, a rollback and a    *)
(* reset.  The second relates to it what a reader has read so far, at      *)
(* whatever moments it read it.                                            *)
(***************************************************************************)
EXTENDS ActiveReader, TLAPS

WindowIds == Windows \cup {NoWindow}
SegmentIds == Ids \cup {NoId}
Headers == [id : SegmentIds, len : Nat]
Cells == [w : WindowIds, k : Nat, n : Nat]
Parts == [w : Windows, n : Nat, at : Nat]

Appending == {"header", "frame", "body", "sync"}
Rollback == {"rollback_truncate", "rollback_header"}
Resetting == {"publish", "marker", "empty_header", "truncate"}

WriterTypes ==
    /\ hdr \in Headers /\ cells \in Seq(Cells) /\ finished \in [Ids -> Seq(Windows)]
    /\ wpc \in {"idle"} \cup Appending \cup Rollback \cup Resetting
    /\ handle \in [id : SegmentIds, end : Nat, windows : Seq(Windows)]
    /\ cur \in [w : WindowIds, n : Nat, id : SegmentIds]
    /\ nextWindow \in Nat \ {0} /\ lastId \in SegmentIds /\ left \in Nat
    /\ acked \subseteq Windows /\ undone \subseteq Windows /\ home \in [Windows -> SegmentIds]

Handled == ToSet(handle.windows)

\* The segment whose windows are in active.wal.
Gen == IF handle.id # NoId THEN handle.id ELSE cur.id

\* The steps of an append, and those after a segment was published.
StepsInv ==
    /\ wpc \in Appending => cur # NoAppend
    /\ wpc \notin Appending \cup Rollback => cur = NoAppend
    /\ cur # NoAppend =>
          /\ cur.w # NoWindow /\ cur.id # NoId /\ finished[cur.id] = << >>
          /\ handle.id # NoId => cur.id = handle.id
    /\ wpc = "idle" /\ handle.id # NoId => finished[handle.id] = << >>
    /\ wpc \in Resetting \cup Rollback /\ cur = NoAppend => handle.id # NoId
    /\ wpc \in {"marker", "empty_header", "truncate"} \cup Rollback /\ cur = NoAppend =>
          finished[handle.id] # << >>
    /\ handle.id # NoId /\ finished[handle.id] # << >> => finished[handle.id] = handle.windows

\* Identities are used in their order, and no header is of another segment.
IdsInv ==
    /\ handle.windows = << >> <=> handle.id = NoId
    /\ handle.id = NoId => handle.end = 0
    /\ Gen \in {NoId, lastId}
    /\ hdr.id \in {NoId, Gen}
    /\ handle.id # NoId /\ finished[handle.id] = << >> => hdr.id = handle.id
    /\ wpc \in {"frame", "body", "sync"} => hdr.id = cur.id
    /\ wpc = "truncate" => hdr.id = NoId
    /\ \A i \in Ids : finished[i] # << >> => i <= lastId

\* Windows are used in their order, each under one segment, and what was
\* acknowledged is in the journal or in its segment.
WindowsInv ==
    /\ cur # NoAppend => cur.w < nextWindow /\ home[cur.w] = cur.id
    /\ \A w \in Handled : w < nextWindow /\ w # cur.w /\ home[w] = handle.id
    /\ \A w \in acked :
          /\ w < nextWindow /\ w # cur.w
          /\ w \in Handled \/ (home[w] \in Ids /\ w \in ToSet(finished[home[w]]))
    /\ \A i \in Ids : \A w \in ToSet(finished[i]) : w < nextWindow /\ home[w] = i

\* Up to its end the journal holds the windows of the handle, behind it those of
\* the append in progress or a marker.
CellsInv ==
    /\ handle.end <= Len(cells)
    /\ \A j \in 1..handle.end : cells[j].w \in Handled
    /\ \A w \in Handled : \E j \in 1..handle.end : cells[j].w = w /\ cells[j].k = 0
    /\ \A j \in 1..Len(cells) : j > handle.end => cells[j].w \in {NoWindow, cur.w}
    /\ \A j \in 1..Len(cells) : cells[j].w = NoWindow => handle.id # NoId /\ finished[handle.id] # << >>

LengthInv ==
    /\ wpc \in {"idle", "frame", "publish", "marker", "rollback_header"} => Len(cells) = handle.end
    /\ wpc = "header" /\ handle.windows = << >> => Len(cells) = handle.end
    /\ wpc = "body" => Len(cells) = handle.end + 1
    /\ wpc = "sync" \/ (wpc = "header" /\ handle.windows # << >>) =>
          Len(cells) = handle.end + cur.n + 1
    /\ wpc \in {"body", "sync"} \/ (wpc = "header" /\ handle.windows # << >>) =>
          cells[handle.end + 1] = [w |-> cur.w, k |-> 0, n |-> cur.n]

WInv == WriterTypes /\ StepsInv /\ IdsInv /\ WindowsInv /\ CellsInv /\ LengthInv

-----------------------------------------------------------------------------
(* The reader. *)

\* No window of the segment is in active.wal, nor will be.
Dead(id) == id # NoId /\ id <= lastId /\ id # Gen

\* The part is where it was read.
InPlace(q) ==
    /\ End(q) <= Len(cells)
    /\ \A i \in 1..q.n + 1 : cells[q.at + i] = [w |-> q.w, k |-> i - 1, n |-> q.n]

\* A part that was read as one of a segment is in place, was rolled back, or went
\* with the segment.
Kept(q, id) ==
    \/ q.w \in undone
    \/ Dead(id)
    \/ InPlace(q)
    \/ wpc = "rollback_header" /\ q.w = cur.w /\ q.at >= handle.end

\* Acknowledged when the listing began, and not published yet.
Pending(w) == w \in known /\ w \in Handled /\ finished[handle.id] = << >>

Listing == {"plan", "frames", "tree", "open", "listed"}
Opened == {"listed", "pinned", "before", "cells", "after", "read"}
Reading == {"cells", "after", "read"}

ReaderTypes ==
    /\ rpc \in {"idle"} \cup Listing \cup Opened
    /\ seen \in [at : {"len", "header", "marker", "done", "eof"}, len : Nat, hdr : Headers,
                 reset : BOOLEAN]
    /\ seen.reset => seen.at = "done" /\ seen.len > 1
    /\ scan \in [id : SegmentIds, len : Nat, reset : BOOLEAN, pos : Nat, parts : Seq(Parts)]
    /\ tree.looked \subseteq Ids /\ tree.found \subseteq Ids
    /\ warned \in BOOLEAN
    /\ part.i \in Nat /\ part.got \in Seq(Cells)
    /\ cursor \in [id : SegmentIds, position : Nat, parts : Seq(Parts)]
    /\ known \subseteq acked
    /\ promise \in Seq(Parts)

Listed == ToSet(scan.parts)
Turned == ToSet(cursor.parts)

\* What has not been read yet.
QuietInv ==
    /\ rpc \notin {"plan", "open", "before", "after"} => seen = Unseen
    /\ rpc \in {"idle", "plan"} => scan = NoScan /\ ~warned
    /\ rpc \in {"idle", "plan", "frames"} => tree = NoTree

\* What was read is of segments and windows there were.
HistoryInv ==
    /\ seen.hdr.id <= lastId /\ scan.id <= lastId /\ cursor.id <= lastId
    /\ scan.parts # << >> => scan.id # NoId /\ ~scan.reset
    /\ rpc = "frames" /\ ~scan.reset => scan.id # NoId
    /\ cursor.parts # << >> => cursor.id # NoId
    /\ \A q \in Listed \cup Turned : q.w < nextWindow
    /\ \A i \in tree.found : finished[i] # << >>

\* The parts of a scan follow each other up to its position.
Covers(parts, pos) == \A x \in Nat : x < pos => \E q \in ToSet(parts) : q.at <= x /\ x < End(q)
LayoutInv ==
    /\ \A i, j \in DOMAIN scan.parts : i < j => End(scan.parts[i]) <= scan.parts[j].at
    /\ \A q \in Listed : End(q) <= scan.pos
    /\ rpc \in Listing /\ ~scan.reset => Covers(scan.parts, scan.pos)
    /\ rpc \in {"tree", "open", "listed"} /\ scan.parts # << >> => scan.pos = scan.len
    /\ \A q \in Turned : End(q) <= cursor.position
    /\ Covers(cursor.parts, cursor.position)

KeptInv ==
    /\ \A p \in Listed : Kept(p, scan.id)
    /\ \A q \in Turned : Kept(q, cursor.id)

\* A window that is still to be published is in what is read of active.wal.
Plans(w) ==
    rpc = "plan" =>
        /\ seen.at # "len" => \A j \in 1..handle.end : cells[j].w = w => j <= seen.len
        /\ seen.at \in {"marker", "done"} => seen.hdr.id = handle.id
        /\ seen.at = "done" => ~seen.reset
Scans(w) ==
    rpc \in {"frames", "tree"} =>
        \/ warned
        \/ /\ scan.id = handle.id /\ ~scan.reset
           /\ \A j \in 1..handle.end : cells[j].w = w /\ cells[j].k = 0 =>
                 j <= scan.len /\ (w \in InActive \/ scan.pos < j)
           /\ rpc = "tree" => scan.pos = scan.len

\* A window that was known is found in one place or the other.
Finds(w) ==
    /\ rpc = "tree" /\ home[w] \in tree.looked =>
          home[w] \in tree.found \/ warned \/ (scan.id = home[w] /\ w \in InActive)
    /\ rpc \in {"open", "listed"} => home[w] \in tree.found \/ warned \/ w \in InActive

CompleteInv ==
    /\ \A w \in known : Pending(w) => Plans(w) /\ Scans(w)
    /\ \A w \in known : Finds(w)

\* The parts of the scan are of its segment, and it has met those an earlier
\* page had read of it.
Exact ==
    /\ \A p \in Listed : home[p.w] = scan.id
    /\ scan.id = cursor.id /\ ~scan.reset =>
          \A q \in Turned : q.w \in undone \/ q \in Listed \/ scan.pos <= q.at

\* The header was read after them, and was that of the scan.
Confirmed == seen.at \in {"marker", "done"} /\ seen.hdr.id = scan.id

ExactInv ==
    /\ rpc \in {"frames", "tree", "open"} => Dead(scan.id) \/ Exact
    /\ rpc = "open" => scan.parts # << >> /\ (Confirmed => Exact)
    /\ rpc = "listed" => Exact
    /\ rpc \in {"open", "listed"} => scan.parts = << >> \/ scan.id \notin tree.found

PromiseInv ==
    /\ rpc \notin Opened => promise = << >>
    /\ rpc = "listed" => promise = scan.parts
    /\ rpc \in Opened =>
          /\ \A q \in ToSet(promise) : q.w \in undone \/ q \in Listed
          /\ (\A q \in ToSet(promise) : q.w \notin undone) => Listed \subseteq ToSet(promise)

\* What has been read of a part.
Right == \A k \in 1..Len(part.got) :
            part.got[k] = [w |-> scan.parts[part.i].w, k |-> k, n |-> scan.parts[part.i].n]
RightOrUndone == Right \/ scan.parts[part.i].w \in undone

PartInv ==
    /\ rpc \in Reading \cup {"before"} => part.i \in DOMAIN scan.parts
    /\ rpc = "before" => part.got = << >>
    /\ rpc \in Reading =>
          /\ Len(part.got) <= scan.parts[part.i].n
          /\ RightOrUndone \/ Dead(scan.id)
    /\ rpc \in {"after", "read"} => Len(part.got) = scan.parts[part.i].n
    /\ rpc = "after" /\ Confirmed => RightOrUndone
    /\ rpc = "read" => RightOrUndone

RInv ==
    /\ ReaderTypes /\ QuietInv /\ HistoryInv /\ LayoutInv /\ KeptInv /\ CompleteInv /\ ExactInv
    /\ PromiseInv /\ PartInv

USE BoundsAssumption, PartsAssumption

-----------------------------------------------------------------------------
(* Sequences of cells. *)

\* A frame, and its body.
LEMMA FrameCells ==
    ASSUME NEW w \in Windows, NEW n \in Nat
    PROVE  /\ Frame(w, n) \in Seq(Cells) /\ Len(Frame(w, n)) = n + 1
           /\ \A i \in 1..n + 1 : Frame(w, n)[i] = [w |-> w, k |-> i - 1, n |-> n]
           /\ Tail(Frame(w, n)) \in Seq(Cells) /\ Len(Tail(Frame(w, n))) = n
           /\ \A i \in 1..n : Tail(Frame(w, n))[i] = [w |-> w, k |-> i, n |-> n]
<1> DEFINE f == Frame(w, n)
<1>1. f = [i \in 1..n + 1 |-> [w |-> w, k |-> i - 1, n |-> n]]
  BY DEF Frame
<1>2. \A i \in 1..n + 1 : f[i] = [w |-> w, k |-> i - 1, n |-> n] /\ f[i] \in Cells
  BY <1>1 DEF Cells, WindowIds
<1>3. f \in Seq(Cells) /\ Len(f) = n + 1
  <2>1. n + 1 \in Nat /\ DOMAIN f = 1..n + 1
    BY <1>1
  <2> QED
    BY <1>1, <1>2, <2>1
<1> HIDE DEF f
<1>4. Tail(f) \in Seq(Cells) /\ Len(Tail(f)) = n
  BY <1>3
<1>5. \A i \in 1..n : Tail(f)[i] = f[i + 1]
  BY <1>3
<1>6. \A i \in 1..n : Tail(f)[i] = [w |-> w, k |-> i, n |-> n]
  <2> SUFFICES ASSUME NEW i \in 1..n PROVE Tail(f)[i] = [w |-> w, k |-> i, n |-> n]
    OBVIOUS
  <2>1. i + 1 \in 1..n + 1 /\ (i + 1) - 1 = i
    OBVIOUS
  <2>2. f[i + 1] = [w |-> w, k |-> (i + 1) - 1, n |-> n]
    BY <1>2, <2>1
  <2> QED
    BY <1>5, <2>1, <2>2
<1> QED
  BY <1>2, <1>3, <1>4, <1>6 DEF f

\* The cells of a longer file are those there were.
Extends(t, s) == Len(t) >= Len(s) /\ \A j \in 1..Len(s) : t[j] = s[j]

\* One more cell.
LEMMA AppendCell ==
    ASSUME NEW s \in Seq(Cells), NEW c \in Cells, NEW t, t = Append(s, c)
    PROVE  t \in Seq(Cells) /\ Len(t) = Len(s) + 1 /\ Extends(t, s) /\ t[Len(s) + 1] = c
  BY DEF Extends

\* Other cells follow them.
FollowedBy(t, s, b) == Len(t) = Len(s) + Len(b) /\ \A k \in 1..Len(b) : t[Len(s) + k] = b[k]

\* Some more cells.
LEMMA AppendCells ==
    ASSUME NEW s \in Seq(Cells), NEW b \in Seq(Cells), NEW t, t = s \o b
    PROVE  t \in Seq(Cells) /\ Extends(t, s) /\ FollowedBy(t, s, b)
<1>1. t \in Seq(Cells) /\ Len(t) = Len(s) + Len(b) /\ Len(s) \in Nat /\ Len(b) \in Nat
  OBVIOUS
<1>2. \A j \in 1..Len(s) : t[j] = s[j]
  OBVIOUS
<1>3. \A k \in 1..Len(b) : t[Len(s) + k] = b[k]
  OBVIOUS
<1> QED
  BY <1>1, <1>2, <1>3 DEF Extends, FollowedBy

\* A file that is cut.
LEMMA CutCells ==
    ASSUME NEW s \in Seq(Cells), NEW e \in 0..Len(s), NEW t, t = SubSeq(s, 1, e)
    PROVE  t \in Seq(Cells) /\ Len(t) = e /\ \A j \in 1..e : t[j] = s[j]
  OBVIOUS

\* Cells that are the same one by one.
LEMMA SameCells ==
    ASSUME NEW s \in Seq(Cells), NEW t \in Seq(Cells), Len(s) = Len(t), \A k \in 1..Len(s) : s[k] = t[k]
    PROVE  s = t
OBVIOUS

-----------------------------------------------------------------------------
(* The collector. *)

\* A state the collector starts in.
LEMMA WInit == Init => WInv
<1> SUFFICES ASSUME Init PROVE WInv
  OBVIOUS
<1> USE DEF Init, Empty, NoHandle, NoAppend, NoId, NoWindow
<1>1. WriterTypes
  <2>1. handle \in [id : SegmentIds, end : Nat, windows : Seq(Windows)]
    BY DEF SegmentIds, Ids
  <2>2. hdr \in Headers /\ cells \in Seq(Cells)
    BY DEF Headers, SegmentIds
  <2> QED
    BY <2>1, <2>2 DEF WriterTypes, SegmentIds, WindowIds, Ids, Windows
<1>2. Handled = {}
  BY DEF Handled, ToSet
<1>3. StepsInv /\ IdsInv
  BY DEF StepsInv, IdsInv, Appending, Rollback, Resetting, Gen
<1>4. WindowsInv
  BY <1>2 DEF WindowsInv, ToSet
<1>5. CellsInv /\ LengthInv
  BY <1>2 DEF CellsInv, LengthInv
<1> QED
  BY <1>1, <1>3, <1>4, <1>5 DEF WInv

\* Values of the variables, under the types.
LEMMA WriterValues ==
    ASSUME WInv
    PROVE  /\ cur # NoAppend => cur.w \in Windows /\ cur.id \in Ids
           /\ handle.id # NoId => handle.id \in Ids /\ finished[handle.id] \in Seq(Windows)
           /\ Handled \subseteq Windows
           /\ Len(cells) \in Nat /\ \A j \in 1..Len(cells) : cells[j] \in Cells /\ cells[j].w \in WindowIds
           /\ lastId \in Nat /\ nextWindow \in Nat /\ handle.end \in Nat /\ cur.n \in Nat
           /\ handle = [id |-> handle.id, end |-> handle.end, windows |-> handle.windows]
<1> USE DEF WInv, WriterTypes
<1>1. cur # NoAppend => cur.w \in Windows /\ cur.id \in Ids
  BY DEF StepsInv, WindowIds, SegmentIds
<1>2. handle.id # NoId => handle.id \in Ids /\ finished[handle.id] \in Seq(Windows)
  BY DEF SegmentIds
<1>3. Handled \subseteq Windows
  BY DEF Handled, ToSet
<1>4. Len(cells) \in Nat /\ \A j \in 1..Len(cells) : cells[j] \in Cells /\ cells[j].w \in WindowIds
  <2>1. cells \in Seq(Cells)
    OBVIOUS
  <2>2. Len(cells) \in Nat /\ \A j \in 1..Len(cells) : cells[j] \in Cells
    BY <2>1
  <2> QED
    BY <2>2 DEF Cells
<1>5. lastId \in Nat /\ nextWindow \in Nat /\ handle.end \in Nat /\ cur.n \in Nat
  BY DEF SegmentIds, Ids, NoId
<1> QED
  BY <1>1, <1>2, <1>3, <1>4, <1>5

\* An append is admitted; a new segment takes the next identity (AppendBegin).
LEMMA AppendBeginLemma == ASSUME WInv, AppendBegin PROVE WInv'
<1> USE DEF WInv
<1>1. PICK n \in Lens : cur' = [w |-> nextWindow, n |-> n,
                                id |-> IF handle.id = NoId THEN lastId + 1 ELSE handle.id]
  BY DEF AppendBegin
<1>2. /\ cur'.w = nextWindow /\ cur'.n = n /\ n \in Nat /\ nextWindow \in Windows
      /\ cur'.id = IF handle.id = NoId THEN lastId + 1 ELSE handle.id
  BY <1>1 DEF AppendBegin
<1>3. cur'.id \in Ids /\ cur'.id \in Nat /\ lastId <= cur'.id /\ (handle.id # NoId => cur'.id = lastId)
  <2>1. CASE handle.id = NoId
    BY <2>1, <1>2, WriterValues DEF AppendBegin, Ids
  <2>2. CASE handle.id # NoId
    <3>1. handle.id = lastId
      BY <2>2 DEF IdsInv, Gen
    <3> QED
      BY <2>2, <3>1, <1>2, WriterValues
  <2> QED
    BY <2>1, <2>2
<1>4. cur = NoAppend /\ wpc = "idle" /\ cur'.w # NoWindow /\ cur'.id # NoId /\ cur' # NoAppend
  BY <1>2, <1>3 DEF AppendBegin, StepsInv, Appending, Rollback, NoAppend, NoWindow, NoId, Windows, Ids
<1>5. /\ UNCHANGED <<hdr, cells, finished, handle, left, acked, undone>>
      /\ lastId' = cur'.id /\ nextWindow' = nextWindow + 1
      /\ home' = [home EXCEPT ![nextWindow] = cur'.id]
      /\ wpc' = IF handle.windows = << >> THEN "header" ELSE "frame"
  BY DEF AppendBegin, fileVars
<1>6. home' \in [Windows -> SegmentIds] /\ home'[nextWindow] = cur'.id
      /\ \A w \in Windows : w # nextWindow => home'[w] = home[w]
  BY <1>2, <1>3, <1>5 DEF WriterTypes, SegmentIds
<1>7. Handled' = Handled /\ Handled \subseteq Windows /\ Gen' = cur'.id
  BY <1>2, <1>5, WriterValues DEF Handled, Gen
<1>11. WriterTypes'
  <2>1. cur' \in [w : WindowIds, n : Nat, id : SegmentIds]
    BY <1>1, <1>2, <1>3 DEF WindowIds, SegmentIds
  <2>2. nextWindow' \in Nat \ {0} /\ lastId' \in SegmentIds /\ wpc' \in Appending
    BY <1>3, <1>5 DEF WriterTypes, SegmentIds, Appending
  <2> QED
    BY <2>1, <2>2, <1>5, <1>6 DEF WriterTypes
<1>12. StepsInv'
  <2>1. handle.id # NoId => cur'.id = handle.id /\ finished[cur'.id] = << >>
    BY <1>2, <1>4 DEF StepsInv
  <2>2. handle.id = NoId => finished[cur'.id] = << >>
    BY <1>2, <1>3, WriterValues DEF IdsInv
  <2> QED
    BY <2>1, <2>2, <1>4, <1>5 DEF StepsInv, Appending, Rollback, Resetting
<1>13. IdsInv'
  <2>1. \A i \in Ids : finished[i] # << >> => i <= cur'.id
    BY <1>3, WriterValues DEF IdsInv, Ids
  <2>2. hdr.id \in {NoId, cur'.id}
    BY <1>2, <1>4 DEF IdsInv, Gen, NoAppend
  <2>3. wpc' # "header" => hdr.id = cur'.id
    BY <1>2, <1>4, <1>5 DEF IdsInv, StepsInv
  <2> QED
    BY <2>1, <2>2, <2>3, <1>5, <1>7 DEF IdsInv
<1>14. WindowsInv'
  <2>1. \A w \in Windows : w < nextWindow => w < nextWindow + 1 /\ w # nextWindow
    BY WriterValues DEF Windows
  <2>2. \A i \in Ids : ToSet(finished[i]) \subseteq Windows
    BY DEF WriterTypes, ToSet
  <2>3. nextWindow < nextWindow + 1
    BY WriterValues
  <2>4. acked \subseteq Windows
    BY DEF WriterTypes
  <2>5. \A w \in Handled' : w < nextWindow' /\ w # cur'.w /\ home'[w] = handle'.id
    BY <2>1, <1>2, <1>5, <1>6, <1>7 DEF WindowsInv
  <2>6. \A w \in acked' : /\ w < nextWindow' /\ w # cur'.w
                          /\ w \in Handled' \/ (home'[w] \in Ids /\ w \in ToSet(finished'[home'[w]]))
    BY <2>1, <2>4, <1>2, <1>5, <1>6, <1>7 DEF WindowsInv
  <2>7. \A i \in Ids : \A w \in ToSet(finished'[i]) : w < nextWindow' /\ home'[w] = i
    BY <2>1, <2>2, <1>5, <1>6 DEF WindowsInv
  <2> QED
    BY <2>3, <2>5, <2>6, <2>7, <1>2, <1>5, <1>6 DEF WindowsInv
<1>15. CellsInv' /\ LengthInv'
  <2>1. \A j \in 1..Len(cells) : j > handle.end => cells[j].w \in {NoWindow, nextWindow}
    BY <1>4 DEF CellsInv, NoAppend
  <2> QED
    BY <2>1, <1>2, <1>4, <1>5, <1>7 DEF CellsInv, LengthInv
<1> QED
  BY <1>11, <1>12, <1>13, <1>14, <1>15

\* The header of the frame to come, or of the frame that was written
\* (AppendHeader).
LEMMA AppendHeaderLemma == ASSUME WInv, AppendHeader PROVE WInv'
<1> USE DEF WInv
<1>1. /\ hdr' = [id |-> cur.id, len |-> handle.end + cur.n + 1]
      /\ UNCHANGED <<cells, finished, handle, cur, nextWindow, lastId, left, acked, undone, home>>
      /\ wpc = "header" /\ wpc' = IF handle.windows = << >> THEN "frame" ELSE "sync"
  BY DEF AppendHeader
<1>2. cur # NoAppend /\ cur.id \in Ids
  BY <1>1, WriterValues DEF StepsInv, Appending
<1>3. WriterTypes'
  <2>1. hdr' \in Headers
    BY <1>1, <1>2, WriterValues DEF Headers, SegmentIds
  <2> QED
    BY <1>1, <2>1 DEF WriterTypes, Appending
<1>4. StepsInv' /\ WindowsInv' /\ LengthInv'
  BY <1>1 DEF StepsInv, Appending, Rollback, Resetting, WindowsInv, LengthInv, Handled
<1>5. IdsInv'
  BY <1>1, <1>2 DEF IdsInv, StepsInv, Gen
<1>6. CellsInv'
  BY <1>1 DEF CellsInv, Handled
<1> QED
  BY <1>3, <1>4, <1>5, <1>6

\* Cells written behind the end leave what the handle holds.
LEMMA CellsStay ==
    ASSUME WInv, UNCHANGED <<handle, finished>>, Extends(cells', cells), cells' \in Seq(Cells)
    PROVE  /\ handle'.end <= Len(cells')
           /\ \A j \in 1..handle'.end : cells'[j].w \in Handled'
           /\ \A w \in Handled' : \E j \in 1..handle'.end : cells'[j].w = w /\ cells'[j].k = 0
<1> USE DEF WInv
<1>1. handle.end \in Nat /\ Len(cells) \in Nat /\ Len(cells') \in Nat
  BY WriterValues
<1>2. handle.end <= Len(cells') /\ \A j \in 1..handle.end : cells'[j] = cells[j]
  BY <1>1 DEF CellsInv, Extends
<1>3. Handled' = Handled
  BY DEF Handled
<1> QED
  BY <1>2, <1>3 DEF CellsInv

\* The header of the frame is appended (AppendFrame).
LEMMA AppendFrameLemma == ASSUME WInv, AppendFrame PROVE WInv'
<1> USE DEF WInv
<1> DEFINE c == [w |-> cur.w, k |-> 0, n |-> cur.n]
<1>1. /\ cells' = Append(cells, Frame(cur.w, cur.n)[1]) /\ wpc = "frame" /\ wpc' = "body"
      /\ UNCHANGED <<hdr, finished, handle, cur, nextWindow, lastId, left, acked, undone, home>>
  BY DEF AppendFrame
<1>2. cur # NoAppend /\ cur.w \in Windows /\ cur.n \in Nat
  BY <1>1, WriterValues DEF StepsInv, Appending
<1>3. Frame(cur.w, cur.n)[1] = c /\ c \in Cells
  <2>1. Frame(cur.w, cur.n)[1] = [w |-> cur.w, k |-> 1 - 1, n |-> cur.n]
    BY <1>2, FrameCells
  <2> QED
    BY <2>1, <1>2 DEF Cells, WindowIds
<1>4. /\ cells' \in Seq(Cells) /\ Len(cells') = Len(cells) + 1 /\ Extends(cells', cells)
      /\ cells'[Len(cells) + 1] = c
  <2>1. PICK t : t = cells'
    OBVIOUS
  <2>2. PICK d : d = Frame(cur.w, cur.n)[1]
    OBVIOUS
  <2>3. cells \in Seq(Cells) /\ d \in Cells /\ d = c
    BY <1>3, <2>2 DEF WriterTypes
  <2>4. t = Append(cells, d)
    BY <1>1, <2>1, <2>2
  <2> HIDE DEF c
  <2>5. /\ t \in Seq(Cells) /\ Len(t) = Len(cells) + 1 /\ Extends(t, cells)
        /\ t[Len(cells) + 1] = d
    BY <2>3, <2>4, AppendCell
  <2> QED
    BY <2>1, <2>3, <2>5
<1>5. Len(cells) = handle.end /\ handle.end \in Nat
  BY <1>1, WriterValues DEF LengthInv
<1>6. WriterTypes'
  BY <1>1, <1>4 DEF WriterTypes, Appending
<1>7. StepsInv' /\ IdsInv' /\ WindowsInv'
  BY <1>1 DEF StepsInv, Appending, Rollback, Resetting, IdsInv, Gen, WindowsInv, Handled
<1>8. CellsInv'
  <2>1. \A j \in 1..Len(cells') : j > handle.end => cells'[j] = c
    BY <1>4, <1>5
  <2>2. \A j \in 1..Len(cells') : j > handle.end => cells'[j].w = cur.w
    BY <2>1
  <2>3. \A j \in 1..Len(cells') : cells'[j].w = NoWindow => handle.id # NoId /\ finished[handle.id] # << >>
    <3> SUFFICES ASSUME NEW j \in 1..Len(cells'), cells'[j].w = NoWindow
                 PROVE  handle.id # NoId /\ finished[handle.id] # << >>
      OBVIOUS
    <3>1. j <= handle.end
      BY <2>2, <1>2, <1>5 DEF Windows, NoWindow
    <3>2. j \in 1..Len(cells) /\ cells'[j] = cells[j]
      BY <3>1, <1>5, <1>4 DEF Extends
    <3> QED
      BY <3>2 DEF CellsInv
  <2> QED
    BY <2>2, <2>3, <1>1, <1>4, CellsStay DEF CellsInv
<1>9. LengthInv'
  BY <1>1, <1>4, <1>5 DEF LengthInv
<1> QED
  BY <1>6, <1>7, <1>8, <1>9

\* The body of the frame is appended (AppendBody).
LEMMA AppendBodyLemma == ASSUME WInv, AppendBody PROVE WInv'
<1> USE DEF WInv
<1>1. /\ cells' = cells \o Tail(Frame(cur.w, cur.n)) /\ wpc = "body"
      /\ wpc' = IF handle.windows = << >> THEN "sync" ELSE "header"
      /\ UNCHANGED <<hdr, finished, handle, cur, nextWindow, lastId, left, acked, undone, home>>
  BY DEF AppendBody
<1>2. cur # NoAppend /\ cur.w \in Windows /\ cur.n \in Nat
  BY <1>1, WriterValues DEF StepsInv, Appending
<1>4. /\ cells' \in Seq(Cells) /\ Len(cells') = Len(cells) + cur.n /\ Extends(cells', cells)
      /\ \A k \in 1..cur.n : cells'[Len(cells) + k] = [w |-> cur.w, k |-> k, n |-> cur.n]
  <2>1. PICK t : t = cells'
    OBVIOUS
  <2>2. cells \in Seq(Cells)
    BY DEF WriterTypes
  <2>3. PICK b : b = Tail(Frame(cur.w, cur.n))
    OBVIOUS
  <2>4. /\ b \in Seq(Cells) /\ Len(b) = cur.n
        /\ \A k \in 1..cur.n : b[k] = [w |-> cur.w, k |-> k, n |-> cur.n]
    BY <1>2, <2>3, FrameCells
  <2>5. t = cells \o b
    BY <1>1, <2>1, <2>3
  <2>6. t \in Seq(Cells) /\ Extends(t, cells) /\ FollowedBy(t, cells, b)
    BY <2>2, <2>4, <2>5, AppendCells
  <2> QED
    BY <2>1, <2>4, <2>6 DEF FollowedBy
<1>5. Len(cells) = handle.end + 1 /\ handle.end \in Nat
  BY <1>1, WriterValues DEF LengthInv
<1>6. WriterTypes'
  BY <1>1, <1>4 DEF WriterTypes, Appending
<1>7. StepsInv' /\ IdsInv' /\ WindowsInv'
  BY <1>1 DEF StepsInv, Appending, Rollback, Resetting, IdsInv, Gen, WindowsInv, Handled
<1>8. CellsInv'
  <2>1. \A j \in 1..Len(cells') : j > Len(cells) => cells'[j].w = cur.w
    <3> SUFFICES ASSUME NEW j \in 1..Len(cells'), j > Len(cells) PROVE cells'[j].w = cur.w
      OBVIOUS
    <3>1. PICK k : k = j - Len(cells)
      OBVIOUS
    <3>2. k \in 1..cur.n /\ j = Len(cells) + k
      <4>1. PICK n : n = cur.n
        OBVIOUS
      <4>2. PICK len : len = Len(cells)
        OBVIOUS
      <4>3. n \in Nat /\ len \in Nat /\ j \in 1..len + n /\ j > len /\ k = j - len
        BY <1>2, <1>4, <1>5, <3>1, <4>1, <4>2
      <4>4. k \in 1..n /\ j = len + k
        BY <4>3
      <4> QED
        BY <4>1, <4>2, <4>4
    <3>3. cells'[Len(cells) + k] = [w |-> cur.w, k |-> k, n |-> cur.n]
      BY <3>2, <1>4
    <3>4. cells'[j] = [w |-> cur.w, k |-> k, n |-> cur.n]
      BY <3>2, <3>3
    <3> QED
      BY <3>4
  <2>2. \A j \in 1..Len(cells) : cells'[j] = cells[j]
    BY <1>4 DEF Extends
  <2>3. \A j \in 1..Len(cells') : j <= Len(cells) => j \in 1..Len(cells)
    BY <1>2, <1>4, <1>5
  <2>4. \A j \in 1..Len(cells') : j > handle.end => cells'[j].w \in {NoWindow, cur.w}
    <3> SUFFICES ASSUME NEW j \in 1..Len(cells'), j > handle.end PROVE cells'[j].w \in {NoWindow, cur.w}
      OBVIOUS
    <3>1. j > Len(cells) \/ j \in 1..Len(cells)
      BY <2>3, <1>5
    <3> QED
      BY <3>1, <2>1, <2>2 DEF CellsInv
  <2>5. \A j \in 1..Len(cells') : cells'[j].w = NoWindow => handle.id # NoId /\ finished[handle.id] # << >>
    <3> SUFFICES ASSUME NEW j \in 1..Len(cells'), cells'[j].w = NoWindow
                 PROVE  handle.id # NoId /\ finished[handle.id] # << >>
      OBVIOUS
    <3>1. j > Len(cells) \/ j \in 1..Len(cells)
      BY <2>3, <1>5
    <3>2. cur.w # NoWindow
      BY <1>2 DEF Windows, NoWindow
    <3> QED
      BY <3>1, <3>2, <2>1, <2>2 DEF CellsInv
  <2> QED
    BY <2>4, <2>5, <1>1, <1>4, CellsStay DEF CellsInv
<1>9. LengthInv'
  <2>1. Len(cells') = handle.end + cur.n + 1
    BY <1>2, <1>4, <1>5
  <2>2. cells'[handle.end + 1] = [w |-> cur.w, k |-> 0, n |-> cur.n]
    <3>1. handle.end + 1 \in 1..Len(cells)
      BY <1>5
    <3> QED
      BY <3>1, <1>1, <1>4 DEF LengthInv, Extends
  <2> QED
    BY <2>1, <2>2, <1>1 DEF LengthInv
<1> QED
  BY <1>6, <1>7, <1>8, <1>9

\* The append is synchronised (AppendSync).
LEMMA AppendSyncLemma == ASSUME WInv, AppendSync PROVE WInv'
<1> USE DEF WInv
<1>1. /\ wpc = "sync" /\ wpc' = "idle" /\ cur' = NoAppend /\ acked' = acked \cup {cur.w}
      /\ handle'.id = cur.id /\ handle'.end = handle.end + cur.n + 1
      /\ handle'.windows = Append(handle.windows, cur.w)
      /\ handle' \in [id : {cur.id}, end : {handle.end + cur.n + 1}, windows : {Append(handle.windows, cur.w)}]
      /\ UNCHANGED <<hdr, cells, finished, nextWindow, lastId, left, undone, home>>
  BY DEF AppendSync, fileVars
<1>2. /\ cur # NoAppend /\ cur.w \in Windows /\ cur.id \in Ids /\ cur.n \in Nat /\ handle.end \in Nat
      /\ cur.w # NoWindow /\ cur.id # NoId
  BY <1>1, WriterValues DEF StepsInv, Appending
<1>3. /\ Append(handle.windows, cur.w) \in Seq(Windows) /\ Append(handle.windows, cur.w) # << >>
      /\ Handled' = Handled \cup {cur.w}
  <2>1. PICK s : s = handle.windows
    OBVIOUS
  <2>2. s \in Seq(Windows)
    BY <2>1 DEF WriterTypes
  <2>3. PICK t : t = Append(s, cur.w)
    OBVIOUS
  <2>4. t \in Seq(Windows) /\ Len(t) = Len(s) + 1 /\ Len(s) \in Nat
        /\ t[Len(s) + 1] = cur.w /\ \A i \in 1..Len(s) : t[i] = s[i]
    BY <1>2, <2>2, <2>3
  <2>5. ToSet(t) = ToSet(s) \cup {cur.w}
    <3>1. DOMAIN t = 1..Len(s) + 1 /\ DOMAIN s = 1..Len(s) /\ Len(s) + 1 \in 1..Len(s) + 1
      BY <2>2, <2>4
    <3>2. \A i \in 1..Len(s) + 1 : i \in 1..Len(s) \/ i = Len(s) + 1
      BY <2>4
    <3>3. \A i \in 1..Len(s) : i \in 1..Len(s) + 1
      BY <2>4
    <3> QED
      BY <2>4, <3>1, <3>2, <3>3 DEF ToSet
  <2>6. t # << >>
    BY <2>4
  <2> QED
    BY <1>1, <2>1, <2>3, <2>4, <2>5, <2>6 DEF Handled
<1>4. Gen = cur.id /\ Gen' = cur.id
  BY <1>1, <1>2 DEF Gen, StepsInv
<1>5. WriterTypes'
  <2>1. handle' \in [id : SegmentIds, end : Nat, windows : Seq(Windows)]
    <3>1. PICK s : s = Append(handle.windows, cur.w)
      OBVIOUS
    <3>2. PICK e : e = handle.end + cur.n + 1
      OBVIOUS
    <3>3. s \in Seq(Windows) /\ e \in Nat /\ cur.id \in SegmentIds
      BY <1>2, <1>3, <3>1, <3>2 DEF SegmentIds
    <3>4. handle' = [id |-> cur.id, end |-> e, windows |-> s]
      BY <3>1, <3>2 DEF AppendSync
    <3> QED
      BY <3>3, <3>4
  <2>2. cur' \in [w : WindowIds, n : Nat, id : SegmentIds]
    BY <1>1 DEF NoAppend, WindowIds, SegmentIds
  <2> QED
    BY <1>1, <1>2, <2>1, <2>2 DEF WriterTypes
<1>6. StepsInv'
  BY <1>1, <1>2 DEF StepsInv, NoAppend, NoWindow, Appending, Rollback, Resetting
<1>7. IdsInv'
  <2>1. hdr.id = cur.id
    BY <1>1 DEF IdsInv
  <2> QED
    BY <2>1, <1>1, <1>2, <1>3, <1>4 DEF IdsInv
<1>8. WindowsInv'
  <2>1. \A w \in Handled' : w < nextWindow /\ w # NoWindow /\ home[w] = cur.id
    <3>1. home[cur.w] = cur.id /\ cur.w < nextWindow
      BY <1>2 DEF WindowsInv
    <3>2. \A w \in Handled : w < nextWindow /\ w # NoWindow /\ home[w] = handle.id /\ handle.id = cur.id
      <4> SUFFICES ASSUME NEW w \in Handled
                   PROVE  w < nextWindow /\ w # NoWindow /\ home[w] = handle.id /\ handle.id = cur.id
        OBVIOUS
      <4>1. handle.id # NoId
        BY DEF IdsInv, Handled, ToSet
      <4>2. w \in Windows
        BY WriterValues
      <4> QED
        BY <4>1, <4>2, <1>2 DEF WindowsInv, StepsInv, Windows, NoWindow
    <3> QED
      BY <3>1, <3>2, <1>2, <1>3
  <2>2. \A w \in acked' : /\ w < nextWindow /\ w # NoWindow
                          /\ w \in Handled' \/ (home[w] \in Ids /\ w \in ToSet(finished[home[w]]))
    <3>1. \A w \in acked : w # NoWindow
      BY DEF WriterTypes, Windows, NoWindow
    <3> QED
      BY <3>1, <1>1, <1>2, <1>3 DEF WindowsInv
  <2> QED
    BY <2>1, <2>2, <1>1 DEF WindowsInv, NoAppend
<1>9. CellsInv' /\ LengthInv'
  <2>1. Len(cells) = handle'.end /\ handle'.end = handle.end + cur.n + 1
        /\ cells[handle.end + 1] = [w |-> cur.w, k |-> 0, n |-> cur.n]
    BY <1>1 DEF LengthInv
  <2>2. handle'.end \in Nat /\ handle.end + 1 \in 1..handle'.end
    BY <2>1, <1>2
  <2>3. \A j \in 1..handle'.end : cells[j].w \in Handled'
    <3> SUFFICES ASSUME NEW j \in 1..handle'.end PROVE cells[j].w \in Handled'
      OBVIOUS
    <3>1. j \in 1..handle.end \/ (j \in 1..Len(cells) /\ j > handle.end)
      BY <2>1, <2>2, <1>2
    <3>2. cells[j].w \in Handled \cup {NoWindow, cur.w}
      BY <3>1 DEF CellsInv
    <3>3. cells[j].w # NoWindow
      <4>1. j \in 1..Len(cells)
        BY <2>1
      <4>2. ~(handle.id # NoId /\ finished[handle.id] # << >>)
        BY <1>2 DEF StepsInv
      <4> QED
        BY <4>1, <4>2 DEF CellsInv
    <3> QED
      BY <3>2, <3>3, <1>3
  <2>4. \A w \in Handled' : \E j \in 1..handle'.end : cells[j].w = w /\ cells[j].k = 0
    <3>1. \A j \in 1..handle.end : j \in 1..handle'.end
      BY <2>1, <1>2
    <3>2. \A w \in Handled : \E j \in 1..handle'.end : cells[j].w = w /\ cells[j].k = 0
      BY <3>1 DEF CellsInv
    <3>3. cells[handle.end + 1].w = cur.w /\ cells[handle.end + 1].k = 0
      BY <2>1
    <3> QED
      BY <3>2, <3>3, <2>2, <1>3
  <2>5. \A j \in 1..Len(cells) : ~(j > handle'.end)
    BY <2>1, <2>2
  <2>6. \A j \in 1..Len(cells) : cells[j].w # NoWindow
    BY <1>2 DEF CellsInv, StepsInv
  <2> QED
    BY <2>1, <2>2, <2>3, <2>4, <2>5, <2>6, <1>1 DEF CellsInv, LengthInv
<1> QED
  BY <1>5, <1>6, <1>7, <1>8, <1>9

\* A write or a synchronisation of the append fails (AppendFails).
LEMMA AppendFailsLemma == ASSUME WInv, AppendFails PROVE WInv'
<1> USE DEF WInv
<1>1. /\ wpc \in Appending /\ wpc' = "rollback_truncate" /\ left' = left - 1 /\ left > 0
      /\ UNCHANGED <<hdr, cells, finished, handle, cur, nextWindow, lastId, acked, undone, home>>
  BY DEF AppendFails, Fails, fileVars, Appending
<1>2. left' \in Nat
  BY <1>1 DEF WriterTypes
<1>3. WriterTypes'
  BY <1>1, <1>2 DEF WriterTypes, Rollback
<1>4. cur # NoAppend
  BY <1>1 DEF StepsInv
<1>5. StepsInv' /\ IdsInv' /\ WindowsInv' /\ CellsInv' /\ LengthInv'
  BY <1>1, <1>4 DEF StepsInv, Appending, Rollback, Resetting, IdsInv, Gen, WindowsInv, CellsInv,
                    LengthInv, Handled
<1> QED
  BY <1>3, <1>5

\* The file is cut back to the end of the handle (rollback).
LEMMA RollbackTruncateLemma == ASSUME WInv, RollbackTruncate PROVE WInv'
<1> USE DEF WInv
<1>1. /\ wpc = "rollback_truncate" /\ wpc' = "rollback_header"
      /\ cells' = SubSeq(cells, 1, handle.end)
      /\ UNCHANGED <<hdr, finished, handle, cur, nextWindow, lastId, left, acked, undone, home>>
  BY DEF RollbackTruncate
<1>2. /\ cells' \in Seq(Cells) /\ Len(cells') = handle.end
      /\ \A j \in 1..handle.end : cells'[j] = cells[j]
  <2>1. PICK t : t = cells'
    OBVIOUS
  <2>2. cells \in Seq(Cells) /\ handle.end \in 0..Len(cells)
    BY WriterValues DEF WriterTypes, CellsInv
  <2>3. PICK e : e = handle.end
    OBVIOUS
  <2>4. t \in Seq(Cells) /\ Len(t) = e /\ \A j \in 1..e : t[j] = cells[j]
    BY <1>1, <2>1, <2>2, <2>3, CutCells
  <2> QED
    BY <2>1, <2>3, <2>4
<1>3. handle.end \in Nat /\ handle.end <= Len(cells) /\ Len(cells) \in Nat
  BY WriterValues DEF CellsInv
<1>4. WriterTypes'
  BY <1>1, <1>2 DEF WriterTypes, Rollback
<1>5. StepsInv' /\ IdsInv' /\ WindowsInv' /\ LengthInv'
  BY <1>1, <1>2 DEF StepsInv, Appending, Rollback, Resetting, IdsInv, Gen, WindowsInv, Handled, LengthInv
<1>6. CellsInv'
  <2>1. \A j \in 1..handle.end : j \in 1..Len(cells) /\ ~(j > handle.end)
    BY <1>3
  <2> QED
    BY <2>1, <1>1, <1>2, <1>3 DEF CellsInv, Handled
<1> QED
  BY <1>4, <1>5, <1>6
\* The header is written back; the caller drops the window (rollback).
LEMMA RollbackHeaderLemma == ASSUME WInv, RollbackHeader PROVE WInv'
<1> USE DEF WInv
<1>1. /\ wpc = "rollback_header" /\ wpc' = IF cur = NoAppend THEN "publish" ELSE "idle"
      /\ hdr' = [id |-> handle.id, len |-> handle.end] /\ cur' = NoAppend
      /\ undone' = undone \cup ({cur.w} \ {NoWindow})
      /\ UNCHANGED <<cells, finished, handle, nextWindow, lastId, left, acked, home>>
  BY DEF RollbackHeader
<1>2. Handled' = Handled /\ (\A w \in Handled \cup acked : w # NoWindow)
  BY <1>1, WriterValues DEF Handled, WriterTypes, Windows, NoWindow
<1>3. WriterTypes'
  <2>1. hdr' \in Headers
    BY <1>1 DEF WriterTypes, Headers
  <2>2. cur' \in [w : WindowIds, n : Nat, id : SegmentIds]
    BY <1>1 DEF NoAppend, WindowIds, SegmentIds
  <2>3. undone' \subseteq Windows
    BY <1>1 DEF WriterTypes, WindowIds
  <2> QED
    BY <1>1, <2>1, <2>2, <2>3 DEF WriterTypes, Resetting
<1>4. StepsInv'
  BY <1>1 DEF StepsInv, Appending, Rollback, Resetting
<1>5. IdsInv'
  BY <1>1 DEF IdsInv, Gen, NoAppend, NoId
<1>6. WindowsInv'
  BY <1>1, <1>2 DEF WindowsInv, NoAppend
<1>7. CellsInv' /\ LengthInv'
  <2>1. Len(cells) = handle.end /\ handle.end \in Nat
    BY <1>1, WriterValues DEF LengthInv
  <2>2. \A j \in 1..Len(cells) : ~(j > handle.end)
    BY <2>1
  <2> QED
    BY <2>1, <2>2, <1>1, <1>2 DEF CellsInv, LengthInv
<1> QED
  BY <1>3, <1>4, <1>5, <1>6, <1>7

\* The segment is closed (Close).
LEMMA CloseLemma == ASSUME WInv, Close PROVE WInv'
<1> USE DEF WInv
<1>1. /\ wpc = "idle" /\ wpc' = "publish" /\ handle.windows # << >>
      /\ UNCHANGED <<hdr, cells, finished, handle, cur, nextWindow, lastId, left, acked, undone, home>>
  BY DEF Close, fileVars
<1>2. WriterTypes' /\ IdsInv' /\ WindowsInv' /\ CellsInv' /\ LengthInv'
  BY <1>1 DEF WriterTypes, Resetting, IdsInv, Gen, WindowsInv, Handled, CellsInv, LengthInv
<1>3. StepsInv'
  BY <1>1 DEF StepsInv, IdsInv, Appending, Rollback, Resetting
<1> QED
  BY <1>2, <1>3

\* The segment is published (write_segment).
LEMMA PublishLemma == ASSUME WInv, Publish PROVE WInv'
<1> USE DEF WInv
<1>1. /\ wpc = "publish" /\ wpc' = "marker"
      /\ finished' = [finished EXCEPT ![handle.id] = handle.windows]
      /\ UNCHANGED <<hdr, cells, handle, cur, nextWindow, lastId, left, acked, undone, home>>
  BY DEF Publish
<1>2. cur = NoAppend /\ handle.id # NoId /\ handle.id \in Ids /\ handle.windows # << >>
  BY <1>1, WriterValues DEF StepsInv, Appending, Rollback, Resetting, IdsInv
<1>3. /\ finished' \in [Ids -> Seq(Windows)] /\ finished'[handle.id] = handle.windows
      /\ \A i \in Ids : i # handle.id => finished'[i] = finished[i]
  BY <1>1, <1>2 DEF WriterTypes
<1>4. Handled' = Handled /\ Gen = handle.id /\ Gen' = handle.id
  BY <1>1, <1>2 DEF Handled, Gen
<1>5. WriterTypes'
  BY <1>1, <1>3 DEF WriterTypes, Resetting
<1>6. StepsInv'
  BY <1>1, <1>2, <1>3 DEF StepsInv, Appending, Rollback, Resetting
<1>7. IdsInv'
  <2>1. \A i \in Ids : finished'[i] # << >> => i <= lastId
    BY <1>2, <1>3, <1>4, WriterValues DEF IdsInv, NoId
  <2> QED
    BY <2>1, <1>1, <1>2, <1>3, <1>4 DEF IdsInv
<1>8. WindowsInv'
  <2>1. \A i \in Ids : \A w \in ToSet(finished'[i]) : w < nextWindow /\ home[w] = i
    <3> SUFFICES ASSUME NEW i \in Ids, NEW w \in ToSet(finished'[i]) PROVE w < nextWindow /\ home[w] = i
      OBVIOUS
    <3>1. CASE i = handle.id
      BY <3>1, <1>3 DEF WindowsInv, Handled
    <3>2. CASE i # handle.id
      BY <3>2, <1>3 DEF WindowsInv
    <3> QED
      BY <3>1, <3>2
  <2>2. \A w \in acked : w \in Handled \/ (home[w] \in Ids /\ w \in ToSet(finished'[home[w]]))
    <3> SUFFICES ASSUME NEW w \in acked, w \notin Handled
                 PROVE  home[w] \in Ids /\ w \in ToSet(finished'[home[w]])
      OBVIOUS
    <3>1. home[w] \in Ids /\ w \in ToSet(finished[home[w]])
      BY DEF WindowsInv
    <3>2. CASE home[w] = handle.id
      <4>1. finished[handle.id] # << >>
        BY <3>1, <3>2 DEF ToSet
      <4> QED
        BY <4>1, <3>1, <3>2, <1>2, <1>3 DEF StepsInv
    <3> QED
      BY <3>1, <3>2, <1>3
  <2>3. \A w \in Handled : w < nextWindow /\ w # cur.w /\ home[w] = handle.id
    BY DEF WindowsInv
  <2>4. \A w \in acked : w < nextWindow /\ w # cur.w
    BY DEF WindowsInv
  <2> QED
    BY <2>1, <2>2, <2>3, <2>4, <1>1, <1>2, <1>4 DEF WindowsInv
<1>9. CellsInv' /\ LengthInv'
  BY <1>1, <1>2, <1>3, <1>4 DEF CellsInv, LengthInv
<1> QED
  BY <1>5, <1>6, <1>7, <1>8, <1>9

\* The reset marker is appended (Journal::reset).
LEMMA ResetMarkerLemma == ASSUME WInv, ResetMarker PROVE WInv'
<1> USE DEF WInv
<1> DEFINE m == [w |-> NoWindow, k |-> handle.end, n |-> handle.id]
<1>1. /\ wpc = "marker" /\ wpc' = "empty_header" /\ cells' = Append(cells, m)
      /\ UNCHANGED <<hdr, finished, handle, cur, nextWindow, lastId, left, acked, undone, home>>
  BY DEF ResetMarker, Marker
<1>2. cur = NoAppend /\ handle.id # NoId /\ handle.id \in Ids /\ finished[handle.id] # << >>
  BY <1>1, WriterValues DEF StepsInv, Appending, Rollback, Resetting
<1>3. m \in Cells
  BY <1>2, WriterValues DEF Cells, WindowIds, Ids
<1>4. /\ cells' \in Seq(Cells) /\ Len(cells') = Len(cells) + 1 /\ Extends(cells', cells)
  <2>1. PICK t : t = cells'
    OBVIOUS
  <2>2. PICK d : d = m
    OBVIOUS
  <2>3. cells \in Seq(Cells) /\ d \in Cells
    BY <1>3, <2>2 DEF WriterTypes
  <2>4. t = Append(cells, d)
    BY <1>1, <2>1, <2>2
  <2> HIDE DEF m
  <2>5. t \in Seq(Cells) /\ Len(t) = Len(cells) + 1 /\ Extends(t, cells)
    BY <2>3, <2>4, AppendCell
  <2> QED
    BY <2>1, <2>5
<1>5. cells'[Len(cells) + 1].w = NoWindow
  <2>1. cells \in Seq(Cells)
    BY DEF WriterTypes
  <2> QED
    BY <2>1, <1>1
<1>6. Len(cells) = handle.end /\ handle.end \in Nat
  BY <1>1, WriterValues DEF LengthInv
<1>7. WriterTypes'
  BY <1>1, <1>4 DEF WriterTypes, Resetting
<1>8. StepsInv' /\ IdsInv' /\ WindowsInv' /\ LengthInv'
  BY <1>1, <1>2 DEF StepsInv, Appending, Rollback, Resetting, IdsInv, Gen, WindowsInv, Handled, LengthInv
<1>9. CellsInv'
  <2>1. \A j \in 1..Len(cells') : j > handle.end => j = Len(cells) + 1
    BY <1>4, <1>6
  <2> QED
    BY <2>1, <1>1, <1>2, <1>4, <1>5, CellsStay DEF CellsInv
<1> QED
  BY <1>7, <1>8, <1>9

\* The marker could not be synchronised (ResetFails).
LEMMA ResetFailsLemma == ASSUME WInv, ResetFails PROVE WInv'
<1> USE DEF WInv
<1>1. /\ wpc = "empty_header" /\ wpc' = "rollback_truncate" /\ left' = left - 1 /\ left > 0
      /\ UNCHANGED <<hdr, cells, finished, handle, cur, nextWindow, lastId, acked, undone, home>>
  BY DEF ResetFails, Fails, fileVars
<1>2. left' \in Nat
  BY <1>1 DEF WriterTypes
<1>3. WriterTypes'
  BY <1>1, <1>2 DEF WriterTypes, Rollback
<1>4. StepsInv' /\ IdsInv' /\ WindowsInv' /\ CellsInv' /\ LengthInv'
  BY <1>1 DEF StepsInv, Appending, Rollback, Resetting, IdsInv, Gen, WindowsInv, CellsInv,
              LengthInv, Handled
<1> QED
  BY <1>3, <1>4

\* The empty header is written (Journal::reset).
LEMMA ResetHeaderLemma == ASSUME WInv, ResetHeader PROVE WInv'
<1> USE DEF WInv
<1>1. /\ wpc = "empty_header" /\ wpc' = "truncate" /\ hdr' = [id |-> NoId, len |-> 0]
      /\ UNCHANGED <<cells, finished, handle, cur, nextWindow, lastId, left, acked, undone, home>>
  BY DEF ResetHeader, Empty
<1>2. cur = NoAppend /\ handle.id # NoId /\ finished[handle.id] # << >>
  BY <1>1 DEF StepsInv, Appending, Rollback, Resetting
<1>3. WriterTypes'
  <2>1. hdr' \in Headers
    BY <1>1 DEF Headers, SegmentIds
  <2> QED
    BY <1>1, <2>1 DEF WriterTypes, Resetting
<1>4. StepsInv' /\ WindowsInv' /\ CellsInv' /\ LengthInv'
  BY <1>1 DEF StepsInv, Appending, Rollback, Resetting, WindowsInv, CellsInv, LengthInv, Handled
<1>5. IdsInv'
  BY <1>1, <1>2 DEF IdsInv, Gen
<1> QED
  BY <1>3, <1>4, <1>5

\* The file is cut behind its header, and the segment is over (Journal::reset).
LEMMA ResetTruncateLemma == ASSUME WInv, ResetTruncate PROVE WInv'
<1> USE DEF WInv
<1>1. /\ wpc = "truncate" /\ wpc' = "idle" /\ cells' = << >>
      /\ handle' = [id |-> NoId, end |-> 0, windows |-> << >>]
      /\ UNCHANGED <<hdr, finished, cur, nextWindow, lastId, left, acked, undone, home>>
  BY DEF ResetTruncate, NoHandle
<1>2. cur = NoAppend /\ handle.id # NoId /\ handle.id \in Ids /\ finished[handle.id] = handle.windows
  BY <1>1, WriterValues DEF StepsInv, Appending, Rollback, Resetting
<1>3. Handled' = {} /\ Len(cells') = 0
  BY <1>1 DEF Handled, ToSet
<1>4. WriterTypes'
  <2>1. handle' \in [id : SegmentIds, end : Nat, windows : Seq(Windows)]
    BY <1>1 DEF SegmentIds
  <2>2. cells' \in Seq(Cells)
    BY <1>1
  <2> QED
    BY <1>1, <2>1, <2>2 DEF WriterTypes
<1>5. StepsInv'
  BY <1>1, <1>2 DEF StepsInv, Appending, Rollback, Resetting
<1>6. IdsInv'
  BY <1>1, <1>2 DEF IdsInv, Gen, NoAppend
<1>7. WindowsInv'
  <2>1. \A w \in acked : home[w] \in Ids /\ w \in ToSet(finished[home[w]])
    <3> SUFFICES ASSUME NEW w \in acked PROVE home[w] \in Ids /\ w \in ToSet(finished[home[w]])
      OBVIOUS
    <3>1. CASE w \in Handled
      <4>1. home[w] = handle.id
        BY <3>1 DEF WindowsInv
      <4> QED
        BY <3>1, <4>1, <1>2 DEF Handled
    <3> QED
      BY <3>1 DEF WindowsInv
  <2>2. \A w \in acked : w < nextWindow /\ w # cur.w
    BY DEF WindowsInv
  <2>3. \A i \in Ids : \A w \in ToSet(finished[i]) : w < nextWindow /\ home[w] = i
    BY DEF WindowsInv
  <2> QED
    BY <2>1, <2>2, <2>3, <1>1, <1>2, <1>3 DEF WindowsInv
<1>8. CellsInv' /\ LengthInv'
  BY <1>1, <1>3 DEF CellsInv, LengthInv
<1> QED
  BY <1>4, <1>5, <1>6, <1>7, <1>8

\* A step of the collector.
LEMMA WriterSteps == ASSUME WInv, AppendNext \/ ResetNext PROVE WInv'
<1>1. CASE AppendNext
  BY <1>1, AppendBeginLemma, AppendHeaderLemma, AppendFrameLemma, AppendBodyLemma, AppendSyncLemma,
     AppendFailsLemma, RollbackTruncateLemma, RollbackHeaderLemma DEF AppendNext
<1>2. CASE ResetNext
  BY <1>2, CloseLemma, PublishLemma, ResetMarkerLemma, ResetFailsLemma, ResetHeaderLemma,
     ResetTruncateLemma DEF ResetNext
<1> QED
  BY <1>1, <1>2

\* No step of the reader changes anything of the collector's.
LEMMA ReadersOnlyRead == ASSUME ListNext \/ ReadNext PROVE UNCHANGED <<fileVars, writerVars>>
<1>1. CASE ListNext
  BY <1>1 DEF ListNext, Begin, ReadLen, ReadHeader, ReadMarker, Plan, ScanFrame, ScanEnds, Degrade,
              LookUp, List, OpenSnapshot, Stale
<1>2. CASE ReadNext
  BY <1>2 DEF ReadNext, EndPage, Pin, ReadPart, ReadBegins, ReadCell, CellsRead, ReadEnds, Finish
<1> QED
  BY <1>1, <1>2

\* The collector's invariant says nothing of the reader.
LEMMA WriterStays == ASSUME WInv, UNCHANGED <<fileVars, writerVars>> PROVE WInv'
BY DEF WInv, WriterTypes, StepsInv, IdsInv, WindowsInv, CellsInv, LengthInv, Handled, Gen,
       fileVars, writerVars

\* What active.wal holds at each step of the collector, whatever fails: whole
\* parts up to the end of its Journal, of the one segment that has not been
\* published or is being reset, and every window acknowledged in the file or in
\* the segment it was published in (Journal::append, rollback, Journal::reset).
THEOREM WriterInvariance == Spec => []WInv
<1>1. WInv /\ [Next]_vars => WInv'
  <2> SUFFICES ASSUME WInv, [Next]_vars PROVE WInv'
    OBVIOUS
  <2>1. CASE AppendNext \/ ResetNext
    BY <2>1, WriterSteps
  <2>2. CASE ListNext \/ ReadNext
    BY <2>2, ReadersOnlyRead, WriterStays
  <2>3. CASE UNCHANGED vars
    BY <2>3, WriterStays DEF vars
  <2> QED
    BY <2>1, <2>2, <2>3 DEF Next
<1> QED
  BY <1>1, WInit, PTL DEF Spec

-----------------------------------------------------------------------------
(* What a reader has read, while the collector goes on. *)

\* What there was, there still is.
Progress ==
    /\ UNCHANGED readerVars
    /\ lastId <= lastId' /\ nextWindow <= nextWindow'
    /\ acked \subseteq acked' /\ undone \subseteq undone'
    /\ \A w \in Windows : w < nextWindow => home'[w] = home[w]
    /\ \A i \in Ids : finished[i] # << >> => finished'[i] = finished[i]
    /\ Gen' \in {Gen, NoId} \/ Gen' > lastId

\* Appending and resetting only add: windows, acknowledgements and finished segments stay.
LEMMA WriterProgress == ASSUME WInv, AppendNext \/ ResetNext PROVE Progress
<1> USE DEF WInv
<1>1. CASE AppendBegin
  <2>1. /\ nextWindow' = nextWindow + 1 /\ lastId' = cur'.id /\ nextWindow \in Windows /\ wpc = "idle"
        /\ cur'.id = IF handle.id = NoId THEN lastId + 1 ELSE handle.id
        /\ home' = [home EXCEPT ![nextWindow] = cur'.id]
        /\ UNCHANGED <<finished, handle, acked, undone, readerVars>>
    BY <1>1 DEF AppendBegin, fileVars
  <2>2. \A w \in Windows : w < nextWindow => home'[w] = home[w]
    BY <2>1 DEF WriterTypes, Windows
  <2>3. lastId \in Nat /\ nextWindow \in Nat
    BY WriterValues
  <2>4. CASE handle.id = NoId
    <3>1. lastId' = lastId + 1 /\ Gen' = lastId + 1
      BY <2>1, <2>4 DEF Gen
    <3> QED
      BY <3>1, <2>1, <2>2, <2>3 DEF Progress
  <2>5. CASE handle.id # NoId
    <3>1. lastId' = lastId /\ Gen' = Gen
      BY <2>1, <2>5 DEF Gen, IdsInv
    <3> QED
      BY <3>1, <2>1, <2>2, <2>3 DEF Progress
  <2> QED
    BY <2>4, <2>5
<1>2. CASE Publish
  <2>1. /\ wpc = "publish" /\ finished' = [finished EXCEPT ![handle.id] = handle.windows]
        /\ UNCHANGED <<handle, cur, nextWindow, lastId, acked, undone, home, readerVars>>
    BY <1>2 DEF Publish
  <2>2. handle.id \in Ids /\ handle.id # NoId
    BY <2>1, WriterValues DEF StepsInv, Appending, Rollback, Resetting
  <2>3. \A i \in Ids : finished[i] # << >> => finished'[i] = finished[i]
    BY <2>1, <2>2 DEF StepsInv, WriterTypes
  <2>4. lastId \in Nat /\ nextWindow \in Nat
    BY WriterValues
  <2> QED
    BY <2>1, <2>3, <2>4 DEF Progress, Gen
<1>3. CASE ~AppendBegin /\ ~Publish
  <2>1. /\ UNCHANGED <<finished, nextWindow, lastId, home, readerVars>>
        /\ acked \subseteq acked' /\ undone \subseteq undone'
    BY <1>3 DEF AppendNext, ResetNext, AppendHeader, AppendFrame, AppendBody, AppendSync, AppendFails,
                RollbackTruncate, RollbackHeader, Close, ResetMarker, ResetFails, ResetHeader,
                ResetTruncate, fileVars
  <2>2. lastId \in Nat /\ nextWindow \in Nat
    BY WriterValues
  <2>3. Gen' \in {Gen, NoId}
    <3>1. CASE AppendSync
      <4>1. cur # NoAppend /\ cur.id # NoId
        BY <3>1 DEF AppendSync, StepsInv, Appending
      <4> QED
        BY <3>1, <4>1 DEF AppendSync, Gen, StepsInv
    <3>2. CASE RollbackHeader
      BY <3>2 DEF RollbackHeader, Gen, NoAppend
    <3>3. CASE ResetTruncate
      <4>1. cur = NoAppend /\ cur' = cur /\ handle'.id = NoId
        BY <3>3 DEF ResetTruncate, StepsInv, Appending, Rollback, NoHandle
      <4> QED
        BY <4>1 DEF Gen, NoAppend
    <3>4. CASE ~AppendSync /\ ~RollbackHeader /\ ~ResetTruncate
      <4>1. UNCHANGED <<handle, cur>>
        BY <1>3, <3>4 DEF AppendNext, ResetNext, AppendHeader, AppendFrame, AppendBody, AppendFails,
                          RollbackTruncate, Close, ResetMarker, ResetFails, ResetHeader
      <4> QED
        BY <4>1 DEF Gen
    <3> QED
      BY <3>1, <3>2, <3>3, <3>4
  <2> QED
    BY <2>1, <2>2, <2>3 DEF Progress
<1> QED
  BY <1>1, <1>2, <1>3

\* A segment that is gone does not come back.
LEMMA DeadStays == ASSUME WInv, WInv', Progress, NEW id \in SegmentIds, Dead(id) PROVE Dead(id)'
<1>1. lastId \in Nat /\ lastId <= lastId' /\ id # NoId /\ id <= lastId /\ id # Gen
  BY WriterValues DEF Progress, Dead
<1>2. id \in Nat
  BY DEF SegmentIds, Ids, NoId
<1>3. id # Gen'
  BY <1>1, <1>2 DEF Progress
<1>4. lastId' \in Nat
  <2>1. lastId' \in SegmentIds
    BY DEF WInv, WriterTypes
  <2> QED
    BY <2>1 DEF SegmentIds, Ids, NoId
<1>5. id <= lastId'
  BY <1>1, <1>2, <1>4
<1> QED
  BY <1>1, <1>3, <1>5 DEF Dead

\* A part in place stays there while the file only grows.
LEMMA InPlaceStays ==
    ASSUME NEW q \in Parts, cells \in Seq(Cells), cells' \in Seq(Cells), Extends(cells', cells), InPlace(q)
    PROVE  InPlace(q)'
<1>1. PICK s : s = cells
  OBVIOUS
<1>2. PICK t : t = cells'
  OBVIOUS
<1>3. s \in Seq(Cells) /\ t \in Seq(Cells) /\ Len(s) \in Nat /\ Len(t) \in Nat /\ Len(s) <= Len(t)
      /\ \A j \in 1..Len(s) : t[j] = s[j]
  BY <1>1, <1>2 DEF Extends
<1>4. /\ End(q) <= Len(s) /\ q.at \in Nat /\ q.n \in Nat /\ End(q) = q.at + q.n + 1
      /\ \A i \in 1..q.n + 1 : s[q.at + i] = [w |-> q.w, k |-> i - 1, n |-> q.n]
  BY <1>1 DEF InPlace, End, Parts
<1>5. End(q) <= Len(t)
  BY <1>3, <1>4
<1>6. \A i \in 1..q.n + 1 : q.at + i \in 1..Len(s)
  BY <1>3, <1>4
<1>7. \A i \in 1..q.n + 1 : t[q.at + i] = [w |-> q.w, k |-> i - 1, n |-> q.n]
  BY <1>3, <1>4, <1>6
<1> QED
  BY <1>2, <1>5, <1>7 DEF InPlace, End

\* The file only grows, but for the two truncations.
LEMMA FileGrows ==
    ASSUME WInv, AppendNext \/ ResetNext, ~RollbackTruncate, ~ResetTruncate
    PROVE  Extends(cells', cells)
<1>1. cells \in Seq(Cells) /\ Len(cells) \in Nat
  BY WriterValues DEF WInv, WriterTypes
<1>2. CASE AppendFrame \/ AppendBody \/ ResetMarker
  <2>1. PICK t : t = cells'
    OBVIOUS
  <2>2. Extends(t, cells)
    <3>1. CASE AppendFrame
      <4>1. cur.w \in Windows /\ cur.n \in Nat
        BY <3>1, WriterValues DEF WInv, StepsInv, Appending, AppendFrame
      <4>2. PICK c : c = Frame(cur.w, cur.n)[1]
        OBVIOUS
      <4>3. c = [w |-> cur.w, k |-> 0, n |-> cur.n]
        BY <4>1, <4>2, FrameCells
      <4>4. c \in Cells
        BY <4>1, <4>3 DEF Cells, WindowIds
      <4>5. t = Append(cells, c)
        BY <3>1, <4>2, <2>1 DEF AppendFrame
      <4> QED
        BY <1>1, <4>4, <4>5, AppendCell
    <3>2. CASE AppendBody
      <4>1. cur.w \in Windows /\ cur.n \in Nat
        BY <3>2, WriterValues DEF WInv, StepsInv, Appending, AppendBody
      <4>2. PICK d : d = Tail(Frame(cur.w, cur.n))
        OBVIOUS
      <4>3. d \in Seq(Cells)
        BY <4>1, <4>2, FrameCells
      <4>4. t = cells \o d
        BY <3>2, <4>2, <2>1 DEF AppendBody
      <4> QED
        BY <1>1, <4>3, <4>4, AppendCells
    <3>3. CASE ResetMarker
      <4>1. PICK c : c = Marker(handle.end, handle.id)
        OBVIOUS
      <4>2. c \in Cells
        <5>1. handle.id \in Nat /\ handle.end \in Nat
          BY WriterValues DEF WInv, WriterTypes, SegmentIds, Ids, NoId
        <5> QED
          BY <4>1, <5>1 DEF Marker, Cells, WindowIds
      <4>3. t = Append(cells, c)
        BY <3>3, <4>1, <2>1 DEF ResetMarker
      <4> QED
        BY <1>1, <4>2, <4>3, AppendCell
    <3> QED
      BY <1>2, <3>1, <3>2, <3>3
  <2> QED
    BY <2>1, <2>2
<1>3. CASE ~(AppendFrame \/ AppendBody \/ ResetMarker)
  <2>1. cells' = cells
    BY <1>3 DEF AppendNext, ResetNext, AppendBegin, AppendHeader, AppendSync, AppendFails, RollbackHeader,
                Close, Publish, ResetFails, ResetHeader, fileVars
  <2> QED
    BY <1>1, <2>1 DEF Extends
<1> QED
  BY <1>2, <1>3

\* A part that was read of a segment is kept through every step of the collector.
LEMMA KeptStays ==
    ASSUME WInv, WInv', AppendNext \/ ResetNext, NEW q \in Parts, NEW id \in Ids,
           q.w < nextWindow, id <= lastId, Kept(q, id)
    PROVE  Kept(q, id)'
<1>1. Progress
  BY WriterProgress
<1>2. q.w \in Windows /\ q.at \in Nat /\ q.n \in Nat /\ q.w # NoWindow
  BY DEF Parts, Windows, NoWindow
<1>3. CASE q.w \in undone
  BY <1>1, <1>3 DEF Kept, Progress
<1>4. CASE Dead(id)
  BY <1>1, <1>4, DeadStays DEF Kept, SegmentIds
<1>5. CASE wpc = "rollback_header" /\ q.w = cur.w /\ q.at >= handle.end
  <2>1. RollbackHeader
    BY <1>5 DEF AppendNext, ResetNext, AppendBegin, AppendHeader, AppendFrame, AppendBody, AppendSync,
                AppendFails, RollbackTruncate, Close, Publish, ResetMarker, ResetFails, ResetHeader,
                ResetTruncate
  <2>2. q.w \in undone'
    BY <1>2, <1>5, <2>1 DEF RollbackHeader
  <2> QED
    BY <2>2 DEF Kept
<1>6. CASE InPlace(q)
  <2>1. CASE ~RollbackTruncate /\ ~ResetTruncate
    <3>1. cells \in Seq(Cells) /\ cells' \in Seq(Cells)
      BY DEF WInv, WriterTypes
    <3>2. InPlace(q)'
      BY <1>6, <2>1, <3>1, FileGrows, InPlaceStays
    <3> QED
      BY <3>2 DEF Kept
  <2>2. CASE ResetTruncate
    <3>1. cur = NoAppend /\ cur' = cur /\ handle'.id = NoId /\ lastId' = lastId
      BY <2>2 DEF ResetTruncate, WInv, StepsInv, Appending, Rollback, NoHandle
    <3>2. Gen' = NoId /\ id # NoId
      BY <3>1 DEF Gen, NoAppend, Ids, NoId
    <3>3. Dead(id)'
      BY <3>1, <3>2 DEF Dead
    <3> QED
      BY <3>3 DEF Kept
  <2>3. CASE RollbackTruncate
    <3>1. PICK e : e = handle.end
      OBVIOUS
    <3>2. e \in Nat /\ e <= Len(cells) /\ Len(cells) \in Nat
      BY <3>1, WriterValues DEF WInv, CellsInv
    <3>3. Len(cells') = e /\ (\A j \in 1..e : cells'[j] = cells[j])
          /\ wpc' = "rollback_header" /\ UNCHANGED <<handle, cur>>
      <4>1. PICK t : t = cells'
        OBVIOUS
      <4>2. cells \in Seq(Cells) /\ e \in 0..Len(cells) /\ t = SubSeq(cells, 1, e)
        BY <2>3, <3>1, <3>2, <4>1 DEF RollbackTruncate, WInv, WriterTypes
      <4>3. Len(t) = e /\ \A j \in 1..e : t[j] = cells[j]
        BY <4>2, CutCells
      <4> QED
        BY <2>3, <4>1, <4>3 DEF RollbackTruncate
    <3>4. End(q) = q.at + q.n + 1 /\ End(q) <= Len(cells)
          /\ \A i \in 1..q.n + 1 : cells[q.at + i] = [w |-> q.w, k |-> i - 1, n |-> q.n]
      BY <1>6 DEF InPlace, End
    <3>5. CASE End(q) <= e
      <4>1. \A i \in 1..q.n + 1 : q.at + i \in 1..e
        BY <1>2, <3>2, <3>4, <3>5
      <4>2. \A i \in 1..q.n + 1 : cells'[q.at + i] = [w |-> q.w, k |-> i - 1, n |-> q.n]
        BY <3>3, <3>4, <4>1
      <4>3. InPlace(q)'
        BY <3>3, <3>5, <4>2 DEF InPlace
      <4> QED
        BY <4>3 DEF Kept
    <3>6. CASE ~(End(q) <= e)
      <4>1. q.n + 1 \in 1..q.n + 1 /\ q.at + (q.n + 1) \in 1..Len(cells) /\ q.at + (q.n + 1) > e
            /\ 1 \in 1..q.n + 1
        BY <1>2, <3>2, <3>4, <3>6
      <4>2. cells[q.at + (q.n + 1)].w = q.w /\ cells[q.at + 1].w = q.w
        <5>1. ASSUME NEW i \in 1..q.n + 1 PROVE cells[q.at + i].w = q.w
          <6>1. cells[q.at + i] = [w |-> q.w, k |-> i - 1, n |-> q.n]
            BY <3>4
          <6> QED
            BY <6>1
        <5> QED
          BY <4>1, <5>1
      <4>3. q.w = cur.w
        BY <1>2, <3>1, <4>1, <4>2 DEF WInv, CellsInv
      <4>4. q.at >= e
        <5>1. ASSUME q.at < e PROVE FALSE
          <6>1. q.at + 1 \in 1..e
            BY <1>2, <3>2, <5>1
          <6>2. q.w \in Handled
            BY <3>1, <4>2, <6>1 DEF WInv, CellsInv
          <6> QED
            BY <4>3, <6>2 DEF WInv, WindowsInv
        <5> QED
          BY <1>2, <3>2, <5>1
      <4> QED
        BY <3>1, <3>3, <4>3, <4>4 DEF Kept
    <3> QED
      BY <3>5, <3>6
  <2> QED
    BY <2>1, <2>2, <2>3
<1> QED
  BY <1>3, <1>4, <1>5, <1>6 DEF Kept

\* Up to its end the journal does not change but in a reset.
LEMMA JournalStays ==
    ASSUME WInv, AppendNext \/ ResetNext, ~ResetTruncate
    PROVE  \A j \in 1..handle.end : cells'[j] = cells[j]
<1>1. handle.end \in Nat /\ handle.end <= Len(cells) /\ Len(cells) \in Nat /\ cells \in Seq(Cells)
  BY WriterValues DEF WInv, CellsInv, WriterTypes
<1>2. CASE RollbackTruncate
  <2>1. PICK t : t = cells'
    OBVIOUS
  <2>2. PICK e : e = handle.end
    OBVIOUS
  <2>3. e \in 0..Len(cells) /\ t = SubSeq(cells, 1, e)
    BY <1>1, <1>2, <2>1, <2>2 DEF RollbackTruncate
  <2>4. \A j \in 1..e : t[j] = cells[j]
    BY <1>1, <2>3, CutCells
  <2> QED
    BY <2>1, <2>2, <2>4
<1>3. CASE ~RollbackTruncate
  BY <1>1, <1>3, FileGrows DEF Extends
<1> QED
  BY <1>2, <1>3

\* A window that is still pending was pending, in the same cells.
LEMMA PendingStays ==
    ASSUME WInv, WInv', AppendNext \/ ResetNext, UNCHANGED known, known \subseteq acked,
           NEW w, Pending(w)'
    PROVE  /\ Pending(w) /\ handle'.id = handle.id /\ handle'.end >= handle.end
           /\ \A j \in 1..handle'.end : cells'[j].w = w => j \in 1..handle.end /\ cells'[j] = cells[j]
<1>1. w \in known /\ w \in acked /\ w \in Handled' /\ finished'[handle'.id] = << >>
  BY DEF Pending
<1>2. w # NoWindow /\ w # cur.w
  BY <1>1 DEF WInv, WriterTypes, WindowsInv, Windows, NoWindow
<1>3. handle.end \in Nat /\ handle.end <= Len(cells) /\ Len(cells) \in Nat
  BY WriterValues DEF WInv, CellsInv
<1>4. CASE AppendSync
  <2>1. /\ wpc = "sync" /\ handle'.id = cur.id /\ handle'.end = handle.end + cur.n + 1
        /\ handle'.windows = Append(handle.windows, cur.w)
        /\ UNCHANGED <<cells, finished>>
    BY <1>4 DEF AppendSync, fileVars
  <2>2. cur # NoAppend /\ Len(cells) = handle.end + cur.n + 1 /\ cur.n \in Nat
    BY <2>1, WriterValues DEF WInv, StepsInv, Appending, LengthInv
  <2>3. w \in Handled
    <3>1. PICK s : s = handle.windows
      OBVIOUS
    <3>2. PICK t : t = handle'.windows
      OBVIOUS
    <3>3. s \in Seq(Windows) /\ t = Append(s, cur.w) /\ w \in ToSet(t)
      BY <1>1, <2>1, <3>1, <3>2 DEF WInv, WriterTypes, Handled
    <3>4. Len(t) = Len(s) + 1 /\ Len(s) \in Nat /\ DOMAIN t = 1..Len(s) + 1
          /\ t[Len(s) + 1] = cur.w /\ \A i \in 1..Len(s) : t[i] = s[i]
      BY <3>3
    <3>5. PICK i \in 1..Len(s) + 1 : t[i] = w
      BY <3>3, <3>4 DEF ToSet
    <3>6. i \in 1..Len(s)
      BY <1>2, <3>4, <3>5
    <3> QED
      BY <3>1, <3>3, <3>4, <3>5, <3>6 DEF Handled, ToSet
  <2>4. handle.id # NoId
    BY <2>3 DEF WInv, IdsInv, Handled, ToSet
  <2>5. cur.id = handle.id
    BY <2>2, <2>4 DEF WInv, StepsInv
  <2>6. Pending(w)
    BY <1>1, <2>1, <2>3, <2>5 DEF Pending
  <2>7. \A j \in 1..handle'.end : cells'[j].w = w => j \in 1..handle.end /\ cells'[j] = cells[j]
    <3> SUFFICES ASSUME NEW j \in 1..handle'.end, cells[j].w = w PROVE j \in 1..handle.end
      BY <2>1
    <3>1. j \in 1..Len(cells)
      BY <2>1, <2>2
    <3>2. ~(j > handle.end)
      BY <1>2, <3>1 DEF WInv, CellsInv
    <3> QED
      BY <1>3, <3>1, <3>2
  <2>8. handle'.end >= handle.end
    BY <1>3, <2>1, <2>2
  <2> QED
    BY <2>1, <2>5, <2>6, <2>7, <2>8
<1>5. CASE ResetTruncate
  BY <1>1, <1>5 DEF ResetTruncate, NoHandle, Handled, ToSet
<1>6. CASE Publish
  <2>1. /\ wpc = "publish" /\ finished' = [finished EXCEPT ![handle.id] = handle.windows]
        /\ handle' = handle
    BY <1>6 DEF Publish
  <2>2. handle.id \in Ids /\ handle.windows # << >>
    BY <2>1, WriterValues DEF WInv, StepsInv, Appending, Rollback, Resetting, IdsInv
  <2>3. finished'[handle.id] # << >>
    BY <2>1, <2>2 DEF WInv, WriterTypes
  <2> QED
    BY <1>1, <2>1, <2>3
<1>7. CASE ~AppendSync /\ ~ResetTruncate /\ ~Publish
  <2>1. UNCHANGED <<handle, finished>>
    BY <1>7 DEF AppendNext, ResetNext, AppendBegin, AppendHeader, AppendFrame, AppendBody, AppendFails,
                RollbackTruncate, RollbackHeader, Close, ResetMarker, ResetFails, ResetHeader, fileVars
  <2>2. Pending(w)
    BY <1>1, <2>1 DEF Pending, Handled
  <2> QED
    BY <1>3, <1>7, <2>1, <2>2, JournalStays
<1> QED
  BY <1>4, <1>5, <1>6, <1>7

\* A step of the collector leaves what a reader has read right.
LEMMA RWriter == ASSUME WInv, WInv', RInv, AppendNext \/ ResetNext PROVE RInv'
<1> USE DEF RInv
<1>1. Progress
  BY WriterProgress
<1>2. UNCHANGED <<rpc, seen, scan, tree, warned, part, cursor, known, promise>>
  BY <1>1 DEF Progress, readerVars
<1>3. /\ lastId \in Nat /\ lastId' \in Nat /\ lastId <= lastId'
      /\ nextWindow \in Nat /\ nextWindow' \in Nat /\ nextWindow <= nextWindow'
      /\ acked \subseteq acked' /\ undone \subseteq undone'
  <2>1. lastId \in SegmentIds /\ lastId' \in SegmentIds /\ nextWindow \in Nat /\ nextWindow' \in Nat
    BY DEF WInv, WriterTypes
  <2> QED
    BY <2>1, <1>1 DEF Progress, SegmentIds, Ids, NoId
<1>4. \A q \in Listed \cup Turned : q \in Parts /\ q.w \in Windows /\ q.w < nextWindow
  <2>1. \A q \in Listed \cup Turned : q \in Parts
    BY DEF ReaderTypes, Listed, Turned, ToSet
  <2> QED
    BY <2>1 DEF HistoryInv, Parts
<1>5. \A q \in Listed \cup Turned : home'[q.w] = home[q.w]
  BY <1>1, <1>4 DEF Progress
<1>6. Listed' = Listed /\ Turned' = Turned /\ InActive' = InActive
  BY <1>2 DEF Listed, Turned, InActive, WindowsOf
<1>7. \A id \in SegmentIds : Dead(id) => Dead(id)'
  BY <1>1, DeadStays
<1>8. /\ seen.hdr.id \in SegmentIds /\ scan.id \in SegmentIds /\ cursor.id \in SegmentIds
      /\ scan.parts \in Seq(Parts) /\ cursor.parts \in Seq(Parts)
  BY DEF ReaderTypes, Headers
<1>11. ReaderTypes'
  BY <1>2, <1>3 DEF ReaderTypes
<1>10. QuietInv'
  BY <1>2 DEF QuietInv
<1>12. HistoryInv'
  <2>1. seen.hdr.id <= lastId' /\ scan.id <= lastId' /\ cursor.id <= lastId'
    <3>1. \A id \in SegmentIds : id \in Nat
      BY DEF SegmentIds, Ids, NoId
    <3> QED
      BY <1>3, <1>8, <3>1 DEF HistoryInv
  <2>2. \A q \in Listed \cup Turned : q.w < nextWindow'
    BY <1>3, <1>4 DEF Windows
  <2>3. \A i \in tree.found : finished'[i] # << >>
    BY <1>1 DEF HistoryInv, Progress, ReaderTypes
  <2> QED
    BY <2>1, <2>2, <2>3, <1>2, <1>6 DEF HistoryInv
<1>13. LayoutInv'
  BY <1>2, <1>6 DEF LayoutInv, Covers
<1>14. KeptInv'
  <2>1. \A p \in Listed : Kept(p, scan.id)'
    <3> SUFFICES ASSUME NEW p \in Listed PROVE Kept(p, scan.id)'
      OBVIOUS
    <3>1. scan.parts # << >>
      BY DEF Listed, ToSet
    <3>2. PICK id : id = scan.id
      OBVIOUS
    <3>3. id \in Ids /\ id <= lastId /\ Kept(p, id)
      BY <1>8, <3>1, <3>2 DEF HistoryInv, SegmentIds, KeptInv
    <3>4. Kept(p, id)'
      BY <1>4, <3>3, KeptStays
    <3> QED
      BY <1>2, <3>2, <3>4 DEF Kept, Dead, InPlace, Gen
  <2>2. \A q \in Turned : Kept(q, cursor.id)'
    <3> SUFFICES ASSUME NEW q \in Turned PROVE Kept(q, cursor.id)'
      OBVIOUS
    <3>1. cursor.parts # << >>
      BY DEF Turned, ToSet
    <3>2. PICK id : id = cursor.id
      OBVIOUS
    <3>3. id \in Ids /\ id <= lastId /\ Kept(q, id)
      BY <1>8, <3>1, <3>2 DEF HistoryInv, SegmentIds, KeptInv
    <3>4. Kept(q, id)'
      BY <1>4, <3>3, KeptStays
    <3> QED
      BY <1>2, <3>2, <3>4 DEF Kept, Dead, InPlace, Gen
  <2> QED
    BY <2>1, <2>2, <1>6 DEF KeptInv
<1>15. CompleteInv'
  <2>1. \A w \in known : Pending(w)' => Plans(w)' /\ Scans(w)'
    <3> SUFFICES ASSUME NEW w \in known, Pending(w)' PROVE Plans(w)' /\ Scans(w)'
      OBVIOUS
    <3>1. /\ Pending(w) /\ handle'.id = handle.id /\ handle'.end >= handle.end
          /\ \A j \in 1..handle'.end : cells'[j].w = w => j \in 1..handle.end /\ cells'[j] = cells[j]
      BY <1>2, PendingStays DEF ReaderTypes
    <3>2. Plans(w) /\ Scans(w)
      BY <3>1 DEF CompleteInv
    <3>3. Plans(w)'
      BY <1>2, <3>1, <3>2 DEF Plans
    <3>4. Scans(w)'
      BY <1>2, <1>6, <3>1, <3>2 DEF Scans
    <3> QED
      BY <3>3, <3>4
  <2>2. \A w \in known : Finds(w)'
    <3> SUFFICES ASSUME NEW w \in known PROVE Finds(w)'
      OBVIOUS
    <3>1. w \in Windows /\ w < nextWindow
      BY DEF ReaderTypes, WInv, WriterTypes, WindowsInv
    <3>2. home'[w] = home[w]
      BY <1>1, <3>1 DEF Progress
    <3> QED
      BY <1>2, <1>6, <3>2 DEF CompleteInv, Finds
  <2> QED
    BY <2>1, <2>2, <1>2 DEF CompleteInv
<1>16. ExactInv'
  <2>1. Exact => Exact'
    BY <1>2, <1>3, <1>5, <1>6 DEF Exact
  <2>2. Dead(scan.id) => Dead(scan.id)'
    <3>1. PICK id : id = scan.id
      OBVIOUS
    <3> QED
      BY <1>2, <1>7, <1>8, <3>1 DEF Dead, Gen
  <2>3. Confirmed' = Confirmed
    BY <1>2 DEF Confirmed
  <2> QED
    BY <2>1, <2>2, <2>3, <1>2 DEF ExactInv
<1>17. PromiseInv'
  BY <1>2, <1>3, <1>6 DEF PromiseInv
<1>18. PartInv'
  <2>1. Dead(scan.id) => Dead(scan.id)'
    <3>1. PICK id : id = scan.id
      OBVIOUS
    <3> QED
      BY <1>2, <1>7, <1>8, <3>1 DEF Dead, Gen
  <2>2. RightOrUndone => RightOrUndone'
    BY <1>2, <1>3 DEF RightOrUndone, Right
  <2>3. Confirmed' = Confirmed
    BY <1>2 DEF Confirmed
  <2> QED
    BY <2>1, <2>2, <2>3, <1>2 DEF PartInv
<1> QED
  BY <1>10, <1>11, <1>12, <1>13, <1>14, <1>15, <1>16, <1>17, <1>18

-----------------------------------------------------------------------------
(* The steps of the reader. *)

\* A cell of active.wal is of a window of its segment.
LEMMA CellHome ==
    ASSUME WInv, NEW j \in 1..Len(cells), cells[j].w # NoWindow
    PROVE  cells[j].w \in Windows /\ cells[j].w < nextWindow /\ home[cells[j].w] = Gen
<1>1. cells[j].w \in Windows
  BY WriterValues DEF WindowIds
<1>2. CASE cells[j].w \in Handled
  <2>1. handle.id # NoId
    BY <1>2 DEF WInv, IdsInv, Handled, ToSet
  <2> QED
    BY <1>1, <1>2, <2>1 DEF WInv, WindowsInv, Gen
<1>3. CASE cells[j].w \notin Handled
  <2>1. j > handle.end
    BY <1>3, WriterValues DEF WInv, CellsInv
  <2>2. cells[j].w = cur.w /\ cur # NoAppend
    BY <2>1 DEF WInv, CellsInv, NoAppend
  <2> QED
    BY <1>1, <2>2 DEF WInv, WindowsInv, Gen, StepsInv
<1> QED
  BY <1>2, <1>3

\* A segment a reader has read of is the one active.wal holds, or gone.
LEMMA GenOrDead == ASSUME NEW id \in SegmentIds, id # NoId, id <= lastId PROVE Dead(id) \/ id = Gen
BY DEF Dead

\* A part, and where it ends.
LEMMA PartValues ==
    ASSUME NEW q \in Parts
    PROVE  /\ q.w \in Windows /\ q.n \in Nat /\ q.at \in Nat
           /\ End(q) = q.at + q.n + 1 /\ End(q) \in Nat /\ q.at < End(q)
           /\ q = [w |-> q.w, n |-> q.n, at |-> q.at]
<1>1. q.w \in Windows /\ q.n \in Nat /\ q.at \in Nat /\ q = [w |-> q.w, n |-> q.n, at |-> q.at]
  BY DEF Parts
<1>2. End(q) = q.at + q.n + 1
  BY DEF End
<1> QED
  BY <1>1, <1>2

\* Types of what was read.
LEMMA ReaderValues ==
    ASSUME WInv, RInv
    PROVE  /\ Listed \subseteq Parts /\ Turned \subseteq Parts
           /\ scan.pos \in Nat /\ scan.len \in Nat /\ scan.id \in SegmentIds /\ scan.reset \in BOOLEAN
           /\ scan.parts \in Seq(Parts) /\ scan.id <= lastId /\ (scan.parts # << >> => scan.id \in Ids)
           /\ seen.len \in Nat /\ seen.hdr \in Headers
           /\ known \subseteq acked /\ known \subseteq Windows
           /\ (Listed # {} => scan.parts # << >>) /\ (Turned # {} => cursor.id # NoId)
<1> USE DEF RInv
<1>1. Listed \subseteq Parts /\ Turned \subseteq Parts
  BY DEF ReaderTypes, Listed, Turned, ToSet
<1>3. /\ scan.pos \in Nat /\ scan.len \in Nat /\ scan.id \in SegmentIds /\ scan.reset \in BOOLEAN
      /\ scan.parts \in Seq(Parts) /\ seen.len \in Nat /\ seen.hdr \in Headers /\ known \subseteq acked
  BY DEF ReaderTypes
<1>4. scan.id <= lastId /\ (scan.parts # << >> => scan.id \in Ids)
  BY <1>3 DEF HistoryInv, SegmentIds
<1>5. known \subseteq Windows
  BY <1>3 DEF WInv, WriterTypes
<1>6. (Listed # {} => scan.parts # << >>) /\ (Turned # {} => cursor.id # NoId)
  BY DEF Listed, Turned, ToSet, HistoryInv
<1> QED
  BY <1>1, <1>3, <1>4, <1>5, <1>6

\* The windows of the scan.
LEMMA ActiveWindows == InActive = {q.w : q \in Listed}
BY DEF InActive, Listed, WindowsOf, ToSet

\* The writer's part of what the reader's invariant is about.
WriterSame ==
    UNCHANGED <<hdr, cells, finished, wpc, handle, cur, nextWindow, lastId, left, acked, undone, home>>

\* A step of the reader leaves the writer's state alone.
LEMMA WriterSameLemma ==
    ASSUME ListNext \/ ReadNext
    PROVE  WriterSame /\ Gen' = Gen /\ Handled' = Handled
<1>1. WriterSame
  BY ReadersOnlyRead DEF WriterSame, fileVars, writerVars
<1> QED
  BY <1>1 DEF WriterSame, Gen, Handled

\* What was read does not change while only the reader goes on.
LEMMA SameScan ==
    ASSUME WriterSame, UNCHANGED <<scan, cursor>>
    PROVE  /\ Listed' = Listed /\ Turned' = Turned /\ InActive' = InActive
           /\ KeptInv => KeptInv'
           /\ Exact => Exact'
           /\ Dead(scan.id) => Dead(scan.id)'
<1>1. Listed' = Listed /\ Turned' = Turned /\ InActive' = InActive
  BY DEF Listed, Turned, InActive, WindowsOf
<1>2. KeptInv => KeptInv'
  BY <1>1 DEF WriterSame, KeptInv, Kept, Dead, Gen, InPlace
<1>3. Exact => Exact'
  BY <1>1 DEF WriterSame, Exact
<1>4. Dead(scan.id) => Dead(scan.id)'
  BY DEF WriterSame, Dead, Gen
<1> QED
  BY <1>1, <1>2, <1>3, <1>4

\* The listing begins (Begin).
LEMMA BeginLemma == ASSUME WInv, RInv, Begin PROVE RInv'
<1> USE DEF RInv
<1>1. WriterSame /\ Handled' = Handled
  BY WriterSameLemma DEF ListNext
<1>2. /\ rpc = "idle" /\ rpc' = "plan" /\ known' = acked
      /\ UNCHANGED <<seen, scan, tree, warned, part, cursor, promise>>
      /\ seen = Unseen /\ scan = NoScan
  BY DEF Begin, QuietInv
<1>3. Listed' = Listed /\ Turned' = Turned /\ KeptInv'
  BY <1>1, <1>2, SameScan
<1>4. ReaderTypes'
  BY <1>1, <1>2 DEF ReaderTypes, WriterSame, Listing
<1>5. QuietInv' /\ HistoryInv' /\ PromiseInv' /\ PartInv' /\ ExactInv'
  BY <1>1, <1>2, <1>3 DEF QuietInv, HistoryInv, WriterSame, PromiseInv, PartInv, ExactInv, Reading, Opened
<1>6. LayoutInv'
  <2>1. scan.pos = 0
    BY <1>2 DEF NoScan
  <2>2. Covers(scan.parts, scan.pos)
    BY <2>1 DEF Covers
  <2> QED
    BY <2>2, <1>2, <1>3 DEF LayoutInv, Covers
<1>7. CompleteInv'
  BY <1>2 DEF CompleteInv, Plans, Scans, Finds, Unseen
<1> QED
  BY <1>3, <1>4, <1>5, <1>6, <1>7
\* A step that only reads something of active.wal.
SeenTypes ==
    /\ seen \in [at : {"len", "header", "marker", "done", "eof"}, len : Nat, hdr : Headers,
                 reset : BOOLEAN]
    /\ seen.reset => seen.at = "done" /\ seen.len > 1
SeenStep ==
    /\ rpc \in {"plan", "open", "before", "after"}
    /\ UNCHANGED <<rpc, scan, tree, warned, part, cursor, known, promise>>

\* A step of a listing that keeps what the listing has seen keeps the reader's invariant.
LEMMA SeenStepLemma ==
    ASSUME RInv, WriterSame, Handled' = Handled, SeenStep, SeenTypes', seen'.hdr.id <= lastId,
           rpc = "open" /\ Confirmed' => Exact,
           rpc = "after" /\ Confirmed' => RightOrUndone,
           \A w \in known : Pending(w) => Plans(w)'
    PROVE  RInv'
<1> USE DEF RInv
<1>2. rpc \in {"plan", "open", "before", "after"}
      /\ UNCHANGED <<rpc, scan, tree, warned, part, cursor, known, promise>>
  BY DEF SeenStep
<1>3. Listed' = Listed /\ Turned' = Turned /\ InActive' = InActive /\ KeptInv' /\ (Exact => Exact')
      /\ (Dead(scan.id) => Dead(scan.id)')
  BY <1>2, SameScan
<1>4. ReaderTypes'
  BY <1>2 DEF ReaderTypes, WriterSame, SeenTypes
<1>5. QuietInv' /\ LayoutInv' /\ PromiseInv' /\ HistoryInv'
  BY <1>2, <1>3 DEF QuietInv, LayoutInv, Covers, PromiseInv, WriterSame, HistoryInv
<1>6. ExactInv' /\ PartInv'
  <2>1. RightOrUndone => RightOrUndone'
    BY <1>2 DEF RightOrUndone, Right, WriterSame
  <2> QED
    BY <1>2, <1>3, <2>1 DEF ExactInv, PartInv
<1>7. CompleteInv'
  <2>1. \A w \in known : Pending(w)' => Pending(w)
    BY <1>2 DEF Pending, WriterSame
  <2>2. \A w \in known : Finds(w)'
    BY <1>2, <1>3 DEF CompleteInv, Finds, WriterSame
  <2>3. \A w \in known : Pending(w) => Scans(w)'
    BY <1>2, <1>3 DEF CompleteInv, Scans, WriterSame
  <2> QED
    BY <2>1, <2>2, <2>3, <1>2 DEF CompleteInv
<1> QED
  BY <1>3, <1>4, <1>5, <1>6, <1>7

\* The length of the file is read (ReadLen).
LEMMA ReadLenLemma == ASSUME WInv, RInv, ReadLen PROVE RInv'
<1>1. WriterSame /\ Handled' = Handled
  BY WriterSameLemma DEF ListNext
<1>2. /\ seen' = [at |-> "header", len |-> Len(cells), hdr |-> Empty, reset |-> FALSE]
      /\ SeenStep
  BY DEF ReadLen, Unseen, SeenStep
<1>3. SeenTypes' /\ seen'.hdr.id <= lastId
  <2>1. Len(cells) \in Nat /\ Empty \in Headers /\ Empty.id <= lastId
    BY WriterValues DEF Empty, Headers, SegmentIds, NoId
  <2> QED
    BY <2>1, <1>2 DEF SeenTypes
<1>4. ~Confirmed'
  BY <1>2 DEF Confirmed
<1>5. \A w \in known : Plans(w)'
  <2>1. \A j \in 1..handle.end : j <= Len(cells)
    BY WriterValues DEF WInv, CellsInv
  <2> QED
    BY <1>1, <1>2, <2>1 DEF Plans, WriterSame
<1> QED
  BY <1>1, <1>2, <1>3, <1>4, <1>5, SeenStepLemma

\* The root header is read (ReadHeader): it is that of the segment active.wal
\* holds, or empty.
LEMMA ReadHeaderLemma == ASSUME WInv, RInv, ReadHeader PROVE RInv'
<1>1. WriterSame /\ Handled' = Handled
  BY WriterSameLemma DEF ListNext
<1>2. /\ seen.at = "header"
      /\ seen' = [at |-> IF seen.len > 1 THEN "marker" ELSE "done", len |-> seen.len, hdr |-> hdr,
                  reset |-> FALSE]
      /\ SeenStep
  <2>1. seen = [at |-> seen.at, len |-> seen.len, hdr |-> seen.hdr, reset |-> seen.reset]
        /\ (seen.reset => seen.at = "done") /\ seen.reset \in BOOLEAN
    BY DEF RInv, ReaderTypes
  <2>2. seen.at = "header" /\ ~seen.reset
    BY <2>1 DEF ReadHeader
  <2>3. rpc \in {"plan", "open", "before", "after"}
    BY <2>2 DEF RInv, QuietInv, Unseen
  <2>4. seen' = [at |-> IF seen.len > 1 THEN "marker" ELSE "done", len |-> seen.len, hdr |-> hdr,
                 reset |-> seen.reset]
    BY <2>1 DEF ReadHeader
  <2> QED
    BY <2>1, <2>2, <2>3, <2>4 DEF ReadHeader, SeenStep
<1>3. hdr \in Headers /\ hdr.id \in {NoId, Gen} /\ hdr.id <= lastId
  BY WriterValues DEF WInv, WriterTypes, IdsInv, NoId
<1>4. SeenTypes' /\ seen'.hdr.id <= lastId
  BY <1>2, <1>3, ReaderValues DEF SeenTypes
<1>5. scan.id # NoId /\ Confirmed' => ~Dead(scan.id)
  <2>1. scan' = scan
    BY <1>2 DEF SeenStep
  <2> QED
    BY <1>2, <1>3, <2>1 DEF Confirmed, Dead
<1>6. rpc = "open" /\ Confirmed' => Exact
  BY <1>5 DEF RInv, ExactInv, HistoryInv
<1>7. rpc = "after" /\ Confirmed' => RightOrUndone
  <2>1. rpc = "after" => scan.parts # << >>
    BY DEF RInv, PartInv, Reading
  <2> QED
    BY <1>5, <2>1 DEF RInv, PartInv, HistoryInv, Reading
<1>8. \A w \in known : Pending(w) => Plans(w)'
  <2> SUFFICES ASSUME NEW w \in known, Pending(w) PROVE Plans(w)'
    OBVIOUS
  <2>1. handle.id # NoId /\ finished[handle.id] = << >>
    BY DEF Pending, WInv, IdsInv, Handled, ToSet
  <2>2. hdr.id = handle.id
    BY <2>1 DEF WInv, IdsInv
  <2>3. Plans(w)
    BY DEF RInv, CompleteInv
  <2> QED
    BY <1>1, <1>2, <2>2, <2>3 DEF Plans, WriterSame, SeenStep
<1> QED
  BY <1>1, <1>2, <1>4, <1>6, <1>7, <1>8, SeenStepLemma

\* What may be a marker is read (ReadMarker).
LEMMA ReadMarkerLemma == ASSUME WInv, RInv, ReadMarker PROVE RInv'
<1>1. WriterSame /\ Handled' = Handled
  BY WriterSameLemma DEF ListNext
<1>2. /\ seen.at = "marker" /\ SeenStep
      /\ seen'.at = IF seen.len > Len(cells) THEN "eof" ELSE "done"
      /\ seen'.len = seen.len /\ seen'.hdr = seen.hdr
      /\ seen' = [at |-> seen'.at, len |-> seen.len, hdr |-> seen.hdr, reset |-> seen'.reset]
      /\ seen'.reset \in BOOLEAN
      /\ seen'.reset => /\ seen.len <= Len(cells)
                        /\ CommittedReset(seen.hdr, seen.len, cells[seen.len])
  <2>1. seen = [at |-> seen.at, len |-> seen.len, hdr |-> seen.hdr, reset |-> seen.reset]
        /\ (seen.reset => seen.at = "done") /\ seen.reset \in BOOLEAN /\ seen.len \in Nat
    BY DEF RInv, ReaderTypes
  <2>2. seen.at = "marker" /\ ~seen.reset /\ Len(cells) \in Nat
    BY <2>1, WriterValues DEF ReadMarker
  <2>3. SeenStep
    BY <2>2 DEF ReadMarker, SeenStep, RInv, QuietInv, Unseen
  <2>4. CASE seen.len > Len(cells)
    <3>1. seen' = [at |-> "eof", len |-> seen.len, hdr |-> seen.hdr, reset |-> FALSE]
      BY <2>1, <2>2, <2>4 DEF ReadMarker
    <3> QED
      BY <2>2, <2>3, <2>4, <3>1
  <2>5. CASE ~(seen.len > Len(cells))
    <3>1. PICK b : b = CommittedReset(seen.hdr, seen.len, cells[seen.len])
      OBVIOUS
    <3>2. seen' = [at |-> "done", len |-> seen.len, hdr |-> seen.hdr, reset |-> b]
      BY <2>1, <2>2, <2>5, <3>1 DEF ReadMarker
    <3>3. b \in BOOLEAN
      BY <3>1 DEF CommittedReset
    <3>4. seen.len <= Len(cells)
      BY <2>1, <2>2, <2>5
    <3> QED
      BY <2>2, <2>3, <2>5, <3>1, <3>2, <3>3, <3>4
  <2> QED
    BY <2>4, <2>5
<1>3. seen.len \in Nat /\ seen.hdr \in Headers /\ seen.hdr.id <= lastId /\ Len(cells) \in Nat
  BY ReaderValues, WriterValues DEF RInv, HistoryInv
<1>4. SeenTypes' /\ seen'.hdr.id <= lastId
  BY <1>2, <1>3 DEF SeenTypes, CommittedReset
<1>5. Confirmed' => Confirmed
  BY <1>2 DEF Confirmed, SeenStep
<1>6. rpc = "open" /\ Confirmed' => Exact
  BY <1>5 DEF RInv, ExactInv
<1>7. rpc = "after" /\ Confirmed' => RightOrUndone
  BY <1>5 DEF RInv, PartInv
<1>8. \A w \in known : Pending(w) => Plans(w)'
  <2> SUFFICES ASSUME NEW w \in known, Pending(w) PROVE Plans(w)'
    OBVIOUS
  <2>1. Plans(w)
    BY DEF RInv, CompleteInv
  <2>2. ~seen'.reset
    <3> SUFFICES ASSUME seen'.reset PROVE FALSE
      OBVIOUS
    <3>1. seen.len \in 1..Len(cells) /\ cells[seen.len].w = NoWindow
      BY <1>2, <1>3 DEF CommittedReset
    <3> QED
      BY <3>1 DEF WInv, CellsInv, Pending
  <2> QED
    BY <1>1, <1>2, <2>1, <2>2 DEF Plans, WriterSame, SeenStep
<1> QED
  BY <1>1, <1>2, <1>4, <1>6, <1>7, <1>8, SeenStepLemma

\* A scan that has met nothing yet, or that found nothing.
LEMMA NothingScanned ==
    ASSUME WInv, RInv, WriterSame, scan'.parts = << >>, scan'.pos = 0, UNCHANGED cursor
    PROVE  /\ Listed' = {} /\ InActive' = {} /\ Turned' = Turned
           /\ KeptInv' /\ Exact' /\ Covers(scan.parts, scan.pos)'
<1>1. Listed' = {} /\ InActive' = {} /\ Turned' = Turned
  BY DEF Listed, InActive, WindowsOf, ToSet, Turned
<1>2. KeptInv'
  BY <1>1 DEF RInv, KeptInv, Kept, WriterSame, Dead, Gen, InPlace
<1>3. Exact'
  <2>1. \A q \in Turned : 0 <= q.at
    BY ReaderValues, PartValues
  <2> QED
    BY <1>1, <2>1 DEF Exact
<1>4. Covers(scan.parts, scan.pos)'
  BY DEF Covers
<1> QED
  BY <1>1, <1>2, <1>3, <1>4

\* active.wal is empty, or its frames are to be scanned (Plan); what could not be
\* read counts as empty (Degrade).
LEMMA PlanLemma ==
    ASSUME WInv, RInv, ListNext, rpc \in {"plan", "frames"}, rpc' \in {"frames", "tree"}, seen' = Unseen,
           scan' \in [id : SegmentIds, len : Nat, reset : BOOLEAN, pos : {0}, parts : {<< >>}],
           scan'.id <= lastId, warned' \in BOOLEAN, rpc' = "frames" /\ ~scan'.reset => scan'.id # NoId,
           UNCHANGED <<tree, part, cursor, known, promise>>,
           \A w \in known : Pending(w) => Scans(w)'
    PROVE  RInv'
<1> USE DEF RInv
<1>1. WriterSame /\ Handled' = Handled
  BY WriterSameLemma
<1>2. scan'.parts = << >> /\ scan'.pos = 0
  OBVIOUS
<1>3. /\ Listed' = {} /\ InActive' = {} /\ Turned' = Turned
      /\ KeptInv' /\ Exact' /\ Covers(scan.parts, scan.pos)'
  BY <1>1, <1>2, NothingScanned
<1>4. ReaderTypes'
  <2>1. seen' \in [at : {"len", "header", "marker", "done", "eof"}, len : Nat, hdr : Headers,
                   reset : BOOLEAN] /\ ~seen'.reset
    BY DEF Unseen, Empty, Headers, SegmentIds
  <2>2. scan' \in [id : SegmentIds, len : Nat, reset : BOOLEAN, pos : Nat, parts : Seq(Parts)]
    <3>1. << >> \in Seq(Parts) /\ 0 \in Nat
      OBVIOUS
    <3>2. PICK s : s = scan'
      OBVIOUS
    <3>3. s \in [id : SegmentIds, len : Nat, reset : BOOLEAN, pos : {0}, parts : {<< >>}]
      BY <3>2
    <3>4. s \in [id : SegmentIds, len : Nat, reset : BOOLEAN, pos : Nat, parts : Seq(Parts)]
      BY <3>1, <3>3
    <3> QED
      BY <3>2, <3>4
  <2> QED
    BY <2>1, <2>2, <1>1 DEF ReaderTypes, WriterSame, Listing
<1>5. QuietInv' /\ HistoryInv'
  <2>1. seen'.hdr.id <= lastId
    BY WriterValues DEF Unseen, Empty, NoId
  <2>2. tree = NoTree /\ QuietInv'
    BY DEF QuietInv
  <2> QED
    BY <2>1, <2>2, <1>1, <1>2, <1>3 DEF HistoryInv, WriterSame
<1>6. LayoutInv'
  BY <1>2, <1>3 DEF LayoutInv, Covers
<1>7. ExactInv' /\ PromiseInv' /\ PartInv'
  BY <1>2, <1>3 DEF ExactInv, PromiseInv, PartInv, Opened, Reading
<1>8. CompleteInv'
  <2>1. \A w \in known : Pending(w)' => Pending(w)
    BY <1>1 DEF Pending, WriterSame
  <2>2. \A w \in known : Plans(w)'
    BY DEF Plans
  <2>3. \A w \in known : Finds(w)'
    BY DEF Finds, QuietInv, NoTree
  <2> QED
    BY <2>1, <2>2, <2>3 DEF CompleteInv
<1> QED
  BY <1>3, <1>4, <1>5, <1>6, <1>7, <1>8

\* read_journal_plan.
LEMMA PlanSteps == ASSUME WInv, RInv, Plan PROVE RInv'
<1>1. /\ rpc = "plan" /\ seen.at = "done" /\ seen' = Unseen
      /\ UNCHANGED <<tree, warned, part, cursor, known, promise>>
      /\ WriterSame /\ Handled' = Handled /\ ListNext
  BY WriterSameLemma DEF Plan, Planned, ListNext
<1>2. /\ seen.len \in Nat /\ seen.hdr.id \in SegmentIds /\ seen.reset \in BOOLEAN
      /\ (seen.reset => seen.len > 1) /\ seen.hdr.id <= lastId /\ warned \in BOOLEAN
  BY DEF RInv, ReaderTypes, Headers, HistoryInv
<1>3. \A w \in known : Pending(w) => Plans(w) /\ handle.id # NoId
  BY DEF RInv, CompleteInv, Pending, WInv, IdsInv, Handled, ToSet
<1>4. CASE PlannedEmpty
  <2>1. rpc' = "tree" /\ scan' = [id |-> NoId, len |-> 0, reset |-> FALSE, pos |-> 0, parts |-> << >>]
    BY <1>4 DEF Plan, NoScan
  <2>2. \A w \in known : ~Pending(w)
    BY <1>1, <1>3, <1>4 DEF Plans, PlannedEmpty, Empty
  <2>3. scan' \in [id : SegmentIds, len : Nat, reset : BOOLEAN, pos : {0}, parts : {<< >>}]
        /\ scan'.id <= lastId
    BY <2>1, WriterValues DEF SegmentIds, NoId
  <2> QED
    BY <2>1, <2>2, <2>3, <1>1, <1>2, PlanLemma
<1>5. CASE ~PlannedEmpty
  <2>1. rpc' = "frames"
        /\ scan' = [id |-> seen.hdr.id, len |-> IF seen.reset THEN seen.len - 1 ELSE seen.len,
                    reset |-> seen.reset, pos |-> 0, parts |-> << >>]
    BY <1>5 DEF Plan, NoScan
  <2>2. scan' \in [id : SegmentIds, len : Nat, reset : BOOLEAN, pos : {0}, parts : {<< >>}]
        /\ scan'.id <= lastId
    BY <2>1, <1>2
  <2>3. ~scan'.reset => scan'.id # NoId
    BY <1>5, <2>1 DEF Plan, Planned, PlannedFrames
  <2>4. ASSUME NEW w \in known, Pending(w) PROVE Scans(w)'
    <3>1. seen.hdr.id = handle.id /\ ~seen.reset /\ \A j \in 1..handle.end : cells[j].w = w => j <= seen.len
      BY <1>1, <1>3, <2>4 DEF Plans
    <3>2. scan'.id = handle'.id /\ ~scan'.reset /\ scan'.len = seen.len /\ scan'.pos = 0
      BY <1>1, <2>1, <3>1 DEF WriterSame
    <3>3. \A j \in 1..handle'.end : cells'[j].w = w /\ cells'[j].k = 0 => j <= scan'.len /\ scan'.pos < j
      BY <1>1, <3>1, <3>2, WriterValues DEF WriterSame
    <3> QED
      BY <2>1, <3>2, <3>3 DEF Scans
  <2> QED
    BY <2>1, <2>2, <2>3, <2>4, <1>1, <1>2, PlanLemma
<1> QED
  BY <1>4, <1>5

\* complete_journal_scan of a file that could not be read in full.
LEMMA DegradeLemma == ASSUME WInv, RInv, Degrade PROVE RInv'
<1>1. /\ rpc \in {"plan", "frames"} /\ seen' = Unseen /\ rpc' = "tree" /\ warned' = TRUE
      /\ scan' = [id |-> NoId, len |-> 0, reset |-> FALSE, pos |-> 0, parts |-> << >>]
      /\ UNCHANGED <<tree, part, cursor, known, promise>>
      /\ WriterSame /\ ListNext
  BY WriterSameLemma DEF Degrade, ListNext, NoScan
<1>2. \A w \in known : Scans(w)'
  BY <1>1 DEF Scans
<1>3. scan' \in [id : SegmentIds, len : Nat, reset : BOOLEAN, pos : {0}, parts : {<< >>}]
      /\ scan'.id <= lastId
  BY <1>1, WriterValues DEF SegmentIds, NoId
<1> QED
  BY <1>1, <1>2, <1>3, PlanLemma

\* The scan has come to its end (ScanEnds).
LEMMA ScanEndsLemma == ASSUME WInv, RInv, ScanEnds PROVE RInv'
<1> USE DEF RInv
<1>1. WriterSame /\ Handled' = Handled
  BY WriterSameLemma DEF ListNext
<1>2. /\ rpc = "frames" /\ rpc' = "tree" /\ scan.pos = scan.len
      /\ UNCHANGED <<seen, scan, tree, warned, part, cursor, known, promise>>
  BY DEF ScanEnds
<1>3. Listed' = Listed /\ Turned' = Turned /\ InActive' = InActive /\ KeptInv' /\ (Exact => Exact')
      /\ (Dead(scan.id) => Dead(scan.id)')
  BY <1>1, <1>2, SameScan
<1>4. ReaderTypes' /\ QuietInv' /\ HistoryInv'
  BY <1>1, <1>2, <1>3 DEF ReaderTypes, WriterSame, Listing, QuietInv, HistoryInv
<1>5. LayoutInv' /\ PromiseInv' /\ PartInv' /\ ExactInv'
  BY <1>2, <1>3 DEF LayoutInv, Covers, Listing, PromiseInv, PartInv, Reading, Opened, ExactInv
<1>6. CompleteInv'
  <2>1. \A w \in known : Pending(w)' => Pending(w)
    BY <1>1, <1>2 DEF Pending, WriterSame
  <2>2. \A w \in known : Pending(w) => Scans(w)'
    BY <1>1, <1>2, <1>3 DEF CompleteInv, Scans, WriterSame
  <2>3. \A w \in known : Finds(w)' /\ Plans(w)'
    BY <1>2 DEF Finds, Plans, QuietInv, NoTree
  <2> QED
    BY <2>1, <2>2, <2>3, <1>2 DEF CompleteInv
<1> QED
  BY <1>3, <1>4, <1>5, <1>6

\* A valid frame is a part in place, of the segment active.wal holds, and no other
\* part in place begins inside it.
ScannedPart == [w |-> cells[scan.pos + 1].w, n |-> cells[scan.pos + 1].n, at |-> scan.pos]

\* A frame that the scan accepts is a part of the current generation, whole in its cells.
LEMMA ValidFrameLemma ==
    ASSUME WInv, RInv, ValidFrame, NEW p, p = ScannedPart
    PROVE  /\ p \in Parts /\ InPlace(p) /\ p.at = scan.pos /\ scan.pos < End(p) /\ End(p) <= scan.len
           /\ p.w < nextWindow /\ home[p.w] = Gen
           /\ \A j \in 1..Len(cells) : scan.pos < j /\ j <= End(p) => cells[j].w = p.w
           /\ \A j \in 1..Len(cells) : scan.pos < j /\ j <= End(p) /\ cells[j].k = 0 => j = scan.pos + 1
<1>1. PICK c : c = cells[scan.pos + 1]
  OBVIOUS
<1>2. PICK x : x = scan.pos
  OBVIOUS
<1>3. x \in Nat /\ Len(cells) \in Nat /\ x < Len(cells) /\ x + 1 \in 1..Len(cells) /\ cells \in Seq(Cells)
  <2>1. x \in Nat /\ Len(cells) \in Nat /\ cells \in Seq(Cells)
    BY <1>2, ReaderValues, WriterValues DEF WInv, WriterTypes
  <2>2. x < Len(cells)
    BY <1>2 DEF ValidFrame
  <2> QED
    BY <2>1, <2>2
<1>4. c \in Cells /\ c.w \in Windows /\ c.w < nextWindow /\ home[c.w] = Gen /\ c.n \in Nat
  BY <1>1, <1>2, <1>3, CellHome, WriterValues DEF ValidFrame, Cells
<1>5. /\ x + c.n + 1 <= scan.len /\ x + c.n + 1 <= Len(cells)
      /\ SubSeq(cells, x + 1, x + c.n + 1) = Frame(c.w, c.n)
  BY <1>1, <1>2 DEF ValidFrame
<1>6. \A i \in 1..c.n + 1 : cells[x + i] = [w |-> c.w, k |-> i - 1, n |-> c.n]
  <2> SUFFICES ASSUME NEW i \in 1..c.n + 1 PROVE cells[x + i] = [w |-> c.w, k |-> i - 1, n |-> c.n]
    OBVIOUS
  <2>1. PICK y : y = x + c.n + 1
    OBVIOUS
  <2>2. y \in Nat /\ y <= Len(cells) /\ i \in 1..(y - (x + 1) + 1) /\ (x + 1) + i - 1 = x + i
    <3>1. PICK n : n = c.n
      OBVIOUS
    <3>2. n \in Nat /\ y = x + n + 1 /\ i \in 1..n + 1 /\ y <= Len(cells)
      BY <1>4, <1>5, <2>1, <3>1
    <3> QED
      BY <1>3, <3>2
  <2>3. SubSeq(cells, x + 1, y)[i] = cells[(x + 1) + i - 1]
    BY <1>3, <2>2
  <2>4. Frame(c.w, c.n)[i] = [w |-> c.w, k |-> i - 1, n |-> c.n]
    BY <1>4, FrameCells
  <2> QED
    BY <1>5, <2>1, <2>2, <2>3, <2>4
<1>7. p = [w |-> c.w, n |-> c.n, at |-> x] /\ p \in Parts /\ End(p) = x + c.n + 1
  BY <1>1, <1>2, <1>3, <1>4 DEF ScannedPart, Parts, End
<1>8. InPlace(p)
  BY <1>5, <1>6, <1>7 DEF InPlace
<1>9. ASSUME NEW j \in 1..Len(cells), x < j, j <= End(p)
      PROVE  cells[j].w = c.w /\ (cells[j].k = 0 => j = x + 1)
  <2>1. PICK i : i = j - x
    OBVIOUS
  <2>2. i \in 1..c.n + 1 /\ x + i = j
    BY <1>3, <1>4, <1>7, <1>9, <2>1
  <2>3. cells[j] = [w |-> c.w, k |-> i - 1, n |-> c.n]
    BY <1>6, <2>2
  <2>4. cells[j].w = c.w /\ cells[j].k = i - 1
    BY <2>3
  <2> QED
    BY <2>2, <2>4
<1>10. x < End(p)
  BY <1>3, <1>4, <1>7
<1>11. p.at = x /\ p.w = c.w
  BY <1>7
<1> QED
  BY <1>2, <1>4, <1>5, <1>7, <1>8, <1>9, <1>10, <1>11

\* A frame is scanned: the part is of the segment of the scan unless that is gone,
\* and what an earlier page read behind it was not jumped over (ScanFrame).
LEMMA ScanFrameLemma == ASSUME WInv, RInv, ScanFrame PROVE RInv'
<1> USE DEF RInv
<1>1. WriterSame /\ Handled' = Handled
  BY WriterSameLemma DEF ListNext
<1>2. PICK p : p = ScannedPart
  OBVIOUS
<1>3. /\ rpc = "frames" /\ scan.pos < scan.len /\ ValidFrame
      /\ scan' = [id |-> scan.id, len |-> scan.len, reset |-> scan.reset, pos |-> End(p),
                  parts |-> IF scan.reset THEN scan.parts ELSE Append(scan.parts, p)]
      /\ UNCHANGED <<rpc, seen, tree, warned, part, cursor, known, promise>>
  <2>1. scan = [id |-> scan.id, len |-> scan.len, reset |-> scan.reset, pos |-> scan.pos,
                parts |-> scan.parts]
    BY DEF ReaderTypes
  <2> QED
    BY <1>2, <2>1 DEF ScanFrame, ScannedPart
<1>4. /\ p \in Parts /\ InPlace(p) /\ p.at = scan.pos /\ scan.pos < End(p) /\ End(p) <= scan.len
      /\ p.w < nextWindow /\ home[p.w] = Gen
      /\ \A j \in 1..Len(cells) : scan.pos < j /\ j <= End(p) => cells[j].w = p.w
      /\ \A j \in 1..Len(cells) : scan.pos < j /\ j <= End(p) /\ cells[j].k = 0 => j = scan.pos + 1
  BY <1>2, <1>3, ValidFrameLemma
<1>5. End(p) \in Nat /\ scan.pos \in Nat /\ scan.parts \in Seq(Parts) /\ Len(scan.parts) \in Nat
  BY <1>4, ReaderValues, PartValues
<1>6. scan'.parts \in Seq(Parts) /\ scan'.pos = End(p) /\ scan'.id = scan.id /\ scan'.len = scan.len
      /\ scan'.reset = scan.reset
  BY <1>3, <1>4, <1>5
<1>7. Listed' = (IF scan.reset THEN Listed ELSE Listed \cup {p}) /\ Turned' = Turned
  <2>1. CASE scan.reset
    BY <1>3, <2>1 DEF Listed, Turned
  <2>2. CASE ~scan.reset
    <3>1. PICK s : s = scan.parts
      OBVIOUS
    <3>2. PICK t : t = scan'.parts
      OBVIOUS
    <3>3. s \in Seq(Parts) /\ t = Append(s, p)
      BY <1>3, <1>5, <2>2, <3>1, <3>2
    <3>4. Len(t) = Len(s) + 1 /\ Len(s) \in Nat /\ DOMAIN t = 1..Len(s) + 1 /\ DOMAIN s = 1..Len(s)
          /\ t[Len(s) + 1] = p /\ \A i \in 1..Len(s) : t[i] = s[i]
      BY <1>4, <3>3
    <3>5. \A i \in 1..Len(s) + 1 : i \in 1..Len(s) \/ i = Len(s) + 1
      BY <3>4
    <3>6. Len(s) + 1 \in 1..Len(s) + 1 /\ \A i \in 1..Len(s) : i \in 1..Len(s) + 1
      BY <3>4
    <3>7. ToSet(t) = ToSet(s) \cup {p}
      BY <3>4, <3>5, <3>6 DEF ToSet
    <3> QED
      BY <1>3, <2>2, <3>1, <3>2, <3>7 DEF Listed, Turned
  <2> QED
    BY <2>1, <2>2
<1>8. ~scan.reset => scan.id # NoId /\ scan.id <= lastId /\ scan.id \in SegmentIds
  BY <1>3, ReaderValues DEF HistoryInv
<1>11. ReaderTypes'
  <2>1. scan' \in [id : SegmentIds, len : Nat, reset : BOOLEAN, pos : Nat, parts : Seq(Parts)]
    <3>1. PICK s : s = scan'.parts
      OBVIOUS
    <3>2. PICK e : e = End(p)
      OBVIOUS
    <3>3. s \in Seq(Parts) /\ e \in Nat /\ scan.id \in SegmentIds /\ scan.len \in Nat
          /\ scan.reset \in BOOLEAN
      BY <1>5, <1>6, <3>1, <3>2, ReaderValues
    <3>4. scan' = [id |-> scan.id, len |-> scan.len, reset |-> scan.reset, pos |-> e, parts |-> s]
      BY <1>3, <3>1, <3>2
    <3> QED
      BY <3>3, <3>4
  <2> QED
    BY <1>1, <1>3, <2>1 DEF ReaderTypes, WriterSame
<1>12. QuietInv'
  BY <1>3 DEF QuietInv
<1>13. HistoryInv'
  <2>1. scan'.parts # << >> => ~scan.reset
    BY <1>3 DEF HistoryInv
  <2>2. \A q \in Listed' \cup Turned' : q.w < nextWindow
    BY <1>4, <1>7 DEF HistoryInv
  <2> QED
    BY <2>1, <2>2, <1>1, <1>3, <1>6, <1>8 DEF HistoryInv, WriterSame
<1>14. LayoutInv'
  <2>1. \A q \in Listed' : End(q) <= scan'.pos
    <3>1. \A q \in Listed : End(q) \in Nat /\ End(q) <= scan.pos
      BY ReaderValues, PartValues DEF LayoutInv
    <3> QED
      BY <1>4, <1>5, <1>6, <1>7, <3>1
  <2>2. \A i, j \in DOMAIN scan'.parts : i < j => End(scan'.parts[i]) <= scan'.parts[j].at
    <3>1. CASE scan.reset
      BY <1>3, <3>1 DEF LayoutInv
    <3>2. CASE ~scan.reset
      <4> SUFFICES ASSUME NEW i \in DOMAIN scan'.parts, NEW j \in DOMAIN scan'.parts, i < j
                   PROVE  End(scan'.parts[i]) <= scan'.parts[j].at
        OBVIOUS
      <4>1. PICK s : s = scan.parts
        OBVIOUS
      <4>2. PICK t : t = scan'.parts
        OBVIOUS
      <4>3. s \in Seq(Parts) /\ t = Append(s, p)
        BY <1>3, <1>5, <3>2, <4>1, <4>2
      <4>4. Len(t) = Len(s) + 1 /\ Len(s) \in Nat /\ DOMAIN t = 1..Len(s) + 1 /\ DOMAIN s = 1..Len(s)
            /\ t[Len(s) + 1] = p /\ \A m \in 1..Len(s) : t[m] = s[m]
        BY <1>4, <4>3
      <4>5. i \in 1..Len(s) /\ (j \in 1..Len(s) \/ j = Len(s) + 1)
        BY <4>2, <4>4
      <4>6. CASE j \in 1..Len(s)
        BY <4>1, <4>2, <4>4, <4>5, <4>6 DEF LayoutInv
      <4>7. CASE j = Len(s) + 1
        <5>1. s[i] \in Listed
          BY <4>1, <4>4, <4>5 DEF Listed, ToSet
        <5>2. End(s[i]) <= scan.pos
          BY <5>1 DEF LayoutInv
        <5> QED
          BY <1>4, <4>2, <4>4, <4>5, <4>7, <5>2
      <4> QED
        BY <4>5, <4>6, <4>7
    <3> QED
      BY <3>1, <3>2
  <2>3. ~scan'.reset => Covers(scan.parts, scan.pos)'
    <3> SUFFICES ASSUME ~scan'.reset, NEW x \in Nat, x < scan'.pos
                 PROVE  \E q \in Listed' : q.at <= x /\ x < End(q)
      BY DEF Covers, Listed
    <3>1. Listed' = Listed \cup {p}
      BY <1>6, <1>7
    <3>2. CASE x < scan.pos
      <4>1. Covers(scan.parts, scan.pos)
        BY <1>3, <1>6 DEF LayoutInv, Listing
      <4> QED
        BY <3>1, <3>2, <4>1 DEF Covers, Listed
    <3>3. CASE ~(x < scan.pos)
      BY <1>4, <1>5, <1>6, <3>1, <3>3
    <3> QED
      BY <3>2, <3>3
  <2>4. (\A q \in Turned' : End(q) <= cursor'.position) /\ Covers(cursor.parts, cursor.position)'
    BY <1>3, <1>7 DEF LayoutInv, Covers
  <2> QED
    BY <2>1, <2>2, <2>3, <2>4, <1>3 DEF LayoutInv
<1>15. KeptInv'
  <2>1. \A q \in Listed' : Kept(q, scan.id)
    BY <1>4, <1>7 DEF KeptInv, Kept
  <2>2. \A q \in Turned' : Kept(q, cursor.id)
    BY <1>7 DEF KeptInv
  <2> QED
    BY <2>1, <2>2, <1>1, <1>3, <1>6 DEF KeptInv, Kept, WriterSame, Dead, Gen, InPlace
<1>16. CompleteInv'
  <2>1. \A w \in known : Pending(w)' => Pending(w)
    BY <1>1, <1>3 DEF Pending, WriterSame
  <2>2. \A w \in known : Finds(w)' /\ Plans(w)'
    BY <1>3 DEF Finds, Plans
  <2>3. ASSUME NEW w \in known, Pending(w) PROVE Scans(w)'
    <3>1. Scans(w)
      BY <2>3 DEF CompleteInv
    <3>2. CASE warned
      BY <1>3, <3>2 DEF Scans
    <3>3. CASE ~warned
      <4>1. /\ scan.id = handle.id /\ ~scan.reset
            /\ \A j \in 1..handle.end : cells[j].w = w /\ cells[j].k = 0 =>
                  j <= scan.len /\ (w \in InActive \/ scan.pos < j)
        BY <1>3, <3>1, <3>3 DEF Scans
      <4>2. ASSUME NEW j \in 1..handle.end, cells[j].w = w, cells[j].k = 0
            PROVE  j <= scan.len /\ (w \in InActive' \/ End(p) < j)
        <5>1. InActive' = {q.w : q \in Listed'} /\ InActive = {q.w : q \in Listed}
          BY DEF InActive, Listed, WindowsOf, ToSet
        <5>2. CASE w \in InActive
          BY <4>1, <4>2, <5>1, <5>2, <1>7
        <5>3. CASE scan.pos < j /\ j <= End(p)
          <6>1. j \in 1..Len(cells)
            BY WriterValues DEF WInv, CellsInv
          <6>2. p.w = w
            BY <1>4, <4>2, <5>3, <6>1
          <6> QED
            BY <4>1, <4>2, <5>1, <6>2, <1>7
        <5>4. CASE End(p) < j
          BY <4>1, <4>2, <5>4
        <5> QED
          BY <4>1, <4>2, <5>2, <5>3, <5>4, <1>5
      <4> QED
        BY <4>1, <4>2, <1>1, <1>3, <1>6 DEF Scans, WriterSame
    <3> QED
      BY <3>2, <3>3
  <2> QED
    BY <2>1, <2>2, <2>3, <1>3 DEF CompleteInv
<1>17. ExactInv'
  <2>1. Dead(scan.id) => Dead(scan.id)'
    BY <1>1, <1>6 DEF Dead, Gen, WriterSame
  <2>2. ASSUME ~Dead(scan.id) PROVE Exact'
    <3>1. Exact
      BY <1>3, <2>2 DEF ExactInv
    <3>2. \A q \in Listed' : home[q.w] = scan.id
      <4>1. ~scan.reset => home[p.w] = scan.id
        BY <1>4, <1>8, <2>2 DEF Dead
      <4> QED
        BY <3>1, <4>1, <1>7 DEF Exact
    <3>3. ASSUME scan.id = cursor.id, ~scan.reset, NEW q \in Turned
          PROVE  q.w \in undone \/ q \in Listed' \/ End(p) <= q.at
      <4>1. q.w \in undone \/ q \in Listed \/ scan.pos <= q.at
        BY <3>1, <3>3 DEF Exact
      <4>2. /\ q \in Parts /\ q.at \in Nat /\ q.n \in Nat /\ End(q) = q.at + q.n + 1
            /\ q = [w |-> q.w, n |-> q.n, at |-> q.at]
        BY ReaderValues, PartValues
      <4>3. CASE scan.pos <= q.at /\ InPlace(q) /\ q.at < End(p)
        <5>1. PICK j : j = q.at + 1
          OBVIOUS
        <5>2. j \in 1..Len(cells) /\ scan.pos < j /\ j <= End(p)
          <6>1. End(q) <= Len(cells) /\ Len(cells) \in Nat
            BY <4>3, WriterValues DEF InPlace
          <6> QED
            BY <6>1, <1>5, <4>2, <4>3, <5>1
        <5>3. cells[j] = [w |-> q.w, k |-> 0, n |-> q.n]
          <6>1. 1 \in 1..q.n + 1 /\ 1 - 1 = 0
            BY <4>2
          <6>2. cells[q.at + 1] = [w |-> q.w, k |-> 1 - 1, n |-> q.n]
            BY <4>3, <6>1 DEF InPlace
          <6> QED
            BY <5>1, <6>1, <6>2
        <5>4. j = scan.pos + 1
          BY <1>4, <5>2, <5>3
        <5>5. q.at = scan.pos
          BY <1>5, <4>2, <5>1, <5>4
        <5>6. q = p
          BY <1>2, <4>2, <5>1, <5>3, <5>5 DEF ScannedPart
        <5> QED
          BY <3>3, <5>6, <1>7
      <4>4. CASE Dead(cursor.id)
        BY <2>2, <3>3, <4>4
      <4>5. CASE wpc = "rollback_header" /\ q.w = cur.w /\ q.at >= handle.end
        <5>1. Len(cells) = handle.end /\ handle.end \in Nat
          BY <4>5, WriterValues DEF WInv, LengthInv
        <5>2. End(p) <= Len(cells)
          BY <1>4 DEF InPlace
        <5> QED
          BY <1>5, <4>2, <4>5, <5>1, <5>2
      <4>6. Kept(q, cursor.id)
        BY DEF KeptInv
      <4> QED
        BY <1>5, <1>7, <3>3, <4>1, <4>2, <4>3, <4>4, <4>5, <4>6 DEF Kept
    <3> QED
      BY <3>2, <3>3, <1>1, <1>3, <1>6, <1>7 DEF Exact, WriterSame
  <2> QED
    BY <2>1, <2>2, <1>3 DEF ExactInv
<1>18. PromiseInv' /\ PartInv'
  BY <1>3 DEF PromiseInv, PartInv, Opened, Reading
<1> QED
  BY <1>11, <1>12, <1>13, <1>14, <1>15, <1>16, <1>17, <1>18

\* An acknowledged window is in its segment, or is still to be published.
LEMMA AckedWindows ==
    ASSUME WInv, RInv, NEW w \in known
    PROVE  /\ w \in Windows /\ home[w] \in Ids
           /\ w \in ToSet(finished[home[w]]) \/ (Pending(w) /\ handle.id = home[w])
<1>1. w \in acked /\ w \in Windows
  BY ReaderValues
<1>2. CASE w \in Handled
  <2>1. home[w] = handle.id /\ handle.id # NoId
    BY <1>2 DEF WInv, WindowsInv, IdsInv, Handled, ToSet
  <2>2. handle.id \in Ids
    BY <2>1, WriterValues
  <2>3. CASE finished[handle.id] = << >>
    BY <1>1, <1>2, <2>1, <2>2, <2>3 DEF Pending
  <2>4. CASE finished[handle.id] # << >>
    <3>1. finished[handle.id] = handle.windows
      BY <2>1, <2>4 DEF WInv, StepsInv
    <3> QED
      BY <1>1, <1>2, <2>1, <2>2, <3>1 DEF Handled
  <2> QED
    BY <2>3, <2>4
<1>3. CASE w \notin Handled
  BY <1>1, <1>3 DEF WInv, WindowsInv
<1> QED
  BY <1>2, <1>3

\* The walk passes a name (root.scan): a segment that is not there yet has its
\* windows in what was scanned of active.wal.
LEMMA LookUpLemma == ASSUME WInv, RInv, NEW id \in Ids, LookUp(id) PROVE RInv'
<1> USE DEF RInv
<1>1. WriterSame /\ Handled' = Handled
  BY WriterSameLemma DEF ListNext
<1>2. /\ rpc = "tree"
      /\ tree'.looked = tree.looked \cup {id}
      /\ tree'.found = IF finished[id] = << >> THEN tree.found ELSE tree.found \cup {id}
      /\ UNCHANGED <<rpc, seen, scan, warned, part, cursor, known, promise>>
  BY DEF LookUp
<1>3. Listed' = Listed /\ Turned' = Turned /\ InActive' = InActive /\ KeptInv' /\ (Exact => Exact')
      /\ (Dead(scan.id) => Dead(scan.id)')
  BY <1>1, <1>2, SameScan
<1>4. ReaderTypes' /\ QuietInv' /\ HistoryInv'
  BY <1>1, <1>2, <1>3 DEF ReaderTypes, WriterSame, QuietInv, HistoryInv
<1>5. LayoutInv' /\ PromiseInv' /\ PartInv' /\ ExactInv'
  BY <1>2, <1>3 DEF LayoutInv, Covers, PromiseInv, PartInv, Reading, Opened, ExactInv
<1>6. CompleteInv'
  <2>1. \A w \in known : Pending(w)' => Pending(w)
    BY <1>1, <1>2 DEF Pending, WriterSame
  <2>2. \A w \in known : Pending(w) => Scans(w)' /\ Plans(w)'
    BY <1>1, <1>2, <1>3 DEF CompleteInv, Scans, Plans, WriterSame
  <2>3. ASSUME NEW w \in known PROVE Finds(w)'
    <3>1. CASE home[w] \in tree.looked
      BY <1>1, <1>2, <1>3, <2>3, <3>1 DEF CompleteInv, Finds, WriterSame
    <3>2. CASE home[w] = id
      <4>1. CASE finished[id] # << >>
        BY <1>1, <1>2, <3>2, <4>1 DEF Finds, WriterSame
      <4>2. CASE finished[id] = << >>
        <5>1. Pending(w) /\ handle.id = id
          BY <2>3, <3>2, <4>2, AckedWindows DEF ToSet
        <5>2. Scans(w)
          BY <2>3, <5>1 DEF CompleteInv
        <5>3. PICK j \in 1..handle.end : cells[j].w = w /\ cells[j].k = 0
          BY <5>1 DEF Pending, WInv, CellsInv
        <5>4. warned \/ (scan.id = id /\ w \in InActive)
          <6>1. ASSUME ~warned PROVE scan.id = id /\ w \in InActive
            <7>1. scan.id = handle.id /\ scan.pos = scan.len /\ j <= scan.len
                  /\ (w \in InActive \/ scan.pos < j)
              BY <1>2, <5>2, <5>3, <6>1 DEF Scans
            <7> QED
              BY <5>1, <7>1, ReaderValues
          <6> QED
            BY <6>1
        <5> QED
          BY <1>1, <1>2, <1>3, <3>2, <5>4 DEF Finds, WriterSame
      <4> QED
        BY <4>1, <4>2
    <3>3. CASE home[w] \notin tree.looked /\ home[w] # id
      BY <1>1, <1>2, <3>3 DEF Finds, WriterSame
    <3> QED
      BY <3>1, <3>2, <3>3
  <2> QED
    BY <2>1, <2>2, <2>3, <1>2 DEF CompleteInv
<1> QED
  BY <1>3, <1>4, <1>5, <1>6

\* The listing has both scans (list_segments).
LEMMA ListLemma == ASSUME WInv, RInv, List PROVE RInv'
<1> USE DEF RInv
<1>1. WriterSame /\ Handled' = Handled
  BY WriterSameLemma DEF ListNext
<1>2. /\ rpc = "tree" /\ tree.looked = Ids /\ rpc' = (IF Canonical THEN "listed" ELSE "open")
      /\ scan' = (IF Canonical THEN NoScan ELSE scan) /\ seen = Unseen /\ promise = << >>
      /\ UNCHANGED <<seen, tree, warned, part, cursor, known, promise>>
  BY DEF List, QuietInv, PromiseInv, Opened
<1>3. \A w \in known : \/ home[w] \in tree.found \/ warned
                       \/ scan.id = home[w] /\ w \in InActive
  BY <1>2, AckedWindows DEF CompleteInv, Finds
<1>4. CASE Canonical
  <2>1. rpc' = "listed" /\ scan' = [id |-> NoId, len |-> 0, reset |-> FALSE, pos |-> 0, parts |-> << >>]
    BY <1>2, <1>4 DEF NoScan
  <2>2. /\ Listed' = {} /\ InActive' = {} /\ Turned' = Turned
        /\ KeptInv' /\ Exact' /\ Covers(scan.parts, scan.pos)'
    BY <2>1, <1>1, <1>2, NothingScanned
  <2>3. ReaderTypes'
    <3>1. scan' \in [id : SegmentIds, len : Nat, reset : BOOLEAN, pos : Nat, parts : Seq(Parts)]
      BY <2>1 DEF SegmentIds
    <3> QED
      BY <1>1, <1>2, <2>1, <3>1 DEF ReaderTypes, WriterSame, Listing
  <2>4. QuietInv' /\ HistoryInv'
    BY <1>1, <1>2, <2>1, <2>2, WriterValues DEF QuietInv, HistoryInv, WriterSame, NoId
  <2>5. LayoutInv'
    BY <1>2, <2>1, <2>2 DEF LayoutInv, Covers
  <2>6. CompleteInv'
    <3>1. \A w \in known : home[w] \in tree.found \/ warned
      <4>1. \A w \in InActive : scan.parts # << >>
        BY ActiveWindows, ReaderValues
      <4> QED
        BY <1>3, <1>4, <4>1 DEF Canonical
    <3> QED
      BY <1>1, <1>2, <2>1, <3>1 DEF CompleteInv, Finds, Plans, Scans, WriterSame
  <2>7. ExactInv' /\ PromiseInv' /\ PartInv'
    BY <1>2, <2>1, <2>2 DEF ExactInv, PromiseInv, PartInv, Reading, ToSet
  <2> QED
    BY <2>2, <2>3, <2>4, <2>5, <2>6, <2>7
<1>5. CASE ~Canonical
  <2>1. rpc' = "open" /\ scan' = scan
    BY <1>2, <1>5
  <2>2. Listed' = Listed /\ Turned' = Turned /\ InActive' = InActive /\ KeptInv' /\ (Exact => Exact')
        /\ (Dead(scan.id) => Dead(scan.id)')
    BY <1>1, <1>2, <2>1, SameScan
  <2>3. ReaderTypes' /\ QuietInv' /\ HistoryInv'
    BY <1>1, <1>2, <2>1, <2>2 DEF ReaderTypes, WriterSame, QuietInv, HistoryInv, Listing
  <2>4. LayoutInv' /\ PromiseInv' /\ PartInv'
    BY <1>2, <2>1, <2>2 DEF LayoutInv, Covers, Listing, PromiseInv, PartInv, Reading, Opened
  <2>5. ExactInv'
    <3>1. ~Confirmed'
      BY <1>2 DEF Confirmed, Unseen
    <3> QED
      BY <1>2, <1>5, <2>1, <2>2, <3>1 DEF ExactInv, Canonical
  <2>6. CompleteInv'
    BY <1>1, <1>2, <1>3, <2>1, <2>2 DEF CompleteInv, Finds, Plans, Scans, WriterSame
  <2> QED
    BY <2>2, <2>3, <2>4, <2>5, <2>6
<1> QED
  BY <1>4, <1>5

\* The snapshot of the active prefix is opened: the header read after the scan is
\* that of its segment, which was not gone when its frames were read
\* (validate_active_snapshot).
LEMMA OpenSnapshotLemma == ASSUME WInv, RInv, OpenSnapshot PROVE RInv'
<1> USE DEF RInv
<1>1. WriterSame /\ Handled' = Handled
  BY WriterSameLemma DEF ListNext
<1>2. /\ rpc = "open" /\ rpc' = "listed" /\ seen' = Unseen /\ promise' = scan.parts
      /\ seen.at = "done" /\ seen.hdr.id = scan.id
      /\ UNCHANGED <<scan, tree, warned, part, cursor, known>>
  BY DEF OpenSnapshot, HoldsSnapshot
<1>3. Listed' = Listed /\ Turned' = Turned /\ InActive' = InActive /\ KeptInv' /\ (Exact => Exact')
      /\ (Dead(scan.id) => Dead(scan.id)')
  BY <1>1, <1>2, SameScan
<1>4. ReaderTypes'
  <2>1. seen' \in [at : {"len", "header", "marker", "done", "eof"}, len : Nat, hdr : Headers,
                   reset : BOOLEAN] /\ ~seen'.reset
    BY <1>2 DEF Unseen, Empty, Headers, SegmentIds
  <2> QED
    BY <1>1, <1>2, <2>1 DEF ReaderTypes, WriterSame, Listing
<1>5. QuietInv' /\ HistoryInv'
  <2>1. seen'.hdr.id <= lastId
    BY <1>2, WriterValues DEF Unseen, Empty, NoId
  <2> QED
    BY <2>1, <1>1, <1>2, <1>3 DEF QuietInv, HistoryInv, WriterSame
<1>6. LayoutInv' /\ PartInv'
  BY <1>2, <1>3 DEF LayoutInv, Covers, Listing, PartInv, Reading
<1>9. PromiseInv'
  <2>1. ToSet(promise') = Listed /\ promise' = scan'.parts
    BY <1>2 DEF Listed
  <2> QED
    BY <1>2, <1>3, <2>1 DEF PromiseInv, Opened
<1>7. ExactInv'
  <2>1. Exact
    BY <1>2 DEF ExactInv, Confirmed
  <2> QED
    BY <1>2, <1>3, <2>1 DEF ExactInv
<1>8. CompleteInv'
  BY <1>1, <1>2, <1>3 DEF CompleteInv, Finds, Plans, Scans, WriterSame
<1> QED
  BY <1>3, <1>4, <1>5, <1>6, <1>7, <1>8, <1>9

\* What a request leaves behind is its cursor.
CursorTypes ==
    /\ cursor \in [id : SegmentIds, position : Nat, parts : Seq(Parts)]
    /\ cursor.id <= lastId /\ (cursor.parts # << >> => cursor.id # NoId)
    /\ \A q \in Turned : q.w < nextWindow /\ End(q) <= cursor.position /\ Kept(q, cursor.id)
    /\ Covers(cursor.parts, cursor.position)

\* A listing or a read that is over leaves the reader's invariant standing.
LEMMA OverLemma == ASSUME WInv, RInv, WriterSame, Handled' = Handled, Over, CursorTypes' PROVE RInv'
<1>1. /\ rpc' = "idle" /\ seen' = Unseen /\ scan' = NoScan /\ tree' = NoTree /\ warned' = FALSE
      /\ part' = NoPart /\ known' = {} /\ promise' = << >>
  BY DEF Over
<1>2. scan' = [id |-> NoId, len |-> 0, reset |-> FALSE, pos |-> 0, parts |-> << >>]
      /\ seen' = [at |-> "len", len |-> 0, hdr |-> [id |-> NoId, len |-> 0], reset |-> FALSE]
      /\ tree' = [looked |-> {}, found |-> {}] /\ part' = [i |-> 0, got |-> << >>]
  BY <1>1 DEF NoScan, Unseen, Empty, NoTree, NoPart
<1>3. Listed' = {}
  BY <1>2 DEF Listed, ToSet
<1>4. ReaderTypes'
  <2>1. scan' \in [id : SegmentIds, len : Nat, reset : BOOLEAN, pos : Nat, parts : Seq(Parts)]
    BY <1>2 DEF SegmentIds
  <2>2. seen' \in [at : {"len", "header", "marker", "done", "eof"}, len : Nat, hdr : Headers,
                   reset : BOOLEAN] /\ ~seen'.reset
    BY <1>2 DEF Headers, SegmentIds
  <2>3. part'.i \in Nat /\ part'.got \in Seq(Cells) /\ promise' \in Seq(Parts)
    BY <1>1, <1>2
  <2>4. tree'.looked \subseteq Ids /\ tree'.found \subseteq Ids /\ known' \subseteq acked'
    <3>1. tree'.looked = {} /\ tree'.found = {} /\ known' = {}
      BY <1>1, <1>2
    <3> QED
      BY <3>1
  <2>6. warned' \in BOOLEAN /\ rpc' \in {"idle"} \cup Listing \cup Opened
    BY <1>1
  <2>5. cursor' \in [id : SegmentIds, position : Nat, parts : Seq(Parts)]
    BY DEF CursorTypes
  <2> QED
    BY <2>1, <2>2, <2>3, <2>4, <2>5, <2>6 DEF ReaderTypes
<1>5. QuietInv'
  BY <1>1 DEF QuietInv
<1>6. HistoryInv'
  <2>1. NoId <= lastId'
    BY WriterValues DEF WriterSame, NoId
  <2> QED
    BY <1>1, <1>2, <1>3, <2>1 DEF HistoryInv, CursorTypes
<1>7. LayoutInv' /\ KeptInv'
  BY <1>1, <1>2, <1>3 DEF LayoutInv, Listing, KeptInv, CursorTypes
<1>8. CompleteInv' /\ ExactInv' /\ PartInv'
  BY <1>1 DEF CompleteInv, ExactInv, PartInv, Reading
<1>9. PromiseInv'
  BY <1>1 DEF PromiseInv, Opened, Listing
<1> QED
  BY <1>4, <1>5, <1>6, <1>7, <1>8, <1>9 DEF RInv

\* A request that ends without a cursor leaves the one there was.
LEMMA OverSameCursor == ASSUME WInv, RInv, ListNext \/ ReadNext, Over, UNCHANGED cursor PROVE RInv'
<1>1. WriterSame /\ Handled' = Handled
  BY WriterSameLemma
<1>2. CursorTypes
  BY DEF RInv, CursorTypes, ReaderTypes, HistoryInv, LayoutInv, KeptInv
<1>3. CursorTypes'
  <2>1. Turned' = Turned
    BY DEF Turned
  <2> QED
    BY <1>1, <1>2, <2>1 DEF CursorTypes, WriterSame, Covers, Kept, Dead, Gen, InPlace
<1> QED
  BY <1>1, <1>3, OverLemma

\* A page ends with a cursor (EndPage).
LEMMA EndPageLemma == ASSUME WInv, RInv, EndPage PROVE RInv'
<1>1. WriterSame /\ Handled' = Handled
  BY WriterSameLemma DEF ReadNext
<1>2. /\ rpc = "listed" /\ scan.parts # << >> /\ Over /\ promise = scan.parts
      /\ cursor' = [id |-> scan.id, position |-> scan.len, parts |-> scan.parts]
  BY DEF EndPage, RInv, PromiseInv
<1>3. CursorTypes'
  <2>1. Turned' = Listed
    BY <1>2 DEF Turned, Listed
  <2>2. cursor' \in [id : SegmentIds, position : Nat, parts : Seq(Parts)]
    BY <1>2, ReaderValues
  <2>3. /\ scan.id <= lastId /\ scan.id # NoId /\ ~scan.reset /\ scan.pos = scan.len
        /\ Covers(scan.parts, scan.pos)
        /\ \A q \in Listed : q.w < nextWindow /\ End(q) <= scan.pos /\ Kept(q, scan.id)
    BY <1>2 DEF RInv, HistoryInv, LayoutInv, KeptInv, Listing
  <2>4. Covers(cursor.parts, cursor.position)'
    BY <1>2, <2>3 DEF Covers
  <2>5. \A q \in Listed : Kept(q, cursor.id)'
    BY <1>1, <1>2, <2>3 DEF WriterSame, Kept, Dead, Gen, InPlace
  <2> QED
    BY <1>1, <1>2, <2>1, <2>2, <2>3, <2>4, <2>5 DEF CursorTypes, WriterSame
<1> QED
  BY <1>1, <1>2, <1>3, OverLemma

\* The order of the parts of a scan is that of their places.
LEMMA PartsInOrder ==
    ASSUME WInv, RInv, NEW i \in DOMAIN scan.parts, NEW j \in DOMAIN scan.parts,
           scan.parts[i].at < End(scan.parts[j])
    PROVE  i <= j
<1>1. i \in Nat /\ j \in Nat /\ scan.parts[i] \in Parts /\ scan.parts[j] \in Parts
  BY ReaderValues
<1>2. scan.parts[i].at \in Nat /\ End(scan.parts[j]) \in Nat
  BY <1>1, PartValues
<1>3. j < i => End(scan.parts[j]) <= scan.parts[i].at
  BY DEF RInv, LayoutInv
<1> QED
  BY <1>1, <1>2, <1>3

\* The parts of a scan up to the i-th.
LEMMA FirstParts ==
    ASSUME WInv, RInv, NEW i \in DOMAIN scan.parts, scan'.parts = SubSeq(scan.parts, 1, i)
    PROVE  /\ scan'.parts \in Seq(Parts) /\ DOMAIN scan'.parts = 1..i /\ 1..i \subseteq DOMAIN scan.parts
           /\ \A k \in 1..i : scan'.parts[k] = scan.parts[k]
           /\ Listed' \subseteq Listed
<1>1. PICK s : s = scan.parts
  OBVIOUS
<1>2. PICK t : t = scan'.parts
  OBVIOUS
<1>3. s \in Seq(Parts) /\ i \in 1..Len(s) /\ Len(s) \in Nat
  BY <1>1, ReaderValues
<1>4. t = SubSeq(s, 1, i)
  BY <1>1, <1>2
<1>5. t \in Seq(Parts) /\ Len(t) = i /\ (\A k \in 1..i : t[k] = s[k]) /\ 1..i \subseteq 1..Len(s)
  BY <1>3, <1>4
<1>6. DOMAIN t = 1..i /\ DOMAIN s = 1..Len(s)
  BY <1>3, <1>5
<1>7. ToSet(t) \subseteq ToSet(s)
  BY <1>5, <1>6 DEF ToSet
<1> QED
  BY <1>1, <1>2, <1>5, <1>6, <1>7 DEF Listed

\* A page goes back to its cursor: what it pins are the parts the earlier page had,
\* unless one of them was rolled back (Pin).
LEMMA PinLemma == ASSUME WInv, RInv, Pin PROVE RInv'
<1> USE DEF RInv
<1>1. WriterSame /\ Handled' = Handled
  BY WriterSameLemma DEF ReadNext
<1>2. /\ rpc = "listed" /\ rpc' = "pinned" /\ promise' = cursor.parts /\ scan.id = cursor.id
      /\ UNCHANGED <<seen, tree, warned, part, cursor, known>>
  BY DEF Pin
<1>3. PICK i \in DOMAIN scan.parts :
         /\ End(scan.parts[i]) = cursor.position
         /\ scan' = [scan EXCEPT !.parts = SubSeq(@, 1, i), !.len = cursor.position]
  BY DEF Pin, Prefix
<1>4. /\ scan'.parts = SubSeq(scan.parts, 1, i) /\ scan'.len = cursor.position
      /\ scan'.id = scan.id /\ scan'.reset = scan.reset /\ scan'.pos = scan.pos
      /\ scan' = [id |-> scan.id, len |-> scan'.len, reset |-> scan.reset, pos |-> scan.pos,
                  parts |-> scan'.parts]
  <2>1. scan = [id |-> scan.id, len |-> scan.len, reset |-> scan.reset, pos |-> scan.pos,
                parts |-> scan.parts]
    BY DEF ReaderTypes
  <2> QED
    BY <1>3, <2>1
<1>5. /\ scan'.parts \in Seq(Parts) /\ DOMAIN scan'.parts = 1..i /\ 1..i \subseteq DOMAIN scan.parts
      /\ \A k \in 1..i : scan'.parts[k] = scan.parts[k]
      /\ Listed' \subseteq Listed /\ Turned' = Turned
  BY <1>2, <1>4, FirstParts DEF Turned
<1>6. i \in Nat /\ scan.parts[i] \in Parts /\ scan.parts[i] \in Listed /\ cursor.position \in Nat
  <2>1. i \in Nat /\ scan.parts[i] \in Parts
    BY ReaderValues
  <2>2. scan.parts[i] \in Listed
    BY DEF Listed, ToSet
  <2>3. End(scan.parts[i]) \in Nat
    BY <2>1, PartValues
  <2> QED
    BY <1>3, <2>1, <2>2, <2>3
<1>7. Exact /\ ~scan.reset /\ cursor.position <= scan.pos
  BY <1>2, <1>3, <1>6 DEF ExactInv, HistoryInv, LayoutInv, Listed, ToSet
<1>8. ASSUME NEW q \in Turned PROVE q.w \in undone \/ q \in Listed'
  <2>1. q \in Parts /\ q.at \in Nat /\ End(q) \in Nat /\ q.at < End(q) /\ End(q) <= cursor.position
    BY <1>8, ReaderValues, PartValues DEF LayoutInv
  <2>2. q.w \in undone \/ q \in Listed \/ scan.pos <= q.at
    BY <1>2, <1>7 DEF Exact
  <2>3. CASE scan.pos <= q.at
    BY <1>6, <1>7, <2>1, <2>3, ReaderValues
  <2>4. CASE q \in Listed
    <3>1. PICK m \in DOMAIN scan.parts : q = scan.parts[m]
      BY <2>4 DEF Listed, ToSet
    <3>2. scan.parts[m].at < End(scan.parts[i])
      BY <1>3, <1>6, <2>1, <3>1
    <3>3. m <= i
      BY <3>2, PartsInOrder
    <3>4. m \in 1..i
      BY <1>6, <3>3, ReaderValues
    <3> QED
      BY <1>5, <3>1, <3>4 DEF Listed, ToSet
  <2> QED
    BY <2>2, <2>3, <2>4
<1>9. ASSUME \A q \in Turned : q.w \notin undone, NEW p \in Listed' PROVE p \in Turned
  <2>1. PICK m \in 1..i : p = scan.parts[m]
    BY <1>5, <1>9 DEF Listed, ToSet
  <2>2. m \in DOMAIN scan.parts /\ p \in Parts /\ p.at \in Nat /\ End(p) \in Nat /\ p.at < End(p)
    BY <1>5, <2>1, ReaderValues, PartValues
  <2>3. p.at < cursor.position
    <3>1. CASE m = i
      BY <1>3, <2>1, <2>2, <3>1
    <3>2. CASE m # i
      <4>1. End(scan.parts[m]) <= scan.parts[i].at
        BY <1>6, <2>1, <2>2, <3>2 DEF LayoutInv
      <4>2. scan.parts[i].at \in Nat /\ scan.parts[i].at < End(scan.parts[i])
        BY <1>6, PartValues
      <4> QED
        BY <1>3, <1>6, <2>1, <2>2, <4>1, <4>2
    <3> QED
      BY <3>1, <3>2
  <2>4. PICK q \in Turned : q.at <= p.at /\ p.at < End(q)
    BY <2>2, <2>3 DEF LayoutInv, Covers, Turned
  <2>5. q \in Listed
    BY <1>5, <1>8, <1>9
  <2>6. PICK n \in DOMAIN scan.parts : q = scan.parts[n]
    BY <2>5 DEF Listed, ToSet
  <2>7. m <= n
    BY <2>1, <2>2, <2>4, <2>6, PartsInOrder
  <2>8. n <= m
    <3>1. q.at \in Nat
      BY <2>5, ReaderValues, PartValues
    <3>2. scan.parts[n].at < End(scan.parts[m])
      BY <2>1, <2>2, <2>4, <2>6, <3>1
    <3> QED
      BY <2>2, <3>2, PartsInOrder
  <2>9. m = n
    BY <2>2, <2>7, <2>8, ReaderValues
  <2> QED
    BY <2>1, <2>6, <2>9
<1>11. ReaderTypes'
  <2>1. scan' \in [id : SegmentIds, len : Nat, reset : BOOLEAN, pos : Nat, parts : Seq(Parts)]
    <3>1. PICK s : s = scan'.parts
      OBVIOUS
    <3>2. s \in Seq(Parts) /\ scan.id \in SegmentIds /\ scan'.len \in Nat /\ scan.pos \in Nat
          /\ scan.reset \in BOOLEAN
      BY <1>4, <1>5, <1>6, <3>1, ReaderValues
    <3>3. scan' = [id |-> scan.id, len |-> scan'.len, reset |-> scan.reset, pos |-> scan.pos,
                   parts |-> s]
      BY <1>4, <3>1
    <3> QED
      BY <3>2, <3>3
  <2> QED
    BY <1>1, <1>2, <2>1 DEF ReaderTypes, WriterSame, Opened
<1>12. QuietInv' /\ ExactInv' /\ CompleteInv' /\ PartInv'
  BY <1>2 DEF QuietInv, ExactInv, CompleteInv, Finds, Plans, Scans, PartInv, Reading
<1>13. HistoryInv'
  <2>1. scan.id <= lastId /\ scan.id # NoId
    BY <1>3 DEF HistoryInv
  <2> QED
    BY <1>1, <1>2, <1>4, <1>5, <1>7, <2>1 DEF HistoryInv, WriterSame
<1>14. LayoutInv'
  <2>1. \A j, k \in 1..i : j < k => End(scan.parts[j]) <= scan.parts[k].at
    BY <1>5 DEF LayoutInv
  <2>2. \A j, k \in DOMAIN scan'.parts : j < k => End(scan'.parts[j]) <= scan'.parts[k].at
    BY <1>5, <2>1
  <2> QED
    BY <1>2, <1>4, <1>5, <2>2 DEF LayoutInv, Listing, Covers
<1>15. KeptInv'
  BY <1>1, <1>2, <1>4, <1>5 DEF KeptInv, Kept, WriterSame, Dead, Gen, InPlace
<1>16. PromiseInv'
  <2>1. ToSet(promise') = Turned
    BY <1>2 DEF Turned
  <2>2. \A q \in Turned : q.w \in undone \/ q \in Listed'
    BY <1>8
  <2>3. (\A q \in Turned : q.w \notin undone) => Listed' \subseteq Turned
    BY <1>9
  <2> QED
    BY <1>1, <1>2, <2>1, <2>2, <2>3 DEF PromiseInv, WriterSame, Opened
<1> QED
  BY <1>11, <1>12, <1>13, <1>14, <1>15, <1>16

\* A step of the reading of a part.
ReadingStep == UNCHANGED <<scan, tree, warned, cursor, known, promise>>

\* A step inside a read keeps the reader's invariant when it keeps what was read so far.
LEMMA ReadingStepLemma ==
    ASSUME WInv, RInv, ListNext \/ ReadNext, ReadingStep, rpc \in Opened,
           rpc' \in {"before", "cells", "after", "read"}, seen' = Unseen,
           part'.i \in Nat, part'.got \in Seq(Cells), PartInv'
    PROVE  RInv'
<1> USE DEF RInv
<1>1. WriterSame /\ Handled' = Handled /\ UNCHANGED <<scan, tree, warned, cursor, known, promise>>
  BY WriterSameLemma DEF ReadingStep
<1>2. Listed' = Listed /\ Turned' = Turned /\ KeptInv'
  BY <1>1, SameScan
<1>3. ReaderTypes'
  <2>1. seen' \in [at : {"len", "header", "marker", "done", "eof"}, len : Nat, hdr : Headers,
                   reset : BOOLEAN] /\ ~seen'.reset
    BY DEF Unseen, Empty, Headers, SegmentIds
  <2> QED
    BY <1>1, <2>1 DEF ReaderTypes, WriterSame, Opened
<1>4. QuietInv' /\ HistoryInv'
  <2>1. seen'.hdr.id <= lastId
    BY WriterValues DEF Unseen, Empty, NoId
  <2> QED
    BY <2>1, <1>1, <1>2 DEF QuietInv, HistoryInv, WriterSame
<1>5. LayoutInv' /\ ExactInv' /\ CompleteInv'
  BY <1>1, <1>2 DEF LayoutInv, Listing, Covers, ExactInv, CompleteInv, Finds, Plans, Scans
<1>6. PromiseInv'
  BY <1>1, <1>2 DEF PromiseInv, WriterSame, Opened
<1> QED
  BY <1>2, <1>3, <1>4, <1>5, <1>6

\* A part is to be read (read_part_range).
LEMMA ReadPartLemma == ASSUME WInv, RInv, NEW i \in DOMAIN scan.parts, ReadPart(i) PROVE RInv'
<1>1. /\ rpc \in {"listed", "pinned"} /\ rpc' = "before" /\ part' = [i |-> i, got |-> << >>]
      /\ UNCHANGED <<seen, scan, tree, warned, cursor, known, promise>> /\ seen = Unseen
  BY DEF ReadPart, RInv, QuietInv
<1>2. part'.i = i /\ i \in Nat /\ part'.got = << >> /\ part'.got \in Seq(Cells)
  BY <1>1, ReaderValues
<1>3. PartInv'
  BY <1>1, <1>2 DEF PartInv, Reading
<1> QED
  BY <1>1, <1>2, <1>3, ReadingStepLemma DEF ReadingStep, Opened, ReadNext

\* The snapshot was still there before the read (ReadBegins).
LEMMA ReadBeginsLemma == ASSUME WInv, RInv, ReadBegins PROVE RInv'
<1>1. /\ rpc = "before" /\ rpc' = "cells" /\ seen' = Unseen
      /\ UNCHANGED <<scan, tree, warned, part, cursor, known, promise>>
  BY DEF ReadBegins
<1>2. part.i \in DOMAIN scan.parts /\ part.got = << >> /\ part.i \in Nat /\ part.got \in Seq(Cells)
  BY <1>1 DEF RInv, PartInv, ReaderTypes
<1>3. PartInv'
  <2>1. scan.parts[part.i].n \in Nat
    <3>1. scan.parts[part.i] \in Parts
      BY <1>2, ReaderValues
    <3> QED
      BY <3>1, PartValues
  <2>2. Len(part.got) = 0
    BY <1>2
  <2>3. Right'
    BY <1>1, <2>2 DEF Right
  <2> QED
    BY <1>1, <1>2, <2>1, <2>2, <2>3 DEF PartInv, RightOrUndone, Reading
<1> QED
  BY <1>1, <1>2, <1>3, ReadingStepLemma DEF ReadingStep, Opened, ReadNext

\* A cell is read (ReadCell): it is that of the part, unless the part was rolled
\* back or its segment is gone.
LEMMA ReadCellLemma == ASSUME WInv, RInv, ReadCell PROVE RInv'
<1>p. PICK p : p = scan.parts[part.i]
  OBVIOUS
<1>m. PICK m : m = Len(part.got)
  OBVIOUS
<1>at. PICK at : at = p.at + 1 + m + 1
  OBVIOUS
<1>1. rpc = "cells" /\ m < p.n /\ UNCHANGED cursor
  BY <1>p, <1>m DEF ReadCell
<1>2. /\ part.i \in DOMAIN scan.parts /\ part.i \in Nat /\ part.got \in Seq(Cells)
      /\ RightOrUndone \/ Dead(scan.id)
  BY <1>1 DEF RInv, PartInv, ReaderTypes, Reading
<1>3. p \in Parts /\ p \in Listed /\ p.at \in Nat /\ p.n \in Nat
  <2>1. p \in Parts /\ p \in Listed
    BY <1>p, <1>2, ReaderValues DEF Listed, ToSet
  <2> QED
    BY <2>1, PartValues
<1>4. m \in Nat /\ at \in Nat /\ at >= 1 /\ at = p.at + (m + 2) /\ m + 2 \in 1..p.n + 1 /\ m + 1 <= p.n
  <2>1. m \in Nat
    BY <1>m, <1>2
  <2> QED
    BY <1>at, <1>1, <1>3, <2>1
<1>5. CASE at <= Len(cells)
  <2>1. /\ part' = [part EXCEPT !.got = Append(part.got, cells[at])]
        /\ UNCHANGED <<rpc, seen, scan, tree, warned, known, promise>>
    BY <1>p, <1>m, <1>at, <1>5 DEF ReadCell, Body
  <2>2. part'.i = part.i /\ part'.got = Append(part.got, cells[at])
    BY <2>1 DEF RInv, ReaderTypes
  <2>3. at \in 1..Len(cells) /\ cells[at] \in Cells
    BY <1>4, <1>5, WriterValues
  <2>4. PICK g : g = part'.got
    OBVIOUS
  <2>5. PICK c \in Cells : c = cells[at]
    BY <2>3
  <2>6. g = Append(part.got, c)
    BY <2>2, <2>4, <2>5
  <2>7. g \in Seq(Cells) /\ Len(g) = m + 1 /\ g[m + 1] = c /\ \A k \in 1..m : g[k] = part.got[k]
    BY <1>m, <1>2, <2>6
  <2>8. p.w \in undone \/ Dead(scan.id) \/ c = [w |-> p.w, k |-> m + 1, n |-> p.n]
    <3>1. Kept(p, scan.id)
      BY <1>3 DEF RInv, KeptInv
    <3>2. CASE InPlace(p)
      <4>1. cells[p.at + (m + 2)] = [w |-> p.w, k |-> (m + 2) - 1, n |-> p.n]
        BY <1>4, <3>2 DEF InPlace
      <4>2. (m + 2) - 1 = m + 1
        BY <1>4
      <4> QED
        BY <1>4, <2>5, <4>1, <4>2
    <3>3. CASE wpc = "rollback_header" /\ p.w = cur.w /\ p.at >= handle.end
      <4>1. Len(cells) = handle.end /\ handle.end \in Nat
        BY <3>3, WriterValues DEF WInv, LengthInv
      <4> QED
        BY <1>3, <1>4, <1>5, <3>3, <4>1
    <3> QED
      BY <3>1, <3>2, <3>3 DEF Kept
  <2>9. Right \/ p.w \in undone \/ Dead(scan.id)
    BY <1>p, <1>2 DEF RightOrUndone
  <2>10. WriterSame
    BY WriterSameLemma DEF ReadNext
  <2>11. CASE p.w \in undone \/ Dead(scan.id)
    <3>1. RightOrUndone' \/ Dead(scan.id)'
      BY <1>p, <2>1, <2>2, <2>10, <2>11 DEF RightOrUndone, Dead, Gen, WriterSame
    <3>2. PartInv'
      <4>1. Len(part'.got) <= scan'.parts[part'.i].n /\ part'.i \in DOMAIN scan'.parts
        BY <1>p, <1>2, <1>4, <2>1, <2>2, <2>4, <2>7
      <4> QED
        BY <1>1, <2>1, <3>1, <4>1 DEF PartInv, Reading
    <3> QED
      BY <1>1, <1>2, <2>1, <2>2, <2>4, <2>7, <3>2, ReadingStepLemma
         DEF ReadingStep, Opened, ReadNext, RInv, QuietInv
  <2>12. CASE Right /\ c = [w |-> p.w, k |-> m + 1, n |-> p.n]
    <3>1. \A k \in 1..m + 1 : g[k] = [w |-> p.w, k |-> k, n |-> p.n]
      <4> SUFFICES ASSUME NEW k \in 1..m + 1 PROVE g[k] = [w |-> p.w, k |-> k, n |-> p.n]
        OBVIOUS
      <4>1. k \in 1..m \/ k = m + 1
        BY <1>4
      <4> QED
        BY <1>p, <1>m, <2>7, <2>12, <4>1 DEF Right
    <3>2. Right'
      BY <1>p, <2>1, <2>2, <2>4, <2>7, <3>1 DEF Right
    <3>3. PartInv'
      <4>1. Len(part'.got) <= scan'.parts[part'.i].n /\ part'.i \in DOMAIN scan'.parts
        BY <1>p, <1>2, <1>4, <2>1, <2>2, <2>4, <2>7
      <4> QED
        BY <1>1, <2>1, <3>2, <4>1 DEF PartInv, Reading, RightOrUndone
    <3> QED
      BY <1>1, <1>2, <2>1, <2>2, <2>4, <2>7, <3>3, ReadingStepLemma
         DEF ReadingStep, Opened, ReadNext, RInv, QuietInv
  <2> QED
    BY <2>8, <2>9, <2>11, <2>12
<1>6. CASE ~(at <= Len(cells))
  <2>1. Over
    BY <1>p, <1>m, <1>at, <1>6 DEF ReadCell, Body
  <2> QED
    BY <1>1, <2>1, OverSameCursor DEF ReadNext
<1> QED
  BY <1>5, <1>6

\* The cells are read, and the snapshot is validated again (CellsRead, ReadEnds):
\* the header of its segment means that the segment was not gone before.
LEMMA CellsReadLemma == ASSUME WInv, RInv, CellsRead PROVE RInv'
<1>1. /\ rpc = "cells" /\ rpc' = "after" /\ Len(part.got) = scan.parts[part.i].n
      /\ UNCHANGED <<seen, scan, tree, warned, part, cursor, known, promise>> /\ seen = Unseen
  BY DEF CellsRead, RInv, QuietInv
<1>2. WriterSame
  BY WriterSameLemma DEF ReadNext
<1>3. PartInv'
  <2>1. ~Confirmed'
    BY <1>1 DEF Confirmed, Unseen
  <2>2. (RightOrUndone \/ Dead(scan.id)) => (RightOrUndone' \/ Dead(scan.id)')
    BY <1>1, <1>2 DEF RightOrUndone, Right, Dead, Gen, WriterSame
  <2> QED
    BY <1>1, <2>1, <2>2 DEF RInv, PartInv, Reading
<1> QED
  BY <1>1, <1>3, ReadingStepLemma DEF ReadingStep, Opened, ReadNext, RInv, ReaderTypes

\* The end of a read, in success or in failure, keeps the reader's invariant.
LEMMA ReadEndsLemma == ASSUME WInv, RInv, ReadEnds PROVE RInv'
<1>1. /\ rpc = "after" /\ rpc' = "read" /\ seen' = Unseen /\ seen.at = "done" /\ seen.hdr.id = scan.id
      /\ UNCHANGED <<scan, tree, warned, part, cursor, known, promise>>
  BY DEF ReadEnds, HoldsSnapshot
<1>2. WriterSame
  BY WriterSameLemma DEF ReadNext
<1>3. PartInv'
  <2>1. RightOrUndone
    BY <1>1 DEF RInv, PartInv, Confirmed
  <2>2. RightOrUndone'
    BY <1>1, <1>2, <2>1 DEF RightOrUndone, Right, WriterSame
  <2> QED
    BY <1>1, <2>2 DEF RInv, PartInv, Reading
<1> QED
  BY <1>1, <1>3, ReadingStepLemma DEF ReadingStep, Opened, ReadNext, RInv, ReaderTypes

-----------------------------------------------------------------------------
(* Theorems. *)

\* A state the reader starts in.
LEMMA RInit == Init => RInv
<1> SUFFICES ASSUME Init PROVE RInv
  OBVIOUS
<1>1. /\ rpc = "idle" /\ seen = Unseen /\ tree = NoTree /\ warned = FALSE
      /\ known = {} /\ promise = << >> /\ scan = NoScan
      /\ scan = [id |-> NoId, len |-> 0, reset |-> FALSE, pos |-> 0, parts |-> << >>]
      /\ seen = [at |-> "len", len |-> 0, hdr |-> [id |-> NoId, len |-> 0], reset |-> FALSE]
      /\ tree = [looked |-> {}, found |-> {}] /\ part = [i |-> 0, got |-> << >>]
      /\ cursor = [id |-> NoId, position |-> 0, parts |-> << >>] /\ lastId = NoId
  BY DEF Init, Unseen, Empty, NoTree, NoScan, NoPart, NoCursor
<1>2. Listed = {} /\ Turned = {}
  BY <1>1 DEF Listed, Turned, ToSet
<1>3. ReaderTypes
  <2>1. scan \in [id : SegmentIds, len : Nat, reset : BOOLEAN, pos : Nat, parts : Seq(Parts)]
    BY <1>1 DEF SegmentIds
  <2>2. seen \in [at : {"len", "header", "marker", "done", "eof"}, len : Nat, hdr : Headers,
                  reset : BOOLEAN] /\ ~seen.reset
    BY <1>1 DEF Headers, SegmentIds
  <2>3. cursor \in [id : SegmentIds, position : Nat, parts : Seq(Parts)]
    BY <1>1 DEF SegmentIds
  <2>4. part.i \in Nat /\ part.got \in Seq(Cells) /\ promise \in Seq(Parts)
    BY <1>1
  <2>5. tree.looked = {} /\ tree.found = {}
    BY <1>1
  <2> QED
    BY <1>1, <2>1, <2>2, <2>3, <2>4, <2>5 DEF ReaderTypes
<1>4. QuietInv /\ HistoryInv
  BY <1>1, <1>2 DEF QuietInv, HistoryInv, NoId
<1>5. LayoutInv /\ KeptInv
  BY <1>1, <1>2 DEF LayoutInv, Listing, Covers, KeptInv
<1>6. CompleteInv /\ ExactInv /\ PartInv
  BY <1>1 DEF CompleteInv, ExactInv, PartInv, Reading
<1>7. PromiseInv
  BY <1>1 DEF PromiseInv, Opened, Listing
<1> QED
  BY <1>3, <1>4, <1>5, <1>6, <1>7 DEF RInv

\* A step of the reader.
LEMMA ReaderSteps == ASSUME WInv, RInv, ListNext \/ ReadNext PROVE RInv'
<1>1. CASE ListNext
  <2>1. CASE Stale
    BY <1>1, <2>1, OverSameCursor DEF Stale
  <2>2. CASE \E id \in Ids : LookUp(id)
    BY <2>2, LookUpLemma
  <2> QED
    BY <1>1, <2>1, <2>2, BeginLemma, ReadLenLemma, ReadHeaderLemma, ReadMarkerLemma, PlanSteps,
       ScanFrameLemma, ScanEndsLemma, DegradeLemma, ListLemma, OpenSnapshotLemma DEF ListNext
<1>2. CASE ReadNext
  <2>1. CASE Finish
    BY <1>2, <2>1, OverSameCursor DEF Finish
  <2>2. CASE \E i \in DOMAIN scan.parts : ReadPart(i)
    BY <2>2, ReadPartLemma
  <2> QED
    BY <1>2, <2>1, <2>2, EndPageLemma, PinLemma, ReadBeginsLemma, ReadCellLemma, CellsReadLemma,
       ReadEndsLemma DEF ReadNext
<1> QED
  BY <1>1, <1>2

\* What a reader has read, at whatever moments it read it, is what it means for the
\* segment it was read of, until the header says that the segment is gone
\* (validate_active_snapshot, read before and after whatever is used).
THEOREM ReaderInvariance == Spec => [](WInv /\ RInv)
<1>1. (WInv /\ RInv) /\ [Next]_vars => (WInv /\ RInv)'
  <2> SUFFICES ASSUME WInv, RInv, [Next]_vars PROVE WInv' /\ RInv'
    OBVIOUS
  <2>1. CASE AppendNext \/ ResetNext
    BY <2>1, WriterSteps, RWriter
  <2>2. CASE ListNext \/ ReadNext
    BY <2>2, ReadersOnlyRead, WriterStays, ReaderSteps
  <2>3. CASE UNCHANGED vars
    <3>1. WInv'
      BY <2>3, WriterStays DEF vars
    <3>2. WriterSame /\ Handled' = Handled
          /\ UNCHANGED <<rpc, seen, scan, tree, warned, part, cursor, known, promise>>
      BY <2>3 DEF vars, fileVars, writerVars, readerVars, WriterSame, Handled
    <3>3. Listed' = Listed /\ Turned' = Turned /\ InActive' = InActive /\ KeptInv' /\ (Exact => Exact')
          /\ (Dead(scan.id) => Dead(scan.id)')
      BY <3>2, SameScan DEF RInv
    <3>4. ReaderTypes' /\ QuietInv' /\ HistoryInv' /\ LayoutInv' /\ PromiseInv'
      BY <3>2, <3>3 DEF RInv, ReaderTypes, QuietInv, HistoryInv, LayoutInv, Covers, PromiseInv, WriterSame
    <3>5. ExactInv' /\ PartInv'
      BY <3>2, <3>3 DEF RInv, ExactInv, PartInv, Confirmed, RightOrUndone, Right, WriterSame
    <3>6. CompleteInv'
      BY <3>2, <3>3 DEF RInv, CompleteInv, Pending, Plans, Scans, Finds, WriterSame
    <3> QED
      BY <3>1, <3>3, <3>4, <3>5, <3>6 DEF RInv
  <2> QED
    BY <2>1, <2>2, <2>3 DEF Next
<1>2. Init => WInv /\ RInv
  BY WInit, RInit
<1> QED
  BY <1>1, <1>2, PTL DEF Spec

\* A listing without a warning has every window acknowledged before it began, once
\* and under its own segment (local.rs, complete_journal_scan; discovery.rs,
\* list_segments).
THEOREM ListingsAreExact == Spec => []ListingIsExact
<1>1. WInv /\ RInv => ListingIsExact
  <2> SUFFICES ASSUME WInv, RInv, rpc = "listed"
               PROVE  /\ warned \/ known \subseteq InFinished \cup InActive
                      /\ InFinished \cap InActive = {}
                      /\ \A w \in InActive : home[w] = scan.id
    BY DEF ListingIsExact
  <2>1. \A w \in InActive : home[w] = scan.id
    BY ActiveWindows DEF RInv, ExactInv, Exact
  <2>2. \A i \in tree.found : i \in Ids /\ finished[i] # << >>
    BY DEF RInv, ReaderTypes, HistoryInv
  <2>3. InFinished \cap InActive = {}
    <3> SUFFICES ASSUME NEW i \in tree.found, NEW w \in ToSet(finished[i]), w \in InActive PROVE FALSE
      BY DEF InFinished
    <3>1. home[w] = i
      BY <2>2 DEF WInv, WindowsInv
    <3>2. scan.parts # << >>
      BY ActiveWindows, ReaderValues
    <3> QED
      BY <2>1, <3>1, <3>2 DEF RInv, ExactInv
  <2>4. ASSUME ~warned, NEW w \in known PROVE w \in InFinished \cup InActive
    <3>1. home[w] \in tree.found \/ w \in InActive
      BY <2>4 DEF RInv, CompleteInv, Finds
    <3>2. CASE home[w] \in tree.found
      <4>1. finished[home[w]] # << >>
        BY <2>2, <3>2
      <4>2. w \in ToSet(finished[home[w]])
        BY <4>1, AckedWindows DEF Pending
      <4> QED
        BY <3>2, <4>2 DEF InFinished
    <3> QED
      BY <3>1, <3>2
  <2> QED
    BY <2>1, <2>3, <2>4
<1> QED
  BY <1>1, ReaderInvariance, PTL

\* A part read from a snapshot, or pinned by a later page, is the part that was
\* listed, unless its append was rolled back (snapshot.rs, read_part_range and
\* at_position).
THEOREM CapturedPartsAreRead == Spec => []ReadsCapturedPart
<1>1. WInv /\ RInv => ReadsCapturedPart
  <2> SUFFICES ASSUME WInv, RInv PROVE ReadsCapturedPart
    OBVIOUS
  <2>1. ASSUME NEW q \in ToSet(promise), q.w \notin undone PROVE rpc \in Opened /\ q \in Listed
    BY <2>1 DEF RInv, PromiseInv, ToSet
  <2>2. ASSUME NEW q \in ToSet(promise), q.w \notin undone, rpc = "read",
               q.at = scan.parts[part.i].at
        PROVE  part.got = Tail(Frame(q.w, q.n))
    <3>1. /\ part.i \in DOMAIN scan.parts /\ part.got \in Seq(Cells)
          /\ Len(part.got) = scan.parts[part.i].n /\ RightOrUndone
      BY <2>2 DEF RInv, PartInv, ReaderTypes, Reading
    <3>2. PICK m \in DOMAIN scan.parts : q = scan.parts[m]
      BY <2>1, <2>2 DEF Listed, ToSet
    <3>3. q \in Parts /\ scan.parts[part.i] \in Parts
      BY <3>1, <3>2, ReaderValues
    <3>4. q.w \in Windows /\ q.n \in Nat /\ q.at < End(q)
          /\ scan.parts[part.i].at < End(scan.parts[part.i])
      BY <3>3, PartValues
    <3>5. m <= part.i /\ part.i <= m
      BY <2>2, <3>1, <3>2, <3>4, PartsInOrder
    <3>6. m = part.i
      BY <3>1, <3>5, ReaderValues
    <3>7. Len(part.got) = q.n /\ \A k \in 1..q.n : part.got[k] = [w |-> q.w, k |-> k, n |-> q.n]
      BY <2>2, <3>1, <3>2, <3>6 DEF RightOrUndone, Right
    <3>8. PICK b : b = Tail(Frame(q.w, q.n))
      OBVIOUS
    <3>9. b \in Seq(Cells) /\ Len(b) = q.n /\ \A k \in 1..q.n : b[k] = [w |-> q.w, k |-> k, n |-> q.n]
      BY <3>4, <3>8, FrameCells
    <3>10. part.got = b
      <4>1. PICK g : g = part.got
        OBVIOUS
      <4>2. g \in Seq(Cells) /\ Len(g) = Len(b) /\ \A k \in 1..Len(g) : g[k] = b[k]
        BY <3>1, <3>7, <3>9, <4>1
      <4>3. g = b
        BY <3>9, <4>2, SameCells
      <4> QED
        BY <4>1, <4>3
    <3> QED
      BY <3>8, <3>10
  <2>3. rpc = "pinned" /\ (\A q \in ToSet(promise) : q.w \notin undone) =>
           ToSet(scan.parts) = ToSet(promise)
    BY <2>1 DEF RInv, PromiseInv, Opened, Listed
  <2> QED
    BY <2>1, <2>2, <2>3 DEF ReadsCapturedPart, Listed
<1> QED
  BY <1>1, ReaderInvariance, PTL


=============================================================================
