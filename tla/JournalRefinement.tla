-------------------------- MODULE JournalRefinement --------------------------
(* How Journal implements JournalContract.  The windows are the frames; what *)
(* a caller was told is kept in Journal's history variables.                 *)
EXTENDS Journal

\* The handle accepts calls, or is in the middle of one that may still fail
\* without a trace.
Usable ==
    \/ Healthy
    \/ pc \in {"append_header", "append_frame", "append_body", "append_sync",
               "rollback_truncate", "rollback_header", "rollback_sync",
               "marker_write", "marker_sync"}

Status ==
    IF handle = NoHandle THEN "off"
    ELSE IF handle.poisoned THEN "broken"
    ELSE IF pc = "idle" THEN "ready"
    ELSE IF ~Usable THEN "cleared"
    ELSE IF cur = NoAppend THEN "reset" ELSE "append"

Shown == IF Usable THEN {f \in body.frames : Span(f) \in handle.parts} ELSE {}

C == INSTANCE JournalContract WITH
        Windows <- Frames, None <- NoAppend,
        status <- Status, view <- Shown,
        pending <- IF cur = NoAppend THEN NoAppend ELSE cur.frame,
        kept <- acked, doubt <- limbo, asked <- asked

\* Every write, truncation, synchronisation, failure and crash of active.wal is
\* a step of the contract, or changes nothing a caller of append, reset and open
\* could see: in particular no failed step leaves a usable handle that shows
\* other windows than the contract allows.
ImplementsContract == C!Spec

=============================================================================
