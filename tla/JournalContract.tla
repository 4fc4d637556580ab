--------------------------- MODULE JournalContract ---------------------------
(***************************************************************************)
(* What a journal promises its callers, without files: append either       *)
(* happens, or leaves nothing, or leaves a window in doubt until the next  *)
(* open; reset forgets everything at one instant; a crash at any moment    *)
(* loses no window that append had acknowledged.                           *)
(***************************************************************************)
CONSTANTS
    Windows,   \* what can be appended
    None       \* no append in progress

VARIABLES
    status,    \* of the handle: see Statuses
    view,      \* the windows a usable handle shows
    pending,   \* the window being appended
    kept,      \* windows whose append was acknowledged
    doubt,     \* windows whose append was cut short, or is in progress
    asked      \* a reset was asked for and neither happened nor was taken back

vars == <<status, view, pending, kept, doubt, asked>>

Statuses == {"off", "ready", "append", "reset", "cleared", "broken"}

Init ==
    /\ status = "off"
    /\ view = {} /\ kept = {} /\ doubt = {}
    /\ pending = None
    /\ asked = FALSE

\* A restart shows every acknowledged window, and of those in doubt any.
Start ==
    /\ status = "off"
    /\ status' = "ready"
    /\ kept \subseteq view' /\ view' \subseteq kept \cup doubt
    /\ UNCHANGED <<pending, kept, doubt, asked>>

\* A restart may find, and complete, a reset that was asked for.
CompleteReset ==
    /\ status = "off"
    /\ asked \/ kept = {}
    /\ kept' = {} /\ doubt' = {} /\ asked' = FALSE
    /\ UNCHANGED <<status, view, pending>>

BeginAppend ==
    /\ status = "ready"
    /\ status' = "append"
    /\ pending' \in Windows
    /\ doubt' = doubt \cup {pending'}
    /\ UNCHANGED <<view, kept, asked>>

\* Ok: the window and everything shown before it is safe.
Acknowledge ==
    /\ status = "append"
    /\ status' = "ready"
    /\ view' = view \cup {pending}
    /\ kept' = view'
    /\ doubt' = {} /\ asked' = FALSE
    /\ pending' = None

\* Err: the window will never be seen.
Reject ==
    /\ status = "append"
    /\ status' = "ready"
    /\ doubt' = doubt \ {pending}
    /\ pending' = None
    /\ asked' = FALSE
    /\ UNCHANGED <<view, kept>>

BeginReset ==
    /\ status = "ready"
    /\ view # {}
    /\ status' = "reset"
    /\ asked' = TRUE
    /\ UNCHANGED <<view, pending, kept, doubt>>

\* The instant of the reset; the handle is usable again only after FinishReset.
Commit ==
    /\ status = "reset"
    /\ status' = "cleared"
    /\ view' = {} /\ kept' = {} /\ doubt' = {} /\ asked' = FALSE
    /\ UNCHANGED pending

\* Err: the reset will never happen.
RejectReset ==
    /\ status = "reset"
    /\ status' = "ready"
    /\ asked' = FALSE
    /\ UNCHANGED <<view, pending, kept, doubt>>

FinishReset ==
    /\ status = "cleared"
    /\ status' = "ready"
    /\ UNCHANGED <<view, pending, kept, doubt, asked>>

\* The handle refuses every further call.
Break ==
    /\ status \in {"append", "reset", "cleared"}
    /\ status' = "broken"
    /\ view' = {} /\ pending' = None
    /\ UNCHANGED <<kept, doubt, asked>>

\* The process or the machine stops.
Stop ==
    /\ status' = "off"
    /\ view' = {} /\ pending' = None
    /\ UNCHANGED <<kept, doubt, asked>>

Next ==
    \/ Start \/ CompleteReset
    \/ BeginAppend \/ Acknowledge \/ Reject
    \/ BeginReset \/ Commit \/ RejectReset \/ FinishReset
    \/ Break \/ Stop

Spec == Init /\ [][Next]_vars

=============================================================================
