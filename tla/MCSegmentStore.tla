--------------------------- MODULE MCSegmentStore ---------------------------
(* A small instance of SegmentStore. *)
EXTENDS SegmentStore, TLC

\* The second row repeats a value of the first and the third adds one.
MCUses == 1 :> {"a"} @@ 2 :> {"a"} @@ 3 :> {"a", "b"}
MCBudget == "kill" :> 2 @@ "power" :> 2 @@ "io" :> 2 @@ "clock" :> 1
\* Without lost power and a clock that steps back: see RecoveredJournalIsSaved.
FairBudget == "kill" :> 2 @@ "power" :> 0 @@ "io" :> 1 @@ "clock" :> 0
=============================================================================
