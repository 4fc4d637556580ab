-------------------------- MODULE MCJournalContract --------------------------
(* The instance of MCJournal, checked against the contract. *)
EXTENDS MCJournal, JournalRefinement

=============================================================================
