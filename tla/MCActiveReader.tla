--------------------------- MODULE MCActiveReader ---------------------------
(* Instances of ActiveReader. *)
EXTENDS ActiveReader
=============================================================================
