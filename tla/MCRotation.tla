----------------------------- MODULE MCRotation -----------------------------
(* A small instance of Rotation. *)
EXTENDS Rotation

Both == {"fixed", "auto"}
Faults == [m \in Both |-> IF m = "fixed" THEN 2 ELSE 1]
=============================================================================
