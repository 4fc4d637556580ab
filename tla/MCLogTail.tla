------------------------------ MODULE MCLogTail ------------------------------
(* A small instance of LogTail. *)
EXTENDS LogTail, TLC

\* Line 2 continues line 1, and a CSV record spans both; read on its own, a
\* continuation gives no event.
MCHeads == {1, 3}
MCOdd == {1, 2}
MCUnparsed == {2}
=============================================================================
