-------------------------- MODULE MCCollectorLoop --------------------------
(* A small instance of CollectorLoop. *)
EXTENDS CollectorLoop

Intervals ==
    [topo |-> 3, cgroup |-> 2, logs |-> 2, activity |-> 2, instance |-> 2, statements |-> 1]
=============================================================================
