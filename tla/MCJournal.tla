------------------------------ MODULE MCJournal ------------------------------
(* Small instances of Journal for TLC. *)
EXTENDS Journal, TLC

CONSTANTS p1, p2, p3, s1, s2

\* Two parts of one unit and one of two: frames of 2 and 3 units.
MCPartLen == (p1 :> 1) @@ (p2 :> 1) @@ (p3 :> 2)

\* Room for two short frames, or a long one, and the marker.
OneConfig == {[maxLen |-> 6, maxParts |-> 2]}
\* The second config is what an operator who lowers the cap restarts with.
TwoConfigs == OneConfig \cup {[maxLen |-> 3, maxParts |-> 1]}

\* Identities are only compared with each other.
Symmetry == Permutations({s1, s2}) \cup Permutations({p1, p2})

\* Bound: appends cut short, one after the other, with no synchronisation between.
FewCutShort == Cardinality(limbo) <= 2

=============================================================================
