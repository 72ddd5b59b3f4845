-------------------------- MODULE MCOptionalGroups --------------------------
(* Small instances of OptionalGroups for TLC. *)
EXTENDS OptionalGroups, TLC

CONSTANTS p1, b1, b2

\* The builds belong to one modpack.
MCOnePack == [b \in Builds |-> p1]

\* Mods and request workers are interchangeable.
MCSymmetry == Permutations(Mods) \cup Permutations(Workers)
=============================================================================
