----------------------------- MODULE MCLibrary -----------------------------
(* A small instance of Library for TLC. *)
EXTENDS Library, TLC

CONSTANTS z1, z2, j1, j2

MCJarOf == [z \in Zips |-> IF z = z1 THEN j1 ELSE j2]

\* Workers, and the two ZIPs together with their JARs.
Swap == (z1 :> z2) @@ (z2 :> z1) @@ (j1 :> j2) @@ (j2 :> j1)

MCSymmetry == Permutations(Workers) \cup {Swap}
=============================================================================
