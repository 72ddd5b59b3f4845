------------------------------ MODULE MCMaven ------------------------------
(* A small instance of Maven for TLC. *)
EXTENDS Maven, TLC

CONSTANTS u1, u2, m1, m2, fixed

\* The pattern matches one of the versions.
MCEmbedded == [u \in Upstream |-> IF u = u1 THEN m1 ELSE None]
MCFixed == [u \in Upstream |-> fixed]

MCSymmetry == Permutations(Workers)
=============================================================================
