---------------------------- MODULE MCPublishing ----------------------------
(* Small instances of Publishing for TLC. *)
EXTENDS Publishing, TLC

\* The second version is one a user could type that looks like a patch of the
\* first.
MCBases == {<<"1.0">>, <<"1.0", 1>>}
MCBase == {<<"1.0">>}

\* Request workers are interchangeable.
MCWorkerSymmetry == Permutations(Workers)
=============================================================================
