------------------------------ MODULE MCAccess ------------------------------
(* Small instances of Access for TLC. *)
EXTENDS Access, TLC

CONSTANTS w1, w2, owner, home, old, new

\* A clean database, and one with an administrator where NEW_USER opens /setup.
MCStarts == {<<"clean", FALSE>>, <<"existing", TRUE>>}

\* An account is blocked at its second failure, an address at its fourth.
MCLimit == (owner :> 2) @@ (home :> 4)
=============================================================================
