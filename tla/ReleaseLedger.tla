---------------------------- MODULE ReleaseLedger ----------------------------
(***************************************************************************)
(* What direct publication promises for each target and build, without     *)
(* workers, rows or a provider: one attempt at a time, each attempt is for *)
(* the next release number, and only a confirmed attempt uses it up.       *)
(***************************************************************************)
EXTENDS Naturals

CONSTANTS
  Targets,  \* publication targets
  Builds,   \* builds of the modpack
  None

VARIABLES
  attempt,  \* release number under way for a target and build, or None
  releases  \* confirmed releases of a target and build

vars == <<attempt, releases>>

Pairs == Targets \X Builds

Init ==
  /\ attempt = [p \in Pairs |-> None]
  /\ releases = [p \in Pairs |-> 0]

\* An attempt at the next release takes the lock.
Claim(p) ==
  /\ attempt[p] = None
  /\ attempt' = [attempt EXCEPT ![p] = releases[p]]
  /\ UNCHANGED releases

\* The provider confirmed the attempt.
Confirm(p) ==
  /\ attempt[p] = releases[p]
  /\ attempt' = [attempt EXCEPT ![p] = None]
  /\ releases' = [releases EXCEPT ![p] = @ + 1]

\* The attempt failed, or its owner gave it up.
Abandon(p) ==
  /\ attempt[p] # None
  /\ attempt' = [attempt EXCEPT ![p] = None]
  /\ UNCHANGED releases

\* The target is deleted, and all that is known of it.
Forget(t) ==
  /\ attempt' = [p \in Pairs |-> IF p[1] = t THEN None ELSE attempt[p]]
  /\ releases' = [p \in Pairs |-> IF p[1] = t THEN 0 ELSE releases[p]]

Next ==
  \/ \E p \in Pairs : Claim(p) \/ Confirm(p) \/ Abandon(p)
  \/ \E t \in Targets : Forget(t)

Spec == Init /\ [][Next]_vars
=============================================================================
