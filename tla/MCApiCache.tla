----------------------------- MODULE MCApiCache -----------------------------
(* Small instances of ApiCache for TLC. *)
EXTENDS ApiCache, TLC

CONSTANTS p1, p2, d1, d2, d3, site, write, job

\* Two threads of one process and one of another serve reads.
MCProcOf ==
  (d1 :> p1) @@ (d2 :> p1) @@ (d3 :> p2) @@
  (site :> p1) @@ (write :> p2) @@ (job :> p1)

\* One change of each kind.
MCKindOf == (site :> "site") @@ (write :> "api") @@ (job :> "job")
=============================================================================
