----------------------------- MODULE MCImports -----------------------------
(* A small instance of Imports for TLC. *)
EXTENDS Imports

CONSTANTS a, b, c, g, a1, a2, b1, c1, c2, g1

MCProjectOf == [r \in Releases |-> CASE r \in {a1, a2} -> a [] r = b1 -> b
                                     [] r \in {c1, c2} -> c [] r = g1 -> g]

\* c1 and c2 have the same version number; a2 has no hash.
MCNumberOf == [r \in Releases |-> IF r = c2 THEN c1 ELSE r]
MCDateOf == [r \in Releases |-> IF r \in {a2, c2} THEN 2 ELSE 1]
MCHashed == Releases \ {a2, g1}

Requires(r, p, pin) == [pin |-> pin, release |-> r, project |-> p]

\* A diamond whose sides want two releases of c, in either order, a chain, a
\* circle, and two pins of one project.
MCCatalogs ==
  {{Requires(a1, b, None), Requires(a1, c, None), Requires(b1, c, c1)},
   {Requires(a1, b, b1), Requires(b1, c, c1)},
   {Requires(a1, b, b1), Requires(b1, a, None)},
   {Requires(a1, c, c1), Requires(a1, c, c2)}}

Row(i, p, link, type) == [link |-> link, type |-> type, id |-> i, slug |-> p]

\* A managed mod, beside manual mods with slugs of projects, and
\* beside a config of a repository.
MCLibraries == {{Row(1, a, a, "MOD"), Row(2, b, None, "CONFIG"),
                 Row(3, c, None, "MOD")},
                {Row(1, a, a, "MOD"), Row(2, g, g, "CONFIG")}}
=============================================================================
