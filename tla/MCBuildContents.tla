--------------------------- MODULE MCBuildContents ---------------------------
(* Small instances of BuildContents for TLC. *)
EXTENDS BuildContents, TLC

CONSTANTS launcher, library, addon, s1, s2, a1, e1, e2

Version(m, minecraft, loaders, primary) ==
  [mod |-> m, minecraft |-> minecraft, loaders |-> loaders, primary |-> primary]

\* The launcher brings Forge or Fabric, the library has a version for Forge and
\* a newer universal one, and the addon is for Fabric.
MCCatalog ==
  (1 :> Version(launcher, "listed", {"FORGE"}, "FORGE")) @@
  (2 :> Version(library, "listed", {"FORGE"}, "FORGE")) @@
  (3 :> Version(library, "universal", {}, NoLoader)) @@
  (4 :> Version(launcher, "listed", {"FABRIC", "FORGE"}, "FABRIC")) @@
  (5 :> Version(addon, "listed", {"FABRIC"}, "FABRIC"))

MCVersions == DOMAIN MCCatalog

\* The launcher may require the library, that the addon, and that the launcher.
MCRequirable ==
  {<<launcher, library>>, <<library, addon>>, <<addon, launcher>>}

\* Two requests of the management site run at once, or one of the write API
\* beside an editor.
MCLoads == {{s1, s2}, {a1, e1}}

\* A request of the management site runs beside one of the write API.
MCBothInterfaces == {{s1, a1}}

\* Two editors run at once.
MCTwoEditors == {{e1, e2}}

\* A request that walks through required mods reads and writes only its own
\* state, so its steps commute with those of all others: it is enough that it
\* takes them at once.
WalkAtOnce ==
  \A r \in Requests :
    Walking(r) => requests'[r] # requests[r]

MCSymmetry == Permutations({s1, s2})
=============================================================================
