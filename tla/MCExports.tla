------------------------------ MODULE MCExports -----------------------------
(* A small instance of Exports for TLC. *)
EXTENDS Exports, TLC

CONSTANTS nativeMod, lostMod, configMod, loaderMod

\* A mod with a stored Modrinth file, one the provider may have lost, server
\* files with a project and no version, and the modloader of a server.
MCType == [m \in Mods |-> CASE m = loaderMod -> "LAUNCHER" [] m = configMod -> "CONFIG"
                          [] OTHER -> "MOD"]
MCSide == [m \in Mods |-> IF m \in {loaderMod, configMod} THEN "SERVER" ELSE "BOTH"]
MCModrinth == [m \in Mods |-> CASE m \in {nativeMod, lostMod} -> "version"
                              [] m = configMod -> "project" [] OTHER -> "none"]
=============================================================================
