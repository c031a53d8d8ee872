----------------------------- MODULE MCControl -----------------------------
(***************************************************************************)
(* Control with two plugins: enough for one to take over from the other,   *)
(* and for a listener on each side of the end of the merge.                *)
(***************************************************************************)
EXTENDS Control

CONSTANTS p1, p2, pack, junk, opt, elsewhere

MCPlugins == {p1, p2}
MCPaths == {pack, junk}
MCNotMods == {junk}
MCOptions == {opt}
MCDirs == {elsewhere}
=============================================================================
