--------------------------- MODULE MCCodeInstall ---------------------------
(***************************************************************************)
(* CodeInstall with three names for two modules and somebody's             *)
(* file: room runs out, order matters, and a module may be there twice.    *)
(***************************************************************************)
EXTENDS CodeInstall

CONSTANTS m1, m2, theirs

MCModules == {m1, m2}
MCForeign == {theirs}
=============================================================================
