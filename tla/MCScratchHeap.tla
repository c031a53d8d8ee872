--------------------------- MODULE MCScratchHeap ---------------------------
(***************************************************************************)
(* ScratchHeap with two pointers, classes of one and four units on pages   *)
(* of two, and a table that both chunks, or one and a big block, fill.     *)
(***************************************************************************)
EXTENDS ScratchHeap, TLC

CONSTANTS h1, h2

MCRegion == 2..15
MCSymmetry == Permutations(Handles)
=============================================================================
