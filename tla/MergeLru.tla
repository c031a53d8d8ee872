------------------------------ MODULE MergeLru ------------------------------
(***************************************************************************)
(* What the README of totk-mod-merger-plugin promises of the merge cache:  *)
(* "the last merge_cache_size merges stay on the SD card", the least       *)
(* recently used one being the one that goes.  MergeCache is shown to      *)
(* implement it as long as no call fails and the power stays on.           *)
(***************************************************************************)
EXTENDS Naturals, SequencesExt

CONSTANTS
  Merges,   \* the merges there may be
  Capacity  \* merge_cache_size

VARIABLES
  held,     \* the merges kept, most recently used first
  using     \* the merge a session serves, if any

FirstOf(list) == SubSeq(list, 1, IF Len(list) < Capacity THEN Len(list) ELSE Capacity)

Init == held = <<>> /\ using = {}

\* A merge is found, or made, and becomes the most recent one.
Use(m) ==
  /\ using = {}
  /\ using' = {m}
  /\ held' = FirstOf(<<m>> \o RemoveFirst(held, m))

\* The session is over.
Stop == using # {} /\ using' = {} /\ UNCHANGED held

Next == (\E m \in Merges : Use(m)) \/ Stop

Spec == Init /\ [][Next]_<<held, using>>
=============================================================================
