----------------------------- MODULE MergeOnce -----------------------------
(***************************************************************************)
(* What the merger promises to the plugins that use its API, with none of  *)
(* the ways it keeps the promise: the list of mods is chosen once, the     *)
(* merge ends once, and each listener is told the end, once, as it was.    *)
(* Control is shown to implement it.                                       *)
(***************************************************************************)
EXTENDS Naturals, Sequences

CONSTANTS
  Listeners,    \* whoever asks to be told
  Plans,        \* the lists that may be chosen
  Undecided,    \* no list is chosen yet
  Failure,      \* the result of a merge that serves nothing
  Successes     \* the results of the others

VARIABLES
  plan,         \* the list being merged
  result,       \* Undecided until the merge is over
  told          \* what each listener was told, in order

Init ==
  /\ plan = Undecided /\ result = Undecided
  /\ told = [l \in Listeners |-> <<>>]

Settle ==
  /\ plan = Undecided /\ result = Undecided
  /\ plan' \in Plans
  /\ UNCHANGED <<result, told>>

\* Without a list there is nothing to merge: only a failure can be announced.
End ==
  /\ result = Undecided
  /\ result' \in (IF plan = Undecided THEN {Failure} ELSE Successes \cup {Failure})
  /\ UNCHANGED <<plan, told>>

Tell(l) ==
  /\ result # Undecided
  /\ told[l] = <<>>
  /\ told' = [told EXCEPT ![l] = <<result>>]
  /\ UNCHANGED <<plan, result>>

Next == Settle \/ End \/ \E l \in Listeners : Tell(l)

Spec == Init /\ [][Next]_<<plan, result, told>>
=============================================================================
