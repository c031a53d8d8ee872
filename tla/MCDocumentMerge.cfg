\* Every kind of document, one to three mods.
CONSTANT Cases <- AllCases
SPECIFICATION Spec
INVARIANT HighestPriorityDecides
INVARIANT NothingMoves
INVARIANT UnreportedModsCommuteUnlessRemoved
INVARIANT UnreportedMergesAreClean
INVARIANT RowsOfTwoModsAreUnique
\* A document is merged once.
CHECK_DEADLOCK FALSE
