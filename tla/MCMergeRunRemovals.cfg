SPECIFICATION Spec
CONSTANTS
  Games <- OneGame
  ModLists <- Removals
  Language = "USen"
INVARIANT DelayedPacksAreWritten
