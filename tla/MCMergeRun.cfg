SPECIFICATION Spec
CONSTANTS
  Games <- OneGame
  ModLists <- TwoMods
  Language = "USen"
INVARIANTS PriorityDecides SizesAreTrue UnreportedModsCommute
