SPECIFICATION Spec
CONSTANTS
  Order <- TwoMods
  NameOf <- NamesApart
  Plain <- Letters
  MaxName = 4
  Contents <- ContentsOfBoth
  Documents <- DocumentNames
  Aside <- NotMerged
  Games = {120, 121}
  LostTogether <- MCLostTogether
  MaxFaults = 1
  MaxCrashes = 1
  MaxChanges = 2
INVARIANTS MergedModsAreTheirOwn EntriesDoNotPileUp
PROPERTIES OthersKeepTheirEntries
