\* Two lists of languages for each set of mods, two merges kept, no crash.
CONSTANTS
  planA = planA
  planB = planB
  planC = planC
  v1 = v1
  EUfr = EUfr
  USen = USen
  shared = shared
  onlyA = onlyA
  onlyB = onlyB
  module = module
  link = link
  NoId = NoId
  Plans = {planA, planB, planC}
  Games = {v1}
  Locales = {EUfr, USen}
  LocaleLists <- MCBothLists
  Contents <- MCContents
  ModFiles = {link}
  Merged <- MCMerged
  Modules <- MCModules
  Linked <- MCLinked
  Keep = 2
  AtBoot = {TRUE}
  Listings <- MCListings
  LostTogether <- MCLostTogether
  MaxFaults = 0
  MaxCrashes = 0
SPECIFICATION Spec
INVARIANT ServedLinksExist
PROPERTY KeepsTheLastUsed
