\* The power goes at any step and a call fails at any step: two sets of mods,
\* one merge kept.
CONSTANTS
  planA = planA
  planB = planB
  planC = planC
  v1 = v1
  EUfr = EUfr
  USen = USen
  shared = shared
  onlyA = onlyA
  onlyB = onlyB
  module = module
  link = link
  NoId = NoId
  Plans = {planA, planB}
  Games = {v1}
  Locales = {EUfr, USen}
  LocaleLists <- MCLocaleLists
  Contents <- MCContents
  ModFiles = {link}
  Merged <- MCMerged
  Modules <- MCModules
  Linked <- MCLinked
  Keep = 1
  AtBoot = {TRUE, FALSE}
  Listings <- MCListings
  LostTogether <- MCLostTogether
  MaxFaults = 1
  MaxCrashes = 1
SPECIFICATION FairSpec
INVARIANT ServedFilesExistUnlessACallFails
INVARIANT CachedFilesExist
INVARIANT OnlyRemovalsLeaveHalf
INVARIANT StampedMergesAreWhole
INVARIANT OnlyTheLastMergesRemain
INVARIANT NoGarbageAfterARemoval
PROPERTY SessionsEnd
