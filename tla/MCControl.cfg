\* Two plugins, each of which may take control, change the list and listen; one
\* path is not a mod.
CONSTANTS
  p1 = p1
  p2 = p2
  pack = pack
  junk = junk
  opt = opt
  elsewhere = elsewhere
  NoOwner = NoOwner
  NoDir = NoDir
  Plugins <- MCPlugins
  Paths <- MCPaths
  NotMods <- MCNotMods
  Options <- MCOptions
  Dirs <- MCDirs
  MaxTakes = 2
  MaxMods = 2
  MaxServed = 1
SPECIFICATION FairSpec
INVARIANT NoOwnerNoTrace
INVARIANT OnlyTheOwnerHoldsTheToken
INVARIANT PlanIsTheList
INVARIANT CalledOnceWithTheResult
INVARIANT DoneMeansServed
PROPERTY MergeEnds
PROPERTY ListenersAreTold
PROPERTY MergesOnce
CHECK_DEADLOCK FALSE
