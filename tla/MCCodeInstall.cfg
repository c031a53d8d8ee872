\* One call fails and the power goes once, at any step.
CONSTANTS
  m1 = m1
  m2 = m2
  theirs = theirs
  Absent = Absent
  Cut = Cut
  None = None
  NSlots = 3
  Modules <- MCModules
  Foreign <- MCForeign
  MaxFaults = 1
  MaxCrashes = 1
SPECIFICATION Spec
INVARIANT ExactlyTheFirstThatFit
INVARIANT ListIsTrue
INVARIANT GoneModsLeaveUnlessCutShort
INVARIANT NoHalfModule
PROPERTY OnlyItsFilesChange
