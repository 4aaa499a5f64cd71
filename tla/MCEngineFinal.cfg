CONSTANTS
  OpIds = {1, 2}
  PlanIds = {1, 2}
  Keys = {1, 2}
  Actors = {"owner"}
  Actions = {"build.start"}
  Revs = {r0, r1}
  Depth = 2
  Expiring = {}
  Revocable = {}
  MaxFaults = 0
  MaxCrashes = 0
SPECIFICATION Spec
SYMMETRY RevisionSymmetry
PROPERTIES
  SettledIsFinal
CHECK_DEADLOCK FALSE
