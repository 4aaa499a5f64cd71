CONSTANTS
  OpIds = {1, 2, 3}
  PlanIds = {1, 2, 3}
  Keys = {1, 2, 3}
  Actors = {"owner"}
  Actions = {"serving.restart"}
  Revs = {r0}
  Depth = 2
  Expiring = {}
  Revocable = {}
  MaxFaults = 0
  MaxCrashes = 0
SPECIFICATION Spec
INVARIANTS
  SettledWorkHasStopped
  OneAttemptPerChain
PROPERTIES
  FenceHolds
  SettledOnlyYieldsToProof
CHECK_DEADLOCK FALSE
