CONSTANTS
  OpIds = {1, 2}
  PlanIds = {1, 2}
  Keys = {1}
  Actors = {"owner", "operator"}
  Actions = {"profile.switch", "hardware.refresh", "memory.plan.export"}
  Revs = {r0}
  Depth = 1
  Expiring = {1}
  Revocable = {"operator"}
  MaxFaults = 0
  MaxCrashes = 1
SPECIFICATION Spec
INVARIANTS
  EvidenceNeverFences
PROPERTIES
  LapsedAuthorityHasNoEffect
CHECK_DEADLOCK FALSE
