CONSTANTS
  OpIds = {1, 2}
  PlanIds = {1, 2}
  Keys = {1, 2}
  Actors = {"owner"}
  Actions = {"serving.configure"}
  Revs = {r0, r1}
  Depth = 2
  Expiring = {}
  Revocable = {}
  MaxFaults = 1
  MaxCrashes = 1
SPECIFICATION Spec
SYMMETRY RevisionSymmetry
INVARIANTS
  TypeOK
  DispatchedOnceAfterIntent
  SourceRecordsAreTruthful
  SuccessIsProven
  AcknowledgedWorkIsKept
PROPERTIES
  EffectsMatchThePlan
CHECK_DEADLOCK FALSE
