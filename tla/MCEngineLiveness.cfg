CONSTANTS
  OpIds = {1, 2}
  PlanIds = {1}
  Keys = {1, 2}
  Actors = {"owner"}
  Actions = {"serving.configure"}
  Revs = {r0, r1}
  Depth = 2
  Expiring = {}
  Revocable = {}
  MaxFaults = 1
  MaxCrashes = 1
SPECIFICATION FairSpec
PROPERTIES
  QueuedIsTaken
  RunningIsConcluded
CHECK_DEADLOCK FALSE
