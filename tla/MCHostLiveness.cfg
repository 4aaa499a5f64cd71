CONSTANTS
  Ids = {1, 2}
  Drafts <- MCDrafts
  Target = "workstation"
  Times = {1, 2}
  ClockSteps = FALSE
  MaxRecords = 2
  MaxFaults = 2
  MaxCrashes = 1
SPECIFICATION FairSpec
PROPERTIES UnfinishedWorkIsDisposed SettlementCompletes
