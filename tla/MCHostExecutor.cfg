CONSTANTS
  Ids = {1, 2, 3}
  Drafts <- MCDrafts
  Target = "workstation"
  Times = {1, 2}
  ClockSteps = TRUE
  MaxRecords = 3
  MaxFaults = 1
  MaxCrashes = 1
SPECIFICATION Spec
INVARIANTS
  TypeOK ReportedResultsAreDurable ReportedRestoreIsSettled
  EffectsHappenOnceAfterIntent FailedEffectsAreRecovered SettlementStaysInChain 
  
PROPERTIES EffectsRespectTheFence FinishedRecordsAreFinal
