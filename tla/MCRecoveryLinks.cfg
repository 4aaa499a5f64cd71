\* Three records: the shortest cycle with a tail, and a chain of restores.
CONSTANTS
  Ids = {1, 2, 3}
  Targets = {"a", "b"}
  Actions = {"profile.switch", "profile.restore", "operation.reconcile", "build.start"}
SPECIFICATION Spec
INVARIANTS RootIsTheUnlinkedAncestor ChainsPartitionTheJournal
PROPERTY LaterRecordsKeepRoots
