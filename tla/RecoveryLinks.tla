---------------------------- MODULE RecoveryLinks ----------------------------
(***************************************************************************)
(* The persisted parent links of one journal (internal/domain/recovery.go) *)
(*                                                                         *)
(* A journal maps operation IDs to links [parent, target, action].  Both   *)
(* the API store (engine/recovery.go) and the root helper's journal        *)
(* (hostexec/executor.go) decide from these links which uncertain          *)
(* operations one recovery may settle.  IDs are positive naturals, ordered *)
(* the way sort.Strings orders the hexadecimal IDs; 0 is the empty string. *)
(***************************************************************************)
EXTENDS Naturals, FiniteSets

NoOp == 0

HostRestoreRequired(action) ==
  action \in {"profile.switch", "profile.restore", "serving.configure",
              "resources.configure", "serving.start", "serving.stop",
              "serving.restart"}

RecoveryAction(action) == action \in {"profile.restore", "operation.reconcile"}

\* One iteration of RecoveryRoot's loop succeeds at id: the entry exists, has a
\* target, and is either unlinked or a recovery action linked to an existing
\* parent of its own executor, for the same target (a different target is
\* refused by the next iteration).
Linked(links, id) ==
  /\ id \in DOMAIN links
  /\ links[id].target # ""
  /\ \/ links[id].parent = NoOp
     \/ /\ RecoveryAction(links[id].action)
        /\ links[id].parent \in DOMAIN links
        /\ links[id].action = "profile.restore" =>
              HostRestoreRequired(links[links[id].parent].action)
        /\ links[links[id].parent].target = links[id].target

\* Where the loop stands after n iterations; NoOp once an iteration failed.
Walk(links, id) ==
  LET at[n \in Nat] ==
        IF n = 0 THEN id
        ELSE LET x == at[n - 1] IN
             IF ~Linked(links, x) THEN NoOp
             ELSE IF links[x].parent = NoOp THEN x
             ELSE links[x].parent
  IN  at

\* Mutants: a walk that never stops returns where it is; an entry whose parent
\* is missing counts as a root of its own.
RootWithoutCycleCheck(links, id) == Walk(links, id)[Cardinality(DOMAIN links)]
RootOfOrphans(links, id) ==
  IF id \in DOMAIN links /\ links[id].parent \notin DOMAIN links THEN id
  ELSE LET x == Walk(links, id)[Cardinality(DOMAIN links)]
       IN  IF Linked(links, x) /\ links[x].parent = NoOp THEN x ELSE NoOp

\* The root of id's chain, or NoOp for the error return.  A walk that has not
\* stopped after one iteration per entry has met an ID twice (the seen map).
RecoveryRoot(links, id) ==
  LET x == Walk(links, id)[Cardinality(DOMAIN links)]
  IN  IF Linked(links, x) /\ links[x].parent = NoOp THEN x ELSE NoOp

\* Mutant: only the direct attempts of the entry itself.
ChainOfDirectAttempts(links, id) ==
  IF RecoveryRoot(links, id) = NoOp THEN {}
  ELSE {c \in DOMAIN links : c = id \/ links[c].parent = id}

\* Every entry with the same root; {} for the error return.
RecoveryChain(links, id) ==
  LET root == RecoveryRoot(links, id)
  IN  IF root = NoOp THEN {}
      ELSE {c \in DOMAIN links : RecoveryRoot(links, c) = root}

=============================================================================
