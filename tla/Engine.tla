-------------------------------- MODULE Engine --------------------------------
(***************************************************************************)
(* The controller's operation engine (internal/engine) over its durable    *)
(* store (internal/store) and the managed source file (internal/source).   *)
(*                                                                         *)
(* API handlers create plans, apply, cancel and recover operations while   *)
(* one executor goroutine takes queued operations through preflight, the   *)
(* source update and the dispatch to an executor that lives in another     *)
(* process.  Every state change is one store transaction, which may fail   *)
(* before or after its rename; the controller may be killed between any    *)
(* two transactions; requests to the executor may be lost or answered late.*)
(*                                                                         *)
(* IDs are random in the code and only compared for equality; here they    *)
(* are given out in creation order, so the oldest queued operation is the  *)
(* one with the least ID; a client's new idempotency keys likewise.  One   *)
(* controller serves one target.                                           *)
(***************************************************************************)
EXTENDS RecoveryLinks

CONSTANTS
  OpIds,       \* operation IDs
  PlanIds,     \* plan IDs
  Keys,        \* idempotency keys of one identity's clients
  Actors,      \* identities, named by their role
  Actions,     \* the unlinked actions clients ask for
  Revs,        \* content revisions of the managed source
  Depth,       \* the queue limit
  Expiring,    \* bound: plans whose ten minutes may pass during a behaviour
  Revocable,   \* bound: identities whose credential may lapse
  MaxFaults,   \* bound: failed store or source writes
  MaxCrashes   \* bound: controller exits

ASSUME EngineConstants ==
  /\ OpIds \subseteq Nat \ {NoOp} /\ PlanIds \subseteq Nat \ {NoOp} /\ Keys \subseteq Nat
  /\ Actors \subseteq {"owner", "operator", "viewer"}
  /\ Revs # {}
  /\ Depth \in Nat /\ MaxFaults \in Nat /\ MaxCrashes \in Nat

VARIABLES
  mem,        \* s.state: operations, plans and idempotency records
  disk,       \* the durable snapshot of the same
  poisoned,   \* s.poisoned
  source,     \* the revision of managed-source.json
  expired,    \* plans past ExpiresAt
  withdrawn,  \* identities whose credential is revoked or expired
  wake,       \* e.wake holds a signal
  pc,         \* where the controller's executor goroutine is
  cur,        \* execute(): the operation
  ctxDone,    \* execute(): ctx is cancelled or timed out
  outcome,    \* execute(): the result passed to finish()
  pend,       \* a recovery request between inspection and finish()
  exec,       \* external: what the executor knows of an operation
  sent,       \* history: how often an operation was handed to the adapter
  changed,    \* history: operations that replaced the managed source
  acked,      \* history: operations Apply acknowledged
  faults, crashes

db      == <<mem, disk, poisoned, faults>>
loop    == <<wake, pc, cur, ctxDone, outcome>>
world   == <<source, expired, withdrawn, exec>>
history == <<sent, changed, acked>>
vars    == <<db, loop, world, history, pend, crashes>>

Evidence == {"memory.evidence.import", "memory.plan.export", "performance.export",
             "performance.profile.select"}
Configures == {"serving.configure", "resources.configure", "caches.configure"}
\* executionKind: in the controller's own process, on the build worker, else on
\* the host executor.
Local == {"model.stage", "model.verify", "caches.configure"}
OnHost(action) == action \notin Local \cup {"build.start", "operation.reconcile"}

RoleAllows(role, action) ==
  \/ role = "owner"
  \/ role = "operator" /\ action \in {"profile.switch", "profile.restore"}

Terminal(state) ==
  state \in {"succeeded", "failed", "cancelled", "recovery-required"}

NoPlan == [actor |-> "", action |-> "", parent |-> NoOp, src |-> "", desired |-> "",
           pre |-> {}]
NoOperation == [state |-> "none", plan |-> NoOp, dispatched |-> FALSE,
                recovery |-> FALSE, updated |-> FALSE]
Nobody == [id |-> NoOp, state |-> ""]

Known(d) == {id \in OpIds : d.op[id].state # "none"}
PlanOf(d, id) == d.plan[d.op[id].plan]
Unresolved(d) == {id \in Known(d) : d.op[id].recovery}
Active(d) == {id \in Known(d) : ~Terminal(d.op[id].state)}
Settled(o) == Terminal(o.state) /\ ~o.recovery

operationLinks(d) ==
  [id \in Known(d) |-> [parent |-> PlanOf(d, id).parent, target |-> "workstation",
                        action |-> PlanOf(d, id).action]]

Chain(d, id) == RecoveryChain(operationLinks(d), id)

-----------------------------------------------------------------------------
(* The store.  Update runs a transaction on a copy, writes the snapshot to a *)
(* temporary file, renames it and installs it in memory; a failed write      *)
(* poisons the store, whether or not the rename already took place.          *)

Update(d) ==
  /\ ~poisoned
  /\ mem' = d /\ disk' = d
  /\ UNCHANGED <<poisoned, faults>>

UpdateFails(d) ==
  /\ ~poisoned /\ faults < MaxFaults
  /\ faults' = faults + 1
  /\ poisoned' = TRUE
  /\ disk' \in {disk, d}
  /\ UNCHANGED mem

WithOp(d, id, o) == [d EXCEPT !.op[id] = o]

\* Mutants: the recovery flag is left as it was; every member of a recovered
\* chain is rewritten; the resolved records keep what they say of the source;
\* an evidence operation may be left for recovery.
finishedKeepingFlag(d, id, state) == WithOp(d, id, [d.op[id] EXCEPT !.state = state])
finishedWholeChain(d, id, state) ==
  LET p == PlanOf(d, id)
  IN  [d EXCEPT !.op = [x \in OpIds |->
         IF x = id THEN [d.op[x] EXCEPT !.state = state,
                                        !.recovery = state = "recovery-required"]
         ELSE IF state = "succeeded" /\ p.parent # NoOp /\ x \in Chain(d, p.parent)
              THEN [d.op[x] EXCEPT !.state = "failed", !.recovery = FALSE]
         ELSE d.op[x]]]
finishedKeepingSource(d, id, state) ==
  LET p == PlanOf(d, id)
  IN  [d EXCEPT !.op = [x \in OpIds |->
         IF x = id THEN [d.op[x] EXCEPT !.state = state,
                                        !.recovery = state = "recovery-required"]
         ELSE IF /\ state = "succeeded" /\ p.parent # NoOp
                 /\ x \in Chain(d, p.parent) /\ d.op[x].recovery
              THEN [d.op[x] EXCEPT !.state = "failed", !.recovery = FALSE]
         ELSE d.op[x]]]

\* finish(): an interrupted evidence operation is a failure, never a recovery;
\* a recovery that succeeds settles what its chain still leaves unresolved.
finished(d, id, state) ==
  LET p == PlanOf(d, id)
      final == IF p.action \in Evidence /\ state = "recovery-required" THEN "failed"
               ELSE state
      resolved == IF final = "succeeded" /\ p.parent # NoOp
                  THEN {x \in Chain(d, p.parent) \ {id} : d.op[x].recovery}
                  ELSE {}
      Resolve(x) ==
        [d.op[x] EXCEPT !.state = "failed", !.recovery = FALSE,
           !.updated = IF p.action = "operation.reconcile"
                       THEN /\ p.desired = PlanOf(d, x).desired
                            /\ PlanOf(d, x).desired # PlanOf(d, x).src
                       ELSE @]
  IN  [d EXCEPT !.op = [x \in OpIds |->
         IF x = id THEN [d.op[x] EXCEPT !.state = final,
                                        !.recovery = final = "recovery-required"]
         ELSE IF x \in resolved THEN Resolve(x)
         ELSE d.op[x]]]

\* finish() returns RecoveryChain's error and commits nothing.
finishRefused(d, id, state) ==
  LET p == PlanOf(d, id)
  IN  state = "succeeded" /\ p.parent # NoOp /\ Chain(d, p.parent) = {}

-----------------------------------------------------------------------------
(* Recovery admission and preflight (engine/recovery.go).                    *)

\* Mutant: the fence looks only at operations that are still active.
admissionIgnoringFence(d, p, executing) ==
  p.parent # NoOp =>
    /\ p.parent \in Unresolved(d)
    /\ RecoveryAction(p.action)
    /\ Chain(d, p.parent) # {}

\* Mutant: a second attempt at a chain is admitted.
admissionOfSecondAttempt(d, p, executing) ==
  LET chain == IF p.parent = NoOp THEN {} ELSE Chain(d, p.parent)
  IN  /\ p.parent # NoOp =>
           p.parent \in Unresolved(d) /\ RecoveryAction(p.action) /\ chain # {}
      /\ Unresolved(d) \ {executing} \subseteq chain \/ p.action = "hardware.refresh"

recoveryAdmission(d, p, executing) ==
  LET chain == IF p.parent = NoOp THEN {} ELSE Chain(d, p.parent)
  IN  /\ p.parent # NoOp =>
           p.parent \in Unresolved(d) /\ RecoveryAction(p.action) /\ chain # {}
      /\ Unresolved(d) \ {executing} \subseteq chain \/ p.action = "hardware.refresh"
      /\ p.parent # NoOp =>
           \A id \in (Active(d) \cap chain) \ {executing} : PlanOf(d, id).parent = NoOp

\* The answer to an inspection: what was never dispatched needs the source
\* inspected; an executor that is unreachable, or has no record, is an error.
inspect(id, reachable) ==
  IF ~mem.op[id].dispatched THEN "recovery-required"
  ELSE IF ~reachable \/ exec[id] \in {"none", "sending", "refused", "unsaved"} THEN "error"
  ELSE exec[id]

Unsettled(old) == Chain(mem, old) \cap Unresolved(mem)

recoveryPreflight(p, reachable) ==
  LET root == PlanOf(mem, RecoveryRoot(operationLinks(mem), p.parent))
      dispatched == {id \in Unsettled(p.parent) : mem.op[id].dispatched}
  IN  /\ p.parent \in Unresolved(mem)
      /\ Chain(mem, p.parent) # {}
      /\ source \in {root.desired, root.src}
      /\ \A id \in dispatched :
           /\ inspect(id, reachable) # "running"
           /\ p.action = "operation.reconcile" =>
                inspect(id, reachable) \in {"succeeded", "failed", "cancelled"}
      /\ p.action = "profile.restore" =>
           \E id \in dispatched : HostRestoreRequired(PlanOf(mem, id).action)

\* The recovery preconditions a plan binds: the chain's unresolved members, and
\* for a reconciliation what the executor says of each.
preconditions(p) ==
  IF p.parent = NoOp THEN {}
  ELSE {<<id, IF p.action = "operation.reconcile" THEN inspect(id, TRUE) ELSE "">> :
          id \in Unsettled(p.parent)}

preflight(p, reachable) ==
  p.parent # NoOp \/ p.action = "operation.reconcile" =>
    recoveryPreflight(p, reachable)

-----------------------------------------------------------------------------
Init ==
  /\ mem = [op |-> [id \in OpIds |-> NoOperation],
            plan |-> [p \in PlanIds \cup {NoOp} |-> NoPlan],
            idem |-> [k \in Actors \X Keys |-> NoOp]]
  /\ disk = mem
  /\ poisoned = FALSE
  /\ source \in Revs
  /\ expired = {} /\ withdrawn = {}
  /\ wake = TRUE /\ pc = "wait" /\ cur = NoOp /\ ctxDone = FALSE /\ outcome = ""
  /\ pend = Nobody
  /\ exec = [id \in OpIds |-> "none"]
  /\ sent = [id \in OpIds |-> 0]
  /\ changed = {} /\ acked = {}
  /\ faults = 0 /\ crashes = 0

-----------------------------------------------------------------------------
(* API handlers, served only while the engine is started.                    *)

Serving == pc # "start"
\* Mutant: the signal is lost.
signalLost == UNCHANGED wake

signal == wake' = TRUE

NextOf(ids, used) == {x \in ids \ used : \A y \in ids \ used : x <= y}

\* CreatePlan, also as the last step of Recover.  Everything it read is read
\* again before the operation has an effect, so it is one step here.
CreatePlan(a, action, parent, desired, reachable) ==
  LET p == [actor |-> a, action |-> action, parent |-> parent, src |-> source,
            desired |-> desired, pre |-> {}]
      fresh == NextOf(PlanIds, {x \in PlanIds : mem.plan[x] # NoPlan})
  IN  /\ Serving /\ a \notin withdrawn
      /\ RoleAllows(a, action)
      /\ parent # NoOp => a = "owner" /\ RecoveryAction(action)
      /\ desired = source \/ action \in Configures
      /\ fresh # {} /\ preflight(p, reachable)
      /\ \E pid \in fresh :
           Update([mem EXCEPT !.plan[pid] = [p EXCEPT !.pre = preconditions(p)]])
      /\ UNCHANGED <<loop, world, history, pend, crashes>>

\* Mutant: the idempotency record is left for a later transaction.
queuedWithoutKey(d, id, pid, key) ==
  WithOp(d, id, [NoOperation EXCEPT !.state = "queued", !.plan = pid])

queued(d, id, pid, key) ==
  [WithOp(d, id, [NoOperation EXCEPT !.state = "queued", !.plan = pid])
     EXCEPT !.idem[key] = id]

Apply(a, pid, k) ==
  LET p == mem.plan[pid]
  IN  /\ Serving /\ a \notin withdrawn
      /\ k \in NextOf(Keys, {x \in Keys : mem.idem[<<a, x>>] # NoOp})
      /\ p # NoPlan /\ p.actor = a /\ RoleAllows(a, p.action)
      /\ p.parent # NoOp => a = "owner"
      /\ pid \notin expired
      /\ Cardinality(Active(mem)) < Depth
      /\ \E id \in NextOf(OpIds, Known(mem)) :
           /\ recoveryAdmission(mem, p, NoOp)
           /\ \/ /\ Update(queued(mem, id, pid, <<a, k>>))
                 /\ signal
                 /\ acked' = acked \cup {id}
              \/ /\ UpdateFails(queued(mem, id, pid, <<a, k>>))
                 /\ UNCHANGED <<wake, acked>>
      /\ UNCHANGED <<pc, cur, ctxDone, outcome, world, sent, changed, pend, crashes>>

\* The same key and payload again: the recorded operation is returned.  (A
\* repeat after the first answer arrived only wakes the loop once more.)
ApplyAgain(a, k) ==
  LET id == mem.idem[<<a, k>>]
  IN  /\ Serving /\ a \notin withdrawn
      /\ id \notin acked \cup {NoOp}
      /\ RoleAllows(a, PlanOf(mem, id).action)
      /\ Update(mem)
      /\ signal
      /\ acked' = acked \cup {id}
      /\ UNCHANGED <<pc, cur, ctxDone, outcome, world, sent, changed, pend, crashes>>

Cancel(a, id) ==
  LET o == mem.op[id]
      d == WithOp(mem, id, [o EXCEPT !.state =
             IF @ = "queued" THEN "cancelled" ELSE "cancel-requested"])
  IN  /\ Serving /\ a \notin withdrawn
      /\ id \in Active(mem)
      /\ RoleAllows(a, PlanOf(mem, id).action)
      /\ \/ Update(d) /\ ctxDone' = (ctxDone \/ id = cur)
         \/ UpdateFails(d) /\ UNCHANGED ctxDone
      /\ UNCHANGED <<wake, pc, cur, outcome, world, history, pend, crashes>>

\* Recover and inspectEvidence read the operation and ask the executor; without
\* an answer they change nothing ...
Recover(id) ==
  LET state == inspect(id, TRUE)
  IN  /\ Serving /\ "owner" \in Actors \ withdrawn /\ pend = Nobody
      /\ id \in Known(mem)
      /\ \/ mem.op[id].recovery /\ state \in {"succeeded", "failed", "cancelled"}
         \/ /\ PlanOf(mem, id).action \in Evidence
            /\ mem.op[id].dispatched
            /\ Terminal(state)
      /\ pend' = [id |-> id, state |-> state]
      /\ UNCHANGED <<db, loop, world, history, crashes>>

\* ... and record its answer in a transaction of its own.
RecoverFinish ==
  LET d == finished(mem, pend.id, pend.state)
  IN  /\ Serving /\ pend # Nobody
      /\ pend' = Nobody
      /\ IF poisoned \/ finishRefused(mem, pend.id, pend.state) THEN UNCHANGED db
         ELSE Update(d) \/ UpdateFails(d)
      /\ UNCHANGED <<loop, world, history, crashes>>

-----------------------------------------------------------------------------
(* The executor goroutine: loop() and execute().                             *)

Executing == pc \notin {"start", "wait", "drain"}

Return ==
  /\ pc' = "drain"
  /\ cur' = NoOp /\ ctxDone' = FALSE /\ outcome' = ""

\* fail() and the other ways to a result: finish() is the next step.
Conclude(state) ==
  /\ pc' = "finish" /\ outcome' = state
  /\ UNCHANGED <<cur, ctxDone>>

Goto(next) == pc' = next /\ UNCHANGED <<cur, ctxDone, outcome>>

LoopWakes ==
  /\ pc = "wait" /\ wake
  /\ wake' = FALSE
  /\ pc' = "drain"
  /\ UNCHANGED <<db, cur, ctxDone, outcome, world, history, pend, crashes>>

LoopDrains ==
  LET waiting == {id \in Known(mem) : mem.op[id].state = "queued"}
  IN  /\ pc = "drain"
      /\ IF poisoned \/ waiting = {}
         THEN pc' = "wait" /\ UNCHANGED cur
         ELSE pc' = "begin" /\ cur' \in NextOf(waiting, {})
      /\ UNCHANGED <<db, wake, ctxDone, outcome, world, history, pend, crashes>>

\* Mutant: the credential and the plan are not looked at again.
refusedByFence(d, id) == ~recoveryAdmission(d, PlanOf(d, id), id)

\* The first transaction re-checks the fence, the credential and the plan.
refused(d, id) ==
  LET p == PlanOf(d, id)
  IN  \/ ~recoveryAdmission(d, p, id)
      \/ p.actor \in withdrawn
      \/ ~RoleAllows(p.actor, p.action)
      \/ d.op[id].plan \in expired

Begin ==
  LET o == mem.op[cur]
      d == WithOp(mem, cur, [o EXCEPT !.state =
             IF refused(mem, cur) THEN "failed" ELSE "running"])
  IN  /\ pc = "begin"
      /\ \/ (poisoned \/ o.state # "queued") /\ Return /\ UNCHANGED db
         \/ o.state = "queued" /\ Update(d) /\ Goto("reread")
         \/ o.state = "queued" /\ UpdateFails(d) /\ Return
      /\ UNCHANGED <<wake, world, history, pend, crashes>>

\* A cancellation may already have been recorded.
Reread ==
  /\ pc = "reread"
  /\ IF mem.op[cur].state = "running" THEN Goto("preflight") ELSE Return
  /\ UNCHANGED <<db, wake, world, history, pend, crashes>>

\* Mutant: a plan reviewed against another source revision goes ahead.
DriftIgnored(p, reachable) == preflight(p, reachable) /\ preconditions(p) = p.pre

StillValid(p, reachable) ==
  /\ preflight(p, reachable)
  /\ p.src = source
  /\ preconditions(p) = p.pre

\* Source.Read, preflight, ValidateDraft, drift and cancellation checks.  The
\* adapter's own validation may refuse for reasons of its own.
Preflight(reachable) ==
  LET p == PlanOf(mem, cur)
  IN  /\ pc = "preflight"
      /\ \/ Conclude("failed")
         \/ /\ StillValid(p, reachable)
            /\ IF ctxDone THEN Conclude("cancelled")
               ELSE IF p.action = "operation.reconcile" THEN Conclude("succeeded")
               ELSE IF p.desired # source THEN Goto("source-intent")
               ELSE Goto("dispatch-intent")
      /\ UNCHANGED <<db, wake, world, history, pend, crashes>>

\* A transaction of execute() on its own operation: on an error it returns and
\* leaves the record as it stands.
Step(o, next) ==
  /\ \/ poisoned /\ Return /\ UNCHANGED db
     \/ Update(WithOp(mem, cur, o)) /\ Goto(next)
     \/ UpdateFails(WithOp(mem, cur, o)) /\ Return
  /\ UNCHANGED <<wake, world, history, pend, crashes>>

\* progress("source-update-intent") changes only the phase.
SourceIntent == pc = "source-intent" /\ Step(mem.op[cur], "source")

\* Source.Update.  A failed write may have replaced the file or not, and is
\* uncertain.
SourceUpdate ==
  LET desired == PlanOf(mem, cur).desired
  IN  /\ pc = "source"
      /\ \/ /\ source' = desired
            /\ Goto("source-done")
            /\ UNCHANGED faults
         \/ /\ faults < MaxFaults
            /\ faults' = faults + 1
            /\ source' \in {source, desired}
            /\ Conclude("recovery-required")
      /\ changed' = IF source' # source THEN changed \cup {cur} ELSE changed
      /\ UNCHANGED <<mem, disk, poisoned, wake, expired, withdrawn, exec, sent, acked,
                     pend, crashes>>

SourceDone ==
  pc = "source-done" /\ Step([mem.op[cur] EXCEPT !.updated = TRUE], "dispatch-intent")

\* Mutant: the dispatch is not recorded before it happens.
DispatchUnrecorded == pc = "dispatch-intent" /\ Step(mem.op[cur], "dispatch")

DispatchIntent ==
  pc = "dispatch-intent" /\ Step([mem.op[cur] EXCEPT !.dispatched = TRUE], "dispatch")

\* Adapter.Execute hands the request over ...
Dispatch ==
  /\ pc = "dispatch"
  /\ exec' = [exec EXCEPT ![cur] = "sending"]
  /\ sent' = [sent EXCEPT ![cur] = @ + 1]
  /\ Goto("await")
  /\ UNCHANGED <<db, wake, source, expired, withdrawn, changed, acked, pend, crashes>>

\* Mutants: acceptance of the request counts as success; no answer counts as a
\* failure.
AwaitAcceptance ==
  /\ pc = "await"
  /\ \/ exec[cur] \in {"failed", "recovery-required"} /\ Conclude(exec[cur])
     \/ exec[cur] \in {"refused", "unsaved"} /\ Conclude("failed")
     \/ exec[cur] \in {"running", "succeeded"} /\ Conclude("succeeded")
     \/ Conclude("recovery-required")
  /\ UNCHANGED <<db, wake, world, history, pend, crashes>>
AwaitFails ==
  /\ pc = "await"
  /\ \/ exec[cur] \in {"succeeded", "failed", "recovery-required"} /\ Conclude(exec[cur])
     \/ exec[cur] \in {"refused", "unsaved"} /\ Conclude("failed")
     \/ Conclude("failed")
  /\ UNCHANGED <<db, wake, world, history, pend, crashes>>

\* ... and returns the executor's result, or gives up on a lost connection, the
\* deadline or a cancellation without knowing it.
Await ==
  /\ pc = "await"
  /\ \/ exec[cur] \in {"succeeded", "failed", "recovery-required"} /\ Conclude(exec[cur])
     \/ exec[cur] \in {"refused", "unsaved"} /\ Conclude("failed")
     \/ Conclude("recovery-required")
  /\ UNCHANGED <<db, wake, world, history, pend, crashes>>

Finish ==
  LET d == finished(mem, cur, outcome)
  IN  /\ pc = "finish"
      /\ Return
      /\ IF poisoned \/ finishRefused(mem, cur, outcome) THEN UNCHANGED db
         ELSE Update(d) \/ UpdateFails(d)
      /\ UNCHANGED <<wake, world, history, pend, crashes>>

-----------------------------------------------------------------------------
(* Exits and restarts.                                                       *)

\* The process exits at any point, or is restarted because its store refuses
\* writes.  The snapshot is read back; work in the controller's own process
\* ends with it.
Restart ==
  /\ poisoned \/ crashes < MaxCrashes
  /\ crashes' = IF poisoned THEN crashes ELSE crashes + 1
  /\ mem' = disk /\ poisoned' = FALSE
  /\ pc' = "start" /\ wake' = FALSE
  /\ cur' = NoOp /\ ctxDone' = FALSE /\ outcome' = ""
  /\ pend' = Nobody
  /\ exec' = [id \in OpIds |->
       IF /\ exec[id] \in {"sending", "running"}
          /\ PlanOf(disk, id).action \in Local
       THEN "recovery-required" ELSE exec[id]]
  /\ UNCHANGED <<disk, faults, source, expired, withdrawn, history>>

\* Start(): what an operation found running is taken to be.
inspected(id, reachable) ==
  IF inspect(id, reachable) \in {"error", "running"} THEN "recovery-required"
  ELSE inspect(id, reachable)

\* Mutant: only dispatched work is looked at.
InterruptedDispatched == {id \in Active(mem) : mem.op[id].dispatched}

Interrupted == {id \in Active(mem) : mem.op[id].state # "queued"}

StartInspects(id, reachable) ==
  LET d == finished(mem, id, inspected(id, reachable))
  IN  /\ pc = "start" /\ id \in Interrupted
      /\ ~finishRefused(mem, id, inspected(id, reachable))
      /\ Update(d) \/ UpdateFails(d)
      /\ UNCHANGED <<loop, world, history, pend, crashes>>

Start ==
  /\ pc = "start" /\ Interrupted = {} /\ ~poisoned
  /\ pc' = "wait" /\ signal
  /\ UNCHANGED <<db, cur, ctxDone, outcome, world, history, pend, crashes>>

\* The operation's deadline, or the controller's shutdown.  After preflight
\* only the adapter looks at the context, and Await may give up at any time.
ContextEnds ==
  /\ pc \in {"begin", "reread", "preflight"} /\ ~ctxDone
  /\ ctxDone' = TRUE
  /\ UNCHANGED <<db, wake, pc, cur, outcome, world, history, pend, crashes>>

\* A write of another handler (a session, an audit event) fails.
OtherWriteFails ==
  /\ UpdateFails(mem)
  /\ UNCHANGED <<loop, world, history, pend, crashes>>

PlanExpires(pid) ==
  /\ pid \in Expiring \ expired /\ mem.plan[pid] # NoPlan
  /\ expired' = expired \cup {pid}
  /\ UNCHANGED <<db, loop, source, withdrawn, exec, history, pend, crashes>>

\* A credential is revoked or expires.
Withdraw(a) ==
  /\ a \in Revocable \ withdrawn
  /\ withdrawn' = withdrawn \cup {a}
  /\ UNCHANGED <<db, loop, source, expired, exec, history, pend, crashes>>

-----------------------------------------------------------------------------
(* The executors' side of the contract (external to the engine): a request   *)
(* arrives late or never, is refused or accepted once, and ends by itself.   *)

HostFence == {id \in OpIds : exec[id] = "recovery-required" /\ OnHost(PlanOf(disk, id).action)}

HostAccepts(id) ==
  LET parent == PlanOf(disk, id).parent
  IN  /\ \A x \in OpIds :
           exec[x] \in {"running", "unsaved"} => ~OnHost(PlanOf(disk, x).action)
      /\ IF parent = NoOp THEN HostFence = {}
         ELSE parent \in HostFence /\ HostFence \subseteq Chain(disk, parent)

ExecBecomes(id, state) ==
  /\ exec' = [exec EXCEPT ![id] = state]
  /\ UNCHANGED <<db, loop, source, expired, withdrawn, history, pend, crashes>>

ExecAccepts(id) ==
  /\ exec[id] = "sending"
  /\ OnHost(PlanOf(disk, id).action) => HostAccepts(id)
  /\ ExecBecomes(id, "running")

ExecRefuses(id) == exec[id] = "sending" /\ ExecBecomes(id, "refused")

RequestLost(id) == exec[id] = "sending" /\ ExecBecomes(id, "none")

\* The helper's own journal write fails after its rename: it answers with a
\* refusal and takes nothing more, yet has the record after its restart.
ExecRefusesUnsaved(id) ==
  /\ exec[id] = "sending" /\ OnHost(PlanOf(disk, id).action)
  /\ HostAccepts(id)
  /\ ExecBecomes(id, "unsaved")

RefusalSurfaces(id) == exec[id] = "unsaved" /\ ExecBecomes(id, "recovery-required")

\* A restore that succeeds settles the executor's records of its chain.
ExecEnds(id, state) ==
  /\ exec[id] = "running"
  /\ exec' = [x \in OpIds |->
       IF x = id THEN state
       ELSE IF /\ state = "succeeded" /\ PlanOf(disk, id).parent # NoOp
               /\ x \in HostFence \cap Chain(disk, PlanOf(disk, id).parent)
       THEN "failed" ELSE exec[x]]
  /\ UNCHANGED <<db, loop, source, expired, withdrawn, history, pend, crashes>>

-----------------------------------------------------------------------------
LoopNext ==
  \/ LoopWakes \/ LoopDrains \/ Begin \/ Reread
  \/ \E reachable \in BOOLEAN : Preflight(reachable)
  \/ SourceIntent \/ SourceUpdate \/ SourceDone
  \/ DispatchIntent \/ Dispatch \/ Await \/ Finish

ApiNext ==
  \/ \E a \in Actors, action \in Actions, desired \in Revs :
       CreatePlan(a, action, NoOp, desired, TRUE)
  \/ \E a \in Actors, action \in {"profile.restore", "operation.reconcile"},
        parent \in OpIds, reachable \in BOOLEAN :
       CreatePlan(a, action, parent, source, reachable)
  \/ \E a \in Actors, pid \in PlanIds, k \in Keys : Apply(a, pid, k)
  \/ \E a \in Actors, k \in Keys : ApplyAgain(a, k)
  \/ \E a \in Actors, id \in OpIds : Cancel(a, id)
  \/ \E id \in OpIds : Recover(id)
  \/ RecoverFinish

ExecNext ==
  \E id \in OpIds :
    \/ ExecAccepts(id) \/ ExecRefuses(id) \/ RequestLost(id)
    \/ ExecRefusesUnsaved(id) \/ RefusalSurfaces(id)
    \/ \E state \in {"succeeded", "failed", "recovery-required"} : ExecEnds(id, state)

StartNext ==
  \/ Start
  \/ \E id \in OpIds, reachable \in BOOLEAN : StartInspects(id, reachable)

Next ==
  \/ LoopNext \/ ApiNext \/ ExecNext \/ StartNext \/ Restart
  \/ ContextEnds \/ OtherWriteFails
  \/ \E pid \in PlanIds : PlanExpires(pid)
  \/ \E a \in Actors : Withdraw(a)

Spec == Init /\ [][Next]_vars

\* The goroutine runs, a started controller finishes Start(), and systemd or
\* the owner restarts one whose store has failed.
Fairness ==
  /\ WF_vars(LoopNext) /\ WF_vars(StartNext) /\ WF_vars(RecoverFinish)
  /\ WF_vars(poisoned /\ Restart)

FairSpec == Spec /\ Fairness

-----------------------------------------------------------------------------
(* Properties                                                                *)

OpStates == {"none", "queued", "running", "cancel-requested", "succeeded", "failed",
             "cancelled", "recovery-required"}
ExecStates == {"none", "sending", "refused", "unsaved", "running", "succeeded", "failed",
               "recovery-required"}
Operations == [state : OpStates, plan : PlanIds \cup {NoOp}, dispatched : BOOLEAN,
               recovery : BOOLEAN, updated : BOOLEAN]
IsDb(d) ==
  /\ d.op \in [OpIds -> Operations]
  /\ d.idem \in [Actors \X Keys -> OpIds \cup {NoOp}]
  /\ \A id \in Known(d) : d.op[id].plan # NoOp /\ PlanOf(d, id) # NoPlan
  /\ \A id \in OpIds : d.op[id].recovery <=> d.op[id].state = "recovery-required"

\* Type correctness, with the invariant every reader of the API relies on: the
\* recovery flag and the recovery-required state of a record agree
\* (engine.go finish), in memory and on disk.
TypeOK ==
  /\ IsDb(mem) /\ IsDb(disk)
  /\ poisoned \in BOOLEAN /\ wake \in BOOLEAN /\ ctxDone \in BOOLEAN
  /\ source \in Revs /\ expired \subseteq PlanIds /\ withdrawn \subseteq Actors
  /\ cur \in OpIds \cup {NoOp} /\ (Executing <=> cur # NoOp)
  /\ outcome \in OpStates \cup {""}
  /\ pend = Nobody \/ pend.id \in Known(mem)
  /\ exec \in [OpIds -> ExecStates]
  /\ sent \in [OpIds -> Nat] /\ changed \subseteq OpIds /\ acked \subseteq OpIds
  /\ faults \in Nat /\ crashes \in Nat

\* Whatever is cancelled, lost or restarted, an operation is handed to its
\* executor at most once, and only after the durable record says so: "Anything
\* dispatched is inspected, never resent" (engine.go Start).
DispatchedOnceAfterIntent ==
  \A id \in OpIds :
    /\ sent[id] <= 1
    /\ sent[id] = 1 => disk.op[id].dispatched

\* Once an operation is settled, its record says whether it replaced the
\* managed source, also when the write was interrupted and a later
\* reconciliation had to find out (engine.go finish, source_updated).
SourceRecordsAreTruthful ==
  \A id \in Known(disk) :
    Settled(disk.op[id]) => (disk.op[id].updated <=> id \in changed)

\* No operation is recorded as finished while its executor is still at work,
\* so that nothing is admitted next to it (engine.go finish, recovery.go
\* recoveryPreflight).  Interrupted evidence operations are exempt: they
\* change nothing and never need recovery.
SettledWorkHasStopped ==
  \A id \in Known(disk) :
    Settled(disk.op[id]) /\ PlanOf(disk, id).action \notin Evidence =>
      exec[id] # "running"

\* Success is recorded only on the executor's own word (engine.go execute,
\* Start, Recover); a reconciliation has no executor.
SuccessIsProven ==
  \A id \in Known(disk) :
    disk.op[id].state = "succeeded" /\ PlanOf(disk, id).action # "operation.reconcile" =>
      exec[id] = "succeeded"

\* At most one attempt at a recovery chain is queued or running (recovery.go
\* recoveryAdmission), so that two restores never race.
OneAttemptPerChain ==
  \A x, y \in {id \in Active(disk) : PlanOf(disk, id).parent # NoOp} :
    x # y => Chain(disk, x) \cap Chain(disk, y) = {}

\* An acknowledged operation survives every crash together with the key that
\* makes a repeated request return it (engine.go Apply, store.go Update).
AcknowledgedWorkIsKept ==
  \A id \in acked :
    id \in Known(disk) /\ \E k \in DOMAIN disk.idem : disk.idem[k] = id

\* Nothing is dispatched, and the source is not replaced, across an unresolved
\* operation of another chain; only hardware.refresh may pass (recovery.go
\* recoveryAdmission, checked at Apply and again when execution begins).
FenceHolds ==
  [][\A id \in OpIds :
       sent'[id] # sent[id] \/ (id \in changed' /\ id \notin changed) =>
         \/ PlanOf(mem, id).action = "hardware.refresh"
         \/ Unresolved(mem) \subseteq Chain(mem, PlanOf(mem, id).parent)]_vars

\* What takes effect is what was reviewed: the source is replaced only from the
\* revision the plan was made against, and the executor is asked only while the
\* source holds the plan's desired revision (engine.go execute, ValidateDraft),
\* whatever other operations ran since the plan was made.
EffectsMatchThePlan ==
  [][\A id \in OpIds :
       /\ sent'[id] # sent[id] => source = PlanOf(mem, id).desired
       /\ id \in changed' \ changed => source = PlanOf(mem, id).src]_vars

\* An evidence or export operation never raises the recovery fence, however it
\* is interrupted, restarted or inspected (engine.go finish).
EvidenceNeverFences ==
  \A id \in Unresolved(disk) : PlanOf(disk, id).action \notin Evidence

\* Once the credential behind a queued operation is withdrawn, or its plan has
\* expired, it never reaches an executor (engine.go execute).
LapsedAuthorityHasNoEffect ==
  \A id \in OpIds :
    [](/\ mem.op[id].state = "queued"
       /\ PlanOf(mem, id).actor \in withdrawn \/ mem.op[id].plan \in expired
       => [](sent[id] = 0))

\* A settled record never takes another result than the one its executor
\* proves (engine.go finish does not look at the state it overwrites): a late
\* answer of Recover may correct a record, nothing may invent one.
SettledOnlyYieldsToProof ==
  [][\A id \in Known(disk) :
       Settled(disk.op[id]) /\ PlanOf(disk, id).action \notin Evidence =>
         disk'.op[id].state \in {disk.op[id].state, exec[id]}]_vars

\* A settled record keeps its result; in particular what a reconciliation
\* resolved as failed stays failed: "previous failures retained" (engine.go
\* execute, the reconciliation's result).
SettledIsFinal ==
  [][\A id \in Known(disk) :
       Settled(disk.op[id]) /\ PlanOf(disk, id).action \notin Evidence =>
         disk'.op[id].state = disk.op[id].state]_vars

\* Every queued operation is taken up: the wake-up signal is never lost, also
\* across a failed store and a restart (engine.go Apply, loop, Start).
QueuedIsTaken ==
  \A id \in OpIds : mem.op[id].state = "queued" ~> mem.op[id].state # "queued"

\* No operation stays "running": it ends, or is put up for recovery, by the
\* goroutine or at the next start (engine.go execute, finish, Start).
RunningIsConcluded ==
  \A id \in OpIds : mem.op[id].state = "running" ~> mem.op[id].state # "running"

=============================================================================
