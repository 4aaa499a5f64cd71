# Verification of the workstation bridge

TLA+ models of the AI workstation bridge, checked with TLC on small instances
and, for the root helper, proved with TLAPS for every instance.

## The system

| Part | Where | Role |
| --- | --- | --- |
| Controller `bridged` | `internal/api`, `engine`, `store`, `source`, `auth` | Serves the API, keeps operations, plans, credentials and idempotency records in one JSON snapshot, replaces the managed source file, and drives one operation at a time. |
| Adapters | `internal/adapters` | Send an operation to its executor: the root helper, the build worker, or the model stager in the controller's own process. |
| Root helper `bridge-hostd` | `internal/hostexec` | Accepts typed operations on a Unix socket, runs the installed session tool under the canonical lock, and keeps its own recovery journal. |
| Build worker `bridge-worker` | `internal/worker` | Runs one contained build at a time and keeps its own journal. |
| Pure logic | `internal/domain`, `memory`, `performance` | Validation, recovery links, memory planning. |
| Clients, adviser, telemetry, packaging | the rest | No authority over operations. |

Three processes keep journals of their own and none trusts another's. An
operation goes: plan (validated, ten minutes) -> applied under an idempotency
key -> queued -> running -> source update -> dispatch -> executor result ->
finished. Anything that cannot be shown to have ended becomes
`recovery-required` and fences later mutations until a restore or a
reconciliation settles its chain.

`PROJECT.json` lists every part, modelled or not, and the hazards of the code
with the property that covers each.

## Modules

| Module | Models | Contents |
| --- | --- | --- |
| `RecoveryLinks` | `domain/recovery.go` | Roots and chains of recovery links, as operators on a journal. |
| `MCRecoveryLinks` | - | A journal that grows and shrinks arbitrarily, to compare the operators with a reference definition. |
| `HostExecutor` | `hostexec/executor.go`, parts of `runtime.go`, `server.go` | The helper: admission, effect, final record, settlement, forced exit, load and roll-forward; the lock, the session state and the build gate. |
| `MCHostExecutor` | - | The drafts of the helper's instances. |
| `HostExecutorProofs` | - | The helper's inductive invariant and theorems. |
| `Engine` | `engine/*.go`, `store.Update`, `source.Update` | The controller: API handlers, the executor goroutine, restart, and the executors' contract. |
| `MCEngine` | - | Symmetry for the engine's instances. |

### HostExecutor

`disk` and `mem` are the journal files and `e.records`; a record keeps what
decisions depend on (action, parent, target, start time, state, and `by`, the
restore named in its "recovered-by" phase). `save` either succeeds, or fails
before or after the rename; every failure sets `journalFailed`. `pc` is the
step of `finish()` or `load()`: `idle`, `preflight`, `effect`, `pending`,
`finalize`, `final`, `settle`, and `down`, `scan`, `roll` at start. A forced
exit may leave the effect process alive, which holds the lock it inherited
(`child`). A direct command-line session competes for the lock (`legacy`).
`inhibit` is the build-inhibit marker and `session` the session tool's state
file. Payload hashes, policy and qualification checks are a refusal that may
happen in any preflight.

### Engine

`mem` and `disk` are the store's state and its snapshot (operations, plans,
idempotency records); `Update` and `UpdateFails` are one transaction and its
failure. `pc`, `cur`, `ctxDone` and `outcome` are the executor goroutine in
`execute()`: one step per transaction, per source write and per call to the
adapter, so an exit or an API request can come between any two. `pend` is a
`Recover` or evidence inspection between the executor's answer and the
transaction that records it. `exec` is what an operation's executor knows:
a request may still be on its way (`sending`), be lost, be refused, run and
end by itself. `sent`, `changed` and `acked` are history.

A plan is created in one step: everything it read is read again before an
effect. IDs and keys are given out in order; the code only compares them.
Retention, audit events and progress phases are left out; a failing write of
any other handler is `OtherWriteFails`.

## What is checked

| Run | Question | Bounds |
| --- | --- | --- |
| `links` | Do roots and chains mean what both journals take them to mean, for any links? | 3 records, 2 targets, 4 kinds of action: the shortest cycle with a tail and a chain of two attempts. |
| `host_safety` | Is the helper's journal truthful and its fence respected, through faults? | 3 operations (a failure, a failed restore, a restore of either), 1 failed write, 1 forced exit, a clock with 2 values that may step back. |
| `host_liveness` | Does unfinished work end, and settlement complete? | 2 operations, 2 failed writes, 1 exit, monotonic clock. |
| `host_inhibit` | Do interrupted operations keep builds inhibited? No: see findings. | 2 operations, 1 exit. |
| `engine_faults` | Is what the controller did on record, once and only once, through faults? | 2 operations and plans, 2 source revisions, 1 failed write, 1 exit. |
| `engine_chain` | Can recoveries, late requests and queued work cross the fence or each other? | 3 operations and plans, no faults: attempts at attempts need three. |
| `engine_authority` | Does authority that lapsed in the queue have an effect? Can evidence work fence? | Owner and operator, 3 actions, one plan that may expire, 1 exit. |
| `engine_liveness` | Is every queued operation taken up, does none stay running? | 2 operations of one plan, 1 failed write, 1 exit. |
| `engine_final` | Does a settled record keep its result? No: see findings. | 2 operations. |

The engine's runs do not check for deadlock: a controller with no requests
left is idle. The helper's and the link runs do.

One fault and one exit are enough for the properties of one interrupted
transaction and the restart that follows it; `host_liveness` allows two failed
writes so that the start after a failure can fail as well. The bounds on
requests, faults and exits appear in guards only.

### Fairness

`HostExecutor!Fairness`: the helper's goroutine and its start make progress,
the service manager starts it again, an effect process ends (`runFixed` has a
deadline and reaps it). `SettlementCompletes` also assumes that direct sessions
stop, since contention for the lock refuses every start by design.

`Engine!Fairness`: the executor goroutine, `Start()` and a pending recovery
request make progress, and a controller whose store failed is restarted. The
executors are not assumed fair: `Await` may always give up, as the adapter does
at its deadline.

### Findings

* `host_inhibit`: `finishBuildGate` opens the build gate before the final
  record is saved. A forced exit in between leaves an operation that needs
  recovery with builds allowed; `docs/HOST-EXECUTOR.md` says interrupted
  operations retain build inhibition. The session itself is then a completed
  AI session (`BuildsOnlyInReadyAI` holds and is proved).
* `engine_final`: `Recover` asks the executor and records the answer in two
  steps, and `finish` does not look at what it overwrites. A reconciliation in
  between settles the record as failed and the late answer turns it into
  succeeded, while `docs/CLI-AND-UI.md` and the reviewed plan say that failed
  attempts are retained. What is written is always the executor's own result
  (`SettledOnlyYieldsToProof` holds).

Two behaviours to know of that no document rules out: a cancellation recorded
between `execute`'s first transaction and its re-read leaves the operation
`cancel-requested` until the next start, which puts it up for recovery although
nothing was dispatched; and a dispatched operation that never reached the
helper can neither be reconciled (no evidence) nor restored (unknown to the
helper).

## What is proved

`HostExecutorProofs` proves, for any set of operation IDs, any drafts and any
number of faults and exits, with the named assumptions of `HostExecutor` on its
constants:

| Theorem | States |
| --- | --- |
| `Invariant` | `IInv` is invariant. |
| `TypeCorrect` | `TypeOK` |
| `DurableResults` | `ReportedResultsAreDurable` |
| `EffectsOnce` | `EffectsHappenOnceAfterIntent` |
| `FailuresRecovered` | `FailedEffectsAreRecovered` |
| `Exclusion` | `GpuExclusion` |
| `BuildGate` | `BuildsOnlyInReadyAI` |
| `FinishedFinal` | `FinishedRecordsAreFinal` |
| `FenceRespected` | `EffectsRespectTheFence` |

None of these is inductive alone. `IInv` adds what ties the parts of the state
together: `ControlInv` (which variables are in use at which `pc`), `MirrorInv`
(memory equals disk unless a write failed or loading has not reached the
record), `RunInv` (the operation in hand is the only durable `running` record
of a serving helper, and its effect count matches its step), `JournalInv` (what
a record's state says about its effect and its settlement) and `LockInv` (who
holds the lock, and the session and marker it protects). Each action has a
lemma that it preserves `IInv`; facts about the record operators are lemmas of
their own, so that the leaves never expand records.

Model-checked only: liveness, and the properties that need induction over the
walk along parent links (`SettlementStaysInChain`, `ReportedRestoreIsSettled`
and the properties of `MCRecoveryLinks`).

## Plan

1. Done: recovery links, the helper with its proofs, the engine.
2. Composition: the live adapter (dispatch record, polling, inspection) between
   `Engine` and `HostExecutor`, with the executors' contract in `Engine` as an
   abstract specification the helper implements.
3. The build worker: admission, journal, containment, restart disposition, and
   `buildJobs` as an operator.
4. The store on its own (retention, budgets, lock file) as an implementation of
   a durable register; sessions, login, revocation and the request limiter.
5. The model stager: download, verification, publication, permission repair.
6. Pure algorithms: draft validation, helper capacity, memory planning.
7. Proofs: the engine's dispatch, acknowledgement and evidence properties from
   an inductive invariant; the worker; the refinement of step 2.

## Not modelled

Packaging, generated code, the command line, telemetry and static assets have
no authority over operations. Policy, inventory and hardware checks of the
helper can only refuse and are such a refusal in the models. `PROJECT.json`
gives the reason for each part.
