----------------------------- MODULE HostExecutor -----------------------------
(***************************************************************************)
(* bridge-hostd: the root helper that performs GPU handovers               *)
(* (internal/hostexec/executor.go, with the effect boundary of             *)
(* runtime.go and the lifecycle of server.go).                             *)
(*                                                                         *)
(* The helper keeps one journal file per operation.  A record is written   *)
(* as "running" before anything happens, the effect runs in a child        *)
(* process that inherits the canonical session lock, and the final result  *)
(* is written before an uncertain operation it recovers is settled.  The   *)
(* process may be killed between any two of these writes, each write may   *)
(* fail before or after its rename, and the legacy command line competes   *)
(* for the lock.                                                           *)
(***************************************************************************)
EXTENDS RecoveryLinks

CONSTANTS
  Ids,          \* operation IDs the API may submit
  Drafts,       \* typed requests: [action, parent]; one payload hash each
  Target,       \* the only target root policy authorizes
  Times,        \* wall-clock readings
  ClockSteps,   \* TRUE: the wall clock may repeat or step back
  MaxRecords,   \* policy.MaxRecords, the journal's retention limit
  MaxFaults,    \* bound: failed journal writes
  MaxCrashes    \* bound: forced helper exits

ASSUME HostConstants ==
  /\ Ids \subseteq Nat \ {NoOp}
  /\ \A d \in Drafts : d.parent \in Ids \cup {NoOp}
  /\ Target # ""
  /\ Times \subseteq Nat
  /\ ClockSteps \in BOOLEAN
  /\ MaxRecords \in Nat /\ MaxFaults \in Nat /\ MaxCrashes \in Nat

VARIABLES
  disk,           \* the journal directory: one durable record per ID
  mem,            \* e.records
  journalFailed,  \* e.journalFailed
  pc,             \* where the helper process is
  job,            \* the operation whose finish() runs (e.active), or NoOp
  res,            \* finish()'s local record r
  scan,           \* load(): journal entries not yet read
  roll,           \* load(): successful restores not yet rolled forward
  winner,         \* settleRecoveryChain's recoveredID
  todo,           \* settleRecoveryChain: chain members not yet settled
  helperLock,     \* the helper holds the canonical lock
  child,          \* the operation whose effect process is alive, or NoOp
  legacy,         \* the legacy command line holds the canonical lock
  session,        \* external: state.json of the installed session code
  inhibit,        \* external: /run/workstation/build-inhibit exists
  effects,        \* history: how often an operation's effect was started
  faults, crashes \* how much of the fault budget is used

journal == <<disk, mem, journalFailed, faults>>
control == <<pc, job, res, scan, roll, winner, todo>>
host    == <<helperLock, child, legacy, session, inhibit, effects>>
vars    == <<journal, control, host, crashes>>

States == {"none", "running", "succeeded", "failed", "recovery-required"}

\* A record without a state stands for a journal file that does not exist.
Record == [action : {d.action : d \in Drafts} \cup {""},
           parent : Ids \cup {NoOp},
           target : {Target},
           state  : States,
           started: Times \cup {0},
           by     : Ids \cup {NoOp}]      \* Phase "recovered-by-<id>"

Blank == [action |-> "", parent |-> NoOp, target |-> Target,
          state |-> "none", started |-> 0, by |-> NoOp]

WithState(r, s) == [r EXCEPT !.state = s]

Known(j) == {id \in Ids : j[id].state # "none"}

\* Mutant: a refused restore attempt counts as unresolved.
UnresolvedOrFailed(j) ==
  {id \in Ids : j[id].state \in {"recovery-required", "failed"}}

Unresolved(j) == {id \in Ids : j[id].state = "recovery-required"}

\* Evidence actions (memory and performance analysis) count as read-only.
readOnlyAction(action) ==
  action \in {"hardware.refresh", "cpu-policy.export", "memory.evidence.import",
              "memory.plan.export", "performance.export",
              "performance.profile.select"}

recoveryLinks(j) ==
  [id \in Known(j) |-> [parent |-> j[id].parent, target |-> j[id].target,
                        action |-> j[id].action]]

Chain(j, id) == RecoveryChain(recoveryLinks(j), id)

Modes == {"ai", "gaming", "maintenance"}
Session == [mode : Modes, phase : {"ready", "transition"}]
Ready(m) == [mode |-> m, phase |-> "ready"]
InTransition(s) == [s EXCEPT !.phase = "transition"]

\* Mutant: the effect process does not inherit the lock.
LockFreeOfChild == ~helperLock /\ ~legacy

LockFree == ~helperLock /\ child = NoOp /\ ~legacy

-----------------------------------------------------------------------------
(* save(): the record becomes in-memory truth only when the write succeeded. *)
(* A failure before the rename leaves the old file, a failure to sync the    *)
(* directory leaves the new one; both fence every later mutation.            *)

SaveSucceeds(id, r) ==
  /\ disk' = [disk EXCEPT ![id] = r]
  /\ mem'  = [mem EXCEPT ![id] = r]
  /\ UNCHANGED <<journalFailed, faults>>

\* Mutant: the in-memory record is replaced before the write.
SaveFailsAfterUpdate(id, r) ==
  /\ faults < MaxFaults
  /\ faults' = faults + 1
  /\ disk' \in {disk, [disk EXCEPT ![id] = r]}
  /\ journalFailed' = TRUE
  /\ mem' = [mem EXCEPT ![id] = r]

SaveFails(id, r) ==
  /\ faults < MaxFaults
  /\ faults' = faults + 1
  /\ disk' \in {disk, [disk EXCEPT ![id] = r]}
  /\ journalFailed' = TRUE
  /\ UNCHANGED mem

-----------------------------------------------------------------------------
(* Submit                                                                    *)

\* Mutant: only restores are checked against the unresolved records.
validateRecoveryOfRestores(d) ==
  d.parent # NoOp => /\ mem[d.parent].state = "recovery-required"
                     /\ Unresolved(mem) \subseteq Chain(mem, d.parent)

\* With an unresolved record only a restore that names one of its chain may
\* run, and only when no unresolved record lies outside that chain.
validateRecovery(d) ==
  IF d.parent = NoOp
  THEN Unresolved(mem) = {}
  ELSE /\ d.action = "profile.restore"
       /\ mem[d.parent].state = "recovery-required"
       /\ HostRestoreRequired(mem[d.parent].action)
       /\ mem[d.parent].target = Target
       /\ d.parent \in Chain(mem, d.parent)
       /\ Unresolved(mem) \subseteq Chain(mem, d.parent)

\* Mutant: the intent is journalled in a state load() does not know.
AcceptedAsQueued(d, now) ==
  [Blank EXCEPT !.action = d.action, !.parent = d.parent,
                !.state = "queued", !.started = now]

Accepted(d, now) ==
  [Blank EXCEPT !.action = d.action, !.parent = d.parent,
                !.state = "running", !.started = now]

\* A new ID with valid contents.  A known ID, a busy or fenced helper, a full
\* journal, a failed validation and a held lock all refuse without effect.
Submit(id, d, now) ==
  /\ pc = "idle" /\ job = NoOp
  /\ mem[id].state = "none"
  /\ ~journalFailed
  /\ Cardinality(Known(mem)) < MaxRecords
  /\ validateRecovery(d)
  /\ LockFree
  /\ ClockSteps \/ \A x \in Known(disk) : disk[x].started < now
  /\ \/ /\ SaveSucceeds(id, Accepted(d, now))
        /\ job' = id /\ res' = Accepted(d, now) /\ pc' = "preflight"
        /\ helperLock' = TRUE
     \/ /\ SaveFails(id, Accepted(d, now))
        /\ UNCHANGED <<job, res, pc, helperLock>>
  /\ UNCHANGED <<scan, roll, winner, todo, child, legacy, session, inhibit,
                 effects, crashes>>

-----------------------------------------------------------------------------
(* finish(): the effect itself runs without the mutex, everything after it   *)
(* under the mutex, so only a forced exit can come between its writes.       *)

\* Every return of finish(): active is cleared and the lock closed last.
FinishReturns ==
  /\ job' = NoOp /\ res' = Blank /\ pc' = "idle"
  /\ winner' = NoOp /\ todo' = {}
  /\ helperLock' = FALSE

\* execute() fails before effectStarted, or a read-only action fails.
PreflightRefused ==
  /\ pc = "preflight"
  /\ res' = WithState(res, "failed")
  /\ pc' = "final"
  /\ UNCHANGED <<journal, host, crashes, job, scan, roll, winner, todo>>

ReadOnlyCompletes ==
  /\ pc = "preflight" /\ readOnlyAction(res.action)
  /\ res' = WithState(res, "succeeded")
  /\ pc' = "final"
  /\ UNCHANGED <<journal, host, crashes, job, scan, roll, winner, todo>>

\* execute() validated again under the lock; session() sets effectStarted and
\* starts workstationctl, which inherits the lock and inhibits builds.
StartEffect ==
  /\ pc = "preflight" /\ ~readOnlyAction(res.action)
  /\ validateRecovery([action |-> res.action, parent |-> res.parent])
  /\ effects' = [effects EXCEPT ![job] = @ + 1]
  /\ child' = job
  /\ session' = InTransition(session)
  /\ inhibit' = TRUE
  /\ pc' = "effect"
  /\ UNCHANGED <<journal, crashes, job, res, scan, roll, winner, todo,
                 helperLock, legacy>>

\* The mode an action asks the installed session code for.
EffectModes(action) ==
  CASE action \in {"serving.start", "serving.restart"} -> {"ai"}
    [] action = "serving.stop" -> {"maintenance"}
    [] action \in {"serving.configure", "resources.configure"} -> {"ai", "maintenance"}
    [] OTHER -> Modes

EffectSucceeds ==
  /\ pc = "effect" /\ child = job
  /\ child' = NoOp
  /\ \E m \in EffectModes(res.action) :
       session' = Ready(m)
  /\ res' = WithState(res, "succeeded")
  /\ pc' = "pending"
  /\ UNCHANGED <<journal, crashes, job, scan, roll, winner, todo,
                 helperLock, legacy, inhibit, effects>>

\* A refusal of the runtime or an expired deadline; runFixed reaps the child.
EffectFails ==
  /\ pc = "effect" /\ child = job
  /\ child' = NoOp
  /\ res' = WithState(res, "recovery-required")
  /\ pc' = "final"
  /\ UNCHANGED <<journal, crashes, job, scan, roll, winner, todo,
                 helperLock, legacy, session, inhibit, effects>>

\* The "build-gate-disposition" record, still "running".
SavePending ==
  /\ pc = "pending"
  /\ LET r == WithState(res, "running") IN
     \/ SaveSucceeds(job, r) /\ pc' = "finalize" /\ UNCHANGED <<job, res, winner, todo, helperLock>>
     \/ SaveFails(job, r) /\ FinishReturns
  /\ UNCHANGED <<scan, roll, child, legacy, session, inhibit, effects, crashes>>

\* Mutant: every completed transition lets builds start again.
FinalizeAnyProfile ==
  /\ pc = "finalize"
  /\ inhibit' = FALSE
  /\ pc' = "final"
  /\ UNCHANGED <<journal, crashes, job, res, scan, roll, winner, todo,
                 helperLock, child, legacy, session, effects>>

\* finishBuildGate() after a completed transition: only the AI profile lets
\* managed builds start again.  An I/O error may come before or after the
\* marker's removal.
Finalize ==
  /\ pc = "finalize"
  /\ LET cleared == IF session = Ready("ai")
                    THEN FALSE ELSE inhibit IN
     \/ /\ session.phase = "ready"
        /\ inhibit' = cleared
        /\ UNCHANGED res
     \/ /\ inhibit' \in {inhibit, cleared}
        /\ res' = WithState(res, "recovery-required")
  /\ pc' = "final"
  /\ UNCHANGED <<journal, crashes, job, scan, roll, winner, todo,
                 helperLock, child, legacy, session, effects>>

\* Mutant: the start order of the attempts is not compared.
SettlementUnordered(j, w) == w \in Chain(j, w)

\* settleRecoveryChain's checks: the winner's chain is unambiguous and every
\* unresolved member started before it.
SettlementAllowed(j, w) ==
  /\ w \in Chain(j, w)
  /\ \A id \in (Chain(j, w) \ {w}) \cap Unresolved(j) :
        j[id].started # 0 /\ j[id].started < j[w].started

\* The final record, and the checks of settleRecoveryChain for a restore.
SaveFinal ==
  /\ pc = "final"
  /\ \/ /\ SaveFails(job, res) /\ FinishReturns
     \/ /\ ~(res.state = "succeeded" /\ res.parent # NoOp)
        /\ SaveSucceeds(job, res) /\ FinishReturns
     \/ /\ res.state = "succeeded" /\ res.parent # NoOp
        /\ disk' = [disk EXCEPT ![job] = res]
        /\ mem'  = [mem EXCEPT ![job] = res]
        /\ UNCHANGED faults
        /\ IF SettlementAllowed(mem', job)
           THEN /\ winner' = job
                /\ todo' = (Chain(mem', job) \ {job}) \cap Unresolved(mem')
                /\ pc' = "settle"
                /\ UNCHANGED <<job, res, helperLock, journalFailed>>
           ELSE /\ journalFailed' = TRUE
                /\ FinishReturns
  /\ UNCHANGED <<scan, roll, child, legacy, session, inhibit, effects, crashes>>

Settled(r) == [r EXCEPT !.state = "failed", !.by = winner]

\* settleRecoveryChain writes the parents one by one in ID order.
First(S, id) == id \in S /\ \A x \in S : id <= x

Settle ==
  /\ pc = "settle"
  /\ \/ /\ todo = {} /\ FinishReturns /\ UNCHANGED journal
     \/ \E id \in todo :
          /\ First(todo, id)
          /\ \/ /\ SaveSucceeds(id, Settled(mem[id]))
                /\ todo' = todo \ {id}
                /\ UNCHANGED <<job, res, pc, winner, helperLock>>
             \/ /\ SaveFails(id, Settled(mem[id])) /\ FinishReturns
  /\ UNCHANGED <<scan, roll, child, legacy, session, inhibit, effects, crashes>>

-----------------------------------------------------------------------------
(* Forced exit, and load() on the next start                                 *)

ProcessGone ==
  /\ pc' = "down" /\ job' = NoOp /\ res' = Blank
  /\ scan' = {} /\ roll' = {} /\ winner' = NoOp /\ todo' = {}
  /\ helperLock' = FALSE

\* A killed helper leaves its effect process, and through it the lock, behind
\* unless the service manager kills that too.
Crash ==
  /\ pc # "down"
  /\ crashes < MaxCrashes
  /\ crashes' = crashes + 1
  /\ ProcessGone
  /\ mem' = [id \in Ids |-> Blank] /\ journalFailed' = FALSE
  /\ child' \in {child, NoOp}
  /\ UNCHANGED <<disk, faults, legacy, session, inhibit, effects>>

\* The owner stops the idle or fenced helper (Serve drains an active finish()).
Stop ==
  /\ pc = "idle" /\ job = NoOp
  /\ ProcessGone
  /\ mem' = [id \in Ids |-> Blank] /\ journalFailed' = FALSE
  /\ UNCHANGED <<disk, faults, crashes, child, legacy, session, inhibit, effects>>

\* Mutant: load() reads unfinished records only.
StartUnfinishedOnly ==
  /\ pc = "down"
  /\ pc' = "scan"
  /\ scan' = {id \in Known(disk) : disk[id].state = "running"}
  /\ UNCHANGED <<journal, host, crashes, job, res, roll, winner, todo>>

Start ==
  /\ pc = "down"
  /\ pc' = "scan"
  /\ scan' = Known(disk)
  /\ UNCHANGED <<journal, host, crashes, job, res, roll, winner, todo>>

\* load() returned an error: NewExecutor fails and the process exits.
StartupFails ==
  /\ ProcessGone
  /\ mem' = [id \in Ids |-> Blank] /\ journalFailed' = FALSE

\* Mutants: interrupted work is always a plain failure; it is left as it is.
InterruptedFails(r) == WithState(r, "failed")
InterruptedIgnored(r) == r

Interrupted(r) ==
  WithState(r, IF readOnlyAction(r.action) THEN "failed" ELSE "recovery-required")

\* The next journal file in directory order; unfinished work is disposed of.
LoadRecord ==
  /\ pc = "scan"
  /\ \E id \in scan :
       /\ First(scan, id)
       /\ \/ /\ disk[id].state # "running"
             /\ mem' = [mem EXCEPT ![id] = disk[id]]
             /\ scan' = scan \ {id}
             /\ UNCHANGED <<disk, journalFailed, faults, pc, job, res, roll,
                            winner, todo, helperLock>>
          \/ /\ disk[id].state = "running"
             /\ SaveSucceeds(id, Interrupted(disk[id]))
             /\ scan' = scan \ {id}
             /\ UNCHANGED <<pc, job, res, roll, winner, todo, helperLock>>
          \/ /\ disk[id].state = "running"
             /\ faults < MaxFaults /\ faults' = faults + 1
             /\ disk' \in {disk, [disk EXCEPT ![id] = Interrupted(disk[id])]}
             /\ StartupFails
  /\ UNCHANGED <<child, legacy, session, inhibit, effects, crashes>>

SucceededRestores(j) ==
  {id \in Ids : j[id].state = "succeeded" /\ j[id].action = "profile.restore"
                 /\ j[id].parent # NoOp}

recoverySettlementPending(j) ==
  \E id \in SucceededRestores(j) :
     (Chain(j, id) \ {id}) \cap Unresolved(j) # {}

\* Settlement at startup needs the canonical lock; contention refuses startup.
LoadLock ==
  /\ pc = "scan" /\ scan = {}
  /\ IF recoverySettlementPending(mem) /\ ~LockFree
     THEN StartupFails /\ UNCHANGED <<disk, faults>>
     ELSE /\ helperLock' = recoverySettlementPending(mem)
          /\ pc' = "roll" /\ roll' = SucceededRestores(mem)
          /\ UNCHANGED <<journal, job, res, scan, winner, todo>>
  /\ UNCHANGED <<child, legacy, session, inhibit, effects, crashes>>

\* Mutant: startup reads the successful restores but settles nothing.
RollForwardSkips ==
  /\ pc = "roll" /\ todo = {}
  /\ \E id \in roll : First(roll, id) /\ roll' = roll \ {id}
  /\ UNCHANGED <<journal, pc, job, res, scan, winner, todo, host, crashes>>

\* rollForwardRecoverySettlements: the next successful restore in ID order.
RollForward ==
  /\ pc = "roll" /\ todo = {}
  /\ \E id \in roll :
       /\ First(roll, id)
       /\ IF SettlementAllowed(mem, id)
          THEN /\ winner' = id
               /\ todo' = (Chain(mem, id) \ {id}) \cap Unresolved(mem)
               /\ roll' = roll \ {id}
               /\ UNCHANGED <<journal, pc, job, res, scan, helperLock>>
          ELSE StartupFails /\ UNCHANGED <<disk, faults>>
  /\ UNCHANGED <<child, legacy, session, inhibit, effects, crashes>>

RollSettle ==
  /\ pc = "roll"
  /\ \E id \in todo :
       /\ First(todo, id)
       /\ \/ /\ SaveSucceeds(id, Settled(mem[id]))
             /\ todo' = todo \ {id}
             /\ UNCHANGED <<pc, job, res, scan, roll, winner, helperLock>>
          \/ /\ faults < MaxFaults /\ faults' = faults + 1
             /\ disk' \in {disk, [disk EXCEPT ![id] = Settled(mem[id])]}
             /\ StartupFails
  /\ UNCHANGED <<child, legacy, session, inhibit, effects, crashes>>

Serve ==
  /\ pc = "roll" /\ todo = {} /\ roll = {}
  /\ pc' = "idle" /\ winner' = NoOp /\ helperLock' = FALSE
  /\ UNCHANGED <<journal, crashes, job, res, scan, roll, todo, child, legacy,
                 session, inhibit, effects>>

-----------------------------------------------------------------------------
(* The environment                                                           *)

\* The effect process of a killed helper ends, complete or not.
OrphanExits ==
  /\ child # NoOp /\ child # job
  /\ child' = NoOp
  /\ session' \in {session} \cup
       {Ready(m) : m \in EffectModes(disk[child].action)}
  /\ UNCHANGED <<journal, control, crashes, helperLock, legacy, inhibit, effects>>

\* A direct session command of the installed command line under the same lock.
LegacyStarts ==
  /\ LockFree
  /\ legacy' = TRUE
  /\ session' = InTransition(session)
  /\ inhibit' = TRUE
  /\ UNCHANGED <<journal, control, crashes, helperLock, child, effects>>

LegacyEnds ==
  /\ legacy
  /\ legacy' = FALSE
  /\ session' \in {session} \cup
       {Ready(m) : m \in Modes}
  /\ UNCHANGED <<journal, control, crashes, helperLock, child, inhibit, effects>>

-----------------------------------------------------------------------------
Init ==
  /\ disk = [id \in Ids |-> Blank] /\ mem = [id \in Ids |-> Blank]
  /\ journalFailed = FALSE /\ faults = 0 /\ crashes = 0
  /\ pc = "down" /\ job = NoOp /\ res = Blank
  /\ scan = {} /\ roll = {} /\ winner = NoOp /\ todo = {}
  /\ helperLock = FALSE /\ child = NoOp /\ legacy = FALSE
  /\ session = Ready("maintenance")
  /\ inhibit = TRUE
  /\ effects = [id \in Ids |-> 0]

Finish ==
  \/ PreflightRefused \/ ReadOnlyCompletes \/ StartEffect
  \/ EffectSucceeds \/ EffectFails
  \/ SavePending \/ Finalize \/ SaveFinal \/ Settle

Load == Start \/ LoadRecord \/ LoadLock \/ RollForward \/ RollSettle \/ Serve

Next ==
  \/ \E id \in Ids, d \in Drafts, now \in Times : Submit(id, d, now)
  \/ Finish \/ Load
  \/ Crash \/ Stop
  \/ OrphanExits \/ LegacyStarts \/ LegacyEnds

Spec == Init /\ [][Next]_vars

\* The helper's own code runs (finish() is bounded by a deadline), the service
\* manager restarts an exited helper (Restart=on-failure), the owner restarts a
\* fenced one, and effect processes and direct session commands end.
Fairness ==
  /\ WF_vars(Finish) /\ WF_vars(Load)
  /\ WF_vars(journalFailed /\ Stop)
  /\ WF_vars(OrphanExits) /\ WF_vars(LegacyEnds)

FairSpec == Spec /\ Fairness

-----------------------------------------------------------------------------
TypeOK ==
  /\ disk \in [Ids -> Record] /\ mem \in [Ids -> Record]
  /\ journalFailed \in BOOLEAN
  /\ pc \in {"down", "scan", "roll", "idle", "preflight", "effect", "pending",
             "finalize", "final", "settle"}
  /\ job \in Ids \cup {NoOp} /\ res \in Record
  /\ scan \subseteq Ids /\ roll \subseteq Ids
  /\ winner \in Ids \cup {NoOp} /\ todo \subseteq Ids
  /\ helperLock \in BOOLEAN /\ child \in Ids \cup {NoOp} /\ legacy \in BOOLEAN
  /\ session \in Session
  /\ inhibit \in BOOLEAN
  /\ effects \in [Ids -> Nat]
  /\ faults \in Nat /\ crashes \in Nat

\* Status and Submit answer while the mutex is free after a complete load().
Serving == pc \in {"idle", "preflight", "effect"}

\* Mutant: Status reports the stored state although settlement failed.
visibleResultUnfenced(id) == mem[id].state

visibleResult(id) ==
  IF journalFailed /\ id \in SucceededRestores(mem)
  THEN "recovery-required" ELSE mem[id].state

\* What Status reports as settled is what a restart will find in the journal:
\* a write that failed before or after its rename never shows as a result
\* (executor.go:116-128, 181-189, 236-241).
ReportedResultsAreDurable ==
  Serving => \A id \in Ids :
    visibleResult(id) \in {"succeeded", "failed"} =>
      disk[id].state = visibleResult(id)

\* The API drops its own fence when a restore reports success, so that report
\* must wait until no member of the restored chain is durably unresolved, also
\* when a settlement write failed half-way or the helper was killed in it
\* (executor.go:236-241, 362-370, 412-485).
ReportedRestoreIsSettled ==
  Serving => \A id \in Ids :
    id \in SucceededRestores(mem) /\ visibleResult(id) = "succeeded" =>
      \A x \in Chain(disk, id) \ {id} :
        disk[x].state \notin {"running", "recovery-required"}

\* No operation's effect is ever started twice, and none is started that the
\* journal does not know: a duplicate Submit, a restart or a failed write never
\* repeats external work (executor.go:200-229, 156-170).
EffectsHappenOnceAfterIntent ==
  \A id \in Ids :
    effects[id] <= 1 /\ (effects[id] = 1 => disk[id].state # "none")

\* A journalled failure of an operation that did touch the workstation is
\* always the mark left by a later restore that durably succeeded; every other
\* failure had no effect (executor.go:325-340, 156-165, 436-447).
FailedEffectsAreRecovered ==
  \A id \in Ids :
    disk[id].state = "failed" /\ effects[id] > 0 =>
      /\ disk[id].by # NoOp
      /\ disk[disk[id].by].state = "succeeded"

\* Settlement stays inside the restored chain and only looks back: an operation
\* marked recovered is a member of its restore's chain that started before it,
\* also after later records, failed writes and a clock that steps back
\* (executor.go:412-449).
SettlementStaysInChain ==
  \A id \in Ids :
    disk[id].by # NoOp =>
      /\ id \in Chain(disk, disk[id].by)
      /\ disk[id].started < disk[disk[id].by].started

\* A new effect starts only when every other durably unfinished or unresolved
\* operation belongs to the chain it was submitted to restore
\* (executor.go:381-410).
EffectsRespectTheFence ==
  [][\A id \in Ids :
       effects'[id] # effects[id] =>
         \A x \in Ids \ {id} :
           disk[x].state \in {"running", "recovery-required"} =>
             /\ disk[id].parent # NoOp
             /\ x \in Chain(disk, disk[id].parent)]_vars

\* A finished journal record is never rewritten: neither a restart, a failed
\* write nor a later settlement changes a success or a failure that the API may
\* have recorded already.
FinishedRecordsAreFinal ==
  [][\A id \in Ids :
       disk[id].state \in {"succeeded", "failed"} => disk'[id] = disk[id]]_vars

\* The canonical lock keeps two effect processes, a settlement and the legacy
\* command line apart, although a killed helper leaves its child running
\* (executor.go:68-79, 171-178, 218; runtime.go:39-45).
GpuExclusion ==
  /\ legacy => child = NoOp /\ todo = {}
  /\ pc = "effect" => child = job
  /\ todo # {} => child = NoOp

\* Managed builds may start only while the last transition is complete and left
\* the AI profile (runtime.go:632-674, under the lock held by finish()).
BuildsOnlyInReadyAI ==
  ~inhibit => session = Ready("ai")

\* What docs/HOST-EXECUTOR.md:70 says ("Interrupted operations retain build
\* inhibition"): while the idle helper reports an operation as needing recovery
\* that no restore has answered, builds are inhibited.
InterruptedWorkInhibitsBuilds ==
  pc = "idle" =>
    \A id \in Unresolved(mem) :
      (\A w \in SucceededRestores(mem) : id \notin Chain(mem, w)) => inhibit

\* Under Fairness no operation stays unfinished in the journal: it gets its
\* result, or the next start disposes of it.
UnfinishedWorkIsDisposed ==
  \A id \in Ids : disk[id].state = "running" ~> disk[id].state # "running"

\* Under Fairness and a monotonic clock, a durable successful restore settles
\* its whole chain, however often settlement was interrupted, unless somebody
\* keeps running direct session commands (contention refuses every start).
SettlementCompletes ==
  <>[]~legacy =>
    \A id \in Ids :
      id \in SucceededRestores(disk) ~>
        (Chain(disk, id) \ {id}) \cap Unresolved(disk) = {}

=============================================================================
